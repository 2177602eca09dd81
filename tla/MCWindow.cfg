SPECIFICATION WindowSpec
CONSTANTS
  u1 = u1
  u2 = u2
  r = r
  fw = fw
  fw2 = fw2
  NoKey = NoKey
  U64_MAX = 255
  BPS_MAX = 10
  MAX_DELAY_SEC = 3
  MAX_CLOCK = 8
  Keys <- MCKeys
  Users <- MCUsers
  FeeWallets <- MCFeeWallets
  InitialWallet <- MCInitialWallet
  GlobalParams <- WindowGlobalParams
  MarketParams <- WindowMarketParams
  DepositParams <- LiveDepositParams
  Donations <- LiveDonations
SYMMETRY Symmetry
INVARIANTS
  TimeToObject
