SPECIFICATION Spec
CONSTANTS
  u1 = u1
  u2 = u2
  r = r
  fw = fw
  fw2 = fw2
  NoKey = NoKey
  U64_MAX = 255
  BPS_MAX = 10
  MAX_DELAY_SEC = 2
  MAX_CLOCK = 6
  Keys <- MCKeys
  Users <- MCUsers
  FeeWallets <- LiveFeeWallets
  InitialWallet <- MCInitialWallet
  GlobalParams <- LiveGlobalParams
  MarketParams <- LiveMarketParams
  DepositParams <- LiveDepositParams
  Donations <- LiveDonations
SYMMETRY Symmetry
INVARIANTS
  WithdrawNeedsNoUpdate
