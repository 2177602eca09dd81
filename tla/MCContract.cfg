SPECIFICATION Spec
CONSTANTS
  u1 = u1
  u2 = u2
  r = r
  fw = fw
  fw2 = fw2
  NoKey = NoKey
  U64_MAX = 255
  BPS_MAX = 10
  MAX_DELAY_SEC = 2
  MAX_CLOCK = 5
  Keys <- MCKeys
  Users <- MCUsers
  FeeWallets <- MCFeeWallets
  InitialWallet <- MCInitialWallet
  GlobalParams <- ContractGlobalParams
  MarketParams <- ContractMarketParams
  DepositParams <- LiveDepositParams
  Donations <- MCDonations
SYMMETRY Symmetry
PROPERTIES
  ImplementsContract
