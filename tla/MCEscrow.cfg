SPECIFICATION Spec
CONSTANTS
  u1 = u1
  u2 = u2
  r = r
  fw = fw
  fw2 = fw2
  NoKey = NoKey
  U64_MAX = 255
  BPS_MAX = 10
  MAX_DELAY_SEC = 2
  MAX_CLOCK = 5
  Keys <- MCKeys
  Users <- MCUsers
  FeeWallets <- MCFeeWallets
  InitialWallet <- MCInitialWallet
  GlobalParams <- MCGlobalParams
  MarketParams <- MCMarketParams
  DepositParams <- MCDepositParams
  Donations <- MCDonations
SYMMETRY Symmetry
INVARIANTS
  TypeOK
  EscrowHoldsPositions
  Solvency
  PayoutsCovered
  ResolvedOnlyWhenFilled
  OverflowMarketHoldsNothing
  FinalizeErrorPasses
  SafeArithmetic
  EscrowInvariant
PROPERTIES
  FinalityIsForever
