SPECIFICATION TruthfulSpec
CONSTANTS
  u = u
  r = r
  pda = pda
  fw = fw
  none = none
  NoKey = NoKey
  NoPrice = none
  Pda = pda
  U64_MAX = 255
  BPS_MAX = 10
  MAX_DELAY_SEC = 2
  MAX_CLOCK = 5
  Keys <- FloorKeys
  Users <- FloorUsers
  FeeWallets <- FloorFeeWallets
  InitialWallet <- FloorWallet
  GlobalParams <- FloorGlobalParams
  MarketParams <- FloorMarketParams
  DepositParams <- FloorDepositParams
  Donations <- FloorDonations
  MinimumBalance <- FloorMinimumBalance
  InitialLamports <- FloorLamports
  Reports <- FloorReports
  FloorParams <- FloorFloorParams
  Gifts <- FloorGifts
INVARIANTS
  ResolvedByPriceAtExpiry
