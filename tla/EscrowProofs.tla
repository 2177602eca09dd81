---------------------------- MODULE EscrowProofs ----------------------------
(***************************************************************************)
(* The safety of the escrow program, for every set of users and every      *)
(* value of the constants.                                                 *)
(***************************************************************************)
EXTENDS EscrowProperties, MarketProofs, ArithmeticProofs, TLAPS

LEMMA U64Facts ==
  /\ U64_MAX \in Nat
  /\ U64 \subseteq Nat
  /\ 0 \in U64
  /\ \A n \in U64 : n <= U64_MAX
  /\ \A n \in Nat : n <= U64_MAX => n \in U64
BY U64Assumption DEF U64

(***************************************************************************)
(* What a winner is paid, as numbers: the fee and the rest add up to the   *)
(* winnings.                                                               *)
(***************************************************************************)
LEMMA WinningsType ==
  ASSUME NEW won \in Side, NEW stake \in Nat,
         market.amount \in [Side -> U64], market.amount[won] # 0
  PROVE  Winnings(won, stake) \in U64
<1> DEFINE product == stake * market.amount[Other(won)]
           share == product \div market.amount[won]
<1>1. product \in Nat /\ market.amount[won] \in Nat \ {0}
  BY U64Facts, ProductType DEF Other, Side
<1>2. share \in Nat
  <2> HIDE DEF product
  <2> QED BY <1>1, DivisionAlgorithm
<1>3. share % (U64_MAX + 1) \in 0 .. (U64_MAX + 1 - 1)
  <2> HIDE DEF share
  <2> QED BY <1>2, U64Facts, DivisionAlgorithm
<1> QED BY <1>3, U64Facts DEF Winnings, AsU64, U64

LEMMA PaymentAddsUp ==
  ASSUME NEW bps \in BpsValue, NEW winnings \in Nat
  PROVE  LET fee == Fee(bps, winnings)
         IN  /\ fee \in Nat
             /\ Remaining(winnings, fee) \in Nat
             /\ fee + Remaining(winnings, fee) = winnings
BY FeeParts DEF Remaining

LEMMA ClearedPositionType ==
  ASSUME TypeOK, NEW u \in Users
  PROVE  /\ ClearedPosition(u) \in [Side -> [Users -> U64]]
         /\ \A s \in Side, v \in Users \ opened : ClearedPosition(u)[s][v] = 0
BY U64Facts DEF ClearedPosition, TypeOK

-----------------------------------------------------------------------------
LEMMA InitTypeOK == Init => TypeOK
<1> SUFFICES ASSUME Init PROVE TypeOK
  OBVIOUS
<1>1. 0 \in BpsValue
  BY BpsAssumption DEF BpsValue
<1>2. ZeroMarket \in MarketAccount
  BY U64Facts DEF ZeroMarket, MarketAccount, Outcome
<1>3. now \in 1 .. MAX_CLOCK
  BY EscrowAssumption, U64Facts DEF Init
<1> QED BY <1>1, <1>2, <1>3, U64Facts, EscrowAssumption
        DEF Init, TypeOK, ZeroMarket, NoPosition

(***************************************************************************)
(* Every instruction and every step of the environment keeps the types.    *)
(***************************************************************************)
LEMMA StepTypeOK == TypeOK /\ [Next]_vars => TypeOK'
<1> SUFFICES ASSUME TypeOK, [Next]_vars PROVE TypeOK'
  OBVIOUS
<1> USE U64Facts
<1>1. CASE Tick
  <2>1. now' \in 1 .. MAX_CLOCK
    BY <1>1, EscrowAssumption DEF TypeOK, Tick
  <2> QED BY <1>1, <2>1 DEF TypeOK, Tick, accounts, balances
<1>2. ASSUME NEW u \in Users, NEW s \in Side, NEW n \in Donations, Donate(u, s, n)
      PROVE  TypeOK'
  <2>1. n \in Nat
    BY EscrowAssumption
  <2> QED BY <1>2, <2>1 DEF TypeOK, Donate, accounts
<1>12. ASSUME NEW w \in FeeWallets, CreateFeeAccount(w)
       PROVE  TypeOK'
  <2>1. /\ DOMAIN fee_account' = DOMAIN fee_account \cup {w}
        /\ fee_account' \in [DOMAIN fee_account' -> Nat]
    BY <1>12 DEF TypeOK, CreateFeeAccount
  <2> QED BY <1>12, <2>1 DEF TypeOK, CreateFeeAccount, accounts
<1>3. ASSUME NEW p \in GlobalParams, StoreGlobal(p),
             UNCHANGED <<now, market, opened, position, balances>>
      PROVE  TypeOK'
  <2>1. p \in [owner : Keys, fee_cut_bps : Nat, fee_wallet : FeeWallets]
    BY EscrowAssumption
  <2>2. p.fee_cut_bps \in BpsValue
    BY <1>3 DEF StoreGlobal, BpsNew
  <2> QED BY <1>3, <2>1, <2>2 DEF TypeOK, StoreGlobal, balances
<1>4. ASSUME NEW p \in MarketParams, InitializeMarket(p)
      PROVE  TypeOK'
  <2>1. p \in [creator : Keys, resolver : Keys, amount : [Side -> U64],
               close_ts : U64, expiry_ts : U64, resolution_delay : U64]
    BY EscrowAssumption
  <2>2. ZeroMarket \in MarketAccount
    BY DEF ZeroMarket, MarketAccount, Outcome
  <2>3. market' \in MarketAccount
    BY <1>4, <2>1, <2>2 DEF InitializeMarket, MarketAccount
  <2>4. /\ market'.exists
        /\ \A s \in Side : market'.amount[s] # 0
        /\ market'.close_ts <= market'.expiry_ts
    BY <1>4, <2>1 DEF InitializeMarket, ZeroMarket
  <2> QED BY <1>4, <2>3, <2>4 DEF TypeOK, InitializeMarket, balances
<1>5. ASSUME NEW k \in Keys, ResolverAcknowledge(k)
      PROVE  TypeOK'
  <2>1. market' \in MarketAccount
    BY <1>5 DEF TypeOK, ResolverAcknowledge, MarketAccount
  <2> QED BY <1>5, <2>1 DEF TypeOK, ResolverAcknowledge, balances, MarketAccount
<1>6. ASSUME NEW u \in Users, InitializeUserPosition(u)
      PROVE  TypeOK'
  BY <1>6 DEF TypeOK, InitializeUserPosition, balances
<1>7. ASSUME NEW u \in Users, NEW p \in DepositParams, Deposit(u, p)
      PROVE  TypeOK'
  <2> DEFINE deposit == [s \in Side |-> ToDeposit(p, s)]
  <2>1. p.amount \in [Side -> U64]
    BY EscrowAssumption
  <2>2. /\ market.amount \in [Side -> U64] /\ market.filled \in [Side -> U64]
        /\ position \in [Side -> [Users -> U64]]
    BY DEF TypeOK, MarketAccount
  <2>3. \A s \in Side : ToDeposit(p, s) \in Nat
    BY <1>7, <2>1, <2>2 DEF Deposit, CanDeposit, ToDeposit, Left, Lesser
  <2>4. \A s \in Side : /\ position[s][u] + deposit[s] \in U64
                        /\ market.filled[s] + deposit[s] \in U64
    <3>1. \A s \in Side : /\ ~AddOverflows(position[s][u], deposit[s])
                          /\ ~AddOverflows(market.filled[s], deposit[s])
      BY <1>7 DEF Deposit
    <3>2. \A s \in Side : /\ position[s][u] \in Nat /\ market.filled[s] \in Nat
                          /\ deposit[s] \in Nat
      BY <2>2, <2>3
    <3> HIDE DEF deposit
    <3> QED BY <3>1, <3>2 DEF AddOverflows
  <2>5. market' \in MarketAccount
    <3>1. [s \in Side |-> market.filled[s] + deposit[s]] \in [Side -> U64]
      BY <2>4
    <3> HIDE DEF deposit
    <3>2. market' = [market EXCEPT !.filled = [s \in Side |-> market.filled[s] + deposit[s]]]
      BY <1>7 DEF Deposit, deposit
    <3> QED BY <3>1, <3>2 DEF TypeOK, MarketAccount
  <2>6. /\ market'.exists = market.exists /\ market'.amount = market.amount
        /\ market'.close_ts = market.close_ts /\ market'.expiry_ts = market.expiry_ts
        /\ market.exists
    BY <1>7 DEF Deposit, TypeOK, MarketAccount
  <2>7. position' \in [Side -> [Users -> U64]]
    BY <1>7, <2>2, <2>4 DEF Deposit
  <2>8. \A s \in Side, v \in Users \ opened' : position'[s][v] = 0
    BY <1>7, <2>2 DEF Deposit, TypeOK
  <2>9. holdings' \in [Side -> Nat]
    BY <1>7, <2>3 DEF Deposit, TypeOK
  <2>10. wallet' \in [Users -> Nat]
    <3>1. /\ deposit["Yes"] \in Nat /\ deposit["No"] \in Nat
          /\ wallet[u] >= deposit["Yes"] + deposit["No"]
      BY <1>7, <2>3 DEF Deposit, Side
    <3> QED BY <1>7, <3>1 DEF Deposit, TypeOK
  <2> QED BY <1>7, <2>5, <2>6, <2>7, <2>8, <2>9, <2>10 DEF Deposit, TypeOK
<1>8. ASSUME NEW k \in Keys, NEW o \in Outcome, UpdateState(k, o)
      PROVE  TypeOK'
  <2>1. market \in MarketAccount /\ now \in U64 /\ now \in Nat
    BY EscrowAssumption DEF TypeOK
  <2>2. market' \in MarketAccount
    BY <1>8, <2>1, FinalOutcomeType, UpdatedType DEF UpdateState
  <2>3. /\ market'.exists = market.exists /\ market'.amount = market.amount
        /\ market'.close_ts = market.close_ts /\ market'.expiry_ts = market.expiry_ts
        /\ market.exists
    BY <1>8, <2>1 DEF UpdateState, Finalize, Updated, MarketAccount
  <2> QED BY <1>8, <2>2, <2>3 DEF UpdateState, TypeOK, balances
<1>9. ASSUME NEW u \in Users, Withdraw(u)
      PROVE  TypeOK'
  <2>1. market \in MarketAccount /\ now \in Nat
    BY EscrowAssumption DEF TypeOK
  <2>2. market' \in MarketAccount
    BY <1>9, <2>1, FinalOutcomeType DEF Withdraw
  <2>3. /\ market'.exists = market.exists /\ market'.amount = market.amount
        /\ market'.close_ts = market.close_ts /\ market'.expiry_ts = market.expiry_ts
        /\ market.exists
    BY <1>9, <2>1 DEF Withdraw, CanWithdraw, Finalize, MarketAccount
  <2>4. /\ position' \in [Side -> [Users -> U64]]
        /\ \A s \in Side, v \in Users \ opened : position'[s][v] = 0
    BY <1>9, ClearedPositionType DEF Withdraw
  <2>5. /\ \A s \in Side : position[s][u] \in Nat
        /\ holdings \in [Side -> Nat] /\ wallet \in [Users -> Nat]
    BY DEF TypeOK
  <2>6. holdings' \in [Side -> Nat]
    BY <1>9, <2>5 DEF Withdraw
  <2>7. wallet' \in [Users -> Nat]
    <3>1. position["Yes"][u] + position["No"][u] \in Nat
      BY <2>5 DEF Side
    <3> QED BY <1>9, <2>5, <3>1 DEF Withdraw, Side
  <2> QED BY <1>9, <2>2, <2>3, <2>4, <2>6, <2>7 DEF Withdraw, TypeOK
<1>10. ASSUME NEW u \in Users, Claim(u)
      PROVE  TypeOK'
  <2> DEFINE won == FinalOutcome(market, now)
             stake == position[won][u]
             fee == Fee(global_state.fee_cut_bps, Winnings(won, stake))
             remaining == Remaining(Winnings(won, stake), fee)
  <2>1. market \in MarketAccount /\ now \in Nat
    BY EscrowAssumption DEF TypeOK
  <2>2. market' \in MarketAccount
    BY <1>10, <2>1, FinalOutcomeType DEF Claim
  <2>3. /\ market'.exists = market.exists /\ market'.amount = market.amount
        /\ market'.close_ts = market.close_ts /\ market'.expiry_ts = market.expiry_ts
        /\ market.exists
    BY <1>10, <2>1 DEF Claim, CanClaim, Finalize, MarketAccount
  <2>4. /\ position' \in [Side -> [Users -> U64]]
        /\ \A s \in Side, v \in Users \ opened : position'[s][v] = 0
    BY <1>10, ClearedPositionType DEF Claim
  <2>5. /\ won \in Side /\ stake \in Nat /\ fee \in Nat /\ remaining \in Nat
        /\ global_state.fee_wallet \in FeeWallets
    <3>1. /\ won \in Side /\ global_state.exists /\ market.exists
      BY <1>10 DEF Claim, CanClaim
    <3>2. stake \in Nat
      <4>1. position \in [Side -> [Users -> U64]]
        BY DEF TypeOK
      <4> HIDE DEF won
      <4> QED BY <3>1, <4>1
    <3>3. Winnings(won, stake) \in Nat
      BY <3>1, <3>2, WinningsType DEF TypeOK, MarketAccount
    <3>4. global_state.fee_cut_bps \in BpsValue
      BY DEF TypeOK
    <3> QED BY <3>1, <3>2, <3>3, <3>4, PaymentAddsUp DEF TypeOK
  <2>6. CASE stake = 0 /\ UNCHANGED <<holdings, wallet, fee_account>>
    BY <1>10, <2>2, <2>3, <2>4, <2>6 DEF Claim, TypeOK
  <2>7. CASE PayWinner(u, won, stake)
    <3> HIDE DEF won, stake, fee, remaining
    <3>1. /\ holdings[won] >= stake /\ holdings[Other(won)] >= fee + remaining
          /\ holdings' = [s \in Side |-> IF s = won THEN holdings[s] - stake
                                         ELSE holdings[s] - fee - remaining]
          /\ wallet' = [wallet EXCEPT ![u] = @ + remaining + stake]
          /\ fee_account' = [fee_account EXCEPT ![global_state.fee_wallet] = @ + fee]
      BY <2>7 DEF PayWinner, fee, remaining
    <3>2. holdings' \in [Side -> Nat]
      <4>1. \A s \in Side : s # won => s = Other(won)
        BY <2>5 DEF Side, Other
      <4> QED BY <3>1, <4>1, <2>5 DEF TypeOK
    <3>3. wallet' \in [Users -> Nat]
      BY <3>1, <2>5 DEF TypeOK
    <3>4. /\ DOMAIN fee_account' = DOMAIN fee_account
          /\ fee_account' \in [DOMAIN fee_account -> Nat]
      <4>1. global_state.fee_wallet \in DOMAIN fee_account
        BY <1>10 DEF Claim, CanClaim
      <4>2. fee_account \in [DOMAIN fee_account -> Nat]
        BY DEF TypeOK
      <4>3. fee_account[global_state.fee_wallet] + fee \in Nat
        BY <4>1, <4>2, <2>5
      <4> QED BY <3>1, <4>1, <4>2, <4>3
    <3> QED BY <1>10, <2>2, <2>3, <2>4, <3>2, <3>3, <3>4 DEF Claim, TypeOK
  <2> QED BY <1>10, <2>6, <2>7 DEF Claim
<1>11. CASE UNCHANGED vars
  BY <1>11 DEF TypeOK, vars, accounts, balances
<1> QED BY <1>1, <1>2, <1>3, <1>4, <1>5, <1>6, <1>7, <1>8, <1>9, <1>10, <1>11,
           <1>12
        DEF Next, InitializeGlobalState, SetGlobalState

(***************************************************************************)
(* Every account always holds values its layout can hold.                  *)
(***************************************************************************)
THEOREM TypeCorrect == Spec => []TypeOK
BY InitTypeOK, StepTypeOK, PTL DEF Spec

-----------------------------------------------------------------------------
(***************************************************************************)
(* The arithmetic of a share.                                              *)
(***************************************************************************)
LEMMA ShareBounds ==
  ASSUME NEW stake \in Nat, NEW w \in Nat \ {0}, NEW l \in Nat
  PROVE  LET share == (stake * l) \div w
         IN  /\ share \in Nat
             /\ share * w <= stake * l
             /\ stake <= w => share <= l
<1> DEFINE product == stake * l
           share == product \div w
<1>1. product \in Nat
  BY ProductType
<1>2. share \in Nat /\ share * w <= product
  <2> HIDE DEF product
  <2>1. /\ share \in Nat /\ product % w \in 0 .. (w - 1)
        /\ product = w * share + (product % w)
    BY <1>1, DivisionAlgorithm
  <2> HIDE DEF share
  <2> QED BY <2>1, <1>1
<1>3. ASSUME stake <= w PROVE share <= l
  <2> HIDE DEF share
  <2>1. w * share <= w * l
    BY <1>1, <1>2, <1>3, ProductMonotone
  <2> QED BY <2>1, <1>2, ProductCancel
<1> QED BY <1>2, <1>3

LEMMA SharesLeave ==
  ASSUME NEW a \in Nat, NEW w \in Nat \ {0}, NEW T \in Nat, NEW l \in Nat,
         NEW share \in Nat, NEW stake \in Nat,
         a * w >= T * l, share * w <= stake * l, stake <= T
  PROVE  /\ share <= a
         /\ (a - share) * w >= (T - stake) * l
<1>1. stake * l <= T * l
  BY ProductMonotone
<1>2. w * share <= w * a
  BY <1>1, ProductType
<1>3. share <= a
  BY <1>2, ProductCancel
<1>4. (a - share) * w = a * w - share * w /\ (T - stake) * l = T * l - stake * l
  OBVIOUS
<1>5. /\ a * w \in Nat /\ share * w \in Nat /\ T * l \in Nat /\ stake * l \in Nat
  BY ProductType
<1> QED BY <1>3, <1>4, <1>5

(***************************************************************************)
(* A cast to u64 that loses nothing.                                       *)
(***************************************************************************)
LEMMA CastIsExact ==
  ASSUME NEW x \in Nat, x <= U64_MAX
  PROVE  AsU64(x) = x
<1> DEFINE d == U64_MAX + 1
<1>1. d \in Nat \ {0} /\ x \in 0 .. (d - 1) /\ x = d * 0 + x
  BY U64Facts
<1> HIDE DEF d
<1>2. x % d = x
  BY <1>1, DivisionUnique
<1> QED BY <1>2 DEF AsU64, d

(***************************************************************************)
(* The facts about the state that the payments rest on.                    *)
(***************************************************************************)
LEMMA StateTypes ==
  ASSUME TypeOK
  PROVE  /\ market \in MarketAccount /\ now \in Nat /\ now \in U64
         /\ market.amount \in [Side -> Nat] /\ market.filled \in [Side -> Nat]
         /\ market.amount \in [Side -> U64]
         /\ market.close_ts \in Nat /\ market.expiry_ts \in Nat
         /\ position \in [Side -> [Users -> Nat]]
         /\ holdings \in [Side -> Nat] /\ donated \in [Side -> Nat]
         /\ \A s \in Side : Total(position[s]) \in Nat
         /\ \A s \in Side, u \in Users : position[s][u] <= Total(position[s])
<1>1. now \in Nat /\ now \in U64
  BY EscrowAssumption, U64Facts DEF TypeOK
<1>2. /\ market.amount \in [Side -> U64] /\ market.filled \in [Side -> U64]
      /\ market.close_ts \in U64 /\ market.expiry_ts \in U64
  BY DEF TypeOK, MarketAccount
<1>3. position \in [Side -> [Users -> Nat]]
  BY U64Facts DEF TypeOK
<1>4. ASSUME NEW s \in Side
      PROVE  /\ Total(position[s]) \in Nat
             /\ \A u \in Users : position[s][u] <= Total(position[s])
  BY <1>3, EscrowAssumption, TotalType
<1> QED BY <1>1, <1>2, <1>3, <1>4, U64Facts DEF TypeOK

(***************************************************************************)
(* When finalize gives a market to a side, that side is the stored         *)
(* outcome, both sides are full, and the other escrow account covers all   *)
(* shares not yet claimed, whether the market is flagged final or not.     *)
(***************************************************************************)
LEMMA DueMarketIsSolvent ==
  ASSUME EscrowInvariant, Due(market, now), FinalOutcome(market, now) \in Side
  PROVE  LET won == FinalOutcome(market, now)
             lost == Other(won)
         IN  /\ market.outcome = won
             /\ market.filled = market.amount
             /\ now >= market.expiry_ts
             /\ holdings[won] = donated[won] + Total(position[won])
             /\ holdings[lost] >= donated[lost]
             /\ (holdings[lost] - donated[lost]) * market.amount[won]
                  >= Total(position[won]) * market.amount[lost]
<1> DEFINE won == FinalOutcome(market, now)
           lost == Other(won)
<1>1. market.outcome = won
  BY DEF FinalOutcome, Side
<1>2. market.filled = market.amount /\ now >= market.expiry_ts
  BY <1>1 DEF EscrowInvariant, ResolvedOnlyWhenFilled
<1>3. lost \in Side /\ lost # won
  BY DEF Other, Side
<1> HIDE DEF won
<1>4. won \in Side
  BY DEF won
<1>5. holdings[won] = donated[won] + Total(position[won])
  BY <1>1, <1>3, <1>4 DEF EscrowInvariant, EscrowHoldsPositions
<1>6. CASE market.finalized
  BY <1>1, <1>2, <1>4, <1>5, <1>6 DEF EscrowInvariant, Solvency, Resolved, won
<1>7. CASE ~market.finalized
  <2>1. /\ holdings[lost] = donated[lost] + Total(position[lost])
        /\ Total(position[lost]) = market.amount[lost]
        /\ Total(position[won]) = market.amount[won]
    BY <1>2, <1>3, <1>4, <1>7 DEF EscrowInvariant, EscrowHoldsPositions, Resolved
  <2>2. /\ holdings[lost] \in Nat /\ donated[lost] \in Nat
        /\ market.amount[lost] \in Nat /\ market.amount[won] \in Nat
    BY <1>3, <1>4, StateTypes DEF EscrowInvariant
  <2>3. holdings[lost] - donated[lost] = market.amount[lost]
    BY <2>1, <2>2
  <2>4. market.amount[lost] * market.amount[won] >= market.amount[won] * market.amount[lost]
    BY <2>2
  <2>5. holdings[lost] >= donated[lost]
    BY <2>1, <2>2
  <2> QED BY <1>1, <1>2, <1>5, <2>1, <2>3, <2>4, <2>5 DEF won
<1> QED BY <1>6, <1>7

(***************************************************************************)
(* A winner's share: the cast of claim loses nothing, the losing account   *)
(* holds the share, and afterwards it still covers the others.             *)
(***************************************************************************)
LEMMA ClaimIsCovered ==
  ASSUME EscrowInvariant, market.exists, NEW u \in Users,
         Due(market, now), FinalOutcome(market, now) \in Side
  PROVE  LET won == FinalOutcome(market, now)
             lost == Other(won)
             stake == position[won][u]
             winnings == Winnings(won, stake)
         IN  /\ winnings = (stake * market.amount[lost]) \div market.amount[won]
             /\ winnings \in Nat
             /\ winnings <= market.amount[lost]
             /\ winnings <= holdings[lost] - donated[lost]
             /\ stake <= holdings[won]
             /\ (holdings[lost] - donated[lost] - winnings) * market.amount[won]
                  >= (Total(position[won]) - stake) * market.amount[lost]
<1> DEFINE won == FinalOutcome(market, now)
           lost == Other(won)
           stake == position[won][u]
           w == market.amount[won]
           l == market.amount[lost]
           share == (stake * l) \div w
           a == holdings[lost] - donated[lost]
           T == Total(position[won])
<1>1. /\ won \in Side /\ lost \in Side /\ market.filled = market.amount
      /\ holdings[won] = donated[won] + T
      /\ holdings[lost] >= donated[lost]
      /\ a * w >= T * l
  BY DueMarketIsSolvent DEF Other, Side
<1> HIDE DEF won, lost
<1>2. /\ stake \in Nat /\ stake <= T /\ T \in Nat /\ T <= market.filled[won]
      /\ w \in Nat \ {0} /\ l \in Nat /\ l <= U64_MAX /\ a \in Nat
      /\ holdings[won] \in Nat /\ donated[won] \in Nat
  <2>1. T <= market.filled[won] /\ market.amount[won] # 0
    BY <1>1 DEF EscrowInvariant, EscrowHoldsPositions, TypeOK
  <2>2. l \in U64
    BY <1>1, StateTypes DEF EscrowInvariant
  <2> QED BY <1>1, <2>1, <2>2, StateTypes, U64Facts DEF EscrowInvariant
<1>3. stake <= w
  BY <1>1, <1>2
<1> HIDE DEF stake, w, l, a, T
<1>4. share \in Nat /\ share * w <= stake * l /\ share <= l
  BY <1>2, <1>3, ShareBounds
<1>5. Winnings(won, stake) = share
  <2> HIDE DEF share
  <2>1. AsU64(share) = share
    BY <1>2, <1>4, U64Facts, CastIsExact
  <2> QED BY <2>1 DEF Winnings, share, w, l, lost
<1> HIDE DEF share
<1>6. share <= a /\ (a - share) * w >= (T - stake) * l
  BY <1>1, <1>2, <1>4, SharesLeave
<1>7. stake <= holdings[won]
  BY <1>1, <1>2
<1>8. share = (stake * l) \div w
  BY DEF share
<1> QED BY <1>4, <1>5, <1>6, <1>7, <1>8 DEF won, lost, stake, w, l, a, T

(***************************************************************************)
(* Totals after one user's entries change.                                 *)
(***************************************************************************)
LEMMA TotalAfterUpdate ==
  ASSUME TypeOK, NEW u \in Users, NEW s \in Side, NEW n \in Nat
  PROVE  /\ Total([position[s] EXCEPT ![u] = n]) = Total(position[s]) - position[s][u] + n
         /\ Total(position[s]) \in Nat /\ position[s][u] \in Nat
         /\ position[s][u] <= Total(position[s])
<1>1. position[s] \in [Users -> Nat] /\ Users = DOMAIN position[s]
  BY StateTypes
<1>2. Total([position[s] EXCEPT ![u] = n]) = Total(position[s]) - position[s][u] + n
  BY <1>1, EscrowAssumption, TotalUpdate
<1> QED BY <1>1, <1>2, StateTypes

LEMMA TotalAfterClearing ==
  ASSUME TypeOK, NEW u \in Users, NEW s \in Side
  PROVE  /\ Total(ClearedPosition(u)[s]) = Total(position[s]) - position[s][u]
         /\ Total(position[s]) \in Nat /\ position[s][u] \in Nat
         /\ position[s][u] <= Total(position[s])
<1>1. ClearedPosition(u)[s] = [position[s] EXCEPT ![u] = 0]
  BY DEF ClearedPosition
<1> QED BY <1>1, TotalAfterUpdate

-----------------------------------------------------------------------------
(***************************************************************************)
(* The invariant holds initially and is kept by every step.                *)
(***************************************************************************)
LEMMA InitInvariant == Init => EscrowInvariant
<1> SUFFICES ASSUME Init PROVE EscrowInvariant
  OBVIOUS
<1>1. TypeOK
  BY InitTypeOK
<1>2. \A s \in Side : Total(position[s]) = 0
  <2>1. NoPosition \in [Users -> Nat] /\ \A u \in Users : NoPosition[u] = 0
    BY DEF NoPosition
  <2>2. Total(NoPosition) = 0
    BY <2>1, TotalZero
  <2> QED BY <2>2 DEF Init
<1>3. /\ market.filled = [s \in Side |-> 0] /\ market.amount = [s \in Side |-> 0]
      /\ market.outcome = "Open" /\ market.finalized = FALSE
      /\ holdings = [s \in Side |-> 0] /\ donated = [s \in Side |-> 0]
  BY DEF Init, ZeroMarket
<1>4. ~Resolved /\ market.outcome \notin Side
  BY <1>3 DEF Resolved, Side
<1>5. EscrowHoldsPositions
  BY <1>2, <1>3 DEF EscrowHoldsPositions
<1> QED BY <1>1, <1>2, <1>3, <1>4, <1>5
        DEF EscrowInvariant, ResolvedOnlyWhenFilled, OverflowMarketHoldsNothing, Solvency

(***************************************************************************)
(* The instructions and the environment's steps that touch neither the     *)
(* outcome nor the money of the market.                                    *)
(***************************************************************************)
LEMMA FrameInvariant ==
  ASSUME EscrowInvariant, TypeOK', now' >= now,
         UNCHANGED <<position, holdings, donated>>,
         market'.amount = market.amount, market'.filled = market.filled,
         market'.outcome = market.outcome, market'.finalized = market.finalized,
         market'.expiry_ts = market.expiry_ts
  PROVE  EscrowInvariant'
<1>1. ResolvedOnlyWhenFilled'
  <2>1. now \in Nat /\ now' \in Nat /\ market.expiry_ts \in Nat
    BY StateTypes, EscrowAssumption DEF EscrowInvariant, TypeOK
  <2> QED BY <2>1 DEF EscrowInvariant, ResolvedOnlyWhenFilled
<1>2. Resolved' = Resolved
  BY DEF Resolved
<1>3. EscrowHoldsPositions' /\ Solvency'
  BY <1>2 DEF EscrowInvariant, EscrowHoldsPositions, Solvency
<1> QED BY <1>1, <1>3 DEF EscrowInvariant, OverflowMarketHoldsNothing

(***************************************************************************)
(* What finalize leaves of the invariant once it has returned true: the    *)
(* parts about the market alone.                                           *)
(***************************************************************************)
LEMMA FinalizeInvariant ==
  ASSUME EscrowInvariant, TypeOK', now' = now, Due(market, now),
         market' = Finalize(market, now)
  PROVE  /\ market'.finalized /\ market'.outcome = FinalOutcome(market, now)
         /\ market'.outcome # "Open"
         /\ market'.amount = market.amount /\ market'.filled = market.filled
         /\ market'.expiry_ts = market.expiry_ts
         /\ market'.outcome \in Side => market'.outcome = market.outcome
         /\ ResolvedOnlyWhenFilled'
<1>1. market \in MarketAccount
  BY DEF EscrowInvariant, TypeOK
<1>2. /\ market'.finalized /\ market'.outcome = FinalOutcome(market, now)
      /\ market'.amount = market.amount /\ market'.filled = market.filled
      /\ market'.expiry_ts = market.expiry_ts
  BY <1>1 DEF Finalize, MarketAccount
<1>3. FinalOutcome(market, now) # "Open"
  BY DEF FinalOutcome, EscrowInvariant
<1>4. FinalOutcome(market, now) \in Side => FinalOutcome(market, now) = market.outcome
  BY DEF FinalOutcome, Side
<1>5. ResolvedOnlyWhenFilled'
  BY <1>2, <1>4 DEF EscrowInvariant, ResolvedOnlyWhenFilled
<1> QED BY <1>2, <1>3, <1>4, <1>5

(***************************************************************************)
(* No money is in a market that overflows, if none of it counts as filled. *)
(***************************************************************************)
LEMMA OverflowFromFilled ==
  ASSUME TypeOK, EscrowHoldsPositions,
         AddOverflows(market.expiry_ts, MAX_DELAY_SEC) => \A s \in Side : market.filled[s] = 0
  PROVE  OverflowMarketHoldsNothing
<1>1. \A s \in Side : Total(position[s]) \in Nat /\ Total(position[s]) <= market.filled[s]
  BY StateTypes DEF EscrowHoldsPositions
<1> QED BY <1>1 DEF OverflowMarketHoldsNothing

-----------------------------------------------------------------------------
(***************************************************************************)
(* One lemma for each step that the invariant is about.                    *)
(***************************************************************************)
LEMMA DonateInvariant ==
  ASSUME EscrowInvariant, TypeOK', NEW u \in Users, NEW s \in Side, NEW n \in Donations,
         Donate(u, s, n)
  PROVE  EscrowInvariant'
<1>1. /\ n \in Nat /\ holdings \in [Side -> Nat] /\ donated \in [Side -> Nat]
      /\ \A side \in Side : Total(position[side]) \in Nat
  BY StateTypes, EscrowAssumption DEF EscrowInvariant
<1>2. /\ holdings' = [holdings EXCEPT ![s] = @ + n]
      /\ donated' = [donated EXCEPT ![s] = @ + n]
      /\ UNCHANGED <<now, market, position>>
  BY DEF Donate, accounts
<1>3. Resolved' = Resolved
  BY <1>2 DEF Resolved
<1>4. \A side \in Side : /\ holdings'[side] - donated'[side] = holdings[side] - donated[side]
                         /\ holdings'[side] >= holdings[side]
                         /\ holdings[side] = donated[side] + Total(position[side])
                              => holdings'[side] = donated'[side] + Total(position[side])
                         /\ holdings[side] >= donated[side] => holdings'[side] >= donated'[side]
  BY <1>1, <1>2
<1>5. EscrowHoldsPositions'
  BY <1>2, <1>3, <1>4 DEF EscrowInvariant, EscrowHoldsPositions
<1>6. Solvency'
  <2>1. Resolved => Other(market.outcome) \in Side
    BY DEF Other, Side
  <2> QED BY <1>2, <1>3, <1>4, <2>1 DEF EscrowInvariant, Solvency
<1> QED BY <1>2, <1>5, <1>6
        DEF EscrowInvariant, ResolvedOnlyWhenFilled, OverflowMarketHoldsNothing

LEMMA InitializeMarketInvariant ==
  ASSUME EscrowInvariant, TypeOK', NEW p \in MarketParams, InitializeMarket(p)
  PROVE  EscrowInvariant'
<1>1. /\ market'.filled = [s \in Side |-> 0] /\ market'.outcome = "Open"
      /\ market'.finalized = FALSE
      /\ UNCHANGED <<now, position, holdings, donated>>
  BY DEF InitializeMarket, ZeroMarket, balances
<1>2. market = ZeroMarket
  BY DEF InitializeMarket, EscrowInvariant, TypeOK
<1>3. /\ market.filled = [s \in Side |-> 0] /\ market.finalized = FALSE
  BY <1>2 DEF ZeroMarket
<1>4. ~Resolved /\ ~Resolved' /\ market'.outcome \notin Side
  BY <1>1, <1>3 DEF Resolved, Side
<1>5. EscrowHoldsPositions'
  BY <1>1, <1>3, <1>4 DEF EscrowInvariant, EscrowHoldsPositions
<1>6. \A s \in Side : market'.filled[s] <= market'.amount[s]
  <2>1. market'.amount \in [Side -> U64]
    BY DEF TypeOK, MarketAccount
  <2>2. ASSUME NEW s \in Side PROVE market'.amount[s] \in Nat /\ market'.filled[s] = 0
    <3>1. market'.amount[s] \in U64
      BY <2>1
    <3> QED BY <1>1, <3>1, U64Facts
  <2> QED BY <2>2
<1>7. OverflowMarketHoldsNothing'
  <2>1. \A s \in Side : Total(position[s]) = 0
    BY <1>3, StateTypes DEF EscrowInvariant, EscrowHoldsPositions
  <2> QED BY <1>1, <2>1 DEF OverflowMarketHoldsNothing
<1> QED BY <1>1, <1>4, <1>5, <1>6, <1>7
        DEF EscrowInvariant, ResolvedOnlyWhenFilled, Solvency

LEMMA DepositInvariant ==
  ASSUME EscrowInvariant, TypeOK', NEW u \in Users, NEW p \in DepositParams, Deposit(u, p)
  PROVE  EscrowInvariant'
<1> DEFINE deposit == [s \in Side |-> ToDeposit(p, s)]
<1>1. /\ TypeOK /\ market \in MarketAccount
      /\ market.amount \in [Side -> Nat] /\ market.filled \in [Side -> Nat]
      /\ holdings \in [Side -> Nat] /\ donated \in [Side -> Nat]
      /\ now \in Nat /\ market.close_ts \in Nat /\ market.expiry_ts \in Nat
      /\ market.close_ts <= market.expiry_ts
  BY StateTypes DEF EscrowInvariant, TypeOK, Deposit
<1>2. p.amount \in [Side -> Nat]
  BY EscrowAssumption, U64Facts
<1>3. /\ now < market.close_ts /\ NotDue(market, now)
      /\ \A s \in Side : market.amount[s] - market.filled[s] >= 0
  BY DEF Deposit, CanDeposit, Left
<1>4. /\ ~market.finalized /\ ~AddOverflows(market.expiry_ts, MAX_DELAY_SEC)
  BY <1>3, NotDueFacts
<1>5. \A s \in Side : /\ deposit[s] \in Nat
                      /\ market.filled[s] + deposit[s] <= market.amount[s]
  BY <1>1, <1>2, <1>3 DEF ToDeposit, Left, Lesser
<1> HIDE DEF deposit
<1>6. /\ market' = [market EXCEPT !.filled = [s \in Side |-> market.filled[s] + deposit[s]]]
      /\ position' = [s \in Side |-> [position[s] EXCEPT ![u] = position[s][u] + deposit[s]]]
      /\ holdings' = [s \in Side |-> holdings[s] + deposit[s]]
      /\ UNCHANGED <<now, donated>>
  BY DEF Deposit, deposit
<1>7. /\ market'.amount = market.amount /\ market'.expiry_ts = market.expiry_ts
      /\ market'.outcome = market.outcome /\ market'.finalized = market.finalized
      /\ market'.filled = [s \in Side |-> market.filled[s] + deposit[s]]
  BY <1>1, <1>6 DEF MarketAccount
<1>8. market.outcome \notin Side
  BY <1>1, <1>3 DEF EscrowInvariant, ResolvedOnlyWhenFilled
<1>9. ASSUME NEW s \in Side
      PROVE  /\ Total(position'[s]) = market'.filled[s]
             /\ holdings'[s] = donated'[s] + Total(position'[s])
             /\ market'.filled[s] <= market'.amount[s]
             /\ market'.filled[s] \in Nat
  <2>1. /\ Total(position[s]) = market.filled[s]
        /\ holdings[s] = donated[s] + Total(position[s])
    BY <1>4 DEF EscrowInvariant, EscrowHoldsPositions, Resolved
  <2>2. position[s][u] \in Nat /\ position[s][u] + deposit[s] \in Nat
    BY <1>1, <1>5, StateTypes
  <2>3. Total(position'[s]) = Total(position[s]) - position[s][u] + (position[s][u] + deposit[s])
    BY <1>1, <1>6, <2>2, TotalAfterUpdate
  <2>4. Total(position'[s]) = Total(position[s]) + deposit[s]
    BY <1>1, <1>5, <2>1, <2>2, <2>3
  <2> QED BY <1>1, <1>5, <1>6, <1>7, <2>1, <2>4
<1>10. EscrowHoldsPositions'
  BY <1>9 DEF EscrowHoldsPositions
<1> QED BY <1>4, <1>7, <1>8, <1>9, <1>10
        DEF EscrowInvariant, ResolvedOnlyWhenFilled, OverflowMarketHoldsNothing,
            Solvency, Resolved

LEMMA UpdateStateInvariant ==
  ASSUME EscrowInvariant, TypeOK', NEW k \in Keys, NEW o \in Outcome, UpdateState(k, o)
  PROVE  EscrowInvariant'
<1>1. /\ TypeOK /\ market \in MarketAccount
      /\ market.amount \in [Side -> Nat] /\ market.filled \in [Side -> Nat]
      /\ now \in Nat /\ market.close_ts \in Nat /\ market.expiry_ts \in Nat
      /\ market.close_ts <= market.expiry_ts
  BY StateTypes DEF EscrowInvariant, TypeOK, UpdateState
<1>2. UNCHANGED <<now, position, holdings, donated>>
  BY DEF UpdateState, balances
<1>3. CASE Due(market, now) /\ market' = Finalize(market, now)
  <2>1. /\ market'.finalized /\ market'.outcome = FinalOutcome(market, now)
        /\ market'.outcome # "Open"
        /\ market'.amount = market.amount /\ market'.filled = market.filled
        /\ market'.expiry_ts = market.expiry_ts
        /\ market'.outcome \in Side => market'.outcome = market.outcome
        /\ ResolvedOnlyWhenFilled'
    BY <1>2, <1>3, FinalizeInvariant
  <2>2. EscrowHoldsPositions'
    <3>1. Resolved => Resolved' /\ market'.outcome = market.outcome
      BY <2>1 DEF Resolved, FinalOutcome
    <3> QED BY <1>2, <2>1, <3>1 DEF EscrowInvariant, EscrowHoldsPositions
  <2>3. Solvency'
    <3>1. CASE market'.outcome \in Side
      BY <1>2, <1>3, <2>1, <3>1, DueMarketIsSolvent DEF Solvency
    <3> QED BY <3>1 DEF Solvency, Resolved
  <2> QED BY <1>2, <2>1, <2>2, <2>3 DEF EscrowInvariant, OverflowMarketHoldsNothing
<1>4. CASE NotDue(market, now) /\ LegalUpdate(market, now, o) /\ market' = Updated(market, now, o)
  <2>1. /\ ~market.finalized /\ ~UnfilledAtClose(market, now)
    BY <1>4, NotDueFacts
  <2>2. /\ market'.outcome = o /\ market'.finalized = FALSE
        /\ market'.amount = market.amount /\ market'.filled = market.filled
        /\ market'.expiry_ts = market.expiry_ts
    BY <1>1, <1>4, <2>1 DEF Updated, MarketAccount
  <2>3. ResolvedOnlyWhenFilled'
    <3>1. SUFFICES ASSUME o \in Side
                   PROVE  market.filled = market.amount /\ now >= market.expiry_ts
      BY <1>2, <2>2 DEF ResolvedOnlyWhenFilled
    <3>2. now >= market.expiry_ts
      BY <1>1, <1>4, <3>1 DEF LegalUpdate, Side
    <3>3. ~Underfunded(market)
      BY <1>1, <2>1, <3>2 DEF UnfilledAtClose
    <3>4. \A s \in Side : market.filled[s] = market.amount[s]
      BY <1>1, <3>3 DEF Underfunded, EscrowInvariant
    <3> QED BY <1>1, <3>2, <3>4
  <2>4. ~Resolved /\ ~Resolved'
    BY <2>1, <2>2 DEF Resolved
  <2>5. EscrowHoldsPositions' /\ Solvency'
    BY <1>2, <2>1, <2>2, <2>4 DEF EscrowInvariant, EscrowHoldsPositions, Solvency
  <2> QED BY <1>2, <2>2, <2>3, <2>5 DEF EscrowInvariant, OverflowMarketHoldsNothing
<1> QED BY <1>3, <1>4 DEF UpdateState

LEMMA WithdrawInvariant ==
  ASSUME EscrowInvariant, TypeOK', NEW u \in Users, Withdraw(u)
  PROVE  EscrowInvariant'
<1>1. /\ TypeOK /\ Due(market, now) /\ market.outcome = "Invalid"
      /\ market' = Finalize(market, now) /\ UNCHANGED <<now, donated>>
      /\ position' = ClearedPosition(u)
      /\ holdings' = [s \in Side |-> holdings[s] - position[s][u]]
  BY DEF EscrowInvariant, Withdraw, CanWithdraw
<1>2. /\ market'.finalized /\ market'.outcome = FinalOutcome(market, now)
      /\ market'.outcome # "Open"
      /\ market'.amount = market.amount /\ market'.filled = market.filled
      /\ market'.expiry_ts = market.expiry_ts
      /\ ResolvedOnlyWhenFilled'
  BY <1>1, FinalizeInvariant
<1>3. market.outcome \notin Side /\ market'.outcome \notin Side
  BY <1>1, <1>2 DEF FinalOutcome, Side
<1>4. ~Resolved /\ ~Resolved'
  BY <1>3 DEF Resolved
<1>5. ASSUME NEW s \in Side
      PROVE  /\ holdings'[s] = donated'[s] + Total(position'[s])
             /\ Total(position'[s]) <= market'.filled[s]
  <2>1. /\ holdings[s] = donated[s] + Total(position[s])
        /\ Total(position[s]) <= market.filled[s]
    BY <1>4 DEF EscrowInvariant, EscrowHoldsPositions
  <2>2. /\ Total(position'[s]) = Total(position[s]) - position[s][u]
        /\ Total(position[s]) \in Nat /\ position[s][u] \in Nat
        /\ donated[s] \in Nat /\ market.filled[s] \in Nat
    BY <1>1, TotalAfterClearing, StateTypes
  <2>3. holdings'[s] = holdings[s] - position[s][u] /\ donated'[s] = donated[s]
    BY <1>1
  <2> QED BY <1>2, <2>1, <2>2, <2>3
<1>6. EscrowHoldsPositions'
  BY <1>2, <1>5 DEF EscrowHoldsPositions
<1>7. OverflowMarketHoldsNothing'
  <2>1. AddOverflows(market.expiry_ts, MAX_DELAY_SEC) => \A s \in Side : market.filled[s] = 0
    BY DEF EscrowInvariant, OverflowMarketHoldsNothing
  <2>2. \A s \in Side : Total(position'[s]) \in Nat
    BY <1>1, TotalAfterClearing
  <2> QED BY <1>2, <1>5, <2>1, <2>2 DEF OverflowMarketHoldsNothing
<1> QED BY <1>2, <1>4, <1>6, <1>7 DEF EscrowInvariant, Solvency

LEMMA ClaimInvariant ==
  ASSUME EscrowInvariant, TypeOK', NEW u \in Users, Claim(u)
  PROVE  EscrowInvariant'
<1> DEFINE won == FinalOutcome(market, now)
           lost == Other(won)
           stake == position[won][u]
           winnings == Winnings(won, stake)
<1>1. /\ TypeOK /\ Due(market, now) /\ won \in Side /\ market.exists
      /\ global_state.exists
      /\ market' = Finalize(market, now) /\ UNCHANGED <<now, donated>>
      /\ position' = ClearedPosition(u)
  BY DEF EscrowInvariant, Claim, CanClaim
<1>2. /\ market'.finalized /\ market'.outcome = won
      /\ market'.outcome # "Open"
      /\ market'.amount = market.amount /\ market'.filled = market.filled
      /\ market'.expiry_ts = market.expiry_ts
      /\ ResolvedOnlyWhenFilled'
  BY <1>1, FinalizeInvariant
<1>3. /\ winnings \in Nat
      /\ winnings <= holdings[lost] - donated[lost]
      /\ (holdings[lost] - donated[lost] - winnings) * market.amount[won]
           >= (Total(position[won]) - stake) * market.amount[lost]
  BY <1>1, ClaimIsCovered
<1>4. /\ holdings[won] = donated[won] + Total(position[won])
      /\ holdings[lost] >= donated[lost]
      /\ (holdings[lost] - donated[lost]) * market.amount[won]
           >= Total(position[won]) * market.amount[lost]
  BY <1>1, DueMarketIsSolvent
<1>5. lost \in Side /\ lost # won /\ \A s \in Side : s = won \/ s = lost
  BY <1>1 DEF Other, Side
<1>6. \A s \in Side : /\ Total(position'[s]) = Total(position[s]) - position[s][u]
                      /\ Total(position[s]) \in Nat /\ position[s][u] \in Nat
                      /\ Total(position'[s]) \in Nat
                      /\ Total(position'[s]) <= market'.filled[s]
                      /\ holdings[s] \in Nat /\ donated[s] \in Nat
  <2>1. ASSUME NEW s \in Side
        PROVE  /\ Total(position'[s]) = Total(position[s]) - position[s][u]
               /\ Total(position[s]) \in Nat /\ position[s][u] \in Nat
               /\ position[s][u] <= Total(position[s])
               /\ holdings[s] \in Nat /\ donated[s] \in Nat
               /\ Total(position[s]) <= market.filled[s] /\ market.filled[s] \in Nat
    BY <1>1, TotalAfterClearing, StateTypes DEF EscrowInvariant, EscrowHoldsPositions
  <2> QED BY <1>2, <2>1
<1>7. OverflowMarketHoldsNothing'
  <2>1. AddOverflows(market.expiry_ts, MAX_DELAY_SEC) => \A s \in Side : market.filled[s] = 0
    BY DEF EscrowInvariant, OverflowMarketHoldsNothing
  <2> QED BY <1>2, <1>6, <2>1 DEF OverflowMarketHoldsNothing
<1>8. /\ holdings'[won] = donated'[won] + Total(position'[won])
      /\ holdings'[lost] >= donated'[lost]
      /\ (holdings'[lost] - donated'[lost]) * market'.amount[won]
           >= Total(position'[won]) * market'.amount[lost]
  <2>1. CASE stake = 0 /\ UNCHANGED holdings
    <3>1. Total(position'[won]) = Total(position[won])
      BY <1>1, <1>6, <2>1
    <3> QED BY <1>1, <1>2, <1>4, <2>1, <3>1
  <2>2. CASE PayWinner(u, won, stake)
    <3>1. Fee(global_state.fee_cut_bps, winnings)
            + Remaining(winnings, Fee(global_state.fee_cut_bps, winnings)) = winnings
          /\ Fee(global_state.fee_cut_bps, winnings) \in Nat
          /\ Remaining(winnings, Fee(global_state.fee_cut_bps, winnings)) \in Nat
      BY <1>1, <1>3, PaymentAddsUp DEF TypeOK
    <3> DEFINE fee == Fee(global_state.fee_cut_bps, winnings)
               remaining == Remaining(winnings, fee)
    <3>2. holdings' = [s \in Side |-> IF s = won THEN holdings[s] - stake
                                     ELSE holdings[s] - fee - remaining]
      BY <2>2 DEF PayWinner
    <3> HIDE DEF won, stake, winnings, fee, remaining
    <3>3. fee + remaining = winnings /\ fee \in Nat /\ remaining \in Nat
      BY <3>1 DEF fee, remaining
    <3>4. holdings'[won] = holdings[won] - stake
      BY <1>1, <3>2
    <3>5. holdings'[lost] = holdings[lost] - winnings
      BY <1>5, <1>6, <3>2, <3>3
    <3>6. Total(position'[won]) = Total(position[won]) - stake /\ stake \in Nat
      BY <1>1, <1>6 DEF stake
    <3>7. holdings'[lost] - donated'[lost] = holdings[lost] - donated[lost] - winnings
      BY <1>1, <1>3, <1>5, <1>6, <3>5
    <3> QED BY <1>1, <1>2, <1>3, <1>4, <1>5, <1>6, <3>4, <3>5, <3>6, <3>7
  <2> QED BY <2>1, <2>2 DEF Claim
<1>9. EscrowHoldsPositions'
  <2>1. Other(market'.outcome) = lost
    BY <1>2
  <2>2. Resolved'
    BY <1>1, <1>2 DEF Resolved
  <2> HIDE DEF won, lost
  <2>3. \A s \in Side : s # lost => holdings'[s] = donated'[s] + Total(position'[s])
    BY <1>5, <1>8
  <2> QED BY <1>2, <1>6, <2>1, <2>2, <2>3 DEF EscrowHoldsPositions
<1>10. Solvency'
  BY <1>2, <1>8 DEF Solvency
<1> QED BY <1>2, <1>7, <1>9, <1>10 DEF EscrowInvariant

LEMMA StepInvariant == EscrowInvariant /\ [Next]_vars => EscrowInvariant'
<1> SUFFICES ASSUME EscrowInvariant, [Next]_vars PROVE EscrowInvariant'
  OBVIOUS
<1>1. TypeOK'
  BY StepTypeOK DEF EscrowInvariant
<1>2. now \in Nat /\ market \in MarketAccount
  BY StateTypes DEF EscrowInvariant
<1>3. CASE Tick
  BY <1>1, <1>2, <1>3, FrameInvariant DEF Tick, accounts, balances
<1>4. ASSUME NEW u \in Users, NEW s \in Side, NEW n \in Donations, Donate(u, s, n)
      PROVE  EscrowInvariant'
  BY <1>1, <1>4, DonateInvariant
<1>14. ASSUME NEW w \in FeeWallets, CreateFeeAccount(w)
       PROVE  EscrowInvariant'
  BY <1>1, <1>2, <1>14, FrameInvariant DEF CreateFeeAccount, accounts
<1>5. ASSUME NEW p \in GlobalParams, InitializeGlobalState(p) \/ (\E k \in Keys : SetGlobalState(k, p))
      PROVE  EscrowInvariant'
  BY <1>1, <1>2, <1>5, FrameInvariant DEF InitializeGlobalState, SetGlobalState, balances
<1>6. ASSUME NEW p \in MarketParams, InitializeMarket(p)
      PROVE  EscrowInvariant'
  BY <1>1, <1>6, InitializeMarketInvariant
<1>7. ASSUME NEW k \in Keys, ResolverAcknowledge(k)
      PROVE  EscrowInvariant'
  <2>1. /\ market'.amount = market.amount /\ market'.filled = market.filled
        /\ market'.outcome = market.outcome /\ market'.finalized = market.finalized
        /\ market'.expiry_ts = market.expiry_ts
    BY <1>2, <1>7 DEF ResolverAcknowledge, MarketAccount
  <2> QED BY <1>1, <1>2, <1>7, <2>1, FrameInvariant DEF ResolverAcknowledge, balances
<1>8. ASSUME NEW u \in Users, InitializeUserPosition(u)
      PROVE  EscrowInvariant'
  BY <1>1, <1>2, <1>8, FrameInvariant DEF InitializeUserPosition, balances
<1>9. ASSUME NEW u \in Users, NEW p \in DepositParams, Deposit(u, p)
      PROVE  EscrowInvariant'
  BY <1>1, <1>9, DepositInvariant
<1>10. ASSUME NEW k \in Keys, NEW o \in Outcome, UpdateState(k, o)
       PROVE  EscrowInvariant'
  BY <1>1, <1>10, UpdateStateInvariant
<1>11. ASSUME NEW u \in Users, Withdraw(u)
       PROVE  EscrowInvariant'
  BY <1>1, <1>11, WithdrawInvariant
<1>12. ASSUME NEW u \in Users, Claim(u)
       PROVE  EscrowInvariant'
  BY <1>1, <1>12, ClaimInvariant
<1>13. CASE UNCHANGED vars
  BY <1>1, <1>2, <1>13, FrameInvariant DEF vars, accounts, balances
<1> QED BY <1>3, <1>4, <1>5, <1>6, <1>7, <1>8, <1>9, <1>10, <1>11, <1>12, <1>13,
           <1>14 DEF Next

(***************************************************************************)
(* The inductive invariant holds in every reachable state, for every       *)
(* number of users, every amount and every schedule of instructions.       *)
(***************************************************************************)
THEOREM InvariantHolds == Spec => []EscrowInvariant
BY InitInvariant, StepInvariant, PTL DEF Spec

(***************************************************************************)
(* A Yes or No is final only on a market that was filled in time.          *)
(***************************************************************************)
THEOREM OnlyFilledMarketsResolve == Spec => []ResolvedOnlyWhenFilled
<1>1. EscrowInvariant => ResolvedOnlyWhenFilled
  BY DEF EscrowInvariant
<1> QED BY <1>1, InvariantHolds, PTL

(***************************************************************************)
(* The escrow accounts hold the open positions, exactly.                   *)
(***************************************************************************)
THEOREM EscrowIsExact == Spec => []EscrowHoldsPositions
<1>1. EscrowInvariant => EscrowHoldsPositions
  BY DEF EscrowInvariant
<1> QED BY <1>1, InvariantHolds, PTL

(***************************************************************************)
(* The losing side's escrow covers all unclaimed shares.                   *)
(***************************************************************************)
THEOREM MarketIsSolvent == Spec => []Solvency
<1>1. EscrowInvariant => Solvency
  BY DEF EscrowInvariant
<1> QED BY <1>1, InvariantHolds, PTL

(***************************************************************************)
(* A market whose deadline overflows a u64 never holds any money.          *)
(***************************************************************************)
THEOREM NoMoneyInOverflowMarket == Spec => []OverflowMarketHoldsNothing
<1>1. EscrowInvariant => OverflowMarketHoldsNothing
  BY DEF EscrowInvariant
<1> QED BY <1>1, InvariantHolds, PTL

(***************************************************************************)
(* No withdrawal and no claim ever fails for want of tokens.               *)
(***************************************************************************)
LEMMA InvariantCoversPayouts == EscrowInvariant => PayoutsCovered
<1> SUFFICES ASSUME EscrowInvariant, NEW u \in Users
             PROVE  /\ CanWithdraw(u) => \A s \in Side : holdings[s] >= position[s][u]
                    /\ CanClaim(u) =>
                         LET won == FinalOutcome(market, now)
                             stake == position[won][u]
                             winnings == Winnings(won, stake)
                             fee == Fee(global_state.fee_cut_bps, winnings)
                         IN  /\ holdings[won] >= stake
                             /\ holdings[Other(won)] >= fee + Remaining(winnings, fee)
  BY DEF PayoutsCovered
<1>1. ASSUME CanWithdraw(u), NEW s \in Side
      PROVE  holdings[s] >= position[s][u]
  <2>1. ~Resolved
    BY <1>1 DEF CanWithdraw, Resolved, Side
  <2>2. holdings[s] = donated[s] + Total(position[s])
    BY <2>1 DEF EscrowInvariant, EscrowHoldsPositions
  <2> QED BY <2>2, StateTypes DEF EscrowInvariant
<1>2. ASSUME CanClaim(u)
      PROVE  LET won == FinalOutcome(market, now)
                 stake == position[won][u]
                 winnings == Winnings(won, stake)
                 fee == Fee(global_state.fee_cut_bps, winnings)
             IN  /\ holdings[won] >= stake
                 /\ holdings[Other(won)] >= fee + Remaining(winnings, fee)
  <2> DEFINE won == FinalOutcome(market, now)
             stake == position[won][u]
             winnings == Winnings(won, stake)
             fee == Fee(global_state.fee_cut_bps, winnings)
  <2>1. market.exists /\ Due(market, now) /\ won \in Side
    BY <1>2 DEF CanClaim
  <2>2. /\ winnings \in Nat /\ stake <= holdings[won]
        /\ winnings <= holdings[Other(won)] - donated[Other(won)]
    BY <2>1, ClaimIsCovered
  <2>3. /\ holdings[Other(won)] \in Nat /\ donated[Other(won)] \in Nat
        /\ holdings[won] \in Nat /\ stake \in Nat
    BY <2>1, StateTypes DEF EscrowInvariant, Other, Side
  <2>4. fee + Remaining(winnings, fee) = winnings
    <3>1. global_state.fee_cut_bps \in BpsValue
      BY DEF EscrowInvariant, TypeOK
    <3> HIDE DEF winnings
    <3> QED BY <2>2, <3>1, PaymentAddsUp
  <2> HIDE DEF won, stake, winnings, fee
  <2>5. holdings[won] >= stake /\ holdings[Other(won)] >= fee + Remaining(winnings, fee)
    BY <2>2, <2>3, <2>4
  <2> QED BY <2>5 DEF won, stake, winnings, fee
<1> QED BY <1>1, <1>2

(***************************************************************************)
(* No withdrawal and no claim fails for want of tokens in any reachable    *)
(* state.                                                                  *)
(***************************************************************************)
THEOREM PayoutsAreCovered == Spec => []PayoutsCovered
BY InvariantCoversPayouts, InvariantHolds, PTL

(***************************************************************************)
(* The arithmetic that the comments of deposit and claim call safe.        *)
(***************************************************************************)
LEMMA InvariantMakesSafe == EscrowInvariant => SafeArithmetic
<1> SUFFICES ASSUME EscrowInvariant, NEW s \in Side
             PROVE  /\ market.filled[s] <= market.amount[s]
                    /\ \A u \in Users : ~AddOverflows(position[s][u], Left(s))
                    /\ Resolved /\ s = market.outcome =>
                         \A u \in Users :
                           LET share == (position[s][u] * market.amount[Other(s)])
                                          \div market.amount[s]
                           IN  /\ Winnings(s, position[s][u]) = share
                               /\ share <= market.amount[Other(s)]
                               /\ Fee(global_state.fee_cut_bps, share) <= share
  BY DEF SafeArithmetic
<1>1. market.filled[s] <= market.amount[s]
  BY DEF EscrowInvariant
<1>2. ASSUME NEW u \in Users PROVE ~AddOverflows(position[s][u], Left(s))
  <2>1. /\ position[s][u] \in Nat /\ Total(position[s]) \in Nat
        /\ market.filled[s] \in Nat /\ market.amount[s] \in U64
        /\ position[s][u] <= Total(position[s])
    BY StateTypes DEF EscrowInvariant
  <2>2. Total(position[s]) <= market.filled[s]
    BY DEF EscrowInvariant, EscrowHoldsPositions
  <2>3. market.amount[s] \in Nat /\ market.amount[s] <= U64_MAX
    BY <2>1, U64Facts
  <2> QED BY <1>1, <2>1, <2>2, <2>3, U64Facts DEF AddOverflows, Left
<1>3. ASSUME Resolved, s = market.outcome, NEW u \in Users
      PROVE  LET share == (position[s][u] * market.amount[Other(s)]) \div market.amount[s]
             IN  /\ Winnings(s, position[s][u]) = share
                 /\ share <= market.amount[Other(s)]
                 /\ Fee(global_state.fee_cut_bps, share) <= share
  <2>1. market.exists
    BY <1>3 DEF EscrowInvariant, TypeOK, ZeroMarket, Resolved
  <2>2. Due(market, now) /\ FinalOutcome(market, now) = s
    BY <1>3 DEF Due, FinalOutcome, Resolved
  <2> DEFINE share == (position[s][u] * market.amount[Other(s)]) \div market.amount[s]
  <2>3. /\ Winnings(s, position[s][u]) = share
        /\ Winnings(s, position[s][u]) \in Nat
        /\ Winnings(s, position[s][u]) <= market.amount[Other(s)]
    BY <2>1, <2>2, ClaimIsCovered
  <2> HIDE DEF share
  <2>4. global_state.fee_cut_bps \in BpsValue
    BY DEF EscrowInvariant, TypeOK
  <2>5. Fee(global_state.fee_cut_bps, share) <= share
    BY <2>3, <2>4, FeeParts
  <2> QED BY <2>3, <2>5 DEF share
<1> QED BY <1>1, <1>2, <1>3

(***************************************************************************)
(* The arithmetic of deposit and claim is safe in every reachable state.   *)
(***************************************************************************)
THEOREM ArithmeticIsSafe == Spec => []SafeArithmetic
BY InvariantMakesSafe, InvariantHolds, PTL

-----------------------------------------------------------------------------
(***************************************************************************)
(* Finality: one lemma for a step that leaves the market to the passing of *)
(* time, one for a step that flags it final.                               *)
(***************************************************************************)
LEMMA FinalityUnderTime ==
  ASSUME EscrowInvariant, market.exists, Due(market, now), now' \in Nat, now' >= now,
         market' = market
  PROVE  Due(market', now') /\ FinalOutcome(market', now') = FinalOutcome(market, now)
<1>1. /\ market \in MarketAccount /\ now \in Nat /\ market.close_ts <= market.expiry_ts
      /\ market.amount \in [Side -> Nat]
  BY StateTypes DEF EscrowInvariant, TypeOK
<1>2. Underfunded(market) => market.outcome \notin Side
  BY <1>1 DEF EscrowInvariant, ResolvedOnlyWhenFilled, Underfunded
<1> QED BY <1>1, <1>2, DueIsStable

LEMMA FinalityUnderAcknowledge ==
  ASSUME NEW m \in MarketAccount, NEW t \in Nat
  PROVE  LET n == [m EXCEPT !.acknowledged = TRUE]
         IN  /\ Due(n, t) = Due(m, t)
             /\ FinalOutcome(n, t) = FinalOutcome(m, t)
             /\ n.filled = m.filled
BY DEF MarketAccount, Due, FinalOutcome, UnfilledAtClose, Underfunded, FinalizeOverflows,
       PastMaxDelay, PastResolutionDelay

LEMMA StepKeepsFinality ==
  EscrowInvariant /\ [Next]_vars =>
    [market.exists /\ Due(market, now) =>
       /\ Due(market', now')
       /\ FinalOutcome(market', now') = FinalOutcome(market, now)
       /\ market'.filled = market.filled]_vars
<1> DEFINE Final == /\ Due(market', now')
                    /\ FinalOutcome(market', now') = FinalOutcome(market, now)
                    /\ market'.filled = market.filled
<1> SUFFICES ASSUME EscrowInvariant, Next, market.exists, Due(market, now)
             PROVE  Final
  OBVIOUS
<1>1. market \in MarketAccount /\ now \in Nat
  BY StateTypes DEF EscrowInvariant
<1>2. ~NotDue(market, now)
  BY DEF NotDue
<1>3. ASSUME UNCHANGED <<now, market>> PROVE Final
  BY <1>1, <1>3
<1>4. ASSUME market' = Finalize(market, now), now' = now PROVE Final
  BY <1>1, <1>4, FinalizeIsIdempotent DEF Finalize, MarketAccount
<1>5. CASE Tick
  <2>1. now' \in Nat /\ now' >= now /\ market' = market
    BY <1>1, <1>5 DEF Tick, accounts
  <2> QED BY <2>1, FinalityUnderTime
<1>6. ASSUME NEW u \in Users, NEW s \in Side, NEW n \in Donations, Donate(u, s, n)
      PROVE  Final
  BY <1>3, <1>6 DEF Donate, accounts
<1>15. ASSUME NEW w \in FeeWallets, CreateFeeAccount(w)
       PROVE  Final
  BY <1>3, <1>15 DEF CreateFeeAccount, accounts
<1>7. ASSUME NEW p \in GlobalParams, InitializeGlobalState(p) \/ (\E k \in Keys : SetGlobalState(k, p))
      PROVE  Final
  BY <1>3, <1>7 DEF InitializeGlobalState, SetGlobalState
<1>8. ASSUME NEW p \in MarketParams, InitializeMarket(p)
      PROVE  Final
  BY <1>8 DEF InitializeMarket
<1>9. ASSUME NEW k \in Keys, ResolverAcknowledge(k)
      PROVE  Final
  BY <1>1, <1>9, FinalityUnderAcknowledge DEF ResolverAcknowledge
<1>10. ASSUME NEW u \in Users, InitializeUserPosition(u)
      PROVE  Final
  BY <1>3, <1>10 DEF InitializeUserPosition
<1>11. ASSUME NEW u \in Users, NEW p \in DepositParams, Deposit(u, p)
      PROVE  Final
  BY <1>2, <1>11 DEF Deposit, CanDeposit
<1>12. ASSUME NEW k \in Keys, NEW o \in Outcome, UpdateState(k, o)
       PROVE  Final
  BY <1>2, <1>4, <1>12 DEF UpdateState
<1>13. ASSUME NEW u \in Users, Withdraw(u)
       PROVE  Final
  BY <1>4, <1>13 DEF Withdraw
<1>14. ASSUME NEW u \in Users, Claim(u)
       PROVE  Final
  BY <1>4, <1>14 DEF Claim
<1> QED BY <1>5, <1>6, <1>7, <1>8, <1>9, <1>10, <1>11, <1>12, <1>13, <1>14,
           <1>15 DEF Next

(***************************************************************************)
(* A market that finalize would call final keeps its result for ever.      *)
(***************************************************************************)
THEOREM FinalityHolds == Spec => FinalityIsForever
BY StepKeepsFinality, InvariantHolds, PTL DEF Spec, FinalityIsForever

-----------------------------------------------------------------------------
(***************************************************************************)
(* The terms of a market are fixed when it is created, and it is flagged   *)
(* final only when finalize returns true.                                  *)
(***************************************************************************)
LEMMA MarketKeepsTerms ==
  ASSUME TypeOK, market.exists, [Next]_vars
  PROVE  /\ market'.exists
         /\ market'.resolver = market.resolver
         /\ market'.amount = market.amount
         /\ market'.close_ts = market.close_ts
         /\ market'.expiry_ts = market.expiry_ts
         /\ market'.resolution_delay = market.resolution_delay
         /\ market'.finalized => market.finalized \/ Due(market, now)
         /\ now' >= now
<1>1. market \in MarketAccount /\ now \in Nat
  BY StateTypes
<1>2. now' = now \/ now' = now + 1
  BY DEF Next, Tick, Donate, CreateFeeAccount, InitializeGlobalState, SetGlobalState,
         InitializeMarket, ResolverAcknowledge, InitializeUserPosition, Deposit,
         UpdateState, Withdraw, Claim, vars
<1>3. \/ market' = market
      \/ market' = [market EXCEPT !.acknowledged = TRUE]
      \/ \E f : market' = [market EXCEPT !.filled = f]
      \/ \E o : market' = Updated(market, now, o)
      \/ Due(market, now) /\ market' = Finalize(market, now)
  BY DEF Next, Tick, Donate, CreateFeeAccount, InitializeGlobalState, SetGlobalState,
         InitializeMarket, ResolverAcknowledge, InitializeUserPosition, Deposit,
         UpdateState, Withdraw, CanWithdraw, Claim, CanClaim, vars, accounts
<1>4. ASSUME NEW f, market' = [market EXCEPT !.filled = f]
      PROVE  /\ market'.exists /\ market'.resolver = market.resolver
             /\ market'.amount = market.amount /\ market'.close_ts = market.close_ts
             /\ market'.expiry_ts = market.expiry_ts
             /\ market'.resolution_delay = market.resolution_delay
             /\ market'.finalized = market.finalized
  BY <1>1, <1>4 DEF MarketAccount
<1>5. ASSUME NEW o, market' = Updated(market, now, o)
      PROVE  /\ market'.exists /\ market'.resolver = market.resolver
             /\ market'.amount = market.amount /\ market'.close_ts = market.close_ts
             /\ market'.expiry_ts = market.expiry_ts
             /\ market'.resolution_delay = market.resolution_delay
             /\ market'.finalized = market.finalized
  BY <1>1, <1>5 DEF Updated, MarketAccount
<1>6. CASE Due(market, now) /\ market' = Finalize(market, now)
  BY <1>1, <1>2, <1>6 DEF Finalize, MarketAccount
<1>7. CASE market' = [market EXCEPT !.acknowledged = TRUE]
  BY <1>1, <1>2, <1>7 DEF MarketAccount
<1> QED BY <1>1, <1>2, <1>3, <1>4, <1>5, <1>6, <1>7

-----------------------------------------------------------------------------
(***************************************************************************)
(* The times that finalize adds up.  An outcome_ts lies in the past, and a *)
(* resolution delay, an u32, added to any time of the clock fits a u64.    *)
(***************************************************************************)
TimesFit ==
  /\ market.outcome_ts <= now
  /\ MAX_CLOCK + market.resolution_delay <= U64_MAX

LEMMA InitTimesFit == Init => TimesFit
BY EscrowAssumption, U64Facts DEF Init, TimesFit, ZeroMarket, U64

LEMMA StepTimesFit == TypeOK /\ TypeOK' /\ TimesFit /\ [Next]_vars => TimesFit'
<1> SUFFICES ASSUME TypeOK, TypeOK', TimesFit, [Next]_vars PROVE TimesFit'
  OBVIOUS
<1>1. /\ market \in MarketAccount /\ now \in Nat /\ now' \in Nat
      /\ market.outcome_ts \in Nat
  BY StateTypes, U64Facts, EscrowAssumption DEF TypeOK, MarketAccount
<1>2. CASE market.exists
  <2>1. now' >= now /\ market'.resolution_delay = market.resolution_delay
    BY <1>2, MarketKeepsTerms
  <2>2. \/ market'.outcome_ts = market.outcome_ts
        \/ market'.outcome_ts = 0
        \/ market'.outcome_ts = now
    <3>1. \/ market' = market
          \/ market' = [market EXCEPT !.acknowledged = TRUE]
          \/ \E f : market' = [market EXCEPT !.filled = f]
          \/ \E o : market' = Updated(market, now, o)
          \/ market' = Finalize(market, now)
      BY <1>2 DEF Next, Tick, Donate, CreateFeeAccount, InitializeGlobalState,
         SetGlobalState, InitializeMarket, ResolverAcknowledge, InitializeUserPosition,
         Deposit, UpdateState, Withdraw, Claim, vars, accounts
    <3>2. ASSUME NEW f, market' = [market EXCEPT !.filled = f]
          PROVE  market'.outcome_ts = market.outcome_ts
      BY <1>1, <3>2 DEF MarketAccount
    <3>3. ASSUME NEW o, market' = Updated(market, now, o)
          PROVE  market'.outcome_ts = 0 \/ market'.outcome_ts = now
      BY <1>1, <3>3 DEF Updated, MarketAccount
    <3> QED BY <1>1, <3>1, <3>2, <3>3 DEF Finalize, MarketAccount
  <2> QED BY <1>1, <2>1, <2>2 DEF TimesFit
<1>3. CASE ~market.exists
  <2>1. \/ UNCHANGED <<market, now>>
        \/ market' = market /\ Tick
        \/ \E p \in MarketParams : InitializeMarket(p)
    BY <1>3 DEF Next, Tick, Donate, CreateFeeAccount, InitializeGlobalState,
       SetGlobalState, InitializeMarket, ResolverAcknowledge, InitializeUserPosition,
       Deposit, UpdateState, Withdraw, CanWithdraw, Claim, CanClaim, vars, accounts
  <2>2. ASSUME market' = market, Tick PROVE TimesFit'
    BY <1>1, <2>2 DEF Tick, TimesFit
  <2>3. ASSUME NEW p \in MarketParams, InitializeMarket(p) PROVE TimesFit'
    <3>1. market'.outcome_ts = 0 /\ market'.resolution_delay = p.resolution_delay
      BY <2>3 DEF InitializeMarket, ZeroMarket
    <3>2. MAX_CLOCK + p.resolution_delay <= U64_MAX
      BY EscrowAssumption
    <3> QED BY <1>1, <3>1, <3>2 DEF TimesFit
  <2> QED BY <2>1, <2>2, <2>3 DEF TimesFit
<1> QED BY <1>2, <1>3

(***************************************************************************)
(* finalize fails before the closing time only: a market with a deadline   *)
(* beyond u64 is unfilled, so from the close on it is Invalid.             *)
(***************************************************************************)
LEMMA InvariantLetsErrorPass == EscrowInvariant /\ TimesFit => FinalizeErrorPasses
<1> SUFFICES ASSUME EscrowInvariant, TimesFit, market.exists,
                    FinalizeOverflows(market, now), ~(now < market.close_ts)
             PROVE  FALSE
  BY DEF FinalizeErrorPasses
<1>1. /\ now \in Nat /\ now <= MAX_CLOCK /\ MAX_CLOCK \in Nat
      /\ market.outcome_ts \in Nat /\ market.resolution_delay \in Nat
      /\ market.close_ts \in Nat
      /\ market.amount \in [Side -> Nat] /\ market.filled \in [Side -> Nat]
      /\ \A s \in Side : market.amount[s] # 0
  <2>1. TypeOK
    BY DEF EscrowInvariant
  <2> QED BY <2>1, StateTypes, U64Facts, EscrowAssumption DEF TypeOK, MarketAccount
<1>2. ~AddOverflows(market.outcome_ts, market.resolution_delay)
  BY <1>1, U64Facts DEF TimesFit, AddOverflows
<1>3. AddOverflows(market.expiry_ts, MAX_DELAY_SEC)
  BY <1>2 DEF FinalizeOverflows
<1>4. \A s \in Side : market.filled[s] < market.amount[s]
  BY <1>1, <1>3 DEF EscrowInvariant, OverflowMarketHoldsNothing
<1>5. UnfilledAtClose(market, now)
  BY <1>1, <1>4 DEF UnfilledAtClose, Underfunded, Side
<1> QED BY <1>5 DEF FinalizeOverflows

(***************************************************************************)
(* No error of finalize outlasts the closing time, in any reachable state. *)
(***************************************************************************)
THEOREM FinalizeErrorsPass == Spec => []FinalizeErrorPasses
<1>1. Init => EscrowInvariant /\ TimesFit
  BY InitInvariant, InitTimesFit
<1>2. EscrowInvariant /\ TimesFit /\ [Next]_vars => EscrowInvariant' /\ TimesFit'
  BY StepInvariant, StepTimesFit DEF EscrowInvariant
<1> QED BY <1>1, <1>2, InvariantLetsErrorPass, PTL DEF Spec

=============================================================================
