----------------------- MODULE EscrowObserverProofs -------------------------
(***************************************************************************)
(* What the observers of the escrow program see: the time to object, for   *)
(* every delay and every value of MAX_DELAY_SEC; what each user and each   *)
(* fee wallet ends up with, for any users, amounts, fees and orders; and   *)
(* how little the rounded shares leave behind.                             *)
(***************************************************************************)
EXTENDS EscrowWindow, EscrowLedger, EscrowProofs

(***************************************************************************)
(* While a market is not flagged, its outcome is at least as old as        *)
(* outcome_ts says.  Once it is flagged outcome_ts is of no interest, and  *)
(* what it was good for has to be remembered.                              *)
(***************************************************************************)
WindowInvariant ==
  /\ since \in Nat /\ since <= now
  /\ ~market.finalized /\ market.outcome # "Open" => since <= market.outcome_ts
  /\ market.finalized /\ ~Underfunded(market) =>
       \/ now >= since + market.resolution_delay
       \/ now >= market.expiry_ts + MAX_DELAY_SEC

LEMMA WindowTypes ==
  ASSUME TypeOK
  PROVE  /\ market \in MarketAccount /\ now \in Nat /\ MAX_DELAY_SEC \in Nat
         /\ market.outcome_ts \in Nat /\ market.resolution_delay \in Nat
         /\ market.expiry_ts \in Nat /\ market.close_ts \in Nat
BY EscrowAssumption, MarketAssumption, U64Facts DEF TypeOK, MarketAccount

LEMMA WindowInitInvariant == WindowInit => WindowInvariant
BY DEF WindowInit, Init, ZeroMarket, WindowInvariant

LEMMA WindowInvariantSuffices == WindowInvariant /\ TypeOK => TimeToObject
<1> SUFFICES ASSUME WindowInvariant, TypeOK, Due(market, now), ~Underfunded(market),
                    ~market.finalized, ~PastMaxDelay(market, now)
             PROVE  now >= since + market.resolution_delay
  BY WindowTypes DEF TimeToObject, WindowInvariant, PastMaxDelay
<1>1. PastResolutionDelay(market, now)
  BY DEF Due, UnfilledAtClose
<1>2. market.outcome # "Open" /\ now >= market.outcome_ts + market.resolution_delay
  BY <1>1 DEF PastResolutionDelay
<1> QED BY <1>2, WindowTypes DEF WindowInvariant

(***************************************************************************)
(* The steps after which the outcome is what it was.                       *)
(***************************************************************************)
LEMMA WindowFrame ==
  ASSUME WindowInvariant, TypeOK, TypeOK', since' = since, now' >= now,
         market'.finalized = market.finalized, market'.outcome = market.outcome,
         market'.outcome_ts = market.outcome_ts,
         market'.resolution_delay = market.resolution_delay,
         market'.expiry_ts = market.expiry_ts,
         market.finalized => market'.filled = market.filled /\ market'.amount = market.amount
  PROVE  WindowInvariant'
<1>1. now' \in Nat
  BY EscrowAssumption DEF TypeOK
<1>2. market.finalized => Underfunded(market') = Underfunded(market)
  BY DEF Underfunded
<1> QED BY <1>1, <1>2, WindowTypes DEF WindowInvariant

(***************************************************************************)
(* finalize: a filled market gets the flag after the delay of its outcome  *)
(* or after MAX_DELAY_SEC, and an outcome that was Open is replaced in the *)
(* second case only.                                                       *)
(***************************************************************************)
LEMMA WindowFinalize ==
  ASSUME WindowInvariant, TypeOK, now' = now, Due(market, now),
         market' = Finalize(market, now),
         since' = IF market'.outcome # market.outcome THEN now ELSE since
  PROVE  WindowInvariant'
<1>1. /\ market'.finalized /\ market'.outcome = FinalOutcome(market, now)
      /\ market'.resolution_delay = market.resolution_delay
      /\ market'.expiry_ts = market.expiry_ts
      /\ market'.filled = market.filled /\ market'.amount = market.amount
  BY WindowTypes DEF Finalize, MarketAccount
<1>2. since' \in Nat /\ since' <= now'
  BY WindowTypes DEF WindowInvariant
<1>3. ASSUME ~Underfunded(market)
      PROVE  \/ now >= since' + market.resolution_delay
             \/ now >= market.expiry_ts + MAX_DELAY_SEC
  <2>1. CASE market.finalized
    <3>1. since' = since
      BY <1>1, <2>1 DEF FinalOutcome
    <3> QED BY <1>3, <2>1, <3>1 DEF WindowInvariant
  <2>2. CASE ~market.finalized /\ PastMaxDelay(market, now)
    BY <2>2 DEF PastMaxDelay
  <2>3. CASE ~market.finalized /\ ~PastMaxDelay(market, now)
    <3>1. PastResolutionDelay(market, now)
      BY <1>3, <2>3 DEF Due, UnfilledAtClose
    <3>2. /\ market.outcome # "Open"
          /\ now >= market.outcome_ts + market.resolution_delay
      BY <3>1 DEF PastResolutionDelay
    <3>3. since' = since
      BY <1>1, <1>3, <3>2 DEF FinalOutcome, UnfilledAtClose
    <3> QED BY <2>3, <3>2, <3>3, WindowTypes DEF WindowInvariant
  <2> QED BY <2>1, <2>2, <2>3
<1>4. Underfunded(market') = Underfunded(market)
  BY <1>1 DEF Underfunded
<1> QED BY <1>1, <1>2, <1>3, <1>4 DEF WindowInvariant

LEMMA WindowStepInvariant ==
  WindowInvariant /\ TypeOK /\ TypeOK' /\ [WindowNext]_<<vars, since>> => WindowInvariant'
<1> SUFFICES ASSUME WindowInvariant, TypeOK, TypeOK', [WindowNext]_<<vars, since>>
             PROVE  WindowInvariant'
  OBVIOUS
<1>1. CASE UNCHANGED <<vars, since>>
  BY <1>1, WindowFrame, WindowTypes DEF vars, accounts
<1>2. ASSUME WindowNext, market' = market, now' >= now
      PROVE  WindowInvariant'
  BY <1>2, WindowFrame DEF WindowNext
<1>3. ASSUME WindowNext, market' = Finalize(market, now), Due(market, now), now' = now
      PROVE  WindowInvariant'
  BY <1>3, WindowFinalize DEF WindowNext
<1>4. market \in MarketAccount /\ now \in Nat /\ now <= now
  BY WindowTypes
<1>5. CASE WindowNext /\ Tick
  BY <1>2, <1>4, <1>5 DEF Tick, accounts
<1>6. ASSUME WindowNext, NEW u \in Users, NEW s \in Side, NEW n \in Donations, Donate(u, s, n)
      PROVE  WindowInvariant'
  BY <1>2, <1>4, <1>6 DEF Donate, accounts
<1>7. ASSUME WindowNext, NEW w \in FeeWallets, CreateFeeAccount(w)
      PROVE  WindowInvariant'
  BY <1>2, <1>4, <1>7 DEF CreateFeeAccount, accounts
<1>8. ASSUME WindowNext, NEW p \in GlobalParams,
             InitializeGlobalState(p) \/ (\E k \in Keys : SetGlobalState(k, p))
      PROVE  WindowInvariant'
  BY <1>2, <1>4, <1>8 DEF InitializeGlobalState, SetGlobalState
<1>9. ASSUME WindowNext, NEW p \in MarketParams, InitializeMarket(p)
      PROVE  WindowInvariant'
  <2>1. market.outcome = "Open"
    BY <1>9 DEF InitializeMarket, TypeOK, ZeroMarket
  <2>2. market'.outcome = "Open" /\ market'.finalized = FALSE /\ now' = now
    BY <1>9 DEF InitializeMarket, ZeroMarket
  <2> QED BY <1>9, <2>1, <2>2 DEF WindowInvariant, WindowNext
<1>10. ASSUME WindowNext, NEW k \in Keys, ResolverAcknowledge(k)
       PROVE  WindowInvariant'
  <2>1. /\ market' = [market EXCEPT !.acknowledged = TRUE] /\ now' = now
        /\ since' = since
    BY <1>4, <1>10 DEF ResolverAcknowledge, WindowNext, MarketAccount
  <2> QED BY <1>4, <2>1, WindowFrame DEF MarketAccount
<1>11. ASSUME WindowNext, NEW u \in Users, InitializeUserPosition(u)
       PROVE  WindowInvariant'
  BY <1>2, <1>4, <1>11 DEF InitializeUserPosition
<1>12. ASSUME WindowNext, NEW u \in Users, NEW p \in DepositParams, Deposit(u, p)
       PROVE  WindowInvariant'
  <2>1. ~market.finalized
    BY <1>12, NotDueFacts DEF Deposit, CanDeposit
  <2>2. /\ market'.finalized = market.finalized /\ market'.outcome = market.outcome
        /\ market'.outcome_ts = market.outcome_ts
        /\ market'.resolution_delay = market.resolution_delay
        /\ market'.expiry_ts = market.expiry_ts /\ now' = now
    BY <1>4, <1>12 DEF Deposit, MarketAccount
  <2>3. since' = since
    BY <1>12, <2>2 DEF WindowNext
  <2> QED BY <1>4, <2>1, <2>2, <2>3, WindowFrame
<1>13. ASSUME WindowNext, NEW k \in Keys, NEW o \in Outcome, UpdateState(k, o)
       PROVE  WindowInvariant'
  <2>1. CASE Due(market, now) /\ market' = Finalize(market, now)
    BY <1>3, <1>13, <2>1 DEF UpdateState
  <2>2. CASE NotDue(market, now) /\ market' = Updated(market, now, o)
    <3>1. /\ ~market.finalized /\ market'.finalized = market.finalized
          /\ market'.outcome = o /\ (o # "Open" => market'.outcome_ts = now)
          /\ now' = now
      BY <1>4, <1>13, <2>2, NotDueFacts DEF Updated, UpdateState, MarketAccount
    <3>2. since' \in Nat /\ since' <= now
      BY <1>4, <1>13 DEF WindowNext, WindowInvariant
    <3> QED BY <3>1, <3>2 DEF WindowInvariant
  <2> QED BY <1>13, <2>1, <2>2 DEF UpdateState
<1>14. ASSUME WindowNext, NEW u \in Users, Withdraw(u)
       PROVE  WindowInvariant'
  BY <1>3, <1>14 DEF Withdraw, CanWithdraw
<1>15. ASSUME WindowNext, NEW u \in Users, Claim(u)
       PROVE  WindowInvariant'
  BY <1>3, <1>15 DEF Claim, CanClaim
<1>16. CASE WindowNext
  <2>1. Next
    BY <1>16 DEF WindowNext
  <2> QED BY <1>5, <1>6, <1>7, <1>8, <1>9, <1>10, <1>11, <1>12, <1>13, <1>14, <1>15,
             <1>16, <2>1 DEF Next
<1> QED BY <1>1, <1>16

(***************************************************************************)
(* A filled market is never final before its outcome stood unchanged for   *)
(* the resolution delay, or before MAX_DELAY_SEC after the expiry.         *)
(***************************************************************************)
THEOREM TimeToObjectHolds == WindowSpec => []TimeToObject
<1>1. WindowInit => TypeOK /\ WindowInvariant
  BY InitTypeOK, WindowInitInvariant DEF WindowInit
<1>2. TypeOK /\ WindowInvariant /\ [WindowNext]_<<vars, since>>
        => TypeOK' /\ WindowInvariant'
  BY StepTypeOK, WindowStepInvariant DEF WindowNext, vars
<1> QED BY <1>1, <1>2, WindowInvariantSuffices, PTL DEF WindowSpec

-----------------------------------------------------------------------------
(***************************************************************************)
(* The books.  Until the market is flagged nobody is paid, so a position   *)
(* is what was bet; and an open position is that to the end.               *)
(***************************************************************************)
BetStands(u) ==
  HasPosition(u) \/ ~market.finalized => \A s \in Side : position[s][u] = bet[s][u]

BooksTypeOK ==
  /\ bet \in [Side -> [Users -> Nat]]
  /\ gifts \in [Users -> Nat]
  /\ rate \in [Users -> BpsValue]

LedgerInvariant ==
  BooksTypeOK /\ \A u \in Users : BetStands(u) /\ GetsTheirDue(u)

LEMMA LedgerTypes ==
  ASSUME TypeOK, BooksTypeOK, NEW u \in Users
  PROVE  /\ wallet[u] \in Nat /\ gifts[u] \in Nat /\ InitialWallet[u] \in Nat
         /\ \A s \in Side : bet[s][u] \in Nat /\ position[s][u] \in Nat
         /\ rate[u] \in BpsValue
BY EscrowAssumption, StateTypes DEF TypeOK, BooksTypeOK

(***************************************************************************)
(* Nothing is won with nothing, and no fee is due on it.                   *)
(***************************************************************************)
LEMMA NothingFromNothing ==
  ASSUME NEW w \in Nat \ {0}, NEW l \in Nat, NEW bps \in BpsValue
  PROVE  (0 * l) \div w = 0 /\ FeeReference(bps, 0) = 0
<1>1. 0 * l = 0 /\ 0 \div w = 0
  <2>1. 0 * l = 0
    OBVIOUS
  <2>2. 0 \div w = 0
    BY DivisionUnique, 0 = w * 0 + 0, 0 \in 0 .. (w - 1)
  <2> QED BY <2>1, <2>2
<1>2. BPS_MAX \in Nat \ {0} /\ bps \in Nat
  BY BpsAssumption DEF BpsValue
<1>3. 0 * bps = 0 /\ 0 \div BPS_MAX = 0 /\ 0 % BPS_MAX = 0
  <2>1. 0 * bps = 0
    BY <1>2
  <2>2. 0 \div BPS_MAX = 0 /\ 0 % BPS_MAX = 0
    BY <1>2, DivisionUnique, 0 = BPS_MAX * 0 + 0, 0 \in 0 .. (BPS_MAX - 1)
  <2> QED BY <2>1, <2>2
<1> QED BY <1>1, <1>3 DEF FeeReference

NoBetNoFee ==
  \A u \in Users : rate[u] \in BpsValue /\ Resolved /\ (\A s \in Side : bet[s][u] = 0)
    => FairShare(u) = 0 /\ FairFee(u) = 0

LEMMA NothingFromNoBet == TypeOK => NoBetNoFee
<1> SUFFICES ASSUME TypeOK, NEW u \in Users, rate[u] \in BpsValue, Resolved,
                    \A s \in Side : bet[s][u] = 0
             PROVE  FairShare(u) = 0 /\ FairFee(u) = 0
  BY DEF NoBetNoFee
<1> DEFINE won == market.outcome
<1>1. won \in Side /\ Other(won) \in Side /\ market.exists
  BY DEF Resolved, Other, Side, TypeOK, ZeroMarket
<1>2. market.amount[won] \in Nat \ {0} /\ market.amount[Other(won)] \in Nat
  BY <1>1, StateTypes DEF TypeOK
<1>3. FairShare(u) = (0 * market.amount[Other(won)]) \div market.amount[won]
  BY <1>1 DEF FairShare
<1>4. FairShare(u) = 0 /\ FeeReference(rate[u], 0) = 0
  BY <1>2, <1>3, NothingFromNothing
<1> QED BY <1>4 DEF FairFee

(***************************************************************************)
(* A step that does not touch what a user has keeps the user's account in  *)
(* order: be it one that leaves the result alone, or one that flags the    *)
(* market, when a user without a position has no bet either.               *)
(***************************************************************************)
LEMMA BystanderFrame ==
  ASSUME TypeOK, BooksTypeOK, TypeOK', NEW u \in Users, BetStands(u), GetsTheirDue(u),
         \A s \in Side : position'[s][u] = position[s][u] /\ bet'[s][u] = bet[s][u],
         wallet'[u] + gifts'[u] = wallet[u] + gifts[u], rate'[u] = rate[u],
         market'.finalized = market.finalized,
         Resolved' <=> Resolved,
         Resolved => market'.outcome = market.outcome /\ market'.amount = market.amount
  PROVE  BetStands(u)' /\ GetsTheirDue(u)'
<1>1. HasPosition(u)' <=> HasPosition(u)
  BY DEF HasPosition
<1>2. BetStands(u)'
  BY <1>1 DEF BetStands
<1>3. Resolved => FairShare(u)' = FairShare(u) /\ FairFee(u)' = FairFee(u)
  BY DEF Resolved, FairShare, FairFee, Other, Side
<1>4. GetsTheirDue(u)'
  BY <1>1, <1>3 DEF GetsTheirDue, Resolved, Other, Side
<1> QED BY <1>2, <1>4

LEMMA BystanderFlagged ==
  ASSUME TypeOK, BooksTypeOK, TypeOK', NEW u \in Users, BetStands(u), GetsTheirDue(u),
         \A s \in Side : position'[s][u] = position[s][u] /\ bet'[s][u] = bet[s][u],
         wallet'[u] + gifts'[u] = wallet[u] + gifts[u], rate'[u] = rate[u],
         market.exists, market'.amount = market.amount, ~market.finalized, market'.finalized
  PROVE  BetStands(u)' /\ GetsTheirDue(u)'
<1>1. HasPosition(u)' <=> HasPosition(u)
  BY DEF HasPosition
<1>2. \A s \in Side : position[s][u] = bet[s][u]
  BY DEF BetStands
<1>3. BetStands(u)'
  BY <1>2 DEF BetStands
<1>4. CASE HasPosition(u)
  BY <1>1, <1>3, <1>4 DEF GetsTheirDue, Side
<1>5. CASE ~HasPosition(u)
  <2>1. \A s \in Side : bet'[s][u] = 0
    BY <1>2, <1>5 DEF HasPosition
  <2>2. wallet'[u] + gifts'[u] = InitialWallet[u]
    BY <1>5 DEF GetsTheirDue, Resolved
  <2>3. ASSUME Resolved'
        PROVE  FairShare(u)' = 0 /\ FairFee(u)' = 0 /\ bet'[Other(market'.outcome)][u] = 0
    <3>1. (TypeOK => NoBetNoFee)'
      BY NothingFromNoBet, PTL
    <3>2. Other(market'.outcome) \in Side /\ rate'[u] \in BpsValue
      BY DEF Other, Side, BooksTypeOK
    <3> QED BY <2>1, <2>3, <3>1, <3>2 DEF NoBetNoFee
  <2>4. InitialWallet[u] \in Nat
    BY EscrowAssumption
  <2>5. GetsTheirDue(u)'
    <3>1. CASE Resolved'
      BY <1>1, <1>5, <2>2, <2>3, <2>4, <3>1 DEF GetsTheirDue
    <3>2. CASE ~Resolved'
      BY <1>1, <1>5, <2>2, <3>2 DEF GetsTheirDue
    <3> QED BY <3>1, <3>2
  <2> QED BY <1>3, <2>5
<1> QED BY <1>3, <1>4, <1>5

(***************************************************************************)
(* What the observer writes in a step: nothing about a user whose position *)
(* the step leaves alone.                                                  *)
(***************************************************************************)
ResultStays ==
  /\ market'.finalized = market.finalized
  /\ Resolved' <=> Resolved
  /\ Resolved => market'.outcome = market.outcome /\ market'.amount = market.amount

GetsFlagged ==
  market.exists /\ market'.amount = market.amount /\ ~market.finalized /\ market'.finalized

LEMMA BystanderBooks ==
  ASSUME TypeOK, LedgerInvariant, LedgerNext, NEW v \in Users,
         \A s \in Side : position'[s][v] = position[s][v]
  PROVE  /\ \A s \in Side : bet'[s][v] = bet[s][v]
         /\ rate'[v] = rate[v] /\ payee'[v] = payee[v]
         /\ HasPosition(v)' <=> HasPosition(v)
<1>1. ASSUME NEW s \in Side PROVE bet'[s][v] = bet[s][v]
  <2>1. bet[s][v] \in Nat /\ position[s][v] \in Nat
    BY LedgerTypes DEF LedgerInvariant
  <2>2. bet[s][v] + (position'[s][v] - position[s][v]) = bet[s][v]
    BY <2>1
  <2>3. CASE market'.filled = market.filled
    BY <2>3 DEF LedgerNext
  <2>4. CASE market'.filled # market.filled
    BY <2>2, <2>4 DEF LedgerNext
  <2> QED BY <2>3, <2>4
<1>2. HasPosition(v)' <=> HasPosition(v)
  BY DEF HasPosition
<1>3. rate'[v] = rate[v] /\ payee'[v] = payee[v]
  BY <1>2 DEF LedgerNext
<1> QED BY <1>1, <1>2, <1>3

LEMMA Bystander ==
  ASSUME TypeOK, TypeOK', LedgerInvariant, LedgerNext, NEW v \in Users,
         \A s \in Side : position'[s][v] = position[s][v],
         wallet'[v] = wallet[v] \/ donated' # donated,
         ResultStays \/ GetsFlagged
  PROVE  BetStands(v)' /\ GetsTheirDue(v)'
<1>1. BooksTypeOK /\ BetStands(v) /\ GetsTheirDue(v)
  BY DEF LedgerInvariant
<1>2. \A s \in Side : bet'[s][v] = bet[s][v]
  BY BystanderBooks
<1>3. rate'[v] = rate[v]
  BY BystanderBooks
<1>4. wallet'[v] + gifts'[v] = wallet[v] + gifts[v]
  <2>1. wallet[v] \in Nat /\ wallet'[v] \in Nat /\ gifts[v] \in Nat
    BY <1>1, LedgerTypes DEF TypeOK
  <2>2. CASE donated' = donated
    BY <2>2 DEF LedgerNext
  <2>3. CASE donated' # donated
    <3>1. gifts'[v] = gifts[v] + (wallet[v] - wallet'[v])
      BY <2>3 DEF LedgerNext
    <3> QED BY <2>1, <3>1
  <2> QED BY <2>2, <2>3
<1>5. CASE ResultStays
  BY <1>1, <1>2, <1>3, <1>4, <1>5, BystanderFrame DEF ResultStays
<1>6. CASE GetsFlagged
  BY <1>1, <1>2, <1>3, <1>4, <1>6, BystanderFlagged DEF GetsFlagged
<1> QED BY <1>5, <1>6

LEMMA BooksStayTyped ==
  ASSUME TypeOK, TypeOK', BooksTypeOK, LedgerNext,
         \/ market'.filled = market.filled
         \/ \A s \in Side, u \in Users : position'[s][u] >= position[s][u],
         donated' = donated \/ \A u \in Users : wallet'[u] <= wallet[u]
  PROVE  BooksTypeOK'
<1>1. /\ position \in [Side -> [Users -> Nat]] /\ position' \in [Side -> [Users -> Nat]]
      /\ wallet \in [Users -> Nat] /\ wallet' \in [Users -> Nat]
  BY U64Facts DEF TypeOK
<1>2. bet' \in [Side -> [Users -> Nat]]
  <2>1. CASE market'.filled = market.filled
    BY <2>1 DEF LedgerNext, BooksTypeOK
  <2>2. CASE market'.filled # market.filled
    <3>1. \A s \in Side, u \in Users :
            bet[s][u] + (position'[s][u] - position[s][u]) \in Nat
      BY <1>1, <2>2 DEF BooksTypeOK
    <3> QED BY <2>2, <3>1 DEF LedgerNext
  <2> QED BY <2>1, <2>2
<1>3. gifts' \in [Users -> Nat]
  <2>1. CASE donated' = donated
    BY <2>1 DEF LedgerNext, BooksTypeOK
  <2>2. CASE donated' # donated
    <3>1. \A u \in Users : gifts[u] + (wallet[u] - wallet'[u]) \in Nat
      BY <1>1, <2>2 DEF BooksTypeOK
    <3> QED BY <2>2, <3>1 DEF LedgerNext
  <2> QED BY <2>1, <2>2
<1>4. rate' \in [Users -> BpsValue]
  BY DEF LedgerNext, BooksTypeOK, TypeOK
<1> QED BY <1>2, <1>3, <1>4 DEF BooksTypeOK

(***************************************************************************)
(* finalize leaves the result alone or flags the market.                   *)
(***************************************************************************)
LEMMA FinalizeKinds ==
  ASSUME TypeOK, market.exists, market' = Finalize(market, now)
  PROVE  /\ ResultStays \/ GetsFlagged
         /\ market'.filled = market.filled /\ market'.amount = market.amount
         /\ market'.finalized /\ market'.outcome = FinalOutcome(market, now)
<1>1. /\ market'.filled = market.filled /\ market'.amount = market.amount
      /\ market'.finalized /\ market'.outcome = FinalOutcome(market, now)
      /\ market.finalized \in BOOLEAN /\ market'.finalized = TRUE
  BY DEF Finalize, TypeOK, MarketAccount
<1>2. CASE market.finalized
  <2>1. market'.outcome = market.outcome
    BY <1>1, <1>2 DEF FinalOutcome
  <2> QED BY <1>1, <1>2, <2>1 DEF ResultStays, Resolved
<1>3. CASE ~market.finalized
  BY <1>1, <1>3 DEF GetsFlagged
<1> QED BY <1>1, <1>2, <1>3

(***************************************************************************)
(* The steps that move no tokens of the users and no positions.            *)
(***************************************************************************)
LEMMA QuietStep ==
  ASSUME TypeOK, TypeOK', LedgerInvariant, LedgerNext,
         position' = position, wallet' = wallet, donated' = donated,
         market'.filled = market.filled, ResultStays \/ GetsFlagged
  PROVE  LedgerInvariant'
<1>1. BooksTypeOK'
  BY BooksStayTyped DEF LedgerInvariant
<1>2. ASSUME NEW v \in Users PROVE BetStands(v)' /\ GetsTheirDue(v)'
  BY <1>2, Bystander
<1> QED BY <1>1, <1>2 DEF LedgerInvariant

LEMMA SameMarket == market' = market => ResultStays /\ market'.filled = market.filled
BY DEF ResultStays, Resolved

(***************************************************************************)
(* The steps that move tokens of the users.  A gift is written down in     *)
(* full; a deposit is added to the bets, on both sides.                    *)
(***************************************************************************)
LEMMA DonateKeepsBooks ==
  ASSUME TypeOK, TypeOK', LedgerInvariant, LedgerNext,
         NEW u \in Users, NEW s \in Side, NEW n \in Donations, Donate(u, s, n)
  PROVE  LedgerInvariant'
<1>1. /\ n \in Nat \ {0} /\ position' = position /\ market' = market
      /\ wallet' = [wallet EXCEPT ![u] = @ - n]
      /\ donated' = [donated EXCEPT ![s] = @ + n]
  BY EscrowAssumption DEF Donate, accounts
<1>2. donated' # donated
  <2>1. donated[s] \in Nat /\ donated'[s] = donated[s] + n
    BY <1>1, StateTypes
  <2> QED BY <1>1, <2>1
<1>3. \A v \in Users : wallet'[v] <= wallet[v]
  BY <1>1 DEF TypeOK
<1>4. ResultStays /\ market'.filled = market.filled
  BY <1>1, SameMarket
<1>5. BooksTypeOK'
  BY <1>3, <1>4, BooksStayTyped DEF LedgerInvariant
<1>6. ASSUME NEW v \in Users PROVE BetStands(v)' /\ GetsTheirDue(v)'
  BY <1>1, <1>2, <1>4, <1>6, Bystander
<1> QED BY <1>5, <1>6 DEF LedgerInvariant

LEMMA DepositKeepsBooks ==
  ASSUME TypeOK, TypeOK', LedgerInvariant, LedgerNext,
         NEW u \in Users, NEW p \in DepositParams, Deposit(u, p)
  PROVE  LedgerInvariant'
<1> DEFINE deposit == [s \in Side |-> ToDeposit(p, s)]
<1>1. /\ \A s \in Side : deposit[s] \in Nat
      /\ deposit["Yes"] \in Nat /\ deposit["No"] \in Nat
  <2>1. p.amount \in [Side -> Nat]
    BY EscrowAssumption, U64Facts
  <2>2. market.amount \in [Side -> Nat] /\ market.filled \in [Side -> Nat]
    BY StateTypes
  <2>3. \A s \in Side : ToDeposit(p, s) \in Nat
    BY <2>1, <2>2 DEF Deposit, CanDeposit, ToDeposit, Left, Lesser
  <2> QED BY <2>3 DEF Side
<1>2. /\ market' = [market EXCEPT !.filled = [s \in Side |-> market.filled[s] + deposit[s]]]
      /\ position' = [s \in Side |->
                        [position[s] EXCEPT ![u] = position[s][u] + deposit[s]]]
      /\ wallet' = [wallet EXCEPT ![u] = @ - deposit["Yes"] - deposit["No"]]
      /\ donated' = donated /\ ~market.finalized
  <2>1. market' = [market EXCEPT !.filled = [s \in Side |-> @[s] + deposit[s]]]
    BY DEF Deposit
  <2> QED BY <2>1, NotDueFacts DEF Deposit, CanDeposit
<1> HIDE DEF deposit
<1>3. /\ market \in MarketAccount /\ position \in [Side -> [Users -> Nat]]
      /\ market.filled \in [Side -> Nat] /\ wallet \in [Users -> Nat]
  BY StateTypes DEF TypeOK
<1>4. /\ market'.finalized = market.finalized
      /\ market'.filled = [s \in Side |-> market.filled[s] + deposit[s]]
  BY <1>2, <1>3 DEF MarketAccount
<1>5. ResultStays /\ ~Resolved'
  BY <1>2, <1>4 DEF ResultStays, Resolved
<1>6. BooksTypeOK'
  <2>1. \A s \in Side, v \in Users : position'[s][v] >= position[s][v]
    BY <1>1, <1>2, <1>3
  <2> QED BY <1>2, <2>1, BooksStayTyped DEF LedgerInvariant
<1>7. ASSUME NEW v \in Users, v # u PROVE BetStands(v)' /\ GetsTheirDue(v)'
  <2>1. wallet'[v] = wallet[v] /\ \A s \in Side : position'[s][v] = position[s][v]
    BY <1>2, <1>3, <1>7
  <2> QED BY <1>5, <1>7, <2>1, Bystander
<1>8. \A s \in Side : /\ position[s][u] = bet[s][u]
                      /\ position'[s][u] = position[s][u] + deposit[s]
                      /\ bet'[s][u] = bet[s][u] + deposit[s]
  <2> SUFFICES ASSUME NEW s \in Side
               PROVE  /\ position[s][u] = bet[s][u]
                      /\ position'[s][u] = position[s][u] + deposit[s]
                      /\ bet'[s][u] = bet[s][u] + deposit[s]
    OBVIOUS
  <2>1. position[s][u] = bet[s][u] /\ position'[s][u] = position[s][u] + deposit[s]
    BY <1>2, <1>3 DEF LedgerInvariant, BetStands
  <2>2. bet[s][u] \in Nat /\ position[s][u] \in Nat /\ deposit[s] \in Nat
    BY <1>1, LedgerTypes DEF LedgerInvariant
  <2>3. CASE market'.filled = market.filled
    <3>1. market.filled[s] + deposit[s] = market.filled[s] /\ market.filled[s] \in Nat
      BY <1>3, <1>4, <2>3
    <3>2. deposit[s] = 0
      BY <2>2, <3>1
    <3>3. bet'[s][u] = bet[s][u]
      BY <2>3 DEF LedgerNext
    <3> QED BY <2>1, <2>2, <3>2, <3>3
  <2>4. CASE market'.filled # market.filled
    <3>1. bet'[s][u] = bet[s][u] + (position'[s][u] - position[s][u])
      BY <2>4 DEF LedgerNext
    <3> QED BY <2>1, <2>2, <3>1
  <2> QED BY <2>1, <2>3, <2>4
<1>9. BetStands(u)'
  BY <1>8 DEF BetStands
<1>10. /\ bet["Yes"][u] \in Nat /\ bet["No"][u] \in Nat
       /\ wallet[u] \in Nat /\ gifts[u] \in Nat /\ InitialWallet[u] \in Nat
  BY LedgerTypes DEF LedgerInvariant, Side
<1>11. wallet[u] + gifts[u] + bet["Yes"][u] + bet["No"][u] = InitialWallet[u]
  <2>1. CASE HasPosition(u)
    BY <2>1 DEF LedgerInvariant, GetsTheirDue
  <2>2. CASE ~HasPosition(u)
    <3>1. bet["Yes"][u] = 0 /\ bet["No"][u] = 0
      BY <1>8, <2>2 DEF HasPosition, Side
    <3>2. wallet[u] + gifts[u] = InitialWallet[u]
      BY <1>2, <2>2 DEF LedgerInvariant, GetsTheirDue, Resolved
    <3> QED BY <1>10, <3>1, <3>2
  <2> QED BY <2>1, <2>2
<1>12. wallet'[u] + gifts'[u] + bet'["Yes"][u] + bet'["No"][u] = InitialWallet[u]
  <2>1. /\ wallet'[u] = wallet[u] - deposit["Yes"] - deposit["No"]
        /\ gifts'[u] = gifts[u]
        /\ bet'["Yes"][u] = bet["Yes"][u] + deposit["Yes"]
        /\ bet'["No"][u] = bet["No"][u] + deposit["No"]
    BY <1>2, <1>3, <1>8 DEF LedgerNext, Side
  <2> QED BY <1>1, <1>10, <1>11, <2>1
<1>13. GetsTheirDue(u)'
  <2>1. CASE HasPosition(u)'
    BY <1>12, <2>1 DEF GetsTheirDue
  <2>2. CASE ~HasPosition(u)'
    <3>1. bet'["Yes"][u] = 0 /\ bet'["No"][u] = 0
      BY <1>8, <2>2 DEF HasPosition, Side
    <3>2. wallet'[u] + gifts'[u] = InitialWallet[u]
      <4>1. wallet'[u] \in Nat /\ gifts'[u] \in Nat
        BY <1>6 DEF BooksTypeOK, TypeOK
      <4> QED BY <1>12, <3>1, <4>1
    <3> QED BY <1>5, <2>2, <3>2 DEF GetsTheirDue
  <2> QED BY <2>1, <2>2
<1> QED BY <1>6, <1>7, <1>9, <1>13 DEF LedgerInvariant

(***************************************************************************)
(* The steps that close a position.  They flag the market or find it       *)
(* flagged, and concern nobody but the user.                               *)
(***************************************************************************)
LEMMA ClosingKeepsOthers ==
  ASSUME TypeOK, TypeOK', LedgerInvariant, LedgerNext, market.exists,
         market' = Finalize(market, now), donated' = donated,
         NEW u \in Users, position' = ClearedPosition(u),
         \A v \in Users \ {u} : wallet'[v] = wallet[v]
  PROVE  /\ BooksTypeOK'
         /\ \A v \in Users \ {u} : BetStands(v)' /\ GetsTheirDue(v)'
         /\ ~HasPosition(u) /\ wallet'[u] = wallet[u] => BetStands(u)' /\ GetsTheirDue(u)'
<1>1. /\ market'.filled = market.filled
      /\ ResultStays \/ GetsFlagged
  BY FinalizeKinds
<1>2. BooksTypeOK'
  BY <1>1, BooksStayTyped DEF LedgerInvariant
<1>3. position \in [Side -> [Users -> Nat]]
  BY StateTypes
<1>4. ASSUME NEW v \in Users, v # u PROVE BetStands(v)' /\ GetsTheirDue(v)'
  <2>1. \A s \in Side : position'[s][v] = position[s][v]
    BY <1>3, <1>4 DEF ClearedPosition
  <2> QED BY <1>1, <1>4, <2>1, Bystander
<1>5. ASSUME ~HasPosition(u), wallet'[u] = wallet[u]
      PROVE  BetStands(u)' /\ GetsTheirDue(u)'
  <2>1. \A s \in Side : position'[s][u] = position[s][u]
    BY <1>3, <1>5 DEF ClearedPosition, HasPosition
  <2> QED BY <1>1, <1>5, <2>1, Bystander
<1> QED BY <1>2, <1>4, <1>5

(***************************************************************************)
(* What the user who closes the position had, and that the books keep it.  *)
(***************************************************************************)
LEMMA ClosingKeepsBets ==
  ASSUME TypeOK, TypeOK', LedgerInvariant, LedgerNext, market.exists,
         market' = Finalize(market, now), donated' = donated,
         NEW u \in Users, position' = ClearedPosition(u), HasPosition(u)
  PROVE  /\ \A s \in Side : position[s][u] = bet[s][u] /\ bet'[s][u] = bet[s][u]
         /\ wallet[u] + gifts[u] + bet["Yes"][u] + bet["No"][u] = InitialWallet[u]
         /\ gifts'[u] = gifts[u]
         /\ rate'[u] = global_state.fee_cut_bps
         /\ ~HasPosition(u)' /\ BetStands(u)'
<1>1. market'.filled = market.filled /\ market'.finalized
  BY FinalizeKinds
<1>2. ~HasPosition(u)'
  BY StateTypes DEF ClearedPosition, HasPosition
<1>3. BetStands(u) /\ GetsTheirDue(u)
  BY DEF LedgerInvariant
<1>4. bet' = bet /\ gifts' = gifts /\ rate'[u] = global_state.fee_cut_bps
  BY <1>1, <1>2 DEF LedgerNext
<1> QED BY <1>1, <1>2, <1>3, <1>4 DEF BetStands, GetsTheirDue

LEMMA WithdrawKeepsBooks ==
  ASSUME TypeOK, TypeOK', LedgerInvariant, LedgerNext, NEW u \in Users, Withdraw(u)
  PROVE  LedgerInvariant'
<1>1. /\ market.exists /\ market.outcome = "Invalid"
      /\ market' = Finalize(market, now) /\ donated' = donated
      /\ position' = ClearedPosition(u)
      /\ wallet' = [wallet EXCEPT ![u] = @ + position["Yes"][u] + position["No"][u]]
  BY DEF Withdraw, CanWithdraw
<1>2. /\ wallet \in [Users -> Nat]
      /\ position["Yes"][u] \in Nat /\ position["No"][u] \in Nat
  BY StateTypes DEF TypeOK, Side
<1>3. \A v \in Users \ {u} : wallet'[v] = wallet[v]
  BY <1>1, <1>2
<1>4. wallet'[u] = wallet[u] + position["Yes"][u] + position["No"][u]
  BY <1>1, <1>2
<1>5. CASE ~HasPosition(u)
  <2>1. position["Yes"][u] = 0 /\ position["No"][u] = 0
    BY <1>5 DEF HasPosition, Side
  <2>2. wallet'[u] = wallet[u]
    BY <1>2, <1>4, <2>1
  <2> QED BY <1>1, <1>3, <1>5, <2>2, ClosingKeepsOthers DEF LedgerInvariant
<1>6. CASE HasPosition(u)
  <2>1. /\ position["Yes"][u] = bet["Yes"][u] /\ position["No"][u] = bet["No"][u]
        /\ wallet[u] + gifts[u] + bet["Yes"][u] + bet["No"][u] = InitialWallet[u]
        /\ gifts'[u] = gifts[u] /\ ~HasPosition(u)' /\ BetStands(u)'
    BY <1>1, <1>6, ClosingKeepsBets DEF Side
  <2>2. wallet'[u] + gifts'[u] = InitialWallet[u]
    <3>1. gifts[u] \in Nat /\ InitialWallet[u] \in Nat
      BY LedgerTypes DEF LedgerInvariant
    <3> QED BY <1>2, <1>4, <2>1, <3>1
  <2>3. ~Resolved'
    <3>1. market'.outcome = "Invalid"
      BY <1>1, FinalizeKinds DEF FinalOutcome
    <3> QED BY <3>1 DEF Resolved, Side
  <2>4. GetsTheirDue(u)'
    BY <2>1, <2>2, <2>3 DEF GetsTheirDue
  <2> QED BY <1>1, <1>3, <2>1, <2>4, ClosingKeepsOthers DEF LedgerInvariant
<1> QED BY <1>5, <1>6

LEMMA ClaimSettles ==
  ASSUME EscrowInvariant, TypeOK', LedgerInvariant, LedgerNext, NEW u \in Users, Claim(u)
  PROVE  LET won == FinalOutcome(market, now)
             stake == position[won][u]
             winnings == Winnings(won, stake)
             fee == Fee(global_state.fee_cut_bps, winnings)
         IN  /\ HasPosition(u) => FairShare(u)' = winnings /\ FairFee(u)' = fee
             /\ stake = 0 => winnings = 0 /\ fee = 0
             /\ winnings \in Nat /\ fee \in Nat
<1> DEFINE won == FinalOutcome(market, now)
           lost == Other(won)
           stake == position[won][u]
           winnings == Winnings(won, stake)
           fee == Fee(global_state.fee_cut_bps, winnings)
<1>1. /\ TypeOK /\ market.exists /\ Due(market, now) /\ won \in Side
      /\ market' = Finalize(market, now) /\ donated' = donated
      /\ position' = ClearedPosition(u)
      /\ global_state.fee_cut_bps \in BpsValue
  BY DEF EscrowInvariant, TypeOK, Claim, CanClaim
<1>2. lost \in Side /\ market'.outcome = won /\ market'.amount = market.amount
  BY <1>1, FinalizeKinds DEF Other, Side
<1>3. /\ winnings = (stake * market.amount[lost]) \div market.amount[won]
      /\ winnings \in Nat
  BY <1>1, ClaimIsCovered
<1>4. fee = FeeReference(global_state.fee_cut_bps, winnings) /\ fee \in Nat
  BY <1>1, <1>3, FeeParts
<1>5. ASSUME HasPosition(u) PROVE FairShare(u)' = winnings /\ FairFee(u)' = fee
  <2>1. bet'[won][u] = stake /\ rate'[u] = global_state.fee_cut_bps
    BY <1>1, <1>5, ClosingKeepsBets
  <2>2. FairShare(u)' = (stake * market.amount[lost]) \div market.amount[won]
    BY <1>2, <2>1 DEF FairShare
  <2> QED BY <1>3, <1>4, <2>1, <2>2 DEF FairFee
<1>6. ASSUME stake = 0 PROVE winnings = 0 /\ fee = 0
  <2>1. market.amount[won] \in Nat \ {0} /\ market.amount[lost] \in Nat
    BY <1>1, <1>2, StateTypes DEF TypeOK
  <2>2. winnings = (0 * market.amount[lost]) \div market.amount[won]
    BY <1>3, <1>6
  <2>3. winnings = 0 /\ FeeReference(global_state.fee_cut_bps, 0) = 0
    <3> HIDE DEF winnings, won, lost
    <3> QED BY <1>1, <2>1, <2>2, NothingFromNothing
  <2> QED BY <1>4, <2>3
<1> QED BY <1>3, <1>4, <1>5, <1>6

LEMMA ClaimKeepsBooks ==
  ASSUME EscrowInvariant, TypeOK', LedgerInvariant, LedgerNext, NEW u \in Users, Claim(u)
  PROVE  LedgerInvariant'
<1> DEFINE won == FinalOutcome(market, now)
           lost == Other(won)
           stake == position[won][u]
           winnings == Winnings(won, stake)
           fee == Fee(global_state.fee_cut_bps, winnings)
           remaining == Remaining(winnings, fee)
<1>1. /\ TypeOK /\ market.exists /\ Due(market, now) /\ won \in Side
      /\ market' = Finalize(market, now) /\ donated' = donated
      /\ position' = ClearedPosition(u)
      /\ \/ stake = 0 /\ wallet' = wallet
         \/ stake # 0 /\ PayWinner(u, won, stake)
      /\ global_state.fee_cut_bps \in BpsValue
  BY DEF EscrowInvariant, TypeOK, Claim, CanClaim
<1>2. /\ lost \in Side /\ market'.outcome = won /\ market'.amount = market.amount
      /\ market'.finalized
  BY <1>1, FinalizeKinds DEF Other, Side
<1>3. /\ winnings = (stake * market.amount[lost]) \div market.amount[won]
      /\ winnings \in Nat
  BY <1>1, ClaimIsCovered
<1>4. /\ fee = FeeReference(global_state.fee_cut_bps, winnings)
      /\ fee \in Nat /\ remaining \in Nat /\ fee + remaining = winnings
  BY <1>1, <1>3, FeeParts, PaymentAddsUp
<1>5. /\ wallet \in [Users -> Nat] /\ stake \in Nat /\ gifts[u] \in Nat
      /\ InitialWallet[u] \in Nat
  <2>1. \A s \in Side : position[s][u] \in Nat
    BY <1>1, StateTypes
  <2> QED BY <1>1, <2>1, LedgerTypes DEF LedgerInvariant, TypeOK
<1>6. PayWinner(u, won, stake) => wallet' = [wallet EXCEPT ![u] = @ + remaining + stake]
  BY DEF PayWinner
<1>7. \A v \in Users \ {u} : wallet'[v] = wallet[v]
  <2> HIDE DEF remaining, stake, won
  <2> QED BY <1>1, <1>5, <1>6
<1>8. CASE ~HasPosition(u)
  <2>1. stake = 0
    BY <1>1, <1>8 DEF HasPosition
  <2>2. wallet' = wallet
    BY <1>1, <2>1
  <2> QED BY <1>1, <1>7, <1>8, <2>2, ClosingKeepsOthers DEF LedgerInvariant
<1>9. CASE HasPosition(u)
  <2>1. /\ \A s \in Side : position[s][u] = bet[s][u] /\ bet'[s][u] = bet[s][u]
        /\ wallet[u] + gifts[u] + bet["Yes"][u] + bet["No"][u] = InitialWallet[u]
        /\ gifts'[u] = gifts[u] /\ rate'[u] = global_state.fee_cut_bps
        /\ ~HasPosition(u)' /\ BetStands(u)'
    BY <1>1, <1>9, ClosingKeepsBets
  <2>2. FairShare(u)' = winnings /\ FairFee(u)' = fee
    BY <1>9, ClaimSettles
  <2>3. wallet'[u] + fee = wallet[u] + winnings + stake
    <3>1. CASE stake # 0 /\ PayWinner(u, won, stake)
      <4>1. wallet'[u] = wallet[u] + remaining + stake
        <5> HIDE DEF remaining, stake
        <5> QED BY <1>5, <1>6, <3>1
      <4> HIDE DEF remaining, stake, fee, winnings
      <4> QED BY <1>3, <1>4, <1>5, <4>1
    <3>2. CASE stake = 0 /\ wallet' = wallet
      <4>1. winnings = 0 /\ fee = 0
        BY <3>2, ClaimSettles
      <4> QED BY <1>5, <3>2, <4>1
    <3> QED BY <1>1, <3>1, <3>2
  <2>4. wallet[u] + gifts[u] + stake + bet[lost][u] = InitialWallet[u]
        /\ bet[lost][u] \in Nat
    <3>1. bet[won][u] = stake
      BY <1>1, <2>1
    <3>2. /\ bet["Yes"][u] + bet["No"][u] = bet[won][u] + bet[lost][u]
          /\ bet["Yes"][u] \in Nat /\ bet["No"][u] \in Nat
      <4>1. bet["Yes"][u] \in Nat /\ bet["No"][u] \in Nat
        BY <1>1, LedgerTypes DEF LedgerInvariant, Side
      <4>2. \/ won = "Yes" /\ lost = "No"
            \/ won = "No" /\ lost = "Yes"
        BY <1>1 DEF Other, Side
      <4> HIDE DEF won, lost
      <4> QED BY <4>1, <4>2
    <3>3. bet[lost][u] \in Nat /\ wallet[u] \in Nat
      BY <1>1, <1>2, LedgerTypes DEF LedgerInvariant
    <3> HIDE DEF won, lost, stake
    <3> QED BY <1>5, <2>1, <3>1, <3>2, <3>3
  <2>5. GetsTheirDue(u)'
    <3>1. Resolved' /\ bet'[Other(market'.outcome)][u] = bet[lost][u]
      BY <1>1, <1>2, <2>1 DEF Resolved
    <3>2. wallet'[u] + gifts'[u] + bet[lost][u] + fee = InitialWallet[u] + winnings
      <4>1. wallet'[u] \in Nat /\ wallet[u] \in Nat
        BY <1>1 DEF TypeOK
      <4> HIDE DEF lost, stake, fee, winnings
      <4> QED BY <1>3, <1>4, <1>5, <2>1, <2>3, <2>4, <4>1
    <3> QED BY <2>1, <2>2, <3>1, <3>2 DEF GetsTheirDue
  <2> QED BY <1>1, <1>7, <2>1, <2>5, ClosingKeepsOthers DEF LedgerInvariant
<1> QED BY <1>8, <1>9

(***************************************************************************)
(* Every step keeps the books.                                             *)
(***************************************************************************)
LEMMA LedgerStepInvariant ==
  EscrowInvariant /\ EscrowInvariant' /\ LedgerInvariant /\ [LedgerNext]_<<vars, books>>
    => LedgerInvariant'
<1> SUFFICES ASSUME EscrowInvariant, EscrowInvariant', LedgerInvariant,
                    [LedgerNext]_<<vars, books>>
             PROVE  LedgerInvariant'
  OBVIOUS
<1>1. TypeOK /\ TypeOK' /\ market \in MarketAccount
  BY DEF EscrowInvariant, TypeOK
<1>2. CASE UNCHANGED <<vars, books>>
  <2>1. UNCHANGED <<market, position, wallet, bet, gifts, rate>>
    BY <1>2 DEF vars, accounts, balances, books
  <2> QED BY <2>1 DEF LedgerInvariant, BooksTypeOK, BetStands, GetsTheirDue, HasPosition,
                      Resolved, FairShare, FairFee
<1>3. ASSUME LedgerNext, market' = market, UNCHANGED <<position, wallet, donated>>
      PROVE  LedgerInvariant'
  BY <1>1, <1>3, SameMarket, QuietStep
<1>4. ASSUME LedgerNext, UNCHANGED <<position, wallet, donated>>,
             market.exists, market' = Finalize(market, now)
      PROVE  LedgerInvariant'
  BY <1>1, <1>4, FinalizeKinds, QuietStep
<1>5. ASSUME LedgerNext, UNCHANGED <<position, wallet, donated>>,
             market'.filled = market.filled, ~market.finalized, ~market'.finalized
      PROVE  LedgerInvariant'
  <2>1. ResultStays
    BY <1>1, <1>5 DEF ResultStays, Resolved, TypeOK, MarketAccount
  <2> QED BY <1>1, <1>5, <2>1, QuietStep
<1>6. CASE LedgerNext /\ Tick
  BY <1>3, <1>6 DEF Tick, accounts, balances
<1>7. ASSUME LedgerNext, NEW u \in Users, NEW s \in Side, NEW n \in Donations, Donate(u, s, n)
      PROVE  LedgerInvariant'
  BY <1>1, <1>7, DonateKeepsBooks
<1>8. ASSUME LedgerNext, NEW w \in FeeWallets, CreateFeeAccount(w)
      PROVE  LedgerInvariant'
  BY <1>3, <1>8 DEF CreateFeeAccount, accounts
<1>9. ASSUME LedgerNext, NEW p \in GlobalParams,
             InitializeGlobalState(p) \/ (\E k \in Keys : SetGlobalState(k, p))
      PROVE  LedgerInvariant'
  BY <1>3, <1>9 DEF InitializeGlobalState, SetGlobalState, balances
<1>10. ASSUME LedgerNext, NEW p \in MarketParams, InitializeMarket(p)
       PROVE  LedgerInvariant'
  <2>1. market = ZeroMarket
    BY <1>1, <1>10 DEF InitializeMarket, TypeOK
  <2>2. /\ ~market.finalized /\ ~market'.finalized /\ market'.filled = market.filled
        /\ UNCHANGED <<position, wallet, donated>>
    BY <1>10, <2>1 DEF InitializeMarket, ZeroMarket, balances
  <2> QED BY <1>5, <1>10, <2>2
<1>11. ASSUME LedgerNext, NEW k \in Keys, ResolverAcknowledge(k)
       PROVE  LedgerInvariant'
  <2>1. /\ market' = [market EXCEPT !.acknowledged = TRUE]
        /\ UNCHANGED <<position, wallet, donated>>
    BY <1>11 DEF ResolverAcknowledge, balances
  <2>2. ResultStays /\ market'.filled = market.filled
    BY <1>1, <2>1 DEF ResultStays, Resolved, MarketAccount
  <2> QED BY <1>1, <1>11, <2>1, <2>2, QuietStep
<1>12. ASSUME LedgerNext, NEW u \in Users, InitializeUserPosition(u)
       PROVE  LedgerInvariant'
  BY <1>3, <1>12 DEF InitializeUserPosition, balances
<1>13. ASSUME LedgerNext, NEW u \in Users, NEW p \in DepositParams, Deposit(u, p)
       PROVE  LedgerInvariant'
  BY <1>1, <1>13, DepositKeepsBooks
<1>14. ASSUME LedgerNext, NEW k \in Keys, NEW o \in Outcome, UpdateState(k, o)
       PROVE  LedgerInvariant'
  <2>1. market.exists /\ UNCHANGED <<position, wallet, donated>>
    BY <1>14 DEF UpdateState, balances
  <2>2. CASE Due(market, now) /\ market' = Finalize(market, now)
    BY <1>4, <1>14, <2>1, <2>2
  <2>3. CASE NotDue(market, now) /\ market' = Updated(market, now, o)
    <3>1. /\ ~market.finalized /\ market'.finalized = market.finalized
          /\ market'.filled = market.filled
      BY <1>1, <2>3, NotDueFacts DEF Updated, MarketAccount
    <3> QED BY <1>5, <1>14, <2>1, <3>1
  <2> QED BY <1>14, <2>2, <2>3 DEF UpdateState
<1>15. ASSUME LedgerNext, NEW u \in Users, Withdraw(u)
       PROVE  LedgerInvariant'
  BY <1>1, <1>15, WithdrawKeepsBooks
<1>16. ASSUME LedgerNext, NEW u \in Users, Claim(u)
       PROVE  LedgerInvariant'
  BY <1>1, <1>16, ClaimKeepsBooks
<1>17. CASE LedgerNext
  <2>1. Next
    BY <1>17 DEF LedgerNext
  <2> QED BY <1>6, <1>7, <1>8, <1>9, <1>10, <1>11, <1>12, <1>13, <1>14, <1>15, <1>16,
             <1>17, <2>1 DEF Next
<1> QED BY <1>2, <1>17

LEMMA LedgerInitInvariant == LedgerInit => LedgerInvariant
<1> SUFFICES ASSUME LedgerInit PROVE LedgerInvariant
  OBVIOUS
<1>1. TypeOK /\ ~Resolved /\ ~market.finalized
  BY InitTypeOK DEF LedgerInit, Init, ZeroMarket, Resolved
<1>2. \A u \in Users : /\ wallet[u] = InitialWallet[u] /\ gifts[u] = 0
                       /\ \A s \in Side : bet[s][u] = 0 /\ position[s][u] = 0
  BY DEF LedgerInit, Init, NoPosition
<1>3. 0 \in BpsValue
  BY BpsAssumption DEF BpsValue
<1>4. BooksTypeOK
  BY <1>3 DEF LedgerInit, NoPosition, BooksTypeOK
<1>5. ASSUME NEW u \in Users PROVE BetStands(u) /\ GetsTheirDue(u)
  <2>1. ~HasPosition(u) /\ InitialWallet[u] \in Nat
    BY <1>2, EscrowAssumption DEF HasPosition
  <2> QED BY <1>1, <1>2, <2>1 DEF BetStands, GetsTheirDue
<1> QED BY <1>4, <1>5 DEF LedgerInvariant

(***************************************************************************)
(* Whatever the order of deposits, claims, withdrawals and changes of the  *)
(* fee, every user ends up with what the bets, the result and the fee in   *)
(* force at the claim give, to the unit.                                   *)
(***************************************************************************)
THEOREM EverybodyIsPaidTheirDue == LedgerSpec => []EverybodyGetsTheirDue
<1>1. LedgerInit => EscrowInvariant /\ LedgerInvariant
  BY InitInvariant, LedgerInitInvariant DEF LedgerInit
<1>2. EscrowInvariant /\ LedgerInvariant /\ [LedgerNext]_<<vars, books>>
        => EscrowInvariant' /\ LedgerInvariant'
  <2>1. [LedgerNext]_<<vars, books>> => [Next]_vars
    BY DEF LedgerNext
  <2> QED BY <2>1, StepInvariant, LedgerStepInvariant
<1>3. LedgerInvariant => EverybodyGetsTheirDue
  BY DEF LedgerInvariant, EverybodyGetsTheirDue
<1> QED BY <1>1, <1>2, <1>3, PTL DEF LedgerSpec

-----------------------------------------------------------------------------
(***************************************************************************)
(* The fees.  What is owed of one user's winnings is a natural number; it  *)
(* is what it was after every step that does not close that position.      *)
(***************************************************************************)
LEMMA FeeFromType ==
  ASSUME NEW u \in Users, NEW w
  PROVE  TypeOK /\ BooksTypeOK => FeeFrom(u, w) \in Nat
<1> SUFFICES ASSUME TypeOK, BooksTypeOK, Resolved PROVE FairFee(u) \in Nat
  BY DEF FeeFrom
<1> DEFINE won == market.outcome
           stake == bet[won][u]
           w0 == market.amount[won]
           l == market.amount[Other(won)]
<1>1. won \in Side /\ Other(won) \in Side /\ market.exists
  BY DEF Resolved, Other, Side, TypeOK, ZeroMarket
<1>2. w0 \in Nat \ {0} /\ l \in Nat /\ stake \in Nat /\ rate[u] \in BpsValue
  BY <1>1, StateTypes, LedgerTypes DEF TypeOK
<1>3. (stake * l) \div w0 \in Nat
  <2> HIDE DEF stake, l, w0
  <2> QED BY <1>2, ProductType, DivisionAlgorithm
<1>4. FairShare(u) \in Nat
  BY <1>3 DEF FairShare
<1> QED BY <1>2, <1>4, FeeParts DEF FairFee

LEMMA FeesForType ==
  ASSUME NEW w
  PROVE  TypeOK /\ BooksTypeOK => FeesFor(w) \in [Users -> Nat]
BY FeeFromType DEF FeesFor

LEMMA BystanderFee ==
  ASSUME TypeOK, TypeOK', LedgerInvariant, LedgerNext, NEW u \in Users, NEW w,
         \A s \in Side : position'[s][u] = position[s][u],
         ResultStays \/ GetsFlagged
  PROVE  FeeFrom(u, w)' = FeeFrom(u, w)
<1>1. /\ \A s \in Side : bet'[s][u] = bet[s][u]
      /\ rate'[u] = rate[u] /\ payee'[u] = payee[u]
      /\ HasPosition(u)' <=> HasPosition(u)
  BY BystanderBooks
<1>2. CASE ResultStays
  <2>1. Resolved' <=> Resolved
    BY <1>2 DEF ResultStays
  <2>2. Resolved => FairFee(u)' = FairFee(u)
    BY <1>1, <1>2 DEF ResultStays, Resolved, FairShare, FairFee, Other, Side
  <2> QED BY <1>1, <2>1, <2>2 DEF FeeFrom
<1>3. CASE GetsFlagged
  <2>1. FeeFrom(u, w) = 0
    BY <1>3 DEF FeeFrom, GetsFlagged, Resolved
  <2>2. ASSUME ~HasPosition(u)', Resolved' PROVE FairFee(u)' = 0
    <3>1. \A s \in Side : bet'[s][u] = 0
      BY <1>1, <1>3, <2>2 DEF GetsFlagged, LedgerInvariant, BetStands, HasPosition
    <3>2. (TypeOK => NoBetNoFee)'
      BY NothingFromNoBet, PTL
    <3>3. rate'[u] \in BpsValue
      BY <1>1 DEF LedgerInvariant, BooksTypeOK
    <3> QED BY <2>2, <3>1, <3>2, <3>3 DEF NoBetNoFee
  <2> QED BY <2>1, <2>2 DEF FeeFrom
<1> QED BY <1>2, <1>3

(***************************************************************************)
(* The steps that move no fee, and close no position on a market that      *)
(* ended Yes or No.                                                        *)
(***************************************************************************)
LEMMA FeesStay ==
  ASSUME ProtocolGetsItsDue,
         \A w \in FeeWallets : FeesOf(w)' = FeesOf(w),
         \A w \in FeeWallets, v \in Users : FeeFrom(v, w)' = FeeFrom(v, w)
  PROVE  ProtocolGetsItsDue'
<1> SUFFICES ASSUME NEW w \in FeeWallets PROVE FeesOf(w)' = Total(FeesFor(w)')
  BY DEF ProtocolGetsItsDue
<1>1. FeesFor(w)' = FeesFor(w)
  BY DEF FeesFor
<1> QED BY <1>1 DEF ProtocolGetsItsDue

LEMMA QuietFees ==
  ASSUME TypeOK, TypeOK', LedgerInvariant, LedgerNext, ProtocolGetsItsDue,
         position' = position, \A w \in FeeWallets : FeesOf(w)' = FeesOf(w),
         ResultStays \/ GetsFlagged
  PROVE  ProtocolGetsItsDue'
<1>1. \A w \in FeeWallets, v \in Users : FeeFrom(v, w)' = FeeFrom(v, w)
  BY BystanderFee
<1> QED BY <1>1, FeesStay

LEMMA UnresolvedFees ==
  ASSUME ProtocolGetsItsDue, ~Resolved, ~Resolved',
         \A w \in FeeWallets : FeesOf(w)' = FeesOf(w)
  PROVE  ProtocolGetsItsDue'
<1>1. \A w \in FeeWallets, v \in Users : FeeFrom(v, w)' = FeeFrom(v, w)
  BY DEF FeeFrom
<1> QED BY <1>1, FeesStay

(***************************************************************************)
(* A claim that closes a position adds the fee on its winnings, once, to   *)
(* what the present fee wallet is owed, and pays it; another claim adds    *)
(* and pays nothing.                                                       *)
(***************************************************************************)
LEMMA ClaimPaysFee ==
  ASSUME EscrowInvariant, TypeOK', LedgerInvariant, LedgerNext, NEW u \in Users, Claim(u)
  PROVE  LET won == FinalOutcome(market, now)
             fee == Fee(global_state.fee_cut_bps, Winnings(won, position[won][u]))
         IN  /\ fee \in Nat
             /\ ~HasPosition(u) => fee = 0
             /\ \A w \in FeeWallets :
                  FeesOf(w)' = FeesOf(w) + (IF w = global_state.fee_wallet THEN fee ELSE 0)
<1> DEFINE won == FinalOutcome(market, now)
           stake == position[won][u]
           fee == Fee(global_state.fee_cut_bps, Winnings(won, stake))
           wal == global_state.fee_wallet
<1>1. /\ won \in Side /\ wal \in DOMAIN fee_account
      /\ fee_account \in [DOMAIN fee_account -> Nat]
      /\ \/ stake = 0 /\ fee_account' = fee_account
         \/ stake # 0 /\ PayWinner(u, won, stake)
  BY DEF EscrowInvariant, TypeOK, Claim, CanClaim
<1>2. fee \in Nat /\ (stake = 0 => fee = 0)
  BY ClaimSettles
<1>3. ~HasPosition(u) => fee = 0
  BY <1>1, <1>2 DEF HasPosition
<1>4. PayWinner(u, won, stake) => fee_account' = [fee_account EXCEPT ![wal] = @ + fee]
  BY DEF PayWinner
<1>5. ASSUME NEW w \in FeeWallets
      PROVE  FeesOf(w)' = FeesOf(w) + (IF w = wal THEN fee ELSE 0)
  <2> HIDE DEF fee, stake, won, wal
  <2>1. CASE stake = 0 /\ fee_account' = fee_account
    BY <1>1, <1>2, <2>1 DEF FeesOf
  <2>2. CASE stake # 0 /\ PayWinner(u, won, stake)
    BY <1>1, <1>2, <1>4, <2>2 DEF FeesOf
  <2> QED BY <1>1, <2>1, <2>2
<1> QED BY <1>2, <1>3, <1>5

LEMMA ClaimOwesFee ==
  ASSUME EscrowInvariant, TypeOK', LedgerInvariant, LedgerNext, NEW u \in Users, Claim(u),
         HasPosition(u), NEW w \in FeeWallets
  PROVE  LET won == FinalOutcome(market, now)
             fee == Fee(global_state.fee_cut_bps, Winnings(won, position[won][u]))
         IN  Total(FeesFor(w)') =
               Total(FeesFor(w)) + (IF w = global_state.fee_wallet THEN fee ELSE 0)
<1> DEFINE won == FinalOutcome(market, now)
           fee == Fee(global_state.fee_cut_bps, Winnings(won, position[won][u]))
           n == IF w = global_state.fee_wallet THEN fee ELSE 0
<1>1. /\ TypeOK /\ market.exists /\ won \in Side /\ donated' = donated
      /\ market' = Finalize(market, now) /\ position' = ClearedPosition(u)
  BY DEF EscrowInvariant, TypeOK, Claim, CanClaim
<1>2. ASSUME NEW v \in Users \ {u} PROVE FeeFrom(v, w)' = FeeFrom(v, w)
  <2>1. \A s \in Side : position'[s][v] = position[s][v]
    BY <1>1, StateTypes DEF ClearedPosition
  <2>2. ResultStays \/ GetsFlagged
    BY <1>1, FinalizeKinds
  <2> QED BY <1>1, <2>1, <2>2, BystanderFee
<1>3. FeeFrom(u, w) = 0
  BY DEF FeeFrom
<1>4. fee \in Nat /\ FairFee(u)' = fee
  BY ClaimSettles
<1>5. FeeFrom(u, w)' = n
  <2>1. ~HasPosition(u)' /\ payee'[u] = global_state.fee_wallet
    <3>1. ~HasPosition(u)'
      BY <1>1, StateTypes DEF ClearedPosition, HasPosition
    <3> QED BY <3>1 DEF LedgerNext
  <2>2. Resolved'
    BY <1>1, FinalizeKinds DEF Resolved
  <2> QED BY <1>4, <2>1, <2>2 DEF FeeFrom
<1>6. FeesFor(w) \in [Users -> Nat] /\ FeesFor(w)[u] = 0
  BY <1>1, <1>3, FeesForType DEF LedgerInvariant, FeesFor
<1>7. FeesFor(w)' = [FeesFor(w) EXCEPT ![u] = n]
  <2> HIDE DEF n
  <2> QED BY <1>2, <1>5 DEF FeesFor
<1>8. n \in Nat
  BY <1>4
<1>9. /\ Total([FeesFor(w) EXCEPT ![u] = n]) = Total(FeesFor(w)) - 0 + n
      /\ Total(FeesFor(w)) \in Nat
  <2> DEFINE fees == FeesFor(w)
  <2>1. IsFiniteSet(Users) /\ fees \in [Users -> Nat] /\ fees[u] = 0 /\ n \in Nat
    BY <1>6, <1>8, EscrowAssumption
  <2> HIDE DEF n, fees
  <2>2. Total([fees EXCEPT ![u] = n]) = Total(fees) - fees[u] + n
    BY <2>1, TotalUpdate
  <2>3. Total(fees) \in Nat
    BY <2>1, TotalType
  <2>4. Total([fees EXCEPT ![u] = n]) = Total(fees) - 0 + n
    BY <2>1, <2>2
  <2> QED BY <2>3, <2>4 DEF fees
<1> HIDE DEF n
<1>10. Total(FeesFor(w)') = Total(FeesFor(w)) + n
  BY <1>7, <1>8, <1>9
<1> QED BY <1>10 DEF n

LEMMA ClaimKeepsFees ==
  ASSUME EscrowInvariant, TypeOK', LedgerInvariant, LedgerNext, ProtocolGetsItsDue,
         NEW u \in Users, Claim(u)
  PROVE  ProtocolGetsItsDue'
<1>1. /\ TypeOK /\ market.exists /\ market' = Finalize(market, now)
      /\ position' = ClearedPosition(u)
  BY DEF EscrowInvariant, Claim, CanClaim
<1>2. CASE HasPosition(u)
  BY <1>2, ClaimPaysFee, ClaimOwesFee DEF ProtocolGetsItsDue
<1>3. CASE ~HasPosition(u)
  <2>1. position' = position
    BY <1>1, <1>3, StateTypes DEF ClearedPosition, HasPosition
  <2>2. ASSUME NEW w \in FeeWallets PROVE FeesOf(w)' = FeesOf(w)
    <3>1. FeesOf(w)' = FeesOf(w) + 0
      BY <1>3, ClaimPaysFee
    <3>2. FeesOf(w) \in Nat
      BY <1>1 DEF FeesOf, TypeOK
    <3> QED BY <3>1, <3>2
  <2> QED BY <1>1, <2>1, <2>2, FinalizeKinds, QuietFees
<1> QED BY <1>2, <1>3

(***************************************************************************)
(* Every step keeps the fees; the steps before the market is flagged do,   *)
(* because no fee is due yet, and a refund, because none will be.          *)
(***************************************************************************)
LEMMA StepKeepsFees ==
  EscrowInvariant /\ EscrowInvariant' /\ LedgerInvariant /\ ProtocolGetsItsDue
  /\ [LedgerNext]_<<vars, books>>
    => ProtocolGetsItsDue'
<1> SUFFICES ASSUME EscrowInvariant, EscrowInvariant', LedgerInvariant,
                    ProtocolGetsItsDue, [LedgerNext]_<<vars, books>>
             PROVE  ProtocolGetsItsDue'
  OBVIOUS
<1>1. TypeOK /\ TypeOK' /\ market \in MarketAccount
  BY DEF EscrowInvariant, TypeOK
<1>2. CASE UNCHANGED <<vars, books>>
  <2>1. UNCHANGED <<market, position, fee_account, bet, rate, payee>>
    BY <1>2 DEF vars, accounts, balances, books
  <2>2. \A w \in FeeWallets : FeesOf(w)' = FeesOf(w)
    BY <2>1 DEF FeesOf
  <2>3. \A w \in FeeWallets, v \in Users : FeeFrom(v, w)' = FeeFrom(v, w)
    BY <2>1 DEF FeeFrom, HasPosition, Resolved, FairShare, FairFee
  <2> QED BY <2>2, <2>3, FeesStay
<1>3. fee_account' = fee_account => \A w \in FeeWallets : FeesOf(w)' = FeesOf(w)
  BY DEF FeesOf
<1>4. ASSUME LedgerNext, market' = market, position' = position,
             \A w \in FeeWallets : FeesOf(w)' = FeesOf(w)
      PROVE  ProtocolGetsItsDue'
  BY <1>1, <1>4, SameMarket, QuietFees
<1>5. ASSUME ~market.finalized \/ market.outcome = "Invalid",
             ~market'.finalized \/ market'.outcome = "Invalid", fee_account' = fee_account
      PROVE  ProtocolGetsItsDue'
  BY <1>3, <1>5, UnresolvedFees DEF Resolved, Side
<1>6. CASE LedgerNext /\ Tick
  BY <1>3, <1>4, <1>6 DEF Tick, accounts, balances
<1>7. ASSUME LedgerNext, NEW u \in Users, NEW s \in Side, NEW n \in Donations, Donate(u, s, n)
      PROVE  ProtocolGetsItsDue'
  BY <1>3, <1>4, <1>7 DEF Donate, accounts
<1>8. ASSUME LedgerNext, NEW w \in FeeWallets, CreateFeeAccount(w)
      PROVE  ProtocolGetsItsDue'
  <2>1. \A x \in FeeWallets : FeesOf(x)' = FeesOf(x)
    BY <1>8 DEF CreateFeeAccount, FeesOf
  <2> QED BY <1>4, <1>8, <2>1 DEF CreateFeeAccount, accounts
<1>9. ASSUME LedgerNext, NEW p \in GlobalParams,
             InitializeGlobalState(p) \/ (\E k \in Keys : SetGlobalState(k, p))
      PROVE  ProtocolGetsItsDue'
  BY <1>3, <1>4, <1>9 DEF InitializeGlobalState, SetGlobalState, balances
<1>10. ASSUME LedgerNext, NEW p \in MarketParams, InitializeMarket(p)
       PROVE  ProtocolGetsItsDue'
  <2>1. market = ZeroMarket
    BY <1>1, <1>10 DEF InitializeMarket, TypeOK
  <2> QED BY <1>5, <1>10, <2>1 DEF InitializeMarket, ZeroMarket, balances
<1>11. ASSUME LedgerNext, NEW k \in Keys, ResolverAcknowledge(k)
       PROVE  ProtocolGetsItsDue'
  <2>1. /\ market' = [market EXCEPT !.acknowledged = TRUE]
        /\ UNCHANGED <<position, fee_account>>
    BY <1>11 DEF ResolverAcknowledge, balances
  <2>2. ResultStays
    BY <1>1, <2>1 DEF ResultStays, Resolved, MarketAccount
  <2> QED BY <1>1, <1>3, <1>11, <2>1, <2>2, QuietFees
<1>12. ASSUME LedgerNext, NEW u \in Users, InitializeUserPosition(u)
       PROVE  ProtocolGetsItsDue'
  BY <1>3, <1>4, <1>12 DEF InitializeUserPosition, balances
<1>13. ASSUME LedgerNext, NEW u \in Users, NEW p \in DepositParams, Deposit(u, p)
       PROVE  ProtocolGetsItsDue'
  <2>1. ~market.finalized /\ fee_account' = fee_account
    BY <1>13, NotDueFacts DEF Deposit, CanDeposit
  <2>2. market'.finalized = market.finalized
    BY <1>1, <1>13 DEF Deposit, MarketAccount
  <2> QED BY <1>5, <2>1, <2>2
<1>14. ASSUME LedgerNext, NEW k \in Keys, NEW o \in Outcome, UpdateState(k, o)
       PROVE  ProtocolGetsItsDue'
  <2>1. market.exists /\ UNCHANGED <<position, fee_account>>
    BY <1>14 DEF UpdateState, balances
  <2>2. CASE market' = Finalize(market, now)
    BY <1>1, <1>3, <1>14, <2>1, <2>2, FinalizeKinds, QuietFees
  <2>3. CASE NotDue(market, now) /\ market' = Updated(market, now, o)
    <3>1. ~market.finalized /\ market'.finalized = market.finalized
      BY <1>1, <2>3, NotDueFacts DEF Updated, MarketAccount
    <3> QED BY <1>5, <2>1, <3>1
  <2> QED BY <1>14, <2>2, <2>3 DEF UpdateState
<1>15. ASSUME LedgerNext, NEW u \in Users, Withdraw(u)
       PROVE  ProtocolGetsItsDue'
  <2>1. /\ market.exists /\ market.outcome = "Invalid"
        /\ market' = Finalize(market, now) /\ fee_account' = fee_account
    BY <1>15 DEF Withdraw, CanWithdraw
  <2>2. market'.outcome = "Invalid"
    BY <1>1, <2>1, FinalizeKinds DEF FinalOutcome
  <2> QED BY <1>5, <2>1, <2>2
<1>16. ASSUME LedgerNext, NEW u \in Users, Claim(u)
       PROVE  ProtocolGetsItsDue'
  BY <1>1, <1>16, ClaimKeepsFees
<1>17. CASE LedgerNext
  <2>1. Next
    BY <1>17 DEF LedgerNext
  <2> QED BY <1>6, <1>7, <1>8, <1>9, <1>10, <1>11, <1>12, <1>13, <1>14, <1>15, <1>16,
             <1>17, <2>1 DEF Next
<1> QED BY <1>2, <1>17

(***************************************************************************)
(* Every fee wallet ends up with the sum of the fees of those who claimed  *)
(* while it was named, for any users, rates and changes of the wallet.     *)
(***************************************************************************)
THEOREM ProtocolIsPaidItsDue == LedgerSpec => []ProtocolGetsItsDue
<1>1. LedgerInit => EscrowInvariant /\ LedgerInvariant /\ ProtocolGetsItsDue
  <2> SUFFICES ASSUME LedgerInit, NEW w \in FeeWallets PROVE FeesOf(w) = Total(FeesFor(w))
    BY InitInvariant, LedgerInitInvariant DEF LedgerInit, ProtocolGetsItsDue
  <2>1. FeesOf(w) = 0 /\ ~Resolved
    BY DEF LedgerInit, Init, FeesOf, Resolved, ZeroMarket
  <2>2. FeesFor(w) \in [Users -> Nat] /\ \A u \in Users : FeesFor(w)[u] = 0
    BY <2>1 DEF FeesFor, FeeFrom
  <2> QED BY <2>1, <2>2, TotalZero
<1>2. EscrowInvariant /\ LedgerInvariant /\ ProtocolGetsItsDue /\ [LedgerNext]_<<vars, books>>
        => EscrowInvariant' /\ LedgerInvariant' /\ ProtocolGetsItsDue'
  <2>1. [LedgerNext]_<<vars, books>> => [Next]_vars
    BY DEF LedgerNext
  <2> QED BY <2>1, StepInvariant, LedgerStepInvariant, StepKeepsFees
<1> QED BY <1>1, <1>2, PTL DEF LedgerSpec

-----------------------------------------------------------------------------
(***************************************************************************)
(* The other side of Solvency: what a claim leaves in the losing account   *)
(* by rounding is less than one unit.                                      *)
(***************************************************************************)
LEMMA ShareIsLarge ==
  ASSUME NEW stake \in Nat, NEW w \in Nat \ {0}, NEW l \in Nat
  PROVE  stake * l <= ((stake * l) \div w) * w + (w - 1)
<1> DEFINE product == stake * l
           share == product \div w
<1>1. product \in Nat
  BY ProductType
<1>2. /\ share \in Nat /\ product % w \in 0 .. (w - 1)
      /\ product = w * share + (product % w)
  <2> HIDE DEF product
  <2> QED BY <1>1, DivisionAlgorithm
<1> HIDE DEF share, product
<1>3. w * share = share * w /\ w * share \in Nat
  BY <1>2, ProductType
<1>4. product <= share * w + (w - 1)
  BY <1>1, <1>2, <1>3
<1> QED BY <1>4 DEF share, product

LEMMA DustGrows ==
  ASSUME NEW a \in Nat, NEW w \in Nat \ {0}, NEW T \in Nat, NEW l \in Nat, NEW c \in Nat,
         NEW share \in Nat, NEW stake \in Nat, stake <= T, share <= a,
         a * w <= T * l + c * (w - 1),
         stake * l <= share * w + (w - 1)
  PROVE  (a - share) * w <= (T - stake) * l + (c + 1) * (w - 1)
<1>1. /\ (a - share) * w = a * w - share * w
      /\ (T - stake) * l = T * l - stake * l
      /\ (c + 1) * (w - 1) = c * (w - 1) + (w - 1)
  OBVIOUS
<1>2. /\ a * w \in Nat /\ share * w \in Nat /\ T * l \in Nat /\ stake * l \in Nat
      /\ c * (w - 1) \in Nat /\ w - 1 \in Nat
  BY ProductType
<1> QED BY <1>1, <1>2

\* The bound of RoundingDust, for the side that won.
DustBound(won) ==
  (holdings[Other(won)] - donated[Other(won)]) * market.amount[won]
    <= Total(position[won]) * market.amount[Other(won)]
       + Cardinality(PaidWinners(won)) * (market.amount[won] - 1)

LEMMA PaidCount ==
  ASSUME NEW s \in Side
  PROVE  IsFiniteSet(PaidWinners(s)) /\ Cardinality(PaidWinners(s)) \in Nat
<1>1. IsFiniteSet(PaidWinners(s))
  BY EscrowAssumption, FS_Subset DEF PaidWinners
<1> QED BY <1>1, FS_CardinalityType

(***************************************************************************)
(* The bound holds when a market is given to a side, flagged or not.       *)
(***************************************************************************)
LEMMA DustWhenDue ==
  ASSUME EscrowInvariant, RoundingDust, Due(market, now), FinalOutcome(market, now) \in Side
  PROVE  DustBound(FinalOutcome(market, now))
<1> DEFINE won == FinalOutcome(market, now)
           lost == Other(won)
<1>1. CASE market.finalized
  <2>1. Resolved /\ market.outcome = won
    BY <1>1 DEF FinalOutcome, Resolved
  <2> QED BY <2>1 DEF RoundingDust, DustBound
<1>2. CASE ~market.finalized
  <2>1. market.filled = market.amount /\ won \in Side /\ lost \in Side
    BY DueMarketIsSolvent DEF Other, Side
  <2> HIDE DEF won
  <2>2. /\ holdings[lost] = donated[lost] + Total(position[lost])
        /\ Total(position[lost]) = market.amount[lost]
        /\ Total(position[won]) = market.amount[won]
    BY <1>2, <2>1 DEF EscrowInvariant, EscrowHoldsPositions, Resolved
  <2>3. /\ market.amount[lost] \in Nat /\ market.amount[won] \in Nat \ {0}
        /\ donated[lost] \in Nat
    <3>1. market.amount[won] # 0
      BY <1>2, <2>1 DEF EscrowInvariant, TypeOK, Due, won, FinalOutcome, ZeroMarket, Side,
                        UnfilledAtClose, Underfunded
    <3> QED BY <2>1, <3>1, StateTypes DEF EscrowInvariant
  <2>4. holdings[lost] - donated[lost] = market.amount[lost]
    BY <2>2, <2>3
  <2> DEFINE c == Cardinality(PaidWinners(won))
             w == market.amount[won]
             l == market.amount[lost]
  <2>5. c \in Nat /\ w - 1 \in Nat /\ w \in Nat /\ l \in Nat
    BY <2>1, <2>3, PaidCount
  <2>6. l * w <= w * l + c * (w - 1)
    <3> HIDE DEF c, w, l
    <3>1. l * w = w * l /\ w * l \in Nat /\ c * (w - 1) \in Nat
      BY <2>5, ProductType
    <3> QED BY <3>1
  <2>7. DustBound(won)
    BY <2>2, <2>4, <2>6 DEF DustBound
  <2> QED BY <2>7 DEF won
<1> QED BY <1>1, <1>2

(***************************************************************************)
(* The steps that pay no share.                                            *)
(***************************************************************************)
LEMMA DustFrame ==
  ASSUME EscrowInvariant, RoundingDust,
         \A s \in Side : holdings'[s] - donated'[s] = holdings[s] - donated[s],
         UNCHANGED <<position, bet>>, market'.amount = market.amount,
         Resolved' => Due(market, now) /\ FinalOutcome(market, now) = market'.outcome
  PROVE  RoundingDust'
<1> SUFFICES ASSUME Resolved' PROVE DustBound(market.outcome)'
  BY DEF RoundingDust, DustBound
<1> DEFINE won == market'.outcome
           lost == Other(won)
           c == Cardinality(PaidWinners(won))
           w == market.amount[won]
           TL == Total(position[won]) * market.amount[lost]
           aw == (holdings[lost] - donated[lost]) * w
<1>1. won \in Side /\ lost \in Side
  BY DEF Resolved, Other, Side
<1>2. aw <= TL + c * (w - 1)
  <2>1. DustBound(won)
    BY <1>1, DustWhenDue
  <2> QED BY <2>1 DEF DustBound
<1>3. Cardinality({u \in Users : bet'[won][u] # 0 /\ position'[won][u] = 0}) = c
  BY DEF PaidWinners
<1> HIDE DEF c, w, TL, aw
<1>4. (holdings'[lost] - donated'[lost]) * w = aw
  BY <1>1 DEF aw
<1> QED BY <1>2, <1>3, <1>4 DEF DustBound, PaidWinners, w, TL

LEMMA ClaimDust ==
  ASSUME EscrowInvariant, LedgerInvariant, RoundingDust, TypeOK', LedgerNext,
         NEW u \in Users, Claim(u)
  PROVE  RoundingDust'
<1> DEFINE won == FinalOutcome(market, now)
           lost == Other(won)
           stake == position[won][u]
           winnings == Winnings(won, stake)
           w == market.amount[won]
           l == market.amount[lost]
           T == Total(position[won])
           a == holdings[lost] - donated[lost]
           c == Cardinality(PaidWinners(won))
<1>1. /\ TypeOK /\ Due(market, now) /\ won \in Side /\ market.exists
      /\ u \in opened
      /\ market' = Finalize(market, now) /\ UNCHANGED <<now, opened, donated>>
      /\ position' = ClearedPosition(u)
      /\ global_state.fee_cut_bps \in BpsValue
  BY DEF EscrowInvariant, TypeOK, Claim, CanClaim
<1>2. /\ market'.outcome = won /\ market'.amount = market.amount
      /\ market'.filled = market.filled /\ bet' = bet
  <2>1. /\ market'.outcome = won /\ market'.amount = market.amount
        /\ market'.filled = market.filled
    BY <1>1, FinalizeKinds
  <2> QED BY <2>1 DEF LedgerNext
<1>3. /\ winnings = (stake * l) \div w /\ winnings \in Nat /\ winnings <= a
  BY <1>1, ClaimIsCovered
<1>4. a * w <= T * l + c * (w - 1)
  BY <1>1, DustWhenDue DEF DustBound
<1>5. lost \in Side /\ lost # won
  BY <1>1 DEF Other, Side
<1>6. /\ Total(position'[won]) = T - stake /\ T \in Nat /\ stake \in Nat /\ stake <= T
      /\ c \in Nat
  BY <1>1, TotalAfterClearing, PaidCount
<1>7. /\ w \in Nat \ {0} /\ l \in Nat /\ holdings[lost] \in Nat /\ donated[lost] \in Nat
      /\ holdings[lost] >= donated[lost] /\ a \in Nat
  <2>1. market.amount[won] # 0 /\ market.amount \in [Side -> Nat]
    BY <1>1, StateTypes DEF TypeOK
  <2>2. holdings[lost] >= donated[lost]
    BY <1>1, DueMarketIsSolvent
  <2>3. holdings[lost] \in Nat /\ donated[lost] \in Nat
    BY <1>1, <1>5, StateTypes
  <2> HIDE DEF won, lost
  <2> QED BY <1>1, <1>5, <2>1, <2>2, <2>3
<1> HIDE DEF won
<1> DEFINE paid == {v \in Users : bet[won][v] # 0 /\ position'[won][v] = 0}
<1>8. SUFFICES (holdings'[lost] - donated'[lost]) * w
                 <= Total(position'[won]) * l + Cardinality(paid) * (w - 1)
  BY <1>1, <1>2 DEF RoundingDust, PaidWinners
<1>9. CASE stake = 0 /\ UNCHANGED holdings
  <2>1. paid = PaidWinners(won)
    <3>1. \A v \in Users : position'[won][v] = 0 <=> position[won][v] = 0
      BY <1>1, <1>9 DEF ClearedPosition, TypeOK
    <3> QED BY <3>1 DEF PaidWinners
  <2>2. Total(position'[won]) = T
    <3> HIDE DEF stake, T
    <3> QED BY <1>6, <1>9
  <2> QED BY <1>1, <1>4, <1>9, <2>1, <2>2
<1>10. CASE stake # 0 /\ PayWinner(u, won, stake)
  <2>1. Cardinality(paid) = c + 1
    <3>1. bet[won][u] # 0
      BY <1>1, <1>10 DEF LedgerInvariant, BetStands, HasPosition
    <3>2. paid = PaidWinners(won) \cup {u}
      BY <1>1, <3>1 DEF PaidWinners, ClearedPosition, TypeOK
    <3>3. u \notin PaidWinners(won)
      BY <1>10 DEF PaidWinners
    <3>4. IsFiniteSet(PaidWinners(won))
      BY <1>1, PaidCount
    <3> HIDE DEF paid
    <3> QED BY <3>2, <3>3, <3>4, FS_AddElement
  <2>2. holdings'[lost] - donated'[lost] = a - winnings
    <3> DEFINE fee == Fee(global_state.fee_cut_bps, winnings)
               remaining == Remaining(winnings, fee)
    <3>1. fee \in Nat /\ remaining \in Nat /\ fee + remaining = winnings
      BY <1>1, <1>3, PaymentAddsUp
    <3>2. holdings'[lost] = holdings[lost] - fee - remaining
      BY <1>5, <1>10 DEF PayWinner
    <3> HIDE DEF fee, remaining, winnings, lost
    <3> QED BY <1>1, <1>3, <1>7, <3>1, <3>2
  <2>3. stake * l <= winnings * w + (w - 1)
    <3> HIDE DEF stake, l, w
    <3> QED BY <1>3, <1>6, <1>7, ShareIsLarge
  <2>4. (a - winnings) * w <= (T - stake) * l + (c + 1) * (w - 1)
    <3> HIDE DEF stake, l, w, a, T, c, winnings
    <3> QED BY <1>3, <1>4, <1>6, <1>7, <2>3, DustGrows
  <2> QED BY <1>6, <2>1, <2>2, <2>4
<1> QED BY <1>9, <1>10 DEF Claim, won

LEMMA StepDust ==
  EscrowInvariant /\ EscrowInvariant' /\ LedgerInvariant /\ RoundingDust
  /\ [LedgerNext]_<<vars, books>>
    => RoundingDust'
<1> SUFFICES ASSUME EscrowInvariant, EscrowInvariant', LedgerInvariant, RoundingDust,
                    [LedgerNext]_<<vars, books>>
             PROVE  RoundingDust'
  OBVIOUS
<1>1. TypeOK /\ TypeOK' /\ market \in MarketAccount
  BY DEF EscrowInvariant, TypeOK
<1>2. Resolved => Due(market, now) /\ FinalOutcome(market, now) = market.outcome
  BY DEF Resolved, Due, FinalOutcome
<1>3. ASSUME UNCHANGED <<position, bet, holdings, donated>>,
             market'.outcome = market.outcome, market'.finalized = market.finalized,
             market'.amount = market.amount
      PROVE  RoundingDust'
  <2>1. Resolved' => Due(market, now) /\ FinalOutcome(market, now) = market'.outcome
    BY <1>2, <1>3 DEF Resolved
  <2> QED BY <1>1, <1>3, <2>1, DustFrame
<1>4. CASE UNCHANGED <<vars, books>>
  BY <1>3, <1>4 DEF vars, accounts, balances, books
<1>16. LedgerNext /\ market'.filled = market.filled => bet' = bet
  BY DEF LedgerNext
<1>5. CASE LedgerNext /\ Tick
  BY <1>3, <1>5, <1>16 DEF Tick, accounts, balances
<1>6. ASSUME LedgerNext, NEW u \in Users, NEW s \in Side, NEW n \in Donations, Donate(u, s, n)
      PROVE  RoundingDust'
  <2>1. \A t \in Side : holdings'[t] - donated'[t] = holdings[t] - donated[t]
    <3>1. /\ n \in Nat /\ holdings \in [Side -> Nat] /\ donated \in [Side -> Nat]
          /\ holdings' = [holdings EXCEPT ![s] = @ + n]
          /\ donated' = [donated EXCEPT ![s] = @ + n]
      BY <1>1, <1>6, EscrowAssumption DEF TypeOK, Donate
    <3> QED BY <3>1
  <2>2. market' = market /\ UNCHANGED <<position, bet>>
    BY <1>6, <1>16 DEF Donate, accounts
  <2>3. Resolved' => Due(market, now) /\ FinalOutcome(market, now) = market'.outcome
    BY <1>2, <2>2 DEF Resolved
  <2> QED BY <1>1, <2>1, <2>2, <2>3, DustFrame
<1>7. ASSUME LedgerNext, NEW w \in FeeWallets, CreateFeeAccount(w)
      PROVE  RoundingDust'
  BY <1>3, <1>7, <1>16 DEF CreateFeeAccount, accounts
<1>8. ASSUME LedgerNext, NEW p \in GlobalParams, InitializeGlobalState(p) \/ (\E k \in Keys : SetGlobalState(k, p))
      PROVE  RoundingDust'
  BY <1>3, <1>8, <1>16 DEF InitializeGlobalState, SetGlobalState, balances
<1>9. ASSUME LedgerNext, NEW p \in MarketParams, InitializeMarket(p)
      PROVE  RoundingDust'
  BY <1>9 DEF InitializeMarket, ZeroMarket, RoundingDust, Resolved
<1>10. ASSUME LedgerNext, NEW k \in Keys, ResolverAcknowledge(k)
       PROVE  RoundingDust'
  BY <1>1, <1>3, <1>10, <1>16 DEF ResolverAcknowledge, balances, MarketAccount
<1>11. ASSUME LedgerNext, NEW u \in Users, InitializeUserPosition(u)
       PROVE  RoundingDust'
  BY <1>3, <1>11, <1>16 DEF InitializeUserPosition, balances
<1>12. ASSUME LedgerNext, NEW u \in Users, NEW p \in DepositParams, Deposit(u, p)
       PROVE  RoundingDust'
  <2>1. ~market.finalized
    BY <1>12, NotDueFacts DEF Deposit, CanDeposit
  <2>2. ~Resolved'
    BY <1>1, <1>12, <2>1 DEF Deposit, Resolved, MarketAccount
  <2> QED BY <2>2 DEF RoundingDust
<1>13. ASSUME LedgerNext, NEW k \in Keys, NEW o \in Outcome, UpdateState(k, o)
       PROVE  RoundingDust'
  <2>1. UNCHANGED <<now, position, holdings, donated>>
    BY <1>13 DEF UpdateState, balances
  <2>2. CASE Due(market, now) /\ market' = Finalize(market, now)
    <3>1. /\ market'.amount = market.amount /\ market'.outcome = FinalOutcome(market, now)
          /\ bet' = bet
      BY <1>1, <1>13, <1>16, <2>2 DEF Finalize, MarketAccount
    <3> QED BY <1>1, <2>1, <2>2, <3>1, DustFrame
  <2>3. CASE NotDue(market, now) /\ market' = Updated(market, now, o)
    <3>1. ~market.finalized
      BY <2>3, NotDueFacts
    <3>2. ~Resolved'
      BY <1>1, <2>3, <3>1 DEF Updated, Resolved, MarketAccount
    <3> QED BY <3>2 DEF RoundingDust
  <2> QED BY <1>13, <2>2, <2>3 DEF UpdateState
<1>14. ASSUME LedgerNext, NEW u \in Users, Withdraw(u)
       PROVE  RoundingDust'
  <2>1. market'.outcome \notin Side
    BY <1>1, <1>14 DEF Withdraw, CanWithdraw, Finalize, FinalOutcome, MarketAccount, Side
  <2> QED BY <2>1 DEF RoundingDust, Resolved
<1>15. ASSUME LedgerNext, NEW u \in Users, Claim(u)
       PROVE  RoundingDust'
  BY <1>1, <1>15, ClaimDust
<1>17. CASE LedgerNext
  <2>1. Next
    BY <1>17 DEF LedgerNext
  <2> QED BY <1>5, <1>6, <1>7, <1>8, <1>9, <1>10, <1>11, <1>12, <1>13, <1>14, <1>15,
             <1>17, <2>1 DEF Next
<1> QED BY <1>4, <1>17

(***************************************************************************)
(* Rounding keeps back less than one unit of the losing pool for each      *)
(* winner paid so far, for any users, amounts and orders of claims.        *)
(***************************************************************************)
THEOREM DustIsBounded == LedgerSpec => []RoundingDust
<1>1. LedgerInit => EscrowInvariant /\ LedgerInvariant /\ RoundingDust
  BY InitInvariant, LedgerInitInvariant
     DEF LedgerInit, Init, ZeroMarket, RoundingDust, Resolved
<1>2. EscrowInvariant /\ LedgerInvariant /\ RoundingDust /\ [LedgerNext]_<<vars, books>>
        => EscrowInvariant' /\ LedgerInvariant' /\ RoundingDust'
  <2>1. [LedgerNext]_<<vars, books>> => [Next]_vars
    BY DEF LedgerNext
  <2> QED BY <2>1, StepInvariant, LedgerStepInvariant, StepDust
<1> QED BY <1>1, <1>2, PTL DEF LedgerSpec

(***************************************************************************)
(* When the last winner has claimed, the escrow account of the side that   *)
(* won is empty but for donations, and in the other one is nothing more    *)
(* than that, or less than one unit for each winner.                       *)
(***************************************************************************)
PoolIsPaidOut ==
  Resolved /\ (\A u \in Users : position[market.outcome][u] = 0) =>
    LET won == market.outcome
        lost == Other(won)
        rest == holdings[lost] - donated[lost]
    IN  /\ holdings[won] = donated[won]
        /\ rest >= 0
        /\ rest = 0 \/ rest < Cardinality({u \in Users : bet[won][u] # 0})

LEMMA LessThanOneEach ==
  ASSUME NEW rest \in Nat, NEW w \in Nat \ {0}, NEW c \in Nat,
         rest * w <= c * (w - 1)
  PROVE  rest = 0 \/ rest < c
<1> SUFFICES ASSUME rest # 0, c <= rest PROVE FALSE
  OBVIOUS
<1>1. c * (w - 1) <= rest * (w - 1)
  <2>1. w - 1 \in Nat
    OBVIOUS
  <2>2. (w - 1) * c <= (w - 1) * rest
    BY <2>1, ProductMonotone
  <2> QED BY <2>1, <2>2
<1>2. rest * w = rest * (w - 1) + rest
  OBVIOUS
<1>3. rest * w \in Nat /\ rest * (w - 1) \in Nat /\ c * (w - 1) \in Nat
  BY ProductType, w - 1 \in Nat
<1> QED BY <1>1, <1>2, <1>3

(***************************************************************************)
(* The two pools are paid out when the last winner has claimed.            *)
(***************************************************************************)
THEOREM AllIsPaidOut == LedgerSpec => []PoolIsPaidOut
<1>1. ASSUME EscrowInvariant, RoundingDust, Resolved,
             \A u \in Users : position[market.outcome][u] = 0
      PROVE  PoolIsPaidOut
  <2> DEFINE won == market.outcome
             lost == Other(won)
             rest == holdings[lost] - donated[lost]
             w == market.amount[won]
             l == market.amount[lost]
             c == Cardinality(PaidWinners(won))
  <2>1. TypeOK /\ won \in Side /\ lost \in Side /\ lost # won /\ market.exists
    BY <1>1 DEF EscrowInvariant, TypeOK, Resolved, ZeroMarket, Other, Side
  <2>2. Total(position[won]) = 0
    BY <1>1, <2>1, StateTypes, TotalZero
  <2>3. /\ holdings[won] = donated[won] + 0
        /\ holdings[lost] >= donated[lost]
        /\ rest * w <= 0 * l + c * (w - 1)
    BY <1>1, <2>1, <2>2
       DEF EscrowInvariant, EscrowHoldsPositions, Solvency, RoundingDust
  <2>4. /\ w \in Nat \ {0} /\ l \in Nat /\ c \in Nat /\ rest \in Nat
        /\ holdings[won] = donated[won]
    <3>1. w \in Nat /\ w # 0 /\ l \in Nat
      BY <2>1, StateTypes DEF TypeOK
    <3>2. holdings[lost] \in Nat /\ donated[lost] \in Nat /\ donated[won] \in Nat
      BY <2>1, StateTypes
    <3> QED BY <2>1, <2>3, <3>1, <3>2, PaidCount
  <2>5. rest = 0 \/ rest < c
    <3> HIDE DEF rest, w, l, c
    <3>1. 0 * l = 0 /\ c * (w - 1) \in Nat
      BY <2>4, ProductType, w - 1 \in Nat
    <3>2. rest * w <= c * (w - 1)
      BY <2>3, <3>1
    <3> QED BY <2>4, <3>2, LessThanOneEach
  <2>6. PaidWinners(won) = {u \in Users : bet[won][u] # 0}
    BY <1>1 DEF PaidWinners
  <2> QED BY <2>4, <2>5, <2>6 DEF PoolIsPaidOut
<1>2. EscrowInvariant /\ RoundingDust => PoolIsPaidOut
  <2>1. PoolIsPaidOut \/ (Resolved /\ \A u \in Users : position[market.outcome][u] = 0)
    BY DEF PoolIsPaidOut
  <2> QED BY <1>1, <2>1
<1>3. LedgerSpec => []EscrowInvariant
  <2>1. LedgerInit => Init
    BY DEF LedgerInit
  <2>2. [LedgerNext]_<<vars, books>> => [Next]_vars
    BY DEF LedgerNext
  <2> QED BY <2>1, <2>2, InitInvariant, StepInvariant, PTL DEF LedgerSpec
<1> QED BY <1>2, <1>3, DustIsBounded, PTL

=============================================================================
