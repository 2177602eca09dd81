--------------------------- MODULE NftFloorProofs ---------------------------
(***************************************************************************)
(* The two programs together: the escrow program keeps all it promises,    *)
(* and the resolver program keeps its own promises.                        *)
(***************************************************************************)
EXTENDS NftFloor, EscrowContractProofs, EscrowLivenessProofs

(***************************************************************************)
(* Refinement: an instruction of the resolver program is one instruction   *)
(* of the escrow program signed by the PDA, or none.                       *)
(***************************************************************************)
LEMMA FloorStepIsEscrowStep ==
  FloorTypeOK /\ [FloorNext]_<<vars, floorVars>> => [Next]_vars
<1> SUFFICES ASSUME FloorTypeOK, [FloorNext]_<<vars, floorVars>>
             PROVE  [Next]_vars
  OBVIOUS
<1>1. Pda \in Keys /\ Signers \subseteq Keys
  BY FloorAssumption DEF Signers
<1>2. CASE EscrowStep
  BY <1>1, <1>2 DEF EscrowStep, Next
<1>3. ASSUME NEW k \in Signers, NEW n \in Gifts, SendLamports(k, n)
      PROVE  [Next]_vars
  BY <1>3 DEF SendLamports
<1>4. ASSUME NEW k \in Signers, NEW p \in FloorParams, InitializeNftFloor(k, p)
      PROVE  [Next]_vars
  BY <1>1, <1>4 DEF InitializeNftFloor, Next
<1>5. ASSUME NEW k \in Signers, AcknowledgeNftFloor(k)
      PROVE  [Next]_vars
  BY <1>5 DEF AcknowledgeNftFloor
<1>6. ASSUME NEW k \in Signers, NEW price \in Reports, ResolveNftFloor(k, price)
      PROVE  [Next]_vars
  <2>1. Verdict(price) \in Outcome
    BY DEF Verdict, Outcome, Side
  <2> QED BY <1>1, <1>6, <2>1 DEF ResolveNftFloor, Resolve, Next
<1>7. CASE UNCHANGED <<vars, floorVars>>
  BY <1>7
<1> QED BY <1>2, <1>3, <1>4, <1>5, <1>6, <1>7 DEF FloorNext

-----------------------------------------------------------------------------
LEMMA FloorInitInvariant == FloorInit => FloorInvariant
<1> SUFFICES ASSUME FloorInit PROVE FloorInvariant
  OBVIOUS
<1>1. ~market.exists /\ ~nft_floor.exists /\ ~reported.made /\ ~nft_floor.acknowledged
  BY DEF FloorInit, Init, ZeroMarket, NoFloor
<1>2. FloorTypeOK
  BY <1>1, FloorAssumption DEF FloorInit, FloorTypeOK
<1> QED BY <1>1, <1>2
        DEF FloorInvariant, OutcomeFollowsReport, ReportedOutcome, AcknowledgedMeansInitialized,
            AccountIsRentExempt, FloorMarket

(***************************************************************************)
(* The steps that leave alone all that the resolver program looks at.      *)
(***************************************************************************)
LEMMA FloorFrame ==
  ASSUME FloorInvariant, UNCHANGED floorVars, TypeOK, TypeOK', now' >= now,
         market'.exists = market.exists, market'.resolver = market.resolver,
         market'.amount = market.amount, market'.filled = market.filled,
         market'.expiry_ts = market.expiry_ts, market'.outcome = market.outcome,
         market'.outcome_ts = market.outcome_ts, market'.finalized = market.finalized,
         market'.acknowledged = market.acknowledged
  PROVE  FloorInvariant'
<1>1. now \in Nat /\ now' \in Nat /\ market.expiry_ts \in Nat
  BY EscrowAssumption, U64Facts DEF TypeOK, MarketAccount
<1>2. FloorTypeOK'
  BY DEF FloorInvariant, FloorTypeOK, floorVars
<1>3. reported'.made => /\ nft_floor'.exists
                        /\ \A s \in Side : market'.filled[s] = market'.amount[s]
                        /\ now' >= market'.expiry_ts
  BY <1>1 DEF FloorInvariant, floorVars
<1>4. OutcomeFollowsReport' /\ AcknowledgedMeansInitialized' /\ AccountIsRentExempt'
  BY DEF FloorInvariant, OutcomeFollowsReport, ReportedOutcome, AcknowledgedMeansInitialized,
         AccountIsRentExempt, FloorMarket, floorVars
<1> QED BY <1>2, <1>3, <1>4 DEF FloorInvariant

(***************************************************************************)
(* finalize replaces no verdict: after a report in time both sides are     *)
(* filled and the outcome is not Open.                                     *)
(***************************************************************************)
LEMMA FloorFinalize ==
  ASSUME FloorInvariant, UNCHANGED <<now, floorVars>>, TypeOK, market.exists,
         market' = Finalize(market, now)
  PROVE  FloorInvariant'
<1>1. /\ market'.exists = market.exists /\ market'.resolver = market.resolver
      /\ market'.amount = market.amount /\ market'.filled = market.filled
      /\ market'.expiry_ts = market.expiry_ts /\ market'.outcome_ts = market.outcome_ts
      /\ market'.acknowledged = market.acknowledged
      /\ market'.finalized /\ market'.outcome = FinalOutcome(market, now)
  BY DEF Finalize, TypeOK, MarketAccount
<1>2. FloorTypeOK'
  BY <1>1 DEF FloorInvariant, FloorTypeOK, floorVars
<1>3. reported'.made => /\ nft_floor'.exists
                        /\ \A s \in Side : market'.filled[s] = market'.amount[s]
                        /\ now' >= market'.expiry_ts
  BY <1>1 DEF FloorInvariant, floorVars
<1>4. OutcomeFollowsReport'
  <2>1. CASE FloorMarket /\ reported.made
    <3>1. ~Underfunded(market)
      <4>1. \A s \in Side : market.filled[s] = market.amount[s] /\ market.filled[s] \in Nat
        BY <2>1, U64Facts DEF FloorInvariant, TypeOK, MarketAccount
      <4> QED BY <4>1 DEF Underfunded
    <3>2. market.outcome # "Open"
      BY <2>1 DEF FloorInvariant, OutcomeFollowsReport, ReportedOutcome
    <3>3. market'.outcome = market.outcome
      BY <1>1, <3>1, <3>2 DEF FinalOutcome, UnfilledAtClose
    <3> QED BY <1>1, <2>1, <3>3
        DEF FloorInvariant, OutcomeFollowsReport, ReportedOutcome, FloorMarket, floorVars
  <2>2. CASE FloorMarket /\ ~reported.made
    <3>1. market.outcome = IF market.finalized THEN "Invalid" ELSE "Open"
      BY <2>2 DEF FloorInvariant, OutcomeFollowsReport, ReportedOutcome
    <3>2. market'.outcome = "Invalid"
      BY <1>1, <3>1 DEF FinalOutcome
    <3> QED BY <1>1, <2>2, <3>2 DEF OutcomeFollowsReport, ReportedOutcome, floorVars
  <2>3. CASE ~FloorMarket
    BY <1>1, <2>3 DEF OutcomeFollowsReport, ReportedOutcome, FloorMarket
  <2> QED BY <2>1, <2>2, <2>3
<1>5. AcknowledgedMeansInitialized' /\ AccountIsRentExempt'
  BY <1>1 DEF FloorInvariant, AcknowledgedMeansInitialized, AccountIsRentExempt,
              FloorMarket, floorVars
<1> QED BY <1>2, <1>3, <1>4, <1>5 DEF FloorInvariant

(***************************************************************************)
(* The steps on a market that another key resolves, and on no market.      *)
(***************************************************************************)
LEMMA OtherMarket ==
  ASSUME FloorInvariant, UNCHANGED floorVars, ~FloorMarket, ~FloorMarket'
  PROVE  FloorInvariant'
<1>1. ~nft_floor.exists /\ nft_floor = NoFloor /\ ~nft_floor.acknowledged /\ ~reported.made
  BY DEF FloorInvariant, FloorTypeOK, FloorMarket, NoFloor
<1>2. FloorTypeOK'
  BY <1>1 DEF FloorInvariant, FloorTypeOK, floorVars
<1> QED BY <1>1, <1>2
        DEF FloorInvariant, OutcomeFollowsReport, ReportedOutcome, AcknowledgedMeansInitialized,
            AccountIsRentExempt, floorVars

-----------------------------------------------------------------------------
LEMMA EscrowStepKeepsFloor ==
  ASSUME FloorInvariant, TypeOK, TypeOK', EscrowStep
  PROVE  FloorInvariant'
<1>1. /\ UNCHANGED floorVars
      /\ now \in Nat /\ market \in MarketAccount
      /\ market.close_ts \in Nat /\ market.expiry_ts \in Nat
  BY EscrowAssumption, U64Facts DEF EscrowStep, TypeOK, MarketAccount
<1>2. ASSUME market' = market, now' >= now
      PROVE  FloorInvariant'
  BY <1>1, <1>2, FloorFrame
<1>3. CASE Tick
  BY <1>1, <1>2, <1>3 DEF Tick, accounts
<1>4. ASSUME NEW u \in Users, NEW s \in Side, NEW n \in Donations, Donate(u, s, n)
      PROVE  FloorInvariant'
  BY <1>1, <1>2, <1>4 DEF Donate, accounts
<1>5. ASSUME NEW w \in FeeWallets, CreateFeeAccount(w)
      PROVE  FloorInvariant'
  BY <1>1, <1>2, <1>5 DEF CreateFeeAccount, accounts
<1>6. ASSUME NEW p \in GlobalParams, InitializeGlobalState(p) \/ (\E k \in Signers : SetGlobalState(k, p))
      PROVE  FloorInvariant'
  BY <1>1, <1>2, <1>6 DEF InitializeGlobalState, SetGlobalState
<1>7. ASSUME NEW p \in MarketParams, InitializeMarket(p)
      PROVE  FloorInvariant'
  <2>1. /\ ~nft_floor.exists /\ nft_floor = NoFloor /\ ~nft_floor.acknowledged
        /\ ~reported.made
    BY <1>7 DEF InitializeMarket, FloorInvariant, FloorTypeOK, NoFloor
  <2>2. /\ market'.outcome = "Open" /\ market'.finalized = FALSE
        /\ market'.acknowledged = FALSE
    BY <1>7 DEF InitializeMarket, ZeroMarket
  <2> QED BY <1>1, <2>1, <2>2
          DEF FloorInvariant, FloorTypeOK, OutcomeFollowsReport, ReportedOutcome,
              AcknowledgedMeansInitialized, AccountIsRentExempt, floorVars
<1>8. ASSUME NEW k \in Signers, ResolverAcknowledge(k)
      PROVE  FloorInvariant'
  <2>1. market'.resolver = market.resolver /\ market.resolver # Pda
    BY <1>1, <1>8 DEF ResolverAcknowledge, Signers, MarketAccount
  <2> QED BY <1>1, <2>1, OtherMarket DEF FloorMarket
<1>9. ASSUME NEW u \in Users, InitializeUserPosition(u)
      PROVE  FloorInvariant'
  BY <1>1, <1>2, <1>9 DEF InitializeUserPosition
<1>10. ASSUME NEW u \in Users, NEW p \in DepositParams, Deposit(u, p)
       PROVE  FloorInvariant'
  <2>1. now < market.close_ts /\ market.close_ts <= market.expiry_ts
    BY <1>10 DEF Deposit, CanDeposit, TypeOK
  <2>2. ~reported.made
    BY <1>1, <2>1 DEF FloorInvariant
  <2>3. /\ market'.exists = market.exists /\ market'.resolver = market.resolver
        /\ market'.outcome = market.outcome /\ market'.finalized = market.finalized
        /\ market'.acknowledged = market.acknowledged
    BY <1>1, <1>10 DEF Deposit, MarketAccount
  <2> QED BY <1>1, <2>2, <2>3
          DEF FloorInvariant, FloorTypeOK, OutcomeFollowsReport, ReportedOutcome, FloorMarket,
              AcknowledgedMeansInitialized, AccountIsRentExempt, floorVars
<1>11. ASSUME NEW k \in Signers, NEW o \in Outcome, UpdateState(k, o)
       PROVE  FloorInvariant'
  <2>1. CASE market' = Finalize(market, now)
    BY <1>1, <1>11, <2>1, FloorFinalize DEF UpdateState
  <2>2. CASE k = market.resolver /\ market' = Updated(market, now, o)
    <3>1. market'.resolver = market.resolver /\ market.resolver # Pda
      BY <1>1, <2>2 DEF Updated, Signers, MarketAccount
    <3> QED BY <1>1, <3>1, OtherMarket DEF FloorMarket
  <2> QED BY <1>11, <2>1, <2>2 DEF UpdateState
<1>12. ASSUME NEW u \in Users, Withdraw(u)
       PROVE  FloorInvariant'
  BY <1>1, <1>12, FloorFinalize DEF Withdraw, CanWithdraw
<1>13. ASSUME NEW u \in Users, Claim(u)
       PROVE  FloorInvariant'
  BY <1>1, <1>13, FloorFinalize DEF Claim, CanClaim
<1> QED BY <1>3, <1>4, <1>5, <1>6, <1>7, <1>8, <1>9, <1>10, <1>11, <1>12, <1>13
        DEF EscrowStep

-----------------------------------------------------------------------------
(***************************************************************************)
(* The account holds the minimum balance once it has been paid for.        *)
(***************************************************************************)
LEMMA InitializeKeepsFloor ==
  ASSUME FloorInvariant, TypeOK, NEW k \in Signers, NEW p \in FloorParams,
         InitializeNftFloor(k, p)
  PROVE  FloorInvariant'
<1> DEFINE required == MinimumBalance[p.project_id]
           charge == Charge(required, lamports[Pda])
<1>1. /\ p \in [authority : Keys, floor_price : U64, project_id : ProjectIds]
      /\ required \in Nat /\ Pda \in Keys /\ k \in Keys /\ k # Pda
  BY FloorAssumption DEF Signers, ProjectIds
<1>2. lamports \in [Keys -> Nat] /\ lamports[Pda] \in Nat /\ lamports[k] \in Nat
  BY <1>1 DEF FloorInvariant, FloorTypeOK
<1>3. charge \in Nat /\ lamports[Pda] + charge >= required
  <2> HIDE DEF required
  <2> QED BY <1>1, <1>2 DEF Charge
<1>4. /\ ~nft_floor.exists /\ lamports[k] >= charge
      /\ lamports' = [lamports EXCEPT ![k] = @ - charge, ![Pda] = @ + charge]
  BY DEF InitializeNftFloor, InitResolver, CanAllocate
<1>5. lamports' \in [Keys -> Nat] /\ lamports'[Pda] >= required
  <2> HIDE DEF charge, required
  <2> QED BY <1>1, <1>2, <1>3, <1>4
<1>6. /\ market.exists /\ market.resolver = Pda
      /\ market'.exists = market.exists /\ market'.resolver = market.resolver
      /\ market'.outcome = market.outcome /\ market'.finalized = market.finalized
      /\ market'.acknowledged
  BY DEF InitializeNftFloor, ResolverAcknowledge, TypeOK, MarketAccount
<1>7. ~reported.made /\ reported' = reported
  BY <1>4 DEF FloorInvariant, InitializeNftFloor
<1>8. /\ nft_floor' \in [exists : BOOLEAN, authority : Keys, floor_price : U64,
                         project_id : ProjectIds, acknowledged : BOOLEAN]
      /\ nft_floor'.exists /\ ~nft_floor'.acknowledged
      /\ nft_floor'.project_id = p.project_id
  BY <1>1 DEF InitializeNftFloor, NewFloor
<1>9. FloorTypeOK'
  BY <1>5, <1>6, <1>7, <1>8 DEF FloorInvariant, FloorTypeOK
<1>10. OutcomeFollowsReport' /\ AcknowledgedMeansInitialized' /\ AccountIsRentExempt'
  BY <1>5, <1>6, <1>7, <1>8
     DEF FloorInvariant, OutcomeFollowsReport, ReportedOutcome, AcknowledgedMeansInitialized,
         AccountIsRentExempt, FloorMarket
<1> QED BY <1>7, <1>9, <1>10 DEF FloorInvariant

(***************************************************************************)
(* A report, in time or late.                                              *)
(***************************************************************************)
LEMMA ResolveKeepsFloor ==
  ASSUME FloorInvariant, TypeOK, \A s \in Side : market.filled[s] <= market.amount[s],
         NEW k \in Signers, NEW price \in Reports, ResolveNftFloor(k, price)
  PROVE  FloorInvariant'
<1>1. /\ now \in Nat /\ market \in MarketAccount
      /\ market.close_ts \in Nat /\ market.expiry_ts \in Nat
      /\ market.close_ts <= market.expiry_ts
      /\ market.filled \in [Side -> Nat] /\ market.amount \in [Side -> Nat]
      /\ market.exists /\ market.resolver = Pda /\ nft_floor.exists
      /\ market.expiry_ts <= now
      /\ UNCHANGED <<now, nft_floor, lamports>>
  BY EscrowAssumption, U64Facts
     DEF TypeOK, MarketAccount, ResolveNftFloor, CanResolve, Resolve, UpdateState,
         FloorInvariant, FloorTypeOK
<1>2. CASE Due(market, now)
  <2>1. market' = Finalize(market, now) /\ reported' = reported
    BY <1>2 DEF ResolveNftFloor, Resolve, UpdateState, NotDue
  <2> QED BY <1>1, <2>1, FloorFinalize DEF floorVars
<1>3. CASE ~Due(market, now)
  <2>1. /\ NotDue(market, now) /\ market' = Updated(market, now, Verdict(price))
        /\ reported' = [made |-> TRUE, price |-> price, at |-> now]
    BY <1>3 DEF ResolveNftFloor, Resolve, UpdateState
  <2>2. Verdict(price) # "Open"
    BY DEF Verdict
  <2>3. /\ market'.exists = market.exists /\ market'.resolver = market.resolver
        /\ market'.amount = market.amount /\ market'.filled = market.filled
        /\ market'.expiry_ts = market.expiry_ts
        /\ market'.acknowledged = market.acknowledged
        /\ market'.outcome = Verdict(price) /\ market'.outcome_ts = now
    BY <1>1, <2>1, <2>2 DEF Updated, MarketAccount
  <2>4. \A s \in Side : market.filled[s] = market.amount[s]
    <3>1. ~UnfilledAtClose(market, now)
      BY <2>1, NotDueFacts
    <3>2. ~Underfunded(market)
      BY <1>1, <3>1 DEF UnfilledAtClose
    <3> QED BY <1>1, <3>2 DEF Underfunded
  <2>5. price \in U64 \cup {NoPrice}
    BY FloorAssumption
  <2>6. FloorTypeOK'
    BY <1>1, <2>1, <2>3, <2>5 DEF FloorInvariant, FloorTypeOK
  <2>7. OutcomeFollowsReport'
    <3>1. nft_floor.floor_price \in Nat
      BY <1>1, U64Facts DEF FloorInvariant, FloorTypeOK
    <3>2. price # NoPrice => price \in Nat
      BY <2>5, U64Facts
    <3> QED BY <1>1, <2>1, <2>3, <3>1, <3>2 DEF OutcomeFollowsReport, ReportedOutcome, Verdict
  <2>8. AcknowledgedMeansInitialized' /\ AccountIsRentExempt'
    BY <1>1, <2>3 DEF FloorInvariant, AcknowledgedMeansInitialized, AccountIsRentExempt,
                      FloorMarket
  <2> QED BY <1>1, <2>1, <2>3, <2>4, <2>6, <2>7, <2>8 DEF FloorInvariant
<1> QED BY <1>2, <1>3

LEMMA FloorStepInvariant ==
  FloorInvariant /\ EscrowInvariant /\ EscrowInvariant' /\ [FloorNext]_<<vars, floorVars>>
    => FloorInvariant'
<1> SUFFICES ASSUME FloorInvariant, EscrowInvariant, EscrowInvariant',
                    [FloorNext]_<<vars, floorVars>>
             PROVE  FloorInvariant'
  OBVIOUS
<1>1. /\ TypeOK /\ TypeOK'
      /\ \A s \in Side : market.filled[s] <= market.amount[s]
      /\ now \in Nat
  BY EscrowAssumption, U64Facts DEF EscrowInvariant, TypeOK
<1>2. CASE EscrowStep
  BY <1>1, <1>2, EscrowStepKeepsFloor
<1>3. ASSUME NEW k \in Signers, NEW n \in Gifts, SendLamports(k, n)
      PROVE  FloorInvariant'
  <2>1. /\ k \in Keys /\ k # Pda /\ Pda \in Keys /\ n \in Nat
        /\ lamports \in [Keys -> Nat]
    BY FloorAssumption DEF Signers, FloorInvariant, FloorTypeOK
  <2>2. /\ lamports[k] >= n
        /\ lamports' = [lamports EXCEPT ![k] = @ - n, ![Pda] = @ + n]
        /\ UNCHANGED <<now, market, nft_floor, reported>>
    BY <1>3 DEF SendLamports, vars, accounts
  <2>3. lamports' \in [Keys -> Nat] /\ lamports'[Pda] >= lamports[Pda]
    BY <2>1, <2>2
  <2>4. AccountIsRentExempt'
    <3>1. nft_floor.exists => MinimumBalance[nft_floor.project_id] \in Nat
      BY FloorAssumption DEF FloorInvariant, FloorTypeOK, ProjectIds
    <3>2. lamports[Pda] \in Nat /\ lamports'[Pda] \in Nat
      BY <2>1, <2>3
    <3> QED BY <2>2, <2>3, <3>1, <3>2 DEF FloorInvariant, AccountIsRentExempt
  <2> QED BY <2>2, <2>3, <2>4
          DEF FloorInvariant, FloorTypeOK, OutcomeFollowsReport, ReportedOutcome, FloorMarket,
              AcknowledgedMeansInitialized
<1>4. ASSUME NEW k \in Signers, NEW p \in FloorParams, InitializeNftFloor(k, p)
      PROVE  FloorInvariant'
  BY <1>1, <1>4, InitializeKeepsFloor
<1>5. ASSUME NEW k \in Signers, AcknowledgeNftFloor(k)
      PROVE  FloorInvariant'
  <2>1. /\ nft_floor.exists /\ UNCHANGED <<now, market, lamports, reported>>
        /\ nft_floor' = [nft_floor EXCEPT !.acknowledged = TRUE]
    BY <1>5 DEF AcknowledgeNftFloor, vars, accounts
  <2>2. FloorTypeOK'
    BY <2>1 DEF FloorInvariant, FloorTypeOK
  <2>3. /\ nft_floor'.exists /\ nft_floor'.floor_price = nft_floor.floor_price
        /\ nft_floor'.project_id = nft_floor.project_id
    BY <2>1 DEF FloorInvariant, FloorTypeOK
  <2>4. OutcomeFollowsReport' /\ AcknowledgedMeansInitialized' /\ AccountIsRentExempt'
    BY <2>1, <2>3
       DEF FloorInvariant, FloorTypeOK, OutcomeFollowsReport, ReportedOutcome, FloorMarket,
           AcknowledgedMeansInitialized, AccountIsRentExempt
  <2> QED BY <2>1, <2>2, <2>3, <2>4 DEF FloorInvariant
<1>6. ASSUME NEW k \in Signers, NEW price \in Reports, ResolveNftFloor(k, price)
      PROVE  FloorInvariant'
  BY <1>1, <1>6, ResolveKeepsFloor
<1>7. CASE UNCHANGED <<vars, floorVars>>
  BY <1>1, <1>7, FloorFrame DEF vars, accounts
<1> QED BY <1>2, <1>3, <1>4, <1>5, <1>6, <1>7 DEF FloorNext

-----------------------------------------------------------------------------
LEMMA FloorInvariants == FloorSpec => [](FloorInvariant /\ EscrowInvariant)
<1>1. FloorInit => FloorInvariant /\ EscrowInvariant
  BY FloorInitInvariant, InitInvariant DEF FloorInit
<1>2. FloorInvariant /\ EscrowInvariant /\ [FloorNext]_<<vars, floorVars>>
        => FloorInvariant' /\ EscrowInvariant'
  BY FloorStepIsEscrowStep, StepInvariant, FloorStepInvariant DEF FloorInvariant
<1> QED BY <1>1, <1>2, PTL DEF FloorSpec

(***************************************************************************)
(* The inductive invariant of the two programs together.                   *)
(***************************************************************************)
THEOREM FloorInvariantHolds == FloorSpec => []FloorInvariant
BY FloorInvariants, PTL

(***************************************************************************)
(* Type correctness: the resolver account is empty, or holds values of its *)
(* layout and belongs to an existing market that names it.                 *)
(***************************************************************************)
THEOREM FloorTypeCorrect == FloorSpec => []FloorTypeOK
<1>1. FloorInvariant => FloorTypeOK
  BY DEF FloorInvariant
<1> QED BY <1>1, FloorInvariants, PTL

(***************************************************************************)
(* Each step of the two programs together is a step of the escrow program  *)
(* or leaves it alone: the theorems of EscrowProofs apply to them.         *)
(***************************************************************************)
LEMMA FloorImplementsEscrow == FloorSpec => Spec
<1>1. FloorInit => Init
  BY DEF FloorInit
<1>2. FloorInvariant /\ [FloorNext]_<<vars, floorVars>> => [Next]_vars
  BY FloorStepIsEscrowStep DEF FloorInvariant
<1> QED BY <1>1, <1>2, FloorInvariants, PTL DEF FloorSpec, Spec

(***************************************************************************)
(* In particular a market that this program resolves is a parimutuel       *)
(* market to its users, settled once and paid out exactly ...              *)
(***************************************************************************)
THEOREM FloorKeepsContract == FloorSpec => ImplementsContract
BY FloorImplementsEscrow, EscrowKeepsContract, PTL

(***************************************************************************)
(* ... and nobody's money stays locked in it, whatever the authority does. *)
(***************************************************************************)
THEOREM FloorClosesPositions ==
  FloorSpec /\ Fairness /\ []ReadyMeansEnabled /\ SurroundingsMoveOn
    => EveryPositionIsClosed
<1>1. FloorSpec /\ Fairness => FairSpec
  BY FloorImplementsEscrow DEF FairSpec
<1> QED BY <1>1, PositionsAreClosed, PTL

(***************************************************************************)
(* The outcome of a market that this program resolves is what the last     *)
(* report in time says, to the end.                                        *)
(***************************************************************************)
THEOREM OutcomeIsAsReported == FloorSpec => []OutcomeFollowsReport
<1>1. FloorInvariant => OutcomeFollowsReport
  BY DEF FloorInvariant
<1> QED BY <1>1, FloorInvariants, PTL

(***************************************************************************)
(* A market is acknowledged in the name of the resolver account exactly    *)
(* when that account is initialised.                                       *)
(***************************************************************************)
THEOREM AcknowledgementIsTrue == FloorSpec => []AcknowledgedMeansInitialized
<1>1. FloorInvariant => AcknowledgedMeansInitialized
  BY DEF FloorInvariant
<1> QED BY <1>1, FloorInvariants, PTL

(***************************************************************************)
(* The resolver account is always exempt from rent, whatever was sent to   *)
(* its address before it was created.                                      *)
(***************************************************************************)
THEOREM RentIsPaid == FloorSpec => []AccountIsRentExempt
<1>1. FloorInvariant => AccountIsRentExempt
  BY DEF FloorInvariant
<1> QED BY <1>1, FloorInvariants, PTL

(***************************************************************************)
(* The terms of the resolution never change once they are written.         *)
(***************************************************************************)
THEOREM TermsNeverChange == FloorSpec => TermsAreFixed
<1> DEFINE Fixed == \/ nft_floor' = nft_floor
                    \/ nft_floor' = [nft_floor EXCEPT !.acknowledged = TRUE]
<1>1. [FloorNext]_<<vars, floorVars>> => [nft_floor.exists => Fixed]_<<vars, floorVars>>
  <2> SUFFICES ASSUME FloorNext, nft_floor.exists PROVE Fixed
    OBVIOUS
  <2> QED BY DEF FloorNext, EscrowStep, floorVars, SendLamports, InitializeNftFloor,
                 InitResolver, CanAllocate, AcknowledgeNftFloor, ResolveNftFloor
<1> QED BY <1>1, PTL DEF FloorSpec, TermsAreFixed

-----------------------------------------------------------------------------
(***************************************************************************)
(* The time to object.  While the market is not flagged, finalize reads    *)
(* the time of the report from outcome_ts; once it is flagged, the times   *)
(* do not change any more.                                                 *)
(***************************************************************************)
LEMMA UnflaggedReportStands ==
  FloorInvariant /\ TypeOK /\ ~market.finalized => ReportStands
<1> SUFFICES ASSUME FloorInvariant, TypeOK, ~market.finalized,
                    FloorMarket, reported.made, Due(market, now)
             PROVE  \/ now >= reported.at + market.resolution_delay
                    \/ now >= market.expiry_ts + MAX_DELAY_SEC
  BY DEF ReportStands
<1>1. ~UnfilledAtClose(market, now)
  <2>1. \A s \in Side : market.filled[s] = market.amount[s] /\ market.filled[s] \in Nat
    BY U64Facts DEF FloorInvariant, TypeOK, MarketAccount
  <2> QED BY <2>1 DEF UnfilledAtClose, Underfunded
<1>2. market.outcome_ts = reported.at
  BY DEF FloorInvariant, OutcomeFollowsReport, ReportedOutcome
<1> QED BY <1>1, <1>2 DEF Due, PastMaxDelay, PastResolutionDelay

LEMMA ReportKeepsStanding ==
  FloorInvariant /\ TypeOK /\ ReportStands /\ FloorInvariant' /\ TypeOK'
    /\ [FloorNext]_<<vars, floorVars>> => ReportStands'
<1>8. (FloorInvariant /\ TypeOK /\ ~market.finalized => ReportStands)'
  BY UnflaggedReportStands, PTL
<1> SUFFICES ASSUME FloorInvariant, TypeOK, ReportStands, FloorInvariant', TypeOK',
                    [FloorNext]_<<vars, floorVars>>,
                    market'.finalized, FloorMarket', reported'.made
             PROVE  \/ now' >= reported'.at + market'.resolution_delay
                    \/ now' >= market'.expiry_ts + MAX_DELAY_SEC
  BY <1>8 DEF ReportStands
<1>1. [Next]_vars
  BY FloorStepIsEscrowStep DEF FloorInvariant
<1>2. reported' = reported
  <2>1. ASSUME NEW k \in Signers, NEW price \in Reports, ResolveNftFloor(k, price)
        PROVE  reported' = reported
    <3>1. CASE Due(market, now)
      BY <2>1, <3>1 DEF ResolveNftFloor
    <3>2. CASE ~Due(market, now)
      <4>1. NotDue(market, now) /\ market' = Updated(market, now, Verdict(price))
        BY <2>1, <3>2 DEF ResolveNftFloor, Resolve, UpdateState
      <4>2. market'.finalized = market.finalized /\ ~market.finalized
        BY <4>1, NotDueFacts DEF Updated, TypeOK, MarketAccount
      <4> QED BY <4>2
    <3> QED BY <3>1, <3>2
  <2> QED BY <2>1 DEF FloorNext, EscrowStep, SendLamports, InitializeNftFloor,
                      AcknowledgeNftFloor, floorVars
<1>3. market.exists /\ market.resolver = Pda
  BY <1>2 DEF FloorInvariant, FloorTypeOK
<1>4. /\ market'.resolution_delay = market.resolution_delay
      /\ market'.expiry_ts = market.expiry_ts
      /\ market.finalized \/ Due(market, now)
      /\ now' >= now
  BY <1>1, <1>3, MarketKeepsTerms
<1>5. Due(market, now)
  BY <1>4 DEF Due
<1>6. \/ now >= reported.at + market.resolution_delay
      \/ now >= market.expiry_ts + MAX_DELAY_SEC
  BY <1>2, <1>3, <1>5 DEF ReportStands, FloorMarket
<1>7. /\ now \in Nat /\ now' \in Nat /\ reported.at \in Nat /\ MAX_DELAY_SEC \in Nat
      /\ market.resolution_delay \in Nat /\ market.expiry_ts \in Nat
  BY EscrowAssumption, MarketAssumption, U64Facts
     DEF TypeOK, MarketAccount, FloorInvariant, FloorTypeOK
<1> QED BY <1>2, <1>4, <1>6, <1>7

(***************************************************************************)
(* A report is final only after it stood for the resolution delay, or past *)
(* the last deadline.                                                      *)
(***************************************************************************)
THEOREM ReportAlwaysStands == FloorSpec => []ReportStands
<1>1. FloorInit => ReportStands
  BY DEF FloorInit, ReportStands
<1>2. EscrowInvariant => TypeOK
  BY DEF EscrowInvariant
<1> QED BY <1>1, <1>2, ReportKeepsStanding, FloorInvariants, PTL DEF FloorSpec

-----------------------------------------------------------------------------
(***************************************************************************)
(* A position is closed by a claim or a withdrawal only, which finalizes   *)
(* the market in the same step: a deposit only adds to it.                 *)
(***************************************************************************)
LEMMA ClosingFinalizes ==
  ASSUME TypeOK, [Next]_vars, NEW u \in Users, HasPosition(u), ~HasPosition(u)'
  PROVE  market' = Finalize(market, now)
<1>1. position' # position
  BY DEF HasPosition
<1>2. ASSUME NEW v \in Users, NEW p \in DepositParams, Deposit(v, p) PROVE FALSE
  <2>1. PICK s \in Side : position[s][u] # 0
    BY DEF HasPosition
  <2>2. position'[s][u] = 0
    BY DEF HasPosition
  <2>3. /\ position \in [Side -> [Users -> Nat]]
        /\ market.amount \in [Side -> Nat] /\ market.filled \in [Side -> Nat]
        /\ p.amount \in [Side -> Nat]
    BY StateTypes, U64Facts, EscrowAssumption
  <2>4. ToDeposit(p, s) \in Nat
    BY <1>2, <2>3 DEF Deposit, CanDeposit, ToDeposit, Left, Lesser
  <2>5. position' = [t \in Side |-> [position[t] EXCEPT ![v] = position[t][v] + ToDeposit(p, t)]]
    BY <1>2 DEF Deposit
  <2> QED BY <2>1, <2>2, <2>3, <2>4, <2>5
<1>3. \E v \in Users : Withdraw(v) \/ Claim(v)
  BY <1>1, <1>2
     DEF Next, Tick, Donate, CreateFeeAccount, InitializeGlobalState, SetGlobalState,
         InitializeMarket, ResolverAcknowledge, InitializeUserPosition, UpdateState,
         vars, accounts
<1> QED BY <1>3 DEF Withdraw, Claim

(***************************************************************************)
(* What finalize makes of a market of this program is what was reported:   *)
(* a report in time means that both sides were filled, so the underfunding *)
(* rule does not apply, and without one the market is Open or Invalid.     *)
(***************************************************************************)
LEMMA FinalizeGivesReport ==
  ASSUME TypeOK, FloorInvariant, FloorMarket
  PROVE  FinalOutcome(market, now) = IF reported.made THEN ReportedOutcome ELSE "Invalid"
<1>1. CASE reported.made
  <2>1. market.outcome = ReportedOutcome /\ ReportedOutcome # "Open"
    BY <1>1 DEF FloorInvariant, OutcomeFollowsReport, ReportedOutcome
  <2>2. ~Underfunded(market)
    BY <1>1, StateTypes DEF FloorInvariant, Underfunded
  <2> QED BY <1>1, <2>1, <2>2 DEF FinalOutcome, UnfilledAtClose
<1>2. CASE ~reported.made
  BY <1>2 DEF FloorInvariant, OutcomeFollowsReport, FinalOutcome
<1> QED BY <1>1, <1>2

(***************************************************************************)
(* Nobody is ever paid on anything but the last report that was in time.   *)
(***************************************************************************)
THEOREM PaymentsFollowReport == FloorSpec => PaidAsReported
<1> DEFINE Reported == IF reported.made THEN ReportedOutcome ELSE "Invalid"
<1>1. ASSUME FloorInvariant, EscrowInvariant, [FloorNext]_<<vars, floorVars>>,
             FloorMarket, NEW u \in Users, HasPosition(u), ~HasPosition(u)'
      PROVE  market'.outcome = Reported
  <2>1. TypeOK /\ market.exists /\ [Next]_vars
    BY <1>1, FloorStepIsEscrowStep DEF EscrowInvariant, FloorInvariant, FloorMarket
  <2>2. market' = Finalize(market, now)
    BY <1>1, <2>1, ClosingFinalizes
  <2>3. market'.outcome = FinalOutcome(market, now)
    BY <2>1, <2>2 DEF Finalize, TypeOK, MarketAccount
  <2> QED BY <1>1, <2>1, <2>3, FinalizeGivesReport
<1>2. FloorInvariant /\ EscrowInvariant /\ [FloorNext]_<<vars, floorVars>>
        => (FloorMarket /\ (\E u \in Users : HasPosition(u) /\ ~HasPosition(u)')
              => market'.outcome = Reported)
  BY <1>1
<1>3. FloorSpec => [](FloorInvariant /\ EscrowInvariant) /\ [][FloorNext]_<<vars, floorVars>>
  BY FloorInvariants, PTL DEF FloorSpec
<1> QED BY <1>2, <1>3, PTL DEF PaidAsReported

=============================================================================
