---------------------------- MODULE MarketProofs ----------------------------
(***************************************************************************)
(* Laws of Market::finalize and UpdateState::can_update, for every account *)
(* and every time.                                                         *)
(***************************************************************************)
EXTENDS Market, TLAPS

(***************************************************************************)
(* finalize keeps the account an account.                                  *)
(***************************************************************************)
LEMMA FinalOutcomeType ==
  ASSUME NEW m \in MarketAccount, NEW t \in Nat
  PROVE  /\ FinalOutcome(m, t) \in Outcome
         /\ Finalize(m, t) \in MarketAccount
BY DEF FinalOutcome, Finalize, MarketAccount, Outcome

(***************************************************************************)
(* An update keeps the account an account.                                 *)
(***************************************************************************)
LEMMA UpdatedType ==
  ASSUME NEW m \in MarketAccount, NEW t \in U64, NEW outcome \in Outcome
  PROVE  Updated(m, t, outcome) \in MarketAccount
<1>1. 0 \in U64
  BY U64Assumption DEF U64
<1>2. (IF outcome = "Open" THEN 0 ELSE t) \in U64
  BY <1>1
<1> QED BY <1>2 DEF Updated, MarketAccount

(***************************************************************************)
(* finalize is idempotent: once it has returned true it returns true       *)
(* again, at any time, with the outcome it stored.                         *)
(***************************************************************************)
LEMMA FinalizeIsIdempotent ==
  ASSUME NEW m \in MarketAccount, NEW t \in Nat, NEW later \in Nat
  PROVE  /\ Due(Finalize(m, t), later)
         /\ FinalOutcome(Finalize(m, t), later) = FinalOutcome(m, t)
BY DEF Due, Finalize, FinalOutcome, MarketAccount

(***************************************************************************)
(* Time only helps: a market that is due stays due, with the same outcome. *)
(* This needs that an underfunded market is never Yes or No, and that it   *)
(* closes before it expires: when the closing time comes, an outcome that  *)
(* was due already must not turn into Invalid.                             *)
(***************************************************************************)
LEMMA DueIsStable ==
  ASSUME NEW m \in MarketAccount, NEW t \in Nat, NEW later \in Nat, t <= later,
         m.close_ts <= m.expiry_ts,
         Underfunded(m) => m.outcome \notin Side,
         Due(m, t)
  PROVE  Due(m, later) /\ FinalOutcome(m, later) = FinalOutcome(m, t)
<1>1. /\ m.close_ts \in Nat /\ m.expiry_ts \in Nat /\ m.outcome_ts \in Nat
      /\ m.resolution_delay \in Nat /\ m.outcome \in Outcome
      /\ MAX_DELAY_SEC \in Nat
  BY U64Assumption, MarketAssumption DEF MarketAccount, U64
<1>2. CASE m.finalized
  BY <1>2 DEF Due, FinalOutcome
<1>3. CASE ~m.finalized /\ UnfilledAtClose(m, t)
  BY <1>1, <1>3 DEF Due, FinalOutcome, UnfilledAtClose
<1>4. CASE ~m.finalized /\ ~UnfilledAtClose(m, t)
  <2>1. /\ ~AddOverflows(m.expiry_ts, MAX_DELAY_SEC)
        /\ PastMaxDelay(m, t) \/ PastResolutionDelay(m, t)
        /\ PastMaxDelay(m, t) \/ m.outcome = "Open"
             \/ ~AddOverflows(m.outcome_ts, m.resolution_delay)
    BY <1>4 DEF Due, FinalizeOverflows
  <2>2. PastMaxDelay(m, t) => PastMaxDelay(m, later)
    BY <1>1 DEF PastMaxDelay
  <2>3. PastResolutionDelay(m, t) => PastResolutionDelay(m, later)
    BY <1>1 DEF PastResolutionDelay
  <2>4. Due(m, later)
    BY <1>4, <2>1, <2>2, <2>3 DEF Due, FinalizeOverflows
  <2>5. UnfilledAtClose(m, later) => m.outcome \in {"Open", "Invalid"}
    BY <1>1 DEF UnfilledAtClose, Outcome, Side
  <2> QED BY <1>1, <1>4, <2>4, <2>5 DEF FinalOutcome
<1> QED BY <1>2, <1>3, <1>4

(***************************************************************************)
(* A market that is neither due nor failing is not final, not underfunded  *)
(* after its closing time, and its deadline is within u64.                 *)
(***************************************************************************)
LEMMA NotDueFacts ==
  ASSUME NEW m, NEW t, NotDue(m, t)
  PROVE  /\ ~m.finalized
         /\ ~UnfilledAtClose(m, t)
         /\ ~AddOverflows(m.expiry_ts, MAX_DELAY_SEC)
BY DEF NotDue, Due, FinalizeOverflows

=============================================================================
