------------------------------- MODULE Market -------------------------------
(***************************************************************************)
(* The Market account and its pure logic                                   *)
(* (programs/hh-escrow/src/state/market.rs): when a market is final, with  *)
(* which outcome, and which outcomes its resolver may set.                 *)
(*                                                                         *)
(* The pairs of fields yes_x / no_x of the source are functions of the     *)
(* side: yes_amount is amount["Yes"], no_filled is filled["No"].           *)
(***************************************************************************)
EXTENDS U64

CONSTANTS
  Keys,            \* the public keys that sign transactions
  NoKey,           \* Pubkey::default, in an account not yet initialised
  MAX_DELAY_SEC    \* 30 days on chain

ASSUME MarketAssumption == NoKey \notin Keys /\ MAX_DELAY_SEC \in Nat

Side == {"Yes", "No"}
Outcome == Side \cup {"Open", "Invalid"}

Other(s) == IF s = "Yes" THEN "No" ELSE "Yes"

MarketAccount ==
  [exists : BOOLEAN, creator : Keys \cup {NoKey}, resolver : Keys \cup {NoKey},
   amount : [Side -> U64], filled : [Side -> U64],
   close_ts : U64, expiry_ts : U64, outcome_ts : U64, resolution_delay : U64,
   outcome : Outcome, finalized : BOOLEAN, acknowledged : BOOLEAN]

\* The all-zero account, before initialize_market.
ZeroMarket ==
  [exists |-> FALSE, creator |-> NoKey, resolver |-> NoKey,
   amount |-> [s \in Side |-> 0], filled |-> [s \in Side |-> 0],
   close_ts |-> 0, expiry_ts |-> 0, outcome_ts |-> 0, resolution_delay |-> 0,
   outcome |-> "Open", finalized |-> FALSE, acknowledged |-> FALSE]

-----------------------------------------------------------------------------
(***************************************************************************)
(* Market::finalize at time t.  It has three results: an Overflow error,   *)
(* TRUE with the account updated, FALSE with the account unchanged.        *)
(***************************************************************************)
\* Bug: only a market with both sides short counts as underfunded.
UnderfundedBoth(m) == \A s \in Side : m.filled[s] < m.amount[s]
Underfunded(m) == \E s \in Side : m.filled[s] < m.amount[s]

UnfilledAtClose(m, t) == Underfunded(m) /\ t >= m.close_ts

\* Bug: no automatic finalization after 30 days.
PastMaxDelayNever(m, t) == FALSE
PastMaxDelay(m, t) == t >= m.expiry_ts + MAX_DELAY_SEC

PastResolutionDelay(m, t) ==
  m.outcome # "Open" /\ t >= m.outcome_ts + m.resolution_delay

FinalizeOverflows(m, t) ==
  /\ ~m.finalized
  /\ ~UnfilledAtClose(m, t)
  /\ \/ AddOverflows(m.expiry_ts, MAX_DELAY_SEC)
     \/ /\ ~PastMaxDelay(m, t)
        /\ m.outcome # "Open"
        /\ AddOverflows(m.outcome_ts, m.resolution_delay)

\* finalize returns Ok(true): the market is final, flagged or not.
Due(m, t) ==
  \/ m.finalized
  \/ UnfilledAtClose(m, t)
  \/ /\ ~FinalizeOverflows(m, t)
     /\ PastMaxDelay(m, t) \/ PastResolutionDelay(m, t)

\* finalize returns Ok(false).
NotDue(m, t) == ~Due(m, t) /\ ~FinalizeOverflows(m, t)

\* Bug: a market nobody resolved stays Open when it becomes final.
FinalOutcomeMayBeOpen(m, t) ==
  IF ~m.finalized /\ UnfilledAtClose(m, t) THEN "Invalid" ELSE m.outcome
FinalOutcome(m, t) ==
  IF ~m.finalized /\ (UnfilledAtClose(m, t) \/ m.outcome = "Open")
  THEN "Invalid"
  ELSE m.outcome

\* The account after finalize has returned Ok(true).
Finalize(m, t) == [m EXCEPT !.finalized = TRUE, !.outcome = FinalOutcome(m, t)]

-----------------------------------------------------------------------------
(***************************************************************************)
(* The outcomes a resolver may set on a market that is not final           *)
(* (UpdateState::can_update, without the check of the signer).             *)
(***************************************************************************)
LegalUpdate(m, t, outcome) ==
  \/ /\ t < m.expiry_ts
     /\ <<m.outcome, outcome>> \in {<<"Open", "Invalid">>, <<"Invalid", "Open">>}
  \/ /\ t >= m.expiry_ts
     /\ outcome # "Open"

\* The account after an accepted update.
\* Bug: outcome_ts is set once and kept by later updates.
UpdatedKeepsFirstTs(m, t, outcome) ==
  [m EXCEPT !.outcome_ts = IF outcome = "Open" THEN 0 ELSE IF @ = 0 THEN t ELSE @,
            !.outcome = outcome]
Updated(m, t, outcome) ==
  [m EXCEPT !.outcome_ts = IF outcome = "Open" THEN 0 ELSE t, !.outcome = outcome]

=============================================================================
