------------------------------- MODULE MCBps -------------------------------
(***************************************************************************)
(* The fee of every amount at every rate, one input after the other.  The  *)
(* word is as narrow as the static_assert of Bps::fee allows.              *)
(***************************************************************************)
EXTENDS Bps

VARIABLES bps, amount

Init == bps = 0 /\ amount = 0

NextAmount == amount < U64_MAX /\ amount' = amount + 1 /\ bps' = bps

\* Bps::new refuses the rate after BPS_MAX, and the walk starts again.
NextRate ==
  /\ amount = U64_MAX
  /\ amount' = 0
  /\ bps' = IF BpsNew(bps + 1) THEN bps + 1 ELSE 0

Next == NextAmount \/ NextRate

Spec == Init /\ [][Next]_<<bps, amount>>

(***************************************************************************)
(* The word-sized computation agrees with the wide one (the quickcheck     *)
(* test fees_match_u128_impl).                                             *)
(***************************************************************************)
FeeMatchesReference == Fee(bps, amount) = FeeReference(bps, amount)

(***************************************************************************)
(* No unchecked operation of the computation leaves the word, the          *)
(* subtraction of fee_received included.                                   *)
(***************************************************************************)
NoUndefinedBehaviour == FeeStaysInWord(bps, amount)

=============================================================================
