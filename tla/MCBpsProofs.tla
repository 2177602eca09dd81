---------------------------- MODULE MCBpsProofs ----------------------------
(***************************************************************************)
(* What the exhaustive run of MCBps shows of one word holds of every word. *)
(***************************************************************************)
EXTENDS MCBps, ArithmeticProofs

LEMMA WalkStaysInRange == Spec => [](bps \in BpsValue /\ amount \in U64)
<1>1. 0 \in U64 /\ 0 \in BpsValue /\ U64_MAX \in Nat
  BY U64Assumption, BpsAssumption DEF U64, BpsValue
<1>2. Init => bps \in BpsValue /\ amount \in U64
  BY <1>1 DEF Init
<1>3. bps \in BpsValue /\ amount \in U64 /\ [Next]_<<bps, amount>>
        => (bps \in BpsValue /\ amount \in U64)'
  BY <1>1 DEF Next, NextAmount, NextRate, BpsNew, U64
<1> QED BY <1>2, <1>3, PTL DEF Spec

(***************************************************************************)
(* At every rate the fee of every amount is the exact one, rounded up.     *)
(***************************************************************************)
THEOREM FeeAlwaysMatches == Spec => []FeeMatchesReference
<1>1. bps \in BpsValue /\ amount \in U64 => FeeMatchesReference
  BY FeeIsExact DEF FeeMatchesReference
<1> QED BY <1>1, WalkStaysInRange, PTL

(***************************************************************************)
(* And its computation is free of undefined behaviour.                     *)
(***************************************************************************)
THEOREM FeeAlwaysDefined == Spec => []NoUndefinedBehaviour
<1>1. bps \in BpsValue /\ amount \in U64 => NoUndefinedBehaviour
  BY FeeNeverOverflows DEF NoUndefinedBehaviour
<1> QED BY <1>1, WalkStaysInRange, PTL

=============================================================================
