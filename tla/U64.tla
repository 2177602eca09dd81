-------------------------------- MODULE U64 --------------------------------
(***************************************************************************)
(* The machine integers of the programs.  Amounts and timestamps are u64;  *)
(* the width is a parameter so that a small instance reaches its limit.    *)
(***************************************************************************)
EXTENDS Integers

CONSTANT U64_MAX   \* u64::MAX, 2^64 - 1 on chain

ASSUME U64Assumption == U64_MAX \in Nat

U64 == 0 .. U64_MAX

\* x.checked_add(y) is None.
AddOverflows(x, y) == x + y > U64_MAX

\* "x as u64" of a non-negative wider integer keeps the low bits.
AsU64(x) == x % (U64_MAX + 1)

Lesser(x, y) == IF x <= y THEN x ELSE y

=============================================================================
