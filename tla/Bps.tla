-------------------------------- MODULE Bps --------------------------------
(***************************************************************************)
(* Basis points and the protocol fee (libs/common/src/bps.rs, math.rs and  *)
(* the wrapper programs/hh-escrow/src/state/bps.rs).                       *)
(*                                                                         *)
(* fee computes amount * bps / BPS_MAX, rounded up, in 64-bit words: it    *)
(* splits the amount into quotient and remainder so that no intermediate   *)
(* product leaves the word.  Every intermediate value has a name of its    *)
(* own here, because unchecked_mul and unchecked_add are undefined         *)
(* behaviour when the result does not fit.                                 *)
(***************************************************************************)
EXTENDS U64

CONSTANT BPS_MAX   \* Bps::MAX, 10_000 on chain

\* The second conjunct is the static_assert of Bps::fee.
ASSUME BpsAssumption == /\ BPS_MAX \in Nat \ {0}
                        /\ BPS_MAX * BPS_MAX <= U64_MAX

\* The values a Bps can hold: Bps::new returns Some for these only.
BpsValue == 0 .. BPS_MAX

\* Bug: Bps::new accepts any u16.
BpsNewUnchecked(bps) == TRUE
BpsNew(bps) == bps \in BpsValue

\* Bug: the quotient is rounded down.
DivCeilFloor(x, y) == x \div y
DivCeil(x, y) == x \div y + (IF x % y # 0 THEN 1 ELSE 0)

WholePart(bps, amount) == (amount \div BPS_MAX) * bps

\* Bug: the remainder is not taken, the product leaves the word.
RemainderProductWide(bps, amount) == amount * bps
RemainderProduct(bps, amount) == (amount % BPS_MAX) * bps

Fee(bps, amount) ==
  WholePart(bps, amount) + DivCeil(RemainderProduct(bps, amount), BPS_MAX)

\* The second half of fee_received.
Received(bps, amount) == amount - Fee(bps, amount)

(***************************************************************************)
(* The reference of the unit tests, in 128-bit arithmetic (fee_u128).      *)
(***************************************************************************)
FeeReference(bps, amount) ==
  LET dividend == amount * bps
  IN  dividend \div BPS_MAX + (IF dividend % BPS_MAX # 0 THEN 1 ELSE 0)

\* An unchecked_add, unchecked_sub or unchecked_mul with exact result z is
\* defined: the checked operation in its place returns Some.
Defined(z) == z \in U64

(***************************************************************************)
(* Every unchecked operation of fee stays inside the word, so none of them *)
(* is undefined behaviour (the SAFETY comments of Bps::fee and div_ceil).  *)
(***************************************************************************)
FeeStaysInWord(bps, amount) ==
  /\ Defined(WholePart(bps, amount))
  /\ Defined(RemainderProduct(bps, amount))
  /\ Defined(DivCeil(RemainderProduct(bps, amount), BPS_MAX))
  /\ Defined(Fee(bps, amount))
  /\ Defined(Received(bps, amount))

=============================================================================
