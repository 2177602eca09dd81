------------------------------- MODULE Totals -------------------------------
(***************************************************************************)
(* The total of a finite table of amounts.                                 *)
(*                                                                         *)
(* An amount is a heap of token units: the entry f[u] = n stands for the   *)
(* units <<u, 1>> .. <<u, n>>, and the total of the table is the number of *)
(* units in it.  The definition is not recursive, so that the laws of      *)
(* totals follow from the laws of cardinality (module ArithmeticProofs).   *)
(***************************************************************************)
EXTENDS Naturals, FiniteSets

Units(f) == UNION {{u} \X (1 .. f[u]) : u \in DOMAIN f}

Total(f) == Cardinality(Units(f))

=============================================================================
