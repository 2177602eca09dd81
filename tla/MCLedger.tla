------------------------------ MODULE MCLedger ------------------------------
(***************************************************************************)
(* The small instance of the escrow program with books.                    *)
(***************************************************************************)
EXTENDS EscrowLedger, MCEscrow

\* Bets of one user on both sides; two winners of unequal shares that are
\* both rounded.
LedgerMarketParams == {Times(2, 3, 1)}
LedgerDepositParams ==
  {[amount |-> Amounts(1, 2), allow_partial |-> TRUE],
   [amount |-> Amounts(1, 1), allow_partial |-> FALSE]}

\* A fee of 30% to one wallet, or of everything to another; the owner may
\* change it between two claims.
LedgerGlobalParams ==
  {[owner |-> r, fee_cut_bps |-> b, fee_wallet |-> w] : <<b, w>> \in {<<3, fw>>, <<10, fw2>>}}

=============================================================================
