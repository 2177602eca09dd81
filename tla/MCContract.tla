----------------------------- MODULE MCContract -----------------------------
(***************************************************************************)
(* The small instance of the refinement: two users, who can fill the pools *)
(* of 2 and 3 only together.                                               *)
(***************************************************************************)
EXTENDS EscrowContract, MCEscrow

\* Closing at once; a delay of one; none.  The deadline is within the clock.
ContractMarketParams == {Times(1, 1, 0), Times(2, 3, 1), Times(2, 2, 0)}

ContractGlobalParams == [owner : {r}, fee_cut_bps : {3}, fee_wallet : {fw}]

=============================================================================
