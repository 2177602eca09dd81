------------------------------ MODULE MCWindow ------------------------------
(***************************************************************************)
(* The small instance of the observed escrow program.                      *)
(***************************************************************************)
EXTENDS EscrowWindow, MCEscrow

\* A delay of zero, one shorter than MAX_DELAY_SEC, one longer, and one market
\* that expires well after it closes.
WindowMarketParams == {Times(2, 2, 0), Times(2, 2, 2), Times(2, 2, 4), Times(2, 4, 2)}

\* The fee is of no matter here.
WindowGlobalParams == [owner : {r}, fee_cut_bps : {3}, fee_wallet : {fw}]

=============================================================================
