--------------------------- MODULE EscrowContract ---------------------------
(***************************************************************************)
(* The escrow program implements the parimutuel market.                    *)
(*                                                                         *)
(* The result is not what is stored but what finalize would say now: the   *)
(* clock settles a market, and the instruction that writes the result down *)
(* later is no step of the contract.                                       *)
(***************************************************************************)
EXTENDS EscrowProperties

Result == IF market.exists /\ Due(market, now) THEN FinalOutcome(market, now) ELSE "None"

Contract == INSTANCE Parimutuel WITH
  Bettors <- Users, Purse <- InitialWallet, Targets <- {p.amount : p \in MarketParams},
  target <- market.amount, stake <- position, pot <- holdings, result <- Result,
  fees <- Total(fee_account)

(***************************************************************************)
(* Every step of the program is a step of the contract or none: whatever   *)
(* the signers, the clock, the flags and the rounding do, a market is      *)
(* settled once, and every bettor is paid exactly once and exactly what    *)
(* the pools promise.                                                      *)
(***************************************************************************)
ImplementsContract == Contract!Spec

=============================================================================
