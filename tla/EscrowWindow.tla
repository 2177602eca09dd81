---------------------------- MODULE EscrowWindow ----------------------------
(***************************************************************************)
(* The escrow program with an observer who writes down when the outcome    *)
(* last changed.  The program keeps outcome_ts for this, which its own     *)
(* instructions may get wrong; the observer looks at the outcome alone.    *)
(***************************************************************************)
EXTENDS EscrowProperties

VARIABLE since   \* when the present outcome came to be

WindowInit == Init /\ since = 0

WindowNext == Next /\ since' = IF market'.outcome # market.outcome THEN now ELSE since

WindowSpec == WindowInit /\ [][WindowNext]_<<vars, since>>

(***************************************************************************)
(* The time to object is respected: on a market that was filled, an        *)
(* outcome is final only after it stood unchanged for resolution_delay, or *)
(* when MAX_DELAY_SEC have passed since the expiry.  A resolver that       *)
(* changes its mind starts the delay again.  (An update to the same        *)
(* outcome starts it again too, so outcome_ts may be later than since.)    *)
(***************************************************************************)
TimeToObject ==
  market.exists /\ Due(market, now) /\ ~Underfunded(market) =>
    \/ now >= since + market.resolution_delay
    \/ now >= market.expiry_ts + MAX_DELAY_SEC

=============================================================================
