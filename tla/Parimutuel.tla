----------------------------- MODULE Parimutuel -----------------------------
(***************************************************************************)
(* What the escrow program promises to those who bet, without its clock,   *)
(* accounts, signers and machine arithmetic: two pools are filled up to    *)
(* their targets, the market gets one result, and then every bettor is     *)
(* paid once, in full, in any order.                                       *)
(***************************************************************************)
EXTENDS Integers, Totals

CONSTANTS Bettors, Purse, Targets

VARIABLES
  target,   \* what each pool is to hold when betting closes
  stake,    \* stake[s][u]: what u has bet on s and not got back
  pot,      \* the tokens in each pool
  result,   \* "None", "Invalid", or the side that won
  wallet,   \* the bettors' tokens
  fees      \* the tokens paid in fees

vars == <<target, stake, pot, result, wallet, fees>>

Side == {"Yes", "No"}
Other(s) == IF s = "Yes" THEN "No" ELSE "Yes"

Nothing == [s \in Side |-> 0]

Init ==
  /\ target = Nothing
  /\ stake = [s \in Side |-> [u \in Bettors |-> 0]]
  /\ pot = Nothing
  /\ result = "None"
  /\ wallet = Purse
  /\ fees = 0

\* A market may be opened so late that it fails at once.
Open(t) ==
  /\ target = Nothing
  /\ \A s \in Side : t[s] # 0
  /\ target' = t
  /\ result' \in {"None", "Invalid"}
  /\ UNCHANGED <<stake, pot, wallet, fees>>

Room(s) == target[s] - Total(stake[s])

Join(u, yes, no) ==
  LET bet == [s \in Side |-> IF s = "Yes" THEN yes ELSE no]
  IN  /\ result = "None"
      /\ stake' = [s \in Side |-> [stake[s] EXCEPT ![u] = @ + bet[s]]]
      /\ pot' = [s \in Side |-> pot[s] + bet[s]]
      /\ wallet' = [wallet EXCEPT ![u] = @ - yes - no]
      /\ UNCHANGED <<target, result, fees>>

\* A side can win only when both pools are full.
Settle ==
  /\ result = "None"
  /\ \/ result' = "Invalid"
     \/ result' \in Side /\ \A s \in Side : Room(s) = 0
  /\ UNCHANGED <<target, stake, pot, wallet, fees>>

Leave(u) == stake' = [s \in Side |-> [stake[s] EXCEPT ![u] = 0]]

Refund(u) ==
  /\ result = "Invalid"
  /\ Leave(u)
  /\ pot' = [s \in Side |-> pot[s] - stake[s][u]]
  /\ wallet' = [wallet EXCEPT ![u] = @ + stake["Yes"][u] + stake["No"][u]]
  /\ UNCHANGED <<target, result, fees>>

\* A winner's part of the other pool, and the fee that is kept of it.
Share(u) == (stake[result][u] * target[Other(result)]) \div target[result]

Payout(u, fee) ==
  /\ Leave(u)
  /\ pot' = [s \in Side |-> IF s = result THEN pot[s] - stake[s][u]
                            ELSE pot[s] - Share(u)]
  /\ wallet' = [wallet EXCEPT ![u] = @ + stake[result][u] + Share(u) - fee]
  /\ fees' = fees + fee
  /\ UNCHANGED <<target, result>>

\* Anyone may add to a pool; it changes nothing for anybody.
Gift(u, s, n) ==
  /\ wallet' = [wallet EXCEPT ![u] = @ - n]
  /\ pot' = [pot EXCEPT ![s] = @ + n]
  /\ UNCHANGED <<target, stake, result, fees>>

Next ==
  \/ \E t \in Targets : Open(t)
  \/ \E u \in Bettors : \E yes \in 0 .. Room("Yes"), no \in 0 .. Room("No") :
       yes + no <= wallet[u] /\ Join(u, yes, no)
  \/ Settle
  \/ \E u \in Bettors : Refund(u)
  \/ /\ result \in Side
     /\ \E u \in Bettors : \E fee \in 0 .. Share(u) : Payout(u, fee)
  \/ \E u \in Bettors, s \in Side : \E n \in 1 .. wallet[u] : Gift(u, s, n)

Spec == Init /\ [][Next]_vars

=============================================================================
