---------------------------- MODULE EscrowLedger ----------------------------
(***************************************************************************)
(* The escrow program with an observer who keeps the books: what each user *)
(* has bet and given away, and the fee rate and the fee wallet in force    *)
(* when the user was paid.  The program forgets a bet when it pays it, and *)
(* the rate and the wallet when the owner replaces them; with the books    *)
(* one can say at the end what everybody should have.                      *)
(***************************************************************************)
EXTENDS EscrowProperties

VARIABLES
  bet,    \* bet[s][u]: what u has deposited on side s, paid out or not
  gifts,  \* what u has sent to the escrow accounts by a plain transfer
  rate,   \* the fee rate, in basis points, when u's position was closed
  payee   \* and the wallet the fee was to go to

books == <<bet, gifts, rate, payee>>

LedgerInit ==
  /\ Init
  /\ bet = [s \in Side |-> NoPosition]
  /\ gifts = NoPosition
  /\ rate = NoPosition
  /\ payee = [u \in Users |-> NoKey]

LedgerNext ==
  /\ Next
  /\ bet' = IF market'.filled = market.filled THEN bet
            ELSE [s \in Side |-> [u \in Users |->
                    bet[s][u] + (position'[s][u] - position[s][u])]]
  /\ gifts' = IF donated' = donated THEN gifts
              ELSE [u \in Users |-> gifts[u] + (wallet[u] - wallet'[u])]
  /\ rate' = [u \in Users |-> IF HasPosition(u) /\ ~HasPosition(u)'
                              THEN global_state.fee_cut_bps ELSE rate[u]]
  /\ payee' = [u \in Users |-> IF HasPosition(u) /\ ~HasPosition(u)'
                               THEN global_state.fee_wallet ELSE payee[u]]

LedgerSpec == LedgerInit /\ [][LedgerNext]_<<vars, books>>

\* The winnings of a bet on the side that won, and the fee on them.
FairShare(u) ==
  (bet[market.outcome][u] * market.amount[Other(market.outcome)])
    \div market.amount[market.outcome]
FairFee(u) == FeeReference(rate[u], FairShare(u))

GetsTheirDue(u) ==
  LET own == wallet[u] + gifts[u]
  IN  IF HasPosition(u) THEN own + bet["Yes"][u] + bet["No"][u] = InitialWallet[u]
      ELSE IF ~Resolved THEN own = InitialWallet[u]
      ELSE own + bet[Other(market.outcome)][u] + FairFee(u)
             = InitialWallet[u] + FairShare(u)

(***************************************************************************)
(* Everybody ends up with what is due, to the unit: a user with an open    *)
(* position is short of exactly the bets; one who was refunded, or never   *)
(* bet, is short of nothing; one who has claimed has lost the bet on the   *)
(* losing side and no more, and won the share of the other, less the fee.  *)
(* Neither the order of the claims, nor what others do, nor changes of the *)
(* fee before or after, make a difference.                                 *)
(***************************************************************************)
EverybodyGetsTheirDue == \A u \in Users : GetsTheirDue(u)

\* What wallet w should have got of u's winnings, and what it has.
FeeFrom(u, w) ==
  IF Resolved /\ ~HasPosition(u) /\ payee[u] = w THEN FairFee(u) ELSE 0
FeesFor(w) == [u \in Users |-> FeeFrom(u, w)]
FeesOf(w) == IF w \in DOMAIN fee_account THEN fee_account[w] ELSE 0

(***************************************************************************)
(* And so does the protocol: a fee wallet holds exactly the fees, at the   *)
(* rate of that moment and rounded up one by one, of those who claimed     *)
(* while it was the fee wallet.  A refund costs no fee, a repeated claim   *)
(* no second one, and renaming the wallet moves nothing of what is earned. *)
(***************************************************************************)
ProtocolGetsItsDue == \A w \in FeeWallets : FeesOf(w) = Total(FeesFor(w))

\* Those who bet on the side that won and have been paid.
PaidWinners(won) == {u \in Users : bet[won][u] # 0 /\ position[won][u] = 0}

(***************************************************************************)
(* The winners are paid the whole pool of the losing side: rounding keeps  *)
(* back less than one unit for each winner paid so far, and nothing at all *)
(* for a user who lost, or never bet.                                      *)
(***************************************************************************)
RoundingDust ==
  Resolved =>
    LET won == market.outcome
        lost == Other(won)
    IN  (holdings[lost] - donated[lost]) * market.amount[won]
          <= Total(position[won]) * market.amount[lost]
             + Cardinality(PaidWinners(won)) * (market.amount[won] - 1)

=============================================================================
