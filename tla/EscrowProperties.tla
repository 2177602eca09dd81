-------------------------- MODULE EscrowProperties --------------------------
(***************************************************************************)
(* What must be true of the escrow program.                                *)
(***************************************************************************)
EXTENDS Escrow

(***************************************************************************)
(* The type invariant: every account holds values its layout can hold, a   *)
(* stored fee is a Bps (the assume! of Bps::get relies on it), a market    *)
(* keeps what initialize_market validated (claim divides by its amounts),  *)
(* a position account exists before it holds anything, and only for a      *)
(* market that exists.                                                     *)
(***************************************************************************)
TypeOK ==
  /\ now \in 1 .. MAX_CLOCK
  /\ global_state \in [exists : BOOLEAN, owner : Keys \cup {NoKey},
                       fee_cut_bps : BpsValue, fee_wallet : FeeWallets \cup {NoKey}]
  /\ global_state.exists => global_state.fee_wallet \in FeeWallets
  /\ market \in MarketAccount
  /\ opened \subseteq Users
  /\ IF market.exists
     THEN (\A s \in Side : market.amount[s] # 0) /\ market.close_ts <= market.expiry_ts
     ELSE market = ZeroMarket /\ opened = {}
  /\ position \in [Side -> [Users -> U64]]
  /\ \A s \in Side, u \in Users \ opened : position[s][u] = 0
  /\ holdings \in [Side -> Nat]
  /\ wallet \in [Users -> Nat]
  /\ DOMAIN fee_account \subseteq FeeWallets
  /\ fee_account \in [DOMAIN fee_account -> Nat]
  /\ donated \in [Side -> Nat]

\* The market ended Yes or No, and payments may have begun.
Resolved == market.finalized /\ market.outcome \in Side

-----------------------------------------------------------------------------
(***************************************************************************)
(* An escrow account holds exactly the open positions of its side, besides *)
(* unasked-for donations -- except the losing side of a resolved market,   *)
(* out of which winnings are paid.  And filled counts what was deposited:  *)
(* it is the total of the positions until somebody is paid, and never less *)
(* than it.                                                                *)
(***************************************************************************)
EscrowHoldsPositions ==
  \A s \in Side :
    /\ ~(Resolved /\ s = Other(market.outcome))
         => holdings[s] = donated[s] + Total(position[s])
    /\ Total(position[s]) <= market.filled[s]
    /\ ~market.finalized => Total(position[s]) = market.filled[s]

(***************************************************************************)
(* The losing escrow account of a resolved market covers the shares of all *)
(* winners who have not claimed yet, together, before rounding.  (The      *)
(* division of a share is multiplied out.)                                 *)
(***************************************************************************)
Solvency ==
  Resolved =>
    LET won == market.outcome
        lost == Other(won)
    IN  /\ holdings[lost] >= donated[lost]
        /\ (holdings[lost] - donated[lost]) * market.amount[won]
             >= Total(position[won]) * market.amount[lost]

(***************************************************************************)
(* No payment fails for want of tokens: whoever passes the checks of       *)
(* withdraw or claim finds the escrow accounts sufficiently funded, in     *)
(* whatever order the users come and however the shares were rounded; a    *)
(* claim has to find the fee and the rest of the winnings together.        *)
(***************************************************************************)
PayoutsCovered ==
  \A u \in Users :
    /\ CanWithdraw(u) => \A s \in Side : holdings[s] >= position[s][u]
    /\ CanClaim(u) =>
         LET won == FinalOutcome(market, now)
             stake == position[won][u]
             winnings == Winnings(won, stake)
             fee == Fee(global_state.fee_cut_bps, winnings)
         IN  /\ holdings[won] >= stake
             /\ holdings[Other(won)] >= fee + Remaining(winnings, fee)

(***************************************************************************)
(* A Yes or No only ever stands on a market whose two sides were filled to *)
(* the unit before it closed, and whose expiry has passed: an underfunded  *)
(* market cannot be decided, whatever its resolver does and whenever.      *)
(***************************************************************************)
ResolvedOnlyWhenFilled ==
  market.outcome \in Side =>
    /\ market.filled = market.amount
    /\ now >= market.expiry_ts

(***************************************************************************)
(* initialize_market accepts a market whose deadline is beyond u64.  While *)
(* finalize looks at that deadline it returns an error, and with it every  *)
(* deposit and update: no money ever gets into such a market.              *)
(***************************************************************************)
OverflowMarketHoldsNothing ==
  AddOverflows(market.expiry_ts, MAX_DELAY_SEC) =>
    \A s \in Side : market.filled[s] = 0 /\ Total(position[s]) = 0

(***************************************************************************)
(* An error of finalize does not last: it can only come before the closing *)
(* time.  If a market could be filled with a deadline beyond u64, finalize *)
(* would fail after the close as well, for ever, and lock the money in; as *)
(* it stays unfilled, the closing time makes it Invalid, before finalize   *)
(* comes to the addition.                                                  *)
(***************************************************************************)
FinalizeErrorPasses ==
  market.exists /\ FinalizeOverflows(market, now) => now < market.close_ts

(***************************************************************************)
(* The arithmetic the comments call safe is safe: the subtractions and     *)
(* additions of deposit cannot fail, the cast of the winnings to u64 loses *)
(* nothing, and the fee never exceeds the winnings.                        *)
(***************************************************************************)
SafeArithmetic ==
  \A s \in Side :
    /\ market.filled[s] <= market.amount[s]
    /\ \A u \in Users : ~AddOverflows(position[s][u], Left(s))
    /\ Resolved /\ s = market.outcome =>
         \A u \in Users :
           LET share == (position[s][u] * market.amount[Other(s)]) \div market.amount[s]
           IN  /\ Winnings(s, position[s][u]) = share
               /\ share <= market.amount[Other(s)]
               /\ Fee(global_state.fee_cut_bps, share) <= share

(***************************************************************************)
(* The inductive invariant: with it, every step keeps all of the above.    *)
(* The total of the positions is what a single stake is compared with, a   *)
(* final market has an outcome, and no side is filled beyond its amount.   *)
(***************************************************************************)
EscrowInvariant ==
  /\ TypeOK
  /\ market.finalized => market.outcome # "Open"
  /\ \A s \in Side : market.filled[s] <= market.amount[s]
  /\ ResolvedOnlyWhenFilled
  /\ OverflowMarketHoldsNothing
  /\ EscrowHoldsPositions
  /\ Solvency

-----------------------------------------------------------------------------
(***************************************************************************)
(* Once finalize would return true the result is settled, although nothing *)
(* is written on chain until somebody runs an instruction: no later        *)
(* instruction and no passing of time revives the market, changes the      *)
(* outcome it would be given, or lets money in.                            *)
(***************************************************************************)
FinalityIsForever ==
  [][market.exists /\ Due(market, now) =>
       /\ Due(market', now')
       /\ FinalOutcome(market', now') = FinalOutcome(market, now)
       /\ market'.filled = market.filled]_vars

-----------------------------------------------------------------------------
(***************************************************************************)
(* Fairness.  The clock advances.  A user who has money in the market      *)
(* keeps trying to get it out, and for that keeps cranking the market (as  *)
(* update_state allows anyone once it is final) and creates the fee        *)
(* wallet's token account if need be (as the token program allows anyone). *)
(* Nothing is assumed of the resolver, the creator or the owner of the     *)
(* global state beyond its initialization.                                 *)
(***************************************************************************)
\* There is somebody to sign, and something the program can be set up with.
ASSUME FairnessAssumption ==
  Keys # {} /\ \E p \in GlobalParams : BpsNew(p.fee_cut_bps)

Crank == Due(market, now) /\ \E k \in Keys, o \in Outcome : UpdateState(k, o)
GlobalStateIsMade == \E p \in GlobalParams : InitializeGlobalState(p)

KeepsTrying(u) == WF_vars(Withdraw(u)) /\ WF_vars(Claim(u))

UsersKeepTrying == \A u \in Users : KeepsTrying(u)

AccountIsMade(w) == WF_vars(CreateFeeAccount(w))

AccountsAreMade == \A w \in FeeWallets : AccountIsMade(w)

Fairness ==
  /\ WF_vars(Tick)
  /\ WF_vars(GlobalStateIsMade)
  /\ WF_vars(Crank)
  /\ AccountsAreMade
  /\ UsersKeepTrying

FairSpec == Spec /\ Fairness

HasPosition(u) == \E s \in Side : position[s][u] # 0

FeeAccountExists ==
  global_state.exists /\ global_state.fee_wallet \in DOMAIN fee_account

(***************************************************************************)
(* Nobody is locked out: whoever has money in a market that is flagged     *)
(* final can execute the instruction that pays it, not only pass some of   *)
(* its checks, as soon as the fee wallet has its token account; and before *)
(* that the market can be flagged by anyone.  (ENABLED speaks of the whole *)
(* instruction: the constraints on stored accounts, finalize, the          *)
(* arithmetic and each transfer, all of which could reject it.)            *)
(***************************************************************************)
NobodyIsLockedOut ==
  /\ ~global_state.exists => ENABLED <<GlobalStateIsMade>>_vars
  /\ market.exists /\ Due(market, now) /\ ~market.finalized => ENABLED <<Crank>>_vars
  /\ \A u \in Users : market.finalized /\ HasPosition(u) =>
       /\ market.outcome = "Invalid" => ENABLED <<Withdraw(u)>>_vars
       /\ market.outcome # "Invalid" /\ FeeAccountExists => ENABLED <<Claim(u)>>_vars

\* The clock lives to see the last moment at which the market can be open.
DeadlineIsReached == market.expiry_ts + MAX_DELAY_SEC <= MAX_CLOCK

(***************************************************************************)
(* No money stays locked: every position is closed in the end, whether the *)
(* resolver decides, changes its mind until the last moment, or vanishes,  *)
(* and however often the owner moves the fee to another wallet.            *)
(***************************************************************************)
EveryPositionIsClosed ==
  \A u \in Users : (HasPosition(u) /\ DeadlineIsReached) ~> ~HasPosition(u)

(***************************************************************************)
(* And every market whose deadline is reached is flagged final.            *)
(***************************************************************************)
EveryMarketIsFinalized ==
  (market.exists /\ DeadlineIsReached) ~> market.finalized

-----------------------------------------------------------------------------
(***************************************************************************)
(* Statements of the sources that the code does not keep.                  *)
(***************************************************************************)
(***************************************************************************)
(* withdraw.rs:13: "If the market can be auto-finalized, this instruction  *)
(* can do so without a call to [UpdateStatus]."                            *)
(***************************************************************************)
WithdrawNeedsNoUpdate ==
  market.exists /\ Due(market, now) /\ FinalOutcome(market, now) = "Invalid"
    => \A u \in opened : CanWithdraw(u)

(***************************************************************************)
(* initialize_user_position.rs:8: "If it should be finalized, then it      *)
(* finalizes the market and exists early."                                 *)
(***************************************************************************)
PositionInitFinalizes ==
  [][opened' # opened /\ Due(market, now) => market'.finalized]_vars

(***************************************************************************)
(* error.rs:7: "Close timestamp must be greater than the present time."    *)
(***************************************************************************)
CloseIsInTheFuture ==
  [][~market.exists /\ market'.exists => market'.close_ts > now]_vars

=============================================================================
