------------------------------- MODULE Escrow -------------------------------
(***************************************************************************)
(* The hh-escrow program (programs/hh-escrow): one betting market, the     *)
(* positions of its users, its two escrow accounts and the protocol fee.   *)
(*                                                                         *)
(* The chain executes one instruction at a time.  An instruction that      *)
(* returns an error leaves every account as it was, so a rejected          *)
(* instruction is not a step; an accepted one is one action, with all its  *)
(* checks as guards and all its writes and token transfers together.       *)
(*                                                                         *)
(* Users are concurrent in that any of them may run any instruction at any *)
(* time between two instructions of another, and the clock may advance in  *)
(* between.                                                                *)
(***************************************************************************)
EXTENDS Market, Bps, Totals

CONSTANTS
  Users,           \* the keys that hold positions and token accounts
  FeeWallets,      \* the wallets the protocol fee may go to
  InitialWallet,   \* the users' token balances at the start
  MAX_CLOCK,       \* the last timestamp; 2^63 - 1 on chain (Clock is an i64)
  \* The instruction parameters that are tried.
  GlobalParams,    \* of initialize_global_state and set_global_state
  MarketParams,    \* of initialize_market, with its creator
  DepositParams,   \* of deposit
  Donations        \* the amounts sent to an escrow account by a plain transfer

ASSUME EscrowAssumption ==
  /\ IsFiniteSet(Users) /\ Users \subseteq Keys
  /\ InitialWallet \in [Users -> Nat]
  /\ Total(InitialWallet) <= U64_MAX        \* the supply of a mint is a u64
  /\ IsFiniteSet(FeeWallets)
  /\ MAX_CLOCK \in U64 \ {0}
  /\ GlobalParams \subseteq [owner : Keys, fee_cut_bps : Nat, fee_wallet : FeeWallets]
  /\ MarketParams \subseteq
       [creator : Keys, resolver : Keys, amount : [Side -> U64],
        close_ts : U64, expiry_ts : U64, resolution_delay : U64]
  \* The clock is an i64 and the delay a u32: their sum is far below 2^64.
  /\ \A p \in MarketParams : MAX_CLOCK + p.resolution_delay <= U64_MAX
  /\ DepositParams \subseteq [amount : [Side -> U64], allow_partial : BOOLEAN]
  /\ Donations \subseteq Nat \ {0}

VARIABLES
  now,             \* Clock::get()?.unix_timestamp
  global_state,    \* the GlobalState account
  market,          \* the Market account
  opened,          \* the users whose UserPosition account exists
  position,        \* position[s][u]: yes_amount / no_amount of u's UserPosition
  holdings,        \* balances of yes_token_account and no_token_account
  wallet,          \* balance of each user's token account
  fee_account,     \* balances of the fee wallets' associated token accounts,
                   \* of those that exist
  donated          \* history: what was sent to the escrow accounts unasked

accounts == <<global_state, market, opened, position>>
balances == <<holdings, wallet, fee_account, donated>>
vars == <<now, accounts, balances>>

NoPosition == [u \in Users |-> 0]

Init ==
  /\ now = 1
  /\ global_state = [exists |-> FALSE, owner |-> NoKey, fee_cut_bps |-> 0,
                     fee_wallet |-> NoKey]
  /\ market = ZeroMarket
  /\ opened = {}
  /\ position = [s \in Side |-> NoPosition]
  /\ holdings = [s \in Side |-> 0]
  /\ wallet = InitialWallet
  /\ fee_account = [w \in {} |-> 0]
  /\ donated = [s \in Side |-> 0]

-----------------------------------------------------------------------------
(***************************************************************************)
(* The environment: the clock, and what others do with the token program   *)
(* that does not go through hh-escrow.                                     *)
(***************************************************************************)
Tick ==
  /\ now < MAX_CLOCK
  /\ now' = now + 1
  /\ UNCHANGED <<accounts, balances>>

\* Anyone may send tokens to an escrow account; nobody owns them afterwards.
Donate(u, s, n) ==
  /\ market.exists
  /\ wallet[u] >= n
  /\ wallet' = [wallet EXCEPT ![u] = @ - n]
  /\ holdings' = [holdings EXCEPT ![s] = @ + n]
  /\ donated' = [donated EXCEPT ![s] = @ + n]
  /\ UNCHANGED <<now, accounts, fee_account>>

\* Anyone may create the associated token account of a wallet.
CreateFeeAccount(w) ==
  /\ w \notin DOMAIN fee_account
  /\ fee_account' = [x \in DOMAIN fee_account \cup {w} |->
                       IF x = w THEN 0 ELSE fee_account[x]]
  /\ UNCHANGED <<now, accounts, holdings, wallet, donated>>

-----------------------------------------------------------------------------
(***************************************************************************)
(* The global state.  That the signer of the first instruction is the      *)
(* program's upgrade authority is a check on an account nothing else uses. *)
(***************************************************************************)
StoreGlobal(p) ==
  /\ BpsNew(p.fee_cut_bps)
  /\ global_state' = [exists |-> TRUE, owner |-> p.owner,
                      fee_cut_bps |-> p.fee_cut_bps, fee_wallet |-> p.fee_wallet]

InitializeGlobalState(p) ==
  /\ ~global_state.exists
  /\ StoreGlobal(p)
  /\ UNCHANGED <<now, market, opened, position, balances>>

SetGlobalState(signer, p) ==
  /\ global_state.exists
  /\ signer = global_state.owner
  /\ StoreGlobal(p)
  /\ UNCHANGED <<now, market, opened, position, balances>>

-----------------------------------------------------------------------------
(***************************************************************************)
(* The market account, its acknowledgement and the user positions.         *)
(***************************************************************************)
InitializeMarket(p) ==
  /\ ~market.exists
  /\ \A s \in Side : p.amount[s] # 0
  /\ now <= p.close_ts
  /\ p.close_ts <= p.expiry_ts
  /\ market' = [ZeroMarket EXCEPT
       !.exists = TRUE, !.creator = p.creator, !.resolver = p.resolver,
       !.amount = p.amount, !.close_ts = p.close_ts, !.expiry_ts = p.expiry_ts,
       !.resolution_delay = p.resolution_delay]
  /\ UNCHANGED <<now, global_state, opened, position, balances>>

\* Bug: the signer is not compared with the resolver.
ResolverAcknowledgeAnyone(signer) ==
  /\ market.exists
  /\ market' = [market EXCEPT !.acknowledged = TRUE]
  /\ UNCHANGED <<now, global_state, opened, position, balances>>
ResolverAcknowledge(signer) ==
  /\ market.exists
  /\ signer = market.resolver
  /\ market' = [market EXCEPT !.acknowledged = TRUE]
  /\ UNCHANGED <<now, global_state, opened, position, balances>>

InitializeUserPosition(u) ==
  /\ market.exists
  /\ u \notin opened
  /\ opened' = opened \cup {u}
  /\ UNCHANGED <<now, global_state, market, position, balances>>

-----------------------------------------------------------------------------
(***************************************************************************)
(* Deposit.  Both sides are capped at what is left to fill; without        *)
(* allow_partial a deposit above that is rejected.  All of the arithmetic  *)
(* is checked, and rejects the deposit when it fails.                      *)
(***************************************************************************)
Left(s) == market.amount[s] - market.filled[s]

\* Bug: only the closing time is checked.
CanDepositUnfinalized(p) ==
  /\ now < market.close_ts
  /\ \A s \in Side : Left(s) >= 0
  /\ p.allow_partial \/ \A s \in Side : p.amount[s] <= Left(s)
CanDeposit(p) ==
  /\ now < market.close_ts
  /\ NotDue(market, now)
  /\ \A s \in Side : Left(s) >= 0
  /\ p.allow_partial \/ \A s \in Side : p.amount[s] <= Left(s)

\* Bug: a partial deposit is capped on the side that has more room.
ToDepositEitherSide(p, s) ==
  Lesser(p.amount[s], IF Left("Yes") <= Left("No") THEN Left("No") ELSE Left("Yes"))
ToDeposit(p, s) == Lesser(Left(s), p.amount[s])

Deposit(u, p) ==
  LET deposit == [s \in Side |-> ToDeposit(p, s)]
  IN
  /\ market.exists
  /\ u \in opened
  /\ CanDeposit(p)
  /\ \A s \in Side : /\ ~AddOverflows(position[s][u], deposit[s])
                     /\ ~AddOverflows(market.filled[s], deposit[s])
  /\ wallet[u] >= deposit["Yes"] + deposit["No"]
  /\ market' = [market EXCEPT !.filled = [s \in Side |-> @[s] + deposit[s]]]
  /\ position' = [s \in Side |->
                    [position[s] EXCEPT ![u] = position[s][u] + deposit[s]]]
  /\ holdings' = [s \in Side |-> holdings[s] + deposit[s]]
  /\ wallet' = [wallet EXCEPT ![u] = @ - deposit["Yes"] - deposit["No"]]
  /\ UNCHANGED <<now, global_state, opened, fee_account, donated>>

-----------------------------------------------------------------------------
(***************************************************************************)
(* Update of the outcome.  A market that is final is only flagged so, and  *)
(* then anyone may be the signer.                                          *)
(***************************************************************************)
\* Bug: an update is applied although the market is already final.
UpdateStateAlways(signer, outcome) ==
  /\ market.exists
  /\ signer = market.resolver
  /\ LegalUpdate(market, now, outcome)
  /\ market' = Updated(market, now, outcome)
  /\ UNCHANGED <<now, global_state, opened, position, balances>>
UpdateState(signer, outcome) ==
  /\ market.exists
  /\ \/ /\ Due(market, now)
        /\ market' = Finalize(market, now)
     \/ /\ NotDue(market, now)
        /\ signer = market.resolver
        /\ LegalUpdate(market, now, outcome)
        /\ market' = Updated(market, now, outcome)
  /\ UNCHANGED <<now, global_state, opened, position, balances>>

-----------------------------------------------------------------------------
(***************************************************************************)
(* Withdraw, from a market that ended Invalid.  The account constraint     *)
(* reads the stored outcome, before finalize runs.                         *)
(***************************************************************************)
CanWithdraw(u) ==
  /\ market.exists
  /\ u \in opened
  /\ market.outcome = "Invalid"
  /\ Due(market, now)

\* Bug: only the Yes side of the position is reset.
ClearedPositionYesOnly(u) == [position EXCEPT !["Yes"][u] = 0]
ClearedPosition(u) == [s \in Side |-> [position[s] EXCEPT ![u] = 0]]

\* Bug: the position is not reset.
WithdrawKeepsPosition(u) ==
  /\ CanWithdraw(u)
  /\ \A s \in Side : holdings[s] >= position[s][u]
  /\ market' = Finalize(market, now)
  /\ holdings' = [s \in Side |-> holdings[s] - position[s][u]]
  /\ wallet' = [wallet EXCEPT ![u] = @ + position["Yes"][u] + position["No"][u]]
  /\ UNCHANGED <<now, global_state, opened, position, fee_account, donated>>
Withdraw(u) ==
  /\ CanWithdraw(u)
  /\ \A s \in Side : holdings[s] >= position[s][u]
  /\ market' = Finalize(market, now)
  /\ position' = ClearedPosition(u)
  /\ holdings' = [s \in Side |-> holdings[s] - position[s][u]]
  /\ wallet' = [wallet EXCEPT ![u] = @ + position["Yes"][u] + position["No"][u]]
  /\ UNCHANGED <<now, global_state, opened, fee_account, donated>>

-----------------------------------------------------------------------------
(***************************************************************************)
(* Claim, on a market that ended Yes or No.  A winner gets the stake back  *)
(* and a share of the other side's pool, less the protocol fee.            *)
(***************************************************************************)
\* Bug: the share is rounded up.
WinningsRoundedUp(won, stake) ==
  AsU64(DivCeil(stake * market.amount[Other(won)], market.amount[won]))
\* Bug: the division comes first.
WinningsDivideFirst(won, stake) ==
  AsU64(stake * (market.amount[Other(won)] \div market.amount[won]))
Winnings(won, stake) ==
  AsU64((stake * market.amount[Other(won)]) \div market.amount[won])

\* Bug: the fee is paid on top of the winnings.
RemainingWithFee(winnings, fee) == winnings
Remaining(winnings, fee) == IF fee <= winnings THEN winnings - fee ELSE 0

\* The fee wallet's token account has to exist even if no fee will be due.
CanClaim(u) ==
  /\ global_state.exists
  /\ global_state.fee_wallet \in DOMAIN fee_account
  /\ market.exists
  /\ u \in opened
  /\ Due(market, now)
  /\ FinalOutcome(market, now) \in Side

\* The three transfers of a claim with a winning stake.
PayWinner(u, won, stake) ==
  LET lost == Other(won)
      winnings == Winnings(won, stake)
      fee == Fee(global_state.fee_cut_bps, winnings)
      remaining == Remaining(winnings, fee)
  IN
  /\ holdings[lost] >= fee + remaining
  /\ holdings[won] >= stake
  /\ holdings' = [s \in Side |-> IF s = won THEN holdings[s] - stake
                                 ELSE holdings[s] - fee - remaining]
  /\ wallet' = [wallet EXCEPT ![u] = @ + remaining + stake]
  /\ fee_account' = [fee_account EXCEPT ![global_state.fee_wallet] = @ + fee]

Claim(u) ==
  LET won == FinalOutcome(market, now)
      stake == position[won][u]
  IN
  /\ CanClaim(u)
  /\ market' = Finalize(market, now)
  /\ position' = ClearedPosition(u)
  /\ \/ stake = 0 /\ UNCHANGED <<holdings, wallet, fee_account>>
     \/ stake # 0 /\ PayWinner(u, won, stake)
  /\ UNCHANGED <<now, global_state, opened, donated>>

-----------------------------------------------------------------------------
Next ==
  \/ Tick
  \/ \E u \in Users, s \in Side, n \in Donations : Donate(u, s, n)
  \/ \E w \in FeeWallets : CreateFeeAccount(w)
  \/ \E p \in GlobalParams : InitializeGlobalState(p)
  \/ \E k \in Keys, p \in GlobalParams : SetGlobalState(k, p)
  \/ \E p \in MarketParams : InitializeMarket(p)
  \/ \E k \in Keys : ResolverAcknowledge(k)
  \/ \E u \in Users : InitializeUserPosition(u)
  \/ \E u \in Users, p \in DepositParams : Deposit(u, p)
  \/ \E k \in Keys, o \in Outcome : UpdateState(k, o)
  \/ \E u \in Users : Withdraw(u)
  \/ \E u \in Users : Claim(u)

Spec == Init /\ [][Next]_vars

=============================================================================
