# Verification of the Hedgehog escrow programs

The repository holds two Solana programs and a library:

- `programs/hh-escrow` keeps betting markets. A market has two sides, Yes and
  No, each to be funded with a fixed amount; users deposit on either side, a
  resolver sets the outcome, and the winners share the losers' pool.
- `programs/hyperspace-resolver` is one kind of resolver: it decides a market
  by the floor price of an NFT project, and calls the escrow program.
- `libs/common` has the basis-point and rounding arithmetic, macros and a mock
  clock.

This directory holds TLA+ modules that model them, TLC configurations that
check the models on small instances, and proofs, checked by TLAPS, that the
most important properties hold for every value of the constants.

## 1. Inventory

| Component | State | Operations | Modelled in |
|---|---|---|---|
| Market lifecycle (`state/market.rs`, `initialize_market`, `update_state`, `resolver_acknowledge`) | the `Market` account: amounts, filled, three timestamps, resolution delay, outcome, two flags | create, set outcome, finalize, acknowledge | `Market`, `Escrow` |
| Positions and deposits (`initialize_user_position`, `deposit`) | a `UserPosition` per user; two escrow token accounts | open, deposit in full or in part | `Escrow` |
| Payouts (`withdraw`, `claim`) | as above, and the fee wallet's token account | refund an Invalid market; pay a Yes/No market | `Escrow` |
| Global state (`initialize_global_state`, `set_global_state`) | owner, fee, fee wallet | set once; changed by the owner at any time | `Escrow` |
| Fee arithmetic (`libs/common/src/bps.rs`, `math.rs`) | none | `Bps::new`, `get`, `fee`, `fee_received`, `div_ceil` | `Bps` |
| Hyperspace resolver | the `NftFloor` account: authority, market, floor price, project, acknowledged flag; its lamports | initialize, acknowledge, resolve | `NftFloor` |
| URI resource (`state/uri.rs`) | an opaque string in a fixed number of bytes | length check | no: one check on a value nothing reads |
| Errors, entry points, layout macros | none | dispatch | `Next` of `Escrow` stands for the dispatch |
| SPL token program, runtime, clock | token balances, time | transfer, tick | as far as `Escrow` and `NftFloor` use them |
| `common` macros, traits, mock clock; TypeScript scripts, migrations and tests; patches, lock files, fixtures | none of the programs' | | no |

**Interaction.** The programs are passive: any account may send any
instruction, the runtime runs them one at a time, and one that fails changes
nothing. They share the market account, the two escrow token accounts (whose
authority is a program address), the global state and the clock. The users'
token accounts and the escrow accounts live in the token program, so others
may change them between two instructions; they may *add* to an escrow account
but not take from it. The resolver program calls `resolver_acknowledge` and
`update_state` of the escrow program, signing as its own program address (PDA).
`claim` wants the associated token account of whatever fee wallet the global
state names, which anybody may create and nobody has to.

**What is hard.** Nothing runs on its own. A market becomes final because time
passes (`Market::finalize`), but this is recorded only when some instruction
happens to call `finalize`. Until then the account shows an open market, and
each instruction has to derive the truth anew. On top of it:

- the resolver may answer, change its mind, answer late, or never;
- deposits of several users compete for the last units of a side;
- claims are rounded one by one and may come in any order, with the fee
  changing in between;
- the resolver program reports through a call that succeeds silently on a
  market that is final already;
- its account may hold lamports before it is created, and is then put together
  in three calls;
- `finalize` itself can fail, on timestamps near the end of `u64`: until the
  close on a market that is not filled, and for ever on one that is, if there
  could be one;
- the arithmetic uses unchecked operations that are undefined behaviour outside
  their range, and a narrowing cast.

`PROJECT.json` lists these hazards one by one, at their lines.

**What correctness means**, per component:

- *Market*: once final, always final, with the same outcome; Yes or No only
  for a filled market after its expiry; not before the time to object is over.
- *Deposits and payouts*: the escrow accounts hold the open positions and no
  less than the unclaimed shares; no payment fails for want of tokens; nothing
  but dust is left over; no position is locked for ever.
- *Fee*: equal to the exact quotient rounded up, never above the winnings, no
  undefined behaviour; each fee wallet gets what is due to it and no more.
- *Resolver*: the outcome is what the last report in time says, on terms that
  never change, and nobody is paid on anything else; the acknowledgement
  depositors see means the terms are on chain.
- *Altogether*: to the bettors the program is a parimutuel market that is
  settled once and pays each of them once, exactly.

## 2. The modules

| Module | Content |
|---|---|
| `U64` | the machine word, of parametric width `U64_MAX` |
| `Bps` | `Bps::fee` and `fee_received` in word arithmetic, the reference quotient, and the ranges of all intermediate results |
| `Market` | the account; `finalize` split into its three results (`FinalizeOverflows`, `Due`, `NotDue`) and its effect (`FinalOutcome`, `Finalize`); the legal updates |
| `Totals` | the sum of a finite table, as the cardinality of a set of units |
| `Escrow` | the state machine, one action per instruction, `Tick`, `Donate` |
| `EscrowProperties` | its invariants, action properties, fairness and liveness; three statements of comments |
| `EscrowWindow` | `Escrow` with an observer that notes when the outcome last changed |
| `EscrowLedger` | `Escrow` with an observer that keeps the books: what each user bet and gave away, and the fee rate and the fee wallet when the user was paid |
| `Parimutuel` | the abstract contract: two pools with targets, stakes, one result, refunds and payouts; no clock, accounts, signers or flags |
| `EscrowContract` | the refinement mapping from `Escrow` to `Parimutuel` |
| `NftFloor` | the resolver program composed with `Escrow`; its properties |
| `MCEscrow`, `MCWindow`, `MCLedger`, `MCContract`, `MCFloor`, `MCFloorDoc`, `MCBps` | small instances |
| `ArithmeticProofs`, `MCBpsProofs`, `MarketProofs` | theorems about sums, quotients, the fee, and `finalize` |
| `EscrowProofs`, `EscrowLivenessProofs`, `EscrowObserverProofs` (both observers), `EscrowContractProofs` (with the token supply), `NftFloorProofs` | theorems about the specifications |

How `Escrow` corresponds to the code:

| Variable | Code |
|---|---|
| `now` | `Clock::get()?.unix_timestamp` |
| `global_state`, `market` | the accounts of the same names; a pair `yes_x`/`no_x` is a function of the side; `exists` says the account is initialised |
| `opened`, `position` | which `UserPosition` accounts exist, and their amounts |
| `holdings` | `amount` of `yes_token_account`, `no_token_account` |
| `wallet` | the users' token accounts |
| `fee_account` | the associated token accounts of the fee wallets, of those wallets whose account exists |
| `donated` | history: what was sent to the escrow accounts outside the program |

| Action | Code |
|---|---|
| `InitializeGlobalState`, `SetGlobalState` | the handlers of these names |
| `InitializeMarket` | `initialize_market.rs`, with `validate_ts` and the amount checks |
| `ResolverAcknowledge` | `resolver_acknowledge.rs` |
| `InitializeUserPosition` | `initialize_user_position.rs`; it does not call `finalize` |
| `Deposit` | `deposit.rs`: closing time, `finalize` returned false, capping, checked additions, two transfers |
| `UpdateState` | `update_state.rs`: a due market is finalized for any signer, otherwise `can_update` |
| `Withdraw`, `Claim` | `withdraw.rs`, `claim.rs`: constraints, `finalize`, reset of the position, transfers |
| `Tick`, `Donate`, `CreateFeeAccount` | the clock; a plain token transfer to an escrow account; the creation of a fee wallet's token account, by anyone |

An instruction that returns an error is no step: the runtime rolls it back. So
a guard of an action is the conjunction of everything in the handler, its
account constraints and its transfers that may fail. This includes the order
of reads where it matters: `Withdraw` tests the *stored* outcome, as the
account constraint at `withdraw.rs:50` does before the handler runs
`finalize`; `Claim` tests the outcome that `finalize` leaves.

How `NftFloor` corresponds to the resolver program:

| Variable, action | Code |
|---|---|
| `nft_floor` | the `NftFloor` account at the PDA of the market; its `market` field is the one market there is |
| `lamports` | the native balances of the resolver account and of those who may pay for it |
| `reported` | history: the last report made while the market was not final |
| `InitializeNftFloor` | `initialize_nft_floor.rs`: constraints, `init_resolver` (create, or top up, allocate and assign), the fields, and the call of `resolver_acknowledge` as the action of `Escrow` signed by the PDA |
| `AcknowledgeNftFloor` | `acknowledge_nft_floor.rs` |
| `ResolveNftFloor` | `resolve_nft_floor.rs`: constraints, expiry, the outcome, and the call of `update_state` as the action of `Escrow` signed by the PDA |
| `EscrowStep` | any instruction of the escrow program sent to it directly, by any signer but the PDA |
| `SendLamports` | a plain transfer to the resolver account, before or after its creation |

Each instruction is one action, the calls it makes included: a program that
fails, or calls one that fails, changes nothing.

How `Escrow` implements `Parimutuel`: stakes are the positions, pools the
escrow accounts, fees the total of the fee accounts. The result is not the
stored outcome but `Result`, what `finalize` would say at this moment. So it is
the *clock* that settles a market, in most cases; the instruction that writes
the result down later, changes of mind by the resolver, flags and
acknowledgements are stutters. An update can settle a market as well (with a
resolution delay of zero), and a market that closes as it is created is settled
by `initialize_market`. What a claim pays, in word arithmetic with a
cast and a rounded fee, must be the exact share of the contract.

Operators with `\* Bug:` above them are plausible mistakes at that place
(rounding up, a missing reset, a dropped check). No specification uses them;
each is there to be put in the place of the operator after it, to see that a
property notices.

## 3. What is checked

| Run | Shows | Distinct states |
|---|---|---|
| `escrow_safety` (`MCEscrow.cfg`) | the type invariant and the safety properties below, and that finality is for ever | 399,518 |
| `escrow_liveness` (`MCEscrowLive.cfg`) | nobody is locked out of a payment; every position is closed and every market finalized in the end | 20,940 |
| `escrow_window` (`MCWindow.cfg`) | `TimeToObject` | 44,808 |
| `escrow_ledger` (`MCLedger.cfg`) | `EverybodyGetsTheirDue`, `ProtocolGetsItsDue`, `RoundingDust` | 398,140 |
| `escrow_contract` (`MCContract.cfg`) | `Escrow` implements `Parimutuel` | 138,780 |
| `nft_floor` (`MCFloor.cfg`) | the properties of the resolver and of what is paid on its reports | 137,268 |
| `fee_exhaustive` (`MCBps.cfg`) | the fee of every amount at every rate | 1,111 |
| `withdraw_doc`, `position_doc`, `close_doc`, `nft_floor_doc` | four comments the code does not keep; TLC shows how | |

The properties, all in `EscrowProperties` unless said otherwise:

- `EscrowHoldsPositions`: each escrow account holds the open positions of its
  side and the donations, exactly, except the losing one of a resolved market.
- `Solvency`: that one covers the unclaimed shares of all winners together.
- `PayoutsCovered`: whoever passes the checks of `withdraw` or `claim` is paid;
  for a claim the losing account holds the fee and the rest together.
- `ResolvedOnlyWhenFilled`: Yes or No only on a market filled to the unit.
- `OverflowMarketHoldsNothing`: a market whose deadline overflows holds no money.
  (`initialize_market` accepts such an expiry; it is the call of `finalize` in
  `deposit` that keeps money out.)
- `FinalizeErrorPasses`: an error of `finalize` is over at the closing time.
  `finalize` tests for an unfilled market before it adds, so a market that nobody
  could deposit in becomes Invalid at the close. On a filled one the error would
  stay, and the money with it.
- `SafeArithmetic`: the additions and subtractions of `deposit` cannot fail and
  the cast in `claim` loses nothing.
- `FinalityIsForever`: when `finalize` would return true, no later instruction
  and no passing of time changes the result. This is the property that makes
  the lazy finalization sound.
- `TimeToObject` (`EscrowWindow`): a filled market is final only after its
  outcome stood unchanged for the resolution delay, or past the last deadline.
  The observer looks at the outcome alone, not at `outcome_ts`.
- `EverybodyGetsTheirDue` (`EscrowLedger`): what each user has at any moment, to
  the unit, from the user's own bets, the result, and the fee in force when the
  user claimed. The program forgets a bet when it pays it, so this needs the
  books of an observer. It implies that others, their order and later changes of
  the fee make no difference.
- `ProtocolGetsItsDue` (`EscrowLedger`): a fee wallet holds exactly the fees, at
  the rate of that moment, of those who claimed while it was the fee wallet: no
  fee on a refund, no second one on a repeated claim, and what is earned stays
  where it is when the owner names another wallet.
- `RoundingDust` (`EscrowLedger`): what the winners paid so far have left in the
  losing account by rounding is less than one unit for each of them. Whom to
  count is in the books of the observer: losers and users who never bet leave no
  dust.
- `NobodyIsLockedOut`: whoever has money in a flagged market can execute, in one
  step and without anybody else's help, the instruction that pays it (given the
  fee wallet's token account); and a market that is due can be flagged by anyone.
- `EveryPositionIsClosed`, `EveryMarketIsFinalized`: no money stays locked.
- `ImplementsContract` (`EscrowContract`): the refinement above. It excludes a
  second settlement or payment, a deposit after the settlement, a pool filled
  above its target, and any payment other than the exact share less a fee that
  is at most the share. (That the fee is the right one is `FeeMatchesReference`.)
- `OutcomeFollowsReport` (`NftFloor`): the outcome of a market with this
  resolver is at all times what the last report in time says, measured against
  the floor price now in the account; without one it is Open, or Invalid by
  finalization. A report that arrives on a final market changes nothing.
- `ReportStands`: a market is final with a report only after that report stood
  unchanged for the resolution delay, or past the last deadline. A repeated
  report starts the delay again.
- `PaidAsReported`: a claim or withdrawal that closes a position is made on what
  the last report in time says, or on Invalid without one, also when that very
  instruction is what flags the market.
- `AcknowledgedMeansInitialized`: the acknowledgement in the market and the
  existence of the terms go together, in both directions.
- `TermsAreFixed`: floor price, collection and authority are written once.
- `AccountIsRentExempt`: however the account came to its lamports.
- `FeeMatchesReference`, `NoUndefinedBehaviour` (`MCBps`): the computation in
  words agrees with the wide one, and no unchecked operation leaves the word.

**Bounds.** The instances are small, but each bound has a reason:

- *Two users* with three units each, on a market of 2 and 3 units: neither can
  fill it alone, together they can, in many ways and with losers among them.
  2 and 3 give fractional shares in both directions. These amounts keep away
  from the end of the word: that the additions and the cast are safe up to it is
  what the theorem `ArithmeticIsSafe` adds to the run.
- *`U64_MAX` 255, `BPS_MAX` 10*: the word must hold `BPS_MAX * BPS_MAX`, as the
  `static_assert` of `Bps::fee` demands. Fees of 3 and 10 of 10 are tried and
  11, which must be refused. One market expires at 254, so that its deadline
  overflows the word. `MCBps` uses the narrowest word allowed, 100.
- *Time*: `MAX_DELAY_SEC` is 2 or 3 where the code has 30 days. `MAX_CLOCK`
  lies past the last deadline of the markets that are to reach it. Resolution
  delays lie at zero, below and above `MAX_DELAY_SEC`; closing times at, and
  after, the present; expiry at, one after, and well after the close.
- *Donations* of one unit, in any state with a wallet that has it.
- *Fee wallets*: two in the liveness run, with an owner who may move the fee
  between them at any moment; neither has a token account at first.
- *Ledger*: one market of 2 and 3 units that both users fill together, so that
  there are bets on both sides and two winners with rounded shares; a fee of
  30% to one wallet and of 100% to another, changed at any time.
- *Liveness, contract, observer of the outcome*: deposits with which both users
  bet on both sides, so that both win, with rounded shares, or one of them bets
  on No alone. In the liveness run the second user has two units only, so that
  the market is filled with all they have. For the contract a market that fails at once, one with and one without a delay.
- *Resolver*: reports below and at the floor price, and none at all, made at
  any time and in any order; terms with two authorities (the creator and the
  user), two floor prices and two project IDs. The rent is 2 or 4 and the
  creator has 3, so that the longer ID can be paid for only if somebody sent
  lamports to the account before. One market of three has an ordinary key as
  its resolver. The user can fill the market alone here. `MAX_DELAY_SEC` is 3
  and the longest resolution delay 2, so that a second report falls into the
  delay of the first, with room before the last deadline.

`MAX_CLOCK` stops the clock, not the instructions: `set_global_state` by the
owner and `resolver_acknowledge` by the resolver are accepted at any time, so no
state is a deadlock, and deadlock is checked in every run. The symmetry of the two users is
used in safety runs only.

**Fairness** (`FairSpec`). Weak fairness of: the clock; the owner's first
initialization of the global state, without which `claim` has no account to
read; each user's `withdraw` and `claim`; the creation of a fee wallet's token
account; and `update_state` on a market that is due (`Crank`). The code
justifies the last two: `update_state` looks at the signer only if the market is
not final, and the associated token program lets anyone create such an account,
so a user who wants the money can run both. Weak fairness is enough although
the owner may move the fee to a wallet without an account: there are finitely
many wallets and an account that exists stays. (The last is an assumption about
the surroundings: the owner of a token account can close an empty one or hand it
to somebody else. The models leave this out: claims then fail until it is
made anew, or handed back.) Nothing is assumed of the resolver,
the creator, other users, or the owner later on. The crank is needed: a market that nobody resolved keeps the stored
outcome `Open`, and `withdraw` alone refuses it (see below).

**Where comments and code part.**

- `withdraw.rs:13` says that a market that can be auto-finalized needs no
  separate update before a withdrawal. The constraint at line 50 reads the
  outcome before `finalize` runs, so it does need one.
- `initialize_user_position.rs:8` says the instruction finalizes a market that
  should be final. It does not touch the market.
- `error.rs:7` says the closing time must be greater than the present. A
  closing time equal to it is accepted. (Nothing can be deposited then, since
  `deposit` wants a time before it.)
- `nft_floor.rs:9` says the market is resolved by the floor price at a
  timestamp of the account. There is no such field: it is resolved by the price
  the authority reports, at any time after the expiry and again until the market
  is final. `MCFloorDoc` has a truthful authority and a price that drops.
- Not a run, because it concerns no behaviour: the safety comment at
  `libs/common/src/bps.rs:36` names the wrong direction, it should read `bps > 10000`.

## 4. What is proved

The proofs assume of the constants what the named `ASSUME`s say: `U64_MAX` is a
natural number, at least `BPS_MAX` squared; users are finitely many and their
tokens fit a word (the supply of a mint is a `u64`); instruction parameters have
their types; the clock plus a resolution delay does not overflow (an `i64`
and a `u32`); and, for `NobodyIsLockedOut` and liveness only, somebody can sign
and some legal fee exists to set the program up with (`FairnessAssumption`). Users, amounts, times, markets and fees are otherwise arbitrary.

`EscrowProofs` proves that `EscrowInvariant` is inductive. None of the safety
properties is so alone; its parts lean on each other:

- *filled never exceeds the amount*: needed for a side that is not underfunded
  to be filled exactly;
- *ResolvedOnlyWhenFilled*: makes the winners' total equal to the winning
  amount at the moment of finalization, hence the sum of the shares equal to
  the losing pool;
- *a final market is not Open*: lets the cases of a final market be Invalid or
  a side;
- *EscrowHoldsPositions*: turns totals of positions into balances;
- *OverflowMarketHoldsNothing*: not needed by the others, but no consequence of
  them either: it holds because every deposit had to call `finalize`. With
  `TimesFit`, that an `outcome_ts` plus the resolution delay fits the word, it
  gives `FinalizeErrorsPass`;
- *Solvency*: kept by a claim because its share is rounded down (`ShareBounds`,
  `SharesLeave`) and its payment adds up to that share (`PaymentAddsUp`, from
  `FeeIsExact`).

From it follow, as theorems of `Spec`: `InvariantHolds`, `TypeCorrect`,
`EscrowIsExact`, `MarketIsSolvent`, `OnlyFilledMarketsResolve`,
`NoMoneyInOverflowMarket`, `FinalizeErrorsPass`, `PayoutsAreCovered`, `ArithmeticIsSafe`, and the
action property `FinalityHolds`. The last rests on `DueIsStable` of
`MarketProofs`: time alone never revives a market.

`EscrowObserverProofs` proves `TimeToObject` by an invariant that ties the
observer's `since` to the program's `outcome_ts`: as long as a market with an
outcome is not flagged, `since` is not later than `outcome_ts`; once it is
flagged, what the delay was good for is remembered.

The same module proves `EverybodyGetsTheirDue`. Alone it is not inductive: it
says nothing of the relation between a position and the bets in the books. The
invariant adds `BetStands`: until the market is flagged every position is the
sum of the user's bets, and an open position is that to the end. A claim then
pays what is due because the winnings are the exact share (`ClaimIsCovered`,
where the cast loses nothing), the fee is the exact fee (`FeeIsExact`), and the
two parts add up. For a user who never bet the flag changes which equation
applies; both agree, since nothing is won with nothing (`NothingFromNothing`). So a
step that touches neither the position nor the wallet of a user keeps the user's
account in order, whether it leaves the result alone or makes it (`Bystander`).

From the same invariant follows `ProtocolGetsItsDue`, with the books of the fee:
what a wallet is owed is a sum over the users, each of whom owes it nothing until
the claim. A market that becomes final lets the formula for the fee apply to users
who never bet; it is zero for them. The claim that closes a position changes
one term of the sum by the fee and one wallet by the same, and since the books
note the wallet at that moment, a later `set_global_state` changes neither.

The books give an upper bound dual to `Solvency`, too (`DustIsBounded`).
`RoundingDust` states it in whole numbers: what the losing account holds beyond
the donations, times the winning amount, is at most the unclaimed stakes times
the losing amount, plus `amount - 1` for each winner paid. A share times the
amount is less than its exact value by at most `amount - 1` (`ShareIsLarge`), so a
winner's claim keeps the bound; a loser's claim moves nothing out of the pool,
and does not count. It gives `AllIsPaidOut`: when the last winner has claimed, the
winning account holds nothing but donations, and the losing one nothing more, or
less than one unit more for each winner.

`EscrowContractProofs` proves that every step of `Escrow` is a step of
`Parimutuel` or a stutter, one lemma per kind of step. The inductive invariant
supplies what the guards of the contract ask for: filled pools at a settlement
for a side (`ResolvedOnlyWhenFilled`), positions that sum to what was filled,
payments that are covered, and `FinalityHolds` for a result that never changes.

The contract only moves tokens, so `NoTokenIsLost` is proved of the contract, action
by action, and carried over: wallets, escrow and fee accounts together always
hold what the users had at the start. Hence every balance fits a `u64`
(`BalancesAlwaysFit`), and the check with which the token program receives a
transfer cannot fail; that is why no action of `Escrow` has a guard for it.
These two are no properties of a run: any payment that moves tokens by
transfers keeps them, right or wrong.

In `NftFloor` every step is an action of `Escrow` or leaves its variables alone, by
construction (the lemma `FloorImplementsEscrow`), which gives the invariant of
`Escrow` for the composition at no cost. `NftFloorProofs` then proves that
`FloorInvariant` is inductive relative to it. The additional conjunct is that
a report in time implies both sides filled: it was made after the closing time
and was not rejected, and only therefore can a later `finalize` not replace the
outcome by Invalid.

Two results come from that lemma by composition: `FloorKeepsContract`, both
programs together implement `Parimutuel`, and `FloorClosesPositions`, the
liveness of `Escrow` for a market under this resolver. `ReportAlwaysStands` needs
no invariant beyond `FloorInvariant`: while the market is not flagged, the market's
`outcome_ts` is the time of the last report and `finalize` reads the delay from
there; the step that flags it finds it due, so what `finalize` read then is what
holds for ever after. `PaymentsFollowReport` joins the two halves of a claim on a
market not yet flagged: the step that closes a position leaves the market final
(`ClosingFinalizes`), and the outcome `finalize` gives it is the one reported,
because a report in time implies a filled market (`FinalizeGivesReport`).

`EscrowLivenessProofs` proves `NobodyIsLockedOut` and the two liveness properties
for all constants:

    Spec /\ []ReadyMeansEnabled => []NobodyIsLockedOut
    FairSpec /\ []ReadyMeansEnabled /\ SurroundingsMoveOn => EveryPositionIsClosed

and the second in the same form for `EveryMarketIsFinalized`. The first rests on
`FinalMarketPaysOut`: whoever has money in a flagged market passes every guard of
the instruction that pays it, transfers and fee included. That a step whose
guards hold is `ENABLED` is the premise `ReadyMeansEnabled`, because the provers do
not know what `ENABLED` means. What it means is that there is a successor, and that
there is one is a theorem: `ReadyHasASuccessor` writes down, for each of the
instructions, the state after it, and shows that to go there from a reachable
state in which the guards hold *is* the instruction, and changes something. So
the premise follows from the definition of `ENABLED` alone and is true in every
behaviour of `Spec`. `PremiseIsChecked` shows that it also follows from
`NobodyIsLockedOut`, so the run `escrow_liveness` checks it on the small instance.

The argument for liveness is the one a reader would give. When the clock is at
its end, a market whose deadline is within the clock is due (`MarketBecomesDue`),
and due it stays, by the invariant and `FinalityHolds`. The crank is then
executable until the market is flagged, so by weak fairness somebody flags it
(`DueMarketIsFlagged`). The flag stays, and so does the outcome, so each user's
`withdraw` or `claim` stays executable until it is executed (`FlaggedInvalidPays`,
`FlaggedDecidedPays`), and executing it closes the position. For a claim the fee
wallet's account must exist from some time on, whichever wallet that is
(`FeeAccountComes`).

The premise `SurroundingsMoveOn` is about the surroundings only: that the clock
comes to its end, and that each fee wallet has an account from some time on. Weak
fairness of `Tick` and `CreateFeeAccount` implies it, whatever the program does, so
it is neither a property of a run nor listed as a theorem. Two lemmas take the
single steps, `TimePasses` and `FeeAccountsAreMade` (under the same reading of
`ENABLED`, `SurroundingsReady` with `SurroundingsHaveASuccessor`). What is missing is
the induction over the clock and over the finite set of wallets, which these
provers cannot do about temporal formulas.

`MCBpsProofs` carries the laws of the fee over to the properties of the
exhaustive run.

`ArithmeticProofs` shows that the word-sized fee is the exact quotient rounded up and
at most the amount (`FeeIsExact`), and that no unchecked operation leaves the
word (`FeeNeverOverflows`), for every width the `static_assert` allows.
The same module derives the law of sums that the other proofs need (the lemma
`TotalUpdate`) from laws of cardinality. `Total` is defined through a cardinality rather than a recursion
because the provers cannot do induction over data.

Only model-checked:

- that `EveryPositionIsClosed` and `EveryMarketIsFinalized` hold without the premises
  `ReadyMeansEnabled` and `SurroundingsMoveOn`;
- the disagreements with comments, which are counterexamples.

All properties of the passing runs are proved: the invariants, action properties
and the refinement as they stand, except `NobodyIsLockedOut`, which has the meaning
of `ENABLED` as its premise; and the two liveness properties from that premise and
from `SurroundingsMoveOn`.

## 5. What is not modelled

- More than one market, or mint. Markets share wallets, clock, global state and
  fee accounts; what keeps them apart are the address checks of the next item,
  which the models take as given, so a model of two markets would show nothing
  that is not put into it.
- Checks that relate accounts to each other (program addresses, bumps, mints,
  token-account owners): an instruction gets the accounts these checks admit.
- The upgrade authority behind `initialize_global_state`, an account nothing else
  uses; the URI, whose length is checked once and which nothing reads; the
  layout of accounts (macros, traits, sizes except for the rent).
- `unchecked_shl` and `unchecked_shr` of `math.rs`, which have no caller.
- The TypeScript scripts and tests, which are clients.
- Error codes: a rejected instruction is not a step, so which error it returns
  is not visible.
- A clock before 1970: the casts of a timestamp to `u64` are of a positive one.
- Where the authority gets a floor price from: its reports are arbitrary. Native
  balances are modelled only as far as the rent of the resolver account; other
  accounts' rent and the transaction fees are not.

## 6. Plan

The order was: fee arithmetic and `Market`; `Escrow` with its invariant; the
observer of the outcome; `NftFloor`; `Parimutuel`; the ledger; and proofs after
each. All of it is done. What remains is proof engineering: shorter proofs of the
step lemmas in `EscrowProofs`, and, once there is a prover for `ENABLED` and for
induction, to discharge `ReadyMeansEnabled` and `SurroundingsMoveOn`.
