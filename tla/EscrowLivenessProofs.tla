------------------------ MODULE EscrowLivenessProofs ------------------------
(***************************************************************************)
(* No money stays locked, for every set of users and every value of the    *)
(* constants: first that nobody is locked out, that is, the instruction    *)
(* that pays can be executed; then, from the fairness of FairSpec and from *)
(* SurroundingsMoveOn, that it is.                                         *)
(*                                                                         *)
(* The prover does not know what ENABLED means.  What it needs to be told, *)
(* that an action can be taken where its guards hold, is ReadyMeansEnabled *)
(* and a premise of every theorem about ENABLED or fairness.               *)
(***************************************************************************)
EXTENDS EscrowProofs

\* The deadline of the market is within the clock, and the clock has come
\* to its end; then finalize returns true.
MarketWithDeadline == market.exists /\ DeadlineIsReached
ClockAtEnd == now = MAX_CLOCK
MarketIsDue == market.exists /\ Due(market, now)

\* How a market may have been flagged final.
Flagged == market.finalized
FlaggedInvalid == market.finalized /\ market.outcome = "Invalid"
FlaggedDecided == market.finalized /\ market.outcome # "Invalid"

GlobalStateExists == global_state.exists
AllFeeAccountsExist == FeeWallets \subseteq DOMAIN fee_account

-----------------------------------------------------------------------------
(***************************************************************************)
(* The guards of the two instructions that pay, the sums that their        *)
(* transfers move included.                                                *)
(***************************************************************************)
ReadyToWithdraw(u) ==
  CanWithdraw(u) /\ \A s \in Side : holdings[s] >= position[s][u]

ReadyToClaim(u) ==
  LET won == FinalOutcome(market, now)
      winnings == Winnings(won, position[won][u])
      fee == Fee(global_state.fee_cut_bps, winnings)
  IN  /\ CanClaim(u)
      /\ holdings[won] >= position[won][u]
      /\ holdings[Other(won)] >= fee + Remaining(winnings, fee)

(***************************************************************************)
(* On a market that is flagged final the instruction that pays a user      *)
(* passes every check of its own and of the token program.                 *)
(***************************************************************************)
PayoutIsOpen(u) ==
  market.finalized /\ HasPosition(u) =>
    /\ market.outcome = "Invalid" => ReadyToWithdraw(u)
    /\ market.outcome # "Invalid" /\ FeeAccountExists => ReadyToClaim(u)

LEMMA FlaggedMarketPaysOut == EscrowInvariant => \A u \in Users : PayoutIsOpen(u)
<1>1. ASSUME EscrowInvariant, NEW u \in Users, market.finalized, HasPosition(u)
      PROVE  /\ market.outcome = "Invalid" => ReadyToWithdraw(u)
             /\ market.outcome # "Invalid" /\ FeeAccountExists => ReadyToClaim(u)
  <2>1. market.exists /\ u \in opened /\ Due(market, now)
    BY <1>1 DEF EscrowInvariant, TypeOK, HasPosition, ZeroMarket, Due
  <2>2. FinalOutcome(market, now) = market.outcome /\ market.outcome \in Outcome \ {"Open"}
    BY <1>1 DEF EscrowInvariant, TypeOK, MarketAccount, FinalOutcome
  <2>3. PayoutsCovered
    BY <1>1, InvariantCoversPayouts
  <2>4. ASSUME market.outcome = "Invalid" PROVE ReadyToWithdraw(u)
    <3>1. CanWithdraw(u)
      BY <2>1, <2>4 DEF CanWithdraw
    <3> QED BY <2>3, <3>1 DEF PayoutsCovered, ReadyToWithdraw
  <2>5. ASSUME market.outcome # "Invalid", FeeAccountExists PROVE ReadyToClaim(u)
    <3> DEFINE won == FinalOutcome(market, now)
               stake == position[won][u]
               winnings == Winnings(won, stake)
               fee == Fee(global_state.fee_cut_bps, winnings)
    <3>1. won \in Side
      BY <2>2, <2>5 DEF Outcome
    <3>2. CanClaim(u)
      BY <2>1, <2>5, <3>1 DEF CanClaim, FeeAccountExists
    <3>3. /\ holdings[won] >= stake
          /\ holdings[Other(won)] >= fee + Remaining(winnings, fee)
      BY <2>3, <3>2 DEF PayoutsCovered
    <3> QED BY <3>2, <3>3 DEF ReadyToClaim
  <2> QED BY <2>4, <2>5
<1> QED BY <1>1 DEF PayoutIsOpen

(***************************************************************************)
(* On a flagged market the instruction that pays is open to everybody who  *)
(* has money in it, in any order of instructions.                          *)
(***************************************************************************)
THEOREM FinalMarketPaysOut == Spec => [](\A u \in Users : PayoutIsOpen(u))
BY FlaggedMarketPaysOut, InvariantHolds, PTL

(***************************************************************************)
(* What ENABLED means for the instructions that NobodyIsLockedOut is       *)
(* about: where their guards hold they can be executed.  The steps in      *)
(* question change the state: they set a flag or empty a position.         *)
(***************************************************************************)
ReadyMeansEnabled ==
  /\ ~global_state.exists /\ (\E p \in GlobalParams : BpsNew(p.fee_cut_bps))
       => ENABLED <<GlobalStateIsMade>>_vars
  /\ market.exists /\ Due(market, now) /\ ~market.finalized /\ Keys # {}
       => ENABLED <<Crank>>_vars
  /\ \A u \in Users : market.finalized /\ HasPosition(u) =>
       /\ ReadyToWithdraw(u) => ENABLED <<Withdraw(u)>>_vars
       /\ ReadyToClaim(u) => ENABLED <<Claim(u)>>_vars

(***************************************************************************)
(* Why that premise is true: a state in which the guards hold has a        *)
(* successor, written down here, and to go there is to take the action.    *)
(***************************************************************************)
AfterInitialize(p) ==
  <<now,
    <<[exists |-> TRUE, owner |-> p.owner, fee_cut_bps |-> p.fee_cut_bps,
       fee_wallet |-> p.fee_wallet], market, opened, position>>,
    balances>>

AfterCrank ==
  <<now, <<global_state, Finalize(market, now), opened, position>>, balances>>

AfterWithdraw(u) ==
  <<now,
    <<global_state, Finalize(market, now), opened, ClearedPosition(u)>>,
    <<[s \in Side |-> holdings[s] - position[s][u]],
      [wallet EXCEPT ![u] = @ + position["Yes"][u] + position["No"][u]],
      fee_account, donated>>>>

AfterClaim(u) ==
  LET won == FinalOutcome(market, now)
      stake == position[won][u]
      winnings == Winnings(won, stake)
      fee == Fee(global_state.fee_cut_bps, winnings)
      remaining == Remaining(winnings, fee)
      paid == IF stake = 0 THEN <<holdings, wallet, fee_account>>
              ELSE <<[s \in Side |-> IF s = won THEN holdings[s] - stake
                                     ELSE holdings[s] - fee - remaining],
                     [wallet EXCEPT ![u] = @ + remaining + stake],
                     [fee_account EXCEPT ![global_state.fee_wallet] = @ + fee]>>
  IN  <<now,
        <<global_state, Finalize(market, now), opened, ClearedPosition(u)>>,
        <<paid[1], paid[2], paid[3], donated>>>>

LEMMA InitializeIsReady ==
  ASSUME NEW p \in GlobalParams, ~global_state.exists, BpsNew(p.fee_cut_bps),
         vars' = AfterInitialize(p)
  PROVE  <<GlobalStateIsMade>>_vars
<1>1. InitializeGlobalState(p)
  BY DEF AfterInitialize, InitializeGlobalState, StoreGlobal, vars, accounts
<1>2. global_state' # global_state
  BY <1>1 DEF InitializeGlobalState, StoreGlobal
<1> QED BY <1>1, <1>2 DEF GlobalStateIsMade, vars, accounts

LEMMA CrankIsReady ==
  ASSUME TypeOK, market.exists, Due(market, now), ~market.finalized, Keys # {},
         vars' = AfterCrank
  PROVE  <<Crank>>_vars
<1>1. /\ market' = Finalize(market, now)
      /\ UNCHANGED <<now, global_state, opened, position, balances>>
  BY DEF AfterCrank, vars, accounts
<1>2. Crank
  <2>1. \E k \in Keys, o \in Outcome : TRUE
    BY DEF Outcome
  <2> QED BY <1>1, <2>1 DEF Crank, UpdateState
<1>3. market' # market
  BY <1>1 DEF Finalize, TypeOK, MarketAccount
<1> QED BY <1>2, <1>3 DEF vars, accounts

LEMMA ClearingChanges ==
  ASSUME TypeOK, NEW u \in Users, HasPosition(u)
  PROVE  ClearedPosition(u) # position
BY StateTypes DEF ClearedPosition, HasPosition

LEMMA WithdrawIsReady ==
  ASSUME TypeOK, NEW u \in Users, HasPosition(u), ReadyToWithdraw(u),
         vars' = AfterWithdraw(u)
  PROVE  <<Withdraw(u)>>_vars
<1>1. Withdraw(u) /\ position' = ClearedPosition(u)
  BY DEF AfterWithdraw, ReadyToWithdraw, Withdraw, vars, accounts, balances
<1> QED BY <1>1, ClearingChanges DEF vars, accounts

LEMMA ClaimIsReady ==
  ASSUME TypeOK, NEW u \in Users, HasPosition(u), ReadyToClaim(u), vars' = AfterClaim(u)
  PROVE  <<Claim(u)>>_vars
<1> DEFINE won == FinalOutcome(market, now)
           stake == position[won][u]
<1>1. /\ CanClaim(u) /\ market' = Finalize(market, now) /\ position' = ClearedPosition(u)
      /\ UNCHANGED <<now, global_state, opened, donated>>
  BY DEF AfterClaim, ReadyToClaim, vars, accounts, balances
<1>2. CASE stake = 0
  <2>1. UNCHANGED <<holdings, wallet, fee_account>>
    BY <1>2 DEF AfterClaim, vars, balances
  <2> QED BY <1>1, <1>2, <2>1, ClearingChanges DEF Claim, vars, accounts
<1>3. CASE stake # 0
  <2>1. PayWinner(u, won, stake)
    BY <1>3 DEF AfterClaim, ReadyToClaim, PayWinner, vars, balances
  <2> QED BY <1>1, <1>3, <2>1, ClearingChanges DEF Claim, vars, accounts
<1> QED BY <1>2, <1>3

(***************************************************************************)
(* Each conjunct of ReadyMeansEnabled has its successor: the guards leave  *)
(* no condition of the instruction out.                                    *)
(***************************************************************************)
THEOREM ReadyHasASuccessor ==
  TypeOK =>
    /\ \A p \in GlobalParams :
         ~global_state.exists /\ BpsNew(p.fee_cut_bps) /\ vars' = AfterInitialize(p)
           => <<GlobalStateIsMade>>_vars
    /\ market.exists /\ Due(market, now) /\ ~market.finalized /\ Keys # {} /\ vars' = AfterCrank
         => <<Crank>>_vars
    /\ \A u \in Users : HasPosition(u) =>
         /\ ReadyToWithdraw(u) /\ vars' = AfterWithdraw(u) => <<Withdraw(u)>>_vars
         /\ ReadyToClaim(u) /\ vars' = AfterClaim(u) => <<Claim(u)>>_vars
BY InitializeIsReady, CrankIsReady, WithdrawIsReady, ClaimIsReady

(***************************************************************************)
(* In every state the program reaches, the guards hold of everybody whom   *)
(* NobodyIsLockedOut is about.                                             *)
(***************************************************************************)
LEMMA ReadyIsNotLockedOut ==
  EscrowInvariant => (ReadyMeansEnabled <=> NobodyIsLockedOut)
<1> SUFFICES ASSUME EscrowInvariant PROVE ReadyMeansEnabled <=> NobodyIsLockedOut
  OBVIOUS
<1>1. \A u \in Users : market.finalized /\ HasPosition(u) =>
        /\ market.outcome = "Invalid" <=> ReadyToWithdraw(u)
        /\ market.outcome # "Invalid" /\ FeeAccountExists <=> ReadyToClaim(u)
  <2>1. \A u \in Users : PayoutIsOpen(u)
    BY FlaggedMarketPaysOut
  <2>2. ASSUME NEW u \in Users, ReadyToWithdraw(u) PROVE market.outcome = "Invalid"
    BY <2>2 DEF ReadyToWithdraw, CanWithdraw
  <2>3. ASSUME NEW u \in Users, market.finalized, ReadyToClaim(u)
        PROVE  market.outcome # "Invalid" /\ FeeAccountExists
    BY <2>3 DEF ReadyToClaim, CanClaim, FinalOutcome, FeeAccountExists, Side
  <2> QED BY <2>1, <2>2, <2>3 DEF PayoutIsOpen
<1>2. (\E p \in GlobalParams : BpsNew(p.fee_cut_bps)) /\ Keys # {}
  BY FairnessAssumption
<1> QED BY <1>1, <1>2 DEF ReadyMeansEnabled, NobodyIsLockedOut

(***************************************************************************)
(* Nobody is locked out of a payment, nor of flagging a market or setting  *)
(* up the program, in any order of instructions.                           *)
(***************************************************************************)
THEOREM NobodyIsEverLockedOut == Spec /\ []ReadyMeansEnabled => []NobodyIsLockedOut
BY ReadyIsNotLockedOut, InvariantHolds, PTL

(***************************************************************************)
(* And the other way round: a run that finds NobodyIsLockedOut true finds  *)
(* that premise true.                                                      *)
(***************************************************************************)
THEOREM PremiseIsChecked == Spec /\ []NobodyIsLockedOut => []ReadyMeansEnabled
BY ReadyIsNotLockedOut, InvariantHolds, PTL

-----------------------------------------------------------------------------
(***************************************************************************)
(* What comes to stay.                                                     *)
(***************************************************************************)
LEMMA ClockStaysAtEnd == TypeOK /\ ClockAtEnd /\ [Next]_vars => ClockAtEnd'
<1> SUFFICES ASSUME TypeOK, now = MAX_CLOCK, [Next]_vars PROVE now' = now
  BY DEF ClockAtEnd
<1>1. ~Tick
  BY U64Facts, EscrowAssumption DEF Tick
<1> QED
  BY <1>1 DEF Next, Donate, CreateFeeAccount, InitializeGlobalState, SetGlobalState,
              InitializeMarket, ResolverAcknowledge, InitializeUserPosition, Deposit,
              UpdateState, Withdraw, Claim, vars

LEMMA DeadlineStays == TypeOK /\ MarketWithDeadline /\ [Next]_vars => MarketWithDeadline'
BY MarketKeepsTerms DEF MarketWithDeadline, DeadlineIsReached

LEMMA GlobalStateStays == GlobalStateExists /\ [Next]_vars => GlobalStateExists'
<1> SUFFICES ASSUME global_state.exists, [Next]_vars PROVE global_state'.exists
  BY DEF GlobalStateExists
<1>1. ASSUME NEW p, StoreGlobal(p) PROVE global_state'.exists
  BY <1>1 DEF StoreGlobal
<1>2. global_state' = global_state \/ \E p \in GlobalParams : StoreGlobal(p)
  BY DEF Next, Tick, Donate, CreateFeeAccount, InitializeGlobalState, SetGlobalState,
         InitializeMarket, ResolverAcknowledge, InitializeUserPosition, Deposit,
         UpdateState, Withdraw, Claim, vars, accounts
<1> QED BY <1>1, <1>2

LEMMA FeeAccountsStay ==
  AllFeeAccountsExist /\ [Next]_vars => AllFeeAccountsExist'
<1> SUFFICES ASSUME [Next]_vars PROVE DOMAIN fee_account \subseteq DOMAIN fee_account'
  BY DEF AllFeeAccountsExist
<1> QED
  BY DEF Next, Tick, Donate, CreateFeeAccount, InitializeGlobalState,
         SetGlobalState, InitializeMarket, ResolverAcknowledge, InitializeUserPosition,
         Deposit, UpdateState, Withdraw, Claim, PayWinner, vars, accounts, balances

(***************************************************************************)
(* A flag and the outcome flagged with it are never taken back.            *)
(***************************************************************************)
LEMMA FlagStays ==
  EscrowInvariant /\ [Next]_vars => /\ Flagged => Flagged'
                                    /\ FlaggedInvalid => FlaggedInvalid'
                                    /\ FlaggedDecided => FlaggedDecided'
<1> SUFFICES ASSUME EscrowInvariant, [Next]_vars, market.finalized
             PROVE  market'.finalized /\ market'.outcome = market.outcome
  BY DEF Flagged, FlaggedInvalid, FlaggedDecided
<1>1. market \in MarketAccount /\ market.exists
  BY DEF EscrowInvariant, TypeOK, ZeroMarket
<1>2. Due(market, now) /\ ~NotDue(market, now) /\ FinalOutcome(market, now) = market.outcome
  BY DEF Due, NotDue, FinalOutcome
<1> QED BY <1>1, <1>2
     DEF Next, Tick, Donate, CreateFeeAccount, InitializeGlobalState, SetGlobalState,
         InitializeMarket, ResolverAcknowledge, InitializeUserPosition, Deposit, CanDeposit,
         UpdateState, Finalize, Withdraw, Claim, vars, accounts, MarketAccount

LEMMA MarketStaysDue == EscrowInvariant /\ MarketIsDue /\ [Next]_vars => MarketIsDue'
<1>1. EscrowInvariant /\ market.exists /\ [Next]_vars => market'.exists
  BY MarketKeepsTerms DEF EscrowInvariant
<1> QED BY <1>1, StepKeepsFinality DEF MarketIsDue, vars, accounts

(***************************************************************************)
(* At the end of the clock the deadline has passed, and finalize returns   *)
(* true: the deadline does not overflow, as the clock does not.            *)
(***************************************************************************)
LEMMA DueAtEnd == TypeOK /\ MarketWithDeadline /\ ClockAtEnd => MarketIsDue
<1> SUFFICES ASSUME TypeOK, MarketWithDeadline, ClockAtEnd PROVE Due(market, now)
  BY DEF MarketIsDue, MarketWithDeadline
<1>1. market.expiry_ts + MAX_DELAY_SEC <= now /\ now = MAX_CLOCK
  BY DEF MarketWithDeadline, DeadlineIsReached, ClockAtEnd
<1>2. /\ market.expiry_ts \in Nat /\ MAX_DELAY_SEC \in Nat
      /\ MAX_CLOCK \in Nat /\ MAX_CLOCK <= U64_MAX
  BY U64Facts, MarketAssumption, EscrowAssumption DEF TypeOK, MarketAccount
<1>3. PastMaxDelay(market, now) /\ ~AddOverflows(market.expiry_ts, MAX_DELAY_SEC)
  BY <1>1, <1>2, U64Facts DEF PastMaxDelay, AddOverflows
<1> QED BY <1>3 DEF Due, FinalizeOverflows

-----------------------------------------------------------------------------
(***************************************************************************)
(* What each of the awaited instructions achieves.                         *)
(***************************************************************************)
LEMMA CrankFlags == TypeOK /\ <<Crank>>_vars => Flagged'
BY DEF Crank, UpdateState, NotDue, Finalize, Flagged, TypeOK, MarketAccount

LEMMA GlobalStateMade == <<GlobalStateIsMade>>_vars => GlobalStateExists'
BY DEF GlobalStateIsMade, InitializeGlobalState, StoreGlobal, GlobalStateExists

LEMMA PayoutCloses ==
  ASSUME NEW u \in Users
  PROVE  /\ TypeOK /\ <<Withdraw(u)>>_vars => ~HasPosition(u)'
         /\ TypeOK /\ <<Claim(u)>>_vars => ~HasPosition(u)'
<1>1. TypeOK => \A s \in Side : ClearedPosition(u)[s][u] = 0
  BY DEF ClearedPosition, TypeOK
<1> QED BY <1>1 DEF Withdraw, Claim, HasPosition

-----------------------------------------------------------------------------
(***************************************************************************)
(* The argument, in steps.  First: a due market gets flagged, because      *)
(* anyone can crank it and somebody keeps trying.                          *)
(***************************************************************************)
LEMMA DueMarketIsFlagged ==
  []EscrowInvariant /\ [][Next]_vars /\ []NobodyIsLockedOut /\ WF_vars(Crank)
    => (MarketIsDue ~> Flagged)
<1>1. EscrowInvariant => TypeOK
  BY DEF EscrowInvariant
<1>2. NobodyIsLockedOut /\ MarketIsDue => Flagged \/ ENABLED <<Crank>>_vars
  BY DEF NobodyIsLockedOut, MarketIsDue, Flagged
<1> QED BY <1>1, <1>2, MarketStaysDue, CrankFlags, PTL

(***************************************************************************)
(* The time comes when the market is due.                                  *)
(***************************************************************************)
LEMMA MarketBecomesDue ==
  []EscrowInvariant /\ [][Next]_vars /\ <>ClockAtEnd => (MarketWithDeadline ~> MarketIsDue)
<1>1. EscrowInvariant => TypeOK
  BY DEF EscrowInvariant
<1> QED BY <1>1, ClockStaysAtEnd, DeadlineStays, DueAtEnd, PTL

(***************************************************************************)
(* And the time from which on a claim finds the token account of the fee   *)
(* wallet, whichever wallet that is.                                       *)
(***************************************************************************)
LEMMA FeeAccountComes ==
  []EscrowInvariant /\ [][Next]_vars /\ []NobodyIsLockedOut
  /\ WF_vars(GlobalStateIsMade) /\ <>AllFeeAccountsExist
    => <>[]FeeAccountExists
<1>1. EscrowInvariant /\ GlobalStateExists /\ AllFeeAccountsExist => FeeAccountExists
  BY DEF EscrowInvariant, TypeOK, GlobalStateExists, AllFeeAccountsExist, FeeAccountExists
<1>2. NobodyIsLockedOut => GlobalStateExists \/ ENABLED <<GlobalStateIsMade>>_vars
  BY DEF NobodyIsLockedOut, GlobalStateExists
<1> QED BY <1>1, <1>2, GlobalStateStays, FeeAccountsStay, GlobalStateMade, PTL

(***************************************************************************)
(* Then a user gets out of a market that was flagged, Invalid or decided.  *)
(***************************************************************************)
LEMMA FlaggedInvalidPays ==
  ASSUME NEW u \in Users
  PROVE  []EscrowInvariant /\ [][Next]_vars /\ []NobodyIsLockedOut /\ WF_vars(Withdraw(u))
           => (FlaggedInvalid ~> ~HasPosition(u))
<1>1. EscrowInvariant => TypeOK
  BY DEF EscrowInvariant
<1>2. NobodyIsLockedOut /\ FlaggedInvalid => ~HasPosition(u) \/ ENABLED <<Withdraw(u)>>_vars
  BY DEF NobodyIsLockedOut, FlaggedInvalid
<1>3. TypeOK /\ <<Withdraw(u)>>_vars => ~HasPosition(u)'
  BY PayoutCloses
<1> QED BY <1>1, <1>2, <1>3, FlagStays, PTL

LEMMA FlaggedDecidedPays ==
  ASSUME NEW u \in Users
  PROVE  []EscrowInvariant /\ [][Next]_vars /\ []NobodyIsLockedOut /\ WF_vars(Claim(u))
         /\ <>[]FeeAccountExists
           => (FlaggedDecided ~> ~HasPosition(u))
<1>1. EscrowInvariant => TypeOK
  BY DEF EscrowInvariant
<1>2. NobodyIsLockedOut /\ FlaggedDecided /\ FeeAccountExists
        => ~HasPosition(u) \/ ENABLED <<Claim(u)>>_vars
  BY DEF NobodyIsLockedOut, FlaggedDecided
<1>3. TypeOK /\ <<Claim(u)>>_vars => ~HasPosition(u)'
  BY PayoutCloses
<1> QED BY <1>1, <1>2, <1>3, FlagStays, PTL

-----------------------------------------------------------------------------
(***************************************************************************)
(* An assumption about the surroundings, not about the program: the clock  *)
(* reaches its end, and every wallet the fee may go to gets its token      *)
(* account.  It follows from their fairness in FairSpec, by an induction   *)
(* over the clock and over the wallets that the provers cannot do.         *)
(***************************************************************************)
SurroundingsMoveOn ==
  <>(now = MAX_CLOCK) /\ <>(FeeWallets \subseteq DOMAIN fee_account)

(***************************************************************************)
(* Every market whose deadline is reached is flagged final.  The two       *)
(* premises besides FairSpec are what ENABLED means in its fairness        *)
(* conditions, and that the surroundings move on.                          *)
(***************************************************************************)
THEOREM MarketsAreFinalized ==
  FairSpec /\ []ReadyMeansEnabled /\ SurroundingsMoveOn => EveryMarketIsFinalized
<1>1. SurroundingsMoveOn => <>ClockAtEnd
  BY DEF SurroundingsMoveOn, ClockAtEnd
<1>2. FairSpec => Spec /\ [][Next]_vars /\ WF_vars(Crank)
  BY PTL DEF FairSpec, Spec, Fairness
<1>3. FairSpec /\ []ReadyMeansEnabled /\ SurroundingsMoveOn => (MarketWithDeadline ~> Flagged)
  BY <1>1, <1>2, InvariantHolds, NobodyIsEverLockedOut, MarketBecomesDue,
     DueMarketIsFlagged, PTL
<1> QED BY <1>3 DEF EveryMarketIsFinalized, MarketWithDeadline, Flagged

(***************************************************************************)
(* Every position is closed in the end, whether the resolver decides,      *)
(* changes its mind until the last moment, or vanishes, and however often  *)
(* the owner moves the fee to another wallet.                              *)
(***************************************************************************)
THEOREM PositionsAreClosed ==
  FairSpec /\ []ReadyMeansEnabled /\ SurroundingsMoveOn => EveryPositionIsClosed
<1>1. SurroundingsMoveOn => <>ClockAtEnd /\ <>AllFeeAccountsExist
  BY DEF SurroundingsMoveOn, ClockAtEnd, AllFeeAccountsExist
<1>2. ASSUME NEW u \in Users
      PROVE  FairSpec /\ []ReadyMeansEnabled /\ SurroundingsMoveOn
               => ((HasPosition(u) /\ DeadlineIsReached) ~> ~HasPosition(u))
  <2>1. FairSpec => Spec /\ [][Next]_vars /\ WF_vars(Crank) /\ WF_vars(GlobalStateIsMade)
    BY PTL DEF FairSpec, Spec, Fairness
  <2>4. FairSpec => WF_vars(Withdraw(u)) /\ WF_vars(Claim(u))
    <3>1. UsersKeepTrying => KeepsTrying(u)
      BY DEF UsersKeepTrying
    <3> QED BY <3>1, PTL DEF FairSpec, Fairness, KeepsTrying
  <2>2. EscrowInvariant /\ HasPosition(u) /\ DeadlineIsReached => MarketWithDeadline
    BY DEF EscrowInvariant, TypeOK, HasPosition, MarketWithDeadline
  <2>3. Flagged => FlaggedInvalid \/ FlaggedDecided
    BY DEF Flagged, FlaggedInvalid, FlaggedDecided
  <2> QED BY <1>1, <2>1, <2>2, <2>3, <2>4, InvariantHolds, NobodyIsEverLockedOut,
             MarketBecomesDue, DueMarketIsFlagged, FeeAccountComes,
             FlaggedInvalidPays, FlaggedDecidedPays, PTL
<1> QED BY <1>2 DEF EveryPositionIsClosed

-----------------------------------------------------------------------------
(***************************************************************************)
(* Why SurroundingsMoveOn may be assumed: each second passes, and each     *)
(* wallet gets its account, from the fairness of the clock and of whoever  *)
(* creates the accounts.  These lemmas say nothing about the program; they *)
(* are the single steps of the two inductions.                             *)
(***************************************************************************)
SurroundingsReady ==
  /\ now < MAX_CLOCK => ENABLED <<Tick>>_vars
  /\ \A w \in FeeWallets : w \notin DOMAIN fee_account => ENABLED <<CreateFeeAccount(w)>>_vars

\* The successors that the two conditions speak of.
AfterTick == <<now + 1, accounts, balances>>
AfterCreateFeeAccount(w) ==
  <<now, accounts,
    <<holdings, wallet,
      [x \in DOMAIN fee_account \cup {w} |-> IF x = w THEN 0 ELSE fee_account[x]],
      donated>>>>

LEMMA SurroundingsHaveASuccessor ==
  ASSUME TypeOK
  PROVE  /\ now < MAX_CLOCK /\ vars' = AfterTick => <<Tick>>_vars
         /\ \A w \in FeeWallets :
              w \notin DOMAIN fee_account /\ vars' = AfterCreateFeeAccount(w)
                => <<CreateFeeAccount(w)>>_vars
<1>1. ASSUME now < MAX_CLOCK, vars' = AfterTick PROVE <<Tick>>_vars
  <2>1. now' = now + 1 /\ UNCHANGED <<accounts, balances>>
    BY <1>1 DEF AfterTick, vars
  <2>2. now' # now
    BY <2>1, StateTypes
  <2> QED BY <1>1, <2>1, <2>2 DEF Tick, vars
<1>2. ASSUME NEW w \in FeeWallets, w \notin DOMAIN fee_account,
             vars' = AfterCreateFeeAccount(w)
      PROVE  <<CreateFeeAccount(w)>>_vars
  <2>1. /\ fee_account' = [x \in DOMAIN fee_account \cup {w} |->
                             IF x = w THEN 0 ELSE fee_account[x]]
        /\ UNCHANGED <<now, accounts, holdings, wallet, donated>>
    BY <1>2 DEF AfterCreateFeeAccount, vars, balances
  <2>2. fee_account' # fee_account
    BY <1>2, <2>1
  <2> QED BY <1>2, <2>1, <2>2 DEF CreateFeeAccount, vars, balances
<1> QED BY <1>1, <1>2

LEMMA ClockStep ==
  ASSUME NEW n \in Nat
  PROVE  /\ now = n /\ [Next]_vars => (now = n)' \/ (now = n + 1)'
         /\ now = n /\ <<Tick>>_vars => (now = n + 1)'
<1>1. now = n /\ <<Tick>>_vars => (now = n + 1)'
  BY DEF Tick
<1>2. [Next]_vars => now' = now \/ now' = now + 1
  BY DEF Next, Tick, Donate, CreateFeeAccount, InitializeGlobalState, SetGlobalState,
         InitializeMarket, ResolverAcknowledge, InitializeUserPosition, Deposit,
         UpdateState, Withdraw, Claim, vars
<1> QED BY <1>1, <1>2

(***************************************************************************)
(* Each second of the clock passes into the next, whatever instructions    *)
(* run in it.                                                              *)
(***************************************************************************)
LEMMA TimePasses ==
  ASSUME NEW n \in Nat, n < MAX_CLOCK
  PROVE  FairSpec /\ []SurroundingsReady => (now = n ~> now = n + 1)
<1>1. FairSpec => [][Next]_vars /\ WF_vars(Tick)
  BY PTL DEF FairSpec, Spec, Fairness
<1>2. SurroundingsReady /\ now = n => ENABLED <<Tick>>_vars
  BY DEF SurroundingsReady
<1>3. /\ now = n /\ [Next]_vars => (now = n)' \/ (now = n + 1)'
      /\ now = n /\ <<Tick>>_vars => (now = n + 1)'
  BY ClockStep
<1> QED BY <1>1, <1>2, <1>3, PTL

(***************************************************************************)
(* Every wallet that the fee may go to gets its token account, whichever   *)
(* of them the owner names.                                                *)
(***************************************************************************)
LEMMA FeeAccountsAreMade ==
  ASSUME NEW w \in FeeWallets
  PROVE  FairSpec /\ []SurroundingsReady => <>[](w \in DOMAIN fee_account)
<1>1. FairSpec => [][Next]_vars
  BY PTL DEF FairSpec, Spec
<1>2. FairSpec => WF_vars(CreateFeeAccount(w))
  <2>1. AccountsAreMade => AccountIsMade(w)
    BY DEF AccountsAreMade
  <2> QED BY <2>1, PTL DEF FairSpec, Fairness, AccountIsMade
<1>3. SurroundingsReady => w \in DOMAIN fee_account \/ ENABLED <<CreateFeeAccount(w)>>_vars
  BY DEF SurroundingsReady
<1>4. <<CreateFeeAccount(w)>>_vars => (w \in DOMAIN fee_account)'
  BY DEF CreateFeeAccount
<1>5. w \in DOMAIN fee_account /\ [Next]_vars => (w \in DOMAIN fee_account)'
  BY DEF Next, Tick, Donate, CreateFeeAccount, InitializeGlobalState,
         SetGlobalState, InitializeMarket, ResolverAcknowledge, InitializeUserPosition,
         Deposit, UpdateState, Withdraw, Claim, PayWinner, vars, accounts, balances
<1> QED BY <1>1, <1>2, <1>3, <1>4, <1>5, PTL

=============================================================================
