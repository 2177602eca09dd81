------------------------ MODULE EscrowContractProofs ------------------------
(***************************************************************************)
(* The escrow program implements the parimutuel market, for every number   *)
(* of users and every value of the constants: each instruction is mapped   *)
(* to the step of the contract it carries out, or to none.                 *)
(***************************************************************************)
EXTENDS EscrowContract, EscrowProofs

(***************************************************************************)
(* A table that gets a new empty entry keeps its total.                    *)
(***************************************************************************)
LEMMA TotalExtend ==
  ASSUME NEW D, NEW f \in [D -> Nat], NEW x, x \notin D
  PROVE  Total([y \in D \cup {x} |-> IF y = x THEN 0 ELSE f[y]]) = Total(f)
<1> DEFINE g == [y \in D \cup {x} |-> IF y = x THEN 0 ELSE f[y]]
<1>1. \A y \in D : g[y] = f[y]
  OBVIOUS
<1>2. g[x] = 0 /\ DOMAIN g = D \cup {x} /\ DOMAIN f = D
  OBVIOUS
<1> HIDE DEF g
<1>3. {x} \X (1 .. g[x]) = {}
  BY <1>2
<1>4. Units(g) = Units(f)
  BY <1>1, <1>2, <1>3 DEF Units
<1> QED BY <1>4 DEF Total, g

LEMMA ContractTotal ==
  ASSUME NEW f
  PROVE  Contract!Total(f) = Total(f)
BY DEF Contract!Total, Contract!Units, Contract!Cardinality, Total, Units, Cardinality

(***************************************************************************)
(* The result that stands: a side wins only with both pools full, and what *)
(* is settled is never settled again.                                      *)
(***************************************************************************)
ResultIsJust == /\ Result \in {"None", "Invalid"} \cup Side
                /\ Result \in Side => market.filled = market.amount

LEMMA ResultFacts == EscrowInvariant => ResultIsJust
<1> SUFFICES ASSUME EscrowInvariant PROVE ResultIsJust
  OBVIOUS
<1>1. FinalOutcome(market, now) # "Open" \/ ~Due(market, now)
  BY DEF FinalOutcome, EscrowInvariant
<1>2. FinalOutcome(market, now) \in Outcome
  BY StateTypes, FinalOutcomeType DEF EscrowInvariant
<1>3. FinalOutcome(market, now) \in Side => market.outcome \in Side
  BY DEF FinalOutcome, Side
<1> QED BY <1>1, <1>2, <1>3
        DEF ResultIsJust, Result, Outcome, Side, EscrowInvariant, ResolvedOnlyWhenFilled

LEMMA SettledStaysSettled ==
  ASSUME EscrowInvariant, Next, Result # "None", market'.exists = market.exists
  PROVE  Result' = Result
<1>1. market.exists /\ Due(market, now)
  BY DEF Result
<1>2. \/ /\ Due(market', now')
         /\ FinalOutcome(market', now') = FinalOutcome(market, now)
      \/ UNCHANGED vars
  BY <1>1, StepKeepsFinality
<1>3. CASE UNCHANGED vars
  BY <1>3 DEF vars, accounts, Result
<1> QED BY <1>1, <1>2, <1>3 DEF Result

(***************************************************************************)
(* The steps that move no token: the contract settles the market, or does  *)
(* nothing.                                                                *)
(***************************************************************************)
LEMMA NoMoneyMoves ==
  ASSUME EscrowInvariant, EscrowInvariant', Next,
         market'.exists = market.exists, market'.amount = market.amount,
         market'.filled = market.filled,
         UNCHANGED <<position, holdings, wallet>>,
         Total(fee_account)' = Total(fee_account)
  PROVE  Contract!Settle \/ UNCHANGED Contract!vars
<1>1. CASE Result' = Result
  BY <1>1 DEF Contract!vars
<1>2. CASE Result' # Result
  <2>1. Result = "None"
    BY <1>2, SettledStaysSettled
  <2>2. market.exists /\ ~Due(market, now)
    <3>1. market.exists
      BY <1>2, <2>1 DEF Result
    <3>2. FinalOutcome(market, now) # "None"
      BY StateTypes, FinalOutcomeType DEF EscrowInvariant, Outcome, Side
    <3> QED BY <2>1, <3>1, <3>2 DEF Result
  <2>3. Result' \in {"Invalid"} \cup Side /\ (Result' \in Side => market'.filled = market'.amount)
    <3>1. ResultIsJust'
      BY ResultFacts, PTL
    <3> QED BY <1>2, <2>1, <3>1 DEF ResultIsJust
  <2>4. \A s \in Side : Total(position[s]) = market.filled[s] /\ market.filled[s] \in Nat
    BY <2>2, StateTypes DEF EscrowInvariant, EscrowHoldsPositions, Due
  <2>5. Result' \in Side => \A s \in Side : market.amount[s] - Total(position[s]) = 0
    BY <2>3, <2>4
  <2> QED BY <2>1, <2>3, <2>5, ContractTotal
          DEF Contract!Settle, Contract!Side, Contract!Room, Side
<1> QED BY <1>1, <1>2

-----------------------------------------------------------------------------
LEMMA InitIsContractInit == Init => Contract!Init
<1> SUFFICES ASSUME Init PROVE Contract!Init
  OBVIOUS
<1>1. Total(fee_account) = 0
  <2>1. fee_account \in [{} -> Nat] /\ \A w \in {} : fee_account[w] = 0
    BY DEF Init
  <2> QED BY <2>1, TotalZero
<1>2. Result = "None"
  BY DEF Init, Result, ZeroMarket
<1> QED BY <1>1, <1>2
        DEF Init, ZeroMarket, NoPosition, Contract!Init, Contract!Nothing, Contract!Side, Side

LEMMA InitializeMarketOpens ==
  ASSUME EscrowInvariant, NEW p \in MarketParams, InitializeMarket(p)
  PROVE  Contract!Open(p.amount)
<1>1. /\ p \in [creator : Keys, resolver : Keys, amount : [Side -> U64],
                close_ts : U64, expiry_ts : U64, resolution_delay : U64]
      /\ market = ZeroMarket /\ now \in Nat /\ MAX_DELAY_SEC \in Nat
      /\ 0 \in U64
  BY EscrowAssumption, MarketAssumption, U64Facts, StateTypes
     DEF EscrowInvariant, TypeOK, InitializeMarket
<1>2. /\ market'.exists /\ market'.finalized = FALSE /\ market'.outcome = "Open"
      /\ market'.amount = p.amount /\ market'.filled = [s \in Side |-> 0]
      /\ market'.close_ts = p.close_ts /\ market'.expiry_ts = p.expiry_ts
      /\ now' = now /\ p.close_ts >= now /\ p.expiry_ts >= p.close_ts
      /\ UNCHANGED <<position, holdings, wallet, fee_account>>
      /\ \A s \in Side : p.amount[s] # 0
  BY <1>1 DEF InitializeMarket, ZeroMarket, balances
<1>3. p.close_ts \in Nat /\ p.expiry_ts \in Nat /\ p.amount \in [Side -> Nat]
  BY <1>1, U64Facts
<1>4. Result' \in {"None", "Invalid"}
  BY <1>2 DEF Result, FinalOutcome
<1>5. market.amount = [s \in Side |-> 0] /\ Result = "None"
  BY <1>1 DEF ZeroMarket, Result
<1> QED BY <1>2, <1>4, <1>5 DEF Contract!Open, Contract!Nothing, Contract!Side, Side

LEMMA DepositJoins ==
  ASSUME EscrowInvariant, NEW u \in Users, NEW p \in DepositParams, Deposit(u, p)
  PROVE  \E yes \in 0 .. Contract!Room("Yes"), no \in 0 .. Contract!Room("No") :
           yes + no <= wallet[u] /\ Contract!Join(u, yes, no)
<1> DEFINE deposit == [s \in Side |-> ToDeposit(p, s)]
           yes == deposit["Yes"]
           no == deposit["No"]
<1>1. /\ market \in MarketAccount /\ now \in Nat
      /\ market.amount \in [Side -> Nat] /\ market.filled \in [Side -> Nat]
      /\ market.close_ts \in Nat /\ p.amount \in [Side -> Nat]
      /\ now < market.close_ts /\ NotDue(market, now) /\ market.exists
      /\ \A s \in Side : market.amount[s] - market.filled[s] >= 0
  BY StateTypes, EscrowAssumption, U64Facts
     DEF EscrowInvariant, TypeOK, Deposit, CanDeposit, Left
<1>2. \A s \in Side : Total(position[s]) = market.filled[s]
  BY <1>1, NotDueFacts DEF EscrowInvariant, EscrowHoldsPositions
<1>3. \A s \in Side : /\ deposit[s] \in Nat
                      /\ deposit[s] <= market.amount[s] - Total(position[s])
  BY <1>1, <1>2 DEF ToDeposit, Left, Lesser
<1> HIDE DEF deposit
<1>4. /\ market' = [market EXCEPT !.filled = [s \in Side |-> market.filled[s] + deposit[s]]]
      /\ position' = [s \in Side |-> [position[s] EXCEPT ![u] = position[s][u] + deposit[s]]]
      /\ holdings' = [s \in Side |-> holdings[s] + deposit[s]]
      /\ wallet' = [wallet EXCEPT ![u] = @ - yes - no]
      /\ wallet[u] >= yes + no
      /\ UNCHANGED <<now, fee_account>>
  BY DEF Deposit, deposit
<1>5. yes \in 0 .. Contract!Room("Yes") /\ no \in 0 .. Contract!Room("No")
  <2>1. \A s \in Side : market.amount[s] - Total(position[s]) \in Int
    BY <1>1, <1>2
  <2> QED BY <1>3, <2>1, ContractTotal DEF Contract!Room, Side
<1>6. Result = "None" /\ Result' = "None"
  <2>1. /\ ~Due(market, now) /\ ~FinalizeOverflows(market, now)
    BY <1>1 DEF NotDue
  <2>2. /\ market'.finalized = market.finalized /\ market'.close_ts = market.close_ts
        /\ market'.expiry_ts = market.expiry_ts /\ market'.outcome = market.outcome
        /\ market'.outcome_ts = market.outcome_ts
        /\ market'.resolution_delay = market.resolution_delay
        /\ market'.amount = market.amount
    BY <1>1, <1>4 DEF MarketAccount
  <2>3. ~UnfilledAtClose(market, now) /\ ~UnfilledAtClose(market', now)
    BY <1>1, <2>2 DEF UnfilledAtClose
  <2>4. ~Due(market', now)
    BY <2>1, <2>2, <2>3 DEF Due, FinalizeOverflows, PastMaxDelay, PastResolutionDelay
  <2> QED BY <1>4, <2>1, <2>4 DEF Result
<1>7. \A s \in Side : deposit[s] = [t \in Side |-> IF t = "Yes" THEN yes ELSE no][s]
  BY DEF Side
<1>8. market'.amount = market.amount
  BY <1>1, <1>4 DEF MarketAccount
<1>9. Contract!Join(u, yes, no)
  <2>1. position' = [s \in Side |-> [position[s] EXCEPT
                        ![u] = @ + [t \in Side |-> IF t = "Yes" THEN yes ELSE no][s]]]
    <3>1. \A s \in Side : position[s] \in [Users -> Nat]
      BY StateTypes DEF EscrowInvariant
    <3> HIDE DEF yes, no
    <3> QED BY <1>4, <1>7, <3>1
  <2>2. holdings' = [s \in Side |->
                       holdings[s] + [t \in Side |-> IF t = "Yes" THEN yes ELSE no][s]]
    <3> HIDE DEF yes, no
    <3> QED BY <1>4, <1>7
  <2> QED BY <1>4, <1>6, <1>8, <2>1, <2>2 DEF Contract!Join, Contract!Side, Side
<1> QED BY <1>4, <1>5, <1>9

LEMMA WithdrawRefunds ==
  ASSUME EscrowInvariant, Next, NEW u \in Users, Withdraw(u)
  PROVE  Contract!Refund(u)
<1>1. /\ market.exists /\ Due(market, now) /\ market.outcome = "Invalid"
      /\ market' = Finalize(market, now)
      /\ position' = ClearedPosition(u)
      /\ holdings' = [s \in Side |-> holdings[s] - position[s][u]]
      /\ wallet' = [wallet EXCEPT ![u] = @ + position["Yes"][u] + position["No"][u]]
      /\ UNCHANGED fee_account
  BY DEF Withdraw, CanWithdraw
<1>2. Result = "Invalid"
  BY <1>1 DEF Result, FinalOutcome
<1>3. market'.exists = market.exists /\ market'.amount = market.amount
  BY <1>1, StateTypes DEF EscrowInvariant, Finalize, MarketAccount
<1>4. Result' = Result
  BY <1>2, <1>3, SettledStaysSettled
<1> QED BY <1>1, <1>2, <1>3, <1>4
        DEF Contract!Refund, Contract!Leave, Contract!Side, Side, ClearedPosition

(***************************************************************************)
(* A claim pays the share of the contract, and what is not paid to the     *)
(* winner is paid as the fee.                                              *)
(***************************************************************************)
LEMMA ClaimPays ==
  ASSUME EscrowInvariant, Next, NEW u \in Users, Claim(u)
  PROVE  /\ Result \in Contract!Side
         /\ \E fee \in 0 .. Contract!Share(u) : Contract!Payout(u, fee)
<1> DEFINE won == FinalOutcome(market, now)
           lost == Other(won)
           stake == position[won][u]
           share == (stake * market.amount[lost]) \div market.amount[won]
           paid == Fee(global_state.fee_cut_bps, share)
           remaining == Remaining(share, paid)
<1>1. /\ market.exists /\ Due(market, now) /\ won \in Side
      /\ global_state.fee_wallet \in DOMAIN fee_account
      /\ market' = Finalize(market, now)
      /\ position' = ClearedPosition(u)
      /\ global_state.fee_cut_bps \in BpsValue
  BY DEF EscrowInvariant, TypeOK, Claim, CanClaim
<1>2. Result = won /\ Result # "None"
  BY <1>1 DEF Result, Side
<1>3. market'.exists = market.exists /\ market'.amount = market.amount
  BY <1>1, StateTypes DEF EscrowInvariant, Finalize, MarketAccount
<1>4. Result' = Result
  BY <1>2, <1>3, SettledStaysSettled
<1>5. Winnings(won, stake) = share /\ share \in Nat
  BY <1>1, ClaimIsCovered
<1>6. Contract!Share(u) = share
  BY <1>2 DEF Contract!Share, Contract!Other, Other
<1>7. /\ stake \in Nat /\ lost \in Side /\ lost # won
      /\ \A s \in Side : s # won => s = lost
      /\ holdings \in [Side -> Nat] /\ wallet \in [Users -> Nat]
      /\ market.amount[won] \in Nat \ {0} /\ market.amount[lost] \in Nat
      /\ fee_account \in [DOMAIN fee_account -> Nat]
      /\ IsFiniteSet(DOMAIN fee_account)
  <2>1. lost \in Side /\ lost # won /\ \A s \in Side : s # won => s = lost
    BY <1>1 DEF Other, Side
  <2>2. IsFiniteSet(DOMAIN fee_account)
    BY EscrowAssumption, FS_Subset DEF EscrowInvariant, TypeOK
  <2>3. market.amount[won] # 0
    BY <1>1 DEF EscrowInvariant, TypeOK
  <2>4. /\ position \in [Side -> [Users -> Nat]] /\ market.amount \in [Side -> Nat]
        /\ holdings \in [Side -> Nat] /\ wallet \in [Users -> Nat]
        /\ fee_account \in [DOMAIN fee_account -> Nat]
    BY StateTypes DEF EscrowInvariant, TypeOK
  <2> HIDE DEF won, lost
  <2> QED BY <1>1, <2>1, <2>2, <2>3, <2>4
<1>8. Contract!Leave(u)
  BY <1>1 DEF Contract!Leave, Contract!Side, Side, ClearedPosition
<1>9. CASE stake = 0 /\ UNCHANGED <<holdings, wallet, fee_account>>
  <2>1. share = 0
    <3>1. share * market.amount[won] <= stake * market.amount[lost]
      BY <1>7, ShareBounds
    <3> HIDE DEF share, stake, won, lost
    <3>2. share * market.amount[won] <= 0
      BY <1>7, <1>9, <3>1
    <3>3. share >= 1 => market.amount[won] * 1 <= market.amount[won] * share
      BY <1>5, <1>7, ProductMonotone
    <3> QED BY <1>5, <1>7, <3>2, <3>3
  <2>2. holdings' = [s \in Side |-> IF s = won THEN holdings[s] - stake
                                    ELSE holdings[s] - share]
    <3> HIDE DEF share, stake, won, lost
    <3> QED BY <1>7, <1>9, <2>1
  <2>3. wallet' = [wallet EXCEPT ![u] = @ + stake + share - 0]
    <3> HIDE DEF share, stake, won, lost
    <3> QED BY <1>7, <1>9, <2>1
  <2>4. Total(fee_account') = Total(fee_account) + 0
    <3>1. Total(fee_account) \in Nat
      BY <1>7, TotalType
    <3> QED BY <1>9, <3>1
  <2>5. Contract!Payout(u, 0)
    <3> HIDE DEF share
    <3> QED BY <1>2, <1>3, <1>4, <1>6, <1>8, <2>2, <2>3, <2>4
            DEF Contract!Payout, Contract!Side, Side
  <2> QED BY <1>1, <1>2, <1>5, <1>6, <2>5 DEF Contract!Side, Side
<1>10. CASE PayWinner(u, won, stake)
  <2>1. paid \in Nat /\ remaining \in Nat /\ paid + remaining = share
    BY <1>1, <1>5, PaymentAddsUp
  <2>2. /\ holdings' = [s \in Side |-> IF s = won THEN holdings[s] - stake
                                       ELSE holdings[s] - paid - remaining]
        /\ wallet' = [wallet EXCEPT ![u] = @ + remaining + stake]
        /\ fee_account' = [fee_account EXCEPT ![global_state.fee_wallet] = @ + paid]
    BY <1>5, <1>10 DEF PayWinner
  <2> HIDE DEF paid, remaining, share, stake, won, lost
  <2>3. holdings' = [s \in Side |-> IF s = won THEN holdings[s] - stake
                                    ELSE holdings[s] - share]
    BY <1>7, <2>1, <2>2
  <2>4. wallet' = [wallet EXCEPT ![u] = @ + stake + share - paid]
    <3>1. wallet[u] + remaining + stake = wallet[u] + stake + share - paid
      BY <1>5, <1>7, <2>1
    <3> QED BY <2>2, <3>1
  <2>5. Total(fee_account') = Total(fee_account) + paid
    <3> DEFINE w == global_state.fee_wallet
    <3>1. fee_account[w] \in Nat /\ fee_account[w] + paid \in Nat
      BY <1>1, <1>7, <2>1
    <3>2. Total(fee_account') = Total(fee_account) - fee_account[w] + (fee_account[w] + paid)
      <4>1. w \in DOMAIN fee_account
        BY <1>1
      <4>2. fee_account' = [fee_account EXCEPT ![w] = fee_account[w] + paid]
        BY <2>2
      <4> HIDE DEF w
      <4> QED BY <1>7, <3>1, <4>1, <4>2, TotalUpdate
    <3>3. Total(fee_account) \in Nat
      BY <1>7, TotalType
    <3> QED BY <2>1, <3>1, <3>2, <3>3
  <2>6. Contract!Payout(u, paid)
    BY <1>2, <1>3, <1>4, <1>6, <1>8, <2>3, <2>4, <2>5
       DEF Contract!Payout, Contract!Side, Side, stake
  <2>7. paid \in 0 .. share
    BY <1>5, <2>1
  <2> QED BY <1>1, <1>2, <1>6, <2>6, <2>7 DEF Contract!Side, Side
<1> QED BY <1>9, <1>10 DEF Claim

LEMMA DonateGives ==
  ASSUME EscrowInvariant, NEW u \in Users, NEW s \in Side, NEW n \in Donations,
         Donate(u, s, n)
  PROVE  n \in 1 .. wallet[u] /\ Contract!Gift(u, s, n)
<1>1. n \in Nat \ {0} /\ wallet[u] \in Nat
  BY EscrowAssumption DEF EscrowInvariant, TypeOK
<1>2. Result' = Result
  BY DEF Donate, accounts, Result
<1> QED BY <1>1, <1>2 DEF Donate, accounts, Contract!Gift

-----------------------------------------------------------------------------
(***************************************************************************)
(* Step simulation.                                                        *)
(***************************************************************************)
LEMMA StepIsContractStep ==
  EscrowInvariant /\ EscrowInvariant' /\ [Next]_vars => [Contract!Next]_(Contract!vars)
<1> DEFINE Simulated == Contract!Next \/ UNCHANGED Contract!vars
<1> SUFFICES ASSUME EscrowInvariant, EscrowInvariant', [Next]_vars
             PROVE  Simulated
  OBVIOUS
<1> USE DEF Simulated
<1>1. CASE UNCHANGED vars
  BY <1>1 DEF vars, accounts, balances, Contract!vars, Result
<1>2. ASSUME Next, UNCHANGED <<position, holdings, wallet, fee_account>>,
             market'.exists = market.exists, market'.amount = market.amount,
             market'.filled = market.filled
      PROVE  Simulated
  BY <1>2, NoMoneyMoves DEF Contract!Next
<1>3. market \in MarketAccount
  BY StateTypes DEF EscrowInvariant
<1>4. CASE Next /\ Tick
  BY <1>2, <1>4 DEF Tick, accounts, balances
<1>5. ASSUME Next, NEW u \in Users, NEW s \in Side, NEW n \in Donations, Donate(u, s, n)
      PROVE  Simulated
  BY <1>5, DonateGives DEF Contract!Next, Contract!Side, Side
<1>6. ASSUME Next, NEW w \in FeeWallets, CreateFeeAccount(w)
      PROVE  Simulated
  <2>1. Total(fee_account') = Total(fee_account)
    <3>1. fee_account \in [DOMAIN fee_account -> Nat]
      BY DEF EscrowInvariant, TypeOK
    <3> QED BY <1>6, <3>1, TotalExtend DEF CreateFeeAccount
  <2> QED BY <1>6, <2>1, NoMoneyMoves DEF CreateFeeAccount, accounts, Contract!Next
<1>7. ASSUME Next, NEW p \in GlobalParams,
             InitializeGlobalState(p) \/ (\E k \in Keys : SetGlobalState(k, p))
      PROVE  Simulated
  BY <1>2, <1>7 DEF InitializeGlobalState, SetGlobalState, balances
<1>8. ASSUME NEW p \in MarketParams, InitializeMarket(p)
      PROVE  Simulated
  BY <1>8, InitializeMarketOpens DEF Contract!Next
<1>9. ASSUME Next, NEW k \in Keys, ResolverAcknowledge(k)
      PROVE  Simulated
  BY <1>2, <1>3, <1>9 DEF ResolverAcknowledge, balances, MarketAccount
<1>10. ASSUME Next, NEW u \in Users, InitializeUserPosition(u)
       PROVE  Simulated
  BY <1>2, <1>10 DEF InitializeUserPosition, balances
<1>11. ASSUME NEW u \in Users, NEW p \in DepositParams, Deposit(u, p)
       PROVE  Simulated
  BY <1>11, DepositJoins DEF Contract!Next
<1>12. ASSUME Next, NEW k \in Keys, NEW o \in Outcome, UpdateState(k, o)
       PROVE  Simulated
  <2>1. /\ market'.exists = market.exists /\ market'.amount = market.amount
        /\ market'.filled = market.filled
    BY <1>3, <1>12 DEF UpdateState, Finalize, Updated, MarketAccount
  <2> QED BY <1>2, <1>12, <2>1 DEF UpdateState, balances
<1>13. ASSUME Next, NEW u \in Users, Withdraw(u)
       PROVE  Simulated
  BY <1>13, WithdrawRefunds DEF Contract!Next
<1>14. ASSUME Next, NEW u \in Users, Claim(u)
       PROVE  Simulated
  BY <1>14, ClaimPays DEF Contract!Next
<1>15. CASE Next
  BY <1>4, <1>5, <1>6, <1>7, <1>8, <1>9, <1>10, <1>11, <1>12, <1>13, <1>14, <1>15
     DEF Next
<1> QED BY <1>1, <1>15

(***************************************************************************)
(* The escrow program implements the parimutuel market.                    *)
(***************************************************************************)
THEOREM EscrowKeepsContract == Spec => ImplementsContract
<1>1. EscrowInvariant /\ EscrowInvariant' /\ [Next]_vars
        => [Contract!Next]_(Contract!vars)
  BY StepIsContractStep
<1> QED BY <1>1, InitIsContractInit, InvariantHolds, PTL
        DEF Spec, ImplementsContract, Contract!Spec

-----------------------------------------------------------------------------
(***************************************************************************)
(* No token is made or lost: what the users had is in their accounts, in   *)
(* escrow, or with the fee wallets.  It follows from the contract, whose   *)
(* steps only move tokens.                                                 *)
(***************************************************************************)
TokensInAll ==
  holdings["Yes"] + holdings["No"] + Total(wallet) + Total(fee_account)

SupplyIsConserved == TokensInAll = Total(InitialWallet)

LEMMA PurseChanges ==
  ASSUME TypeOK, TypeOK', NEW u \in Users, NEW n, wallet' = [wallet EXCEPT ![u] = n]
  PROVE  /\ Total(wallet') = Total(wallet) - wallet[u] + n
         /\ Total(wallet) \in Nat /\ wallet[u] \in Nat /\ n \in Nat
<1>1. wallet \in [Users -> Nat] /\ wallet' \in [Users -> Nat]
  BY DEF TypeOK
<1>2. wallet'[u] = n /\ n \in Nat
  BY <1>1
<1>3. IsFiniteSet(Users)
  BY EscrowAssumption
<1>4. Total([wallet EXCEPT ![u] = n]) = Total(wallet) - wallet[u] + n
  <2>1. \A f \in [Users -> Nat], m \in Nat : Total([f EXCEPT ![u] = m]) = Total(f) - f[u] + m
    BY <1>3, TotalUpdate
  <2> QED BY <1>1, <1>2, <2>1
<1>5. Total(wallet) \in Nat /\ wallet[u] \in Nat
  BY <1>1, <1>3, TotalType
<1> QED BY <1>2, <1>4, <1>5

LEMMA ContractConserves ==
  ASSUME EscrowInvariant, EscrowInvariant', Contract!Next
  PROVE  TokensInAll' = TokensInAll
<1>1. /\ TypeOK /\ TypeOK' /\ holdings \in [Side -> Nat]
      /\ Total(wallet) \in Nat /\ Total(fee_account) \in Nat
      /\ position \in [Side -> [Users -> Nat]] /\ Side = {"Yes", "No"}
      /\ holdings["Yes"] \in Nat /\ holdings["No"] \in Nat
  <2>1. TypeOK /\ TypeOK'
    BY DEF EscrowInvariant
  <2>2. /\ wallet \in [Users -> Nat] /\ IsFiniteSet(DOMAIN fee_account)
        /\ fee_account \in [DOMAIN fee_account -> Nat]
    BY <2>1, EscrowAssumption, FS_Subset DEF TypeOK
  <2> QED BY <2>1, <2>2, EscrowAssumption, TotalType, StateTypes DEF Side
<1>2. CASE UNCHANGED <<holdings, wallet>> /\ Total(fee_account)' = Total(fee_account)
  BY <1>2 DEF TokensInAll
<1>3. ASSUME NEW u \in Users, NEW yes \in Nat, NEW no \in Nat, Contract!Join(u, yes, no)
      PROVE  TokensInAll' = TokensInAll
  <2>1. /\ holdings'["Yes"] = holdings["Yes"] + yes
        /\ holdings'["No"] = holdings["No"] + no
        /\ Total(fee_account)' = Total(fee_account)
        /\ wallet' = [wallet EXCEPT ![u] = wallet[u] - yes - no]
    BY <1>1, <1>3 DEF Contract!Join, Contract!Side
  <2> DEFINE left == wallet[u] - yes - no
  <2>2. left = wallet[u] - yes - no
    OBVIOUS
  <2> HIDE DEF left
  <2>3. /\ Total(wallet') = Total(wallet) - wallet[u] + left
        /\ wallet[u] \in Nat
    BY <1>1, <2>1, <2>2, PurseChanges
  <2> QED BY <1>1, <2>1, <2>2, <2>3 DEF TokensInAll
<1>4. ASSUME NEW u \in Users, Contract!Refund(u)
      PROVE  TokensInAll' = TokensInAll
  <2> DEFINE yes == position["Yes"][u]
             no == position["No"][u]
  <2>1. /\ holdings'["Yes"] = holdings["Yes"] - yes
        /\ holdings'["No"] = holdings["No"] - no
        /\ Total(fee_account)' = Total(fee_account)
        /\ wallet' = [wallet EXCEPT ![u] = wallet[u] + yes + no]
        /\ yes \in Nat /\ no \in Nat
    BY <1>1, <1>4 DEF Contract!Refund, Contract!Side
  <2> DEFINE left == wallet[u] + yes + no
  <2>2. left = wallet[u] + yes + no
    OBVIOUS
  <2> HIDE DEF yes, no, left
  <2>3. /\ Total(wallet') = Total(wallet) - wallet[u] + left
        /\ wallet[u] \in Nat
    BY <1>1, <2>1, <2>2, PurseChanges
  <2> QED BY <1>1, <2>1, <2>2, <2>3 DEF TokensInAll
<1>5. ASSUME NEW u \in Users, Result \in Side, NEW fee \in 0 .. Contract!Share(u),
             Contract!Payout(u, fee)
      PROVE  TokensInAll' = TokensInAll
  <2> DEFINE stake == position[Result][u]
             share == Contract!Share(u)
             lost == Other(Result)
  <2>1. /\ holdings'[Result] = holdings[Result] - stake
        /\ holdings'[lost] = holdings[lost] - share
        /\ Total(fee_account)' = Total(fee_account) + fee
        /\ wallet' = [wallet EXCEPT ![u] = wallet[u] + stake + share - fee]
        /\ lost \in Side /\ lost # Result /\ stake \in Nat
    BY <1>1, <1>5 DEF Contract!Payout, Contract!Side, Other
  <2>2. share \in Nat /\ fee \in Nat
    <3>1. /\ market.amount[Result] \in Nat \ {0} /\ market.amount[lost] \in Nat
      BY <1>1, <1>5, <2>1, StateTypes DEF Result, TypeOK, Side
    <3>2. share = (stake * market.amount[lost]) \div market.amount[Result]
      BY DEF Contract!Share, Contract!Other, Other
    <3> HIDE DEF stake, lost
    <3>3. stake * market.amount[lost] \in Nat
      BY <2>1, <3>1, ProductType
    <3>4. share \in Nat
      BY <3>1, <3>2, <3>3, DivisionAlgorithm
    <3> HIDE DEF share
    <3>5. fee \in 0 .. share
      BY <1>5 DEF share
    <3> QED BY <3>4, <3>5
  <2> DEFINE left == wallet[u] + stake + share - fee
  <2>5. left = wallet[u] + stake + share - fee
    OBVIOUS
  <2> HIDE DEF stake, share, lost, left
  <2>3. Total(wallet') = Total(wallet) + stake + share - fee
    <3>1. /\ Total(wallet') = Total(wallet) - wallet[u] + left
          /\ wallet[u] \in Nat
      BY <1>1, <2>1, <2>5, PurseChanges
    <3> QED BY <1>1, <2>1, <2>2, <2>5, <3>1
  <2>4. /\ \/ Result = "Yes" /\ lost = "No"
           \/ Result = "No" /\ lost = "Yes"
        /\ holdings[Result] \in Nat /\ holdings[lost] \in Nat
    BY <1>1, <1>5, <2>1
  <2> QED BY <1>1, <2>1, <2>2, <2>3, <2>4 DEF TokensInAll
<1>6. ASSUME NEW u \in Users, NEW s \in Side, NEW n \in Nat, Contract!Gift(u, s, n)
      PROVE  TokensInAll' = TokensInAll
  <2>1. /\ holdings' = [holdings EXCEPT ![s] = holdings[s] + n]
        /\ Total(fee_account)' = Total(fee_account)
        /\ wallet' = [wallet EXCEPT ![u] = wallet[u] - n]
    BY <1>6 DEF Contract!Gift
  <2>2. Total(wallet') = Total(wallet) - n
    <3> DEFINE left == wallet[u] - n
    <3>1. left = wallet[u] - n
      OBVIOUS
    <3> HIDE DEF left
    <3>2. /\ Total(wallet') = Total(wallet) - wallet[u] + left
          /\ wallet[u] \in Nat
      BY <1>1, <2>1, <3>1, PurseChanges
    <3> QED BY <1>1, <3>1, <3>2
  <2>3. holdings'["Yes"] + holdings'["No"] = holdings["Yes"] + holdings["No"] + n
    BY <1>1, <2>1
  <2> QED BY <1>1, <2>1, <2>2, <2>3 DEF TokensInAll
<1>7. CASE (\E t \in {p.amount : p \in MarketParams} : Contract!Open(t)) \/ Contract!Settle
  BY <1>2, <1>7 DEF Contract!Open, Contract!Settle
<1> QED BY <1>1, <1>3, <1>4, <1>5, <1>6, <1>7 DEF Contract!Next, Contract!Side

(***************************************************************************)
(* No token is made or lost, by any sequence of instructions.              *)
(***************************************************************************)
THEOREM NoTokenIsLost == Spec => []SupplyIsConserved
<1>1. Init => SupplyIsConserved
  <2> SUFFICES ASSUME Init PROVE SupplyIsConserved
    OBVIOUS
  <2>1. Total(fee_account) = 0
    <3>1. fee_account \in [{} -> Nat]
      BY DEF Init
    <3> QED BY <3>1, TotalZero
  <2>2. holdings["Yes"] = 0 /\ holdings["No"] = 0 /\ wallet = InitialWallet
    BY DEF Init, Side
  <2>3. Total(wallet) \in Nat
    BY <2>2, EscrowAssumption, TotalType
  <2> QED BY <2>1, <2>2, <2>3 DEF SupplyIsConserved, TokensInAll
<1>2. EscrowInvariant /\ EscrowInvariant' /\ [Next]_vars /\ SupplyIsConserved
        => SupplyIsConserved'
  <2> SUFFICES ASSUME EscrowInvariant, EscrowInvariant', [Next]_vars
               PROVE  TokensInAll' = TokensInAll
    BY DEF SupplyIsConserved
  <2>1. CASE UNCHANGED Contract!vars
    BY <2>1 DEF Contract!vars, TokensInAll
  <2> QED BY <2>1, StepIsContractStep, ContractConserves
<1> QED BY <1>1, <1>2, InvariantHolds, PTL DEF Spec

(***************************************************************************)
(* So every balance fits the u64 it is stored in, and the checked addition *)
(* with which the token program receives a transfer never fails, for which *)
(* reason the actions of Escrow have no guard for it.                      *)
(***************************************************************************)
BalancesFit ==
  /\ \A s \in Side : holdings[s] \in U64
  /\ \A u \in Users : wallet[u] \in U64
  /\ \A w \in DOMAIN fee_account : fee_account[w] \in U64

(***************************************************************************)
(* Every balance fits its u64 in every reachable state.                    *)
(***************************************************************************)
THEOREM BalancesAlwaysFit == Spec => []BalancesFit
<1>1. ASSUME TypeOK, SupplyIsConserved PROVE BalancesFit
  <2>1. /\ holdings["Yes"] \in Nat /\ holdings["No"] \in Nat
        /\ wallet \in [Users -> Nat] /\ IsFiniteSet(DOMAIN fee_account)
        /\ fee_account \in [DOMAIN fee_account -> Nat]
    BY <1>1, EscrowAssumption, FS_Subset DEF TypeOK, Side
  <2>2. /\ Total(wallet) \in Nat /\ \A u \in Users : wallet[u] <= Total(wallet)
        /\ Total(fee_account) \in Nat
        /\ \A w \in DOMAIN fee_account : fee_account[w] <= Total(fee_account)
    BY <2>1, EscrowAssumption, TotalType
  <2>3. TokensInAll <= U64_MAX
    BY <1>1, EscrowAssumption, U64Facts, <2>1, <2>2 DEF SupplyIsConserved, TokensInAll
  <2>4. /\ holdings["Yes"] <= U64_MAX /\ holdings["No"] <= U64_MAX
        /\ Total(wallet) <= U64_MAX /\ Total(fee_account) <= U64_MAX
    BY <2>1, <2>2, <2>3, U64Facts DEF TokensInAll
  <2> QED BY <2>1, <2>2, <2>4, U64Facts DEF BalancesFit, Side
<1>2. TypeOK /\ SupplyIsConserved => BalancesFit
  BY <1>1
<1> QED BY <1>2, TypeCorrect, NoTokenIsLost, PTL

=============================================================================
