------------------------------ MODULE NftFloor ------------------------------
(***************************************************************************)
(* The hyperspace-resolver program (programs/hyperspace-resolver) beside   *)
(* the escrow program.  The resolver of a market is here an account that   *)
(* only this program can sign for (a PDA derived from the market's key):   *)
(* it stores a floor price and an authority, and turns the authority's     *)
(* reports of the current floor price into calls of update_state.          *)
(***************************************************************************)
EXTENDS EscrowProperties

CONSTANTS
  Pda,             \* the address of the resolver account
  NoPrice,         \* None: the collection has no floor price
  MinimumBalance,  \* Rent::minimum_balance of the account, by its project ID
  InitialLamports, \* the balances of native tokens at the start
  Reports,         \* the values of current_floor_price that are tried
  FloorParams,     \* the parameters of initialize_nft_floor
  Gifts            \* the lamports sent to the resolver account unasked

\* A PDA has no private key: it neither holds positions nor creates markets.
Signers == Keys \ {Pda}

ProjectIds == DOMAIN MinimumBalance

ASSUME FloorAssumption ==
  /\ Pda \in Keys \ Users
  /\ MinimumBalance \in [ProjectIds -> Nat \ {0}]
  /\ InitialLamports \in [Keys -> Nat]
  /\ NoPrice \notin Nat
  /\ Reports \subseteq U64 \cup {NoPrice}
  /\ FloorParams \subseteq
       [authority : Keys, floor_price : U64, project_id : ProjectIds]
  /\ Gifts \subseteq Nat \ {0}

VARIABLES
  nft_floor,  \* the NftFloor account at Pda
  lamports,   \* native balance of each key, the resolver account included
  reported    \* history: the last report made while the market was open

floorVars == <<nft_floor, lamports, reported>>

NoFloor == [exists |-> FALSE, authority |-> NoKey, floor_price |-> 0,
            project_id |-> NoKey, acknowledged |-> FALSE]

FloorInit ==
  /\ Init
  /\ nft_floor = NoFloor
  /\ lamports = InitialLamports
  /\ reported = [made |-> FALSE, price |-> NoPrice, at |-> 0]

-----------------------------------------------------------------------------
(***************************************************************************)
(* The instructions of the escrow program, signed by anybody but the PDA.  *)
(***************************************************************************)
EscrowStep ==
  /\ \/ Tick
     \/ \E u \in Users, s \in Side, n \in Donations : Donate(u, s, n)
     \/ \E w \in FeeWallets : CreateFeeAccount(w)
     \/ \E p \in GlobalParams : InitializeGlobalState(p)
     \/ \E k \in Signers, p \in GlobalParams : SetGlobalState(k, p)
     \/ \E p \in MarketParams : p.creator \in Signers /\ InitializeMarket(p)
     \/ \E k \in Signers : ResolverAcknowledge(k)
     \/ \E u \in Users : InitializeUserPosition(u)
     \/ \E u \in Users, p \in DepositParams : Deposit(u, p)
     \/ \E k \in Signers, o \in Outcome : UpdateState(k, o)
     \/ \E u \in Users : Withdraw(u)
     \/ \E u \in Users : Claim(u)
  /\ UNCHANGED floorVars

\* Anyone may send lamports to the resolver account, created or not.
SendLamports(k, n) ==
  /\ lamports[k] >= n
  /\ lamports' = [lamports EXCEPT ![k] = @ - n, ![Pda] = @ + n]
  /\ UNCHANGED <<vars, nft_floor, reported>>

-----------------------------------------------------------------------------
(***************************************************************************)
(* The account is created, or topped up to be exempt from rent if somebody *)
(* has sent lamports to its address before, and then allocated.  Neither   *)
(* create_account nor allocate accepts an account that is in use.          *)
(***************************************************************************)
\* Bug: an account that is in use is initialised again.
CanAllocateAgain == TRUE
CanAllocate == ~nft_floor.exists

\* What the creator pays for an account that holds this much.  (No minimum
\* balance is 0, so that the max(1) of the top-up changes nothing.)
\* Bug: an account that holds something is not topped up.
ChargeIfEmpty(required, held) == IF held = 0 THEN required ELSE 0
Charge(required, held) == IF held < required THEN required - held ELSE 0

InitResolver(creator, project_id) ==
  LET charge == Charge(MinimumBalance[project_id], lamports[Pda])
  IN  /\ CanAllocate
      /\ lamports[creator] >= charge
      /\ lamports' = [lamports EXCEPT ![creator] = @ - charge, ![Pda] = @ + charge]

\* Bug: the authority is not stored.
NewFloorWithoutAuthority(p) ==
  [NoFloor EXCEPT !.exists = TRUE, !.floor_price = p.floor_price,
                  !.project_id = p.project_id]
NewFloor(p) ==
  [exists |-> TRUE, authority |-> p.authority, floor_price |-> p.floor_price,
   project_id |-> p.project_id, acknowledged |-> FALSE]

\* The program signs the acknowledgement of the market for the PDA.
InitializeNftFloor(signer, p) ==
  /\ market.exists
  /\ market.resolver = Pda
  /\ signer = market.creator
  /\ market.expiry_ts > now
  /\ InitResolver(signer, p.project_id)
  /\ nft_floor' = NewFloor(p)
  /\ ResolverAcknowledge(Pda)
  /\ UNCHANGED reported

AcknowledgeNftFloor(signer) ==
  /\ nft_floor.exists
  /\ signer = nft_floor.authority
  /\ ~nft_floor.acknowledged
  /\ nft_floor' = [nft_floor EXCEPT !.acknowledged = TRUE]
  /\ UNCHANGED <<vars, lamports, reported>>

-----------------------------------------------------------------------------
(***************************************************************************)
(* A report by the authority.  The program signs update_state for the PDA; *)
(* on a market that is final already that call succeeds all the same, and  *)
(* the report is lost.                                                     *)
(***************************************************************************)
\* Bug: Yes only above the floor price.
VerdictAbove(price) ==
  IF price = NoPrice THEN "Invalid"
  ELSE IF price > nft_floor.floor_price THEN "Yes" ELSE "No"
Verdict(price) ==
  IF price = NoPrice THEN "Invalid"
  ELSE IF price >= nft_floor.floor_price THEN "Yes" ELSE "No"

Resolve(outcome) == UpdateState(Pda, outcome)

\* Bug: a report before the expiry is accepted.
CanResolveEarly(signer) ==
  /\ nft_floor.exists
  /\ signer = nft_floor.authority
CanResolve(signer) ==
  /\ nft_floor.exists
  /\ signer = nft_floor.authority
  /\ market.expiry_ts <= now

ResolveNftFloor(signer, price) ==
  /\ CanResolve(signer)
  /\ Resolve(Verdict(price))
  /\ reported' = IF Due(market, now) THEN reported
                 ELSE [made |-> TRUE, price |-> price, at |-> now]
  /\ UNCHANGED <<nft_floor, lamports>>

-----------------------------------------------------------------------------
FloorNext ==
  \/ EscrowStep
  \/ \E k \in Signers, n \in Gifts : SendLamports(k, n)
  \/ \E k \in Signers, p \in FloorParams : InitializeNftFloor(k, p)
  \/ \E k \in Signers : AcknowledgeNftFloor(k)
  \/ \E k \in Signers, price \in Reports : ResolveNftFloor(k, price)

FloorSpec == FloorInit /\ [][FloorNext]_<<vars, floorVars>>

-----------------------------------------------------------------------------
(***************************************************************************)
(* The type invariant: the account holds nothing until it is initialised,  *)
(* and then it names the authority of a market that exists.                *)
(***************************************************************************)
FloorTypeOK ==
  /\ IF nft_floor.exists
     THEN /\ nft_floor \in [exists : BOOLEAN, authority : Keys, floor_price : U64,
                            project_id : ProjectIds, acknowledged : BOOLEAN]
          /\ market.exists /\ market.resolver = Pda
     ELSE nft_floor = NoFloor
  /\ lamports \in [Keys -> Nat]
  /\ reported \in [made : BOOLEAN, price : U64 \cup {NoPrice}, at : Nat]

\* The market names the account of this program as its resolver.
FloorMarket == market.exists /\ market.resolver = Pda

\* The last report that was in time, against the floor price stored now.
ReportedOutcome ==
  IF reported.price = NoPrice THEN "Invalid"
  ELSE IF reported.price < nft_floor.floor_price THEN "No" ELSE "Yes"

(***************************************************************************)
(* The outcome of such a market is what the last report that was in time   *)
(* says, measured against the floor price stored in the account now, from  *)
(* the moment of the report to the end: finalization does not replace it,  *)
(* a late report does not change it, and the resolution delay counts from  *)
(* it.  Without a report the market never becomes anything but Invalid,    *)
(* and that by finalization only.                                          *)
(***************************************************************************)
OutcomeFollowsReport ==
  FloorMarket =>
    IF reported.made
    THEN /\ reported.at >= market.expiry_ts
         /\ market.outcome_ts = reported.at
         /\ market.outcome = ReportedOutcome
    ELSE market.outcome = IF market.finalized THEN "Invalid" ELSE "Open"

(***************************************************************************)
(* Nobody is ever paid, by a claim or by a withdrawal, on anything but the *)
(* last report that was in time: a payment may be the very instruction     *)
(* that flags the market, and the stored outcome is read before that and   *)
(* after it.                                                               *)
(***************************************************************************)
PaidAsReported ==
  [][FloorMarket /\ (\E u \in Users : HasPosition(u) /\ ~HasPosition(u)') =>
       market'.outcome = IF reported.made THEN ReportedOutcome ELSE "Invalid"]_<<vars, floorVars>>

(***************************************************************************)
(* Depositors have the resolution delay to object to the last report: a    *)
(* market is final with it only after it stood that long, or past the last *)
(* deadline; and reporting again starts the delay again.                   *)
(***************************************************************************)
ReportStands ==
  FloorMarket /\ reported.made /\ Due(market, now) =>
    \/ now >= reported.at + market.resolution_delay
    \/ now >= market.expiry_ts + MAX_DELAY_SEC

(***************************************************************************)
(* The acknowledgement that depositors see in the market means that the    *)
(* terms of the resolution are on chain, and the other way round: nobody   *)
(* can acknowledge in the name of an account that is not initialised, and  *)
(* the authority's own acknowledgement comes after.                        *)
(***************************************************************************)
AcknowledgedMeansInitialized ==
  /\ FloorMarket => (market.acknowledged <=> nft_floor.exists)
  /\ nft_floor.acknowledged => market.acknowledged

(***************************************************************************)
(* The account is exempt from rent for the size of its project ID, however *)
(* much was sent to its address before: it is never collected, and the     *)
(* terms stay on chain as long as the market needs them.                   *)
(***************************************************************************)
AccountIsRentExempt ==
  nft_floor.exists => lamports[Pda] >= MinimumBalance[nft_floor.project_id]

(***************************************************************************)
(* The terms on which users deposit are final: neither the creator nor the *)
(* authority can change the floor price, the collection or the authority   *)
(* once they are written, or take the authority's acknowledgement back.    *)
(***************************************************************************)
TermsAreFixed ==
  [][nft_floor.exists =>
       \/ nft_floor' = nft_floor
       \/ nft_floor' = [nft_floor EXCEPT !.acknowledged = TRUE]]_<<vars, floorVars>>

(***************************************************************************)
(* The inductive invariant.  A report in time came after the closing time  *)
(* and was not rejected, so both sides of the market were filled by then.  *)
(***************************************************************************)
FloorInvariant ==
  /\ FloorTypeOK
  /\ reported.made => /\ nft_floor.exists
                      /\ \A s \in Side : market.filled[s] = market.amount[s]
                      /\ now >= market.expiry_ts
  /\ OutcomeFollowsReport
  /\ AcknowledgedMeansInitialized
  /\ AccountIsRentExempt

=============================================================================
