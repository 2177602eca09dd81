------------------------------ MODULE MCEscrow ------------------------------
(***************************************************************************)
(* Small instances of the escrow program for TLC.                          *)
(***************************************************************************)
EXTENDS EscrowProperties, TLC

CONSTANTS u1, u2, r, fw, fw2   \* two users, a resolver (and owner), fee wallets

MCKeys == {u1, u2, r}
MCUsers == {u1, u2}
MCFeeWallets == {fw}
Symmetry == Permutations(MCUsers)

Amounts(yes, no) == [s \in Side |-> IF s = "Yes" THEN yes ELSE no]

\* The markets are funded with 2 on Yes and 3 on No: the shares of two
\* winners are fractional.
Times(close, expiry, delay) ==
  [creator |-> r, resolver |-> r, amount |-> Amounts(2, 3),
   close_ts |-> close, expiry_ts |-> expiry, resolution_delay |-> delay]

\* No user can fill a market alone, two can.
MCInitialWallet == [u \in MCUsers |-> 3]

-----------------------------------------------------------------------------
(***************************************************************************)
(* The instance of the safety run.                                         *)
(***************************************************************************)
\* A fee of 30%, of everything, and one that must be refused.
MCGlobalParams == [owner : {r}, fee_cut_bps : {3, 10, 11}, fee_wallet : {fw}]

\* Closing at once; a delay shorter and one longer than MAX_DELAY_SEC; an
\* expiry whose deadline overflows.  (Zero delays are in MCWindow.)
MCMarketParams ==
  {Times(1, 1, 0), Times(2, 3, 1), Times(2, 2, 3), Times(3, 254, 1)}

\* Single units, and partial deposits that may be above what is left.
MCDepositParams ==
  {[amount |-> Amounts(1, 0), allow_partial |-> FALSE],
   [amount |-> Amounts(0, 2), allow_partial |-> FALSE],
   [amount |-> Amounts(2, 3), allow_partial |-> TRUE],
   [amount |-> Amounts(1, 3), allow_partial |-> TRUE]}

MCDonations == {1}

-----------------------------------------------------------------------------
(***************************************************************************)
(* The smaller instance of the liveness run and of the runs that show      *)
(* where the code and its comments part.                                   *)
(***************************************************************************)
LiveFeeWallets == {fw, fw2}

\* The owner moves the fee back and forth between two wallets.
LiveGlobalParams == [owner : {r}, fee_cut_bps : {3}, fee_wallet : LiveFeeWallets]

\* The deadlines of the first two are within the clock, that of the third is
\* not; the second is final before it expires if set Invalid early.
LiveMarketParams == {Times(2, 2, 3), Times(2, 3, 0), Times(3, 254, 1)}

\* Both users may bet on both sides, so that both win, with rounded shares;
\* or one of them on No alone, which the other wins from or loses to.
LiveDepositParams ==
  {[amount |-> Amounts(1, 2), allow_partial |-> TRUE],
   [amount |-> Amounts(0, 3), allow_partial |-> FALSE]}

LiveDonations == {}

\* The users can fill the market with all they have.  (For the run without
\* symmetry.)
LiveInitialWallet == [u \in MCUsers |-> IF u = u1 THEN 3 ELSE 2]

=============================================================================
