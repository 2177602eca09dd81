------------------------------ MODULE MCFloor ------------------------------
(***************************************************************************)
(* A small instance of the two programs together: one user who can fill a  *)
(* market alone, and one key that creates markets, reports floor prices    *)
(* and owns the global state.                                              *)
(***************************************************************************)
EXTENDS NftFloor

CONSTANTS u, r, pda, fw, none

FloorKeys == {u, r, pda}
FloorUsers == {u}
FloorFeeWallets == {fw}
FloorWallet == [k \in FloorUsers |-> 2]

OneEach == [s \in Side |-> 1]

\* Two that this program resolves, one with a delay long enough for a second
\* report and shorter than MAX_DELAY_SEC, one with none; and one that it does
\* not resolve.
FloorMarketParams ==
  {[creator |-> r, resolver |-> k, amount |-> OneEach, close_ts |-> 2,
    expiry_ts |-> 3, resolution_delay |-> d] : <<k, d>> \in {<<pda, 2>>, <<pda, 0>>, <<r, 1>>}}

FloorGlobalParams == [owner : {r}, fee_cut_bps : {3}, fee_wallet : {fw}]
FloorDepositParams == {[amount |-> OneEach, allow_partial |-> FALSE]}
FloorDonations == {1}

\* A project ID that needs more lamports than another; the creator can pay
\* for the dearer one only if somebody has sent one before.
FloorMinimumBalance == [short |-> 2, long |-> 4]
FloorLamports == [k \in FloorKeys |-> IF k = r THEN 3 ELSE IF k = u THEN 2 ELSE 0]
FloorFloorParams ==
  {[authority |-> r, floor_price |-> 1, project_id |-> "short"],
   [authority |-> u, floor_price |-> 2, project_id |-> "short"],
   [authority |-> r, floor_price |-> 1, project_id |-> "long"]}
FloorReports == {0, 1, none}
FloorGifts == {1}

=============================================================================
