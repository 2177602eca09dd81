----------------------------- MODULE MCFloorDoc -----------------------------
(***************************************************************************)
(* The two programs with an authority that tells the truth: it reports the *)
(* floor price of the moment, as ResolveNftFloorParams asks, while the     *)
(* price drops after the expiry.                                           *)
(***************************************************************************)
EXTENDS MCFloor

FloorPriceAt(t) == IF t <= 3 THEN 1 ELSE 0

TruthfulReport == reported' = reported \/ reported'.price = FloorPriceAt(now)

TruthfulSpec == FloorInit /\ [][FloorNext /\ TruthfulReport]_<<vars, floorVars>>

(***************************************************************************)
(* nft_floor.rs:9: "The market will be resolved to [`Yes`] if the NFT      *)
(* floor price at [`timestamp`] is greater than or equal to                *)
(* [`floor_price`]."                                                       *)
(***************************************************************************)
ResolvedByPriceAtExpiry ==
  FloorMarket /\ market.finalized /\ market.outcome \in Side =>
    (market.outcome = "Yes"
       <=> FloorPriceAt(market.expiry_ts) >= nft_floor.floor_price)

=============================================================================
