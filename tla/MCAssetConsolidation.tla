----------------------- MODULE MCAssetConsolidation -----------------------
(* Small instances of AssetConsolidation for TLC. *)
EXTENDS AssetConsolidation

\* A position and the fund.
TwoAssets == {"pos", "fund"}
TwoRanks  == [a \in TwoAssets |-> IF a = "pos" THEN 1 ELSE 2]
TwoKeys   == [a \in TwoAssets |-> a]
TwoHoldings == {[a \in TwoAssets |-> IF a = "pos" THEN 2 ELSE 1]}
TwoBase == [k \in TwoAssets |-> IF k = "fund" THEN 1 ELSE 0]
===========================================================================
