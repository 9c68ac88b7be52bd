----------------------------- MODULE MCOperator -----------------------------
(***************************************************************************)
(* Instances of Operator for TLC: the first epoch is longer than the       *)
(* circuits, the second is short, and the justification of one             *)
(* ideal block never reaches the indexer.                                  *)
(***************************************************************************)
EXTENDS Operator, TLC

CONSTANTS SmallRange, LargeRange, Rotate1, GatewayA

MCSetId == 0 :> 0 @@ 1 :> 0 @@ 2 :> 0 @@ 3 :> 0 @@ 4 :> 0 @@ 5 :> 1 @@ 6 :> 1
           @@ 7 :> 2

\* A shorter chain, for the run with guardian transactions.
ShortSetId == 0 :> 0 @@ 1 :> 0 @@ 2 :> 0 @@ 3 :> 1 @@ 4 :> 2

MCJustified == {3, 4}
ShortJustified == {2}

OneTreeSize == LargeRange :> 2
TwoTreeSizes == SmallRange :> 1 @@ LargeRange :> 2

OneHeaderRange == {LargeRange}
TwoHeaderRanges == {SmallRange, LargeRange}
OneRotate == {Rotate1}
OneGateway == {GatewayA}
=============================================================================
