----------------------------- MODULE MCVectorX -----------------------------
(***************************************************************************)
(* VectorX for TLC: an Avail chain with epoch ends at heights 2 and 3, two *)
(* header range circuits of different size and two gateways.               *)
(***************************************************************************)
EXTENDS VectorX, TLC

CONSTANTS HeaderRange2, HeaderRange4, Rotate1, GatewayA, GatewayB

SetIdTable == 0 :> 0 @@ 1 :> 0 @@ 2 :> 1 @@ 3 :> 2 @@ 4 :> 2
MCSetId == SetIdTable

TreeSizeTable == HeaderRange2 :> 2 @@ HeaderRange4 :> 4
MCTreeSizeOf == TreeSizeTable

TwoHeaderRanges == {HeaderRange2, HeaderRange4}
OneRotate == {Rotate1}
TwoGateways == {GatewayA, GatewayB}

\* The gateways are interchangeable.
Symmetry == Permutations(TwoGateways)
=============================================================================
