-------------------------- MODULE MCFillBlockRange --------------------------
(***************************************************************************)
(* FillBlockRange for TLC: an Avail chain with epoch ends at heights 2 and *)
(* 4 and two header range circuits.                                        *)
(***************************************************************************)
EXTENDS FillBlockRange, TLC

CONSTANTS HeaderRange2, HeaderRange4, Rotate1, GatewayA

MCSetId == 0 :> 0 @@ 1 :> 0 @@ 2 :> 1 @@ 3 :> 1 @@ 4 :> 2

MCTreeSizeOf == HeaderRange2 :> 2 @@ HeaderRange4 :> 4
HeaderRanges == {HeaderRange2, HeaderRange4}
Rotates == {Rotate1}
AllGateways == {GatewayA}
=============================================================================
