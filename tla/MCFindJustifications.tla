------------------------ MODULE MCFindJustifications ------------------------
(***************************************************************************)
(* FindJustifications for TLC: a first epoch of two blocks, an epoch of a  *)
(* single block, then a longer one.  Block 3 is an epoch end block whose   *)
(* justification reaches the indexer too.                                  *)
(***************************************************************************)
EXTENDS FindJustifications, TLC

SetIdTable == 0 :> 0 @@ 1 :> 0 @@ 2 :> 1 @@ 3 :> 2 @@ 4 :> 2 @@ 5 :> 2
              @@ 6 :> 3 @@ 7 :> 3

MCSetId == SetIdTable
MCJustified == {1, 3, 5}
=============================================================================
