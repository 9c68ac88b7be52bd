--------------------------- MODULE MCHeaderRange ---------------------------
(***************************************************************************)
(* HeaderRange for TLC: a finalized chain of blocks 0 .. 9, a fork of two  *)
(* blocks, and a header whose number does not follow its parent's.  Ranges *)
(* of the repository's prover fill the tree of eight leaves, those of an   *)
(* untrusted one end by block 6, inside the third of four batches.         *)
(***************************************************************************)
EXTENDS HeaderRange, TLC

CONSTANTS C0, C1, C2, C3, C4, C5, C6, C7, C8, C9, Fork3, Fork4, Skip5, Empty

Chain == 0 :> C0 @@ 1 :> C1 @@ 2 :> C2 @@ 3 :> C3 @@ 4 :> C4 @@ 5 :> C5 @@ 6 :> C6
         @@ 7 :> C7 @@ 8 :> C8 @@ 9 :> C9

MCHeaders == {C0, C1, C2, C3, C4, C5, C6, C7, C8, C9, Fork3, Fork4, Skip5, Empty}

MCAnyHeaders == MCHeaders \ {C0, C7, C8, C9}

NumberTable ==
    [n \in {C0, C1, C2, C3, C4, C5, C6, C7, C8, C9} |->
        CHOOSE i \in 0 .. 9 : Chain[i] = n]
    @@ Fork3 :> 3 @@ Fork4 :> 4 @@ Skip5 :> 5 @@ Empty :> 0

ParentTable ==
    C0 :> ZeroHash @@ C1 :> C0 @@ C2 :> C1 @@ C3 :> C2 @@ C4 :> C3 @@ C5 :> C4 @@ C6 :> C5
    @@ C7 :> C6 @@ C8 :> C7 @@ C9 :> C8
    @@ Fork3 :> C2 @@ Fork4 :> Fork3
    @@ Skip5 :> C3 @@ Empty :> ZeroHash

\* Block 4 is an epoch end.
SignerTable == [n \in 0 .. 9 |-> IF n <= 4 THEN 0 ELSE 1]

MCNumberOf == NumberTable
MCParentOf == ParentTable
MCSignerOf == SignerTable

\* An untrusted prover starts from the header of block 1; the forks
\* and gaps all come after it.
MCInit == Init /\ (prover = "any" => trusted_header = C1)
MCSpec == MCInit /\ [][Next]_vars /\ Fairness
=============================================================================
