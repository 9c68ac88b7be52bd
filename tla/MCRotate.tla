------------------------------ MODULE MCRotate ------------------------------
(***************************************************************************)
(* Rotate for TLC: block numbers on both sides of every boundary of the    *)
(* compact encoding, sets of 1, 15 and 64 authorities, whose logs and      *)
(* counts are encoded with different lengths, and headers with logs of     *)
(* BABE, one of them of the same shape as GRANDPA's, before and after.     *)
(***************************************************************************)
EXTENDS Rotate, TLC

Key(kind, i) == <<kind, 100 + i>>
Keys(kind, n) == [i \in 1 .. n |-> Key(kind, i)]

AuthorityTable ==
    0 :> Keys(210, 2) @@ 1 :> Keys(211, 1) @@ 2 :> Keys(212, 15)
    @@ 3 :> Keys(213, 64) @@ 4 :> Keys(214, 3)

PreRuntime == DigestItem(PRE_RUNTIME, BABE, <<2, 9, 9>>)
BabeAnnouncement == NextEpochData(Keys(220, 2), <<0, 0>>)
Seal == DigestItem(SEAL, BABE, <<9, 9, 9>>)
Announcement(id) == ScheduledChange(AuthorityTable[id])

HeaderOf(i, number, signer, logs) ==
    [number |-> number, signer |-> signer, hash |-> <<230, i>>,
     parent_hash |-> <<230, i - 1>>, state_root |-> <<231, i>>,
     extrinsics_root |-> <<232, i>>, logs |-> logs,
     extension |-> <<233, 233, 0>>, data_root |-> <<234, i>>]

HeaderTable ==
    63 :> HeaderOf(1, 63, 0, <<PreRuntime, BabeAnnouncement, Seal>>)
    @@ 64 :> HeaderOf(2, 64, 0, <<PreRuntime, Announcement(1), Seal>>)
    @@ 2 ^ 14 - 1 :> HeaderOf(3, 2 ^ 14 - 1, 1,
                              <<PreRuntime, BabeAnnouncement, Announcement(2), Seal>>)
    @@ 2 ^ 14 :> HeaderOf(4, 2 ^ 14, 2,
                          <<PreRuntime, Announcement(3), BabeAnnouncement, Seal>>)
    @@ 2 ^ 30 - 1 :> HeaderOf(5, 2 ^ 30 - 1, 3, <<PreRuntime, BabeAnnouncement, Seal>>)
    @@ 2 ^ 30 :> HeaderOf(6, 2 ^ 30, 3, <<Announcement(4), Seal>>)

MCHeader == HeaderTable
MCAuthorities == AuthorityTable

\* Zeros, or the flag of a consensus log in every byte.
MCAnyPadding == {Zeros(MAX_HEADER_SIZE), [i \in 1 .. MAX_HEADER_SIZE |-> CONSENSUS]}
=============================================================================
