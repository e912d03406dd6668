----------------------------- MODULE WriteHelper -----------------------------
(***************************************************************************)
(* write_helper_t (proxy.cpp 72-138) on the group vectors themselves, not  *)
(* on sets of groups, so that an explicit group list naming a group twice  *)
(* is what the code makes of it. The session is assumed to send one        *)
(* request per entry of the groups it is given and to return one entry per *)
(* error-free reply, tagged with the entry's group.                        *)
(*                                                                         *)
(* A chunked upload of two chunks: the prepare to lgroups, then the commit *)
(* to the surviving groups, then the acceptance test and the compensation  *)
(* of write_impl (652-696). A reply vector gives "ok" or "fail" per entry  *)
(* of the vector a call was sent to.                                       *)
(***************************************************************************)
EXTENDS Integers, Sequences, SequencesExt, Bags, SuccessCopies

\* The groups of the error-free entries of a call to the vector groups.
Survivors(groups, replies) ==
    LET sent == [i \in 1..Len(groups) |-> <<groups[i], replies[i]>>]
    IN [i \in 1..Len(SelectSeq(sent, LAMBDA e : e[2] = "ok")) |->
            SelectSeq(sent, LAMBDA e : e[2] = "ok")[i][1]]

\* update_lookup: upload_groups becomes the groups of the entries, one per
\* entry.
update_lookup(groups, replies) == Survivors(groups, replies)

\* upload_is_good() counts the entries of upload_groups.
helper_upload_is_good(scn, rc, upload) == upload_is_good(scn, rc, Len(upload))

\* has_incomplete_groups compares the sizes of the two vectors.
has_incomplete_groups(desired, upload) == Len(desired) # Len(upload)

\* get_incomplete_groups: both vectors sorted, then std::set_difference,
\* which on sorted vectors with repeats is the multiset difference.
get_incomplete_groups(desired, upload) == ToBag(desired) (-) ToBag(upload)

\* write_impl on the chunked path with these helpers (652-696): the prepare
\* to lgroups, the commit to the surviving groups if the prepare was good,
\* the acceptance test and the compensation. A call no entry answers
\* without error throws from .get() and nothing is removed. The result: the
\* groups the commit reports, whether the upload is accepted, and the
\* groups a remove of the key is sent to.
ChunkedUpload(scn, rc, lgroups, prep, comm) ==
    LET up1 == update_lookup(lgroups, prep)
        up2 == update_lookup(up1, comm)
        good1 == helper_upload_is_good(scn, rc, up1)
        final == IF good1 THEN up2 ELSE up1
        thrown == up1 = <<>> \/ (good1 /\ up2 = <<>>)
        good == ~thrown /\ helper_upload_is_good(scn, rc, final)
    IN [reported |-> IF good THEN final ELSE <<>>,
        accepted |-> good,
        removed  |-> IF thrown THEN {}
                     ELSE IF ~good THEN Range(lgroups)
                     ELSE IF has_incomplete_groups(lgroups, final)
                          THEN BagToSet(get_incomplete_groups(lgroups, final))
                          ELSE {}]
=============================================================================
