----------------------------- MODULE KeyClient -----------------------------
(***************************************************************************)
(* Two threads of one client on one key: a writer running write_impl      *)
(* (WriteEngine) and a reader running lookup_impl and read_impl            *)
(* (ReadEngine), sharing the key's copies in the groups. The composition  *)
(* keeps `accepted`, the last proxy-driven write that returned success and *)
(* the groups it targeted, so that the reader's results can be compared    *)
(* with what the writer promised.                                          *)
(***************************************************************************)
EXTENDS WriteEngine

CONSTANTS ReadGroupArgs, ReadOps, LookupReplies, MaxReads

VARIABLES
    accepted,   \* [w, groups]: the last accepted proxy-driven write
    rpc, rgroups, rbase, rgot, rout, rcount, raddrs

R == INSTANCE ReadEngine

write_vars == vars
reader_vars == <<rpc, rgroups, rbase, rgot, rout, rcount, raddrs>>
all_vars == <<store, pc, wid, args, rc, scn, chunked, lgroups, offset, upload,
             ret, calls, outcome, pending, accepted, rpc, rgroups, rbase, rgot, rout, rcount, raddrs>>

NoAccepted == [w |-> 0, groups |-> {}]

CInit == Init /\ R!RInit /\ accepted = NoAccepted

\* A step of the writer; `accepted` follows the calls that return success.
WriterStep ==
    /\ Next
    /\ accepted' = IF pc # "idle" /\ pc' = "idle" /\ outcome' = "ok" /\ ProxyDriven(wid)
                   THEN [w |-> wid, groups |-> Range(lgroups)]
                   ELSE accepted
    /\ UNCHANGED reader_vars

\* A step of the reader; it never changes the copies. rbase records the
\* accepted write when the reader's groups lie within that write's groups.
ReaderStep ==
    /\ Settled
    /\ R!RNext
    /\ UNCHANGED write_vars

\* Each thread waits only on wire calls that end within wait_timeout, so a
\* started write or read keeps moving; neither thread must start another.
CNext == WriterStep \/ ReaderStep

CSpec == CInit /\ [][CNext]_all_vars
            /\ WF_all_vars(WriterStep /\ pc # "idle")
            /\ WF_all_vars(ReaderStep /\ rpc # "idle")

-----------------------------------------------------------------------------
CTypeOK ==
    /\ TypeOK /\ R!RTypeOK
    /\ accepted \in [w : 0..MaxWrites, groups : SUBSET Groups]

\* A lookup or read that begins after a chunked write of the key returned
\* success, over groups that write targeted, returns that write's copy or
\* a later one, never an older version or a group without the key: the
\* compensation of write_impl and the elimination loop of lookup_impl
\* together keep stale copies out of reach (spec 4.3, 4.4).
ReadNeverOlderThanAccepted ==
    (rpc = "idle" /\ rout = "found") => (rgot # None /\ rgot >= rbase)

\* lookup_addr returns the address of the key in every group the selector
\* chose for it (get_groups(key, groups), spec 4.2 and 6), whether or not
\* the caller named the groups.
LookupAddrCoversGroups ==
    (rpc = "idle" /\ rout = "addrs") => raddrs = Range(rgroups)
=============================================================================
