---------------------------- MODULE WriteEngine ----------------------------
(***************************************************************************)
(* elliptics_proxy_t::impl::write_impl (src/src/proxy.cpp 586-731) and its *)
(* write_helper_t (72-138): one caller thread writing one key, again and   *)
(* again, into a set of storage groups whose replies may fail.            *)
(*                                                                         *)
(* Every wire call issued by write_impl is one atomic step: the request    *)
(* goes to each target group and .get() collects the replies. For each     *)
(* group the call ends in one of three ways:                               *)
(*   "ok"   - the group applied the request and answered without error;   *)
(*   "lost" - the group applied it but the reply is an error (a timeout   *)
(*            that fired after the server wrote);                         *)
(*   "fail" - the group did not apply it and answered with an error.      *)
(* The session's default result filter keeps only the error-free entries,  *)
(* so the lookup vector write_impl sees is the set of "ok" groups.        *)
(*                                                                         *)
(* The stored object of the key in each group is abstracted to the set of  *)
(* (remote position, content index) pairs written into it, the write that  *)
(* last touched it, and whether it has been committed. Content is          *)
(* ContentSize units long; ChunkSize is m_chunk_size in the same units.    *)
(***************************************************************************)
EXTENDS Integers, Sequences, FiniteSets, Functions, GroupSelect

CONSTANTS
    Groups,             \* the group ids of the storage
    ChunkSize,          \* m_chunk_size (0 disables chunked uploads)
    ContentSize,        \* size of the packed content
    GroupArgs,          \* the caller's `groups` arguments: a set of sequences
    SuccessCopiesArgs,  \* the caller's success_copies_num arguments
    OffsetArgs,         \* the caller's offset arguments
    IoFlagArgs,         \* subset of {"none", "prepare", "commit", "plain"}
    KeyKinds,           \* subset of {"name", "id"}: key by name or by raw id
    MaxWrites,          \* bound on the number of write calls
    Replies,            \* per-group outcomes a wire call may have
    RemovesOrdered,     \* whether a compensating remove lands before the next call
    MetadataMayFail,    \* whether write_metadata may throw
    CallKinds,          \* subset of {"write", "write_async", "remove"}
    None                \* no object / no write

ASSUME /\ DefaultGroups \in Seq(Groups)
       /\ ChunkSize \in Nat /\ ContentSize \in Nat \ {0}
       /\ MaxWrites \in Nat
       /\ IoFlagArgs \subseteq {"none", "prepare", "commit", "plain"}
       /\ KeyKinds \subseteq {"name", "id"}
       /\ CallKinds \subseteq {"write", "write_async", "remove"}
       /\ Replies \subseteq {"ok", "lost", "fail"} /\ "ok" \in Replies

VARIABLES
    store,      \* store[g]: None or [w, bytes, done], the key's object in group g
    pc,         \* where the caller thread is inside write_impl
    wid,        \* number of the current (or last) write call
    args,       \* history: args[w] = the offset, ioflags and key kind of write w
    rc,         \* replication_count of the current write
    scn,        \* success_copies_num of the current write
    chunked,    \* whether the current write takes the chunked path
    lgroups,    \* the target groups (a sequence)
    offset,     \* the running offset of the chunked path
    upload,     \* helper.upload_groups: groups that acked the latest call
    ret,        \* helper.ret: the groups whose lookups write_impl returns
    calls,      \* body calls issued by the current write
    outcome,    \* how the last write returned
    pending     \* groups a compensating remove of the key was sent to and
                \* has not yet reached

vars == <<store, pc, wid, args, rc, scn, chunked, lgroups, offset, upload,
          ret, calls, outcome, pending>>

Outcomes == {"none", "ok", "rejected", "metadata_failed", "too_few_states",
             "no_groups", "transport_error", "async_ok", "removed"}

-----------------------------------------------------------------------------
(* The stored object.                                                      *)

Held(g) == IF store[g] = None THEN {} ELSE store[g].bytes
IsDone(g) == store[g] # None /\ store[g].done

\* What write_data(key, content, offset) stores: the whole content at offset.
Image(o) == { <<o + j, j>> : j \in 0..ContentSize - 1 }

\* What a chunk call stores: content.slice(o, len) written at remote offset o.
\* data_pointer::slice clamps to the content, so a length that underflowed
\* (o > content.size()) yields an empty slice, as the empty range here does.
ChunkBytes(o, len) == { <<p, p>> : p \in { q \in 0..ContentSize - 1 : o <= q /\ q < o + len } }

Applied(res) == { g \in DOMAIN res : res[g] # "fail" }
Acked(res) == { g \in DOMAIN res : res[g] = "ok" }

\* Apply obj to the groups the request reached.
AfterCall(res, objs) == [g \in Groups |-> IF g \in Applied(res) THEN objs[g] ELSE store[g]]

\* The groups a compensating remove(key.remote()) to T reaches: the remote
\* name of a key built from a raw id is empty, so for such a key the remove
\* addresses a different id and leaves this key's copies in place.
Target(T) == IF args[wid].key = "name" THEN T ELSE {}

\* elliptics_session.remove(key.remote()) on groups T (proxy.cpp 685-687,
\* 692-694): the request is sent and its async result dropped, never waited
\* on, so write_impl goes on (and returns) while the remove is on its way.
Compensate(after, T) == store' = after /\ pending' = pending \cup Target(T)

\* Under RemovesOrdered a group applies every remove the proxy sent before
\* any request of the key sent after it, by the writer or the reader;
\* without it nothing orders the remove and the later requests.
Settled == RemovesOrdered => pending = {}

Return(o) == pc' = "idle" /\ outcome' = o

\* .get() on a call no group answered without error throws (the session's
\* at-least-one checker); write_impl logs and rethrows with no compensation.
Thrown(after) == store' = after /\ Return("transport_error") /\ UNCHANGED pending

\* Mutant: an accepted chunked upload leaves the incomplete groups alone.
Finish_NoIncompleteRemove(after, up) ==
    IF ~upload_is_good(scn, rc, Cardinality(up))
    THEN /\ Compensate(after, Range(lgroups))
         /\ Return("rejected")
    ELSE /\ Compensate(after, {})
         /\ pc' = "metadata"
         /\ UNCHANGED outcome

\* The code after the body upload (proxy.cpp 685-696): a rejected upload is
\* removed from all of lgroups and the call throws; an accepted chunked upload
\* is removed from the groups that dropped out (get_incomplete_groups).
Finish(after, up) ==
    IF ~upload_is_good(scn, rc, Cardinality(up))
    THEN /\ Compensate(after, Range(lgroups))
         /\ Return("rejected")
    ELSE /\ Compensate(after, IF chunked /\ Len(lgroups) # Cardinality(up)
                               THEN Range(lgroups) \ up ELSE {})
         /\ pc' = "metadata"
         /\ UNCHANGED outcome

-----------------------------------------------------------------------------
Init ==
    /\ store = [g \in Groups |-> None]
    /\ pc = "idle"
    /\ wid = 0
    /\ args = [w \in 1..MaxWrites |-> None]
    /\ rc = 0
    /\ scn = QUORUM
    /\ chunked = FALSE
    /\ lgroups = <<>>
    /\ offset = 0
    /\ upload = {}
    /\ ret = {}
    /\ calls = 0
    /\ outcome = "none"
    /\ pending = {}

\* replication_count: the size of the caller's list, else the configured one
\* (proxy.cpp 589, 600-602).
ResolveReplicationCount(groups) == IF Len(groups) = 0 THEN m_replication_count ELSE Len(groups)

\* write_impl up to its first wire call (proxy.cpp 589-640): resolve
\* replication_count and success_copies_num, refuse below the die limit,
\* select and truncate the groups, and choose the chunked path or one call.
\* The metabalancer branch (608-623) is dead: m_metabase_usage is set to
\* PROXY_META_NONE in the constructor and never changed.
WriteBegin ==
    /\ pc = "idle"
    /\ wid < MaxWrites
    /\ "write" \in CallKinds
    /\ \E groups \in GroupArgs, s \in SuccessCopiesArgs, o \in OffsetArgs,
          io \in IoFlagArgs, key \in KeyKinds, enough_states \in BOOLEAN :
         LET w == wid + 1
             rc0 == ResolveReplicationCount(groups)
         IN /\ wid' = w
            /\ args' = [args EXCEPT ![w] = [offset |-> o, io |-> io, key |-> key]]
            /\ rc' = rc0
            /\ scn' = ResolveSuccessCopies(s)
            /\ offset' = o
            /\ upload' = {} /\ ret' = {} /\ calls' = 0
            /\ \/ /\ ~enough_states
                  /\ Return("too_few_states")
                  /\ UNCHANGED <<lgroups, chunked>>
               \/ /\ enough_states
                  /\ \E l \in get_groups(groups, 0) :
                       \/ /\ l = <<>>
                          /\ Return("no_groups")
                          /\ UNCHANGED <<lgroups, chunked>>
                       \/ /\ l # <<>>
                          /\ lgroups' = Truncate(l, rc0)
                          /\ chunked' = (/\ ChunkSize # 0
                                         /\ ContentSize > ChunkSize
                                         /\ key = "name"
                                         /\ io = "none")
                          /\ pc' = IF chunked' THEN "prepare" ELSE "single"
                          /\ UNCHANGED outcome
    /\ UNCHANGED <<store, pending>>

\* What one call with ioflags io stores in group g (proxy.cpp 644-650):
\* write_prepare a fresh uncommitted object, write_plain into the current
\* one, write_commit into it and commit, write_data a whole object.
Stored(w, io, o, g) ==
    CASE io = "prepare" -> [w |-> w, bytes |-> Image(o), done |-> FALSE]
      [] io = "plain"   -> [w |-> w, bytes |-> Held(g) \cup Image(o), done |-> IsDone(g)]
      [] io = "commit"  -> [w |-> w, bytes |-> Held(g) \cup Image(o), done |-> TRUE]
      [] OTHER          -> [w |-> w, bytes |-> Image(o), done |-> TRUE]

\* One call (proxy.cpp 644-650, 677-683): write_prepare, write_commit or
\* write_plain when the caller set that ioflag, else write_data; then
\* update_lookup and the acceptance check.
WriteSingle ==
    /\ pc = "single"
    /\ \E res \in [Range(lgroups) -> Replies] :
         LET after == AfterCall(res, [g \in Groups |-> Stored(wid, args[wid].io, offset, g)])
         IN /\ upload' = Acked(res)
            /\ ret' = Acked(res)
            /\ calls' = 1
            /\ IF Acked(res) = {} THEN Thrown(after) ELSE Finish(after, Acked(res))
    /\ UNCHANGED <<wid, args, rc, scn, chunked, lgroups, offset>>

\* The first chunk (proxy.cpp 652-659): write_prepare of
\* content.slice(offset, m_chunk_size) to all of lgroups; the surviving set
\* is recorded without touching ret.
WritePrepare ==
    /\ pc = "prepare"
    /\ \E res \in [Range(lgroups) -> Replies] :
         LET obj(g) == [w |-> wid, bytes |-> ChunkBytes(offset, ChunkSize), done |-> FALSE]
             after == AfterCall(res, [g \in Groups |-> obj(g)])
         IN /\ upload' = Acked(res)
            /\ calls' = 1
            /\ IF Acked(res) = {} THEN Thrown(after)
               ELSE IF upload_is_good(scn, rc, Cardinality(Acked(res)))
               THEN /\ pc' = "chunk"
                    /\ store' = after
                    /\ UNCHANGED <<outcome, pending>>
               ELSE Finish(after, Acked(res))
    /\ UNCHANGED <<wid, args, rc, scn, chunked, lgroups, offset, ret>>

\* Mutant: every chunk goes to all of lgroups (set_groups not narrowed).
ChunkTargets_All == Range(lgroups)

\* elliptics_session.set_groups(helper.get_upload_groups()) (proxy.cpp 661):
\* the next chunk goes only to the groups that acked the previous one.
ChunkTargets == upload

\* The chunk at offset o is the last one, a commit (proxy.cpp 664).
IsLastChunk(o) == o + ChunkSize >= ContentSize

\* Mutant: the loop test admits one more turn.
MoreChunks_OffByOne(o, up) ==
    upload_is_good(scn, rc, Cardinality(up)) /\ o + ChunkSize <= ContentSize

\* The do-while test (proxy.cpp 674): go on while the survivors still satisfy
\* the policy and the chunk just sent was not the last.
MoreChunks(o, up) ==
    upload_is_good(scn, rc, Cardinality(up)) /\ o + ChunkSize < ContentSize

\* Mutant: last_iter is never passed, so ret is never filled.
ChunkResult_NeverSet(last, up) == ret

\* helper.update_lookup(parse_lookup(lookup), last_iter) (proxy.cpp 673):
\* only the commit's lookups replace ret.
ChunkResult(last, up) == IF last THEN up ELSE ret

\* One turn of the chunk loop (proxy.cpp 660-674): offset advances by
\* m_chunk_size; the last chunk is a write_commit of the remainder, the others
\* are write_plain of one chunk.
WriteChunk ==
    /\ pc = "chunk"
    /\ \E res \in [ChunkTargets -> Replies] :
         LET o == offset + ChunkSize
             last == IsLastChunk(o)
             len == IF last THEN ContentSize - o ELSE ChunkSize
             obj(g) == [w |-> wid, bytes |-> Held(g) \cup ChunkBytes(o, len),
                        done |-> last \/ IsDone(g)]
             after == AfterCall(res, [g \in Groups |-> obj(g)])
         IN /\ offset' = o
            /\ upload' = Acked(res)
            /\ ret' = ChunkResult(last, Acked(res))
            /\ calls' = calls + 1
            /\ IF Acked(res) = {} THEN Thrown(after)
               ELSE IF MoreChunks(o, Acked(res))
               THEN /\ pc' = "chunk"
                    /\ store' = after
                    /\ UNCHANGED <<outcome, pending>>
               ELSE Finish(after, Acked(res))
    /\ UNCHANGED <<wid, args, rc, scn, chunked, lgroups>>

\* write_metadata to the upload groups (proxy.cpp 710-715, 730); a throw
\* becomes the write's failure and nothing is removed.
WriteMetadata ==
    /\ pc = "metadata"
    /\ \/ Return("ok")
       \/ MetadataMayFail /\ Return("metadata_failed")
    /\ UNCHANGED <<store, wid, args, rc, scn, chunked, lgroups, offset, upload, ret, calls, pending>>

\* write_async_impl (proxy.cpp 1072-1140) awaited by the caller's get():
\* the same state check, replication_count and truncation as write_impl,
\* then one call chosen by ioflags. success_copies_num is ignored: there is
\* no acceptance check and no compensation. get() throws when no group
\* answered without error; get_groups throws on an empty list before any
\* call is sent.
WriteAsync ==
    /\ pc = "idle"
    /\ wid < MaxWrites
    /\ "write_async" \in CallKinds
    /\ \E groups \in GroupArgs, o \in OffsetArgs, io \in IoFlagArgs,
          key \in KeyKinds, enough_states \in BOOLEAN :
         LET w == wid + 1
             rc0 == ResolveReplicationCount(groups)
         IN /\ wid' = w
            /\ args' = [args EXCEPT ![w] = [offset |-> o, io |-> io, key |-> key]]
            /\ rc' = rc0 /\ offset' = o /\ chunked' = FALSE /\ calls' = 0
            /\ \/ /\ ~enough_states
                  /\ Return("too_few_states")
                  /\ UNCHANGED <<store, lgroups, upload, ret>>
               \/ /\ enough_states
                  /\ \E l \in get_groups(groups, 0) :
                       \E res \in [Range(Truncate(l, rc0)) -> Replies] :
                         /\ lgroups' = Truncate(l, rc0)
                         /\ store' = AfterCall(res, [g \in Groups |-> Stored(w, io, o, g)])
                         /\ upload' = Acked(res) /\ ret' = Acked(res)
                         /\ Return(CASE l = <<>>       -> "no_groups"
                                      [] Acked(res) = {} -> "transport_error"
                                      [] OTHER           -> "async_ok")
    /\ UNCHANGED <<scn, pending>>

\* remove_impl = remove_async_impl(key, groups).wait() (proxy.cpp 815-818,
\* 1142-1164): remove(key) to all of get_groups(key, groups), not truncated,
\* with filters::all. The key itself is removed, not key.remote(), so a
\* key by raw id is removed too; wait() reports nothing to the caller.
Remove ==
    /\ pc = "idle"
    /\ wid < MaxWrites
    /\ "remove" \in CallKinds
    /\ \E groups \in GroupArgs : \E l \in get_groups(groups, 0) :
         \E res \in [Range(l) -> Replies] :
           /\ wid' = wid + 1
           /\ lgroups' = l
           /\ store' = [g \in Groups |-> IF g \in Applied(res) THEN None ELSE store[g]]
           /\ Return("removed")
    /\ UNCHANGED <<args, rc, scn, chunked, offset, upload, ret, calls, pending>>

\* Compensating removes on their way reach the groups D and delete the key's
\* copies there, between any two steps of the caller or the reader; nothing
\* waits for them and no outcome of them is seen. Under RemovesOrdered all
\* of them land before anything else happens, so the order among the groups
\* is not observable and they land together.
RemoveLands ==
    /\ \E D \in IF RemovesOrdered THEN {pending} ELSE { {g} : g \in pending } :
         /\ D # {}
         /\ store' = [g \in Groups |-> IF g \in D THEN None ELSE store[g]]
         /\ pending' = pending \ D
    /\ UNCHANGED <<pc, wid, args, rc, scn, chunked, lgroups, offset, upload, ret, calls, outcome>>

\* The calls of the caller thread.
CallerNext ==
    \/ WriteBegin
    \/ WriteSingle
    \/ WritePrepare
    \/ WriteChunk
    \/ WriteMetadata
    \/ WriteAsync
    \/ Remove

Next == (Settled /\ CallerNext) \/ RemoveLands

\* Every wire call returns within wait_timeout, so a started write keeps
\* moving, and a group runs every request it received; the caller is free
\* never to start another call.
Spec == Init /\ [][Next]_vars
            /\ WF_vars(Settled /\ WriteSingle) /\ WF_vars(Settled /\ WritePrepare)
            /\ WF_vars(Settled /\ WriteChunk) /\ WF_vars(Settled /\ WriteMetadata)
            /\ WF_vars(RemoveLands)

-----------------------------------------------------------------------------
Objects == [w : 1..MaxWrites, bytes : SUBSET (Nat \X Nat), done : BOOLEAN]

TypeOK ==
    /\ store \in [Groups -> Objects \cup {None}]
    /\ pc \in {"idle", "single", "prepare", "chunk", "metadata"}
    /\ wid \in 0..MaxWrites
    /\ rc \in Nat
    /\ scn \in SuccessTypes \cup (Nat \ {0})
    /\ chunked \in BOOLEAN
    /\ lgroups \in Seq(Groups)
    /\ offset \in Nat
    /\ upload \subseteq Groups /\ ret \subseteq Groups
    /\ calls \in Nat
    /\ outcome \in Outcomes
    /\ pending \subseteq Groups

ProxyDriven(w) == args[w].io = "none"
Returned(o) == pc = "idle" /\ outcome = o

\* A group whose copy was committed by a proxy-driven write (chunked or one
\* call) holds exactly what write_data(key, content, offset) of that write
\* stores: no chunk is missing and nothing is displaced. This is what the
\* surviving-set bookkeeping of the chunk loop and the offset handling of
\* the chunked path are for.
CommittedObjectIsWhole ==
    \A g \in Groups :
        (IsDone(g) /\ ProxyDriven(store[g].w)) => store[g].bytes = Image(args[store[g].w].offset)

\* After a proxy-driven write returns success, every group it targeted holds
\* nothing, or exactly the object write_data(key, content, offset) of that
\* write describes (all of it, committed, at the caller's offset), unless a
\* compensating remove is still on its way to it: no group keeps a
\* half-written copy, an older version next to the new one, or a copy whose
\* bytes are displaced (spec 4.3 "post-write compensation" and "the prepare
\* carries the first chunk at offset 0", scenarios S2 and S5).
TargetsHoldTheWrite ==
    (Returned("ok") /\ ProxyDriven(wid)) =>
        \A g \in Range(lgroups) :
            \/ store[g] = None
            \/ /\ store[g].w = wid /\ store[g].done
               /\ store[g].bytes = Image(args[wid].offset)
            \/ g \in pending

\* No group keeps anything the current write stored, save the groups a
\* compensating remove of the key is still on its way to.
LeavesNoCopy == \A g \in Groups : store[g] = None \/ store[g].w # wid \/ g \in pending

\* After a write fails in any way once its body was sent, no group keeps
\* anything that write stored beyond a remove already sent (spec 8.2).
FailedWriteLeavesNoCopy ==
    (pc = "idle" /\ outcome \in {"rejected", "metadata_failed", "transport_error"})
        => LeavesNoCopy

\* A write leaves the store as its verdict says: after a success every target
\* holds that write's whole object (or a remove is coming), after a failure
\* once the body was sent no group holds anything of it (spec 4.3, 8.1, 8.2).
WriteAllOrNothing == TargetsHoldTheWrite /\ FailedWriteLeavesNoCopy

HoldsWrite(S, w) == \A g \in S : store[g] # None /\ store[g].w = w

\* A successful write returns lookups of a set of groups that satisfies the
\* acceptance predicate, and each of them holds data of that write until
\* the caller's next call (spec 8.1): no remove the proxy sent for an
\* earlier write of the key takes it away in the meantime.
ResultSatisfiesPolicy ==
    Returned("ok") => upload_is_good(scn, rc, Cardinality(ret)) /\ HoldsWrite(ret, wid)

\* A successful chunked write issued exactly ceil(size / chunk) body calls:
\* one prepare, the plain writes, one commit (spec 8.3).
ChunkCallCount ==
    (Returned("ok") /\ chunked) =>
        calls = (ContentSize + ChunkSize - 1) \div ChunkSize

=============================================================================
