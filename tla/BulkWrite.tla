----------------------------- MODULE BulkWrite -----------------------------
(***************************************************************************)
(* elliptics_proxy_t::impl::bulk_write_impl (src/src/proxy.cpp 909-999):   *)
(* one caller thread writes batches of name keys into the groups selected  *)
(* for the first key, then checks every key's copies and compensates the   *)
(* whole batch when one key falls short. Between its writes the caller may *)
(* read a batch back with bulk_read_impl (820-878).                        *)
(*                                                                         *)
(* The session bulk_write call is one atomic step. For each (key, group)   *)
(* it ends "ok" (stored, reply without error), "lost" (stored, error reply)*)
(* or "fail" (not stored); the result vector holds the "ok" entries, and   *)
(* .get() throws when there is none. The copy of key k in group g is       *)
(* abstracted to the number of the bulk write that stored it.              *)
(***************************************************************************)
EXTENDS Integers, Sequences, FiniteSets, Functions, GroupSelect

CONSTANTS
    Groups,             \* the group ids of the storage
    Keys,               \* the keys a batch may contain (all name keys)
    GroupArgs,          \* the caller's `groups` arguments: a set of sequences
    SuccessCopiesArgs,  \* the caller's success_copies_num arguments
    Replies,            \* per (key, group) outcomes of the bulk call
    MaxWrites,          \* bound on the number of bulk_write calls
    MaxReads,           \* bound on the number of bulk_read calls
    None                \* no copy

ASSUME /\ DefaultGroups \in Seq(Groups) /\ MaxWrites \in Nat
       /\ Replies \subseteq {"ok", "lost", "fail"} /\ "ok" \in Replies

VARIABLES
    store,      \* store[g][k]: None or the bulk write whose copy of k g holds
    pc,         \* "idle" or "check" (results in, acceptance not yet checked)
    wid,        \* number of the current (or last) bulk_write call
    batch,      \* the keys of the current call
    rc,         \* replication_count of the current call
    scn,        \* the success_copies_num passed to uploads_need
    res_groups, \* res_groups[k]: the groups with an "ok" entry for key k
    outcome,    \* how the last call returned
    reads,      \* bulk_read calls made
    pending     \* <<k, g>>: a remove of key k sent to group g, not yet run

vars == <<store, pc, wid, batch, rc, scn, res_groups, outcome, reads, pending>>

Outcomes == {"none", "ok", "empty", "no_groups", "transport_error", "rejected",
             "read_ok", "read_empty", "read_error"}

Return(o) == pc' = "idle" /\ outcome' = o

\* The keys that have an entry in the res_groups map: only keys with at
\* least one error-free result are ever inserted (proxy.cpp 955-962).
Reported == { k \in batch : res_groups[k] # {} }

-----------------------------------------------------------------------------
Init ==
    /\ store = [g \in Groups |-> [k \in Keys |-> None]]
    /\ pc = "idle"
    /\ wid = 0
    /\ batch = {}
    /\ rc = 0
    /\ scn = QUORUM
    /\ res_groups = [k \in Keys |-> {}]
    /\ outcome = "none"
    /\ reads = 0
    /\ pending = {}

\* bulk_write_impl up to the acceptance check (proxy.cpp 911-963): an empty
\* batch returns an empty map at once; replication_count is the size of the
\* caller's list, else the configured one; the groups come from get_groups
\* for keys[0] and are not truncated; the session bulk_write stores each key
\* in each group it reaches and the results are partitioned by key. Only
\* the set of the selected groups matters here, not their order.
BulkBegin ==
    /\ pc = "idle"
    /\ wid < MaxWrites
    /\ UNCHANGED <<reads, pending>>
    /\ \E keys \in SUBSET Keys, groups \in GroupArgs, s \in SuccessCopiesArgs :
         LET w == wid + 1 IN
         /\ wid' = w
         /\ batch' = keys
         /\ rc' = IF Len(groups) = 0 THEN m_replication_count ELSE Len(groups)
         /\ scn' = ResolveSuccessCopies(s)
         /\ \/ /\ keys = {}
               /\ Return("empty")
               /\ UNCHANGED <<store, res_groups>>
            \/ /\ keys # {}
               /\ \E T \in { Range(l) : l \in get_groups(groups, 0) } :
                    \/ /\ T = {}
                       /\ Return("no_groups")
                       /\ UNCHANGED <<store, res_groups>>
                    \/ /\ T # {}
                       /\ \E res \in [keys \X T -> Replies] :
                            LET ok(k) == { g \in T : res[k, g] = "ok" } IN
                            /\ store' = [g \in Groups |-> [k \in Keys |->
                                           IF k \in keys /\ g \in T /\ res[k, g] # "fail"
                                           THEN w ELSE store[g][k]]]
                            /\ res_groups' = [k \in Keys |-> IF k \in keys THEN ok(k) ELSE {}]
                            /\ IF \A k \in keys : ok(k) = {}
                               THEN Return("transport_error")
                               ELSE pc' = "check" /\ UNCHANGED outcome

\* The compensation of a rejected batch (proxy.cpp 976-981): for every key in
\* res_groups, set_groups(its groups) and remove(key.remote()). The removes
\* are sent and their async results dropped; none is awaited before the
\* throw, so they are only on their way when the call returns.
Rollback ==
    pending' = pending \cup { <<k, g>> \in Reported \X Groups : g \in res_groups[k] }

\* The acceptance check (proxy.cpp 966-983): replication_need is
\* uploads_need(success_copies_num, replication_count); the loop walks the
\* res_groups map and stops at the first key with fewer groups; if one is
\* found, the batch is compensated and the call throws.
BulkCheck ==
    /\ pc = "check"
    /\ IF \E k \in Reported : Cardinality(res_groups[k]) < uploads_need(scn, rc)
       THEN Rollback /\ Return("rejected")
       ELSE UNCHANGED pending /\ Return("ok")
    /\ UNCHANGED <<store, wid, batch, rc, scn, res_groups, reads>>

\* A remove on its way reaches its group at any later time, between any two
\* steps of the caller, and deletes the key there; nothing waits for it and
\* its outcome is never seen. A remove that fails in its group is, for what
\* the caller can observe, one that stays on its way.
RemoveLands ==
    /\ \E kg \in pending :
         /\ pending' = pending \ {kg}
         /\ store' = [store EXCEPT ![kg[2]][kg[1]] = None]
    /\ UNCHANGED <<pc, wid, batch, rc, scn, res_groups, outcome, reads>>

\* bulk_read_impl (proxy.cpp 820-878): an empty key list returns an empty
\* map; otherwise the groups come from get_groups for keys[0], every key's
\* raw id is read in one session bulk_read, and the entries are mapped back
\* to the keys through keys_transformed. Keys no group returned are absent;
\* .get() throws when no entry came back at all (also for empty lgroups).
\* Which copies are returned is not kept: only whether the call throws.
BulkRead ==
    /\ pc = "idle"
    /\ reads < MaxReads
    /\ reads' = reads + 1
    /\ \E keys \in SUBSET Keys, groups \in GroupArgs :
         IF keys = {}
         THEN outcome' = "read_empty"
         ELSE \E T \in { Range(l) : l \in get_groups(groups, 0) } :
              \E ans \in SUBSET T :
                outcome' = IF \E k \in keys, g \in ans : store[g][k] # None
                           THEN "read_ok" ELSE "read_error"
    /\ UNCHANGED <<store, pc, wid, batch, rc, scn, res_groups, pending>>

Next == BulkBegin \/ BulkCheck \/ BulkRead \/ RemoveLands

Spec == Init /\ [][Next]_vars /\ WF_vars(BulkCheck) /\ WF_vars(RemoveLands)

-----------------------------------------------------------------------------
TypeOK ==
    /\ store \in [Groups -> [Keys -> 1..MaxWrites \cup {None}]]
    /\ pc \in {"idle", "check"}
    /\ wid \in 0..MaxWrites
    /\ batch \subseteq Keys
    /\ rc \in Nat
    /\ scn \in SuccessTypes \cup (Nat \ {0})
    /\ res_groups \in [Keys -> SUBSET Groups]
    /\ outcome \in Outcomes
    /\ reads \in 0..MaxReads
    /\ pending \subseteq Keys \X Groups

Returned(o) == pc = "idle" /\ outcome = o

\* When bulk_write returns its map, every key in it was stored by that call
\* in a set of groups that satisfies the acceptance predicate of the mode.
AcceptedKeysMeetPolicy ==
    Returned("ok") =>
        \A k \in Reported : upload_is_good(scn, rc, Cardinality(res_groups[k]))

\* bulk_write's verdict is the one spec 4.5 gives: it returns its map only
\* when every key of the batch meets the acceptance predicate of the mode
\* (upload_is_good over the groups that acknowledged the key), and rejects
\* the batch only when some key does not. The code decides instead with
\* uploads_need over the keys present in res_groups (proxy.cpp 966-975).
BulkVerdictMatchesPolicy ==
    LET good == \A k \in batch : upload_is_good(scn, rc, Cardinality(res_groups[k]))
    IN /\ Returned("ok") => good
       /\ Returned("rejected") => ~good
=============================================================================
