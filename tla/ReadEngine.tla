----------------------------- MODULE ReadEngine -----------------------------
(***************************************************************************)
(* The read side of one key: elliptics_proxy_t::impl::lookup_impl          *)
(* (src/src/proxy.cpp 545-577), read_impl / read_async_impl (579-584,      *)
(* 1040-1070) and lookup_addr_impl (880-907), run by a reader thread       *)
(* against the copies in `store`.                                          *)
(*                                                                         *)
(* A group that holds a copy answers a lookup "ok", "error", or "bad" (an *)
(* error-free entry that parse_lookup cannot parse); a group without a    *)
(* copy answers "error". The lookup session uses filters::all, so every    *)
(* entry is seen, in the order the replies arrive; .get() throws when no   *)
(* entry at all is error-free. read_data returns the first group of       *)
(* lgroups that has the key; read_latest the newest copy among the groups *)
(* that answer (spec 4.4). The reader only reads `store` and `accepted`   *)
(* (the last write that returned success), which a composing module owns. *)
(***************************************************************************)
EXTENDS Integers, Sequences, FiniteSets, Functions, GroupSelect

CONSTANTS
    Groups,           \* the group ids of the storage
    ReadGroupArgs,    \* the reader's `groups` arguments
    ReadOps,          \* subset of {"lookup", "read", "read_latest", "lookup_addr"}
    LookupReplies,    \* what a holder may answer a lookup
    MaxReads,         \* bound on the number of reader calls
    None

ASSUME /\ ReadOps \subseteq {"lookup", "read", "read_latest", "lookup_addr"}
       /\ LookupReplies \subseteq {"ok", "error", "bad"} /\ MaxReads \in Nat

VARIABLES
    store,      \* store[g]: None or a record whose field w is the write it came from
    accepted,   \* [w, groups]: the last write that returned success, its groups
    rpc,        \* "idle", or the operation in progress
    rgroups,    \* the reader's lgroups
    rbase,      \* accepted when the current call began
    rgot,       \* the write whose copy the last call returned, or None
    rout,       \* how the last reader call returned
    rcount,     \* reader calls made
    raddrs      \* the groups whose addresses the last lookup_addr returned

read_vars == <<rpc, rgroups, rbase, rgot, rout, rcount, raddrs>>

Holders == { g \in Groups : store[g] # None }

RInit ==
    /\ rpc = "idle" /\ rgroups = <<>> /\ rbase = 0 /\ rgot = None
    /\ rout = "none" /\ rcount = 0 /\ raddrs = {}

\* get_groups(key, groups) for the reader; the empty list is the throw.
ReadBegin ==
    /\ rpc = "idle" /\ rcount < MaxReads
    /\ \E op \in ReadOps \ {"lookup_addr"}, groups \in ReadGroupArgs :
       \E l \in get_groups(groups, 0) :
         /\ rcount' = rcount + 1
         /\ rbase' = IF l # <<>> /\ Range(l) \subseteq accepted.groups
                      THEN accepted.w ELSE 0
         /\ rgot' = None
         /\ IF l = <<>>
            THEN rout' = "no_groups" /\ UNCHANGED <<rpc, rgroups>>
            ELSE rpc' = op /\ rgroups' = l /\ UNCHANGED rout
    /\ UNCHANGED <<store, accepted, raddrs>>

\* Mutant: an entry is taken as found without looking at its error.
LookupAnswer_IgnoreError(rep) == { g \in DOMAIN rep : rep[g] # "bad" }

\* The entries lookup_impl returns from: error-free (if (!entry.error()))
\* and parsed by parse_lookup without an exception.
LookupAnswer(rep) == { g \in DOMAIN rep : rep[g] = "ok" }

\* std::remove of every entry's group, then lgroups.erase (proxy.cpp 566-568).
Drop(l, rep) == SelectSeq(l, LAMBDA g : g \notin DOMAIN rep)

Version(g) == IF store[g] = None THEN None ELSE store[g].w

\* One turn of the while loop (proxy.cpp 554-567): the lookup goes to all of
\* lgroups; .get() throws when no entry is error-free; the first parsable
\* error-free entry in arrival order is returned; otherwise every entry's
\* group is dropped from lgroups.
LookupCall ==
    /\ rpc = "lookup" /\ rgroups # <<>>
    /\ \E rep \in [Range(rgroups) -> LookupReplies \cup {"error"}] :
         /\ \A g \in Range(rgroups) : g \notin Holders => rep[g] = "error"
         /\ IF \A g \in Range(rgroups) : rep[g] = "error"
            THEN rpc' = "idle" /\ rout' = "session_error" /\ rgroups' = <<>>
                 /\ UNCHANGED rgot
            ELSE IF LookupAnswer(rep) # {}
            THEN \E g \in LookupAnswer(rep) :
                    rgot' = Version(g) /\ rpc' = "idle" /\ rout' = "found"
                    /\ rgroups' = <<>>
            ELSE rgroups' = Drop(rgroups, rep)
                 /\ UNCHANGED <<rpc, rgot, rout>>
    /\ UNCHANGED <<store, accepted, rbase, rcount, raddrs>>

\* while (!lgroups.empty()) ends: throw not_found_error (proxy.cpp 569).
LookupNotFound ==
    /\ rpc = "lookup" /\ rgroups = <<>>
    /\ rpc' = "idle" /\ rout' = "not_found"
    /\ UNCHANGED <<store, accepted, rgroups, rbase, rgot, rcount, raddrs>>

\* read_impl = read_async_impl(...).get_one() (579-584, 1040-1057): read_data
\* to lgroups returns the copy of the first group, in lgroups order, that
\* has the key and answers; read_latest the newest copy among the groups
\* that answer. No answering holder: get_one() throws.
ReadCall ==
    /\ rpc \in {"read", "read_latest"}
    /\ \E up \in SUBSET (Range(rgroups) \cap Holders) :
         /\ IF up = {}
            THEN rout' = "session_error" /\ UNCHANGED rgot
            ELSE /\ rout' = "found"
                 /\ rgot' = IF rpc = "read"
                            THEN Version(rgroups[CHOOSE i \in DOMAIN rgroups :
                                    rgroups[i] \in up /\ \A j \in 1..i - 1 : rgroups[j] \notin up])
                            ELSE CHOOSE v \in { Version(g) : g \in up } :
                                    \A g \in up : Version(g) <= v
         /\ rpc' = "idle" /\ rgroups' = <<>>
    /\ UNCHANGED <<store, accepted, rbase, rcount, raddrs>>

\* lookup_addr_impl (proxy.cpp 880-907): lgroups = get_groups(key, groups)
\* is computed, but the loop runs over the caller's `groups`, asking
\* lookup_address for the node of each; a failing lookup_address (or an
\* unparsable "host:port") throws out of the call. The addresses are
\* abstracted to the groups they were asked for.
LookupAddr ==
    /\ rpc = "idle" /\ rcount < MaxReads
    /\ "lookup_addr" \in ReadOps
    /\ \E groups \in ReadGroupArgs : \E l \in get_groups(groups, 0), failed \in BOOLEAN :
         /\ rcount' = rcount + 1
         /\ rgroups' = l
         /\ IF failed /\ groups # <<>>
            THEN rout' = "session_error" /\ UNCHANGED raddrs
            ELSE rout' = "addrs" /\ raddrs' = Range(groups)
    /\ UNCHANGED <<store, accepted, rpc, rbase, rgot>>

RNext == ReadBegin \/ LookupCall \/ LookupNotFound \/ ReadCall \/ LookupAddr

RTypeOK ==
    /\ rpc \in {"idle"} \cup ReadOps
    /\ rgroups \in Seq(Groups)    \* lgroups of the call in progress or of lookup_addr
    /\ rbase \in Nat /\ rgot \in Nat \cup {None}
    /\ rout \in {"none", "no_groups", "found", "not_found", "session_error", "addrs"}
    /\ rcount \in 0..MaxReads
    /\ raddrs \subseteq Groups
=============================================================================
