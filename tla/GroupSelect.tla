---------------------------- MODULE GroupSelect ----------------------------
(***************************************************************************)
(* The proxy's configuration as the constructor normalises it              *)
(* (src/src/proxy.cpp 445-467) and the group selector                      *)
(* elliptics_proxy_t::impl::get_groups (1227-1251), shared by write_impl,  *)
(* bulk_write_impl and the other operations. A group list is a sequence   *)
(* of group ids; std::random_shuffle is every permutation of the tail.    *)
(***************************************************************************)
EXTENDS Integers, Sequences, Functions, SuccessCopies

CONSTANTS
    DefaultGroups,      \* config groups (m_groups), a sequence of group ids
    ConfReplication,    \* config replication_count (0 means |m_groups|)
    ConfSuccessCopies   \* config success_copies_num (0 means QUORUM)

m_groups == DefaultGroups
m_replication_count == IF ConfReplication = 0 THEN Len(m_groups) ELSE ConfReplication
m_success_copies_num == IF ConfSuccessCopies = 0 THEN QUORUM ELSE ConfSuccessCopies

\* Mutant: a zero success_copies_num is used as given.
ResolveSuccessCopies_Keep(s) == s

\* success_copies_num 0 means the configured policy (write_impl 603-605;
\* bulk_write_impl 966).
ResolveSuccessCopies(s) == IF s = 0 THEN m_success_copies_num ELSE s

\* lgroups.erase(lgroups.begin() + count, lgroups.end()) when 0 < count < size.
Truncate(l, count) == IF count # 0 /\ count < Len(l) THEN SubSeq(l, 1, count) ELSE l

\* Mutant: the shuffle starts at lgroups.begin(), moving the head as well.
ShuffleTail_All(s) ==
    { [i \in 1..Len(s) |-> s[f[i]]] : f \in Bijection(1..Len(s), 1..Len(s)) }

\* std::random_shuffle over every entry after the head, when there are two
\* entries or more.
ShuffleTail(s) ==
    IF Len(s) > 1
    THEN { <<s[1]>> \o [i \in 1..Len(s) - 1 |-> s[1 + f[i]]] :
             f \in Bijection(1..Len(s) - 1, 1..Len(s) - 1) }
    ELSE {s}

\* get_groups(key, groups, count): every list it may return; <<>> is the
\* case where it throws "There is no groups".
get_groups(groups, count) ==
    { Truncate(l, count) : l \in IF Len(groups) > 0 THEN {groups} ELSE ShuffleTail(m_groups) }
=============================================================================
