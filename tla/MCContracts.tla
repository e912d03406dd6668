---------------------------- MODULE MCContracts ----------------------------
(***************************************************************************)
(* The pure parts of the proxy checked against the contracts of the        *)
(* specification over bounded inputs:                                      *)
(*   - upload_is_good (SuccessCopies) against the table of spec 4.1, for   *)
(*     every mode and R up to MaxReplication (spec 8.6: R in 1..7);        *)
(*   - get_groups (GroupSelect) against spec 4.2 and 8.5, for every        *)
(*     default list of distinct ids up to MaxList entries, the explicit    *)
(*     lists of ExplicitArgs and every count up to MaxCount;               *)
(*   - range_get_impl (RangeGet) against spec 5, for every store of ids up *)
(*     to MaxId in two groups, every pattern of groups that answer, every  *)
(*     pair of keys by name or by id, with NODATA set or clear;            *)
(*   - write_helper_t (WriteHelper) on a chunked upload to an explicit     *)
(*     group list of HelperLists, for every reply to each entry of the     *)
(*     prepare and the commit and every success mode.                      *)
(* A state is one input, of the policy or of the selector; it never        *)
(* changes.                                                                *)
(***************************************************************************)
EXTENDS Integers, Sequences, FiniteSets, Functions, SuccessCopies

CONSTANTS MaxReplication, GroupIds, MaxList, MaxCount, ExplicitArgs, MaxId,
          HelperLists

VARIABLES kind, mode, r, s, dl, explicit, count,
          recs, answered, from, to, nodata, wl, prep, comm

vars == <<kind, mode, r, s, dl, explicit, count, recs, answered, from, to, nodata,
          wl, prep, comm>>

WH == INSTANCE WriteHelper

\* Explicit group lists of one to three entries over groups 1..3: without a
\* repeated group, and with one.
MCHelperDistinct == { l \in UNION { [1..n -> 1..3] : n \in 1..3 } : IsInjective(l) }
MCHelperRepeats == MCHelperDistinct \cup {<<1, 1>>, <<1, 1, 2>>, <<2, 1, 1>>}
\* No helper input (the runs that do not check the helper).
MCHelperNone == {}

\* The helper inputs of any other state.
NoHelper == wl = <<>> /\ prep = <<>> /\ comm = <<>>

RG == INSTANCE RangeGet

\* lgroups of a range read: get_groups is checked on its own above.
RangeGroups == <<1, 2>>

RangeKeys == [by_id : BOOLEAN, id : RG!Ids]

\* The range inputs of a policy or selector state.
NoRange ==
    /\ recs = [g \in Range(RangeGroups) |-> {}] /\ answered = {}
    /\ from = [by_id |-> TRUE, id |-> 0] /\ to = from /\ nodata = FALSE

Sel(d) == INSTANCE GroupSelect WITH DefaultGroups <- d, ConfReplication <- 0,
                                     ConfSuccessCopies <- 0

Modes == SuccessTypes \cup 1..MaxReplication

\* Sequences of distinct group ids of length at most MaxList.
DistinctLists ==
    UNION { { f \in [1..n -> GroupIds] : IsInjective(f) } : n \in 0..MaxList }

\* Only the default list: an explicit list is used as given (1230-1231).
MCExplicitArgs == {<<>>}

Init ==
    \/ /\ kind = "policy"
       /\ mode \in Modes /\ r \in 1..MaxReplication /\ s \in 0..MaxReplication
       /\ dl = <<>> /\ explicit = <<>> /\ count = 0
       /\ NoRange /\ NoHelper
    \/ /\ kind = "select"
       /\ mode = QUORUM /\ r = 1 /\ s = 0
       /\ dl \in DistinctLists /\ explicit \in ExplicitArgs /\ count \in 0..MaxCount
       /\ NoRange /\ NoHelper
    \/ /\ kind = "range"
       /\ mode = QUORUM /\ r = 1 /\ s = 0 /\ dl = <<>> /\ explicit = <<>> /\ count = 0
       /\ recs \in [Range(RangeGroups) -> SUBSET RG!Ids]
       /\ answered \in SUBSET Range(RangeGroups)
       /\ from \in RangeKeys /\ to \in RangeKeys /\ nodata \in BOOLEAN
       /\ NoHelper
    \/ /\ kind = "helper"
       /\ wl \in HelperLists
       /\ mode \in SuccessTypes \cup {2} /\ r = Len(wl) /\ s = 0
       /\ dl = <<>> /\ explicit = <<>> /\ count = 0 /\ NoRange
       /\ prep \in [1..Len(wl) -> {"ok", "fail"}]
       /\ comm \in [1..Len(WH!update_lookup(wl, prep)) -> {"ok", "fail"}]

Next == UNCHANGED vars

Spec == Init /\ [][Next]_vars

(* The policy.                                                             *)

\* The table of spec 4.1: required successes T and the acceptance test.
TableRequired(m, rc) ==
    CASE m = ANY    -> 1
      [] m = QUORUM -> (rc \div 2) + 1
      [] m = ALL    -> rc
      [] OTHER      -> m

TableAccepts(m, rc, n) ==
    IF m = ALL THEN n = rc ELSE n >= TableRequired(m, rc)

\* upload_is_good, the test write_impl and its helpers apply to the set of
\* groups that acknowledged a write, accepts exactly the reply counts the
\* specification's table accepts, for every mode.
AcceptanceMatchesTable ==
    kind = "policy" => (upload_is_good(mode, r, s) = TableAccepts(mode, r, s))

(* The selector.                                                           *)

Results == Sel(dl)!get_groups(explicit, count)

Expected(n) == IF count # 0 /\ count < n THEN count ELSE n

\* A selection from the default list (no explicit groups) returns
\* min(count, |default|) distinct groups of the default list, keeps the
\* head of a list of two or more in front, can put any other default group
\* right behind it, and is empty (the "There is no groups" throw) only when
\* the default list is empty.
DefaultSelectionContract ==
    (kind = "select" /\ explicit = <<>>) =>
        /\ \A l \in Results :
              /\ Len(l) = Expected(Len(dl))
              /\ IsInjective(l) /\ Range(l) \subseteq Range(dl)
              /\ Len(dl) >= 2 => l[1] = dl[1]
        /\ (Len(dl) >= 2 /\ Expected(Len(dl)) >= 2) =>
              \A i \in 2..Len(dl) : \E l \in Results : l[2] = dl[i]

(* The range read.                                                         *)

\* Whenever a group answers and NODATA is set, or a group that answers
\* holds a record between from_key and to_key, range_get returns what
\* spec 5 promises of one answering group: the data bodies of those
\* records in id order, or under NODATA the single textual count of them.
\* This is about the entry loop of range_get_impl, its test of NODATA and
\* the request it builds from the two keys.
RangeGetMatchesSpec ==
    (kind = "range" /\ \E g \in answered : nodata \/ RG!SpecRange(recs[g], from, to) # <<>>) =>
        LET res == RG!range_get(RangeGroups, recs, answered, from, to, nodata)
        IN res.ok /\ \E g \in answered : res.val = RG!SpecResult(recs[g], from, to, nodata)

(* The write helper.                                                       *)

\* A chunked upload that write_impl accepts was written to enough distinct
\* groups to meet the policy (spec 4.1: s is the number of groups with a
\* non-error reply, R the size of the explicit list), and the remove its
\* compensation sends for the groups that dropped out reaches none of the
\* groups it reports (spec 4.3). This is about how update_lookup,
\* upload_is_good, has_incomplete_groups and get_incomplete_groups count
\* and subtract the group vectors.
AcceptedUploadCountsGroups ==
    kind = "helper" =>
        LET u == WH!ChunkedUpload(mode, r, wl, prep, comm)
        IN u.accepted =>
             /\ upload_is_good(mode, r, Cardinality(Range(u.reported)))
             /\ u.removed \cap Range(u.reported) = {}
=============================================================================
