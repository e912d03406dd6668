------------------------------ MODULE RangeGet ------------------------------
(***************************************************************************)
(* range_get_impl (proxy.cpp 733-813) as operators: the READ_RANGE request *)
(* it builds from the two keys, the loop over lgroups that keeps the first *)
(* group whose answer makes the result non-empty, and the throw when none  *)
(* does.                                                                   *)
(*                                                                         *)
(* Key ids are the integers 0..MaxId in the order the storage compares     *)
(* them; MaxId stands for the all-0xff id. A key is [by_id, id]: a key     *)
(* given by raw id, or by name, whose id is the one the storage would      *)
(* derive from the name. A group's records are a set of ids.               *)
(*                                                                         *)
(* The server side of READ_RANGE is not in this repository; the model      *)
(* assumes the answer elliptics documents: without NODATA one entry per    *)
(* record with id in [io.id, io.parent], in id order, carrying the record's *)
(* data; with NODATA a single entry with empty data whose io attribute     *)
(* holds the number of such records. limit_start and limit_num are taken   *)
(* at their default (0: no limit) and not modelled.                        *)
(***************************************************************************)
EXTENDS Integers, Sequences, FiniteSets, SequencesExt

CONSTANT MaxId

Ids == 0..MaxId

(* The strings a result holds: a record's data, the empty data of a NODATA *)
(* entry, and the decimal text of a count (ostringstream << num), which is *)
(* injective, so a count is kept as the number it spells.                  *)
Data(k) == [kind |-> "data", id |-> k]
EmptyData == [kind |-> "empty"]
Text(n) == [kind |-> "count", n |-> n]

\* The request (744-763): io.id is from's id only when from is given by id
\* (memset leaves zero otherwise); io.parent is from's id when to is given
\* by id and all 0xff otherwise.
RangeLo(from, to) == IF from.by_id THEN from.id ELSE 0
RangeHi(from, to) == IF to.by_id THEN from.id ELSE MaxId

\* The server's answer to a READ_RANGE over [lo, hi] from a group holding
\* the records recs.
InRange(recs, lo, hi) == SetToSortSeq({k \in recs : lo <= k /\ k <= hi}, <)

ServerAnswer(recs, lo, hi, nodata) ==
    LET ks == InRange(recs, lo, hi)
    IN IF nodata THEN << [data |-> EmptyData, num |-> Len(ks)] >>
       ELSE [i \in 1..Len(ks) |-> [data |-> Data(ks[i]), num |-> 1]]

\* One answered group (769-784): the entry loop adds io num to the count
\* when NODATA is clear and pushes the entry's data when it is set; then,
\* under NODATA, the count's text is pushed.
EntryStep(st, e, nodata) ==
    IF ~nodata THEN [st EXCEPT !.num = @ + e.num]
    ELSE [st EXCEPT !.ret = Append(@, e.data)]

AnsweredGroup(ret, entries, nodata) ==
    LET st == FoldLeft(LAMBDA s, e : EntryStep(s, e, nodata), [num |-> 0, ret |-> ret], entries)
    IN IF nodata THEN Append(st.ret, Text(st.num)) ELSE st.ret

\* The group loop (765-788): a group whose read throws is skipped
\* (catch (...) continue); the loop stops at the first answered group after
\* which ret is non-empty. ret is shared by all iterations.
RECURSIVE GroupLoop(_, _, _, _, _, _, _)
GroupLoop(i, ret, lgroups, recs, answered, io, nodata) ==
    IF i > Len(lgroups) THEN ret
    ELSE LET g == lgroups[i]
             next == AnsweredGroup(ret, ServerAnswer(recs[g], io.lo, io.hi, nodata), nodata)
         IN IF g \notin answered THEN GroupLoop(i + 1, ret, lgroups, recs, answered, io, nodata)
            ELSE IF Len(next) > 0 THEN next
            ELSE GroupLoop(i + 1, next, lgroups, recs, answered, io, nodata)

\* range_get_impl: the vector it returns, or a throw ("READ_RANGE failed",
\* 790-795) when no group left ret non-empty.
range_get(lgroups, recs, answered, from, to, nodata) ==
    LET ret == GroupLoop(1, <<>>, lgroups, recs, answered,
                         [lo |-> RangeLo(from, to), hi |-> RangeHi(from, to)], nodata)
    IN IF Len(ret) = 0 THEN [ok |-> FALSE] ELSE [ok |-> TRUE, val |-> ret]

(* The contract of spec 5: the data bodies of the records from from_key to *)
(* to_key, or, with NODATA, a single-element vector with their count, as   *)
(* one group holds them.                                                   *)
SpecRange(recs, from, to) == InRange(recs, from.id, to.id)

SpecResult(recs, from, to, nodata) ==
    IF nodata THEN << Text(Len(SpecRange(recs, from, to))) >>
    ELSE [i \in 1..Len(SpecRange(recs, from, to)) |-> Data(SpecRange(recs, from, to)[i])]
=============================================================================
