--------------------------- MODULE SuccessCopies ---------------------------
(***************************************************************************)
(* The write-acceptance policy of src/src/proxy.cpp (anonymous namespace,  *)
(* lines 46-70): how many successful group replies a write needs, and      *)
(* whether a set of replies is good enough.                                *)
(*                                                                         *)
(* success_copies_num is either one of the three SUCCESS_COPIES_TYPE__*    *)
(* enumerators (model values ANY, QUORUM, ALL here) or a positive number   *)
(* N of copies.                                                            *)
(***************************************************************************)
EXTENDS Integers

CONSTANTS ANY, QUORUM, ALL   \* SUCCESS_COPIES_TYPE__ANY / __QUORUM / __ALL

SuccessTypes == {ANY, QUORUM, ALL}

\* Mutant: QUORUM computed as replication_count >> 1, without the + 1.
uploads_need_HalfQuorum(scn, rc) ==
    CASE scn = ANY    -> 1
      [] scn = QUORUM -> rc \div 2
      [] OTHER        -> rc

\* uploads_need(success_copies_num, replication_count): the number of copies
\* bulk_write_impl requires per key. ALL and an explicit N both fall to the
\* branch that answers replication_count.
uploads_need(scn, rc) ==
    CASE scn = ANY    -> 1
      [] scn = QUORUM -> (rc \div 2) + 1
      [] OTHER        -> rc

\* Mutant: QUORUM computed as replication_count >> 1, without the + 1.
upload_is_good_HalfQuorum(scn, rc, size) ==
    CASE scn = ANY    -> size >= 1
      [] scn = QUORUM -> size >= rc \div 2
      [] scn = ALL    -> size = rc
      [] OTHER        -> size >= scn

\* upload_is_good(success_copies_num, replication_count, size): whether
\* `size` successful replies satisfy the policy. ALL wants exactly
\* replication_count; an explicit N wants at least N.
upload_is_good(scn, rc, size) ==
    CASE scn = ANY    -> size >= 1
      [] scn = QUORUM -> size >= (rc \div 2) + 1
      [] scn = ALL    -> size = rc
      [] OTHER        -> size >= scn
=============================================================================
