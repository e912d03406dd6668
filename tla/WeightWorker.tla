---------------------------- MODULE WeightWorker ----------------------------
(***************************************************************************)
(* What the weighted-cache refresh promises (spec 4.6 and 5), without the *)
(* mutex, the condition variable or the stamp: refreshes (by the worker   *)
(* or by a caller that finds the cache empty) only ever fill the cache,   *)
(* and happen only while the worker runs; shutdown sets a flag, the       *)
(* worker then exits, and the destructor's join returns after it has.     *)
(* Once the flag is set, the exit and the join are guaranteed.             *)
(***************************************************************************)

VARIABLES
    initialized,   \* the cache holds a snapshot
    done,          \* shutdown was signalled
    worker,        \* "running" or "exited"
    joined         \* the destructor's join has returned

vars == <<initialized, done, worker, joined>>

Init ==
    /\ initialized = FALSE /\ done = FALSE
    /\ worker = "running" /\ joined = FALSE

\* A refresh installs a new snapshot or leaves the cache as it was.
Refresh ==
    /\ worker = "running"
    /\ initialized' \in {initialized, TRUE}
    /\ UNCHANGED <<done, worker, joined>>

Signal ==
    /\ ~done
    /\ done' = TRUE
    /\ UNCHANGED <<initialized, worker, joined>>

Exit ==
    /\ done /\ worker = "running"
    /\ worker' = "exited"
    /\ UNCHANGED <<initialized, done, joined>>

Join ==
    /\ worker = "exited" /\ ~joined
    /\ joined' = TRUE
    /\ UNCHANGED <<initialized, done, worker>>

Next == Refresh \/ Signal \/ Exit \/ Join

Spec == Init /\ [][Next]_vars /\ WF_vars(Exit) /\ WF_vars(Join)
=============================================================================
