---------------------------- MODULE WeightCache ----------------------------
(***************************************************************************)
(* The metabalancer group-weights refresh of src/src/proxy.cpp (built with *)
(* HAVE_METABASE and a cocaine dealer configured):                         *)
(*   - the worker thread collect_group_weights_loop (1309-1348), started   *)
(*     by the constructor (497-499), which refreshes under m_mutex and    *)
(*     sleeps on m_weight_cache_condition_variable between refreshes;     *)
(*   - the destructor (503-518), which sets m_done under m_mutex,         *)
(*     notifies and joins the worker;                                     *)
(*   - caller threads in get_metabalancer_groups_impl (1350-1392), which   *)
(*     run collect_group_weights themselves, without m_mutex, while the   *)
(*     cache is not initialized.                                          *)
(* collect_group_weights (1282-1307) bumps m_metabase_current_stamp with  *)
(* a plain ++, so its read and its write are separate steps here; the     *)
(* counter is a StampBits-wide unsigned integer. The RPC (send_message +  *)
(* future->get + unpack) is one step whose result is "ok" (a valid        *)
(* response, the cache accepts it), "invalid" (update() returns false) or *)
(* "error" (a dealer, internal or unpack exception).                      *)
(***************************************************************************)
EXTENDS Integers, FiniteSets

CONSTANTS
    Callers,      \* threads calling get_metabalancer_groups_impl
    MaxCalls,     \* calls per caller thread
    StampBits,    \* width of m_metabase_current_stamp
    StampInit,    \* values the (never initialised) stamp may start with
    None

ASSUME /\ MaxCalls \in Nat /\ StampBits \in Nat \ {0}
       /\ StampInit \subseteq 0..(2^StampBits - 1)

VARIABLES
    wpc,          \* worker thread: where it is in collect_group_weights_loop
    tm,           \* the loop's tm: "timeout" or "no_timeout"
    wtmp,         \* stamp value the worker's ++ has read (+1) but not stored
    m_done,       \* the shutdown flag
    mutex,        \* holder of m_mutex: "free", "worker" or "owner"
    owner,        \* the thread that destroys the proxy
    cpc,          \* cpc[c]: where caller c is in get_metabalancer_groups_impl
    ctmp,         \* ctmp[c]: stamp value caller c's ++ has read (+1)
    calls_left,   \* calls_left[c]: calls caller c may still make
    stamp,        \* m_metabase_current_stamp
    initialized,  \* m_weight_cache->initialized()
    due,          \* a refresh period elapsed and no refresh has run since
    req,          \* stamp of the request sent in the last step, or None
    sent          \* stamps of all requests sent so far

vars == <<wpc, tm, wtmp, m_done, mutex, owner, cpc, ctmp, calls_left, stamp,
          initialized, due, req, sent>>

StampMod == 2^StampBits
RpcResults == {"ok", "invalid", "error"}

\* Mutant: the increment computed without the wrap of the unsigned type.
Bump_NoWrap(s) == s + 1

\* ++m_metabase_current_stamp in unsigned arithmetic.
Bump(s) == (s + 1) % StampMod

\* m_weight_cache->update(resp) succeeds only for a valid response; an
\* exception leaves the cache as it was.
Refreshed(r) == initialized \/ r = "ok"

-----------------------------------------------------------------------------
Init ==
    /\ wpc = "start"
    /\ tm = "timeout"
    /\ wtmp = 0
    /\ m_done = FALSE
    /\ mutex = "free"
    /\ owner = "live"
    /\ cpc = [c \in Callers |-> "idle"]
    /\ ctmp = [c \in Callers |-> 0]
    /\ calls_left = [c \in Callers |-> MaxCalls]
    /\ stamp \in StampInit
    /\ initialized = FALSE
    /\ due = FALSE
    /\ req = None
    /\ sent = {}

(* The worker thread.                                                      *)

\* std::unique_lock<std::mutex> lock(m_mutex) at the top of the loop.
WorkerStart ==
    /\ wpc = "start" /\ mutex = "free"
    /\ mutex' = "worker" /\ wpc' = "read_stamp"
    /\ UNCHANGED <<tm, wtmp, m_done, owner, cpc, ctmp, calls_left, stamp,
                   initialized, due, sent>> /\ req' = None

\* collect_group_weights: the read half of req.stamp = ++m_metabase_current_stamp.
WorkerReadStamp ==
    /\ wpc = "read_stamp"
    /\ wtmp' = Bump(stamp) /\ wpc' = "send"
    /\ UNCHANGED <<tm, m_done, mutex, owner, cpc, ctmp, calls_left, stamp,
                   initialized, due, sent>> /\ req' = None

\* The write half of the ++, the request, the reply and m_weight_cache->update;
\* the loop's catch clauses swallow every error; then tm = timeout.
WorkerRefresh ==
    /\ wpc = "send"
    /\ stamp' = wtmp /\ req' = wtmp /\ sent' = sent \cup {wtmp}
    /\ \E r \in RpcResults : initialized' = Refreshed(r)
    /\ due' = FALSE
    /\ tm' = "timeout" /\ wpc' = "check"
    /\ UNCHANGED <<wtmp, m_done, mutex, owner, cpc, ctmp, calls_left>>

\* Mutant: the outer loop test reads `timeout == tm`.
RefreshAgain_OnTimeout(t) == t = "timeout"

\* } while (no_timeout == tm): the outer loop refreshes again only after a
\* wake-up that was not a timeout.
RefreshAgain(t) == t = "no_timeout"

\* while (m_done == false) ...: wait again, or leave the inner loop and take
\* the outer test; leaving the function releases m_mutex.
WorkerCheck ==
    /\ wpc = "check"
    /\ IF ~m_done
       THEN wpc' = "wait" /\ UNCHANGED mutex
       ELSE IF RefreshAgain(tm)
            THEN wpc' = "read_stamp" /\ UNCHANGED mutex
            ELSE wpc' = "exited" /\ mutex' = "free"
    /\ UNCHANGED <<tm, wtmp, m_done, owner, cpc, ctmp, calls_left, stamp,
                   initialized, due, sent>> /\ req' = None

\* wait_for(lock, period): release m_mutex and block.
WorkerWait ==
    /\ wpc = "wait"
    /\ wpc' = "waiting" /\ mutex' = "free"
    /\ UNCHANGED <<tm, wtmp, m_done, owner, cpc, ctmp, calls_left, stamp,
                   initialized, due, sent>> /\ req' = None

\* The period elapses: wait_for returns cv_status::timeout.
WorkerTimeout ==
    /\ wpc = "waiting"
    /\ wpc' = "relock" /\ tm' = "timeout" /\ due' = TRUE
    /\ UNCHANGED <<wtmp, m_done, mutex, owner, cpc, ctmp, calls_left, stamp,
                   initialized, sent>> /\ req' = None

\* A spurious wake-up: wait_for returns cv_status::no_timeout.
WorkerSpurious ==
    /\ wpc = "waiting"
    /\ wpc' = "relock" /\ tm' = "no_timeout"
    /\ UNCHANGED <<wtmp, m_done, mutex, owner, cpc, ctmp, calls_left, stamp,
                   initialized, due, sent>> /\ req' = None

\* wait_for re-acquires m_mutex before it returns.
WorkerRelock ==
    /\ wpc = "relock" /\ mutex = "free"
    /\ mutex' = "worker" /\ wpc' = "check"
    /\ UNCHANGED <<tm, wtmp, m_done, owner, cpc, ctmp, calls_left, stamp,
                   initialized, due, sent>> /\ req' = None

(* The destructor, run by the owner once no call is in progress.           *)

DestructorBegin ==
    /\ owner = "live"
    /\ \A c \in Callers : cpc[c] = "idle"
    /\ owner' = "locking"
    /\ UNCHANGED <<wpc, tm, wtmp, m_done, mutex, cpc, ctmp, calls_left, stamp,
                   initialized, due, sent>> /\ req' = None

\* notify_one: a waiting worker wakes with no_timeout; otherwise it is lost.
Notify ==
    IF wpc = "waiting"
    THEN wpc' = "relock" /\ tm' = "no_timeout"
    ELSE UNCHANGED <<wpc, tm>>

\* Mutant: the destructor sets m_done and notifies without the lock_guard.
DestructorSignal_Unlocked ==
    /\ owner = "locking"
    /\ m_done' = TRUE /\ Notify /\ owner' = "joining"
    /\ UNCHANGED <<wtmp, mutex, cpc, ctmp, calls_left, stamp, initialized, due, sent>>
    /\ req' = None

\* { lock_guard lock(m_mutex); m_done = true; notify_one(); }
DestructorSignal ==
    /\ owner = "locking" /\ mutex = "free"
    /\ m_done' = TRUE /\ Notify /\ owner' = "joining"
    /\ UNCHANGED <<wtmp, mutex, cpc, ctmp, calls_left, stamp, initialized, due, sent>>
    /\ req' = None

\* m_weight_cache_update_thread.join()
DestructorJoin ==
    /\ owner = "joining" /\ wpc = "exited"
    /\ owner' = "joined"
    /\ UNCHANGED <<wpc, tm, wtmp, m_done, mutex, cpc, ctmp, calls_left, stamp,
                   initialized, due, sent>> /\ req' = None

(* Callers of get_metabalancer_groups_impl.                                *)

\* An initialized cache answers from choose(); otherwise the caller runs
\* collect_group_weights itself, starting with the read half of the ++.
CallerBegin(c) ==
    /\ owner = "live" /\ cpc[c] = "idle" /\ calls_left[c] > 0
    /\ IF initialized
       THEN /\ calls_left' = [calls_left EXCEPT ![c] = @ - 1]
            /\ UNCHANGED <<cpc, ctmp>>
       ELSE /\ ctmp' = [ctmp EXCEPT ![c] = Bump(stamp)]
            /\ cpc' = [cpc EXCEPT ![c] = "send"]
            /\ UNCHANGED calls_left
    /\ UNCHANGED <<wpc, tm, wtmp, m_done, mutex, owner, stamp, initialized, due, sent>>
    /\ req' = None

\* The write half of the ++ and the RPC; an error propagates to the caller,
\* a rejected update returns an empty group list.
CallerRefresh(c) ==
    /\ cpc[c] = "send"
    /\ stamp' = ctmp[c] /\ req' = ctmp[c] /\ sent' = sent \cup {ctmp[c]}
    /\ \E r \in RpcResults : initialized' = Refreshed(r)
    /\ cpc' = [cpc EXCEPT ![c] = "idle"]
    /\ calls_left' = [calls_left EXCEPT ![c] = @ - 1]
    /\ UNCHANGED <<wpc, tm, wtmp, m_done, mutex, owner, ctmp, due>>

Next ==
    \/ WorkerStart \/ WorkerReadStamp \/ WorkerRefresh \/ WorkerCheck
    \/ WorkerWait \/ WorkerTimeout \/ WorkerSpurious \/ WorkerRelock
    \/ DestructorBegin \/ DestructorSignal \/ DestructorJoin
    \/ \E c \in Callers : CallerBegin(c) \/ CallerRefresh(c)

\* The worker is a thread that keeps running; wait_for's period always ends
\* (spurious wake-ups are not guaranteed and get no fairness); every RPC has
\* the dealer's deadline. Once the owner has entered the destructor it runs
\* on; whether and when it enters is the application's choice.
Fairness ==
    /\ WF_vars(WorkerStart) /\ WF_vars(WorkerReadStamp) /\ WF_vars(WorkerRefresh)
    /\ WF_vars(WorkerCheck) /\ WF_vars(WorkerWait) /\ WF_vars(WorkerTimeout)
    /\ SF_vars(WorkerRelock)
    /\ SF_vars(DestructorSignal) /\ WF_vars(DestructorJoin)
    /\ \A c \in Callers : WF_vars(CallerRefresh(c))

Spec == Init /\ [][Next]_vars /\ Fairness

-----------------------------------------------------------------------------
TypeOK ==
    /\ wpc \in {"start", "read_stamp", "send", "check", "wait", "waiting",
                "relock", "exited"}
    /\ tm \in {"timeout", "no_timeout"}
    /\ m_done \in BOOLEAN
    /\ mutex \in {"free", "worker", "owner"}
    /\ owner \in {"live", "locking", "joining", "joined"}
    /\ cpc \in [Callers -> {"idle", "send"}]
    /\ calls_left \in [Callers -> 0..MaxCalls]
    /\ stamp \in 0..(StampMod - 1) /\ wtmp \in 0..(StampMod - 1)
    /\ initialized \in BOOLEAN /\ due \in BOOLEAN
    /\ req \in 0..(StampMod - 1) \cup {None}
    /\ sent \subseteq 0..(StampMod - 1)

\* Once the destructor has set m_done, the worker is never asleep in
\* wait_for: the m_done test and the wait happen under m_mutex, which the
\* destructor holds while it sets the flag and notifies, so no notification
\* is lost and shutdown never waits out a refresh period.
DoneNeverSleeps == ~(m_done /\ wpc = "waiting")

\* The refresh protocol implements its promise (WeightWorker): the cache is
\* only ever filled, refreshes by the worker or a caller happen only while
\* the worker runs, the worker leaves collect_group_weights_loop only after
\* m_done is set, join() returns only after it has, and once the destructor
\* has set m_done the worker does exit and the join does return. This is
\* about the loop's two exit tests, the destructor's signal, the callers'
\* refresh and m_weight_cache->update.
Abstract == INSTANCE WeightWorker WITH
                done <- m_done,
                worker <- IF wpc = "exited" THEN "exited" ELSE "running",
                joined <- (owner = "joined")

WeightWorkerRefined == Abstract!Spec

\* While the proxy lives, an elapsed refresh period is followed by a refresh
\* (spec 4.6: the worker wakes every group_weights_refresh_period seconds
\* and attempts a refresh).
PeriodicRefresh == due ~> (~due \/ m_done)

\* Every request to the metabalancer carries a stamp larger than every stamp
\* sent before (spec 4.6: a monotonically increasing u64).
StampsIncrease == [][req' # None => \A s \in sent : s < req']_vars
=============================================================================
