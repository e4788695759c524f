----------------------------- MODULE AsyncJobs -----------------------------
(***************************************************************************)
(* The in-memory executor of background jobs (async_jobs.py): a thread     *)
(* pool with a history of handles.  A handle is one AsyncJob; a slot of    *)
(* Handles is used again once its job has ended, as a new AsyncJob.  The   *)
(* history trims ended handles only and is left out.                       *)
(***************************************************************************)
EXTENDS Naturals, FiniteSets

CONSTANTS
    Handles,        \* slots for in-memory jobs
    MaxWorkers      \* threads of the pool

ASSUME MaxWorkersAssumption == MaxWorkers \in Nat \ {0}

VARIABLES
    handle,     \* AsyncJob.status, "none" for an unused slot
    accepting,  \* _accepting
    pool        \* "open", "closed" by shutdown, "drained" when that returned

EndedHandle == {"succeeded", "failed", "cancelled"}
HandleStatuses == {"none", "registered", "queued", "running"} \cup EndedHandle

AsyncTypeOK ==
    /\ handle \in [Handles -> HandleStatuses]
    /\ accepting \in BOOLEAN
    /\ pool \in {"open", "closed", "drained"}

AsyncInit ==
    /\ handle = [h \in Handles |-> "none"]
    /\ accepting = TRUE
    /\ pool = "open"

InFlight == {h \in Handles : handle[h] = "running"}

(* enqueue, under the lock: a handle is created while jobs are accepted.   *)
Register(h) ==
    /\ accepting
    /\ handle[h] \in {"none"} \cup EndedHandle
    /\ handle' = [handle EXCEPT ![h] = "registered"]

(* executor.submit, outside the lock: a closed pool refuses the job and    *)
(* its handle is dropped.                                                  *)
SubmitAnyway(h) ==                  \* a bug: the refusal leaves the handle
    /\ handle[h] = "registered"
    /\ handle' = [handle EXCEPT ![h] = "queued"]

Submit(h) ==
    /\ handle[h] = "registered"
    /\ handle' = [handle EXCEPT ![h] =
           IF pool = "open" THEN "queued" ELSE "none"]

Begin(h) ==
    /\ handle[h] = "queued"
    /\ Cardinality(InFlight) < MaxWorkers
    /\ handle' = [handle EXCEPT ![h] = "running"]

End(h, status) ==
    /\ handle[h] = "running"
    /\ handle' = [handle EXCEPT ![h] = status]

(* shutdown: no new jobs; then pending work is cancelled and running work  *)
(* drained; then it returns.                                               *)
StopAccepting ==
    /\ accepting
    /\ accepting' = FALSE
    /\ UNCHANGED <<handle, pool>>

ClosePool ==
    /\ ~accepting
    /\ pool = "open"
    /\ pool' = "closed"
    /\ handle' = [h \in Handles |->
           IF handle[h] = "queued" THEN "cancelled" ELSE handle[h]]
    /\ UNCHANGED accepting

Drain ==
    /\ pool = "closed"
    /\ InFlight = {}
    /\ pool' = "drained"
    /\ UNCHANGED <<handle, accepting>>

(* start_async_jobs: a fresh queue, unless the old one still accepts.      *)
FreshQueue ==
    /\ accepting' = TRUE
    /\ pool' = "open"
=============================================================================
