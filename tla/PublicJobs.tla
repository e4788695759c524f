---------------------------- MODULE PublicJobs -----------------------------
(***************************************************************************)
(* Durable jobs of the public API and of internal callers                  *)
(* (public_api/jobs.py) on the in-memory executor of AsyncJobs: creation,  *)
(* the claimed execution with its generation fence, cancellation, the      *)
(* event log with its SSE readers, the chat session a run job keeps, and   *)
(* recovery when the process starts again.                                 *)
(*                                                                         *)
(* Each job is a run job with a session of its own.  A sequence number is  *)
(* the position in the log: the unique constraint on (job_id, sequence)    *)
(* refuses an event whose number is taken.                                 *)
(***************************************************************************)
EXTENDS AsyncJobs, Sequences

CONSTANTS
    Jobs,
    None,
    MaxEvents   \* bound on the log before its terminal event

ASSUME JobsAssumption == None \notin Jobs /\ None \notin Handles
ASSUME MaxEventsAssumption == MaxEvents \in Nat

VARIABLES
    job,        \* the APIJob row
    log,        \* its APIJobEvent rows, in sequence
    claims,     \* how many executions of the job were granted
    offering,   \* jobs committed, not yet offered to the executor
    cancelling, \* jobs a cancel request has read as unfinished
    jobOf,      \* the job a handle executes
    pc,         \* where run_job is
    gen,        \* the generation it claimed
    seen,       \* the length of the log it read
    chat,       \* status of the run's chat session
    reader,     \* an SSE reader of the job
    found,      \* running jobs recovery has loaded, or None
    up          \* the process serves

workerVars == <<jobOf, pc, gen, seen>>
jobVars == <<job, log, claims>>
requestVars == <<offering, cancelling, reader>>
lifeVars == <<found, up>>
vars == <<handle, accepting, pool, jobVars, requestVars, workerVars, chat,
          lifeVars>>

Terminal == {"succeeded", "failed", "cancelled"}
JobStatuses == {"none", "queued", "running"} \cup Terminal
EventTypes == {"queued", "started", "progress", "cancel"} \cup Terminal
WorkerSteps == {"claim", "start", "emit", "check", "handle", "refresh"}
Outcome == [succeed |-> "succeeded", cancel |-> "cancelled", fail |-> "failed"]

Job == [status: JobStatuses, owner: Handles \cup {None}, gen: Nat,
        cancel: BOOLEAN]
NoJob == [status |-> "none", owner |-> None, gen |-> 0, cancel |-> FALSE]
Reader == [cursor: Nat, saw: JobStatuses \cup {None}, open: BOOLEAN]
NewReader == [cursor |-> 0, saw |-> None, open |-> TRUE]

TypeOK ==
    /\ AsyncTypeOK
    /\ job \in [Jobs -> Job]
    /\ log \in [Jobs -> Seq(EventTypes)]
    /\ claims \in [Jobs -> Nat]
    /\ offering \in SUBSET Jobs
    /\ cancelling \in SUBSET Jobs
    /\ jobOf \in [Handles -> Jobs \cup {None}]
    /\ pc \in [Handles -> {"none"} \cup WorkerSteps \cup DOMAIN Outcome]
    /\ gen \in [Handles -> Nat]
    /\ seen \in [Handles -> Nat]
    /\ chat \in [Jobs -> {"active", "running"}]
    /\ reader \in [Jobs -> Reader]
    /\ found = None \/ found \in SUBSET Jobs
    /\ up \in BOOLEAN

Init ==
    /\ AsyncInit
    /\ job = [j \in Jobs |-> NoJob]
    /\ log = [j \in Jobs |-> <<>>]
    /\ claims = [j \in Jobs |-> 0]
    /\ offering = {}
    /\ cancelling = {}
    /\ jobOf = [h \in Handles |-> None]
    /\ pc = [h \in Handles |-> "none"]
    /\ gen = [h \in Handles |-> 0]
    /\ seen = [h \in Handles |-> 0]
    /\ chat = [j \in Jobs |-> "active"]
    /\ reader = [j \in Jobs |-> NewReader]
    /\ found = None
    /\ up = TRUE

IsFinished(j) == job[j].status \in Terminal
Goto(h, step) == pc' = [pc EXCEPT ![h] = step]

(* emit_job_event in a transaction that has already written: no other      *)
(* writer comes between the number it reads and the row it inserts.        *)
Emit(j, type) == log' = [log EXCEPT ![j] = Append(@, type)]

-----------------------------------------------------------------------------
(* create_job, create_internal_job *)

Create(j) ==
    /\ job[j].status = "none"
    /\ job' = [job EXCEPT ![j].status = "queued"]
    /\ Emit(j, "queued")
    /\ offering' = offering \cup {j}
    /\ UNCHANGED <<handle, accepting, pool, claims, cancelling, reader,
                   workerVars, chat, lifeVars>>

(* The committed row is offered to the executor; a queue that is shutting  *)
(* down refuses it and the row stays queued.                               *)
Offer(j) ==
    /\ j \in offering
    /\ offering' = offering \ {j}
    /\ \/ \E h \in Handles :
            /\ Register(h)
            /\ jobOf' = [jobOf EXCEPT ![h] = j]
       \/ ~accepting /\ UNCHANGED <<handle, jobOf>>
    /\ UNCHANGED <<accepting, pool, jobVars, cancelling, reader, pc, gen,
                   seen, chat, lifeVars>>

SubmitJob(h) ==
    /\ Submit(h)
    /\ UNCHANGED <<accepting, pool, jobVars, requestVars, workerVars, chat, lifeVars>>

-----------------------------------------------------------------------------
(* run_job *)

StartWorker(h) ==
    /\ Begin(h)
    /\ Goto(h, "claim")
    /\ UNCHANGED <<accepting, pool, jobVars, requestVars, jobOf, gen, seen,
                   chat, lifeVars>>

(* _claim_job: a compare-and-set; whoever loses it returns.                *)
ClaimableAlsoRunning(j) ==          \* a bug: a running job is claimed again
    job[j].status \in {"queued", "running"}

Claimable(j) ==
    \/ job[j].status = "queued"
    \/ job[j].status = "running" /\ job[j].owner = None

ClaimJob(h) ==
    LET j == jobOf[h] IN
    /\ pc[h] = "claim"
    /\ \/ /\ Claimable(j)
          /\ job' = [job EXCEPT ![j].status = "running", ![j].owner = h,
                                ![j].gen = @ + 1]
          /\ claims' = [claims EXCEPT ![j] = @ + 1]
          /\ gen' = [gen EXCEPT ![h] = job[j].gen + 1]
          /\ Goto(h, "start")
          /\ UNCHANGED handle
       \/ /\ ~Claimable(j)
          /\ End(h, "succeeded")
          /\ Goto(h, "none")
          /\ UNCHANGED <<job, claims, gen>>
    /\ UNCHANGED <<accepting, pool, log, requestVars, jobOf, seen, chat, lifeVars>>

(* The started event: its number is read in autocommit and used by the     *)
(* insert that follows.                                                    *)
ReadLatest(h) ==
    /\ pc[h] = "start"
    /\ seen' = [seen EXCEPT ![h] = Len(log[jobOf[h]])]
    /\ Goto(h, "emit")
    /\ UNCHANGED <<handle, accepting, pool, jobVars, requestVars, jobOf, gen,
                   chat, lifeVars>>

(* A number taken meanwhile, or a webhook delivery a stopping executor     *)
(* refuses, is an exception outside the try block: the row stays running.  *)
EmitStarted(h) ==
    LET j == jobOf[h] IN
    /\ pc[h] = "emit"
    /\ \/ /\ Len(log[j]) = seen[h]
          /\ Emit(j, "started")
          /\ \/ Goto(h, "check") /\ UNCHANGED handle
             \/ ~accepting /\ Goto(h, "none") /\ End(h, "failed")
       \/ /\ Len(log[j]) # seen[h]
          /\ Goto(h, "none")
          /\ End(h, "failed")
          /\ UNCHANGED log
    /\ seen' = [seen EXCEPT ![h] = 0]
    /\ UNCHANGED <<accepting, pool, job, claims, requestVars, jobOf, gen, chat,
                   lifeVars>>

(* Cancellation is looked at before the handler, while it runs             *)
(* (ensure_not_cancelled) and after it.                                    *)
SeeCancel(h) ==
    /\ pc[h] \in {"check", "handle", "refresh"}
    /\ job[jobOf[h]].cancel
    /\ Goto(h, "cancel")
    /\ UNCHANGED <<handle, accepting, pool, jobVars, requestVars, jobOf, gen,
                   seen, chat, lifeVars>>

(* The handler marks the chat session running.                             *)
EnterHandler(h) ==
    /\ pc[h] = "check"
    /\ ~job[jobOf[h]].cancel
    /\ chat' = [chat EXCEPT ![jobOf[h]] = "running"]
    /\ Goto(h, "handle")
    /\ UNCHANGED <<handle, accepting, pool, jobVars, requestVars, jobOf, gen,
                   seen, lifeVars>>

(* update_job: progress of the handler, not fenced by the generation.      *)
Progress(h) ==
    LET j == jobOf[h] IN
    /\ pc[h] = "handle"
    /\ Len(log[j]) < MaxEvents
    /\ Emit(j, "progress")
    /\ UNCHANGED <<handle, accepting, pool, job, claims, requestVars,
                   workerVars, chat, lifeVars>>

(* The handler returns; the turn it ran may have left the session running. *)
HandlerReturns(h) ==
    /\ pc[h] = "handle"
    /\ \E status \in {"active", "running"} :
          chat' = [chat EXCEPT ![jobOf[h]] = status]
    /\ Goto(h, "refresh")
    /\ UNCHANGED <<handle, accepting, pool, jobVars, requestVars, jobOf, gen,
                   seen, lifeVars>>

NotCancelled(h) ==
    /\ pc[h] = "refresh"
    /\ ~job[jobOf[h]].cancel
    /\ Goto(h, "succeed")
    /\ UNCHANGED <<handle, accepting, pool, jobVars, requestVars, jobOf, gen,
                   seen, chat, lifeVars>>

(* Any exception inside the try block.                                     *)
HandlerFails(h) ==
    /\ pc[h] \in {"check", "handle", "refresh", "succeed"}
    /\ Goto(h, "fail")
    /\ UNCHANGED <<handle, accepting, pool, jobVars, requestVars, jobOf, gen,
                   seen, chat, lifeVars>>

(* The fence of _terminalize_job.                                          *)
OwnsByStatus(h) ==                  \* a bug: neither owner nor generation
    job[jobOf[h]].status # "none"

OwnsJob(h) ==
    LET j == jobOf[h] IN
    /\ job[j].status = "running"
    /\ job[j].owner = h
    /\ job[j].gen = gen[h]

(* _terminalize_job and _emit_terminal_job_event: status, session and      *)
(* event commit together; a worker that lost the job publishes nothing.    *)
Terminalize(h) ==
    LET j == jobOf[h] IN
    /\ pc[h] \in DOMAIN Outcome
    /\ \/ /\ OwnsJob(h)
          /\ job' = [job EXCEPT ![j].status = Outcome[pc[h]], ![j].owner = None]
          /\ Emit(j, Outcome[pc[h]])
          /\ chat' = [chat EXCEPT ![j] = "active"]
       \/ ~OwnsJob(h) /\ UNCHANGED <<job, log, chat>>
    /\ End(h, "succeeded")
    /\ Goto(h, "none")
    /\ UNCHANGED <<accepting, pool, claims, requestVars, jobOf, gen, seen, lifeVars>>

(* An exception while the cancelled or failed state is published leaves    *)
(* run_job and the row running.                                            *)
TerminalizeRaises(h) ==
    /\ pc[h] \in {"cancel", "fail"}
    /\ End(h, "failed")
    /\ Goto(h, "none")
    /\ UNCHANGED <<accepting, pool, jobVars, requestVars, jobOf, gen, seen,
                   chat, lifeVars>>

-----------------------------------------------------------------------------
(* cancel_job and cancel_run read the row, then write it by primary key.   *)

CancelRead(j) ==
    /\ job[j].status \in {"queued", "running"}
    /\ cancelling' = cancelling \cup {j}
    /\ UNCHANGED <<handle, accepting, pool, jobVars, offering, reader,
                   workerVars, chat, lifeVars>>

CancelMarksStatus(j) ==             \* a bug: a status nobody knows
    /\ j \in cancelling
    /\ cancelling' = cancelling \ {j}
    /\ job' = [job EXCEPT ![j].status = "cancelling"]
    /\ UNCHANGED <<handle, accepting, pool, log, claims, offering, reader,
                   workerVars, chat, lifeVars>>

CancelWrite(j) ==
    /\ j \in cancelling
    /\ cancelling' = cancelling \ {j}
    /\ job' = [job EXCEPT ![j].cancel = TRUE]
    /\ \/ Len(log[j]) < MaxEvents /\ Emit(j, "cancel")
       \/ UNCHANGED log                     \* cancel_run records no event
    /\ UNCHANGED <<handle, accepting, pool, claims, offering, reader,
                   workerVars, chat, lifeVars>>

-----------------------------------------------------------------------------
(* stream_job_events: one look at the row, then one at the log.            *)

ReadStatus(j) ==
    /\ job[j].status # "none"
    /\ reader[j].open
    /\ reader[j].saw = None
    /\ reader' = [reader EXCEPT ![j].saw = job[j].status]
    /\ UNCHANGED <<handle, accepting, pool, jobVars, offering, cancelling,
                   workerVars, chat, lifeVars>>

ReadEvents(j) ==
    /\ reader[j].open
    /\ reader[j].saw # None
    /\ reader' = [reader EXCEPT ![j] =
           [cursor |-> Len(log[j]), saw |-> None,
            open |-> ~(/\ reader[j].saw \in Terminal
                       /\ Len(log[j]) = reader[j].cursor)]]
    /\ UNCHANGED <<handle, accepting, pool, jobVars, offering, cancelling,
                   workerVars, chat, lifeVars>>

-----------------------------------------------------------------------------
(* The life of the process *)

(* Requests, threads and the in-memory queue are gone; a reader connects   *)
(* again with its last event id.                                           *)
Halt ==
    /\ up' = FALSE
    /\ found' = None
    /\ handle' = [h \in Handles |-> "none"]
    /\ pc' = [h \in Handles |-> "none"]
    /\ gen' = [h \in Handles |-> 0]
    /\ seen' = [h \in Handles |-> 0]
    /\ jobOf' = [h \in Handles |-> None]
    /\ offering' = {}
    /\ cancelling' = {}
    /\ reader' = [j \in Jobs |-> [reader[j] EXCEPT !.saw = None]]
    /\ UNCHANGED <<accepting, pool, jobVars, chat>>

Crash == (up \/ found # None) /\ Halt

(* shutdown_async_jobs, then the process exits.                            *)
Shutdown ==
    /\ up
    /\ \/ (StopAccepting \/ ClosePool \/ Drain)
          /\ UNCHANGED <<jobVars, requestVars, workerVars, chat,
                         lifeVars>>
       \/ pool = "drained" /\ Halt

(* The application is started again in the same process and a worker of    *)
(* its earlier life is still there.                                        *)
Reload ==
    /\ up
    /\ accepting
    /\ up' = FALSE
    /\ offering' = {}
    /\ UNCHANGED <<handle, accepting, pool, jobVars, cancelling, reader,
                   workerVars, chat, found>>

(* recover_public_jobs loads the running jobs first.                       *)
LoadRunning ==
    /\ ~up
    /\ found = None
    /\ found' = {j \in Jobs : job[j].status = "running"}
    /\ FreshQueue
    /\ UNCHANGED <<handle, jobVars, requestVars, workerVars, chat, up>>

(* Then, in one transaction: what is running still has failed, under a new *)
(* generation.  An old worker may have published a failure meanwhile; it   *)
(* is then told once more.  Sessions of finished jobs are released.        *)
FailedJob(row) ==
    IF row.status = "running"
    THEN [row EXCEPT !.status = "failed", !.owner = None, !.gen = @ + 1]
    ELSE row

RecoverSilently ==                  \* a bug: no event, no session
    /\ job' = [j \in Jobs |-> IF j \in found THEN FailedJob(job[j]) ELSE job[j]]
    /\ UNCHANGED <<log, chat>>

FailRunning ==
    /\ job' = [j \in Jobs |-> IF j \in found THEN FailedJob(job[j]) ELSE job[j]]
    /\ log' = [j \in Jobs |-> IF j \in found /\ job'[j].status = "failed"
                              THEN Append(log[j], "failed") ELSE log[j]]
    /\ chat' = [j \in Jobs |-> IF job'[j].status \in Terminal
                               THEN "active" ELSE chat[j]]

(* What is queued is offered again.                                        *)
NothingToOffer == {}                \* a bug: queued jobs are not offered

ToOffer == {j \in Jobs : job[j].status = "queued"}

Startup ==
    /\ found # None
    /\ FailRunning
    /\ offering' = ToOffer
    /\ found' = None
    /\ up' = TRUE
    /\ UNCHANGED <<handle, accepting, pool, claims, cancelling, reader,
                   workerVars>>

-----------------------------------------------------------------------------
(* What the threads of the process do when they are scheduled.             *)
Work(h) ==
    \/ SubmitJob(h) \/ StartWorker(h) \/ ClaimJob(h) \/ ReadLatest(h)
    \/ EmitStarted(h) \/ SeeCancel(h) \/ EnterHandler(h) \/ HandlerReturns(h)
    \/ NotCancelled(h) \/ Terminalize(h)

Next ==
    \/ \E h \in Handles :
         Work(h) \/ Progress(h) \/ HandlerFails(h) \/ TerminalizeRaises(h)
    \/ up /\ \E j \in Jobs :
         \/ Create(j) \/ Offer(j) \/ CancelRead(j) \/ CancelWrite(j)
         \/ ReadStatus(j) \/ ReadEvents(j)
    \/ Crash \/ Shutdown \/ Reload \/ LoadRunning \/ Startup

Spec == Init /\ [][Next]_vars

-----------------------------------------------------------------------------
(* Safety *)

TerminalIn(events) == {i \in DOMAIN events : events[i] \in Terminal}

(* The row and the log tell the same story: a job has a terminal event     *)
(* exactly when it is finished, and of its status, whatever worker,        *)
(* cancellation or recovery raced for it.  Only a failure is ever told     *)
(* twice, by recovery and by a worker of the earlier life.                 *)
OutcomeInLog ==
    \A j \in Jobs :
        LET told == TerminalIn(log[j]) IN
        /\ IsFinished(j) <=> told # {}
        /\ \A i \in told : log[j][i] = job[j].status
        /\ Cardinality(told) <= IF job[j].status = "failed" THEN 2 ELSE 1

(* A finished job keeps its outcome: recovery "fences an old in-process    *)
(* worker that returns after" it has published the failure.                *)
OutcomeFinal ==
    [][\A j \in Jobs : IsFinished(j) => job'[j].status = job[j].status]_vars

(* A job's handler is started at most once, however often its row is       *)
(* offered: "duplicate workers lose the CAS".                              *)
ExecutedOnce == \A j \in Jobs : claims[j] <= 1

(* An SSE stream that ended by itself has delivered the terminal event,    *)
(* though it reads the row and the log at two moments.                     *)
StreamDeliversOutcome ==
    \A j \in Jobs : ~reader[j].open =>
        \E i \in 1..reader[j].cursor : log[j][i] \in Terminal

(* "An accepted in-memory job must reach a terminal state before shutdown  *)
(* returns."                                                               *)
ShutdownDrains ==
    pool = "drained" => \A h \in Handles : handle[h] \notin {"queued", "running"}

(* The generation of the job has moved on: recovery has failed it.         *)
Fenced(h) == job[jobOf[h]].gen # gen[h]

KeepsSession(j) == IsFinished(j) /\ chat[j] = "running"

(* A finished run does not keep its chat session running.  Only a worker   *)
(* that recovery has fenced, and that is still in the handler, sets it     *)
(* running again, and no start of the process leaves it so.                *)
SessionReleased ==
    [][\A j \in Jobs : KeepsSession(j)' =>
         \/ KeepsSession(j) /\ ~(up' /\ ~up)
         \/ \E h \in Handles : /\ jobOf[h] = j /\ Fenced(h)
                               /\ pc[h] \in {"check", "handle"}]_vars

-----------------------------------------------------------------------------
(* Liveness.  Threads are scheduled, a request that was accepted goes on,  *)
(* and readers poll.  Nothing is assumed of shutdown, crash and recovery:  *)
(* the properties are about a process that stays up in the end.            *)
Fairness ==
    /\ \A h \in Handles : WF_vars(Work(h))
    /\ \A j \in Jobs : /\ WF_vars(up /\ Offer(j))
                       /\ WF_vars(up /\ (ReadStatus(j) \/ ReadEvents(j)))

FairSpec == Spec /\ Fairness

(* No thread works on the job any more and its row says running.           *)
Stranded(j) ==
    /\ job[j].status = "running"
    /\ \A h \in Handles : jobOf[h] = j => pc[h] = "none"

(* The process crashes and restarts finitely often. *)
Serving == <>[](up /\ accepting)

(* A job that was committed is finished in the end and its reader reaches  *)
(* the end of the stream, or an exception outside the try block has        *)
(* stranded it: neither a crash between the commit and the offer nor a     *)
(* refusing executor loses it, and no reader polls a finished job forever. *)
JobSettles ==
    Serving => \A j \in Jobs :
        job[j].status = "queued" \/ IsFinished(j)
            ~> (IsFinished(j) /\ ~reader[j].open) \/ Stranded(j)
=============================================================================
