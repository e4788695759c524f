---------------------------- MODULE ExternalTasks ----------------------------
(***************************************************************************)
(* Detached tasks: HTTP tools whose business work finishes asynchronously, *)
(* and the task frame that waits for them (tools/external_tasks.py).       *)
(*                                                                         *)
(* Everybody who learns something of a task applies an event to its row:   *)
(* the worker that submitted or polled it, the callback of the provider,   *)
(* the scanner that finds it expired. Applying an event is four commits or *)
(* reads: the review of the payload, the write under the row lock, and, if *)
(* the task ended, a look at its frame and the write that resumes it. The  *)
(* thread that does so is an element of Threads; a task stands for the one *)
(* worker the dispatcher admits for it.                                    *)
(*                                                                         *)
(* Leases and deadlines are bits that a clock action sets. The registry of *)
(* modules is installed, so that results are reviewed. failed stands for   *)
(* cancelled too. A frame row is its status and the task of its receipt,   *)
(* "over" stands for its terminal statuses.                                *)
(***************************************************************************)
EXTENDS Naturals, FiniteSets

CONSTANTS
    Tasks,          \* detached tasks of one frame
    Callbacks,      \* event ids of the provider
    Scanner,        \* the maintenance thread
    None,
    MaxCrashes      \* bound: crashes

ASSUME ThreadsAssumption ==
    /\ Tasks \cap Callbacks = {}
    /\ Scanner \notin Tasks \cup Callbacks
    /\ None \notin Tasks
    /\ MaxCrashes \in Nat

VARIABLES
    strategy,   \* in [Tasks -> Strategies]
    task,       \* ExternalBusinessTask rows, NoTask before there is one
    seen,       \* in [Tasks -> SUBSET Callbacks]: applied callbacks
    late,       \* tasks whose tracking deadline has passed
    frame,      \* the task frame
    receipt,    \* task submitted by the step that runs on the frame, or None
    worker,     \* what the dispatched worker of each task does
    event,      \* the event each thread applies, or NoEvent
    scan,       \* pass of the scanner, with the rows it has loaded
    crashes,    \* in 0 .. MaxCrashes
    posts,      \* history: requests sent for each task
    cut         \* history: tasks whose resume was cut off

vars == <<strategy, task, seen, late, frame, receipt, worker, event,
          scan, crashes, posts, cut>>

Threads == Tasks \cup Callbacks \cup {Scanner}

Strategies == {"local", "provider", "tracked"}      \* tracked: has a status_url
Final == {"completed", "failed", "expired"}
Terminal == Final \cup {"outcome_unknown"}  \* PERSISTED_TERMINAL_STATUSES
Pending == {"queued", "submitting", "accepted", "working"}
\* What a provider may report; failed stands for its cancelled and expired.
Reports == {"accepted", "working", "tracking_blocked", "completed", "failed",
            "outcome_unknown"}
\* What its callback may say.
CallbackReports == {"accepted", "working", "completed", "failed"}

NoTask == [status |-> "none", held |-> FALSE, live |-> FALSE, known |-> FALSE,
           poll |-> FALSE, denied |-> FALSE]
NoEvent == [at |-> "none", task |-> None, id |-> "none", status |-> "none",
            verdict |-> "none", named |-> FALSE, frame |-> "none"]

NoRow == [status |-> "none", known |-> FALSE]
NewPass == [at |-> "offer", batch |-> {}, row |-> [t \in Tasks |-> NoRow]]

Init ==
    /\ strategy \in [Tasks -> Strategies]
    /\ task = [t \in Tasks |-> NoTask]
    /\ seen = [t \in Tasks |-> {}]
    /\ late = {}
    /\ frame \in [status : {"running"}, waitsFor : {None}, sop : BOOLEAN]
    /\ receipt = None
    /\ worker = [t \in Tasks |-> "idle"]
    /\ event = [p \in Threads |-> NoEvent]
    /\ scan = NewPass
    /\ crashes = 0
    /\ posts = [t \in Tasks |-> 0]
    /\ cut = {}

rowVars == <<task, seen>>
envVars == <<strategy, late, crashes>>

Over(t) == task[t].status \in Terminal

-----------------------------------------------------------------------------
(* The frame. *)

\* The step that runs on the frame submits a task and ends waiting for it.
Enqueue(t) ==
    /\ frame.status = "running" /\ receipt = None
    /\ task[t].status = "none"
    /\ task' = [task EXCEPT ![t].status = "queued"]
    /\ receipt' = t
    /\ UNCHANGED <<envVars, seen, frame, worker, event, scan, posts, cut>>

\* What the end of a task does to the frame that waits for it.
ResumedStatus ==
    IF frame.sop THEN "ready_to_resume" ELSE "over"

\* A plausible bug: the fast completion is left to the callback.
FinishedStatusWaiting(t) == "waiting_external_task"

\* finish_frame, and _prepare_sop_resume for a task that ended meanwhile, in
\* one transaction.
FinishedStatus(t) ==
    IF Over(t) THEN ResumedStatus ELSE "waiting_external_task"

FinishWaiting ==
    /\ frame.status = "running" /\ receipt # None
    /\ frame' = [frame EXCEPT !.status = FinishedStatus(receipt),
                              !.waitsFor = receipt]
    /\ receipt' = None
    /\ UNCHANGED <<envVars, rowVars, worker, event, scan, posts, cut>>

\* The step ends without a task, for good or to be run again, the next plan
\* runs a frame again, or removes one that rests.
Finish ==
    /\ frame.status = "running" /\ receipt = None
    /\ \E status \in {"queued", "over"} :
          frame' = [frame EXCEPT !.status = status]
    /\ UNCHANGED <<envVars, rowVars, receipt, worker, event, scan, posts, cut>>

Rerun ==
    /\ frame.status \in {"queued", "ready_to_resume"}
    /\ frame' = [frame EXCEPT !.status = "running"]
    /\ UNCHANGED <<envVars, rowVars, receipt, worker, event, scan, posts, cut>>

Remove ==
    /\ frame.status \in {"queued", "waiting_external_task", "ready_to_resume"}
    /\ frame' = [frame EXCEPT !.status = "over"]
    /\ UNCHANGED <<envVars, rowVars, receipt, worker, event, scan, posts, cut>>

-----------------------------------------------------------------------------
(* apply_task_event. *)

Idle(p) == event[p] = NoEvent

\* What the review of a payload may say: only a success can be denied, and a
\* payload for an ended task is dropped unseen. Progress without a result is
\* nothing to review, and is "ok".
Verdicts(t, status) ==
    IF task[t].status \in Final THEN {"late"}
    ELSE IF status \in Terminal \ {"completed"} THEN {"ok", "unavailable"}
    ELSE {"ok", "unavailable", "denied"}

Reviewed(status, verdict) ==
    IF verdict \in {"denied", "unavailable"} THEN "tracking_blocked" ELSE status

\* A known event is dropped at once.
Applies(p, t, id, status, named) ==
    IF id \in seen[t] THEN UNCHANGED event
    ELSE \E verdict \in Verdicts(t, status) :
            event' = [event EXCEPT ![p] =
                [at |-> "write", task |-> t, id |-> id,
                 status |-> Reviewed(status, verdict), verdict |-> verdict,
                 named |-> named, frame |-> "none"]]

\* A plausible bug: the row is not refreshed behind the lock.
NextStatusStale(row, e) == e.status

\* A block is lifted by a reviewed end only, an ended task stays.
NextStatus(row, e) ==
    IF row.status \in Final THEN row.status
    ELSE IF /\ row.status = "tracking_blocked"
            /\ ~(e.status \in Terminal /\ e.verdict = "ok")
    THEN "tracking_blocked"
    ELSE e.status

\* The answer to a submission brings the provider's id and the first poll.
Applied(row, e) ==
    LET t == e.task
        next == NextStatus(row, e)
        denies == /\ row.status \notin Final
                  /\ e.verdict \in {"denied", "unavailable"}
    IN  [row EXCEPT
          !.status = next,
          !.known = @ \/ e.named,
          !.poll = /\ next \notin Terminal \cup {"tracking_blocked"}
                   /\ @ \/ (e.named /\ strategy[t] = "tracked"),
          !.denied = IF denies THEN e.verdict = "denied" ELSE @]

\* The write under the row lock. An end of the task goes on to its frame.
WriteEvent(p) ==
    LET e == event[p]
        row == task[e.task]
        known == e.id \in seen[e.task]
    IN  /\ e.at = "write"
        /\ task' = [task EXCEPT ![e.task] = IF known THEN @ ELSE Applied(@, e)]
        /\ seen' = [seen EXCEPT ![e.task] = @ \cup ({e.id} \cap Callbacks)]
        /\ event' = [event EXCEPT ![p] =
                IF ~known /\ row.status \notin Final
                          /\ NextStatus(row, e) \in Terminal
                THEN [NoEvent EXCEPT !.at = "look", !.task = e.task]
                ELSE NoEvent]
        /\ UNCHANGED <<envVars, frame, receipt, worker, scan, posts, cut>>

\* _prepare_sop_resume: it reads the frame, and resumes one that waits for
\* this very task.
LookAtFrame(p) ==
    LET t == event[p].task
        resumes == /\ Over(t)
                   /\ frame.status \in {"waiting_external_task",
                                        "ready_to_resume"}
                   /\ frame.waitsFor = t
    IN  /\ event[p].at = "look"
        /\ event' = [event EXCEPT ![p] =
                IF resumes
                THEN [@ EXCEPT !.at = "resume", !.frame = frame.status,
                               !.status = ResumedStatus]
                ELSE NoEvent]
        /\ UNCHANGED <<envVars, rowVars, frame, receipt, worker, scan, posts,
                       cut>>

\* It writes what it computed, by primary key; an unchanged status is not
\* part of the statement.
ResumeFrame(p) ==
    LET e == event[p] IN
    /\ e.at = "resume"
    /\ frame' = IF e.frame = e.status THEN frame
                ELSE [frame EXCEPT !.status = e.status]
    /\ event' = [event EXCEPT ![p] = NoEvent]
    /\ UNCHANGED <<envVars, rowVars, receipt, worker, scan, posts, cut>>

\* The task has ended, and the look or the write throws: no one tries again.
\* The scanner gives up its pass.
ResumeFails(p) ==
    /\ event[p].at \in {"look", "resume"}
    /\ event' = [event EXCEPT ![p] = NoEvent]
    /\ cut' = cut \cup {event[p].task}
    /\ scan' = IF p = Scanner THEN NewPass ELSE scan
    /\ UNCHANGED <<envVars, rowVars, frame, receipt, worker, posts>>

ApplyStep(p) == WriteEvent(p) \/ LookAtFrame(p) \/ ResumeFrame(p)

-----------------------------------------------------------------------------
(* The callback endpoint: any number of deliveries of each event, and what *)
(* each of them says is up to the provider.                                *)

CallbackArrives(c, t, status) ==
    /\ Idle(c)
    /\ posts[t] > 0 /\ strategy[t] # "local"
    /\ Applies(c, t, c, status, FALSE)
    /\ UNCHANGED <<envVars, rowVars, frame, receipt, worker, scan, posts, cut>>

-----------------------------------------------------------------------------
(* The worker of a task (execute_external_task). *)

At(t, place) == worker[t] = place /\ Idle(t)

Goes(t, place) == worker' = [worker EXCEPT ![t] = place]

\* Submission: a conditional claim, then the request, once. A task that is
\* not queued any more is left alone, a late one is left to the scanner.
Claim(t) ==
    /\ At(t, "submit")
    /\ IF task[t].status = "queued" /\ ~task[t].held /\ t \notin late
       THEN /\ task' = [task EXCEPT ![t].held = TRUE, ![t].live = TRUE,
                   ![t].status = IF strategy[t] = "local" THEN "working"
                                 ELSE "submitting"]
            /\ Goes(t, "send")
       ELSE /\ UNCHANGED task
            /\ Goes(t, "idle")
    /\ UNCHANGED <<envVars, seen, frame, receipt, event, scan, posts, cut>>

\* The tool cannot be resolved: nothing was sent.
ResolveFails(t) ==
    /\ At(t, "send")
    /\ Goes(t, "release")
    /\ Applies(t, t, "submission", "failed", FALSE)
    /\ UNCHANGED <<envVars, rowVars, frame, receipt, scan, posts, cut>>

Post(t) ==
    /\ At(t, "send")
    /\ Goes(t, "sent")
    /\ posts' = [posts EXCEPT ![t] = @ + 1]
    /\ UNCHANGED <<envVars, rowVars, frame, receipt, event, scan, cut>>

\* What a submission may come to. A provider's is uncertain when the request
\* times out or the worker fails after it.
Answers(t) ==
    IF strategy[t] = "local" THEN {"completed", "failed"} ELSE Reports

\* A task that goes on at the provider has its id there: an answer without
\* one is a failure. One that has ended may have it too.
Named(t, status) ==
    {named \in BOOLEAN : /\ status \notin Terminal => named
                         /\ strategy[t] = "local" => ~named}

Answered(t, status) ==
    /\ At(t, "sent")
    /\ Goes(t, "release")
    /\ \E named \in Named(t, status) :
          Applies(t, t, "submission", status, named)
    /\ UNCHANGED <<envVars, rowVars, frame, receipt, scan, posts, cut>>

\* Polling: a conditional claim, then the status request.
ClaimPoll(t) ==
    /\ At(t, "poll")
    /\ IF /\ task[t].status \in {"accepted", "working"}
          /\ task[t].poll
          /\ ~task[t].held \/ ~task[t].live
          /\ t \notin late
       THEN /\ task' = [task EXCEPT ![t].held = TRUE, ![t].live = TRUE]
            /\ Goes(t, "get")
       ELSE /\ UNCHANGED task
            /\ Goes(t, "idle")
    /\ UNCHANGED <<envVars, seen, frame, receipt, event, scan, posts, cut>>

Polled(t, status) ==
    /\ At(t, "get")
    /\ Goes(t, "release")
    /\ Applies(t, t, "poll", status, FALSE)
    /\ UNCHANGED <<envVars, rowVars, frame, receipt, scan, posts, cut>>

\* The request failed. The row is read again behind its lock: a callback may
\* have completed the task. A permanent failure blocks the tracking.
PollFails(t, permanent) ==
    /\ At(t, "get")
    /\ Goes(t, "release")
    /\ task' = [task EXCEPT ![t] =
            IF @.status \in Terminal \/ ~permanent THEN @
            ELSE [@ EXCEPT !.status = "tracking_blocked", !.poll = FALSE]]
    /\ UNCHANGED <<envVars, seen, frame, receipt, event, scan, posts, cut>>

Release(t) ==
    /\ At(t, "release")
    /\ Goes(t, "idle")
    /\ task' = [task EXCEPT ![t].held = FALSE, ![t].live = FALSE]
    /\ UNCHANGED <<envVars, seen, frame, receipt, event, scan, posts, cut>>

WorkerStep(t) ==
    \/ Claim(t) \/ ResolveFails(t) \/ Post(t)
    \/ \E status \in Answers(t) : Answered(t, status)
    \/ ClaimPoll(t)
    \/ \E status \in Reports : Polled(t, status)
    \/ \E permanent \in BOOLEAN : PollFails(t, permanent)
    \/ Release(t)

-----------------------------------------------------------------------------
(* The scanner (poll_due_external_tasks): stale leases, passed deadlines,  *)
(* offers to the workers.                                                  *)

\* What a pass has loaded: its tasks, and of each row the columns it decides
\* on. A commit of the pass expires the rows, they are read again on access.
RowOf(t) == [status |-> task[t].status, known |-> task[t].known]

Load(place, tasks) ==
    scan' = [at |-> place, batch |-> tasks,
             row |-> [t \in Tasks |-> IF place = "stale" /\ t \in tasks
                                      THEN RowOf(t) ELSE NoRow]]

Stale ==
    {t \in Tasks : /\ task[t].status \in {"submitting", "working"}
                   /\ task[t].held /\ ~task[t].live}

LoadStale ==
    /\ scan.at = "offer" /\ Idle(Scanner)
    /\ Load("stale", Stale)
    /\ UNCHANGED <<envVars, rowVars, frame, receipt, worker, event, posts, cut>>

\* The pass has committed the recovery of another task, of this frame or of
\* another one: it reads the row again, and does not ask again whether it is
\* stale.
ReadAgain(t) ==
    /\ scan.at = "stale" /\ t \in scan.batch /\ Idle(Scanner)
    /\ scan' = [scan EXCEPT !.row[t] = RowOf(t)]
    /\ UNCHANGED <<envVars, rowVars, frame, receipt, worker, event, posts, cut>>

\* A plausible bug: a task whose worker stopped is submitted again.
RecoveredStatusRetry(t) == "queued"

\* A request that may have been sent is not sent again.
RecoveredStatus(t) ==
    IF strategy[t] = "tracked" /\ scan.row[t].known THEN "working"
    ELSE "outcome_unknown"

\* The recovery writes a row it has read, by primary key: whatever the task
\* has become since. Only a status that differs from the one it has read is
\* part of the statement.
RecoverStale(t) ==
    /\ scan.at = "stale" /\ t \in scan.batch /\ Idle(Scanner)
    /\ LET next == RecoveredStatus(t)
           status == IF next = scan.row[t].status THEN task[t].status ELSE next
       IN  /\ task' = [task EXCEPT ![t] =
                   [@ EXCEPT !.status = status, !.held = FALSE, !.live = FALSE,
                             !.poll = next = "working"]]
           /\ event' = [event EXCEPT ![Scanner] =
                   IF status \in Terminal
                   THEN [NoEvent EXCEPT !.at = "look", !.task = t]
                   ELSE NoEvent]
    /\ scan' = [scan EXCEPT !.batch = @ \ {t}, !.row[t] = NoRow]
    /\ UNCHANGED <<envVars, seen, frame, receipt, worker, posts, cut>>

LoadExpired ==
    /\ scan.at = "stale" /\ scan.batch = {} /\ Idle(Scanner)
    /\ Load("expired", {t \in late : task[t].status \in Pending})
    /\ UNCHANGED <<envVars, rowVars, frame, receipt, worker, event, posts, cut>>

Expire(t) ==
    /\ scan.at = "expired" /\ t \in scan.batch /\ Idle(Scanner)
    /\ scan' = [scan EXCEPT !.batch = @ \ {t}]
    /\ Applies(Scanner, t, "expired", "expired", FALSE)
    /\ UNCHANGED <<envVars, rowVars, frame, receipt, worker, posts, cut>>

\* The dispatcher admits one worker for a task.
Offered(t) ==
    IF worker[t] # "idle" THEN worker[t]
    ELSE IF task[t].status = "queued" /\ ~task[t].held THEN "submit"
    ELSE IF /\ task[t].status \in {"accepted", "working"}
            /\ task[t].poll
            /\ ~task[t].held \/ ~task[t].live
    THEN "poll"
    ELSE "idle"

Offer ==
    /\ scan.at = "expired" /\ scan.batch = {} /\ Idle(Scanner)
    /\ worker' = [t \in Tasks |-> Offered(t)]
    /\ scan' = NewPass
    /\ UNCHANGED <<envVars, rowVars, frame, receipt, event, posts, cut>>

ScannerStep ==
    \/ LoadStale \/ LoadExpired \/ Offer
    \/ \E t \in Tasks : ReadAgain(t) \/ RecoverStale(t) \/ Expire(t)

-----------------------------------------------------------------------------
(* The endpoint that resumes a blocked tracking, the clock and crashes. *)

ResumeTracking(t) ==
    /\ task[t].status = "tracking_blocked"
    /\ task[t].known /\ strategy[t] = "tracked"
    /\ ~task[t].denied
    /\ task' = [task EXCEPT ![t].status = "accepted", ![t].poll = TRUE]
    /\ UNCHANGED <<envVars, seen, frame, receipt, worker, event, scan, posts,
                   cut>>

\* A lease of 3660 s outlives every request of its worker.
Lapse(t) ==
    /\ task[t].held /\ task[t].live
    /\ worker[t] = "idle"
    /\ task' = [task EXCEPT ![t].live = FALSE]
    /\ UNCHANGED <<envVars, seen, frame, receipt, worker, event, scan, posts,
                   cut>>

DeadlinePasses(t) ==
    /\ task[t].status # "none" /\ t \notin late
    /\ late' = late \cup {t}
    /\ UNCHANGED <<strategy, crashes, rowVars, frame, receipt, worker,
                   event, scan, posts, cut>>

\* The process dies and is started again: the recovery of the harness has
\* requeued a running frame.
Crash ==
    /\ crashes < MaxCrashes
    /\ crashes' = crashes + 1
    /\ frame' = [frame EXCEPT !.status = IF @ = "running" THEN "queued" ELSE @]
    /\ receipt' = None
    /\ worker' = [t \in Tasks |-> "idle"]
    /\ event' = [p \in Threads |-> NoEvent]
    /\ scan' = NewPass
    /\ cut' = cut \cup {event[p].task :
                          p \in {q \in Threads : event[q].at \in {"look",
                                                                  "resume"}}}
    /\ UNCHANGED <<strategy, late, rowVars, posts>>

-----------------------------------------------------------------------------
FrameStep ==
    FinishWaiting \/ Finish \/ Rerun \/ Remove \/ \E t \in Tasks : Enqueue(t)

Clock == \E t \in Tasks : Lapse(t) \/ DeadlinePasses(t)

Next ==
    \/ FrameStep
    \/ ScannerStep
    \/ Clock
    \/ Crash
    \/ \E p \in Threads : ApplyStep(p) \/ ResumeFails(p)
    \/ \E c \in Callbacks, t \in Tasks, status \in CallbackReports :
          CallbackArrives(c, t, status)
    \/ \E t \in Tasks : WorkerStep(t) \/ ResumeTracking(t)

Spec == Init /\ [][Next]_vars

\* The scanner wakes every few seconds, deadlines pass, and of the threads that
\* apply an event some one goes on. That is less than the code gives, whose
\* threads are all scheduled and whose requests all have a timeout.
FairSpec ==
    /\ Spec
    /\ WF_vars(ScannerStep)
    /\ WF_vars(\E p \in Threads : ApplyStep(p))
    /\ \A t \in Tasks : WF_vars(DeadlinePasses(t))

-----------------------------------------------------------------------------
\* The request of a task is sent at most once, whatever lapses, crashes, is
\* recovered, expires or is offered to the workers again.
SubmittedOnce == \A t \in Tasks : posts[t] <= 1

\* A task that has ended stays as it ended, whoever else hears of it and in
\* whatever order: only the recovery of stale leases, which writes rows that
\* it loaded before, may still change it.
EndStays ==
    [][\A t \in Tasks :
          task[t].status \in Final =>
            \/ task'[t].status = task[t].status
            \/ scan.at = "stale" /\ t \in scan.batch \ scan'.batch]_vars

WaitsFor(t) == frame.status = "waiting_external_task" /\ frame.waitsFor = t

\* A frame does not wait for ever: its task ends, by an answer, a callback, a
\* poll or its deadline, and whoever ends it resumes the frame, even when
\* the task ends before the frame has begun to wait. The exceptions are a
\* tracking that is blocked, and a resume that was cut off between the end
\* of the task and the write of the frame.
WaitEnds ==
    \A t \in Tasks :
        WaitsFor(t) ~> (\/ ~WaitsFor(t)
                        \/ task[t].status = "tracking_blocked"
                        \/ t \in cut)
=============================================================================
