------------------------- MODULE ExternalTasksProofs -------------------------
(***************************************************************************)
(* The request of a detached task is sent at most once, for any tasks,     *)
(* callbacks and number of crashes.                                        *)
(*                                                                         *)
(* SubmittedOnce is not inductive: that a worker about to send finds no    *)
(* request sent rests on the status of the row, which says "queued" only   *)
(* before the one claim of a submission (Unsent), and that no event writes *)
(* that status back rests on what events can say (EventInv).               *)
(***************************************************************************)
EXTENDS ExternalTasks, TLAPS

Settable == {"accepted", "working", "tracking_blocked"} \cup Terminal
RowStatuses == {"none", "queued", "submitting"} \cup Settable

Rows == [status : RowStatuses, held : BOOLEAN, live : BOOLEAN,
         known : BOOLEAN, poll : BOOLEAN, denied : BOOLEAN]

Ids == Callbacks \cup {"none", "submission", "poll", "expired"}

FrameStatuses == {"queued", "running", "waiting_external_task",
                  "ready_to_resume", "over"}

Events == [at : {"none", "write", "look", "resume"},
           task : Tasks \cup {None},
           id : Ids,
           status : Settable \cup {"none", "over", "ready_to_resume"},
           verdict : {"none", "ok", "late", "denied", "unavailable"},
           named : BOOLEAN,
           frame : FrameStatuses \cup {"none"}]

EventInv ==
    /\ event \in [Threads -> Events]
    /\ \A p \in Threads :
          /\ event[p].at = "write" => event[p].status \in Settable
          /\ event[p].at = "resume" =>
                event[p].status \in {"over", "ready_to_resume"}

FrameInv ==
    /\ frame \in [status : FrameStatuses, waitsFor : Tasks \cup {None},
                  sop : BOOLEAN]
    /\ receipt \in Tasks \cup {None}

\* A worker about to send has claimed the task, a task that is not claimed
\* has not been sent.
Unsent(t) ==
    /\ task[t].status \in {"none", "queued"} => posts[t] = 0
    /\ worker[t] = "send" =>
          /\ posts[t] = 0
          /\ task[t].status \notin {"none", "queued"}

SendInv ==
    /\ task \in [Tasks -> Rows]
    /\ worker \in [Tasks -> {"idle", "submit", "send", "sent", "poll", "get",
                         "release"}]
    /\ posts \in [Tasks -> {0, 1}]
    /\ \A t \in Tasks : Unsent(t)

SubmitInv == EventInv /\ FrameInv /\ SendInv
-----------------------------------------------------------------------------
(* What events are and what they write. *)

\* An event that is applied has a status a row can take from an event, and
\* the review keeps it so.
LEMMA AppliesSettable ==
    ASSUME SubmitInv,
           NEW p \in Threads, NEW t \in Tasks, NEW id \in Ids,
           NEW status \in Settable, NEW named \in BOOLEAN,
           Applies(p, t, id, status, named)
    PROVE  EventInv'
<1>1. CASE id \in seen[t]
  BY <1>1 DEF Applies, SubmitInv, EventInv
<1>2. CASE id \notin seen[t]
  <2>1. PICK verdict \in Verdicts(t, status) :
           event' = [event EXCEPT ![p] =
               [at |-> "write", task |-> t, id |-> id,
                status |-> Reviewed(status, verdict), verdict |-> verdict,
                named |-> named, frame |-> "none"]]
    BY <1>2 DEF Applies
  <2>2. verdict \in {"none", "ok", "late", "denied", "unavailable"}
    BY DEF Verdicts
  <2>3. Reviewed(status, verdict) \in Settable
    BY DEF Reviewed, Settable
  <2>. DEFINE e == [at |-> "write", task |-> t, id |-> id,
                    status |-> Reviewed(status, verdict), verdict |-> verdict,
                    named |-> named, frame |-> "none"]
  <2>4. e \in Events /\ e.status \in Settable /\ e.at = "write"
    BY <2>2, <2>3 DEF Events
  <2>5. event' = [event EXCEPT ![p] = e]
    BY <2>1
  <2>. HIDE DEF e
  <2>. QED
    BY <2>4, <2>5 DEF SubmitInv, EventInv
<1>. QED
  BY <1>1, <1>2

\* A row that takes an event is claimed, whatever it was before.
LEMMA AppliedSettable ==
    ASSUME NEW row \in Rows, NEW e \in Events, e.status \in Settable
    PROVE  /\ Applied(row, e) \in Rows
           /\ Applied(row, e).status \in Settable
<1>1. NextStatus(row, e) \in Settable
  BY DEF NextStatus, Rows, Settable, Terminal
<1>2. /\ (row.known \/ e.named) \in BOOLEAN
      /\ (e.verdict = "denied") \in BOOLEAN
  BY DEF Rows, Events
<1>. QED
  BY <1>1, <1>2, ZenonT(30) DEF Applied, Rows, RowStatuses
-----------------------------------------------------------------------------
(* The invariant. *)

LEMMA SubmitInit == Init => SubmitInv
<1>. SUFFICES ASSUME Init PROVE SubmitInv
  OBVIOUS
<1>1. EventInv
  BY DEF Init, EventInv, Events, NoEvent, Ids
<1>2. FrameInv
  BY DEF Init, FrameInv, FrameStatuses
<1>3. SendInv
  BY DEF Init, SendInv, Unsent, NoTask, Rows, RowStatuses
<1>. QED
  BY <1>1, <1>2, <1>3 DEF SubmitInv

\* What a step leaves alone.
LEMMA EventUnchanged ==
    ASSUME SubmitInv, UNCHANGED event
    PROVE  EventInv'
BY DEF SubmitInv, EventInv

LEMMA FrameUnchanged ==
    ASSUME SubmitInv, UNCHANGED <<frame, receipt>>
    PROVE  FrameInv'
BY DEF SubmitInv, FrameInv

LEMMA SendUnchanged ==
    ASSUME SubmitInv, UNCHANGED <<task, worker, posts>>
    PROVE  SendInv'
BY DEF SubmitInv, SendInv, Unsent

\* A step that changes one row, not back to one that is not claimed, and lets
\* no worker send.
LEMMA RowStep ==
    ASSUME SubmitInv, NEW t \in Tasks, NEW row \in Rows,
           task' = [task EXCEPT ![t] = row],
           row.status \in {"none", "queued"} =>
               task[t].status \in {"none", "queued"},
           worker[t] = "send" => row.status \notin {"none", "queued"},
           UNCHANGED <<worker, posts>>
    PROVE  SendInv'
<1>1. task' \in [Tasks -> Rows]
  BY DEF SubmitInv, SendInv
<1>2. ASSUME NEW u \in Tasks PROVE Unsent(u)'
  BY DEF SubmitInv, SendInv, Unsent
<1>. QED
  BY <1>1, <1>2 DEF SubmitInv, SendInv

\* A step that moves one worker, to no place where it is about to send.
LEMMA WorkerMoves ==
    ASSUME SubmitInv, NEW t \in Tasks,
           NEW place \in {"idle", "get", "sent", "release"},
           Goes(t, place), UNCHANGED <<task, posts>>
    PROVE  SendInv'
<1>1. worker' \in [Tasks -> {"idle", "submit", "send", "sent", "poll", "get",
                             "release"}]
  BY DEF SubmitInv, SendInv, Goes
<1>2. ASSUME NEW u \in Tasks PROVE Unsent(u)'
  BY DEF SubmitInv, SendInv, Unsent, Goes
<1>. QED
  BY <1>1, <1>2 DEF SubmitInv, SendInv
-----------------------------------------------------------------------------
(* The steps. *)

LEMMA FrameSteps ==
    ASSUME SubmitInv, FrameStep
    PROVE  SubmitInv'
<1>1. EventInv'
  BY EventUnchanged
     DEF FrameStep, FinishWaiting, Finish, Rerun, Remove, Enqueue, envVars
<1>2. CASE FinishWaiting
  <2>1. FinishedStatus(receipt) \in FrameStatuses
    BY DEF FinishedStatus, ResumedStatus, FrameStatuses
  <2>2. FrameInv'
    BY <1>2, <2>1 DEF FinishWaiting, SubmitInv, FrameInv
  <2>3. SendInv'
    BY <1>2, SendUnchanged DEF FinishWaiting, rowVars
  <2>. QED
    BY <1>1, <2>2, <2>3 DEF SubmitInv
<1>3. CASE Finish \/ Rerun \/ Remove
  <2>1. FrameInv'
    BY <1>3 DEF Finish, Rerun, Remove, SubmitInv, FrameInv, FrameStatuses
  <2>2. SendInv'
    BY <1>3, SendUnchanged DEF Finish, Rerun, Remove, rowVars
  <2>. QED
    BY <1>1, <2>1, <2>2 DEF SubmitInv
<1>4. ASSUME NEW t \in Tasks, Enqueue(t) PROVE SubmitInv'
  <2>1. FrameInv'
    BY <1>4 DEF Enqueue, SubmitInv, FrameInv
  <2>. DEFINE row == [task[t] EXCEPT !.status = "queued"]
  <2>2. row \in Rows /\ row.status = "queued"
    BY DEF SubmitInv, SendInv, Rows, RowStatuses
  <2>3. task' = [task EXCEPT ![t] = row]
    BY <1>4 DEF Enqueue
  <2>4. worker[t] # "send"
    BY <1>4 DEF Enqueue, SubmitInv, SendInv, Unsent
  <2>5. task[t].status \in {"none", "queued"} /\ UNCHANGED <<worker, posts>>
    BY <1>4 DEF Enqueue
  <2>. HIDE DEF row
  <2>6. SendInv'
    BY <2>2, <2>3, <2>4, <2>5, RowStep
  <2>. QED
    BY <1>1, <2>1, <2>6 DEF SubmitInv
<1>. QED
  BY <1>2, <1>3, <1>4 DEF FrameStep

LEMMA WriteSteps ==
    ASSUME SubmitInv, NEW p \in Threads, WriteEvent(p)
    PROVE  SubmitInv'
<1>. DEFINE e == event[p]
            t == e.task
            row == IF e.id \in seen[t] THEN task[t] ELSE Applied(task[t], e)
<1>1. e \in Events /\ e.status \in Settable
  BY DEF WriteEvent, SubmitInv, EventInv
<1>2. task' = [task EXCEPT ![t] = row]
  BY DEF WriteEvent
<1>3. SendInv'
  <2>1. CASE t \notin Tasks
    <3>1. UNCHANGED task
      BY <1>2, <2>1 DEF SubmitInv, SendInv
    <3>. QED
      BY <3>1, SendUnchanged DEF WriteEvent
  <2>2. CASE t \in Tasks /\ e.id \in seen[t]
    <3>1. UNCHANGED task
      BY <1>2, <2>2 DEF SubmitInv, SendInv
    <3>. QED
      BY <3>1, SendUnchanged DEF WriteEvent
  <2>3. CASE t \in Tasks /\ e.id \notin seen[t]
    <3>1. row \in Rows /\ row.status \in Settable
      BY <1>1, <2>3, AppliedSettable DEF SubmitInv, SendInv
    <3>2. row.status \notin {"none", "queued"}
      BY <3>1 DEF Settable, Terminal, Final
    <3>3. UNCHANGED <<worker, posts>>
      BY DEF WriteEvent
    <3>. HIDE DEF row, t, e
    <3>. QED
      BY <1>2, <2>3, <3>1, <3>2, <3>3, RowStep
  <2>. QED
    BY <2>1, <2>2, <2>3
<1>4. EventInv'
  <2>. DEFINE next == IF /\ e.id \notin seen[t] /\ task[t].status \notin Final
                         /\ NextStatus(task[t], e) \in Terminal
                      THEN [NoEvent EXCEPT !.at = "look", !.task = t]
                      ELSE NoEvent
  <2>1. event' = [event EXCEPT ![p] = next]
    BY DEF WriteEvent
  <2>2. next \in Events /\ next.at \in {"none", "look"}
    BY <1>1 DEF NoEvent, Events, Ids, FrameStatuses
  <2>. HIDE DEF next
  <2>. QED
    BY <2>1, <2>2 DEF SubmitInv, EventInv
<1>5. FrameInv'
  BY FrameUnchanged DEF WriteEvent, envVars
<1>. QED
  BY <1>3, <1>4, <1>5 DEF SubmitInv

\* An event whose status is not written any more.
LEMMA NextEvent ==
    ASSUME SubmitInv, NEW p \in Threads, NEW next \in Events,
           next.at # "write",
           next.at = "resume" => next.status \in {"over", "ready_to_resume"},
           event' = [event EXCEPT ![p] = next]
    PROVE  EventInv'
BY DEF SubmitInv, EventInv

LEMMA NoEventIsEvent == NoEvent \in Events /\ NoEvent.at = "none"
BY DEF NoEvent, Events, Ids, FrameStatuses

LEMMA ResumeSteps ==
    ASSUME SubmitInv, NEW p \in Threads,
           LookAtFrame(p) \/ ResumeFrame(p) \/ ResumeFails(p)
    PROVE  SubmitInv'
<1>1. SendInv'
  BY SendUnchanged
     DEF LookAtFrame, ResumeFrame, ResumeFails, envVars, rowVars
<1>2. event[p] \in Events
  BY DEF SubmitInv, EventInv
<1>3. CASE LookAtFrame(p)
  <2>. DEFINE e == [event[p] EXCEPT !.at = "resume", !.frame = frame.status,
                                    !.status = ResumedStatus]
  <2>1. /\ e \in Events /\ e.at = "resume"
        /\ e.status \in {"over", "ready_to_resume"}
    BY <1>2, ZenonT(30) DEF Events, ResumedStatus, SubmitInv, FrameInv
  <2>2. \/ event' = [event EXCEPT ![p] = e]
        \/ event' = [event EXCEPT ![p] = NoEvent]
    BY <1>3 DEF LookAtFrame
  <2>. HIDE DEF e
  <2>3. EventInv'
    BY <2>1, <2>2, NextEvent, NoEventIsEvent
  <2>4. FrameInv'
    BY <1>3, FrameUnchanged DEF LookAtFrame
  <2>. QED
    BY <1>1, <2>3, <2>4 DEF SubmitInv
<1>4. CASE ResumeFrame(p)
  <2>1. EventInv'
    BY <1>4, NextEvent, NoEventIsEvent DEF ResumeFrame
  <2>2. FrameInv'
    BY <1>4 DEF ResumeFrame, SubmitInv, FrameInv, EventInv, FrameStatuses
  <2>. QED
    BY <1>1, <2>1, <2>2 DEF SubmitInv
<1>5. CASE ResumeFails(p)
  <2>1. EventInv'
    BY <1>5, NextEvent, NoEventIsEvent DEF ResumeFails
  <2>2. FrameInv'
    BY <1>5, FrameUnchanged DEF ResumeFails
  <2>. QED
    BY <1>1, <2>1, <2>2 DEF SubmitInv
<1>. QED
  BY <1>3, <1>4, <1>5

\* A worker changes its row and moves on, to no place where it sends.
LEMMA RowAndWorker ==
    ASSUME SubmitInv, NEW t \in Tasks, NEW row \in Rows,
           NEW place \in {"idle", "get", "release"},
           task' = [task EXCEPT ![t] = row],
           row.status \in {"none", "queued"} =>
               task[t].status \in {"none", "queued"},
           Goes(t, place), UNCHANGED posts
    PROVE  SendInv'
<1>1. /\ task' \in [Tasks -> Rows]
      /\ worker' \in [Tasks -> {"idle", "submit", "send", "sent", "poll",
                                "get", "release"}]
  BY DEF SubmitInv, SendInv, Goes
<1>2. ASSUME NEW u \in Tasks PROVE Unsent(u)'
  BY DEF SubmitInv, SendInv, Unsent, Goes
<1>. QED
  BY <1>1, <1>2 DEF SubmitInv, SendInv

LEMMA ClaimSteps ==
    ASSUME SubmitInv, NEW t \in Tasks, Claim(t)
    PROVE  SubmitInv'
<1>1. EventInv' /\ FrameInv'
  BY EventUnchanged, FrameUnchanged DEF Claim, envVars
<1>2. CASE UNCHANGED task /\ Goes(t, "idle")
  <2>1. SendInv'
    BY <1>2, WorkerMoves DEF Claim
  <2>. QED
    BY <1>1, <2>1 DEF SubmitInv
<1>3. CASE ~(UNCHANGED task /\ Goes(t, "idle"))
  <2>. DEFINE row == [task[t] EXCEPT !.held = TRUE, !.live = TRUE,
                        !.status = IF strategy[t] = "local" THEN "working"
                                   ELSE "submitting"]
  <2>1. /\ task[t].status = "queued"
        /\ task' = [task EXCEPT ![t] = row]
        /\ Goes(t, "send")
        /\ UNCHANGED posts
    BY <1>3 DEF Claim
  <2>2. row \in Rows /\ row.status \notin {"none", "queued"}
    BY DEF SubmitInv, SendInv, Rows, RowStatuses, Settable
  <2>. HIDE DEF row
  <2>3. /\ task' \in [Tasks -> Rows]
        /\ worker' \in [Tasks -> {"idle", "submit", "send", "sent", "poll",
                                  "get", "release"}]
    BY <2>1, <2>2 DEF SubmitInv, SendInv, Goes
  <2>4. ASSUME NEW u \in Tasks PROVE Unsent(u)'
    BY <2>1, <2>2 DEF SubmitInv, SendInv, Unsent, Goes
  <2>5. SendInv'
    BY <2>1, <2>3, <2>4 DEF SubmitInv, SendInv
  <2>. QED
    BY <1>1, <2>5 DEF SubmitInv
<1>. QED
  BY <1>2, <1>3

\* The one request of a task: none has been sent before.
LEMMA PostSteps ==
    ASSUME SubmitInv, NEW t \in Tasks, Post(t)
    PROVE  SubmitInv'
<1>1. EventInv' /\ FrameInv'
  BY EventUnchanged, FrameUnchanged DEF Post, envVars
<1>2. /\ worker[t] = "send" /\ UNCHANGED task
      /\ worker' = [worker EXCEPT ![t] = "sent"]
      /\ posts' = [posts EXCEPT ![t] = @ + 1]
  BY DEF Post, At, Goes, rowVars
<1>3. posts[t] = 0 /\ task[t].status \notin {"none", "queued"}
  BY <1>2 DEF SubmitInv, SendInv, Unsent
<1>4. ASSUME NEW u \in Tasks PROVE Unsent(u)'
  BY <1>2, <1>3 DEF SubmitInv, SendInv, Unsent
<1>5. SendInv'
  BY <1>2, <1>3, <1>4 DEF SubmitInv, SendInv
<1>. QED
  BY <1>1, <1>5 DEF SubmitInv

LEMMA AnswerSteps ==
    ASSUME SubmitInv, NEW t \in Tasks,
           NEW status \in Settable, NEW named \in BOOLEAN, NEW id \in Ids,
           Goes(t, "release"), Applies(t, t, id, status, named),
           UNCHANGED <<envVars, rowVars, frame, receipt, scan, posts, cut>>
    PROVE  SubmitInv'
<1>1. EventInv'
  BY AppliesSettable DEF Threads
<1>2. SendInv'
  BY WorkerMoves DEF rowVars
<1>3. FrameInv'
  BY FrameUnchanged DEF envVars
<1>. QED
  BY <1>1, <1>2, <1>3 DEF SubmitInv

LEMMA WorkerSteps ==
    ASSUME SubmitInv, NEW t \in Tasks, WorkerStep(t)
    PROVE  SubmitInv'
<1>. /\ {"submission", "poll"} \subseteq Ids
     /\ Answers(t) \subseteq Settable /\ Reports \subseteq Settable
     /\ "failed" \in Settable
  BY DEF Ids, Answers, Reports, Settable, Terminal, Final
<1>1. CASE ResolveFails(t)
  BY <1>1, AnswerSteps DEF ResolveFails
<1>2. ASSUME NEW status \in Answers(t), Answered(t, status) PROVE SubmitInv'
  <2>1. Named(t, status) \subseteq BOOLEAN
    BY DEF Named
  <2>. QED
    BY <1>2, <2>1, AnswerSteps DEF Answered
<1>3. ASSUME NEW status \in Reports, Polled(t, status)
      PROVE  SubmitInv'
  BY <1>3, AnswerSteps DEF Polled
<1>4. CASE ClaimPoll(t)
  <2>1. EventInv' /\ FrameInv'
    BY <1>4, EventUnchanged, FrameUnchanged
       DEF ClaimPoll, envVars
  <2>2. CASE UNCHANGED task /\ Goes(t, "idle")
    BY <1>4, <2>1, <2>2, WorkerMoves DEF ClaimPoll, SubmitInv
  <2>3. CASE ~(UNCHANGED task /\ Goes(t, "idle"))
    <3>. DEFINE row == [task[t] EXCEPT !.held = TRUE, !.live = TRUE]
    <3>1. task' = [task EXCEPT ![t] = row] /\ Goes(t, "get")
      BY <1>4, <2>3 DEF ClaimPoll
    <3>2. row \in Rows /\ row.status = task[t].status
      BY DEF SubmitInv, SendInv, Rows
    <3>3. UNCHANGED posts
      BY <1>4 DEF ClaimPoll
    <3>. HIDE DEF row
    <3>4. SendInv'
      BY <3>1, <3>2, <3>3, RowAndWorker
    <3>. QED
      BY <2>1, <3>4 DEF SubmitInv
  <2>. QED
    BY <2>2, <2>3
<1>5. ASSUME NEW permanent \in BOOLEAN, PollFails(t, permanent)
      PROVE  SubmitInv'
  <2>1. EventInv' /\ FrameInv'
    BY <1>5, EventUnchanged, FrameUnchanged
       DEF PollFails, envVars
  <2>. DEFINE row == IF task[t].status \in Terminal \/ ~permanent THEN task[t]
                     ELSE [task[t] EXCEPT !.status = "tracking_blocked",
                                          !.poll = FALSE]
  <2>2. task' = [task EXCEPT ![t] = row] /\ Goes(t, "release")
    BY <1>5 DEF PollFails
  <2>3. row \in Rows /\ row.status \in {task[t].status, "tracking_blocked"}
    BY ZenonT(30) DEF SubmitInv, SendInv, Rows, RowStatuses, Settable
  <2>4. UNCHANGED posts
    BY <1>5 DEF PollFails
  <2>. HIDE DEF row
  <2>5. SendInv'
    BY <2>2, <2>3, <2>4, RowAndWorker
  <2>. QED
    BY <2>1, <2>5 DEF SubmitInv
<1>6. CASE Release(t)
  <2>1. EventInv' /\ FrameInv'
    BY <1>6, EventUnchanged, FrameUnchanged DEF Release, envVars
  <2>. DEFINE row == [task[t] EXCEPT !.held = FALSE, !.live = FALSE]
  <2>2. task' = [task EXCEPT ![t] = row] /\ Goes(t, "idle")
    BY <1>6 DEF Release
  <2>3. row \in Rows /\ row.status = task[t].status
    BY DEF SubmitInv, SendInv, Rows
  <2>4. UNCHANGED posts
    BY <1>6 DEF Release
  <2>. HIDE DEF row
  <2>5. SendInv'
    BY <2>2, <2>3, <2>4, RowAndWorker
  <2>. QED
    BY <2>1, <2>5 DEF SubmitInv
<1>. QED
  BY <1>1, <1>2, <1>3, <1>4, <1>5, <1>6, ClaimSteps, PostSteps DEF WorkerStep

LEMMA ScannerSteps ==
    ASSUME SubmitInv, ScannerStep
    PROVE  SubmitInv'
<1>1. FrameInv'
  BY FrameUnchanged
     DEF ScannerStep, LoadStale, LoadExpired, Offer, ReadAgain, RecoverStale,
         Expire, envVars
<1>2. CASE LoadStale \/ LoadExpired \/ \E t \in Tasks : ReadAgain(t)
  <2>1. EventInv' /\ SendInv'
    BY <1>2, EventUnchanged, SendUnchanged
       DEF LoadStale, LoadExpired, ReadAgain, rowVars
  <2>. QED
    BY <1>1, <2>1 DEF SubmitInv
<1>3. ASSUME NEW t \in Tasks, RecoverStale(t) PROVE SubmitInv'
  <2>. DEFINE next == RecoveredStatus(t)
              status == IF next = scan.row[t].status THEN task[t].status
                        ELSE next
              row == [task[t] EXCEPT !.status = status, !.held = FALSE,
                        !.live = FALSE, !.poll = (next = "working")]
  <2>1. next \in {"working", "outcome_unknown"}
    BY DEF RecoveredStatus
  <2>2. row \in Rows /\ row.status \in {task[t].status, next}
    BY <2>1, ZenonT(30)
       DEF SubmitInv, SendInv, Rows, RowStatuses, Settable, Terminal
  <2>3. task' = [task EXCEPT ![t] = row] /\ UNCHANGED <<worker, posts>>
    BY <1>3 DEF RecoverStale
  <2>4. worker[t] = "send" => task[t].status \notin {"none", "queued"}
    BY DEF SubmitInv, SendInv, Unsent
  <2>5. SendInv'
    <3>. HIDE DEF row, next
    <3>. QED
      BY <2>1, <2>2, <2>3, <2>4, RowStep
  <2>. DEFINE e == IF status \in Terminal
                   THEN [NoEvent EXCEPT !.at = "look", !.task = t]
                   ELSE NoEvent
  <2>6. event' = [event EXCEPT ![Scanner] = e]
    BY <1>3 DEF RecoverStale
  <2>7. e \in Events /\ e.at \in {"none", "look"}
    BY DEF NoEvent, Events, Ids, FrameStatuses
  <2>8. EventInv'
    <3>. HIDE DEF e
    <3>. QED
      BY <2>6, <2>7, NextEvent DEF Threads
  <2>. QED
    BY <1>1, <2>5, <2>8 DEF SubmitInv
<1>4. ASSUME NEW t \in Tasks, Expire(t) PROVE SubmitInv'
  <2>1. "expired" \in Ids /\ "expired" \in Settable /\ Scanner \in Threads
    BY DEF Ids, Settable, Terminal, Final, Threads
  <2>2. EventInv'
    BY <1>4, <2>1, AppliesSettable DEF Expire
  <2>3. SendInv'
    BY <1>4, SendUnchanged DEF Expire, rowVars
  <2>. QED
    BY <1>1, <2>2, <2>3 DEF SubmitInv
<1>5. CASE Offer
  <2>1. EventInv'
    BY <1>5, EventUnchanged DEF Offer
  <2>2. ASSUME NEW t \in Tasks
        PROVE  Offered(t) \in {worker[t], "submit", "poll", "idle"}
    BY DEF Offered
  <2>3. /\ worker' = [t \in Tasks |-> Offered(t)]
        /\ UNCHANGED <<task, posts>>
    BY <1>5 DEF Offer, rowVars
  <2>4. worker' \in [Tasks -> {"idle", "submit", "send", "sent", "poll", "get",
                               "release"}]
    BY <2>2, <2>3 DEF SubmitInv, SendInv
  <2>5. ASSUME NEW t \in Tasks PROVE Unsent(t)'
    BY <2>2, <2>3 DEF SubmitInv, SendInv, Unsent
  <2>. QED
    BY <1>1, <2>1, <2>3, <2>4, <2>5 DEF SubmitInv, SendInv
<1>. QED
  BY <1>2, <1>3, <1>4, <1>5 DEF ScannerStep

LEMMA CallbackSteps ==
    ASSUME SubmitInv, NEW c \in Callbacks, NEW t \in Tasks,
           NEW status \in CallbackReports, CallbackArrives(c, t, status)
    PROVE  SubmitInv'
<1>1. status \in Settable /\ c \in Ids /\ c \in Threads
  BY DEF CallbackReports, Settable, Terminal, Final, Ids, Threads
<1>2. EventInv'
  BY <1>1, AppliesSettable DEF CallbackArrives
<1>3. FrameInv' /\ SendInv'
  BY FrameUnchanged, SendUnchanged DEF CallbackArrives, rowVars
<1>. QED
  BY <1>2, <1>3 DEF SubmitInv

LEMMA OtherSteps ==
    ASSUME SubmitInv, NEW t \in Tasks,
           ResumeTracking(t) \/ Lapse(t) \/ DeadlinePasses(t)
    PROVE  SubmitInv'
<1>1. EventInv' /\ FrameInv'
  BY EventUnchanged, FrameUnchanged
     DEF ResumeTracking, Lapse, DeadlinePasses, envVars
<1>2. CASE ResumeTracking(t)
  <2>. DEFINE row == [task[t] EXCEPT !.status = "accepted", !.poll = TRUE]
  <2>1. task' = [task EXCEPT ![t] = row] /\ UNCHANGED <<worker, posts>>
    BY <1>2 DEF ResumeTracking
  <2>2. row \in Rows /\ row.status = "accepted"
    BY DEF SubmitInv, SendInv, Rows, RowStatuses, Settable
  <2>. HIDE DEF row
  <2>3. SendInv'
    BY <2>1, <2>2, RowStep
  <2>. QED
    BY <1>1, <2>3 DEF SubmitInv
<1>3. CASE Lapse(t)
  <2>. DEFINE row == [task[t] EXCEPT !.live = FALSE]
  <2>1. task' = [task EXCEPT ![t] = row] /\ UNCHANGED <<worker, posts>>
    BY <1>3 DEF Lapse
  <2>2. row \in Rows /\ row.status = task[t].status
    BY DEF SubmitInv, SendInv, Rows
  <2>3. worker[t] = "idle"
    BY <1>3 DEF Lapse
  <2>. HIDE DEF row
  <2>4. SendInv'
    BY <2>1, <2>2, <2>3, RowStep
  <2>. QED
    BY <1>1, <2>4 DEF SubmitInv
<1>4. CASE DeadlinePasses(t)
  BY <1>1, <1>4, SendUnchanged DEF DeadlinePasses, rowVars, SubmitInv
<1>. QED
  BY <1>2, <1>3, <1>4

\* A crash keeps the rows, and so the claims: no worker is about to send.
LEMMA CrashSteps ==
    ASSUME SubmitInv, Crash
    PROVE  SubmitInv'
<1>1. EventInv'
  BY NoEventIsEvent DEF Crash, EventInv
<1>2. FrameInv'
  BY DEF Crash, SubmitInv, FrameInv, FrameStatuses
<1>3. SendInv'
  BY DEF Crash, rowVars, SubmitInv, SendInv, Unsent
<1>. QED
  BY <1>1, <1>2, <1>3 DEF SubmitInv

LEMMA SubmitStep == SubmitInv /\ [Next]_vars => SubmitInv'
<1>. SUFFICES ASSUME SubmitInv, [Next]_vars PROVE SubmitInv'
  OBVIOUS
<1>1. CASE UNCHANGED vars
  BY <1>1, EventUnchanged, FrameUnchanged, SendUnchanged
     DEF vars, SubmitInv
<1>2. ASSUME NEW p \in Threads, ApplyStep(p) \/ ResumeFails(p) PROVE SubmitInv'
  BY <1>2, WriteSteps, ResumeSteps DEF ApplyStep
<1>3. CASE Clock
  BY <1>3, OtherSteps DEF Clock
<1>. QED
  BY <1>1, <1>2, <1>3, FrameSteps, ScannerSteps, CrashSteps, CallbackSteps,
     WorkerSteps, OtherSteps DEF Next

\* What rows, events and workers may be, and that an unclaimed task has not
\* been sent, in every reachable state.
THEOREM SubmitInvariant == Spec => []SubmitInv
BY SubmitInit, SubmitStep, PTL DEF Spec

\* The request of a detached task is sent at most once, whatever crashes,
\* lapses, is recovered, expires, is called back or offered again.
THEOREM SentOnce == Spec => []SubmittedOnce
<1>1. SubmitInv => SubmittedOnce
  BY DEF SubmitInv, SendInv, SubmittedOnce
<1>. QED
  BY <1>1, SubmitInvariant, PTL
-----------------------------------------------------------------------------
(* An ended task. *)

Kept(t) == task[t].status \in Final => task'[t].status = task[t].status

\* Only the recovery of the task itself may change a task that has ended.
LEMMA EndStep ==
    ASSUME SubmitInv, [Next]_vars, NEW t \in Tasks
    PROVE  Kept(t) \/ (scan.at = "stale" /\ t \in scan.batch \ scan'.batch)
<1>. USE DEF Kept
<1>a. task \in [Tasks -> Rows]
  BY DEF SubmitInv, SendInv
<1>1. CASE UNCHANGED task
  BY <1>1
<1>2. ASSUME NEW u \in Tasks, Enqueue(u) PROVE Kept(t)
  BY <1>2, <1>a DEF Enqueue, Rows, Final
<1>3. ASSUME NEW p \in Threads, WriteEvent(p) PROVE Kept(t)
  <2>. DEFINE e == event[p]
  <2>1. task' = [task EXCEPT ![e.task] = IF e.id \in seen[e.task] THEN @
                                         ELSE Applied(@, e)]
    BY <1>3 DEF WriteEvent
  <2>2. ASSUME task[t].status \in Final
        PROVE  Applied(task[t], e).status = task[t].status
    BY <2>2, <1>a DEF Applied, NextStatus, Rows
  <2>. QED
    BY <2>1, <2>2, <1>a
<1>4. ASSUME NEW u \in Tasks, WorkerStep(u) PROVE Kept(t)
  <2>1. CASE Claim(u) \/ ClaimPoll(u) \/ Release(u)
    BY <2>1, <1>a DEF Claim, ClaimPoll, Release, Rows, Final
  <2>2. ASSUME NEW permanent \in BOOLEAN, PollFails(u, permanent)
        PROVE  Kept(t)
    BY <2>2, <1>a DEF PollFails, Rows, Terminal
  <2>3. CASE UNCHANGED task
    BY <2>3
  <2>. QED
    BY <1>4, <2>1, <2>2, <2>3
       DEF WorkerStep, ResolveFails, Post, Answered, Polled, rowVars
<1>5. ASSUME NEW u \in Tasks, RecoverStale(u)
      PROVE  Kept(t) \/ (scan.at = "stale" /\ t \in scan.batch \ scan'.batch)
  <2>1. CASE u = t
    BY <1>5, <2>1 DEF RecoverStale
  <2>2. CASE u # t
    BY <1>5, <2>2, <1>a DEF RecoverStale
  <2>. QED
    BY <2>1, <2>2
<1>6. ASSUME NEW u \in Tasks, ResumeTracking(u) \/ Lapse(u) \/ DeadlinePasses(u)
      PROVE  Kept(t)
  BY <1>6, <1>a DEF ResumeTracking, Lapse, DeadlinePasses, rowVars, Rows, Final
<1>7. CASE \/ FinishWaiting \/ Finish \/ Rerun \/ Remove
           \/ LoadStale \/ LoadExpired \/ Offer \/ Crash
           \/ \E u \in Tasks : ReadAgain(u) \/ Expire(u)
           \/ \E p \in Threads :
                 LookAtFrame(p) \/ ResumeFrame(p) \/ ResumeFails(p)
           \/ \E c \in Callbacks, u \in Tasks, status \in CallbackReports :
                 CallbackArrives(c, u, status)
  BY <1>7 DEF FinishWaiting, Finish, Rerun, Remove, LoadStale, LoadExpired,
     Offer, Crash, ReadAgain, Expire, LookAtFrame, ResumeFrame, ResumeFails,
     CallbackArrives, rowVars
<1>. HIDE DEF Kept
<1>. QED
  BY <1>1, <1>2, <1>3, <1>4, <1>5, <1>6, <1>7
     DEF Next, FrameStep, ScannerStep, Clock, ApplyStep, vars

\* A task that has ended stays as it ended, whoever else hears of it and in
\* whatever order, outside the recovery of stale leases.
THEOREM EndedStays == Spec => EndStays
<1>1. SubmitInv /\ [Next]_vars =>
        [\A t \in Tasks :
            task[t].status \in Final =>
              \/ task'[t].status = task[t].status
              \/ scan.at = "stale" /\ t \in scan.batch \ scan'.batch]_vars
  BY EndStep DEF Kept
<1>. QED
  BY <1>1, SubmitInvariant, PTL DEF Spec, EndStays
=============================================================================
