---------------------------- MODULE HarnessTurn ----------------------------
(***************************************************************************)
(* One chat session executing Harness turns: the turn coordinator          *)
(* (core/turn_coordinator.py, driven by AgentLoop.handle_turn), the        *)
(* scheduled-task shortcut and the cancel endpoint (api/chat.py), orphan   *)
(* recovery at startup and by the periodic sweeper                         *)
(* (core/harness_recovery.py), and the crash of the process.               *)
(*                                                                         *)
(* Each action of a worker is what it does between two commits, with the   *)
(* checks that precede the writes.  The process is single: the in-process  *)
(* lock orders the workers of the session, and a crash takes all of them.  *)
(***************************************************************************)
EXTENDS SessionLease, TurnReceipts, TaskFrames

VARIABLES
    pc,          \* where a worker is
    after,       \* where it goes once it has released the session
    todo,        \* planned frames it has still to execute
    cur,         \* the frame whose attempt it runs, or None
    executed,    \* executed[t]: the workers claim() let execute t
    announced,   \* the user_message_received event of t is committed
    messages,    \* the kinds of assistant message shown for t
    cancelEvent, \* the stream_cancelled event of t is committed
    marker,      \* process-local cancellation markers
    pending,     \* turns a cancel request has found no receipt of
    session,     \* ChatSession.status
    sweep,       \* what the sweeper has loaded and not yet written
    up           \* the process runs and serves

coordVars == <<pc, after, todo, cur, executed>>
chatVars == <<announced, messages, cancelEvent, marker, pending, session>>
vars == <<lock, lease, receipt, frame, run, coordVars, chatVars, sweep, up>>

MessageKinds == {"reply", "error", "cancelled", "recovered", "interrupted"}

(* The steps of a worker before it has claimed its turn, while it executes *)
(* it, and on its way out.                                                 *)
EntrySteps == {"lease", "claim", "draftClaim"}
RunSteps == {"bind", "announce", "plan", "frame", "exec", "begin",
             "finalize", "complete", "draftBind", "draftComplete"}
AbortSteps == {"cancelling", "cancelReceipt", "cancelReply",
               "interrupt", "interruptReceipt"}
ReplySteps == {"errorReply", "interruptedReply"}
Steps == {"idle", "close", "done"} \cup EntrySteps \cup RunSteps
         \cup AbortSteps \cup ReplySteps

(* A worker that is still executing its turn. *)
Alive(w) == pc[w] \in {"close"} \cup EntrySteps \cup RunSteps \cup AbortSteps

Snapshot == [turns: SUBSET Turns, attempts: SUBSET (Frames \X Nat),
             frames: SUBSET Frames]
Idle == [turns |-> {}, attempts |-> {}, frames |-> {}]

TypeOK ==
    /\ SessionLeaseTypeOK
    /\ ReceiptTypeOK
    /\ FramesTypeOK
    /\ pc \in [Workers -> Steps]
    /\ after \in [Workers -> {"done"} \cup ReplySteps]
    /\ todo \in [Workers -> SUBSET Frames]
    /\ cur \in [Workers -> Frames \cup {None}]
    /\ \A w \in Workers : pc[w] = "exec" => cur[w] # None
    /\ executed \in [Turns -> SUBSET Workers]
    /\ announced \in [Turns -> BOOLEAN]
    /\ messages \in [Turns -> SUBSET MessageKinds]
    /\ cancelEvent \in [Turns -> BOOLEAN]
    /\ marker \in SUBSET Turns
    /\ pending \in SUBSET Turns
    /\ session \in {"active", "running"}
    /\ sweep \in Snapshot
    /\ up \in BOOLEAN

Init ==
    /\ SessionLeaseInit
    /\ ReceiptInit
    /\ FramesInit
    /\ pc = [w \in Workers |-> "idle"]
    /\ after = [w \in Workers |-> "done"]
    /\ todo = [w \in Workers |-> {}]
    /\ cur = [w \in Workers |-> None]
    /\ executed = [t \in Turns |-> {}]
    /\ announced = [t \in Turns |-> FALSE]
    /\ messages = [t \in Turns |-> {}]
    /\ cancelEvent = [t \in Turns |-> FALSE]
    /\ marker = {}
    /\ pending = {}
    /\ session = "active"
    /\ sweep = Idle
    /\ up = TRUE

-----------------------------------------------------------------------------
(* Helpers of the worker's actions *)

Goto(w, step) == pc' = [pc EXCEPT ![w] = step]

(* is_chat_turn_cancelled: the marker, else the terminal receipt, else the *)
(* durable event.                                                          *)
IsCancelled(t) ==
    \/ t \in marker
    \/ receipt[t].status = "cancelled"
    \/ ~IsTerminal(t) /\ cancelEvent[t]

Show(t, kind) == messages' = [messages EXCEPT ![t] = @ \cup {kind}]
ShowIfNone(t, kind) == IF messages[t] = {} THEN Show(t, kind)
                                           ELSE UNCHANGED messages

(* _renew_session_lease: the session lease under its fence, then the turn. *)
RenewLeases(w) ==
    /\ HoldsLease(w)
    /\ receipt' = RenewedReceipt(w, TurnOf[w])

-----------------------------------------------------------------------------
(* TurnCoordinator._run *)

(* The request arrives.  A held lock is HarnessSessionBusy: the turn is    *)
(* rejected and nothing else happens.                                      *)
Arrive(w) ==
    /\ pc[w] = "idle"
    /\ IF LockFree
       THEN lock' = w /\ Goto(w, "lease")
       ELSE UNCHANGED lock /\ Goto(w, "done")
    /\ UNCHANGED <<lease, receipt, frame, run, after, todo, cur, executed,
                   chatVars, sweep, up>>

AcquireSession(w) ==
    /\ pc[w] = "lease"
    /\ IF LeaseAvailable
       THEN AcquireLease(w) /\ Goto(w, "claim")
       ELSE UNCHANGED lease /\ Goto(w, "close")
    /\ UNCHANGED <<lock, receipt, frame, run, after, todo, cur, executed,
                   chatVars, sweep, up>>

(* The claim grants execution, replays the stored response or conflicts;   *)
(* the last two end the request.                                           *)
ClaimTurn(w) ==
    /\ pc[w] = "claim"
    /\ \/ /\ Claim(w, TurnOf[w])
          /\ executed' = [executed EXCEPT ![TurnOf[w]] = @ \cup {w}]
          /\ Goto(w, "bind")
       \/ /\ receipt[TurnOf[w]].status # "none"
          /\ Goto(w, "close")
          /\ UNCHANGED <<receipt, executed>>
    /\ UNCHANGED <<lock, lease, frame, run, after, todo, cur, chatVars, sweep,
                   up>>

(* mark_session_running, the user message and its binding commit together; *)
(* a fenced binding rolls all of it back (HarnessTurnConflict).            *)
BindMessage(w) ==
    /\ pc[w] = "bind"
    /\ \/ /\ BindUserMessage(w, TurnOf[w])
          /\ session' = "running"
          /\ Goto(w, "announce")
       \/ /\ ~Fenced(w, TurnOf[w], {"started"})
          /\ Goto(w, "close")
          /\ UNCHANGED <<receipt, session>>
    /\ UNCHANGED <<lock, lease, frame, run, after, todo, cur, executed,
                   announced, messages, cancelEvent, marker, pending, sweep,
                   up>>

Announce(w) ==
    /\ pc[w] = "announce"
    /\ announced' = [announced EXCEPT ![TurnOf[w]] = TRUE]
    /\ Goto(w, "plan")
    /\ UNCHANGED <<lock, lease, receipt, frame, run, after, todo, cur,
                   executed, messages, cancelEvent, marker, session,
                   pending, sweep, up>>

(* A check point: _raise_if_cancelled leads to mark_cancelled, a lost      *)
(* session lease to mark_interrupted.                                      *)
CheckPoint(w) ==
    /\ pc[w] \in {"plan", "frame", "exec"}
    /\ \/ IsCancelled(TurnOf[w]) /\ Goto(w, "cancelling")
       \/ /\ pc[w] # "exec"
          /\ ~HoldsLease(w)
          /\ Goto(w, "interrupt")
       \/ /\ pc[w] = "exec"
          /\ ~(OwnsFrame(w, cur[w]) /\ OwnsRun(w, cur[w]))
          /\ Goto(w, "interrupt")
    /\ UNCHANGED <<lock, lease, receipt, frame, run, after, todo, cur, executed,
                   chatVars, sweep, up>>

(* The window of a cancel request is short against a model's answer.       *)
InTime(t) == MayStall \/ t \notin pending

(* The planner's answer is persisted: frames to execute and to remove. *)
PlanTurn(w) ==
    /\ pc[w] = "plan"
    /\ ~IsCancelled(TurnOf[w])
    /\ InTime(TurnOf[w])
    /\ RenewLeases(w)
    /\ \E removed \in SUBSET {f \in Frames : frame[f].status # "none"
                                             /\ ~IsTerminalFrame(f)} :
         \E plan \in SUBSET (Frames \ removed) :
           IF PlanRefused(plan)
           THEN /\ Goto(w, "interrupt")
                /\ UNCHANGED <<frame, run, todo>>
           ELSE /\ PersistPlan(TurnOf[w], plan, removed)
                /\ todo' = [todo EXCEPT ![w] = PlannedRecords(plan)]
                /\ Goto(w, "frame")
    /\ UNCHANGED <<lock, lease, after, cur, executed, chatVars, sweep, up>>

(* decision complete_task: the user ends a task instead. *)
PlanCompletion(w) ==
    /\ pc[w] = "plan"
    /\ ~IsCancelled(TurnOf[w])
    /\ InTime(TurnOf[w])
    /\ RenewLeases(w)
    /\ \E f \in Frames :
         /\ frame[f].status # "none"
         /\ ~IsTerminalFrame(f)
         /\ IF CompleteTaskFenced(f)
            THEN Goto(w, "interrupt") /\ UNCHANGED <<frame, run>>
            ELSE CompleteTask(f) /\ Goto(w, "frame")
    /\ UNCHANGED <<lock, lease, after, todo, cur, executed, chatVars, sweep, up>>

(* _run_frame: claim the frame and start its run.  A frame that is no      *)
(* longer queued is a TaskFrameClaimConflict, one of the failures of Fail. *)
StartFrame(w) ==
    /\ pc[w] = "frame"
    /\ ~IsCancelled(TurnOf[w])
    /\ RenewLeases(w)
    /\ \E f \in todo[w] :
         /\ StartAttempt(w, f)
         /\ cur' = [cur EXCEPT ![w] = f]
    /\ Goto(w, "exec")
    /\ UNCHANGED <<lock, lease, after, todo, executed, chatVars, sweep, up>>

(* A frame the turn does not execute: it waits for an external task, for a *)
(* dependency or for a later turn's budget; or its SOP is gone, and it     *)
(* fails without an attempt.                                               *)
SkipFrame(w) ==
    /\ pc[w] = "frame"
    /\ ~IsCancelled(TurnOf[w])
    /\ RenewLeases(w)
    /\ \E f \in todo[w] :
         /\ todo' = [todo EXCEPT ![w] = @ \ {f}]
         /\ \/ UNCHANGED frame
            \/ /\ frame[f].status = "queued"
               /\ frame' = [frame EXCEPT ![f] = Settle(frame[f], "failed")]
    /\ UNCHANGED <<lock, lease, run, pc, after, cur, executed, chatVars, sweep,
                   up>>

FinishFrame(w) ==
    /\ pc[w] = "exec"
    /\ \E result \in FrameResults : FinishAttempt(w, cur[w], result)
    /\ todo' = [todo EXCEPT ![w] = @ \ {cur[w]}]
    /\ cur' = [cur EXCEPT ![w] = None]
    /\ Goto(w, "frame")
    /\ UNCHANGED <<lock, lease, receipt, after, executed, chatVars, sweep, up>>

(* Every frame is done: the reply is generated, and the last look at the   *)
(* cancellation precedes the reservation of the receipt.                   *)
PrepareReply(w) ==
    /\ pc[w] = "frame"
    /\ todo[w] = {}
    /\ ~IsCancelled(TurnOf[w])
    /\ RenewLeases(w)
    /\ Goto(w, "begin")
    /\ UNCHANGED <<lock, lease, frame, run, after, todo, cur, executed,
                   chatVars, sweep, up>>

(* begin_completion: "the durable right to publish". *)
ReserveReply(w) ==
    /\ pc[w] = "begin"
    /\ \/ BeginCompletion(w, TurnOf[w]) /\ Goto(w, "finalize")
       \/ /\ ~Fenced(w, TurnOf[w], {"started"})
          /\ Goto(w, "close")
          /\ UNCHANGED receipt
    /\ UNCHANGED <<lock, lease, frame, run, after, todo, cur, executed,
                   chatVars, sweep, up>>

(* finalize_turn and its commit: the reply is not fenced by the receipt. *)
PublishReply(w) ==
    /\ pc[w] = "finalize"
    /\ Show(TurnOf[w], "reply")
    /\ session' = "active"
    /\ Goto(w, "complete")
    /\ UNCHANGED <<lock, lease, receipt, frame, run, after, todo, cur,
                   executed, announced, cancelEvent, marker, pending, sweep,
                   up>>

CompleteTurn(w) ==
    /\ pc[w] = "complete"
    /\ \/ Complete(w, TurnOf[w])
       \/ /\ ~Fenced(w, TurnOf[w], ActiveTurnStatuses)
          /\ UNCHANGED receipt
    /\ Goto(w, "close")
    /\ UNCHANGED <<lock, lease, frame, run, after, todo, cur, executed,
                   chatVars, sweep, up>>

-----------------------------------------------------------------------------
(* AgentLoop.handle_turn: the ways out *)

(* Any exception that is neither a turn conflict nor a cancellation: a     *)
(* model or tool error, a database error, a refused output, a frame that   *)
(* another execution took.                                                 *)
Fail(w) ==
    /\ pc[w] \in RunSteps \ {"draftBind", "draftComplete"}
    /\ Goto(w, "interrupt")
    /\ UNCHANGED <<lock, lease, receipt, frame, run, after, todo, cur,
                   executed, chatVars, sweep, up>>

(* An exception of mark_cancelled or mark_interrupted leaves handle_turn:  *)
(* the receipt and the frame stay as they are and the stream worker        *)
(* reports the interruption.                                               *)
Escape(w) ==
    /\ Goto(w, "close")
    /\ after' = [after EXCEPT ![w] = "interruptedReply"]
    /\ UNCHANGED <<frame, run, cur>>

MarkCancelled(w) ==
    /\ pc[w] = "cancelling"
    /\ IF CancelSourceTurnFenced(TurnOf[w])
       THEN Escape(w)
       ELSE /\ CancelSourceTurn(TurnOf[w])
            /\ cur' = [cur EXCEPT ![w] = None]
            /\ Goto(w, "cancelReceipt")
            /\ UNCHANGED after
    /\ UNCHANGED <<lock, lease, receipt, todo, executed, chatVars, sweep, up>>

MarkCancelledReceipt(w) ==
    /\ pc[w] = "cancelReceipt"
    /\ FinishWithError(w, TurnOf[w], "cancelled")
    /\ Goto(w, "cancelReply")
    /\ UNCHANGED <<lock, lease, frame, run, after, todo, cur, executed,
                   chatVars, sweep, up>>

(* _persist_cancelled_assistant_message, unless the turn has a message. *)
CancelReply(w) ==
    /\ pc[w] = "cancelReply"
    /\ ShowIfNone(TurnOf[w], "cancelled")
    /\ session' = IF messages[TurnOf[w]] = {} THEN "active" ELSE session
    /\ marker' = marker \ {TurnOf[w]}
    /\ Goto(w, "close")
    /\ UNCHANGED <<lock, lease, receipt, frame, run, after, todo, cur,
                   executed, announced, cancelEvent, pending, sweep,
                   up>>

MarkInterrupted(w) ==
    /\ pc[w] = "interrupt"
    /\ IF cur[w] # None /\ InterruptFenced(w, cur[w])
       THEN Escape(w)
       ELSE /\ IF cur[w] # None THEN InterruptAttempt(w, cur[w])
                                ELSE UNCHANGED <<frame, run>>
            /\ cur' = [cur EXCEPT ![w] = None]
            /\ Goto(w, "interruptReceipt")
            /\ UNCHANGED after
    /\ UNCHANGED <<lock, lease, receipt, todo, executed, chatVars, sweep, up>>

MarkInterruptedReceipt(w) ==
    /\ pc[w] = "interruptReceipt"
    /\ FinishWithError(w, TurnOf[w], "failed")
    /\ after' = [after EXCEPT ![w] = "errorReply"]
    /\ Goto(w, "close")
    /\ UNCHANGED <<lock, lease, frame, run, todo, cur, executed, chatVars,
                   sweep, up>>

(* The finally block: clear the markers of a terminal turn, then close().  *)
HoldsRecord(w) ==
    receipt[TurnOf[w]].owner = w \/ Replays(w, TurnOf[w])

Close(w) ==
    /\ pc[w] = "close"
    /\ marker' = IF HoldsRecord(w) /\ IsTerminal(TurnOf[w])
                 THEN marker \ {TurnOf[w]} ELSE marker
    /\ lease' = ReleasedLease(w)
    /\ lock' = IF lock = w THEN None ELSE lock
    /\ Goto(w, after[w])
    /\ after' = [after EXCEPT ![w] = "done"]
    /\ todo' = [todo EXCEPT ![w] = {}]
    /\ cur' = [cur EXCEPT ![w] = None]
    /\ UNCHANGED <<receipt, frame, run, executed, announced, messages,
                   cancelEvent, session, pending, sweep,
                   up>>

(* After the session is released: the failure reply of handle_turn, or the *)
(* interruption _persist_chat_turn_interrupted adds to a turn that has no  *)
(* terminal event yet.                                                     *)
ErrorReply(w) ==
    /\ pc[w] = "errorReply"
    /\ Show(TurnOf[w], "error")
    /\ session' = "active"
    /\ Goto(w, "done")
    /\ UNCHANGED <<lock, lease, receipt, frame, run, after, todo, cur,
                   executed, announced, cancelEvent, marker, pending, sweep,
                   up>>

InterruptedReply(w) ==
    /\ pc[w] = "interruptedReply"
    /\ IF messages[TurnOf[w]] = {} /\ ~cancelEvent[TurnOf[w]]
       THEN Show(TurnOf[w], "interrupted") /\ session' = "active"
       ELSE UNCHANGED <<messages, session>>
    /\ Goto(w, "done")
    /\ UNCHANGED <<lock, lease, receipt, frame, run, after, todo, cur,
                   executed, announced, cancelEvent, marker, pending, sweep,
                   up>>

-----------------------------------------------------------------------------
(* _maybe_handle_scheduled_task_request: answers a turn without the lock   *)
(* and without the session lease.                                          *)

ArriveDraft(w) ==
    /\ pc[w] = "idle"
    /\ ~IsCancelled(TurnOf[w])
    /\ Goto(w, "draftClaim")
    /\ UNCHANGED <<lock, lease, receipt, frame, run, after, todo, cur,
                   executed, chatVars, sweep, up>>

(* A conflict leaves the shortcut as an exception. *)
DraftClaim(w) ==
    /\ pc[w] = "draftClaim"
    /\ \/ /\ Claim(w, TurnOf[w])
          /\ executed' = [executed EXCEPT ![TurnOf[w]] = @ \cup {w}]
          /\ Goto(w, "draftBind")
       \/ /\ receipt[TurnOf[w]].status # "none"
          /\ Goto(w, IF Replays(w, TurnOf[w]) THEN "done"
                                              ELSE "interruptedReply")
          /\ UNCHANGED <<receipt, executed>>
    /\ UNCHANGED <<lock, lease, frame, run, after, todo, cur, chatVars, sweep,
                   up>>

DraftBind(w) ==
    /\ pc[w] = "draftBind"
    /\ \/ BindUserMessage(w, TurnOf[w]) /\ Goto(w, "draftComplete")
       \/ /\ ~Fenced(w, TurnOf[w], {"started"})
          /\ Goto(w, "interruptedReply")
          /\ UNCHANGED receipt
    /\ UNCHANGED <<lock, lease, frame, run, after, todo, cur, executed,
                   chatVars, sweep, up>>

(* The events, the reply and the completed receipt commit together. *)
DraftComplete(w) ==
    /\ pc[w] = "draftComplete"
    /\ \/ /\ Complete(w, TurnOf[w])
          /\ Show(TurnOf[w], "reply")
          /\ announced' = [announced EXCEPT ![TurnOf[w]] = TRUE]
          /\ Goto(w, "done")
       \/ /\ ~Fenced(w, TurnOf[w], ActiveTurnStatuses)
          /\ Goto(w, "interruptedReply")
          /\ UNCHANGED <<receipt, messages, announced>>
    /\ UNCHANGED <<lock, lease, frame, run, after, todo, cur, executed,
                   cancelEvent, marker, session, pending, sweep,
                   up>>

DraftFail(w) ==
    /\ pc[w] \in {"draftBind", "draftComplete"}
    /\ Goto(w, "interruptedReply")
    /\ UNCHANGED <<lock, lease, receipt, frame, run, after, todo, cur,
                   executed, chatVars, sweep, up>>

-----------------------------------------------------------------------------
(* cancel_chat_turn_endpoint: one commit, then the local marker.           *)

(* _ensure_cancelled_assistant_message finds the user message through its  *)
(* committed user_message_received event.                                  *)
CancelMessageAlways(t) ==           \* a bug: no look for an earlier reply
    messages' = IF announced[t]
                THEN [messages EXCEPT ![t] = @ \cup {"cancelled"}]
                ELSE messages

CancelMessage(t) ==
    messages' = IF announced[t] /\ messages[t] = {}
                THEN [messages EXCEPT ![t] = {"cancelled"}] ELSE messages

(* A request that finds no receipt has nothing to compare and set: it adds *)
(* the event later, whatever has become of the turn by then, and it knows  *)
(* of no user message to answer.                                           *)
CancelLooks(t) ==
    /\ ~cancelEvent[t]
    /\ messages[t] = {}
    /\ receipt[t].status = "none"
    /\ pending' = pending \cup {t}
    /\ UNCHANGED <<lock, lease, receipt, frame, run, coordVars, announced,
                   messages, cancelEvent, marker, session, sweep, up>>

CancelUnclaimed(t) ==
    /\ t \in pending
    /\ pending' = pending \ {t}
    /\ cancelEvent' = [cancelEvent EXCEPT ![t] = TRUE]
    /\ session' = "active"
    /\ marker' = marker \cup {t}
    /\ UNCHANGED <<lock, lease, receipt, frame, run, coordVars, announced,
                   messages, sweep, up>>

(* The first cancellation of a claimed turn without an assistant message:  *)
(* refused once the receipt is finalizing, completed or failed.            *)
CancelFirst(t) ==
    /\ ~cancelEvent[t]
    /\ messages[t] = {}
    /\ receipt[t].status \in {"started", "cancelled"}
    /\ cancelEvent' = [cancelEvent EXCEPT ![t] = TRUE]
    /\ session' = "active"
    /\ marker' = marker \cup {t}

(* A repeated cancellation fences a receipt claimed since and completes    *)
(* the message.                                                            *)
CancelAgain(t) ==
    /\ cancelEvent[t]
    /\ marker' = IF announced[t] /\ messages[t] = {}
                 THEN marker \cup {t} ELSE marker
    /\ UNCHANGED <<cancelEvent, session>>

Cancel(t) ==
    /\ CancelFirst(t) \/ CancelAgain(t)
    /\ receipt' = CancelledReceipt(t)
    /\ CancelMessage(t)
    /\ UNCHANGED <<lock, lease, frame, run, coordVars, announced,
                   pending, sweep, up>>

-----------------------------------------------------------------------------
(* recover_orphan_harness_runs *)

OrphanTurnsOfAttempts(startup) ==   \* a bug: a turn without an attempt stays
    {t \in Turns : IsActive(t) /\ (startup \/ OrphanRuns(startup) # {})}

OrphanTurnsUnleased(startup) ==     \* a bug: leases are not looked at
    {t \in Turns : IsActive(t)}

OrphanTurns(startup) ==
    {t \in Turns :
        /\ IsActive(t)
        /\ \/ startup
           \/ OrphanRuns(startup) # {}
           \/ OrphanFrames(startup) # {}
           \/ ~receipt[t].live /\ ~LiveSession}

Orphans(startup) ==
    [turns    |-> OrphanTurns(startup),
     attempts |-> {<<f, run[f].attempt>> : f \in OrphanRuns(startup)},
     frames   |-> {f \in OrphanFrames(startup) \cup OrphanRuns(startup) :
                      IsRunning(f)}]

(* _append_recovery_message: one failure reply, for a turn without any. *)
RecoveryReplyAlways(turns) ==       \* a bug: no look for an earlier reply
    [t \in Turns |-> IF t \in turns THEN messages[t] \cup {"recovered"}
                                    ELSE messages[t]]

RecoveryReply(turns) ==
    [t \in Turns |-> IF t \in turns /\ messages[t] = {} THEN {"recovered"}
                                                        ELSE messages[t]]

(* The writes for the rows of a snapshot: attempts abandoned, frames       *)
(* requeued, turns failed, the session reactivated and its lease deleted.  *)
Recover(snapshot) ==
    /\ RecoverFrames(snapshot.attempts, snapshot.frames)
    /\ receipt' = RecoveredReceipts(snapshot.turns)
    /\ messages' = RecoveryReply(snapshot.turns)
    /\ session' = "active"
    /\ lease' = NoLease

(* The sweeper loads the rows outside a transaction and writes them later. *)
SweepLoad ==
    /\ sweep = Idle
    /\ Orphans(FALSE) # Idle
    /\ sweep' = Orphans(FALSE)
    /\ UNCHANGED <<lock, lease, receipt, frame, run, coordVars, chatVars, up>>

SweepWrite ==
    /\ sweep # Idle
    /\ Recover(sweep)
    /\ sweep' = Idle
    /\ UNCHANGED <<lock, coordVars, announced, cancelEvent, marker,
                   pending, up>>

(* The process dies: its threads, lock and markers are gone.  A request    *)
(* that has not arrived yet reaches the next process.                      *)
Crash ==
    /\ up
    /\ up' = FALSE
    /\ pc' = [w \in Workers |-> IF pc[w] = "idle" THEN "idle" ELSE "done"]
    /\ after' = [w \in Workers |-> "done"]
    /\ todo' = [w \in Workers |-> {}]
    /\ cur' = [w \in Workers |-> None]
    /\ lock' = None
    /\ marker' = {}
    /\ pending' = {}
    /\ sweep' = Idle
    /\ UNCHANGED <<lease, receipt, frame, run, executed, announced,
                   messages, cancelEvent, session>>

(* recover_runtime_runs(startup=True) before the process serves. *)
Startup ==
    /\ ~up
    /\ up' = TRUE
    /\ IF Orphans(TRUE) = Idle
       THEN UNCHANGED <<lease, receipt, frame, run, messages, session>>
       ELSE Recover(Orphans(TRUE))
    /\ UNCHANGED <<lock, coordVars, announced, cancelEvent, marker,
                   pending, sweep>>

-----------------------------------------------------------------------------
(* The clock.  Session and turn leases are renewed between frames only and *)
(* the run and frame leases start after them, so they also expire first.   *)

Lapses(w) == MayLapse \/ ~Alive(w)

ExpireSessionLease ==
    /\ lease.owner # None
    /\ lease.live
    /\ Lapses(lease.owner)
    /\ lease' = [lease EXCEPT !.live = FALSE]
    /\ UNCHANGED <<lock, receipt, frame, run, coordVars, chatVars, sweep, up>>

ExpireTurn(t) ==
    /\ IsActive(t)
    /\ receipt[t].live
    /\ Lapses(receipt[t].owner)
    /\ receipt' = [receipt EXCEPT ![t].live = FALSE]
    /\ UNCHANGED <<lock, lease, frame, run, coordVars, chatVars, sweep, up>>

ExpireRun(f) ==
    /\ RunActive(f)
    /\ run[f].live
    /\ Lapses(run[f].owner)
    /\ LET t == TurnOf[run[f].owner] IN ~(IsActive(t) /\ receipt[t].live)
    /\ run' = [run EXCEPT ![f].live = FALSE]
    /\ UNCHANGED <<lock, lease, receipt, frame, coordVars, chatVars, sweep, up>>

ExpireFrame(f) ==
    /\ IsRunning(f)
    /\ frame[f].live
    /\ ~(RunActive(f) /\ run[f].live)
    /\ frame' = [frame EXCEPT ![f].live = FALSE]
    /\ UNCHANGED <<lock, lease, receipt, run, coordVars, chatVars, sweep, up>>

-----------------------------------------------------------------------------
(* What a worker does when it is scheduled, without the failures it may    *)
(* meet and the requests that may never arrive.                            *)
Execute(w) ==
    \/ AcquireSession(w) \/ ClaimTurn(w) \/ BindMessage(w) \/ Announce(w)
    \/ CheckPoint(w) \/ PlanTurn(w) \/ PlanCompletion(w)
    \/ StartFrame(w) \/ SkipFrame(w) \/ FinishFrame(w)
    \/ PrepareReply(w) \/ ReserveReply(w) \/ PublishReply(w) \/ CompleteTurn(w)
    \/ MarkCancelled(w) \/ MarkCancelledReceipt(w) \/ CancelReply(w)
    \/ MarkInterrupted(w) \/ MarkInterruptedReceipt(w) \/ Close(w)
    \/ ErrorReply(w) \/ InterruptedReply(w)
    \/ DraftClaim(w) \/ DraftBind(w) \/ DraftComplete(w)

Expire ==
    \/ ExpireSessionLease
    \/ \E t \in Turns : ExpireTurn(t)
    \/ \E f \in Frames : ExpireRun(f) \/ ExpireFrame(f)

Serve ==
    /\ up
    /\ \/ \E w \in Workers : \/ Arrive(w) \/ ArriveDraft(w)
                             \/ Execute(w) \/ Fail(w) \/ DraftFail(w)
       \/ \E t \in Turns : CancelLooks(t) \/ CancelUnclaimed(t) \/ Cancel(t)
       \/ SweepLoad
       \/ SweepWrite

Next == Serve \/ Crash \/ Startup \/ Expire

Spec == Init /\ [][Next]_vars

-----------------------------------------------------------------------------
(* Safety *)

(* A client_turn_id is executed at most once, whatever is retried, crashes *)
(* or is recovered: claim() never lets a second worker past an existing    *)
(* receipt ("durable exactly-once receipts").                              *)
ExecutedOnce ==
    \A t \in Turns : \A v, w \in executed[t] : v = w

(* What makes the two properties below inductive.  The worker that         *)
(* executes a turn is the one its receipt names; a receipt that exists     *)
(* names one.                                                              *)
OwnersExecute ==
    /\ \A t \in Turns :
         /\ receipt[t].status = "none" <=> receipt[t].owner = None
         /\ \A w \in executed[t] : receipt[t].owner = w
    /\ \A w \in Workers :
         /\ pc[w] \in RunSteps \cup AbortSteps => receipt[TurnOf[w]].owner = w
         /\ pc[w] \in {"draftBind", "draftComplete"} => ~announced[TurnOf[w]]

(* Every sign of a cancellation is preceded by its durable event.          *)
CancelLeavesItsEvent ==
    /\ \A t \in Turns :
         \/ t \in marker
         \/ receipt[t].status = "cancelled"
         \/ "cancelled" \in messages[t]
         => cancelEvent[t]
    /\ \A w \in Workers :
         pc[w] \in {"cancelling", "cancelReceipt", "cancelReply"} =>
             cancelEvent[TurnOf[w]]

(* Before its turn is claimed nothing of it is shown, except by the cancel *)
(* endpoint the event alone; the sweeper loads claimed turns only.         *)
NothingBeforeClaim ==
    \A t \in Turns :
        /\ receipt[t].status = "none" => ~announced[t]
        /\ "cancelled" \in messages[t] => announced[t]
        /\ t \in sweep.turns => receipt[t].status # "none"
        /\ \A w \in Workers :
              /\ TurnOf[w] = t
              /\ pc[w] \in {"plan", "frame", "exec", "cancelling",
                            "cancelReceipt", "cancelReply"}
              => announced[t]

(* The race for the receipt: no cancel request is pending any more when a  *)
(* plan is executed, once the event is there begin_completion finds no     *)
(* started receipt, and once it has won, there is no event.                *)
CompletionExcludesCancel ==
    ~MayStall => \A w \in Workers :
        /\ pc[w] \in {"frame", "exec", "begin", "finalize", "complete"} =>
               TurnOf[w] \notin pending
        /\ pc[w] = "begin" /\ cancelEvent[TurnOf[w]] =>
               receipt[TurnOf[w]].status # "started"
        /\ pc[w] \in {"finalize", "complete"} =>
               /\ ~cancelEvent[TurnOf[w]]
               /\ receipt[TurnOf[w]].status
                      \in {"finalizing", "completed", "failed"}

(* The user never sees both the normal reply of a turn and the message     *)
(* that it was cancelled: begin_completion and the cancel endpoint compete *)
(* for the receipt, and no stale worker, sweep or repeated cancellation    *)
(* shows the loser's message later.                                        *)
CancelExcludesReply ==
    \A t \in Turns : ~({"reply", "cancelled"} \subseteq messages[t])

(* Once the coordinator holds the right to publish, the cancel endpoint    *)
(* cannot record a cancellation of the turn, and once one is recorded the  *)
(* coordinator never gets there.                                           *)
CancelHonoured ==
    \A w \in Workers :
        pc[w] \in {"finalize", "complete"} => ~cancelEvent[TurnOf[w]]

(* The inductive invariant of the receipts.  *)
ReceiptInv ==
    /\ OwnersExecute
    /\ CancelLeavesItsEvent
    /\ NothingBeforeClaim
    /\ CompletionExcludesCancel
    /\ ~MayStall => CancelExcludesReply

(* A frame marked running always has its run: still running, of the same   *)
(* worker and the same attempt.  It holds whatever leases lapse under a    *)
(* live executor, although the sweeper, a second plan, a cancellation and  *)
(* the late worker all write the two rows.                                 *)
AttemptsPaired ==
    \A f \in Frames :
        IsRunning(f) => /\ RunActive(f)
                        /\ run[f].owner = frame[f].owner
                        /\ run[f].attempt = frame[f].attempt

(* A queued frame whose last attempt is not recorded as ended. *)
Overtaken(f) == frame[f].status = "queued" /\ RunActive(f)

(* A finished task comes back, or a frame is queued again with its attempt *)
(* still marked running, in one way only: the sweeper writes a row that    *)
(* was running when it loaded it.  A late worker, a second plan, a         *)
(* cancellation and a restart never do either.                             *)
OnlySweepRevives ==
    [][\A f \in Frames :
          \/ IsTerminalFrame(f) /\ frame'[f].status # frame[f].status
          \/ ~Overtaken(f) /\ Overtaken(f)'
          => f \in sweep.frames]_vars

(* At most one of the four settled outcomes of a turn is shown; the error  *)
(* report of a failed execution may come on top.                           *)
OneOutcome ==
    \A t \in Turns : Cardinality(messages[t] \ {"error"}) <= 1

(* "Recover active rows left without a live executor": while a worker      *)
(* executes a frame, its turn does not get the recovery reply.             *)
RecoversOnlyOrphans ==
    \A t \in Turns : "recovered" \in messages[t] =>
        ~(\E w \in executed[t] : pc[w] = "exec")

(* "Cancellation wins over the shortcut": a turn whose cancellation was    *)
(* recorded is not answered.                                               *)
CancelledNotAnswered ==
    \A t \in Turns : cancelEvent[t] => "reply" \notin messages[t]

(* "Normal completion already owns the terminal receipt.  Do not append a  *)
(* contradictory cancellation event/message after that linearization": no  *)
(* cancellation is recorded for a turn that was completed.                 *)
NoContradictoryCancel ==
    [][\A t \in Turns :
          receipt[t].status = "completed" /\ ~cancelEvent[t] =>
              ~cancelEvent'[t]]_vars

(***************************************************************************)
(* Fairness.  The threads of a running process are scheduled, the sweeper  *)
(* wakes every 60 seconds, a process that died is started again and an     *)
(* unrenewed deadline passes.  Requests, cancellations, failures and       *)
(* crashes need not happen.                                                *)
(***************************************************************************)
Fairness ==
    /\ \A w \in Workers : WF_vars(up /\ Execute(w))
    /\ WF_vars(up /\ SweepLoad)
    /\ WF_vars(up /\ SweepWrite)
    /\ WF_vars(Startup)
    /\ WF_vars(ExpireSessionLease)
    /\ \A t \in Turns : WF_vars(ExpireTurn(t))
    /\ \A f \in Frames : WF_vars(ExpireRun(f)) /\ WF_vars(ExpireFrame(f))

FairSpec == Spec /\ Fairness

-----------------------------------------------------------------------------
(* Liveness *)

(* Every claimed turn reaches a terminal receipt, also when its worker     *)
(* died, escaped with an exception or was fenced.                          *)
TurnSettles == \A t \in Turns : IsActive(t) ~> IsTerminal(t)

(* Every attempt ends: no frame stays running behind a lost worker. *)
AttemptEnds == \A f \in Frames : IsRunning(f) ~> ~IsRunning(f)

(* A session is always usable again: the lock is free and the lease can be *)
(* taken, infinitely often.                                                *)
SessionFreed == []<>(LockFree /\ LeaseAvailable)
=============================================================================
