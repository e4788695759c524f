----------------------------- MODULE TaskFrames ----------------------------
(***************************************************************************)
(* Task frames and their run attempts (core/task_frame_store.py).  A frame *)
(* is claimed by mark_running with a new attempt number and a new lease    *)
(* owner; every later write of the attempt names status, owner, attempt    *)
(* and an unexpired lease in its WHERE clause.  run[f] is the latest       *)
(* HarnessRunRecord of the frame: AttemptsPaired and OnlySweepRevives of    *)
(* HarnessTurn show how far frame and run can part.                        *)
(*                                                                         *)
(* awaiting_user stands for every resting status the next plan requeues    *)
(* (awaiting_user, blocked, handoff, ready_to_resume).  state_version is   *)
(* left out: the claim compares it with the value read in the same         *)
(* transaction.                                                            *)
(***************************************************************************)
EXTENDS HarnessBase

VARIABLES frame, run

TerminalFrameStatuses == {"completed", "cancelled", "failed"}
FrameStatuses == {"none", "queued", "running", "awaiting_user",
                  "waiting_external_task"} \cup TerminalFrameStatuses
RunStatuses == {"none", "running", "finished", "abandoned"}

(* What an executed frame may report; action_budget and a recoverable      *)
(* protocol failure put the frame back in the queue.                       *)
FrameResults == {"completed", "failed", "awaiting_user",
                 "waiting_external_task", "queued"}

Frame == [status: FrameStatuses, owner: Workers \cup {None}, attempt: Nat,
          live: BOOLEAN, source: Turns \cup {None}]
Run == [status: RunStatuses, owner: Workers \cup {None}, attempt: Nat,
        live: BOOLEAN, source: Turns \cup {None}]

NoFrame == [status |-> "none", owner |-> None, attempt |-> 0,
            live |-> FALSE, source |-> None]
NoRun == NoFrame

FramesTypeOK ==
    /\ frame \in [Frames -> Frame]
    /\ run \in [Frames -> Run]

FramesInit ==
    /\ frame = [f \in Frames |-> NoFrame]
    /\ run = [f \in Frames |-> NoRun]

IsRunning(f) == frame[f].status = "running"
RunActive(f) == run[f].status = "running"
IsTerminalFrame(f) == frame[f].status \in TerminalFrameStatuses

(* A frame, or a run, with its lease columns cleared. *)
Settle(row, status) ==
    [row EXCEPT !.status = status, !.owner = None, !.live = FALSE]

(* persist_plan refuses a plan that names a frame whose attempt still      *)
(* holds an unexpired lease.                                               *)
PlanRefused(plan) == \E f \in plan : IsRunning(f) /\ frame[f].live

(* The frames a plan returns for execution: not the terminal ones. *)
PlannedRecords(plan) == {f \in plan : ~IsTerminalFrame(f)}

(* What a plan does to a frame: a removed one is cancelled, even while it  *)
(* runs (_apply_updates); a planned one is created or requeued under the   *)
(* new source turn, an expired attempt losing it.                          *)
RequeuesTerminal(f) ==              \* a bug: a finished task is run again
    frame[f].status # "waiting_external_task"

Requeues(f) ==
    frame[f].status \notin TerminalFrameStatuses \cup {"waiting_external_task"}

PersistPlan(t, plan, removed) ==
    /\ frame' = [f \in Frames |->
          IF f \in removed THEN Settle(frame[f], "cancelled")
          ELSE IF f \in plan /\ Requeues(f)
          THEN [Settle(frame[f], "queued") EXCEPT !.source = t]
          ELSE frame[f]]
    /\ run' = [f \in Frames |->    \* _abandon_stale_runs
          IF f \in plan /\ IsRunning(f) /\ RunActive(f)
          THEN Settle(run[f], "abandoned")
          ELSE run[f]]

(* complete_active_frame: the user ends a task.  A running frame is        *)
(* fenced by its own lease, its run is left as it is.                      *)
CompleteTaskFenced(f) == IsRunning(f) /\ ~frame[f].live

CompleteTask(f) ==
    /\ frame' = [frame EXCEPT ![f] = Settle(frame[f], "completed")]
    /\ UNCHANGED run

(* mark_running, save_requirement and start_run commit together. *)
StartAttempt(w, f) ==
    /\ frame[f].status = "queued"
    /\ frame' = [frame EXCEPT ![f] =
           [status |-> "running", owner |-> w, attempt |-> frame[f].attempt + 1,
            live |-> TRUE, source |-> frame[f].source]]
    /\ run' = [run EXCEPT ![f] =
           [status |-> "running", owner |-> w, attempt |-> frame[f].attempt + 1,
            live |-> TRUE, source |-> frame[f].source]]

(* The fence of save_requirement, renew_running_lease and finish_frame. *)
OwnsFrame(w, f) ==
    IsRunning(f) /\ frame[f].owner = w /\ frame[f].live

(* The fence of finish_run. *)
OwnsRun(w, f) ==
    /\ RunActive(f)
    /\ run[f].owner = w
    /\ run[f].attempt = frame[f].attempt
    /\ run[f].live

(* finish_run then finish_frame, in one transaction. *)
FinishAttempt(w, f, result) ==
    /\ OwnsRun(w, f)
    /\ OwnsFrame(w, f)
    /\ run' = [run EXCEPT ![f] = Settle(run[f], "finished")]
    /\ frame' = [frame EXCEPT ![f] = Settle(frame[f], result)]

(* cancel_source_turn: every running run and nonterminal frame of a turn.  *)
(* A run or frame that is still running needs an unexpired lease, or       *)
(* TaskFrameClaimConflict aborts the transaction.                          *)
RunsOfTurn(t) == {f \in Frames : RunActive(f) /\ run[f].source = t}
FramesOfTurn(t) ==
    {f \in Frames : /\ frame[f].source = t
                    /\ frame[f].status \notin TerminalFrameStatuses}

CancelSourceTurnFenced(t) ==
    \/ \E f \in RunsOfTurn(t) : ~run[f].live
    \/ \E f \in FramesOfTurn(t) : IsRunning(f) /\ ~frame[f].live

CancelSourceTurn(t) ==
    /\ run' = [f \in Frames |->
          IF f \in RunsOfTurn(t) THEN Settle(run[f], "finished") ELSE run[f]]
    /\ frame' = [f \in Frames |->
          IF f \in FramesOfTurn(t) THEN Settle(frame[f], "cancelled")
                                   ELSE frame[f]]

(* mark_interrupted: the attempt of this worker fails and its frame goes   *)
(* back to the queue, both under their fences.                             *)
InterruptFenced(w, f) ==
    \/ RunActive(f) /\ run[f].owner = w /\ ~run[f].live
    \/ IsRunning(f) /\ frame[f].owner = w /\ ~frame[f].live

InterruptAttempt(w, f) ==
    /\ run' = [run EXCEPT ![f] =
          IF RunActive(f) /\ run[f].owner = w
          THEN Settle(run[f], "finished") ELSE run[f]]
    /\ frame' = [frame EXCEPT ![f] =
          IF IsRunning(f) /\ frame[f].owner = w
          THEN Settle(frame[f], "queued") ELSE frame[f]]

(* What recovery finds: the frames and runs without a valid lease, or, on  *)
(* startup, every one left by the previous process.                        *)
OrphanRuns(startup) ==
    {f \in Frames : RunActive(f) /\ (startup \/ ~run[f].live)}
OrphanFrames(startup) ==
    {f \in Frames : IsRunning(f) /\ (startup \/ ~frame[f].live)}
LiveSession ==
    \E f \in Frames : \/ RunActive(f) /\ run[f].live
                      \/ IsRunning(f) /\ frame[f].live

(* The writes of recovery, by primary key on the rows it loaded: a run row *)
(* belongs to one attempt, a frame row to all of them.                     *)
RecoverRunsOnly(attempts, frames) ==    \* a bug: the frame is not requeued
    /\ run' = [f \in Frames |->
          IF <<f, run[f].attempt>> \in attempts
          THEN Settle(run[f], "abandoned") ELSE run[f]]
    /\ UNCHANGED frame

RecoverFrames(attempts, frames) ==
    /\ run' = [f \in Frames |->
          IF <<f, run[f].attempt>> \in attempts
          THEN Settle(run[f], "abandoned") ELSE run[f]]
    /\ frame' = [f \in Frames |->
          IF f \in frames THEN Settle(frame[f], "queued") ELSE frame[f]]
=============================================================================
