------------------------- MODULE HarnessTurnProofs -------------------------
(***************************************************************************)
(* Theorems about HarnessTurn, for every set of requests, turns and        *)
(* frames, with and without lapsing leases: type correctness, and the      *)
(* receipt guarantees ExecutedOnce, CancelHonoured and CancelExcludesReply *)
(* from the inductive invariant ReceiptInv.                                *)
(***************************************************************************)
EXTENDS HarnessTurn, TLAPS

-----------------------------------------------------------------------------
(* What the operators of SessionLease, TurnReceipts and TaskFrames return, *)
(* stated once and cited by the proofs of the actions.                     *)

(* A released lease is a lease: the worker's own row is gone, another's    *)
(* stays (HarnessSessionLeaseStore.release).                               *)
LEMMA ReleasedLeaseType ==
    ASSUME NEW w \in Workers, SessionLeaseTypeOK
    PROVE  ReleasedLease(w) \in Lease
BY DEF SessionLeaseTypeOK, ReleasedLease, NoLease, Lease

(* A lease just acquired or absent is well formed. *)
LEMMA LeaseConstantsType ==
    /\ NoLease \in Lease
    /\ \A w \in Workers : FreshLease(w) \in Lease
BY DEF NoLease, FreshLease, Lease

(* Renewal returns receipts, of the same owner and status: a renewed lease *)
(* is nothing but a later deadline.                                        *)
LEMMA RenewedReceiptType ==
    ASSUME NEW w \in Workers, NEW t \in Turns, ReceiptTypeOK
    PROVE  /\ RenewedReceipt(w, t) \in [Turns -> Receipt]
           /\ \A u \in Turns :
                /\ RenewedReceipt(w, t)[u].status = receipt[u].status
                /\ RenewedReceipt(w, t)[u].owner = receipt[u].owner
                /\ RenewedReceipt(w, t)[u].digest = receipt[u].digest
BY DEF RenewedReceipt, ReceiptTypeOK, Receipt

(* Settling a receipt changes its status only, as far as owners and        *)
(* digests are concerned.                                                  *)
LEMMA SettledType ==
    ASSUME NEW row \in Receipt, NEW status \in TerminalTurnStatuses
    PROVE  /\ Settled(row, status) \in Receipt
           /\ Settled(row, status).status = status
           /\ Settled(row, status).owner = row.owner
BY DEF Settled, Receipt

(* The cancel endpoint settles a started receipt and leaves every other    *)
(* row alone (_cancel_harness_turn_receipt).                               *)
LEMMA CancelledReceiptType ==
    ASSUME NEW t \in Turns, ReceiptTypeOK
    PROVE  /\ CancelledReceipt(t) \in [Turns -> Receipt]
           /\ \A u \in Turns :
                /\ CancelledReceipt(t)[u].owner = receipt[u].owner
                /\ CancelledReceipt(t)[u].status =
                       IF u = t /\ receipt[t].status = "started"
                       THEN "cancelled" ELSE receipt[u].status
BY SettledType DEF CancelledReceipt, ReceiptTypeOK, TerminalTurnStatuses

(* Recovery fails the receipts it names and keeps their owners.            *)
LEMMA RecoveredReceiptsType ==
    ASSUME NEW turns, ReceiptTypeOK
    PROVE  /\ RecoveredReceipts(turns) \in [Turns -> Receipt]
           /\ \A u \in Turns :
                /\ RecoveredReceipts(turns)[u].owner = receipt[u].owner
                /\ RecoveredReceipts(turns)[u].status =
                       IF u \in turns THEN "failed" ELSE receipt[u].status
BY SettledType DEF RecoveredReceipts, ReceiptTypeOK, TerminalTurnStatuses

(* finish_with_error settles the receipt of its own worker or does nothing *)
LEMMA FinishWithErrorType ==
    ASSUME NEW w \in Workers, NEW t \in Turns,
           NEW status \in {"cancelled", "failed"},
           ReceiptTypeOK, FinishWithError(w, t, status)
    PROVE  /\ ReceiptTypeOK'
           /\ \A u \in Turns :
                /\ receipt'[u].owner = receipt[u].owner
                /\ \/ receipt'[u].status = receipt[u].status
                   \/ u = t /\ receipt'[u].status = status
BY SettledType DEF FinishWithError, ReceiptTypeOK, TerminalTurnStatuses

(* begin_completion and complete need the receipt of their own worker.     *)
LEMMA CompletionType ==
    ASSUME NEW w \in Workers, NEW t \in Turns, ReceiptTypeOK
    PROVE  /\ BeginCompletion(w, t) =>
                /\ ReceiptTypeOK'
                /\ receipt[t].status = "started"
                /\ receipt'[t].status = "finalizing"
                /\ \A u \in Turns : receipt'[u].owner = receipt[u].owner
                /\ \A u \in Turns \ {t} : receipt'[u] = receipt[u]
           /\ Complete(w, t) =>
                /\ ReceiptTypeOK'
                /\ receipt[t].status \in ActiveTurnStatuses
                /\ receipt'[t].status = "completed"
                /\ \A u \in Turns : receipt'[u].owner = receipt[u].owner
                /\ \A u \in Turns \ {t} : receipt'[u] = receipt[u]
<1>1. ASSUME BeginCompletion(w, t)
      PROVE  /\ ReceiptTypeOK'
             /\ receipt[t].status = "started"
             /\ receipt'[t].status = "finalizing"
             /\ \A u \in Turns : receipt'[u].owner = receipt[u].owner
             /\ \A u \in Turns \ {t} : receipt'[u] = receipt[u]
  BY <1>1 DEF BeginCompletion, Fenced, ReceiptTypeOK, Receipt, ActiveTurnStatuses
<1>2. ASSUME Complete(w, t)
      PROVE  /\ ReceiptTypeOK'
             /\ receipt[t].status \in ActiveTurnStatuses
             /\ receipt'[t].status = "completed"
             /\ \A u \in Turns : receipt'[u].owner = receipt[u].owner
             /\ \A u \in Turns \ {t} : receipt'[u] = receipt[u]
  BY <1>2, SettledType DEF Complete, Fenced, ReceiptTypeOK, TerminalTurnStatuses
<1> QED BY <1>1, <1>2

(* claim creates a started receipt owned by the claiming worker.           *)
LEMMA ClaimType ==
    ASSUME NEW w \in Workers, NEW t \in Turns, ReceiptTypeOK, Claim(w, t)
    PROVE  /\ ReceiptTypeOK'
           /\ receipt[t].status = "none"
           /\ receipt'[t].status = "started"
           /\ receipt'[t].owner = w
           /\ \A u \in Turns \ {t} : receipt'[u] = receipt[u]
BY RequestsAssumption DEF Claim, ReceiptTypeOK, Receipt, ActiveTurnStatuses

(* A row with its lease columns cleared, as a frame and as a run.          *)
LEMMA SettleType ==
    /\ \A row \in Frame, status \in FrameStatuses : Settle(row, status) \in Frame
    /\ \A row \in Run, status \in RunStatuses : Settle(row, status) \in Run
BY DEF Settle, Frame, Run

(* A row whose deadline has passed is a row.                               *)
LEMMA ExpiredRowType ==
    /\ \A row \in Receipt : [row EXCEPT !.live = FALSE] \in Receipt
    /\ \A row \in Frame : [row EXCEPT !.live = FALSE] \in Frame
    /\ \A row \in Run : [row EXCEPT !.live = FALSE] \in Run
BY DEF Receipt, Frame, Run

(* persist_plan leaves well-formed frames and runs.                        *)
LEMMA PersistPlanType ==
    ASSUME NEW t \in Turns, NEW plan, NEW removed, FramesTypeOK,
           PersistPlan(t, plan, removed)
    PROVE  FramesTypeOK'
<1>1. \A f \in Frames :
         [Settle(frame[f], "queued") EXCEPT !.source = t] \in Frame
  BY DEF FramesTypeOK, Frame, Settle, FrameStatuses
<1>2. \A f \in Frames : Settle(frame[f], "cancelled") \in Frame
  BY SettleType DEF FramesTypeOK, FrameStatuses, TerminalFrameStatuses
<1>3. \A f \in Frames : Settle(run[f], "abandoned") \in Run
  BY SettleType DEF FramesTypeOK, RunStatuses
<1>4. \A f \in Frames : frame[f] \in Frame /\ run[f] \in Run
  BY DEF FramesTypeOK
<1>5. frame' \in [Frames -> Frame]
  BY <1>1, <1>2, <1>4 DEF PersistPlan
<1>6. run' \in [Frames -> Run]
  BY <1>3, <1>4 DEF PersistPlan
<1> QED BY <1>5, <1>6 DEF FramesTypeOK

(* mark_running and start_run give the frame and its run one attempt.      *)
LEMMA StartAttemptType ==
    ASSUME NEW w \in Workers, NEW f \in Frames, FramesTypeOK,
           StartAttempt(w, f)
    PROVE  FramesTypeOK'
BY DEF StartAttempt, FramesTypeOK, Frame, Run, FrameStatuses, RunStatuses

(* complete_active_frame settles the frame and leaves its run.             *)
LEMMA CompleteTaskType ==
    ASSUME NEW f \in Frames, FramesTypeOK, CompleteTask(f)
    PROVE  FramesTypeOK'
<1>1. Settle(frame[f], "completed") \in Frame
  BY SettleType DEF FramesTypeOK, FrameStatuses, TerminalFrameStatuses
<1> QED BY <1>1 DEF CompleteTask, FramesTypeOK

(* finish_run and finish_frame settle the run and the frame.               *)
LEMMA FinishAttemptType ==
    ASSUME NEW w \in Workers, NEW f \in Frames, NEW result \in FrameResults,
           FramesTypeOK, FinishAttempt(w, f, result)
    PROVE  FramesTypeOK'
<1>1. Settle(frame[f], result) \in Frame
  BY SettleType DEF FramesTypeOK, FrameStatuses, TerminalFrameStatuses,
     FrameResults
<1>2. Settle(run[f], "finished") \in Run
  BY SettleType DEF FramesTypeOK, RunStatuses
<1> QED BY <1>1, <1>2 DEF FinishAttempt, FramesTypeOK

(* cancel_source_turn settles every run and frame of the turn.             *)
LEMMA CancelSourceTurnType ==
    ASSUME NEW t \in Turns, FramesTypeOK, CancelSourceTurn(t)
    PROVE  FramesTypeOK'
<1>1. \A f \in Frames : /\ Settle(frame[f], "cancelled") \in Frame
                        /\ Settle(run[f], "finished") \in Run
  BY SettleType DEF FramesTypeOK, FrameStatuses, TerminalFrameStatuses,
     RunStatuses
<1> QED BY <1>1 DEF CancelSourceTurn, FramesTypeOK

(* mark_interrupted settles the attempt of its worker.                     *)
LEMMA InterruptAttemptType ==
    ASSUME NEW w \in Workers, NEW f \in Frames, FramesTypeOK,
           InterruptAttempt(w, f)
    PROVE  FramesTypeOK'
<1>1. /\ Settle(frame[f], "queued") \in Frame
      /\ Settle(run[f], "finished") \in Run
  BY SettleType DEF FramesTypeOK, FrameStatuses, RunStatuses
<1> QED BY <1>1 DEF InterruptAttempt, FramesTypeOK

(* Recovery settles the rows it loaded.                                    *)
LEMMA RecoverFramesType ==
    ASSUME NEW attempts, NEW frames, FramesTypeOK,
           RecoverFrames(attempts, frames)
    PROVE  FramesTypeOK'
<1>1. \A f \in Frames : /\ Settle(frame[f], "queued") \in Frame
                        /\ Settle(run[f], "abandoned") \in Run
  BY SettleType DEF FramesTypeOK, FrameStatuses, RunStatuses
<1> QED BY <1>1 DEF RecoverFrames, FramesTypeOK

(* What the sweeper loads are rows of the tables.                          *)
LEMMA OrphansType ==
    ASSUME NEW startup \in BOOLEAN, FramesTypeOK
    PROVE  /\ Orphans(startup) \in Snapshot
           /\ Orphans(startup).turns = OrphanTurns(startup)
<1>1. OrphanTurns(startup) \subseteq Turns
  BY DEF OrphanTurns
<1>2. \A f \in Frames : run[f].attempt \in Nat
  BY DEF FramesTypeOK, Run
<1>3. {<<f, run[f].attempt>> : f \in OrphanRuns(startup)}
         \in SUBSET (Frames \X Nat)
  BY <1>2 DEF OrphanRuns
<1>4. {f \in OrphanFrames(startup) \cup OrphanRuns(startup) : IsRunning(f)}
         \in SUBSET Frames
  BY DEF OrphanRuns, OrphanFrames
<1> QED BY <1>1, <1>3, <1>4 DEF Orphans, Snapshot

-----------------------------------------------------------------------------
(* The actions. *)

(* Where the steps of the worker are, for the proofs of every action.      *)
USE DEF Steps, EntrySteps, RunSteps, AbortSteps, ReplySteps, MessageKinds,
        coordVars, chatVars

(* The actions of a worker keep the types: the entry and the run.          *)
LEMMA RunActionsType ==
    ASSUME TypeOK, NEW w \in Workers,
           \/ Arrive(w) \/ AcquireSession(w) \/ ClaimTurn(w) \/ BindMessage(w)
           \/ Announce(w) \/ CheckPoint(w) \/ PlanTurn(w) \/ PlanCompletion(w)
           \/ StartFrame(w) \/ SkipFrame(w) \/ FinishFrame(w)
           \/ PrepareReply(w) \/ ReserveReply(w) \/ PublishReply(w)
           \/ CompleteTurn(w) \/ Fail(w)
    PROVE  TypeOK'
<1> DEFINE t == TurnOf[w]
<1> USE DEF TypeOK, Goto, Show
<1>t. t \in Turns
  BY RequestsAssumption
<1>1. CASE Arrive(w)
  BY <1>1 DEF Arrive, SessionLeaseTypeOK, ReceiptTypeOK, FramesTypeOK
<1>2. CASE AcquireSession(w)
  BY <1>2, LeaseConstantsType DEF AcquireSession, AcquireLease,
     SessionLeaseTypeOK, ReceiptTypeOK, FramesTypeOK
<1>3. CASE ClaimTurn(w)
  <2>1. ReceiptTypeOK'
    BY <1>3, <1>t, ClaimType DEF ClaimTurn, ReceiptTypeOK
  <2> QED BY <1>3, <1>t, <2>1 DEF ClaimTurn, SessionLeaseTypeOK, FramesTypeOK
<1>4. CASE BindMessage(w)
  BY <1>4 DEF BindMessage, BindUserMessage, SessionLeaseTypeOK, ReceiptTypeOK,
     FramesTypeOK
<1>5. CASE Announce(w)
  BY <1>5 DEF Announce, SessionLeaseTypeOK, ReceiptTypeOK, FramesTypeOK
<1>6. CASE CheckPoint(w)
  BY <1>6 DEF CheckPoint, SessionLeaseTypeOK, ReceiptTypeOK, FramesTypeOK
<1>7. CASE PlanTurn(w)
  <2>1. ReceiptTypeOK'
    BY <1>7, <1>t, RenewedReceiptType DEF PlanTurn, RenewLeases, ReceiptTypeOK
  <2>2. PICK removed, plan \in SUBSET Frames :
           IF PlanRefused(plan)
           THEN /\ Goto(w, "interrupt")
                /\ UNCHANGED <<frame, run, todo>>
           ELSE /\ PersistPlan(TurnOf[w], plan, removed)
                /\ todo' = [todo EXCEPT ![w] = PlannedRecords(plan)]
                /\ Goto(w, "frame")
    BY <1>7 DEF PlanTurn
  <2>3. FramesTypeOK' /\ todo' \in [Workers -> SUBSET Frames]
              /\ pc' \in [Workers -> Steps]
    BY <2>2, <1>t, PersistPlanType DEF PlannedRecords, FramesTypeOK
  <2> QED BY <1>7, <2>1, <2>3 DEF PlanTurn, SessionLeaseTypeOK
<1>8. CASE PlanCompletion(w)
  <2>1. ReceiptTypeOK'
    BY <1>8, <1>t, RenewedReceiptType DEF PlanCompletion, RenewLeases,
       ReceiptTypeOK
  <2>2. FramesTypeOK' /\ pc' \in [Workers -> Steps]
    BY <1>8, CompleteTaskType DEF PlanCompletion, FramesTypeOK
  <2> QED BY <1>8, <2>1, <2>2 DEF PlanCompletion, SessionLeaseTypeOK
<1>9. CASE StartFrame(w)
  <2>1. ReceiptTypeOK'
    BY <1>9, <1>t, RenewedReceiptType DEF StartFrame, RenewLeases, ReceiptTypeOK
  <2>2. PICK f \in Frames : /\ StartAttempt(w, f)
                            /\ cur' = [cur EXCEPT ![w] = f]
    BY <1>9 DEF StartFrame
  <2>3. FramesTypeOK'
    BY <2>2, StartAttemptType
  <2> QED BY <1>9, <2>1, <2>2, <2>3, NoneAssumption DEF StartFrame, SessionLeaseTypeOK
<1>10. CASE SkipFrame(w)
  <2>1. ReceiptTypeOK'
    BY <1>10, <1>t, RenewedReceiptType DEF SkipFrame, RenewLeases, ReceiptTypeOK
  <2>2. \A f \in Frames : Settle(frame[f], "failed") \in Frame
    BY SettleType DEF FramesTypeOK, FrameStatuses, TerminalFrameStatuses
  <2>3. FramesTypeOK' /\ todo' \in [Workers -> SUBSET Frames]
    BY <1>10, <2>2 DEF SkipFrame, FramesTypeOK
  <2> QED BY <1>10, <2>1, <2>3 DEF SkipFrame, SessionLeaseTypeOK
<1>11. CASE FinishFrame(w)
  <2>1. cur[w] \in Frames
    BY <1>11 DEF FinishFrame
  <2>2. FramesTypeOK'
    BY <1>11, <2>1, FinishAttemptType DEF FinishFrame
  <2> QED BY <1>11, <2>2 DEF FinishFrame, SessionLeaseTypeOK, ReceiptTypeOK
<1>12. CASE PrepareReply(w)
  <2>1. ReceiptTypeOK'
    BY <1>12, <1>t, RenewedReceiptType DEF PrepareReply, RenewLeases,
       ReceiptTypeOK
  <2> QED BY <1>12, <2>1 DEF PrepareReply, SessionLeaseTypeOK, FramesTypeOK
<1>13. CASE ReserveReply(w)
  <2>1. ReceiptTypeOK'
    BY <1>13, <1>t, CompletionType DEF ReserveReply, ReceiptTypeOK
  <2> QED BY <1>13, <2>1 DEF ReserveReply, SessionLeaseTypeOK, FramesTypeOK
<1>14. CASE PublishReply(w)
  BY <1>14 DEF PublishReply, SessionLeaseTypeOK, ReceiptTypeOK, FramesTypeOK
<1>15. CASE CompleteTurn(w)
  <2>1. ReceiptTypeOK'
    BY <1>15, <1>t, CompletionType DEF CompleteTurn, ReceiptTypeOK
  <2> QED BY <1>15, <2>1 DEF CompleteTurn, SessionLeaseTypeOK, FramesTypeOK
<1>16. CASE Fail(w)
  BY <1>16 DEF Fail, SessionLeaseTypeOK, ReceiptTypeOK, FramesTypeOK
<1> QED BY <1>1, <1>2, <1>3, <1>4, <1>5, <1>6, <1>7, <1>8, <1>9, <1>10, <1>11,
           <1>12, <1>13, <1>14, <1>15, <1>16

(* The actions of a worker keep the types: the ways out and the shortcut.  *)
LEMMA ExitActionsType ==
    ASSUME TypeOK, NEW w \in Workers,
           \/ MarkCancelled(w) \/ MarkCancelledReceipt(w) \/ CancelReply(w)
           \/ MarkInterrupted(w) \/ MarkInterruptedReceipt(w) \/ Close(w)
           \/ ErrorReply(w) \/ InterruptedReply(w)
           \/ ArriveDraft(w) \/ DraftClaim(w) \/ DraftBind(w)
           \/ DraftComplete(w) \/ DraftFail(w)
    PROVE  TypeOK'
<1> DEFINE t == TurnOf[w]
<1> USE DEF TypeOK, Goto, Show, ShowIfNone
<1>t. t \in Turns
  BY RequestsAssumption
<1>1. CASE MarkCancelled(w)
  <2>1. FramesTypeOK'
    BY <1>1, <1>t, CancelSourceTurnType
    DEF MarkCancelled, Escape, FramesTypeOK
  <2> QED BY <1>1, <2>1
          DEF MarkCancelled, Escape, SessionLeaseTypeOK, ReceiptTypeOK
<1>2. CASE MarkCancelledReceipt(w)
  <2>1. ReceiptTypeOK'
    BY <1>2, <1>t, FinishWithErrorType DEF MarkCancelledReceipt
  <2> QED BY <1>2, <2>1 DEF MarkCancelledReceipt, SessionLeaseTypeOK,
          FramesTypeOK
<1>3. CASE CancelReply(w)
  BY <1>3, <1>t DEF CancelReply, SessionLeaseTypeOK, ReceiptTypeOK, FramesTypeOK
<1>4. CASE MarkInterrupted(w)
  <2>1. FramesTypeOK'
    BY <1>4, InterruptAttemptType DEF MarkInterrupted, Escape, FramesTypeOK
  <2> QED BY <1>4, <2>1
          DEF MarkInterrupted, Escape, SessionLeaseTypeOK, ReceiptTypeOK
<1>5. CASE MarkInterruptedReceipt(w)
  <2>1. ReceiptTypeOK'
    BY <1>5, <1>t, FinishWithErrorType DEF MarkInterruptedReceipt
  <2> QED BY <1>5, <2>1 DEF MarkInterruptedReceipt, SessionLeaseTypeOK,
          FramesTypeOK
<1>6. CASE Close(w)
  <2>1. SessionLeaseTypeOK'
    BY <1>6, ReleasedLeaseType DEF Close, SessionLeaseTypeOK
  <2> QED BY <1>6, <2>1 DEF Close, ReceiptTypeOK, FramesTypeOK
<1>7. CASE ErrorReply(w)
  BY <1>7, <1>t DEF ErrorReply, SessionLeaseTypeOK, ReceiptTypeOK, FramesTypeOK
<1>8. CASE InterruptedReply(w)
  BY <1>8, <1>t DEF InterruptedReply, SessionLeaseTypeOK, ReceiptTypeOK,
     FramesTypeOK
<1>9. CASE ArriveDraft(w)
  BY <1>9 DEF ArriveDraft, SessionLeaseTypeOK, ReceiptTypeOK, FramesTypeOK
<1>10. CASE DraftClaim(w)
  <2>1. ReceiptTypeOK'
    BY <1>10, <1>t, ClaimType DEF DraftClaim, ReceiptTypeOK
  <2> QED BY <1>10, <1>t, <2>1 DEF DraftClaim, SessionLeaseTypeOK, FramesTypeOK
<1>11. CASE DraftBind(w)
  BY <1>11 DEF DraftBind, BindUserMessage, SessionLeaseTypeOK, ReceiptTypeOK,
     FramesTypeOK
<1>12. CASE DraftComplete(w)
  <2>1. ReceiptTypeOK'
    BY <1>12, <1>t, CompletionType DEF DraftComplete, ReceiptTypeOK
  <2>2. /\ messages' \in [Turns -> SUBSET MessageKinds]
        /\ announced' \in [Turns -> BOOLEAN]
        /\ pc' \in [Workers -> Steps]
        /\ \A v \in Workers : pc'[v] = "exec" => pc[v] = "exec"
    <3>1. CASE Complete(w, TurnOf[w])
      <4>1. Fenced(w, TurnOf[w], ActiveTurnStatuses)
        BY <3>1 DEF Complete
      <4>2. /\ messages' = [messages EXCEPT ![t] = @ \cup {"reply"}]
            /\ announced' = [announced EXCEPT ![t] = TRUE]
            /\ pc' = [pc EXCEPT ![w] = "done"]
        BY <1>12, <4>1 DEF DraftComplete
      <4>3. /\ messages \in [Turns -> SUBSET MessageKinds]
            /\ announced \in [Turns -> BOOLEAN]
            /\ pc \in [Workers -> Steps]
        OBVIOUS
      <4> HIDE DEF t
      <4> QED BY ONLY <4>2, <4>3, <1>t, w \in Workers
    <3>2. CASE ~Fenced(w, TurnOf[w], ActiveTurnStatuses)
      <4>1. ~Complete(w, TurnOf[w])
        BY <3>2 DEF Complete
      <4> QED BY <1>12, <4>1 DEF DraftComplete
    <3> QED BY <1>12, <3>1, <3>2 DEF DraftComplete
  <2>3. SessionLeaseTypeOK' /\ FramesTypeOK'
    BY <1>12 DEF DraftComplete, SessionLeaseTypeOK, FramesTypeOK
  <2>4. UNCHANGED <<after, todo, cur, executed, cancelEvent, marker, session,
                    pending, sweep, up>>
    BY <1>12 DEF DraftComplete
  <2>5. TypeOK
    OBVIOUS
  <2> HIDE DEF t
  <2> QED BY ONLY <2>1, <2>2, <2>3, <2>4, <2>5 DEF TypeOK
<1>13. CASE DraftFail(w)
  BY <1>13 DEF DraftFail, SessionLeaseTypeOK, ReceiptTypeOK, FramesTypeOK
<1> QED BY <1>1, <1>2, <1>3, <1>4, <1>5, <1>6, <1>7, <1>8, <1>9, <1>10, <1>11,
           <1>12, <1>13

(* Recovery writes rows of the declared types.                             *)
LEMMA RecoverType ==
    ASSUME TypeOK, NEW snapshot \in Snapshot, Recover(snapshot)
    PROVE  /\ UNCHANGED lock => SessionLeaseTypeOK'
           /\ ReceiptTypeOK'
           /\ FramesTypeOK'
           /\ messages' \in [Turns -> SUBSET MessageKinds]
           /\ session' \in {"active", "running"}
<1>1. FramesTypeOK'
  BY RecoverFramesType DEF TypeOK, Recover
<1>2. ReceiptTypeOK'
  BY RecoveredReceiptsType DEF TypeOK, Recover, ReceiptTypeOK
<1>3. messages' \in [Turns -> SUBSET MessageKinds]
  BY DEF TypeOK, Recover, RecoveryReply
<1> QED BY <1>1, <1>2, <1>3, LeaseConstantsType
        DEF TypeOK, Recover, SessionLeaseTypeOK

(* The cancel endpoint, recovery, the crash and the clock keep the types.  *)
LEMMA EnvironmentActionsType ==
    ASSUME TypeOK,
           \/ \E t \in Turns : CancelLooks(t) \/ CancelUnclaimed(t)
           \/ \E t \in Turns : Cancel(t) \/ ExpireTurn(t)
           \/ \E f \in Frames : ExpireRun(f) \/ ExpireFrame(f)
           \/ SweepLoad \/ SweepWrite \/ Crash \/ Startup
           \/ ExpireSessionLease
    PROVE  TypeOK'
<1>1. CASE \E t \in Turns : Cancel(t)
  <2>1. PICK t \in Turns : Cancel(t)
    BY <1>1
  <2>2. ReceiptTypeOK'
    BY <2>1, CancelledReceiptType DEF Cancel, TypeOK, ReceiptTypeOK
  <2>3. messages' \in [Turns -> SUBSET MessageKinds]
    BY <2>1 DEF Cancel, CancelMessage, TypeOK
  <2> QED BY <2>1, <2>2, <2>3 DEF Cancel, CancelFirst, CancelAgain, TypeOK,
          SessionLeaseTypeOK, FramesTypeOK
<1>0. CASE \E t \in Turns : CancelLooks(t) \/ CancelUnclaimed(t)
  BY <1>0, ZenonT(30)
     DEF CancelLooks, CancelUnclaimed, TypeOK, SessionLeaseTypeOK,
     ReceiptTypeOK, FramesTypeOK
<1>2. CASE \E t \in Turns : ExpireTurn(t)
  <2>1. \A t \in Turns : [receipt[t] EXCEPT !.live = FALSE] \in Receipt
    BY ExpiredRowType DEF TypeOK, ReceiptTypeOK
  <2>2. ReceiptTypeOK'
    BY <1>2, <2>1 DEF ExpireTurn, TypeOK, ReceiptTypeOK
  <2> QED BY <1>2, <2>2 DEF ExpireTurn, TypeOK, SessionLeaseTypeOK, FramesTypeOK
<1>3. CASE \E f \in Frames : ExpireRun(f)
  <2>1. \A f \in Frames : [run[f] EXCEPT !.live = FALSE] \in Run
    BY ExpiredRowType DEF TypeOK, FramesTypeOK
  <2>2. FramesTypeOK'
    BY <1>3, <2>1 DEF ExpireRun, TypeOK, FramesTypeOK
  <2> QED BY <1>3, <2>2 DEF ExpireRun, TypeOK, SessionLeaseTypeOK,
          ReceiptTypeOK
<1>4. CASE \E f \in Frames : ExpireFrame(f)
  <2>1. \A f \in Frames : [frame[f] EXCEPT !.live = FALSE] \in Frame
    BY ExpiredRowType DEF TypeOK, FramesTypeOK
  <2>2. FramesTypeOK'
    BY <1>4, <2>1 DEF ExpireFrame, TypeOK, FramesTypeOK
  <2> QED BY <1>4, <2>2 DEF ExpireFrame, TypeOK, SessionLeaseTypeOK,
          ReceiptTypeOK
<1>5. CASE SweepLoad
  BY <1>5, OrphansType DEF SweepLoad, TypeOK, SessionLeaseTypeOK,
     ReceiptTypeOK, FramesTypeOK
<1>6. CASE SweepWrite
  <2>1. Idle \in Snapshot
    BY DEF Idle, Snapshot
  <2> QED BY <1>6, <2>1, RecoverType DEF SweepWrite, TypeOK
<1>7. CASE Crash
  <2>1. Idle \in Snapshot
    BY DEF Idle, Snapshot
  <2> QED BY <1>7, <2>1 DEF Crash, TypeOK, SessionLeaseTypeOK, ReceiptTypeOK,
          FramesTypeOK
<1>8. CASE Startup
  <2>1. CASE Orphans(TRUE) = Idle
    BY <1>8, <2>1 DEF Startup, TypeOK, SessionLeaseTypeOK, ReceiptTypeOK,
       FramesTypeOK
  <2>2. CASE Orphans(TRUE) # Idle
    <3>1. Orphans(TRUE) \in Snapshot
      BY OrphansType DEF TypeOK
    <3> QED BY <1>8, <2>2, <3>1, RecoverType DEF Startup, TypeOK
  <2> QED BY <2>1, <2>2
<1>9. CASE ExpireSessionLease
  BY <1>9 DEF ExpireSessionLease, TypeOK, SessionLeaseTypeOK, Lease,
     ReceiptTypeOK, FramesTypeOK
<1> QED BY <1>0, <1>1, <1>2, <1>3, <1>4, <1>5, <1>6, <1>7, <1>8, <1>9

(* A next step is one of the actions of the three lemmas.                  *)
LEMMA NextCases ==
    ASSUME Next
    PROVE  \/ \E w \in Workers :
                \/ Arrive(w) \/ AcquireSession(w) \/ ClaimTurn(w)
                \/ BindMessage(w) \/ Announce(w) \/ CheckPoint(w) \/ PlanTurn(w)
                \/ PlanCompletion(w) \/ StartFrame(w) \/ SkipFrame(w)
                \/ FinishFrame(w) \/ PrepareReply(w) \/ ReserveReply(w)
                \/ PublishReply(w) \/ CompleteTurn(w) \/ Fail(w)
           \/ \E w \in Workers :
                \/ MarkCancelled(w) \/ MarkCancelledReceipt(w) \/ CancelReply(w)
                \/ MarkInterrupted(w) \/ MarkInterruptedReceipt(w) \/ Close(w)
                \/ ErrorReply(w) \/ InterruptedReply(w)
                \/ ArriveDraft(w) \/ DraftClaim(w) \/ DraftBind(w)
                \/ DraftComplete(w) \/ DraftFail(w)
           \/ \E t \in Turns : CancelLooks(t) \/ CancelUnclaimed(t)
           \/ \E t \in Turns : Cancel(t) \/ ExpireTurn(t)
           \/ \E f \in Frames : ExpireRun(f) \/ ExpireFrame(f)
           \/ SweepLoad \/ SweepWrite \/ Crash \/ Startup
           \/ ExpireSessionLease
BY DEF Next, Serve, Execute, Expire

(* Every reachable state has the declared types.                           *)
THEOREM TypeCorrect == Spec => []TypeOK
<1>1. Init => TypeOK
  BY DEF Init, TypeOK, SessionLeaseInit, SessionLeaseTypeOK, ReceiptInit,
     ReceiptTypeOK, Receipt, NoReceipt, FramesInit, FramesTypeOK, Frame, Run,
     NoFrame, NoRun, FrameStatuses, RunStatuses, Lease, NoLease, Idle, Snapshot
<1>2. TypeOK /\ [Next]_vars => TypeOK'
  <2> SUFFICES ASSUME TypeOK, [Next]_vars
               PROVE  TypeOK'
    OBVIOUS
  <2>1. CASE Next
    BY <2>1, NextCases, RunActionsType, ExitActionsType, EnvironmentActionsType
  <2>2. CASE UNCHANGED vars
    BY <2>2 DEF vars, TypeOK, SessionLeaseTypeOK, ReceiptTypeOK, FramesTypeOK
  <2> QED BY <2>1, <2>2
<1> QED BY <1>1, <1>2, PTL DEF Spec

-----------------------------------------------------------------------------

(* A worker's step that leaves receipts, events and messages alone: only   *)
(* where it goes matters to the invariant.                                 *)
LEMMA QuietActionsInv ==
    ASSUME TypeOK, ReceiptInv, NEW w \in Workers,
           \/ Arrive(w)
           \/ AcquireSession(w)
           \/ BindMessage(w)
           \/ CheckPoint(w)
           \/ Fail(w)
           \/ MarkCancelled(w)
           \/ MarkInterrupted(w)
           \/ Close(w)
           \/ ErrorReply(w)
           \/ InterruptedReply(w)
           \/ ArriveDraft(w)
           \/ DraftBind(w)
           \/ DraftFail(w)
    PROVE  ReceiptInv'
<1> USE RequestsAssumption
    DEF TypeOK, ReceiptInv, OwnersExecute, CancelLeavesItsEvent,
        NothingBeforeClaim, CompletionExcludesCancel, CancelExcludesReply,
        Goto, Show
<1>1. CASE Arrive(w)
  BY <1>1 DEF Arrive
<1>2. CASE AcquireSession(w)
  BY <1>2 DEF AcquireSession, AcquireLease
<1>3. CASE BindMessage(w)
  BY <1>3 DEF BindMessage, BindUserMessage
<1>4. CASE CheckPoint(w)
  BY <1>4 DEF CheckPoint, IsCancelled
<1>5. CASE Fail(w)
  BY <1>5 DEF Fail
<1>6. CASE MarkCancelled(w)
  BY <1>6 DEF MarkCancelled, Escape
<1>7. CASE MarkInterrupted(w)
  BY <1>7 DEF MarkInterrupted, Escape
<1>8. CASE Close(w)
  BY <1>8 DEF Close
<1>9. CASE ErrorReply(w)
  BY <1>9 DEF ErrorReply
<1>10. CASE InterruptedReply(w)
  <2>1. OwnersExecute'
    BY <1>10 DEF InterruptedReply
  <2>2. CancelLeavesItsEvent'
    BY <1>10 DEF InterruptedReply
  <2>3. NothingBeforeClaim'
    BY <1>10 DEF InterruptedReply
  <2>4. CompletionExcludesCancel'
    BY <1>10 DEF InterruptedReply
  <2>5. ~MayStall => CancelExcludesReply'
    BY <1>10 DEF InterruptedReply
  <2> QED BY <2>1, <2>2, <2>3, <2>4, <2>5
<1>11. CASE ArriveDraft(w)
  BY <1>11 DEF ArriveDraft
<1>12. CASE DraftBind(w)
  BY <1>12 DEF DraftBind, BindUserMessage
<1>13. CASE DraftFail(w)
  BY <1>13 DEF DraftFail
<1> QED BY <1>1, <1>2, <1>3, <1>4, <1>5, <1>6, <1>7, <1>8, <1>9, <1>10, <1>11, <1>12, <1>13

(* A renewal changes no status and no owner; PrepareReply is the last look *)
(* at the cancellation.                                                    *)
LEMMA RenewingActionsInv ==
    ASSUME TypeOK, ReceiptInv, NEW w \in Workers,
           \/ PlanTurn(w) \/ PlanCompletion(w) \/ StartFrame(w) \/ SkipFrame(w) \/ PrepareReply(w)
    PROVE  ReceiptInv'
<1> USE RequestsAssumption
    DEF ReceiptInv, OwnersExecute, CancelLeavesItsEvent,
        NothingBeforeClaim, CompletionExcludesCancel, CancelExcludesReply,
        Goto, Show
<1>t. /\ ReceiptTypeOK
      /\ TurnOf[w] \in Turns
      /\ pc \in [Workers -> Steps]
      /\ executed \in [Turns -> SUBSET Workers]
      /\ announced \in [Turns -> BOOLEAN]
      /\ messages \in [Turns -> SUBSET MessageKinds]
      /\ cancelEvent \in [Turns -> BOOLEAN]
  BY DEF TypeOK
<1>r. \A u \in Turns :
         /\ receipt'[u].status = receipt[u].status
         /\ receipt'[u].owner = receipt[u].owner
  BY <1>t, RenewedReceiptType DEF PlanTurn, PlanCompletion, StartFrame, SkipFrame,
     PrepareReply, RenewLeases
<1>1. CASE PlanTurn(w)
  BY <1>1, <1>r, <1>t, SMTT(30) DEF PlanTurn, InTime
<1>2. CASE PlanCompletion(w)
  <2>p. /\ pc' \in {[pc EXCEPT ![w] = "interrupt"], [pc EXCEPT ![w] = "frame"]}
        /\ pc[w] = "plan"
        /\ UNCHANGED <<executed, chatVars, sweep>>
    BY <1>2 DEF PlanCompletion
  <2>1. OwnersExecute'
    BY <1>2, <1>r, <2>p, <1>t DEF PlanCompletion, InTime, chatVars
  <2>2. CancelLeavesItsEvent'
    BY <1>2, <1>r, <2>p, <1>t DEF PlanCompletion, InTime, chatVars
  <2>3. NothingBeforeClaim'
    BY <1>2, <1>r, <2>p, <1>t DEF PlanCompletion, InTime, chatVars
  <2>4. CompletionExcludesCancel'
    BY <1>2, <1>r, <2>p, <1>t DEF PlanCompletion, InTime, chatVars
  <2>5. ~MayStall => CancelExcludesReply'
    BY <1>2, <1>r, <2>p, <1>t DEF PlanCompletion, InTime, chatVars
  <2> QED BY <2>1, <2>2, <2>3, <2>4, <2>5
<1>3. CASE StartFrame(w)
  <2>p. /\ pc' = [pc EXCEPT ![w] = "exec"]
        /\ pc[w] = "frame"
        /\ UNCHANGED <<executed, chatVars, sweep>>
    BY <1>3 DEF StartFrame
  <2>1. OwnersExecute'
    BY <2>p, <1>r, <1>t DEF chatVars
  <2>2. CancelLeavesItsEvent'
    BY <2>p, <1>r, <1>t DEF chatVars
  <2>3. NothingBeforeClaim'
    BY <2>p, <1>r, <1>t DEF chatVars
  <2>4. CompletionExcludesCancel'
    BY <2>p, <1>r, <1>t DEF chatVars
  <2>5. ~MayStall => CancelExcludesReply'
    BY <2>p, <1>r, <1>t DEF chatVars
  <2> QED BY <2>1, <2>2, <2>3, <2>4, <2>5
<1>4. CASE SkipFrame(w)
  BY <1>4, <1>r, <1>t DEF SkipFrame
<1>5. CASE PrepareReply(w)
  <2>1. OwnersExecute'
    BY <1>5, <1>r, <1>t DEF PrepareReply, IsCancelled, IsTerminal,
       TerminalTurnStatuses
  <2>2. CancelLeavesItsEvent'
    BY <1>5, <1>r, <1>t DEF PrepareReply, IsCancelled, IsTerminal,
       TerminalTurnStatuses
  <2>3. NothingBeforeClaim'
    BY <1>5, <1>r, <1>t DEF PrepareReply, IsCancelled, IsTerminal,
       TerminalTurnStatuses
  <2>4. CompletionExcludesCancel'
    BY <1>5, <1>r, <1>t DEF PrepareReply, IsCancelled, IsTerminal,
       TerminalTurnStatuses
  <2>5. ~MayStall => CancelExcludesReply'
    BY <1>5, <1>r, <1>t DEF PrepareReply, IsCancelled, IsTerminal,
       TerminalTurnStatuses
  <2> QED BY <2>1, <2>2, <2>3, <2>4, <2>5
<1> QED BY <1>1, <1>2, <1>3, <1>4, <1>5

(* A turn has at most one executing worker, and none before its claim.     *)
LEMMA SoleExecutor ==
    ASSUME ReceiptInv, NEW w \in Workers
    PROVE  \A v \in Workers :
              /\ TurnOf[v] = TurnOf[w]
              /\ pc[v] \in RunSteps \cup AbortSteps
              => /\ receipt[TurnOf[w]].status # "none"
                 /\ pc[w] \in RunSteps \cup AbortSteps => v = w
BY RequestsAssumption, NoneAssumption DEF ReceiptInv, OwnersExecute

(* A granted claim, of either kind.                                        *)
LEMMA GrantedClaimInv ==
    ASSUME TypeOK, ReceiptInv, NEW w \in Workers,
           NEW step \in {"bind", "draftBind"},
           Claim(w, TurnOf[w]),
           executed' = [executed EXCEPT ![TurnOf[w]] = @ \cup {w}],
           Goto(w, step),
           UNCHANGED <<announced, messages, cancelEvent, marker, pending, sweep>>
    PROVE  ReceiptInv'
<1> USE RequestsAssumption
    DEF ReceiptInv, OwnersExecute, CancelLeavesItsEvent,
        NothingBeforeClaim, CompletionExcludesCancel, CancelExcludesReply,
        Goto, Show
<1>t. /\ ReceiptTypeOK
      /\ TurnOf[w] \in Turns
      /\ pc \in [Workers -> Steps]
      /\ executed \in [Turns -> SUBSET Workers]
      /\ announced \in [Turns -> BOOLEAN]
      /\ messages \in [Turns -> SUBSET MessageKinds]
      /\ cancelEvent \in [Turns -> BOOLEAN]
  BY DEF TypeOK
<1>r. /\ receipt[TurnOf[w]].status = "none"
      /\ receipt'[TurnOf[w]].status = "started"
      /\ receipt'[TurnOf[w]].owner = w
      /\ \A u \in Turns \ {TurnOf[w]} : receipt'[u] = receipt[u]
  BY <1>t, ClaimType
<1>s. \A v \in Workers : pc[v] \in RunSteps \cup AbortSteps =>
                            TurnOf[v] # TurnOf[w]
  BY <1>r, SoleExecutor
<1>e. executed[TurnOf[w]] = {} /\ ~announced[TurnOf[w]]
  BY <1>r, <1>t, NoneAssumption
<1>1. OwnersExecute'
  <2>1. \A t \in Turns :
           /\ receipt'[t].status = "none" <=> receipt'[t].owner = None
           /\ \A v \in executed'[t] : receipt'[t].owner = v
    BY <1>t, <1>r, <1>e, NoneAssumption
  <2>2. \A v \in Workers \ {w} :
           /\ pc'[v] \in RunSteps \cup AbortSteps =>
                  receipt'[TurnOf[v]].owner = v
           /\ pc'[v] \in {"draftBind", "draftComplete"} =>
                  ~announced'[TurnOf[v]]
    <3>1. \A v \in Workers \ {w} : pc'[v] = pc[v]
      BY <1>t
    <3> QED BY <1>r, <1>s, <3>1
  <2>3. receipt'[TurnOf[w]].owner = w /\ ~announced'[TurnOf[w]]
    BY <1>r, <1>e
  <2> QED BY <2>1, <2>2, <2>3
<1>2. CancelLeavesItsEvent'
  BY <1>t, <1>r
<1>3. NothingBeforeClaim'
  BY <1>t, <1>r, <1>e
<1>4. CompletionExcludesCancel'
  <2>1. \A v \in Workers :
           pc'[v] \in {"frame", "exec", "begin", "finalize", "complete"} =>
           pc'[v] = pc[v] /\ receipt'[TurnOf[v]] = receipt[TurnOf[v]]
    BY <1>t, <1>r, <1>s
  <2> QED BY <1>t, <2>1
<1>5. ~MayStall => CancelExcludesReply'
  OBVIOUS
<1> QED BY <1>1, <1>2, <1>3, <1>4, <1>5

(* The actions that write a receipt, an event or a message of the turn.    *)
LEMMA ReceiptActionsInv ==
    ASSUME TypeOK, ReceiptInv, NEW w \in Workers,
           \/ ClaimTurn(w)
           \/ DraftClaim(w)
           \/ Announce(w)
           \/ FinishFrame(w)
           \/ ReserveReply(w)
           \/ PublishReply(w)
           \/ CompleteTurn(w)
           \/ MarkCancelledReceipt(w)
           \/ CancelReply(w)
           \/ MarkInterruptedReceipt(w)
           \/ DraftComplete(w)
    PROVE  ReceiptInv'
<1> USE RequestsAssumption
    DEF ReceiptInv, OwnersExecute, CancelLeavesItsEvent,
        NothingBeforeClaim, CompletionExcludesCancel, CancelExcludesReply,
        Goto, Show
<1>t. /\ ReceiptTypeOK
      /\ TurnOf[w] \in Turns
      /\ pc \in [Workers -> Steps]
      /\ executed \in [Turns -> SUBSET Workers]
      /\ announced \in [Turns -> BOOLEAN]
      /\ messages \in [Turns -> SUBSET MessageKinds]
      /\ cancelEvent \in [Turns -> BOOLEAN]
  BY DEF TypeOK
<1>1. CASE ClaimTurn(w)
  <2>1. CASE Claim(w, TurnOf[w])
    BY <1>1, <2>1, ClaimType, GrantedClaimInv DEF ClaimTurn, Claim
  <2>2. CASE receipt[TurnOf[w]].status # "none"
    BY <1>1, <2>2, <1>t DEF ClaimTurn, Claim
  <2> QED BY <1>1, <2>1, <2>2 DEF ClaimTurn
<1>2. CASE DraftClaim(w)
  <2>1. CASE Claim(w, TurnOf[w])
    BY <1>2, <2>1, ClaimType, GrantedClaimInv DEF DraftClaim, Claim
  <2>2. CASE receipt[TurnOf[w]].status # "none"
    BY <1>2, <2>2, <1>t DEF DraftClaim, Claim
  <2> QED BY <1>2, <2>1, <2>2 DEF DraftClaim
<1>3. CASE Announce(w)
  <2>1. OwnersExecute'
    BY <1>3, <1>t DEF Announce
  <2>2. CancelLeavesItsEvent'
    BY <1>3, <1>t DEF Announce
  <2>s. receipt[TurnOf[w]].status # "none"
    BY <1>3, <1>t, SoleExecutor DEF Announce
  <2>3. NothingBeforeClaim'
    BY <1>3, <2>s, <1>t DEF Announce
  <2>4. CompletionExcludesCancel'
    BY <1>3, <1>t DEF Announce
  <2>5. ~MayStall => CancelExcludesReply'
    BY <1>3, <1>t DEF Announce
  <2> QED BY <2>1, <2>2, <2>3, <2>4, <2>5
<1>4. CASE FinishFrame(w)
  BY <1>4, <1>t DEF FinishFrame
<1>5. CASE ReserveReply(w)
  <2>r. \/ /\ receipt[TurnOf[w]].status = "started"
           /\ receipt'[TurnOf[w]].status = "finalizing"
           /\ \A u \in Turns : receipt'[u].owner = receipt[u].owner
           /\ \A u \in Turns \ {TurnOf[w]} : receipt'[u] = receipt[u]
           /\ pc' = [pc EXCEPT ![w] = "finalize"]
        \/ receipt' = receipt /\ pc' = [pc EXCEPT ![w] = "close"]
    BY <1>5, <1>t, CompletionType DEF ReserveReply
  <2>1. OwnersExecute'
    BY <1>5, <2>r, <1>t DEF ReserveReply
  <2>2. CancelLeavesItsEvent'
    BY <1>5, <2>r, <1>t DEF ReserveReply
  <2>3. NothingBeforeClaim'
    BY <1>5, <2>r, <1>t DEF ReserveReply
  <2>4. CompletionExcludesCancel'
    BY <1>5, <2>r, <1>t DEF ReserveReply
  <2>5. ~MayStall => CancelExcludesReply'
    BY <1>5, <2>r, <1>t DEF ReserveReply
  <2> QED BY <2>1, <2>2, <2>3, <2>4, <2>5
<1>6. CASE PublishReply(w)
  BY <1>6, <1>t DEF PublishReply
<1>7. CASE CompleteTurn(w)
  BY <1>7, <1>t, CompletionType, SMTT(30) DEF CompleteTurn, ActiveTurnStatuses
<1>8. CASE MarkCancelledReceipt(w)
  <2>r. \A u \in Turns :
           /\ receipt'[u].owner = receipt[u].owner
           /\ \/ receipt'[u].status = receipt[u].status
              \/ u = TurnOf[w] /\ receipt'[u].status = "cancelled"
    BY <1>8, <1>t, FinishWithErrorType DEF MarkCancelledReceipt
  <2>1. OwnersExecute'
    BY <1>8, <2>r, <1>t DEF MarkCancelledReceipt
  <2>2. CancelLeavesItsEvent'
    BY <1>8, <2>r, <1>t DEF MarkCancelledReceipt
  <2>3. NothingBeforeClaim'
    BY <1>8, <2>r, <1>t DEF MarkCancelledReceipt
  <2>4. CompletionExcludesCancel'
    BY <1>8, <2>r, <1>t DEF MarkCancelledReceipt
  <2>5. ~MayStall => CancelExcludesReply'
    BY <1>8, <2>r, <1>t DEF MarkCancelledReceipt
  <2> QED BY <2>1, <2>2, <2>3, <2>4, <2>5
<1>9. CASE CancelReply(w)
  BY <1>9, <1>t DEF CancelReply, ShowIfNone
<1>10. CASE MarkInterruptedReceipt(w)
  <2>r. \A u \in Turns :
           /\ receipt'[u].owner = receipt[u].owner
           /\ \/ receipt'[u].status = receipt[u].status
              \/ u = TurnOf[w] /\ receipt'[u].status = "failed"
    BY <1>10, <1>t, FinishWithErrorType DEF MarkInterruptedReceipt
  <2>s. receipt[TurnOf[w]].status # "none"
    BY <1>10, <1>t, SoleExecutor DEF MarkInterruptedReceipt
  <2>1. OwnersExecute'
    BY <1>10, <2>r, <2>s, <1>t, SMTT(30) DEF MarkInterruptedReceipt
  <2>2. CancelLeavesItsEvent'
    BY <1>10, <2>r, <1>t DEF MarkInterruptedReceipt
  <2>3. NothingBeforeClaim'
    BY <1>10, <2>r, <1>t DEF MarkInterruptedReceipt
  <2>4. CompletionExcludesCancel'
    BY <1>10, <2>r, <1>t DEF MarkInterruptedReceipt
  <2>5. ~MayStall => CancelExcludesReply'
    BY <1>10, <2>r, <1>t DEF MarkInterruptedReceipt
  <2> QED BY <2>1, <2>2, <2>3, <2>4, <2>5
<1>11. CASE DraftComplete(w)
  <2>r. \/ /\ receipt'[TurnOf[w]].status = "completed"
           /\ \A u \in Turns : receipt'[u].owner = receipt[u].owner
           /\ \A u \in Turns \ {TurnOf[w]} : receipt'[u] = receipt[u]
           /\ messages' = [messages EXCEPT ![TurnOf[w]] = @ \cup {"reply"}]
           /\ announced' = [announced EXCEPT ![TurnOf[w]] = TRUE]
           /\ pc' = [pc EXCEPT ![w] = "done"]
        \/ /\ UNCHANGED <<receipt, messages, announced>>
           /\ pc' = [pc EXCEPT ![w] = "interruptedReply"]
    BY <1>11, <1>t, CompletionType DEF DraftComplete
  <2>s. /\ pc[w] = "draftComplete"
        /\ executed' = executed
        /\ \A v \in Workers \ {w} : pc'[v] = pc[v]
        /\ pc'[w] \in {"done", "interruptedReply"}
        /\ \A v \in Workers \ {w} :
              pc[v] \in RunSteps => TurnOf[v] # TurnOf[w]
        /\ \A u \in Turns \ {TurnOf[w]} : announced'[u] = announced[u]
        /\ \A u \in Turns : receipt'[u].owner = receipt[u].owner
        /\ \A u \in Turns : receipt'[u].status = "none" <=>
                              receipt[u].status = "none"
    BY <1>11, <2>r, <1>t, SoleExecutor DEF DraftComplete
  <2>1. OwnersExecute'
    BY <2>s, <1>t
  <2>2. CancelLeavesItsEvent'
    BY <1>11, <2>r, <1>t DEF DraftComplete
  <2>3. NothingBeforeClaim'
    BY <1>11, <2>r, <1>t DEF DraftComplete
  <2>4. CompletionExcludesCancel'
    BY <1>11, <2>r, <1>t DEF DraftComplete
  <2>5. ~MayStall => CancelExcludesReply'
    BY <1>11, <2>r, <1>t DEF DraftComplete
  <2> QED BY <2>1, <2>2, <2>3, <2>4, <2>5
<1> QED BY <1>1, <1>2, <1>3, <1>4, <1>5, <1>6, <1>7, <1>8, <1>9, <1>10, <1>11

(* Recovery, from a snapshot of claimed turns.                             *)
LEMMA RecoverInv ==
    ASSUME TypeOK, ReceiptInv, NEW snapshot \in Snapshot,
           \A t \in snapshot.turns : receipt[t].status # "none",
           Recover(snapshot),
           \A w \in Workers : pc'[w] = pc[w],
           UNCHANGED <<executed, announced, cancelEvent, marker, pending>>,
           sweep' = sweep \/ sweep' = Idle
    PROVE  ReceiptInv'
<1> USE RequestsAssumption
    DEF ReceiptInv, OwnersExecute, CancelLeavesItsEvent,
        NothingBeforeClaim, CompletionExcludesCancel, CancelExcludesReply
<1>r. \A u \in Turns :
         /\ receipt'[u].owner = receipt[u].owner
         /\ receipt'[u].status = IF u \in snapshot.turns
                                  THEN "failed" ELSE receipt[u].status
  BY RecoveredReceiptsType DEF Recover, TypeOK
<1>m. \A u \in Turns : \/ messages'[u] = messages[u]
                       \/ messages'[u] = {"recovered"}
  BY DEF Recover, RecoveryReply
<1>1. OwnersExecute'
  BY <1>r
<1>2. CancelLeavesItsEvent'
  BY <1>r, <1>m
<1>3. NothingBeforeClaim'
  <2>1. \A t \in sweep'.turns : t \in sweep.turns
    BY DEF Idle
  <2> QED BY <1>r, <1>m, <2>1
<1>4. CompletionExcludesCancel'
  BY <1>r
<1>5. ~MayStall => CancelExcludesReply'
  BY <1>m
<1> QED BY <1>1, <1>2, <1>3, <1>4, <1>5

(* The cancel endpoint against a worker at any step.                       *)
LEMMA CancelInv ==
    ASSUME TypeOK, ReceiptInv, NEW t \in Turns, Cancel(t)
    PROVE  ReceiptInv'
<1> USE RequestsAssumption
    DEF ReceiptInv, OwnersExecute, CancelLeavesItsEvent,
        NothingBeforeClaim, CompletionExcludesCancel, CancelExcludesReply
<1>t. /\ messages \in [Turns -> SUBSET MessageKinds]
      /\ cancelEvent \in [Turns -> BOOLEAN]
      /\ marker \in SUBSET Turns
  BY DEF TypeOK
<1>r. \A u \in Turns :
         /\ receipt'[u].owner = receipt[u].owner
         /\ receipt'[u].status = IF u = t /\ receipt[t].status = "started"
                                  THEN "cancelled" ELSE receipt[u].status
  BY CancelledReceiptType DEF Cancel, TypeOK
<1>c. /\ cancelEvent'[t]
      /\ \A u \in Turns \ {t} : cancelEvent'[u] = cancelEvent[u]
      /\ marker' \subseteq marker \cup {t}
  BY <1>t DEF Cancel, CancelFirst, CancelAgain
<1>m. \A u \in Turns :
         \/ messages'[u] = messages[u]
         \/ u = t /\ announced[t] /\ messages'[u] = {"cancelled"}
  BY <1>t DEF Cancel, CancelMessage
<1>u. UNCHANGED <<pc, executed, announced, pending, sweep>>
  BY DEF Cancel
<1>1. OwnersExecute'
  BY <1>r, <1>u
<1>2. CancelLeavesItsEvent'
  BY <1>r, <1>c, <1>m, <1>u
<1>3. NothingBeforeClaim'
  BY <1>r, <1>m, <1>u
<1>4. CompletionExcludesCancel'
  <2>1. ASSUME ~MayStall, NEW w \in Workers, pc[w] \in {"finalize", "complete"}
        PROVE  TurnOf[w] # t \/ UNCHANGED cancelEvent
    BY <2>1 DEF Cancel, CancelFirst, CancelAgain
  <2> QED BY <2>1, <1>r, <1>c, <1>u
<1>5. ~MayStall => CancelExcludesReply'
  BY <1>m
<1> QED BY <1>1, <1>2, <1>3, <1>4, <1>5

(* A cancel request that has found no receipt: of a turn nobody executes,  *)
(* or, when it may stall, of one that has been claimed since.              *)
LEMMA CancelPendingInv ==
    ASSUME TypeOK, ReceiptInv, NEW t \in Turns,
           CancelLooks(t) \/ CancelUnclaimed(t)
    PROVE  ReceiptInv'
<1> USE RequestsAssumption
    DEF ReceiptInv, OwnersExecute, CancelLeavesItsEvent,
        NothingBeforeClaim, CompletionExcludesCancel, CancelExcludesReply
<1>t. /\ cancelEvent \in [Turns -> BOOLEAN]
      /\ pending \in SUBSET Turns
  BY DEF TypeOK
<1>1. CASE CancelLooks(t)
  <2>1. UNCHANGED <<receipt, pc, executed, announced, messages, cancelEvent,
                    marker, sweep>>
    BY <1>1 DEF CancelLooks
  <2>2. /\ receipt[t].status = "none"
        /\ pending' = pending \cup {t}
    BY <1>1 DEF CancelLooks
  <2>3. \A w \in Workers : pc[w] \in RunSteps => TurnOf[w] # t
    BY <2>2, SoleExecutor
  <2> QED BY <2>1, <2>2, <2>3
<1>2. CASE CancelUnclaimed(t)
  <2>1. UNCHANGED <<receipt, pc, executed, announced, messages, sweep>>
    BY <1>2 DEF CancelUnclaimed
  <2>2. /\ t \in pending
        /\ pending' = pending \ {t}
        /\ cancelEvent' = [cancelEvent EXCEPT ![t] = TRUE]
        /\ marker' = marker \cup {t}
    BY <1>2 DEF CancelUnclaimed
  <2> QED BY <2>1, <2>2, <1>t
<1> QED BY <1>1, <1>2

(* Recovery, the crash and the clock.                                      *)
LEMMA EnvironmentActionsInv ==
    ASSUME TypeOK, ReceiptInv,
           \/ \E t \in Turns : ExpireTurn(t)
           \/ \E f \in Frames : ExpireRun(f) \/ ExpireFrame(f)
           \/ SweepLoad \/ SweepWrite \/ Crash \/ Startup
           \/ ExpireSessionLease
    PROVE  ReceiptInv'
<1> USE RequestsAssumption
    DEF ReceiptInv, OwnersExecute, CancelLeavesItsEvent,
        NothingBeforeClaim, CompletionExcludesCancel, CancelExcludesReply
<1>1. CASE \E t \in Turns : ExpireTurn(t)
  <2>1. \A u \in Turns : /\ receipt'[u].owner = receipt[u].owner
                         /\ receipt'[u].status = receipt[u].status
    BY <1>1 DEF ExpireTurn, TypeOK, ReceiptTypeOK, Receipt
  <2>2. UNCHANGED <<pc, executed, announced, messages, cancelEvent, marker,
                    pending, sweep>>
    BY <1>1 DEF ExpireTurn
  <2> QED BY <2>1, <2>2
<1>2. CASE \E f \in Frames : ExpireRun(f) \/ ExpireFrame(f)
  BY <1>2, SMTT(30) DEF ExpireRun, ExpireFrame
<1>3. CASE SweepLoad
  <2>1. \A t \in sweep'.turns : IsActive(t)
    BY <1>3, OrphansType DEF SweepLoad, OrphanTurns, TypeOK
  <2>2. UNCHANGED <<receipt, pc, executed, announced, messages, cancelEvent,
                    marker, pending>>
    BY <1>3 DEF SweepLoad
  <2>3. \A t \in sweep'.turns : receipt[t].status # "none"
    BY <2>1 DEF IsActive, ActiveTurnStatuses
  <2> QED BY <2>2, <2>3
<1>4. CASE SweepWrite
  <2>1. \A t \in sweep.turns : receipt[t].status # "none"
    BY DEF TypeOK, Snapshot
  <2> QED BY <1>4, <2>1, RecoverInv DEF SweepWrite, TypeOK
<1>5. CASE Crash
  <2>1. \A w \in Workers : pc'[w] \in {"idle", "done"}
    BY <1>5 DEF Crash
  <2>2. sweep'.turns = {} /\ marker' = {}
    BY <1>5 DEF Crash, Idle
  <2>3. UNCHANGED <<receipt, executed, announced, messages, cancelEvent>>
    BY <1>5 DEF Crash
  <2> QED BY <2>1, <2>2, <2>3
<1>6. CASE Startup
  <2>1. CASE Orphans(TRUE) = Idle
    BY <1>6, <2>1 DEF Startup
  <2>2. CASE Orphans(TRUE) # Idle
    <3>1. /\ Orphans(TRUE) \in Snapshot
          /\ \A t \in Orphans(TRUE).turns : receipt[t].status # "none"
      BY OrphansType DEF TypeOK, OrphanTurns, IsActive, ActiveTurnStatuses
    <3>2. sweep' = sweep
      BY <1>6 DEF Startup
    <3> QED BY <1>6, <2>2, <3>1, <3>2, RecoverInv DEF Startup
  <2> QED BY <2>1, <2>2
<1>7. CASE ExpireSessionLease
  BY <1>7 DEF ExpireSessionLease
<1> QED BY <1>1, <1>2, <1>3, <1>4, <1>5, <1>6, <1>7

(* ReceiptInv holds in every reachable state.                              *)
THEOREM ReceiptInvariant == Spec => []ReceiptInv
<1>1. Init => ReceiptInv
  BY NoneAssumption
     DEF Init, ReceiptInit, NoReceipt, Idle, ReceiptInv, OwnersExecute,
         CancelLeavesItsEvent, NothingBeforeClaim, CompletionExcludesCancel,
         CancelExcludesReply
<1>2. TypeOK /\ ReceiptInv /\ [Next]_vars => ReceiptInv'
  <2> SUFFICES ASSUME TypeOK, ReceiptInv, [Next]_vars
               PROVE  ReceiptInv'
    OBVIOUS
  <2>1. CASE Next
    BY <2>1, QuietActionsInv, RenewingActionsInv, ReceiptActionsInv, CancelInv,
       CancelPendingInv, EnvironmentActionsInv DEF Next, Serve, Execute, Expire
  <2>2. CASE UNCHANGED vars
    BY <2>2 DEF vars, ReceiptInv, OwnersExecute, CancelLeavesItsEvent,
       NothingBeforeClaim, CompletionExcludesCancel, CancelExcludesReply
  <2> QED BY <2>1, <2>2
<1> QED BY <1>1, <1>2, TypeCorrect, PTL DEF Spec

(* claim() lets at most one request execute a client_turn_id.              *)
THEOREM ClaimedOnce == Spec => []ExecutedOnce
<1>1. ReceiptInv => ExecutedOnce
  BY DEF ReceiptInv, OwnersExecute, ExecutedOnce
<1> QED BY <1>1, ReceiptInvariant, PTL

(* The cancel endpoint and begin_completion never both win, unless a       *)
(* cancel request stalls while a turn is claimed and planned.              *)
THEOREM CancellationHonoured ==
    ASSUME ~MayStall
    PROVE  Spec => []CancelHonoured
<1>1. ReceiptInv => CancelHonoured
  BY DEF ReceiptInv, CompletionExcludesCancel, CancelHonoured
<1> QED BY <1>1, ReceiptInvariant, PTL

(* No turn shows both its reply and the message that it was cancelled,     *)
(* under the same condition.                                               *)
THEOREM ReplyExcludesCancellation ==
    ASSUME ~MayStall
    PROVE  Spec => []CancelExcludesReply
<1>1. ReceiptInv => CancelExcludesReply
  BY DEF ReceiptInv
<1> QED BY <1>1, ReceiptInvariant, PTL
=============================================================================
