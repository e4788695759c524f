------------------------ MODULE TurnRefinementProofs ------------------------
(***************************************************************************)
(* HarnessTurn implements the contract of a client_turn_id, whatever       *)
(* lapses, crashes or is recovered, for every set of requests, turns and   *)
(* frames: every step of the detailed specification is, turn by turn, one  *)
(* of the steps of TurnContract.  Then what holds only while no lease      *)
(* expires under a live executor, up to the full contract.                 *)
(***************************************************************************)
EXTENDS HarnessTurnProofs, TurnRefinement, FiniteSetTheorems

USE DEF Steps, EntrySteps, RunSteps, AbortSteps, ReplySteps, MessageKinds,
        coordVars, chatVars

-----------------------------------------------------------------------------
(* The steps of the contract, in terms of receipts and messages.           *)

SameReceipt(t) ==
    /\ receipt'[t].status = receipt[t].status
    /\ receipt'[t].owner = receipt[t].owner

SameTurn(t) == SameReceipt(t) /\ messages'[t] = messages[t]

SettlesAs(t, from, to) ==
    /\ receipt[t].status \in from
    /\ receipt'[t].status = to
    /\ receipt'[t].owner = receipt[t].owner

AllowedStep(t) ==
    \/ SameTurn(t)
    \/ /\ receipt[t].status = "none"
       /\ receipt'[t].status = "started"
       /\ receipt'[t].owner \in Workers
       /\ messages'[t] = messages[t]
    \/ /\ SettlesAs(t, {"started"}, "finalizing")
       /\ messages'[t] = messages[t]
    \/ /\ receipt[t].status \in {"finalizing", "failed"}
       /\ SameReceipt(t)
       /\ "cancelled" \notin messages[t]
       /\ messages'[t] = messages[t] \cup {"reply"}
    \/ /\ SettlesAs(t, {"started", "finalizing"}, "completed")
       /\ "cancelled" \notin messages[t]
       /\ messages'[t] = messages[t] \cup {"reply"}
       /\ receipt[t].status = "finalizing" => "reply" \in messages[t]
    \/ /\ SettlesAs(t, {"started"}, "cancelled")
       /\ \/ messages'[t] = messages[t]
          \/ messages[t] = {} /\ messages'[t] = {"cancelled"}
    \/ /\ receipt[t].status \in {"cancelled", "failed"}
       /\ SameReceipt(t)
       /\ messages[t] = {} /\ messages'[t] = {"cancelled"}
    \/ /\ SettlesAs(t, {"started", "finalizing", "completed", "cancelled",
                        "failed"}, "failed")
       /\ \/ messages'[t] = messages[t]
          \/ messages[t] = {} /\ messages'[t] = {"recovered"}
    \/ /\ receipt[t].status # "none"
       /\ SameReceipt(t)
       /\ \/ messages'[t] = messages[t] \cup {"error"}
          \/ messages'[t] = messages[t] \cup {"interrupted"}

(* What the worker's step says of its receipt and its reply.               *)
Follows(w) ==
    /\ pc[w] = "complete" => "reply" \in messages[TurnOf[w]]
    /\ pc[w] \in {"bind", "announce", "plan", "frame", "exec", "begin",
                  "draftBind", "draftComplete", "cancelling",
                  "cancelReceipt"} =>
           receipt[TurnOf[w]].status \notin {"finalizing", "completed"}
    /\ pc[w] \in {"finalize", "complete", "interrupt", "interruptReceipt"} =>
           receipt[TurnOf[w]].status # "completed"
    /\ pc[w] = "cancelReply" =>
           receipt[TurnOf[w]].status \in {"cancelled", "failed"}
    /\ pc[w] \in ReplySteps \/ after[w] \in ReplySteps =>
           receipt[TurnOf[w]].status # "none"

CompletedReplied ==
    \A t \in Turns : receipt[t].status = "completed" => "reply" \in messages[t]

(* PublishInv, worker by worker, before a step and after it.               *)
LEMMA PublishInvParts ==
    PublishInv <=> /\ CompletedReplied
                   /\ \A w \in Workers : Follows(w)
                   /\ ReservedExcludesCancel
BY DEF PublishInv, CompletedShowsReply, ReceiptFollowsWorker, CompletedReplied,
       Follows

(* The same after a step. *)
LEMMA PublishInvNext ==
    ASSUME CompletedReplied', \A w \in Workers : Follows(w)',
           ReservedExcludesCancel'
    PROVE  PublishInv'
BY DEF PublishInv, CompletedShowsReply, ReceiptFollowsWorker, CompletedReplied,
       Follows

(* The phase of a receipt is a phase of the contract, and the messages are *)
(* of its kinds.                                                           *)
LEMMA BarTypesNext ==
    ASSUME TypeOK'
    PROVE  /\ phaseBar' \in [Turns -> LossyContract!Phases]
           /\ executorBar' \in [Turns -> Workers \cup {None}]
           /\ shownBar' \in [Turns -> SUBSET LossyContract!Kinds]
<1>1. \A t \in Turns :
         /\ receipt'[t].status \in {"none", "started", "finalizing",
                                   "completed", "failed", "cancelled"}
         /\ receipt'[t].owner \in Workers \cup {None}
  BY DEF TypeOK, ReceiptTypeOK, Receipt, ActiveTurnStatuses,
         TerminalTurnStatuses
<1>2. phaseBar' \in [Turns -> LossyContract!Phases]
  BY <1>1 DEF phaseBar, PhaseOf, LossyContract!Phases
<1>3. executorBar' \in [Turns -> Workers \cup {None}]
  BY <1>1 DEF executorBar
<1>4. shownBar' \in [Turns -> SUBSET LossyContract!Kinds]
  BY DEF shownBar, KindsOf, LossyContract!Kinds
<1> QED BY <1>2, <1>3, <1>4

(* Messages are shown under the kinds of the contract.                     *)
LEMMA KindsGrow ==
    ASSUME NEW kinds \in SUBSET MessageKinds
    PROVE  /\ KindsOf(kinds \cup {"reply"}) = KindsOf(kinds) \cup {"reply"}
           /\ \A k \in {"error", "recovered", "interrupted"} :
                KindsOf(kinds \cup {k}) = KindsOf(kinds) \cup {"failure"}
           /\ KindsOf({}) = {}
           /\ KindsOf({"cancelled"}) = {"cancelled"}
           /\ KindsOf({"recovered"}) = {"failure"}
           /\ "cancelled" \in KindsOf(kinds) <=> "cancelled" \in kinds
           /\ "reply" \in KindsOf(kinds) <=> "reply" \in kinds
BY DEF KindsOf

(* A step that is allowed for a turn is a step of the contract for it.     *)
LEMMA AllowedIsContract ==
    ASSUME TypeOK, NEW t \in Turns, AllowedStep(t)
    PROVE  LossyContract!Step(t)
<1> DEFINE old == messages[t]
           new == messages'[t]
<1>1. /\ phaseBar[t] = PhaseOf(receipt[t].status)
      /\ phaseBar'[t] = PhaseOf(receipt'[t].status)
      /\ executorBar[t] = receipt[t].owner
      /\ executorBar'[t] = receipt'[t].owner
      /\ shownBar[t] = KindsOf(old)
      /\ shownBar'[t] = KindsOf(new)
  BY DEF phaseBar, executorBar, shownBar
<1>2. old \in SUBSET MessageKinds
  BY DEF TypeOK
<1>3. /\ KindsOf(old \cup {"reply"}) = KindsOf(old) \cup {"reply"}
      /\ KindsOf(old \cup {"error"}) = KindsOf(old) \cup {"failure"}
      /\ KindsOf(old \cup {"interrupted"}) = KindsOf(old) \cup {"failure"}
      /\ KindsOf({}) = {}
      /\ KindsOf({"cancelled"}) = {"cancelled"}
      /\ KindsOf({"recovered"}) = {"failure"}
      /\ "cancelled" \in KindsOf(old) <=> "cancelled" \in old
      /\ "reply" \in KindsOf(old) <=> "reply" \in old
  BY <1>2, KindsGrow
<1>4. /\ PhaseOf("none") = "unclaimed"
      /\ PhaseOf("started") = "executing"
      /\ PhaseOf("finalizing") = "publishing"
      /\ PhaseOf("completed") = "completed"
      /\ PhaseOf("cancelled") = "cancelled"
      /\ PhaseOf("failed") = "failed"
  BY DEF PhaseOf
<1>e. /\ KindsOf(old) \cup {} = KindsOf(old)
      /\ {} \cup {"cancelled"} = {"cancelled"}
      /\ {} \cup {"failure"} = {"failure"}
  OBVIOUS
<1>5. CASE SameTurn(t)
  BY <1>1, <1>e, <1>5 DEF SameTurn, SameReceipt, LossyContract!Step,
     LossyContract!Stays, LossyContract!Shows
<1>6. CASE /\ receipt[t].status = "none"
           /\ receipt'[t].status = "started"
           /\ receipt'[t].owner \in Workers
           /\ new = old
  BY <1>1, <1>4, <1>e, <1>6 DEF LossyContract!Step, LossyContract!Grant,
     LossyContract!Shows
<1>7. CASE /\ SettlesAs(t, {"started"}, "finalizing")
           /\ new = old
  BY <1>1, <1>4, <1>e, <1>7 DEF SettlesAs, LossyContract!Step,
     LossyContract!Reserve, LossyContract!Moves, LossyContract!Shows
<1>8. CASE /\ receipt[t].status \in {"finalizing", "failed"}
           /\ SameReceipt(t)
           /\ "cancelled" \notin old
           /\ new = old \cup {"reply"}
  BY <1>1, <1>3, <1>4, <1>e, <1>8, ZenonT(30) DEF SameReceipt, LossyContract!Step,
     LossyContract!Reply, LossyContract!Stays, LossyContract!Shows
<1>9. CASE /\ SettlesAs(t, {"started", "finalizing"}, "completed")
           /\ "cancelled" \notin old
           /\ new = old \cup {"reply"}
           /\ receipt[t].status = "finalizing" => "reply" \in old
  BY <1>1, <1>3, <1>4, <1>e, <1>9, ZenonT(30) DEF SettlesAs, LossyContract!Step,
     LossyContract!Complete, LossyContract!Moves, LossyContract!Shows
<1>10. CASE /\ SettlesAs(t, {"started"}, "cancelled")
            /\ \/ new = old
               \/ old = {} /\ new = {"cancelled"}
  <2>1. LossyContract!Moves(t, {"executing"}, "cancelled")
    BY <1>1, <1>4, <1>10 DEF SettlesAs, LossyContract!Moves
  <2>2. \/ shownBar'[t] = shownBar[t] \cup {}
        \/ shownBar[t] = {} /\ shownBar'[t] = shownBar[t] \cup {"cancelled"}
    <3>1. CASE new = old
      BY <1>1, <1>e, <3>1
    <3>2. CASE old = {} /\ new = {"cancelled"}
      BY <1>1, <1>3, <1>e, <3>2
    <3> QED BY <1>10, <3>1, <3>2
  <2> QED BY <2>1, <2>2 DEF LossyContract!Step, LossyContract!Cancel,
     LossyContract!Shows
<1>11. CASE /\ receipt[t].status \in {"cancelled", "failed"}
            /\ SameReceipt(t)
            /\ old = {} /\ new = {"cancelled"}
  BY <1>1, <1>3, <1>4, <1>e, <1>11 DEF SameReceipt, LossyContract!Step,
     LossyContract!TellCancelled, LossyContract!Stays, LossyContract!Shows
<1>12. CASE /\ SettlesAs(t, {"started", "finalizing", "completed",
                             "cancelled", "failed"}, "failed")
            /\ \/ new = old
               \/ old = {} /\ new = {"recovered"}
  <2>1. LossyContract!Moves(t, {"executing", "publishing", "cancelled"}
                              \cup {"completed", "failed"}, "failed")
    BY <1>1, <1>4, <1>12 DEF SettlesAs, LossyContract!Moves
  <2>2. \/ shownBar'[t] = shownBar[t] \cup {}
        \/ shownBar[t] = {} /\ shownBar'[t] = shownBar[t] \cup {"failure"}
    <3>1. CASE new = old
      BY <1>1, <1>e, <3>1
    <3>2. CASE old = {} /\ new = {"recovered"}
      BY <1>1, <1>3, <1>e, <3>2
    <3> QED BY <1>12, <3>1, <3>2
  <2> QED BY <2>1, <2>2 DEF LossyContract!Step, LossyContract!Fail,
     LossyContract!Shows
<1>13. CASE /\ receipt[t].status # "none"
            /\ SameReceipt(t)
            /\ \/ new = old \cup {"error"}
               \/ new = old \cup {"interrupted"}
  <2>1. receipt[t].status \in {"started", "finalizing", "completed",
                               "failed", "cancelled"}
    BY <1>13 DEF TypeOK, ReceiptTypeOK, Receipt, ActiveTurnStatuses,
       TerminalTurnStatuses
  <2>2. phaseBar[t] # "unclaimed"
    BY <1>1, <1>4, <2>1
  <2> QED BY <1>1, <1>3, <1>13, <2>2 DEF SameReceipt, LossyContract!Step,
     LossyContract!TellFailure, LossyContract!Stays, LossyContract!Shows
<1> QED BY <1>5, <1>6, <1>7, <1>8, <1>9, <1>10, <1>11, <1>12, <1>13
        DEF AllowedStep

(* A worker that is not at the step sees its own receipt untouched: a turn *)
(* has one executing worker, and receipts and messages do not vanish.      *)
LEMMA OthersFollow ==
    ASSUME TypeOK, ReceiptInv, PublishInv, NEW w \in Workers,
           NEW v \in Workers, v # w,
           pc'[v] = pc[v], after'[v] = after[v],
           \/ pc[w] \in RunSteps \cup AbortSteps
           \/ receipt[TurnOf[w]].status = "none",
           receipt[TurnOf[w]].status # "none" =>
               receipt'[TurnOf[w]].status # "none",
           \A t \in Turns \ {TurnOf[w]} : SameTurn(t)
    PROVE  Follows(v)'
<1>1. Follows(v)
  BY PublishInvParts
<1>2. CASE TurnOf[v] = TurnOf[w]
  <2>1. pc[v] \notin RunSteps \cup AbortSteps
    BY <1>2, SoleExecutor
  <2>2. pc[v] \in ReplySteps \/ after[v] \in ReplySteps =>
            receipt'[TurnOf[v]].status # "none"
    BY <1>1, <1>2 DEF Follows
  <2> QED BY <2>1, <2>2 DEF Follows
<1>3. CASE TurnOf[v] # TurnOf[w]
  BY <1>1, <1>3, RequestsAssumption DEF Follows, SameTurn, SameReceipt
<1> QED BY <1>2, <1>3

(* A step that leaves receipts, messages and cancellations alone: what is  *)
(* left to show is that the worker's next step fits its receipt.           *)
LEMMA QuietStep ==
    ASSUME TypeOK, ReceiptInv, PublishInv, NEW w \in Workers,
           \A t \in Turns : SameTurn(t),
           UNCHANGED <<cancelEvent, pending>>,
           \A v \in Workers \ {w} : pc'[v] = pc[v] /\ after'[v] = after[v],
           Follows(w)'
    PROVE  PublishInv' /\ \A t \in Turns : AllowedStep(t)
<1>1. \A t \in Turns : AllowedStep(t)
  BY DEF AllowedStep
<1>2. \A v \in Workers : Follows(v)'
  <2>1. ASSUME NEW v \in Workers, v # w
        PROVE  Follows(v)'
    <3>1. pc'[v] = pc[v] /\ after'[v] = after[v]
      BY <2>1
    <3>2. SameTurn(TurnOf[v])
      BY RequestsAssumption
    <3>3. Follows(v)
      BY PublishInvParts
    <3> QED BY <3>1, <3>2, <3>3 DEF Follows, SameTurn, SameReceipt
  <2> QED BY <2>1
<1>3. CompletedReplied'
  BY PublishInvParts DEF CompletedReplied, SameTurn, SameReceipt
<1>4. ReservedExcludesCancel'
  BY PublishInvParts DEF ReservedExcludesCancel, SameTurn, SameReceipt
<1> QED BY <1>1, <1>2, <1>3, <1>4, PublishInvNext

(* The steps of a worker before its claim, and those that renew a lease,   *)
(* run a frame or take a way out.                                          *)
LEMMA QuietActionsFollow ==
    ASSUME TypeOK, ReceiptInv, PublishInv, NEW w \in Workers,
           \/ Arrive(w) \/ AcquireSession(w) \/ BindMessage(w) \/ Announce(w)
           \/ CheckPoint(w) \/ PlanTurn(w) \/ PlanCompletion(w)
           \/ StartFrame(w) \/ SkipFrame(w) \/ FinishFrame(w)
           \/ PrepareReply(w) \/ Fail(w) \/ MarkCancelled(w)
           \/ MarkInterrupted(w) \/ Close(w) \/ ArriveDraft(w) \/ DraftBind(w)
           \/ DraftFail(w)
    PROVE  PublishInv' /\ \A t \in Turns : AllowedStep(t)
<1>t. /\ TurnOf[w] \in Turns
      /\ pc \in [Workers -> Steps]
      /\ after \in [Workers -> {"done"} \cup ReplySteps]
      /\ ReceiptTypeOK
  BY RequestsAssumption DEF TypeOK
<1>f. Follows(w)
  BY PublishInvParts
<1>o. pc[w] \in RunSteps \cup AbortSteps => receipt[TurnOf[w]].status # "none"
  BY SoleExecutor
<1>1. \A t \in Turns : SameTurn(t)
  <2>1. CASE \/ PlanTurn(w) \/ PlanCompletion(w) \/ StartFrame(w)
             \/ SkipFrame(w) \/ PrepareReply(w)
    <3>1. receipt' = RenewedReceipt(w, TurnOf[w]) /\ messages' = messages
      BY <2>1 DEF PlanTurn, PlanCompletion, StartFrame, SkipFrame,
         PrepareReply, RenewLeases
    <3> QED BY <3>1, <1>t, RenewedReceiptType DEF SameTurn, SameReceipt
  <2>2. CASE \/ Arrive(w) \/ AcquireSession(w) \/ BindMessage(w)
             \/ Announce(w) \/ CheckPoint(w) \/ FinishFrame(w) \/ Fail(w)
             \/ MarkCancelled(w) \/ MarkInterrupted(w) \/ Close(w)
             \/ ArriveDraft(w) \/ DraftBind(w) \/ DraftFail(w)
    <3>1. receipt' = receipt /\ messages' = messages
      BY <2>2 DEF Arrive, AcquireSession, BindMessage, BindUserMessage,
         Announce, CheckPoint, FinishFrame, Fail, MarkCancelled,
         MarkInterrupted, Close, ArriveDraft, DraftBind, DraftFail
    <3> QED BY <3>1 DEF SameTurn, SameReceipt
  <2> QED BY <2>1, <2>2
<1>2. UNCHANGED <<cancelEvent, pending>>
  BY DEF Arrive, AcquireSession, BindMessage, Announce, CheckPoint, PlanTurn,
     PlanCompletion, StartFrame, SkipFrame, FinishFrame, PrepareReply, Fail,
     MarkCancelled, MarkInterrupted, Close, ArriveDraft, DraftBind, DraftFail
<1>3. \A v \in Workers \ {w} : pc'[v] = pc[v] /\ after'[v] = after[v]
  BY <1>t DEF Arrive, AcquireSession, BindMessage, Announce, CheckPoint,
     PlanTurn, PlanCompletion, StartFrame, SkipFrame, FinishFrame,
     PrepareReply, Fail, MarkCancelled, MarkInterrupted, Close, ArriveDraft,
     DraftBind, DraftFail, Goto, Escape
<1>r. /\ receipt'[TurnOf[w]].status = receipt[TurnOf[w]].status
      /\ messages'[TurnOf[w]] = messages[TurnOf[w]]
  BY <1>1, <1>t DEF SameTurn, SameReceipt
<1>4. Follows(w)'
  <2>1. CASE Arrive(w) \/ AcquireSession(w) \/ BindMessage(w) \/ Announce(w)
    BY <2>1, <1>f, <1>o, <1>r, <1>t DEF Arrive, AcquireSession, BindMessage,
       Announce, Goto, Follows
  <2>2. CASE CheckPoint(w) \/ Fail(w)
    BY <2>2, <1>f, <1>o, <1>r, <1>t DEF CheckPoint, Fail, Goto, Follows
  <2>3. CASE PlanTurn(w)
    <3>1. pc' \in {[pc EXCEPT ![w] = "interrupt"], [pc EXCEPT ![w] = "frame"]}
      BY <2>3 DEF PlanTurn, Goto
    <3> QED BY <3>1, <2>3, <1>f, <1>r, <1>t DEF PlanTurn, Follows
  <2>4. CASE PlanCompletion(w)
    <3>1. pc' \in {[pc EXCEPT ![w] = "interrupt"], [pc EXCEPT ![w] = "frame"]}
      BY <2>4 DEF PlanCompletion, Goto
    <3> QED BY <3>1, <2>4, <1>f, <1>r, <1>t DEF PlanCompletion, Follows
  <2>5. CASE StartFrame(w) \/ SkipFrame(w) \/ FinishFrame(w) \/ PrepareReply(w)
    BY <2>5, <1>f, <1>r, <1>t DEF StartFrame, SkipFrame, FinishFrame,
       PrepareReply, Goto, Follows
  <2>6. CASE MarkCancelled(w) \/ MarkInterrupted(w)
    BY <2>6, <1>f, <1>o, <1>r, <1>t DEF MarkCancelled, MarkInterrupted,
       Escape, Goto, Follows
  <2>7. CASE Close(w)
    BY <2>7, <1>f, <1>r, <1>t DEF Close, Goto, Follows
  <2>8. CASE ArriveDraft(w) \/ DraftBind(w) \/ DraftFail(w)
    BY <2>8, <1>f, <1>o, <1>r, <1>t DEF ArriveDraft, DraftBind, DraftFail,
       Goto, Follows
  <2> QED BY <2>1, <2>2, <2>3, <2>4, <2>5, <2>6, <2>7, <2>8
<1> QED BY <1>1, <1>2, <1>3, <1>4, QuietStep

(* The steps that write a receipt or a message.  For each: the step of the *)
(* contract its own turn takes, and what its worker's next step may rely   *)
(* on; the rest is WritingStep.                                            *)
LEMMA WritingStep ==
    ASSUME TypeOK, ReceiptInv, PublishInv, NEW w \in Workers,
           \/ pc[w] \in RunSteps \cup AbortSteps
           \/ receipt[TurnOf[w]].status = "none",
           AllowedStep(TurnOf[w]),
           receipt[TurnOf[w]].status # "none" =>
               receipt'[TurnOf[w]].status # "none",
           \A t \in Turns \ {TurnOf[w]} : SameTurn(t),
           UNCHANGED <<cancelEvent, pending>>,
           \A v \in Workers \ {w} : pc'[v] = pc[v] /\ after'[v] = after[v],
           Follows(w)',
           receipt'[TurnOf[w]].status = "completed" =>
               "reply" \in messages'[TurnOf[w]],
           ~MayStall /\ receipt'[TurnOf[w]].status = "finalizing" =>
               ~cancelEvent[TurnOf[w]] /\ TurnOf[w] \notin pending
    PROVE  PublishInv' /\ \A t \in Turns : AllowedStep(t)
<1>1. \A t \in Turns : AllowedStep(t)
  BY DEF AllowedStep
<1>2. \A v \in Workers : Follows(v)'
  <2>1. ASSUME NEW v \in Workers, v # w
        PROVE  Follows(v)'
    <3>1. pc'[v] = pc[v] /\ after'[v] = after[v]
      BY <2>1
    <3> QED BY <2>1, <3>1, OthersFollow
  <2> QED BY <2>1
<1>3. CompletedReplied'
  BY PublishInvParts DEF CompletedReplied, SameTurn, SameReceipt
<1>4. ReservedExcludesCancel'
  BY PublishInvParts DEF ReservedExcludesCancel, SameTurn, SameReceipt
<1> QED BY <1>1, <1>2, <1>3, <1>4, PublishInvNext

(* A report of a failure: nothing but one more message.                    *)
LEMMA GrowingMessages ==
    ASSUME TypeOK, PublishInv, NEW w \in Workers,
           receipt' = receipt, after' = after,
           pc'[w] = "done",
           \A v \in Workers \ {w} : pc'[v] = pc[v],
           UNCHANGED <<cancelEvent, pending>>,
           \A t \in Turns : messages[t] \subseteq messages'[t]
    PROVE  PublishInv'
<1>1. \A v \in Workers : Follows(v)'
  <2>1. ASSUME NEW v \in Workers
        PROVE  Follows(v)'
    <3>1. pc'[v] = pc[v] \/ pc'[v] = "done"
      OBVIOUS
    <3>2. TurnOf[v] \in Turns
      BY RequestsAssumption
    <3>3. Follows(v)
      BY PublishInvParts
    <3> QED BY <3>1, <3>2, <3>3 DEF Follows
  <2> QED BY <2>1
<1>2. CompletedReplied'
  BY PublishInvParts DEF CompletedReplied
<1>3. ReservedExcludesCancel'
  BY PublishInvParts DEF ReservedExcludesCancel
<1> QED BY <1>1, <1>2, <1>3, PublishInvNext

(* The claim, the reservation, the reply, the receipts of the ways out and *)
(* the messages they leave.                                                *)
LEMMA WritingActionsFollow ==
    ASSUME TypeOK, ReceiptInv, PublishInv, ~MayStall, NEW w \in Workers,
           \/ ClaimTurn(w) \/ ReserveReply(w) \/ PublishReply(w)
           \/ CompleteTurn(w) \/ MarkCancelledReceipt(w) \/ CancelReply(w)
           \/ MarkInterruptedReceipt(w)
           \/ ErrorReply(w) \/ InterruptedReply(w)
           \/ DraftClaim(w) \/ DraftComplete(w)
    PROVE  PublishInv' /\ \A t \in Turns : AllowedStep(t)
<1> DEFINE u == TurnOf[w]
           s == receipt[u].status
           s1 == receipt'[u].status
<1>t. /\ u \in Turns
      /\ pc \in [Workers -> Steps]
      /\ after \in [Workers -> {"done"} \cup ReplySteps]
      /\ messages \in [Turns -> SUBSET MessageKinds]
      /\ announced \in [Turns -> BOOLEAN]
      /\ ReceiptTypeOK
      /\ s \in {"none", "started", "finalizing", "completed", "failed",
                "cancelled"}
  BY RequestsAssumption DEF TypeOK, ReceiptTypeOK, Receipt,
     ActiveTurnStatuses, TerminalTurnStatuses
<1>f. Follows(w) /\ CompletedReplied
  BY PublishInvParts
<1>o. pc[w] \in RunSteps \cup AbortSteps => s # "none"
  BY SoleExecutor
<1>2. UNCHANGED <<cancelEvent, pending>>
  BY DEF ClaimTurn, ReserveReply, PublishReply, CompleteTurn,
     MarkCancelledReceipt, CancelReply, MarkInterruptedReceipt, ErrorReply,
     InterruptedReply, DraftClaim, DraftComplete
<1>3. \A v \in Workers \ {w} : pc'[v] = pc[v] /\ after'[v] = after[v]
  BY <1>t DEF ClaimTurn, ReserveReply, PublishReply, CompleteTurn,
     MarkCancelledReceipt, CancelReply, MarkInterruptedReceipt, ErrorReply,
     InterruptedReply, DraftClaim, DraftComplete, Goto
<1>4. CASE ClaimTurn(w)
  <2>1. CASE Claim(w, u)
    <3>1. /\ s = "none" /\ s1 = "started" /\ receipt'[u].owner = w
          /\ \A t \in Turns \ {u} : receipt'[t] = receipt[t]
      BY <2>1, <1>t, ClaimType
    <3>2. messages' = messages /\ after' = after
      BY <1>4 DEF ClaimTurn
    <3>3. pc'[w] = "bind"
      BY <1>4, <1>t, <2>1 DEF ClaimTurn, Goto, Claim
    <3>4. AllowedStep(u)
      BY <3>1, <3>2 DEF AllowedStep
    <3>5. \A t \in Turns \ {u} : SameTurn(t)
      BY <3>1, <3>2 DEF SameTurn, SameReceipt
    <3>6. Follows(w)'
      BY <3>1, <3>3 DEF Follows
    <3> QED BY <1>2, <1>3, <3>1, <3>4, <3>5, <3>6, WritingStep
  <2>2. CASE ~Claim(w, u)
    <3>1. receipt' = receipt /\ messages' = messages /\ after' = after
      BY <1>4, <2>2 DEF ClaimTurn
    <3>2. pc'[w] = "close"
      BY <1>4, <1>t, <2>2 DEF ClaimTurn, Goto
    <3>3. \A t \in Turns : SameTurn(t)
      BY <3>1 DEF SameTurn, SameReceipt
    <3>4. Follows(w)'
      BY <1>f, <3>1, <3>2 DEF Follows
    <3> QED BY <1>2, <1>3, <3>3, <3>4, QuietStep
  <2> QED BY <2>1, <2>2
<1>5. CASE DraftClaim(w)
  <2>1. CASE Claim(w, u)
    <3>1. /\ s = "none" /\ s1 = "started" /\ receipt'[u].owner = w
          /\ \A t \in Turns \ {u} : receipt'[t] = receipt[t]
      BY <2>1, <1>t, ClaimType
    <3>2. messages' = messages /\ after' = after
      BY <1>5 DEF DraftClaim
    <3>3. pc'[w] = "draftBind"
      BY <1>5, <1>t, <2>1 DEF DraftClaim, Goto, Claim
    <3>4. AllowedStep(u)
      BY <3>1, <3>2 DEF AllowedStep
    <3>5. \A t \in Turns \ {u} : SameTurn(t)
      BY <3>1, <3>2 DEF SameTurn, SameReceipt
    <3>6. Follows(w)'
      BY <3>1, <3>3 DEF Follows
    <3> QED BY <1>2, <1>3, <3>1, <3>4, <3>5, <3>6, WritingStep
  <2>2. CASE ~Claim(w, u)
    <3>1. /\ receipt' = receipt /\ messages' = messages /\ after' = after
          /\ s # "none"
      BY <1>5, <2>2 DEF DraftClaim
    <3>2. pc'[w] \in {"done", "interruptedReply"}
      BY <1>5, <1>t, <2>2 DEF DraftClaim, Goto
    <3>3. \A t \in Turns : SameTurn(t)
      BY <3>1 DEF SameTurn, SameReceipt
    <3>4. Follows(w)'
      BY <1>f, <3>1, <3>2 DEF Follows
    <3> QED BY <1>2, <1>3, <3>3, <3>4, QuietStep
  <2> QED BY <2>1, <2>2
<1>6. CASE ReserveReply(w)
  <2>1. CASE BeginCompletion(w, u)
    <3>1. /\ s = "started" /\ s1 = "finalizing"
          /\ receipt'[u].owner = receipt[u].owner
          /\ \A t \in Turns \ {u} : receipt'[t] = receipt[t]
      BY <2>1, <1>t, CompletionType
    <3>2. /\ messages' = messages /\ after' = after /\ pc[w] = "begin"
      BY <1>6 DEF ReserveReply
    <3>3. pc'[w] = "finalize"
      BY <1>6, <1>t, <2>1 DEF ReserveReply, Goto, BeginCompletion
    <3>4. AllowedStep(u)
      BY <3>1, <3>2 DEF AllowedStep, SettlesAs
    <3>5. \A t \in Turns \ {u} : SameTurn(t)
      BY <3>1, <3>2 DEF SameTurn, SameReceipt
    <3>6. Follows(w)'
      BY <1>f, <3>1, <3>2, <3>3 DEF Follows
    <3>7. ~cancelEvent[u] /\ u \notin pending
      BY <3>1, <3>2 DEF ReceiptInv, CompletionExcludesCancel
    <3> QED BY <1>2, <1>3, <3>1, <3>2, <3>4, <3>5, <3>6, <3>7, WritingStep
  <2>2. CASE ~BeginCompletion(w, u)
    <3>1. receipt' = receipt /\ messages' = messages /\ after' = after
      BY <1>6, <2>2 DEF ReserveReply
    <3>2. pc'[w] = "close"
      BY <1>6, <1>t, <2>2 DEF ReserveReply, Goto
    <3>3. \A t \in Turns : SameTurn(t)
      BY <3>1 DEF SameTurn, SameReceipt
    <3>4. Follows(w)'
      BY <1>f, <3>1, <3>2 DEF Follows
    <3> QED BY <1>2, <1>3, <3>3, <3>4, QuietStep
  <2> QED BY <2>1, <2>2
<1>7. CASE PublishReply(w)
  <2>1. /\ receipt' = receipt /\ after' = after
        /\ pc[w] = "finalize" /\ pc'[w] = "complete"
        /\ messages'[u] = messages[u] \cup {"reply"}
        /\ \A t \in Turns \ {u} : messages'[t] = messages[t]
    BY <1>7, <1>t DEF PublishReply, Goto, Show
  <2>2. s \in {"finalizing", "failed"}
    BY <2>1, <1>f DEF ReceiptInv, CompletionExcludesCancel, Follows
  <2>3. "cancelled" \notin messages[u]
    BY <2>1, <1>t DEF ReceiptInv, CompletionExcludesCancel,
       CancelLeavesItsEvent
  <2>4. AllowedStep(u)
    BY <2>1, <2>2, <2>3 DEF AllowedStep, SameReceipt
  <2>5. \A t \in Turns \ {u} : SameTurn(t)
    BY <2>1 DEF SameTurn, SameReceipt
  <2>6. Follows(w)'
    BY <2>1, <2>2, <1>f DEF Follows
  <2>7. ~cancelEvent[u]
    BY <2>1 DEF ReceiptInv, CompletionExcludesCancel
  <2>8. s1 = "finalizing" => u \notin pending
    BY <2>1, <1>t, PublishInvParts DEF ReservedExcludesCancel
  <2> QED BY <1>2, <1>3, <2>1, <2>2, <2>4, <2>5, <2>6, <2>7, <2>8, WritingStep
<1>8. CASE CompleteTurn(w)
  <2>1. /\ messages' = messages /\ after' = after
        /\ pc[w] = "complete" /\ pc'[w] = "close"
    BY <1>8, <1>t DEF CompleteTurn, Goto
  <2>2. "reply" \in messages[u]
    BY <2>1, <1>f DEF Follows
  <2>3. CASE Complete(w, u)
    <3>1. /\ s \in ActiveTurnStatuses /\ s1 = "completed"
          /\ receipt'[u].owner = receipt[u].owner
          /\ \A t \in Turns \ {u} : receipt'[t] = receipt[t]
      BY <2>3, <1>t, CompletionType
    <3>2. "cancelled" \notin messages[u]
      BY <2>1, <1>t DEF ReceiptInv, CompletionExcludesCancel,
         CancelLeavesItsEvent
    <3>3. messages'[u] = messages[u] \cup {"reply"}
      BY <2>1, <2>2
    <3>4. AllowedStep(u)
      BY <2>2, <3>1, <3>2, <3>3 DEF AllowedStep, SettlesAs, ActiveTurnStatuses
    <3>5. \A t \in Turns \ {u} : SameTurn(t)
      BY <2>1, <3>1 DEF SameTurn, SameReceipt
    <3>6. Follows(w)'
      BY <1>f, <2>1, <3>1 DEF Follows
    <3> QED BY <1>2, <1>3, <2>1, <2>2, <3>1, <3>4, <3>5, <3>6, WritingStep
  <2>4. CASE ~Complete(w, u)
    <3>1. receipt' = receipt
      BY <1>8, <2>4 DEF CompleteTurn
    <3>2. \A t \in Turns : SameTurn(t)
      BY <2>1, <3>1 DEF SameTurn, SameReceipt
    <3>3. Follows(w)'
      BY <1>f, <2>1, <3>1 DEF Follows
    <3> QED BY <1>2, <1>3, <3>2, <3>3, QuietStep
  <2> QED BY <2>3, <2>4
<1>9. CASE MarkCancelledReceipt(w)
  <2>1. /\ messages' = messages /\ after' = after
        /\ pc[w] = "cancelReceipt" /\ pc'[w] = "cancelReply"
    BY <1>9, <1>t DEF MarkCancelledReceipt, Goto
  <2>2. FinishWithError(w, u, "cancelled")
    BY <1>9 DEF MarkCancelledReceipt
  <2>3. /\ receipt'[u].owner = receipt[u].owner
        /\ \A t \in Turns \ {u} : SameTurn(t)
    BY <2>1, <2>2, <1>t, FinishWithErrorType DEF SameTurn, SameReceipt
  <2>4. s \in {"started", "failed", "cancelled"}
    BY <2>1, <1>f, <1>o, <1>t DEF Follows
  <2>5. receipt[u].owner = w
    BY <2>1 DEF ReceiptInv, OwnersExecute
  <2>6. s1 = IF s = "started" THEN "cancelled" ELSE s
    BY <2>2, <2>4, <2>5, <1>t DEF FinishWithError, Fenced, Settled,
       ActiveTurnStatuses, ReceiptTypeOK, Receipt
  <2>7. AllowedStep(u)
    BY <2>1, <2>3, <2>4, <2>6 DEF AllowedStep, SettlesAs, SameTurn, SameReceipt
  <2>8. Follows(w)'
    BY <1>f, <2>1, <2>4, <2>6 DEF Follows
  <2> QED BY <1>2, <1>3, <2>1, <2>3, <2>4, <2>6, <2>7, <2>8, WritingStep
<1>10. CASE CancelReply(w)
  <2>1. /\ receipt' = receipt /\ after' = after
        /\ pc[w] = "cancelReply" /\ pc'[w] = "close"
    BY <1>10, <1>t DEF CancelReply, Goto
  <2>2. /\ \/ messages'[u] = messages[u]
           \/ messages[u] = {} /\ messages'[u] = {"cancelled"}
        /\ \A t \in Turns \ {u} : messages'[t] = messages[t]
    BY <1>10, <1>t DEF CancelReply, ShowIfNone, Show
  <2>3. s \in {"cancelled", "failed"}
    BY <2>1, <1>f DEF Follows
  <2>4. AllowedStep(u)
    BY <2>1, <2>2, <2>3 DEF AllowedStep, SameTurn, SameReceipt
  <2>5. \A t \in Turns \ {u} : SameTurn(t)
    BY <2>1, <2>2 DEF SameTurn, SameReceipt
  <2>6. Follows(w)'
    BY <1>f, <2>1 DEF Follows
  <2> QED BY <1>2, <1>3, <2>1, <2>3, <2>4, <2>5, <2>6, WritingStep
<1>11. CASE MarkInterruptedReceipt(w)
  <2>1. /\ messages' = messages /\ after'[w] = "errorReply"
        /\ pc[w] = "interruptReceipt" /\ pc'[w] = "close"
    BY <1>11, <1>t DEF MarkInterruptedReceipt, Goto
  <2>2. FinishWithError(w, u, "failed")
    BY <1>11 DEF MarkInterruptedReceipt
  <2>3. /\ receipt'[u].owner = receipt[u].owner
        /\ s1 = s \/ s1 = "failed"
        /\ \A t \in Turns \ {u} : SameTurn(t)
    BY <2>1, <2>2, <1>t, FinishWithErrorType DEF SameTurn, SameReceipt
  <2>4. s \in {"started", "finalizing", "failed", "cancelled"}
    BY <2>1, <1>f, <1>o, <1>t DEF Follows
  <2>5. AllowedStep(u)
    BY <2>1, <2>3, <2>4 DEF AllowedStep, SettlesAs, SameTurn, SameReceipt
  <2>6. Follows(w)'
    BY <1>f, <2>1, <2>3, <2>4 DEF Follows
  <2>7. s1 = "finalizing" => ~cancelEvent[u] /\ u \notin pending
    BY <2>3, <1>t, PublishInvParts DEF ReservedExcludesCancel
  <2> QED BY <1>2, <1>3, <2>1, <2>3, <2>4, <2>5, <2>6, <2>7, WritingStep
<1>12. CASE ErrorReply(w)
  <2>1. /\ receipt' = receipt /\ after' = after
        /\ pc[w] = "errorReply" /\ pc'[w] = "done"
        /\ messages'[u] = messages[u] \cup {"error"}
        /\ \A t \in Turns \ {u} : messages'[t] = messages[t]
    BY <1>12, <1>t DEF ErrorReply, Goto, Show
  <2>2. s # "none"
    BY <2>1, <1>f DEF Follows
  <2>3. \A t \in Turns : AllowedStep(t)
    BY <2>1, <2>2 DEF AllowedStep, SameTurn, SameReceipt
  <2>4. PublishInv'
    BY <2>1, <1>2, <1>3, <1>t, GrowingMessages
  <2> QED BY <2>3, <2>4
<1>13. CASE InterruptedReply(w)
  <2>1. /\ receipt' = receipt /\ after' = after
        /\ pc[w] = "interruptedReply" /\ pc'[w] = "done"
        /\ \/ messages'[u] = messages[u]
           \/ messages'[u] = messages[u] \cup {"interrupted"}
        /\ \A t \in Turns \ {u} : messages'[t] = messages[t]
    BY <1>13, <1>t DEF InterruptedReply, Goto, Show
  <2>2. s # "none"
    BY <2>1, <1>f DEF Follows
  <2>3. \A t \in Turns : AllowedStep(t)
    BY <2>1, <2>2 DEF AllowedStep, SameTurn, SameReceipt
  <2>4. PublishInv'
    BY <2>1, <1>2, <1>3, <1>t, GrowingMessages
  <2> QED BY <2>3, <2>4
<1>14. CASE DraftComplete(w)
  <2>1. after' = after /\ pc[w] = "draftComplete"
    BY <1>14 DEF DraftComplete
  <2>2. CASE Complete(w, u)
    <3>1. /\ s \in ActiveTurnStatuses /\ s1 = "completed"
          /\ receipt'[u].owner = receipt[u].owner
          /\ \A t \in Turns \ {u} : receipt'[t] = receipt[t]
      BY <2>2, <1>t, CompletionType
    <3>2. /\ messages'[u] = messages[u] \cup {"reply"}
          /\ \A t \in Turns \ {u} : messages'[t] = messages[t]
          /\ pc'[w] = "done"
      BY <1>14, <2>2, <1>t DEF DraftComplete, Show, Goto, Complete
    <3>3. "cancelled" \notin messages[u]
      BY <2>1, <1>t DEF ReceiptInv, OwnersExecute, NothingBeforeClaim
    <3>4. s = "started"
      BY <2>1, <3>1, <1>f DEF Follows, ActiveTurnStatuses
    <3>5. AllowedStep(u)
      BY <3>1, <3>2, <3>3, <3>4 DEF AllowedStep, SettlesAs
    <3>6. \A t \in Turns \ {u} : SameTurn(t)
      BY <3>1, <3>2 DEF SameTurn, SameReceipt
    <3>7. Follows(w)'
      BY <1>f, <2>1, <3>1, <3>2 DEF Follows
    <3> QED BY <1>2, <1>3, <2>1, <3>1, <3>2, <3>5, <3>6, <3>7, WritingStep
  <2>3. CASE ~Complete(w, u)
    <3>1. receipt' = receipt /\ messages' = messages
      BY <1>14, <2>3 DEF DraftComplete
    <3>2. pc'[w] = "interruptedReply"
      BY <1>14, <1>t, <2>3 DEF DraftComplete, Goto
    <3>3. \A t \in Turns : SameTurn(t)
      BY <3>1 DEF SameTurn, SameReceipt
    <3>4. Follows(w)'
      BY <1>f, <1>o, <2>1, <3>1, <3>2 DEF Follows
    <3> QED BY <1>2, <1>3, <3>3, <3>4, QuietStep
  <2> QED BY <2>2, <2>3
<1> QED BY <1>4, <1>5, <1>6, <1>7, <1>8, <1>9, <1>10, <1>11, <1>12, <1>13, <1>14

-----------------------------------------------------------------------------
(* The environment: no worker moves, or all of them are gone.              *)
LEMMA EnvironmentFollow ==
    ASSUME TypeOK, PublishInv,
           \A w \in Workers :
               \/ pc'[w] = pc[w] /\ after'[w] = after[w]
               \/ pc'[w] \in {"idle", "done"} /\ after'[w] = "done",
           \A t \in Turns :
               /\ \/ receipt'[t].status = receipt[t].status
                  \/ receipt'[t].status = "failed"
                  \/ /\ receipt[t].status \in {"started", "cancelled", "failed"}
                     /\ receipt'[t].status = "cancelled"
               /\ receipt'[t].status # "none" => receipt[t].status # "none"
               /\ "reply" \in messages[t] => "reply" \in messages'[t]
    PROVE  CompletedReplied' /\ \A w \in Workers : Follows(w)'
<1>1. CompletedReplied'
  BY PublishInvParts DEF CompletedReplied
<1>2. ASSUME NEW w \in Workers
      PROVE  Follows(w)'
  <2>1. TurnOf[w] \in Turns
    BY RequestsAssumption
  <2>2. Follows(w)
    BY PublishInvParts
  <2>3. CASE pc'[w] = pc[w] /\ after'[w] = after[w]
    BY <2>1, <2>2, <2>3 DEF Follows
  <2>4. CASE pc'[w] \in {"idle", "done"} /\ after'[w] = "done"
    BY <2>4 DEF Follows
  <2> QED BY <2>3, <2>4
<1> QED BY <1>1, <1>2

(* The cancel endpoint.                                                    *)
LEMMA CancelFollows ==
    ASSUME TypeOK, ReceiptInv, PublishInv, ~MayStall, NEW t \in Turns,
           \/ Cancel(t) \/ CancelLooks(t) \/ CancelUnclaimed(t)
    PROVE  PublishInv' /\ \A u \in Turns : AllowedStep(u)
<1>t. /\ ReceiptTypeOK
      /\ messages \in [Turns -> SUBSET MessageKinds]
      /\ cancelEvent \in [Turns -> BOOLEAN]
      /\ receipt[t].status \in {"none", "started", "finalizing", "completed",
                                "failed", "cancelled"}
  BY DEF TypeOK, ReceiptTypeOK, Receipt, ActiveTurnStatuses,
         TerminalTurnStatuses
<1>w. pc' = pc /\ after' = after
  BY DEF Cancel, CancelLooks, CancelUnclaimed
<1>1. CASE Cancel(t)
  <2>1. \A u \in Turns :
           /\ receipt'[u].owner = receipt[u].owner
           /\ receipt'[u].status = IF u = t /\ receipt[t].status = "started"
                                    THEN "cancelled" ELSE receipt[u].status
    BY <1>1, <1>t, CancelledReceiptType DEF Cancel
  <2>2. /\ \/ messages'[t] = messages[t]
           \/ /\ announced[t] /\ messages[t] = {}
              /\ messages'[t] = {"cancelled"}
        /\ \A u \in Turns \ {t} : messages'[u] = messages[u]
    BY <1>1, <1>t DEF Cancel, CancelMessage
  <2>3. announced[t] => receipt[t].status # "none"
    BY DEF ReceiptInv, NothingBeforeClaim
  <2>4. messages[t] = {} => receipt[t].status # "completed"
    BY PublishInvParts DEF CompletedReplied
  <2>5. receipt[t].status # "finalizing"
    BY <1>1, PublishInvParts DEF Cancel, CancelFirst, CancelAgain,
       ReservedExcludesCancel
  <2>6. \A u \in Turns : AllowedStep(u)
    <3>1. ASSUME NEW u \in Turns, u # t
          PROVE  AllowedStep(u)
      BY <3>1, <2>1, <2>2 DEF AllowedStep, SameTurn, SameReceipt
    <3>2. AllowedStep(t)
      BY <1>t, <2>1, <2>2, <2>3, <2>4, <2>5
         DEF AllowedStep, SettlesAs, SameTurn, SameReceipt
    <3> QED BY <3>1, <3>2
  <2>7. CompletedReplied' /\ \A w \in Workers : Follows(w)'
    <3>1. \A u \in Turns :
             /\ \/ receipt'[u].status = receipt[u].status
                \/ /\ receipt[u].status \in {"started", "cancelled", "failed"}
                   /\ receipt'[u].status = "cancelled"
             /\ receipt'[u].status # "none" => receipt[u].status # "none"
             /\ "reply" \in messages[u] => "reply" \in messages'[u]
      BY <2>1, <2>2
    <3> QED BY <1>w, <3>1, EnvironmentFollow
  <2>8. \A u \in Turns \ {t} : cancelEvent'[u] = cancelEvent[u]
    BY <1>1, <1>t DEF Cancel, CancelFirst, CancelAgain
  <2>9. ReservedExcludesCancel'
    BY <1>1, <2>1, <2>5, <2>8, PublishInvParts
       DEF ReservedExcludesCancel, Cancel
  <2> QED BY <2>6, <2>7, <2>9, PublishInvNext
<1>2. CASE CancelLooks(t) \/ CancelUnclaimed(t)
  <2>1. receipt' = receipt /\ messages' = messages
    BY <1>2 DEF CancelLooks, CancelUnclaimed
  <2>2. \A u \in Turns : AllowedStep(u)
    BY <2>1 DEF AllowedStep, SameTurn, SameReceipt
  <2>3. CompletedReplied' /\ \A w \in Workers : Follows(w)'
    BY <1>w, <2>1, EnvironmentFollow
  <2>4. ReservedExcludesCancel'
    <3>1. CASE CancelLooks(t)
      BY <3>1, <2>1, PublishInvParts DEF ReservedExcludesCancel, CancelLooks
    <3>2. CASE CancelUnclaimed(t)
      BY <3>2, <2>1, <1>t, PublishInvParts DEF ReservedExcludesCancel,
         CancelUnclaimed
    <3> QED BY <1>2, <3>1, <3>2
  <2> QED BY <2>2, <2>3, <2>4, PublishInvNext
<1> QED BY <1>1, <1>2

(* Recovery, from a snapshot of claimed turns.                             *)
LEMMA RecoverFollows ==
    ASSUME TypeOK, ReceiptInv, PublishInv, NEW snapshot \in Snapshot,
           \A t \in snapshot.turns : receipt[t].status # "none",
           Recover(snapshot),
           UNCHANGED <<pc, after, cancelEvent, pending>>
    PROVE  PublishInv' /\ \A t \in Turns : AllowedStep(t)
<1>1. \A t \in Turns :
         /\ receipt'[t].owner = receipt[t].owner
         /\ receipt'[t].status = IF t \in snapshot.turns
                                  THEN "failed" ELSE receipt[t].status
  BY RecoveredReceiptsType DEF Recover, TypeOK
<1>2. \A t \in Turns :
         \/ messages'[t] = messages[t]
         \/ /\ t \in snapshot.turns /\ messages[t] = {}
            /\ messages'[t] = {"recovered"}
  BY DEF Recover, RecoveryReply
<1>3. \A t \in Turns : AllowedStep(t)
  <2>1. ASSUME NEW t \in Turns
        PROVE  AllowedStep(t)
    <3>1. CASE t \in snapshot.turns
      <4>1. receipt[t].status \in {"started", "finalizing", "completed",
                                   "cancelled", "failed"}
        BY <3>1 DEF TypeOK, ReceiptTypeOK, Receipt, ActiveTurnStatuses,
           TerminalTurnStatuses
      <4> QED BY <1>1, <1>2, <3>1, <4>1 DEF AllowedStep, SettlesAs
    <3>2. CASE t \notin snapshot.turns
      BY <1>1, <1>2, <3>2 DEF AllowedStep, SameTurn, SameReceipt
    <3> QED BY <3>1, <3>2
  <2> QED BY <2>1
<1>4. CompletedReplied' /\ \A w \in Workers : Follows(w)'
  <2>1. \A t \in Turns :
           /\ \/ receipt'[t].status = receipt[t].status
              \/ receipt'[t].status = "failed"
           /\ receipt'[t].status # "none" => receipt[t].status # "none"
           /\ "reply" \in messages[t] => "reply" \in messages'[t]
    BY <1>1, <1>2
  <2> QED BY <2>1, EnvironmentFollow
<1>5. ReservedExcludesCancel'
  BY <1>1, PublishInvParts DEF ReservedExcludesCancel
<1> QED BY <1>3, <1>4, <1>5, PublishInvNext

(* The sweeper, the crash, the start and the clock.                        *)
LEMMA LifeFollows ==
    ASSUME TypeOK, ReceiptInv, PublishInv,
           \/ \E t \in Turns : ExpireTurn(t)
           \/ \E f \in Frames : ExpireRun(f) \/ ExpireFrame(f)
           \/ SweepLoad \/ SweepWrite \/ Crash \/ Startup
           \/ ExpireSessionLease
    PROVE  PublishInv' /\ \A t \in Turns : AllowedStep(t)
<1>1. CASE SweepWrite
  <2>1. /\ sweep \in Snapshot
        /\ \A t \in sweep.turns : receipt[t].status # "none"
    BY DEF TypeOK, Snapshot, ReceiptInv, NothingBeforeClaim
  <2> QED BY <1>1, <2>1, RecoverFollows DEF SweepWrite
<1>2. CASE Startup /\ Orphans(TRUE) # Idle
  <2>1. /\ Orphans(TRUE) \in Snapshot
        /\ \A t \in Orphans(TRUE).turns : receipt[t].status # "none"
    BY OrphansType DEF TypeOK, OrphanTurns, IsActive, ActiveTurnStatuses
  <2> QED BY <1>2, <2>1, RecoverFollows DEF Startup
<1>3. CASE \/ \E t \in Turns : ExpireTurn(t)
           \/ \E f \in Frames : ExpireRun(f) \/ ExpireFrame(f)
           \/ SweepLoad \/ Crash \/ ExpireSessionLease
           \/ Startup /\ Orphans(TRUE) = Idle
  <2>1. messages' = messages /\ cancelEvent' = cancelEvent
    BY <1>3 DEF ExpireTurn, ExpireRun, ExpireFrame, SweepLoad, Crash,
       ExpireSessionLease, Startup
  <2>2. pending' \subseteq pending
    BY <1>3 DEF ExpireTurn, ExpireRun, ExpireFrame, SweepLoad, Crash,
       ExpireSessionLease, Startup
  <2>3. \A w \in Workers :
           \/ pc'[w] = pc[w] /\ after'[w] = after[w]
           \/ pc'[w] \in {"idle", "done"} /\ after'[w] = "done"
    BY <1>3 DEF ExpireTurn, ExpireRun, ExpireFrame, SweepLoad, Crash,
       ExpireSessionLease, Startup
  <2>4. \A t \in Turns : SameReceipt(t)
    <3>1. CASE \E t \in Turns : ExpireTurn(t)
      BY <3>1 DEF ExpireTurn, TypeOK, ReceiptTypeOK, Receipt, SameReceipt
    <3>2. CASE ~\E t \in Turns : ExpireTurn(t)
      BY <1>3, <3>2 DEF ExpireRun, ExpireFrame, SweepLoad, Crash,
         ExpireSessionLease, Startup, SameReceipt
    <3> QED BY <3>1, <3>2
  <2>5. \A t \in Turns : AllowedStep(t)
    BY <2>1, <2>4 DEF AllowedStep, SameTurn
  <2>6. CompletedReplied' /\ \A w \in Workers : Follows(w)'
    BY <2>1, <2>3, <2>4, EnvironmentFollow DEF SameReceipt
  <2>7. ReservedExcludesCancel'
    BY <2>1, <2>2, <2>4, PublishInvParts
       DEF ReservedExcludesCancel, SameReceipt
  <2> QED BY <2>5, <2>6, <2>7, PublishInvNext
<1> QED BY <1>1, <1>2, <1>3

-----------------------------------------------------------------------------
(* Every step is allowed and keeps PublishInv.                             *)
LEMMA NextAllowed ==
    ASSUME TypeOK, ReceiptInv, PublishInv, ~MayStall, Next
    PROVE  PublishInv' /\ \A t \in Turns : AllowedStep(t)
BY QuietActionsFollow, WritingActionsFollow, CancelFollows, LifeFollows
   DEF Next, Serve, Execute, Expire

(* PublishInv holds in every reachable state: a completed turn shows its   *)
(* reply, and the receipt follows the steps of its worker.                 *)
THEOREM PublishInvariant ==
    ASSUME ~MayStall
    PROVE  Spec => []PublishInv
<1>1. Init => PublishInv
  BY DEF Init, ReceiptInit, NoReceipt, PublishInv, CompletedShowsReply,
     ReceiptFollowsWorker, ReservedExcludesCancel
<1>2. TypeOK /\ ReceiptInv /\ PublishInv /\ [Next]_vars => PublishInv'
  <2> SUFFICES ASSUME TypeOK, ReceiptInv, PublishInv, [Next]_vars
               PROVE  PublishInv'
    OBVIOUS
  <2>1. CASE Next
    BY <2>1, NextAllowed
  <2>2. CASE UNCHANGED vars
    BY <2>2 DEF vars, PublishInv, CompletedShowsReply, ReceiptFollowsWorker,
       ReservedExcludesCancel
  <2> QED BY <2>1, <2>2
<1> QED BY <1>1, <1>2, TypeCorrect, ReceiptInvariant, PTL DEF Spec

(* Whatever lapses, crashes and is recovered, the turns of HarnessTurn     *)
(* keep the lossy contract, unless a cancel request that found no receipt  *)
(* stalls past planning.                                                   *)
THEOREM ImplementsLossyContract ==
    ASSUME ~MayStall
    PROVE  Spec => KeepsLossyContract
<1>1. Init => LossyContract!Init
  BY DEF Init, ReceiptInit, NoReceipt, LossyContract!Init, phaseBar,
     executorBar, shownBar, PhaseOf, KindsOf
<1>2. TypeOK /\ TypeOK' /\ ReceiptInv /\ PublishInv /\ [Next]_vars
          => [LossyContract!Next]_LossyContract!vars
  <2> SUFFICES ASSUME TypeOK, TypeOK', ReceiptInv, PublishInv, [Next]_vars
               PROVE  [LossyContract!Next]_LossyContract!vars
    OBVIOUS
  <2>1. CASE Next
    <3>1. \A t \in Turns : LossyContract!Step(t)
      BY <2>1, NextAllowed, AllowedIsContract
    <3>2. /\ phaseBar' \in [Turns -> LossyContract!Phases]
          /\ executorBar' \in [Turns -> Workers \cup {None}]
          /\ shownBar' \in [Turns -> SUBSET LossyContract!Kinds]
      BY BarTypesNext
    <3> QED BY <3>1, <3>2 DEF LossyContract!Next, LossyContract!ContractTypeOK
  <2>2. CASE UNCHANGED vars
    BY <2>2 DEF vars, LossyContract!vars, phaseBar, executorBar, shownBar
  <2> QED BY <2>1, <2>2
<1> QED BY <1>1, <1>2, TypeCorrect, ReceiptInvariant, PublishInvariant, PTL
        DEF Spec, KeepsLossyContract, LossyContract!Spec

-----------------------------------------------------------------------------
(* While no lease expires under a live executor (~MayLapse), the full      *)
(* contract is kept.                                                       *)
(*                                                                         *)
(* The argument: the session lock lets one worker at a time run frames     *)
(* (SessionInv); what is running therefore belongs to the step that worker *)
(* is at, with unexpired leases (FrameInv); so the sweeper never finds a   *)
(* frame, and only turns of executors that are gone (OwnerInv, SweepInv),  *)
(* which nobody answers or completes any more.                             *)

\* The workers that hold the session: all but those of the shortcut.
InSession == {"lease", "claim", "close"}
             \cup (RunSteps \ {"draftBind", "draftComplete"}) \cup AbortSteps

\* One worker at a time: it alone has frames to execute.
SessionInv ==
    /\ \A w \in Workers :
          pc[w] \in InSession \/ todo[w] # {} \/ cur[w] # None => lock = w
    /\ ~up => \A w \in Workers : ~Alive(w) /\ lock # w

\* A dead owner stays dead, and a live one keeps its receipt.
OwnerInv ==
    /\ \A t \in Turns : receipt[t].owner # None => pc[receipt[t].owner] # "idle"
    /\ \A t \in Turns : IsActive(t) /\ ~receipt[t].live =>
                           ~Alive(receipt[t].owner)
    /\ \A w \in Workers : pc[w] \in {"finalize", "complete"} =>
                             receipt[TurnOf[w]].status = "finalizing"

\* The sweeper finds turns of dead owners and no frames.
SweepInv ==
    /\ sweep.attempts = {} /\ sweep.frames = {}
    /\ \A t \in sweep.turns : /\ receipt[t].status # "completed"
                              /\ ~Alive(receipt[t].owner)

\* A running frame and its run belong to one attempt, and in a process that
\* is up to the worker that executes it for its turn.
Paired(f) ==
    /\ RunActive(f) <=> IsRunning(f)
    /\ IsRunning(f) => /\ frame[f].owner \in Workers
                       /\ run[f].owner = frame[f].owner
                       /\ run[f].attempt = frame[f].attempt
                       /\ run[f].source = frame[f].source

Executes(w, f) ==
    /\ cur[w] = f /\ pc[w] \in {"exec", "cancelling", "interrupt"}
    /\ frame[f].source = TurnOf[w]
    /\ frame[f].live /\ run[f].live

FrameInv ==
    /\ \A f \in Frames : Paired(f)
    /\ up => \A f \in Frames : IsRunning(f) => Executes(frame[f].owner, f)
    /\ \A w \in Workers : \A f \in todo[w] :
          frame[f].status = "queued" => frame[f].source = TurnOf[w]

HealthyInv == SessionInv /\ OwnerInv /\ SweepInv /\ FrameInv

EachTurnOnce == \A v, w \in Workers : TurnOf[v] = TurnOf[w] => v = w
-----------------------------------------------------------------------------
(* The steps of a worker *)

\* The steps of the coordinator between its arrival and its close.
LoopStep(w) ==
    \/ AcquireSession(w) \/ ClaimTurn(w) \/ BindMessage(w) \/ Announce(w)
    \/ CheckPoint(w) \/ PlanTurn(w) \/ PlanCompletion(w)
    \/ StartFrame(w) \/ SkipFrame(w) \/ FinishFrame(w)
    \/ PrepareReply(w) \/ ReserveReply(w) \/ PublishReply(w) \/ CompleteTurn(w)
    \/ Fail(w) \/ MarkCancelled(w) \/ MarkCancelledReceipt(w) \/ CancelReply(w)
    \/ MarkInterrupted(w) \/ MarkInterruptedReceipt(w)

\* Those without the session: the shortcut and the late reports.
SideStep(w) ==
    \/ ErrorReply(w) \/ InterruptedReply(w)
    \/ ArriveDraft(w) \/ DraftClaim(w) \/ DraftBind(w)
    \/ DraftComplete(w) \/ DraftFail(w)

WorkerStep(w) == Arrive(w) \/ LoopStep(w) \/ SideStep(w) \/ Close(w)

\* The requests, the sweeper, the clock and stuttering: no worker moves.
RequestStep ==
    \E t \in Turns : CancelLooks(t) \/ CancelUnclaimed(t) \/ Cancel(t)

LEMMA NextSplit ==
    ASSUME [Next]_vars
    PROVE  \/ up /\ \E w \in Workers : WorkerStep(w)
           \/ up /\ (RequestStep \/ SweepLoad \/ SweepWrite)
           \/ Crash \/ Startup \/ Expire \/ UNCHANGED vars
BY DEF Next, Serve, Execute, WorkerStep, LoopStep, SideStep, RequestStep

LEMMA StepTypes ==
    ASSUME TypeOK
    PROVE  /\ pc \in [Workers -> Steps]
           /\ todo \in [Workers -> SUBSET Frames]
           /\ cur \in [Workers -> Frames \cup {None}]
           /\ \A w \in Workers : pc[w] = "exec" => cur[w] # None
           /\ lock \in Workers \cup {None}
           /\ frame \in [Frames -> Frame] /\ run \in [Frames -> Run]
           /\ ReceiptTypeOK /\ FramesTypeOK
           /\ \A w \in Workers : TurnOf[w] \in Turns
BY RequestsAssumption DEF TypeOK, SessionLeaseTypeOK, FramesTypeOK

\* A worker in the session stays in it until it closes; nobody else moves.
LEMMA LoopMoves ==
    ASSUME TypeOK, NEW w \in Workers, LoopStep(w)
    PROVE  /\ pc[w] \in InSession /\ pc'[w] \in InSession
           /\ UNCHANGED <<lock, sweep, up>>
           /\ \A v \in Workers \ {w} : /\ pc'[v] = pc[v] /\ cur'[v] = cur[v]
                                       /\ todo'[v] = todo[v]
<1>. USE StepTypes DEF InSession, Goto
<1>1. CASE \/ AcquireSession(w) \/ ClaimTurn(w) \/ BindMessage(w) \/ Announce(w)
           \/ CheckPoint(w)
  BY <1>1 DEF AcquireSession, ClaimTurn, BindMessage, Announce, CheckPoint
<1>2. CASE PlanTurn(w) \/ PlanCompletion(w)
  BY <1>2 DEF PlanTurn, PlanCompletion
<1>3. CASE StartFrame(w) \/ SkipFrame(w) \/ FinishFrame(w) \/ PrepareReply(w)
  BY <1>3 DEF StartFrame, SkipFrame, FinishFrame, PrepareReply
<1>4. CASE ReserveReply(w) \/ PublishReply(w) \/ CompleteTurn(w) \/ Fail(w)
  BY <1>4 DEF ReserveReply, PublishReply, CompleteTurn, Fail
<1>5. CASE \/ MarkCancelled(w) \/ MarkCancelledReceipt(w) \/ CancelReply(w)
           \/ MarkInterrupted(w) \/ MarkInterruptedReceipt(w)
  BY <1>5 DEF MarkCancelled, MarkCancelledReceipt, CancelReply,
     MarkInterrupted, MarkInterruptedReceipt, Escape
<1>. QED
  BY <1>1, <1>2, <1>3, <1>4, <1>5 DEF LoopStep

LEMMA SideMoves ==
    ASSUME TypeOK, NEW w \in Workers, SideStep(w)
    PROVE  /\ pc[w] \notin InSession /\ pc'[w] \notin InSession
           /\ pc'[w] # "idle"
           /\ pc[w] = "idle" \/ pc[w] \in {"draftClaim", "draftBind",
                                           "draftComplete"}
                             \/ pc'[w] = "done"
           /\ UNCHANGED <<lock, sweep, up, todo, cur, frame, run, lease>>
           /\ \A v \in Workers \ {w} : pc'[v] = pc[v]
<1>. USE StepTypes DEF InSession, Goto
<1>1. CASE ErrorReply(w) \/ InterruptedReply(w) \/ ArriveDraft(w)
  BY <1>1 DEF ErrorReply, InterruptedReply, ArriveDraft
<1>2. CASE DraftClaim(w) \/ DraftBind(w) \/ DraftFail(w)
  BY <1>2 DEF DraftClaim, DraftBind, DraftFail
<1>3. CASE DraftComplete(w)
  BY <1>3 DEF DraftComplete
<1>. QED
  BY <1>1, <1>2, <1>3 DEF SideStep

LEMMA EdgeMoves ==
    ASSUME TypeOK, NEW w \in Workers
    PROVE  /\ Arrive(w) =>
                 /\ pc[w] = "idle"
                 /\ \/ lock = None /\ lock' = w /\ pc'[w] = "lease"
                    \/ lock' = lock /\ pc'[w] = "done"
                 /\ UNCHANGED <<receipt, sweep, up, todo, cur, frame, run>>
                 /\ \A v \in Workers \ {w} : pc'[v] = pc[v]
           /\ Close(w) =>
                 /\ pc[w] = "close" /\ pc'[w] \in {"done"} \cup ReplySteps
                 /\ lock' = IF lock = w THEN None ELSE lock
                 /\ todo'[w] = {} /\ cur'[w] = None
                 /\ UNCHANGED <<receipt, sweep, up, frame, run>>
                 /\ \A v \in Workers \ {w} :
                       /\ pc'[v] = pc[v] /\ cur'[v] = cur[v]
                       /\ todo'[v] = todo[v]
BY StepTypes DEF TypeOK, Arrive, Close, Goto, LockFree

\* The environment moves no worker, but for the crash, which ends them all.
LEMMA OtherMoves ==
    ASSUME TypeOK
    PROVE  /\ \/ RequestStep \/ SweepLoad \/ SweepWrite \/ Startup \/ Expire
              \/ UNCHANGED vars
              => UNCHANGED <<lock, pc, todo, cur>>
           /\ RequestStep \/ SweepLoad \/ SweepWrite \/ Expire \/ UNCHANGED vars
              => UNCHANGED up
           /\ Crash =>
                 /\ ~up' /\ lock' = None
                 /\ \A w \in Workers :
                       /\ pc'[w] = IF pc[w] = "idle" THEN "idle" ELSE "done"
                       /\ todo'[w] = {} /\ cur'[w] = None
                 /\ UNCHANGED <<receipt, frame, run>>
           /\ Startup => ~up /\ up'
<1>1. RequestStep => UNCHANGED <<lock, pc, todo, cur, up>>
  BY DEF RequestStep, CancelLooks, CancelUnclaimed, Cancel
<1>2. SweepLoad \/ SweepWrite => UNCHANGED <<lock, pc, todo, cur, up>>
  BY DEF SweepLoad, SweepWrite
<1>3. Expire => UNCHANGED <<lock, pc, todo, cur, up>>
  BY DEF Expire, ExpireSessionLease, ExpireTurn, ExpireRun, ExpireFrame
<1>4. Startup => UNCHANGED <<lock, pc, todo, cur>> /\ ~up /\ up'
  BY DEF Startup
<1>5. Crash => /\ ~up' /\ lock' = None
               /\ \A w \in Workers :
                     /\ pc'[w] = IF pc[w] = "idle" THEN "idle" ELSE "done"
                     /\ todo'[w] = {} /\ cur'[w] = None
               /\ UNCHANGED <<receipt, frame, run>>
  BY DEF Crash
<1>. QED
  BY <1>1, <1>2, <1>3, <1>4, <1>5 DEF vars
-----------------------------------------------------------------------------
(* The session *)

LEMMA SessionStep ==
    ASSUME TypeOK, SessionInv, [Next]_vars
    PROVE  SessionInv'
<1>. USE StepTypes, NoneAssumption DEF SessionInv
<1>0. \A v \in Workers : pc[v] \in InSession => Alive(v)
  BY DEF InSession, Alive
<1>1. ASSUME NEW w \in Workers, up, Arrive(w) PROVE SessionInv'
  <2>1. /\ \/ lock = None /\ lock' = w
           \/ lock' = lock /\ pc'[w] = "done"
        /\ UNCHANGED <<up, todo, cur>>
        /\ \A v \in Workers \ {w} : pc'[v] = pc[v]
    BY <1>1, EdgeMoves
  <2>2. "done" \notin InSession
    BY DEF InSession
  <2>. QED
    BY <1>1, <2>1, <2>2
<1>2. ASSUME NEW w \in Workers, up, LoopStep(w) PROVE SessionInv'
  <2>1. lock = w
    BY <1>2, LoopMoves
  <2>. QED
    BY <1>2, <2>1, LoopMoves
<1>3. ASSUME NEW w \in Workers, up, SideStep(w) PROVE SessionInv'
  BY <1>3, SideMoves
<1>4. ASSUME NEW w \in Workers, up, Close(w) PROVE SessionInv'
  <2>1. lock = w
    BY <1>4, EdgeMoves DEF InSession
  <2>. QED
    BY <1>4, <2>1, EdgeMoves, ZenonT(30) DEF InSession
<1>5. CASE Crash
  BY <1>5, OtherMoves DEF InSession, Alive
<1>6. CASE \/ up /\ (RequestStep \/ SweepLoad \/ SweepWrite)
           \/ Startup \/ Expire \/ UNCHANGED vars
  BY <1>6, OtherMoves DEF Alive
<1>. QED
  BY <1>1, <1>2, <1>3, <1>4, <1>5, <1>6, NextSplit DEF WorkerStep
-----------------------------------------------------------------------------
(* The receipts *)

\* Whoever is gone stays gone, and whoever has arrived has arrived.
LEMMA GoneStays ==
    ASSUME TypeOK, [Next]_vars, NEW w \in Workers, pc[w] # "idle"
    PROVE  pc'[w] # "idle" /\ (~Alive(w) => ~Alive(w)')
<1>1. ASSUME NEW v \in Workers, WorkerStep(v)
      PROVE  pc'[w] # "idle" /\ (~Alive(w) => ~Alive(w)')
  <2>1. CASE Arrive(v) \/ Close(v)
    BY <2>1, EdgeMoves, StepTypes DEF Alive
  <2>2. CASE LoopStep(v)
    <3>1. pc[v] \in InSession /\ pc'[v] \in InSession
          /\ (v # w => pc'[w] = pc[w])
      BY <2>2, LoopMoves
    <3>. QED
      BY <3>1 DEF InSession, Alive
  <2>3. CASE SideStep(v)
    BY <2>3, SideMoves, StepTypes DEF Alive
  <2>. QED
    BY <1>1, <2>1, <2>2, <2>3 DEF WorkerStep
<1>2. CASE ~\E v \in Workers : WorkerStep(v)
  BY <1>2, NextSplit, OtherMoves, StepTypes DEF Alive
<1>. QED
  BY <1>1, <1>2

\* What a step does to a receipt.  An active one is settled by its own
\* worker, which is then past its completion, by a cancellation while it is
\* started, or by a recovery when its worker is gone.
ReceiptMoves(t) ==
    LET owner == receipt[t].owner IN
    \/ receipt'[t] = receipt[t]
    \/ /\ receipt[t].status = "none" /\ receipt'[t].status = "started"
       /\ receipt'[t].owner \in Workers /\ receipt'[t].live
       /\ TurnOf[receipt'[t].owner] = t
       /\ pc'[receipt'[t].owner] \in {"bind", "draftBind"}
    \/ /\ SameReceipt(t)
       /\ receipt'[t].live \/ (IsActive(t) /\ ~Alive(owner))
    \/ /\ SettlesAs(t, {"started"}, "finalizing")
       /\ receipt'[t].live = receipt[t].live
    \/ /\ receipt[t].status # "none" /\ receipt'[t].owner = owner
       /\ receipt'[t].status \in TerminalTurnStatuses
       /\ receipt[t].status = "completed" => receipt'[t].status = "completed"
       /\ receipt'[t].status = "completed" =>
             receipt[t].status = "completed" \/ Alive(owner)
       /\ \/ receipt[t].status = "started"
          \/ ~Alive(owner)
          \/ pc'[owner] \notin {"finalize", "complete"}

LEMMA ReceiptsMove ==
    ASSUME TypeOK, ReceiptInv, SessionInv, OwnerInv, SweepInv, ~MayLapse,
           [Next]_vars, NEW t \in Turns
    PROVE  ReceiptMoves(t)
<1>. USE StepTypes
<1>0. /\ receipt \in [Turns -> Receipt]
      /\ receipt[t].status \in {"none"} \cup ActiveTurnStatuses
                                        \cup TerminalTurnStatuses
  BY DEF ReceiptTypeOK, Receipt
<1>1. CASE UNCHANGED receipt
  BY <1>1 DEF ReceiptMoves
<1>2. ASSUME NEW w \in Workers, ClaimTurn(w) \/ DraftClaim(w)
      PROVE  ReceiptMoves(t)
  <2>1. CASE Claim(w, TurnOf[w])
    <3>1. /\ receipt[TurnOf[w]].status = "none"
          /\ receipt' = [receipt EXCEPT ![TurnOf[w]] =
                [status |-> "started", digest |-> DigestOf[w], owner |-> w,
                 live |-> TRUE]]
      BY <2>1 DEF Claim
    <3>2. pc'[w] \in {"bind", "draftBind"}
      BY <1>2, <3>1 DEF ClaimTurn, DraftClaim, Goto
    <3>. QED
      BY <1>0, <3>1, <3>2 DEF ReceiptMoves
  <2>2. CASE ~Claim(w, TurnOf[w])
    BY <1>1, <1>2, <2>2 DEF ClaimTurn, DraftClaim
  <2>. QED
    BY <2>1, <2>2
<1>3. ASSUME NEW w \in Workers, \/ PlanTurn(w) \/ PlanCompletion(w)
                                \/ StartFrame(w) \/ SkipFrame(w)
                                \/ PrepareReply(w)
      PROVE  ReceiptMoves(t)
  <2>1. receipt' = RenewedReceipt(w, TurnOf[w])
    BY <1>3 DEF PlanTurn, PlanCompletion, StartFrame, SkipFrame, PrepareReply,
       RenewLeases
  <2>2. /\ receipt'[t].status = receipt[t].status
        /\ receipt'[t].owner = receipt[t].owner
        /\ receipt'[t] = receipt[t] \/ receipt'[t].live
    BY <1>0, <2>1 DEF RenewedReceipt, Receipt
  <2>. QED
    BY <2>2 DEF ReceiptMoves, SameReceipt
<1>4. ASSUME NEW w \in Workers, ReserveReply(w) PROVE ReceiptMoves(t)
  <2>1. CASE BeginCompletion(w, TurnOf[w])
    <3>1. /\ receipt[TurnOf[w]].status = "started"
          /\ receipt' = [receipt EXCEPT ![TurnOf[w]].status = "finalizing"]
      BY <2>1 DEF BeginCompletion, Fenced
    <3>2. CASE t = TurnOf[w]
      BY <1>0, <3>1, <3>2 DEF ReceiptMoves, SettlesAs, Receipt
    <3>3. CASE t # TurnOf[w]
      BY <1>0, <3>1, <3>3 DEF ReceiptMoves
    <3>. QED
      BY <3>2, <3>3
  <2>2. CASE ~BeginCompletion(w, TurnOf[w])
    BY <1>1, <1>4, <2>2 DEF ReserveReply
  <2>. QED
    BY <2>1, <2>2
<1>5. ASSUME NEW w \in Workers, Alive(w),
             pc'[w] \notin {"finalize", "complete"},
             receipt[TurnOf[w]].owner = w,
             receipt[TurnOf[w]].status \in ActiveTurnStatuses,
             NEW status \in TerminalTurnStatuses,
             receipt' = [receipt EXCEPT ![TurnOf[w]] =
                            Settled(receipt[TurnOf[w]], status)]
      PROVE  ReceiptMoves(t)
  <2>1. CASE t = TurnOf[w]
    <3>1. receipt'[t].status = status /\ receipt'[t].owner = w
      BY <1>0, <1>5, <2>1, SettledType
    <3>. QED
      BY <1>5, <2>1, <3>1 DEF ReceiptMoves, ActiveTurnStatuses,
         TerminalTurnStatuses
  <2>2. CASE t # TurnOf[w]
    BY <1>0, <1>5, <2>2 DEF ReceiptMoves
  <2>. QED
    BY <2>1, <2>2
<1>6. ASSUME NEW w \in Workers, CompleteTurn(w) \/ DraftComplete(w)
      PROVE  ReceiptMoves(t)
  <2>1. CASE Complete(w, TurnOf[w])
    <3>1. pc'[w] \in {"close", "done"} /\ Alive(w)
      BY <1>6, <2>1 DEF CompleteTurn, DraftComplete, Goto, Complete, Fenced,
         Alive
    <3>. QED
      BY <1>5, <2>1, <3>1 DEF Complete, Fenced, TerminalTurnStatuses
  <2>2. CASE ~Complete(w, TurnOf[w])
    BY <1>1, <1>6, <2>2 DEF CompleteTurn, DraftComplete
  <2>. QED
    BY <2>1, <2>2
<1>7. ASSUME NEW w \in Workers, \/ MarkCancelledReceipt(w)
                                \/ MarkInterruptedReceipt(w)
      PROVE  ReceiptMoves(t)
  <2>1. PICK status \in {"cancelled", "failed"} :
           FinishWithError(w, TurnOf[w], status)
    BY <1>7 DEF MarkCancelledReceipt, MarkInterruptedReceipt
  <2>2. pc'[w] \in {"cancelReply", "close"} /\ Alive(w)
    BY <1>7 DEF MarkCancelledReceipt, MarkInterruptedReceipt, Goto, Alive
  <2>3. CASE Fenced(w, TurnOf[w], ActiveTurnStatuses)
    BY <1>5, <2>1, <2>2, <2>3 DEF FinishWithError, Fenced, TerminalTurnStatuses
  <2>4. CASE ~Fenced(w, TurnOf[w], ActiveTurnStatuses)
    BY <1>1, <2>1, <2>4 DEF FinishWithError
  <2>. QED
    BY <2>3, <2>4
<1>8. ASSUME NEW u \in Turns, Cancel(u) PROVE ReceiptMoves(t)
  <2>1. receipt' = CancelledReceipt(u)
    BY <1>8 DEF Cancel
  <2>2. CASE t = u /\ receipt[u].status = "started"
    <3>1. /\ receipt'[t].owner = receipt[t].owner
          /\ receipt'[t].status = "cancelled"
      BY <2>1, <2>2, CancelledReceiptType
    <3>. QED
      BY <2>2, <3>1 DEF ReceiptMoves, TerminalTurnStatuses
  <2>3. CASE ~(t = u /\ receipt[u].status = "started")
    BY <1>0, <2>1, <2>3 DEF CancelledReceipt, ReceiptMoves
  <2>. QED
    BY <2>2, <2>3
<1>9. ASSUME NEW snapshot, receipt' = RecoveredReceipts(snapshot.turns),
             t \in snapshot.turns =>
                /\ receipt[t].status \notin {"none", "completed"}
                /\ ~Alive(receipt[t].owner)
      PROVE  ReceiptMoves(t)
  <2>1. CASE t \in snapshot.turns
    <3>1. /\ receipt'[t].owner = receipt[t].owner
          /\ receipt'[t].status = "failed"
      BY <1>9, <2>1, RecoveredReceiptsType
    <3>. QED
      BY <1>9, <2>1, <3>1 DEF ReceiptMoves, TerminalTurnStatuses
  <2>2. CASE t \notin snapshot.turns
    BY <1>9, <2>2 DEF RecoveredReceipts, ReceiptMoves
  <2>. QED
    BY <2>1, <2>2
<1>10. CASE SweepWrite
  <2>1. t \in sweep.turns => /\ receipt[t].status \notin {"none", "completed"}
                             /\ ~Alive(receipt[t].owner)
    BY DEF SweepInv, ReceiptInv, NothingBeforeClaim
  <2>. QED
    BY <1>9, <1>10, <2>1 DEF SweepWrite, Recover
<1>11. CASE Startup
  <2>1. CASE Orphans(TRUE) = Idle
    BY <1>1, <1>11, <2>1 DEF Startup
  <2>2. CASE Orphans(TRUE) # Idle
    <3>1. receipt' = RecoveredReceipts(Orphans(TRUE).turns)
      BY <1>11, <2>2 DEF Startup, Recover
    <3>2. Orphans(TRUE).turns = OrphanTurns(TRUE)
      BY OrphansType
    <3>3. ~up /\ IsActive(t) => ~Alive(receipt[t].owner)
      BY <1>0 DEF SessionInv, ReceiptInv, OwnersExecute, IsActive,
         ActiveTurnStatuses, ReceiptTypeOK, Receipt
    <3>4. t \in OrphanTurns(TRUE) =>
             /\ receipt[t].status \notin {"none", "completed"}
             /\ ~Alive(receipt[t].owner)
      BY <1>11, <3>3 DEF OrphanTurns, IsActive, ActiveTurnStatuses, Startup
    <3>. QED
      BY <1>9, <3>1, <3>2, <3>4
  <2>. QED
    BY <2>1, <2>2
<1>12. ASSUME NEW u \in Turns, ExpireTurn(u) PROVE ReceiptMoves(t)
  <2>1. IsActive(u) /\ ~Alive(receipt[u].owner)
    BY <1>12 DEF ExpireTurn, Lapses
  <2>2. receipt' = [receipt EXCEPT ![u].live = FALSE]
    BY <1>12 DEF ExpireTurn
  <2>. QED
    BY <1>0, <2>1, <2>2 DEF ReceiptMoves, SameReceipt, Receipt
<1>13. ASSUME NEW w \in Workers, WorkerStep(w)
       PROVE  ReceiptMoves(t)
  <2>1. \/ UNCHANGED receipt
        \/ ClaimTurn(w) \/ DraftClaim(w)
        \/ PlanTurn(w) \/ PlanCompletion(w) \/ StartFrame(w) \/ SkipFrame(w)
        \/ PrepareReply(w) \/ ReserveReply(w)
        \/ CompleteTurn(w) \/ DraftComplete(w)
        \/ MarkCancelledReceipt(w) \/ MarkInterruptedReceipt(w)
    BY <1>13 DEF WorkerStep, LoopStep, SideStep, Arrive, AcquireSession,
       BindMessage, BindUserMessage, Announce, CheckPoint, FinishFrame,
       PublishReply, Fail, MarkCancelled, CancelReply, MarkInterrupted, Close,
       ErrorReply, InterruptedReply, ArriveDraft, DraftBind, DraftFail
  <2>. QED
    BY <1>1, <1>2, <1>3, <1>4, <1>6, <1>7, <2>1
<1>14. CASE \/ RequestStep /\ ~\E u \in Turns : Cancel(u)
            \/ SweepLoad \/ Crash \/ UNCHANGED vars
  BY <1>1, <1>14 DEF RequestStep, CancelLooks, CancelUnclaimed, SweepLoad,
     Crash, vars
<1>15. CASE Expire /\ ~\E u \in Turns : ExpireTurn(u)
  BY <1>1, <1>15 DEF Expire, ExpireSessionLease, ExpireRun, ExpireFrame
<1>. QED
  BY <1>8, <1>10, <1>11, <1>12, <1>13, <1>14, <1>15, NextSplit
     DEF RequestStep, Expire

\* The last steps of a turn begin with its reservation.
LEMMA WayToPublish ==
    ASSUME TypeOK, [Next]_vars, NEW w \in Workers,
           pc'[w] \in {"finalize", "complete"}
    PROVE  \/ pc[w] \in {"finalize", "complete"}
           \/ BeginCompletion(w, TurnOf[w])
<1>. USE StepTypes DEF Goto
<1>1. ASSUME NEW v \in Workers, v # w, WorkerStep(v)
      PROVE  pc'[w] = pc[w]
  BY <1>1, LoopMoves, SideMoves, EdgeMoves DEF WorkerStep
<1>2. CASE Arrive(w) \/ SideStep(w) \/ Close(w)
  BY <1>2, EdgeMoves, SideMoves DEF InSession
<1>3. CASE LoopStep(w)
  <2>1. CASE ReserveReply(w) \/ PublishReply(w)
    BY <2>1 DEF ReserveReply, PublishReply
  <2>2. CASE \/ AcquireSession(w) \/ ClaimTurn(w) \/ BindMessage(w)
             \/ Announce(w) \/ CheckPoint(w) \/ StartFrame(w) \/ SkipFrame(w)
             \/ FinishFrame(w) \/ PrepareReply(w) \/ CompleteTurn(w) \/ Fail(w)
    BY <2>2 DEF AcquireSession, ClaimTurn, BindMessage, Announce, CheckPoint,
       StartFrame, SkipFrame, FinishFrame, PrepareReply, CompleteTurn, Fail
  <2>3. CASE PlanTurn(w) \/ PlanCompletion(w)
    <3>1. pc' \in {[pc EXCEPT ![w] = "interrupt"], [pc EXCEPT ![w] = "frame"]}
      BY <2>3 DEF PlanTurn, PlanCompletion
    <3>. QED
      BY <3>1
  <2>4. CASE \/ MarkCancelled(w) \/ MarkCancelledReceipt(w) \/ CancelReply(w)
             \/ MarkInterrupted(w) \/ MarkInterruptedReceipt(w)
    BY <2>4 DEF MarkCancelled, MarkCancelledReceipt, CancelReply,
       MarkInterrupted, MarkInterruptedReceipt, Escape
  <2>. QED
    BY <1>3, <2>1, <2>2, <2>3, <2>4 DEF LoopStep
<1>4. CASE ~\E v \in Workers : WorkerStep(v)
  BY <1>4, NextSplit, OtherMoves
<1>. QED
  BY <1>1, <1>2, <1>3, <1>4 DEF WorkerStep

LEMMA OwnerStep ==
    ASSUME TypeOK, TypeOK', ReceiptInv, SessionInv, OwnerInv, SweepInv,
           ~MayLapse, [Next]_vars
    PROVE  OwnerInv'
<1>. USE NoneAssumption
<1>0. /\ receipt \in [Turns -> Receipt] /\ receipt' \in [Turns -> Receipt]
      /\ \A t \in Turns : /\ receipt[t].owner \in Workers \cup {None}
                          /\ receipt'[t].owner \in Workers \cup {None}
                          /\ receipt[t].status = "none"
                                <=> receipt[t].owner = None
      /\ \A w \in Workers :
            /\ TurnOf[w] \in Turns
            /\ pc[w] \in RunSteps => receipt[TurnOf[w]].owner = w
  BY RequestsAssumption
     DEF TypeOK, ReceiptTypeOK, Receipt, ReceiptInv, OwnersExecute
<1>1. ASSUME NEW t \in Turns, receipt'[t].owner # None
      PROVE  pc'[receipt'[t].owner] # "idle"
  <2>1. ReceiptMoves(t)
    BY ReceiptsMove
  <2>2. CASE receipt'[t].owner = receipt[t].owner
    BY <1>0, <1>1, <2>2, GoneStays DEF OwnerInv
  <2>3. CASE receipt'[t].owner # receipt[t].owner
    BY <2>1, <2>3 DEF ReceiptMoves, SameReceipt, SettlesAs
  <2>. QED
    BY <2>2, <2>3
<1>2. ASSUME NEW t \in Turns, receipt'[t].status \in ActiveTurnStatuses,
             ~receipt'[t].live
      PROVE  ~Alive(receipt[t].owner)'
  <2>1. receipt'[t].status \notin TerminalTurnStatuses \cup {"none"}
    BY <1>2 DEF ActiveTurnStatuses, TerminalTurnStatuses
  <2>2. /\ receipt'[t].owner = receipt[t].owner
        /\ IsActive(t) /\ ~Alive(receipt[t].owner)
    <3>1. ReceiptMoves(t)
      BY ReceiptsMove
    <3>. QED
      BY <1>2, <2>1, <3>1 DEF ReceiptMoves, SameReceipt, SettlesAs, OwnerInv,
         IsActive, ActiveTurnStatuses
  <2>3. PICK v \in Workers : v = receipt[t].owner /\ pc[v] # "idle"
    BY <1>0, <2>2 DEF OwnerInv, IsActive, ActiveTurnStatuses
  <2>4. ~Alive(v)'
    BY <2>2, <2>3, GoneStays
  <2>. QED
    BY <2>2, <2>3, <2>4 DEF Alive
<1>3. ASSUME NEW w \in Workers, pc'[w] \in {"finalize", "complete"}
      PROVE  receipt'[TurnOf[w]].status = "finalizing"
  <2>1. CASE BeginCompletion(w, TurnOf[w])
    BY <1>0, <2>1, CompletionType DEF TypeOK
  <2>2. CASE pc[w] \in {"finalize", "complete"}
    <3>1. /\ receipt[TurnOf[w]].owner = w /\ Alive(w)
          /\ receipt[TurnOf[w]].status = "finalizing"
      BY <1>0, <2>2 DEF OwnerInv, Alive
    <3>2. ReceiptMoves(TurnOf[w])
      BY <1>0, ReceiptsMove
    <3>. QED
      BY <1>3, <3>1, <3>2 DEF ReceiptMoves, SameReceipt, SettlesAs
  <2>. QED
    BY <1>3, <2>1, <2>2, WayToPublish
<1>. QED
  BY <1>1, <1>2, <1>3 DEF OwnerInv, IsActive
-----------------------------------------------------------------------------
(* The sweeper *)

LEMMA SweepMoves ==
    ASSUME TypeOK, [Next]_vars
    PROVE  \/ sweep' = sweep \/ sweep' = Idle
           \/ up /\ SweepLoad
<1>1. ASSUME NEW w \in Workers, WorkerStep(w) PROVE sweep' = sweep
  BY <1>1, LoopMoves, SideMoves, EdgeMoves DEF WorkerStep
<1>2. RequestStep \/ Startup \/ Expire \/ UNCHANGED vars => sweep' = sweep
  BY DEF RequestStep, CancelLooks, CancelUnclaimed, Cancel, Startup, vars,
     Expire, ExpireSessionLease, ExpireTurn, ExpireRun, ExpireFrame
<1>3. SweepWrite \/ Crash => sweep' = Idle
  BY DEF SweepWrite, Crash
<1>. QED
  BY <1>1, <1>2, <1>3, NextSplit

\* In a process that is up no row of a frame or run is an orphan.
LEMMA NoOrphans ==
    ASSUME FrameInv, up
    PROVE  OrphanRuns(FALSE) = {} /\ OrphanFrames(FALSE) = {}
BY DEF FrameInv, Paired, Executes, OrphanRuns, OrphanFrames, IsRunning,
   RunActive

LEMMA SweepStep ==
    ASSUME TypeOK, ReceiptInv, SessionInv, OwnerInv, SweepInv, FrameInv,
           ~MayLapse, [Next]_vars
    PROVE  SweepInv'
<1>1. CASE sweep' = sweep
  <2>1. ASSUME NEW t \in sweep.turns
        PROVE  receipt'[t].status # "completed" /\ ~Alive(receipt[t].owner)'
    <3>1. t \in Turns /\ sweep \in Snapshot
      BY <2>1 DEF TypeOK, Snapshot
    <3>2. /\ receipt[t].status # "none" /\ receipt[t].status # "completed"
          /\ ~Alive(receipt[t].owner)
      BY <2>1, <3>1 DEF ReceiptInv, NothingBeforeClaim, SweepInv
    <3>3. receipt[t].owner # None /\ receipt[t].owner \in Workers \cup {None}
      BY <3>1, <3>2
         DEF ReceiptInv, OwnersExecute, TypeOK, ReceiptTypeOK, Receipt
    <3>4. PICK v \in Workers : v = receipt[t].owner /\ pc[v] # "idle"
      BY <3>1, <3>3 DEF OwnerInv
    <3>5. ~Alive(v)'
      BY <3>2, <3>4, GoneStays
    <3>6. ReceiptMoves(t)
      BY <3>1, ReceiptsMove
    <3>7. receipt'[t].owner = v /\ receipt'[t].status # "completed"
      BY <3>2, <3>4, <3>6 DEF ReceiptMoves, SameReceipt, SettlesAs
    <3>. QED
      BY <3>5, <3>7 DEF Alive
  <2>. QED
    BY <1>1, <2>1 DEF SweepInv
<1>2. CASE sweep' = Idle
  BY <1>2 DEF SweepInv, Idle
<1>3. CASE up /\ SweepLoad
  <2>1. sweep' = Orphans(FALSE) /\ UNCHANGED <<receipt, pc>>
    BY <1>3 DEF SweepLoad
  <2>2. OrphanRuns(FALSE) = {} /\ OrphanFrames(FALSE) = {}
    BY <1>3, NoOrphans
  <2>3. \A t \in OrphanTurns(FALSE) : /\ t \in Turns /\ IsActive(t)
                                      /\ ~receipt[t].live
    BY <2>2 DEF OrphanTurns
  <2>4. /\ sweep'.turns = OrphanTurns(FALSE)
        /\ sweep'.attempts = {} /\ sweep'.frames = {}
    BY <2>1, <2>2 DEF Orphans
  <2>5. \A t \in OrphanTurns(FALSE) : /\ receipt[t].status # "completed"
                                      /\ ~Alive(receipt[t].owner)
    BY <2>3 DEF OwnerInv, IsActive, ActiveTurnStatuses
  <2>. QED
    BY <2>1, <2>4, <2>5 DEF SweepInv, Alive
<1>. QED
  BY <1>1, <1>2, <1>3, SweepMoves
-----------------------------------------------------------------------------
(* The frames *)

LEMMA SettleFields ==
    /\ \A row \in Frame, status \in FrameStatuses :
          LET new == Settle(row, status) IN
          /\ new.status = status /\ new.source = row.source
          /\ \A t \in Turns : /\ [new EXCEPT !.source = t].status = status
                              /\ [new EXCEPT !.source = t].source = t
    /\ \A row \in Run, status \in RunStatuses :
          Settle(row, status).status = status
BY DEF Settle, Frame, Run

\* Nothing runs but the frame of the worker in the session.
LEMMA OnlyItsFrame ==
    ASSUME TypeOK, SessionInv, FrameInv, up, NEW w \in Workers,
           pc[w] \in InSession, NEW f \in Frames
    PROVE  /\ RunActive(f) <=> IsRunning(f)
           /\ IsRunning(f) => frame[f].owner = w /\ Executes(w, f)
           /\ \A v \in Workers \ {w} : todo[v] = {}
<1>1. IsRunning(f) => frame[f].owner \in Workers /\ Executes(frame[f].owner, f)
  BY DEF FrameInv, Paired
<1>2. \A v \in Workers : Executes(v, f) => v = w
  BY DEF SessionInv, Executes, InSession
<1>. QED
  BY <1>1, <1>2 DEF FrameInv, Paired, SessionInv

\* Frames and runs stay as they are.
LEMMA FramesUntouched ==
    ASSUME TypeOK, FrameInv, UNCHANGED <<frame, run>>,
           up' => up,
           up => \A f \in Frames : IsRunning(f) =>
                    LET v == frame[f].owner IN
                    /\ cur'[v] = cur[v]
                    /\ pc'[v] \in {pc[v], "interrupt", "cancelling"},
           \A w \in Workers : todo'[w] \subseteq todo[w]
    PROVE  FrameInv'
<1>1. \A f \in Frames : Paired(f)'
  BY DEF FrameInv, Paired, IsRunning, RunActive
<1>2. up' => \A f \in Frames : IsRunning(f)' => Executes(frame[f].owner, f)'
  BY DEF FrameInv, Executes, IsRunning
<1>3. \A w \in Workers : \A f \in todo'[w] :
         frame'[f].status = "queued" => frame'[f].source = TurnOf[w]
  BY DEF FrameInv
<1>. QED
  BY <1>1, <1>2, <1>3 DEF FrameInv

\* Nothing runs any more.
LEMMA NothingRuns ==
    ASSUME \A f \in Frames : ~IsRunning(f)' /\ ~RunActive(f)',
           \A w \in Workers : \A f \in todo'[w] :
              frame'[f].status = "queued" => frame'[f].source = TurnOf[w]
    PROVE  FrameInv'
BY DEF FrameInv, Paired

\* The planner finds the frames at rest, and whatever it returns for
\* execution and is queued is queued for this turn.
LEMMA PlanFrames ==
    ASSUME TypeOK, SessionInv, FrameInv, up, NEW w \in Workers,
           PlanTurn(w) \/ PlanCompletion(w)
    PROVE  FrameInv'
<1>. USE StepTypes
<1>1. pc[w] = "plan"
  BY DEF PlanTurn, PlanCompletion
<1>2. \A f \in Frames : ~IsRunning(f) /\ ~RunActive(f)
  BY <1>1, OnlyItsFrame DEF InSession, Executes
<1>3. \A v \in Workers \ {w} : todo[v] = {}
  BY <1>1 DEF SessionInv, InSession
<1>4. CASE UNCHANGED <<frame, run, todo>>
  BY <1>2, <1>4, NothingRuns DEF FrameInv, IsRunning, RunActive
<1>5. ASSUME NEW removed \in SUBSET Frames, NEW plan \in SUBSET Frames,
             plan \cap removed = {},
             PersistPlan(TurnOf[w], plan, removed),
             todo' = [todo EXCEPT ![w] = PlannedRecords(plan)]
      PROVE  FrameInv'
  <2>1. run' = run
    BY <1>2, <1>5 DEF PersistPlan
  <2>2. ASSUME NEW f \in Frames
        PROVE  /\ ~IsRunning(f)'
               /\ f \in PlannedRecords(plan) /\ frame'[f].status = "queued"
                     => frame'[f].source = TurnOf[w]
    <3>1. frame[f] \in Frame /\ TurnOf[w] \in Turns
      OBVIOUS
    <3>2. frame'[f] = IF f \in removed THEN Settle(frame[f], "cancelled")
                      ELSE IF f \in plan /\ Requeues(f)
                      THEN [Settle(frame[f], "queued") EXCEPT !.source =
                               TurnOf[w]]
                      ELSE frame[f]
      BY <1>5 DEF PersistPlan
    <3>3. CASE f \in removed
      BY <1>5, <3>1, <3>2, <3>3, SettleFields DEF PlannedRecords, IsRunning,
         FrameStatuses, TerminalFrameStatuses
    <3>4. CASE f \notin removed /\ f \in plan /\ Requeues(f)
      BY <3>1, <3>2, <3>4, SettleFields DEF IsRunning, FrameStatuses
    <3>5. CASE f \notin removed /\ ~(f \in plan /\ Requeues(f))
      BY <1>2, <3>2, <3>5 DEF PlannedRecords, IsRunning, Requeues,
         TerminalFrameStatuses
    <3>. QED
      BY <3>3, <3>4, <3>5
  <2>3. \A v \in Workers : todo'[v] = IF v = w THEN PlannedRecords(plan) ELSE {}
    BY <1>3, <1>5
  <2>4. PlannedRecords(plan) \subseteq Frames
    BY DEF PlannedRecords
  <2>. QED
    BY <1>2, <2>1, <2>2, <2>3, <2>4, NothingRuns DEF RunActive
<1>6. ASSUME NEW f \in Frames, CompleteTask(f), todo' = todo
      PROVE  FrameInv'
  <2>1. \A g \in Frames : frame'[g] = frame[g] \/ frame'[g].status = "completed"
    BY <1>6, SettleFields DEF CompleteTask, FrameStatuses,
       TerminalFrameStatuses
  <2>. QED
    BY <1>2, <1>6, <2>1, NothingRuns DEF CompleteTask, IsRunning, RunActive,
       FrameInv
<1>7. CASE PlanTurn(w)
  <2>1. PICK removed \in SUBSET Frames, plan \in SUBSET Frames :
           /\ plan \cap removed = {}
           /\ \/ UNCHANGED <<frame, run, todo>>
              \/ /\ PersistPlan(TurnOf[w], plan, removed)
                 /\ todo' = [todo EXCEPT ![w] = PlannedRecords(plan)]
    BY <1>7 DEF PlanTurn
  <2>. QED
    BY <1>4, <1>5, <2>1
<1>8. CASE PlanCompletion(w)
  BY <1>4, <1>6, <1>8 DEF PlanCompletion
<1>. QED
  BY <1>7, <1>8

\* The frame a worker starts is the only one that runs, under its lease and
\* for its turn.
LEMMA StartedFrame ==
    ASSUME TypeOK, SessionInv, FrameInv, up, NEW w \in Workers, StartFrame(w)
    PROVE  FrameInv'
<1>. USE StepTypes
<1>1. pc[w] = "frame" /\ pc'[w] = "exec" /\ todo' = todo
  BY DEF StartFrame, Goto
<1>2. \A f \in Frames : ~IsRunning(f) /\ ~RunActive(f)
  BY <1>1, OnlyItsFrame DEF InSession, Executes
<1>3. PICK f \in todo[w] : StartAttempt(w, f) /\ cur' = [cur EXCEPT ![w] = f]
  BY DEF StartFrame
<1>4. f \in Frames /\ cur'[w] = f /\ frame[f].source = TurnOf[w]
  BY <1>3 DEF FrameInv, StartAttempt
<1>5. \A g \in Frames \ {f} : frame'[g] = frame[g] /\ run'[g] = run[g]
  BY <1>3 DEF StartAttempt
<1>6. /\ frame'[f].status = "running" /\ run'[f].status = "running"
      /\ frame'[f].owner = w /\ run'[f].owner = w
      /\ frame'[f].attempt = run'[f].attempt
      /\ frame'[f].source = frame[f].source /\ run'[f].source = frame[f].source
      /\ frame'[f].live /\ run'[f].live
  BY <1>3, <1>4 DEF StartAttempt
<1>7. \A g \in Frames : Paired(g)'
  BY <1>2, <1>5, <1>6 DEF Paired, IsRunning, RunActive
<1>8. \A g \in Frames : IsRunning(g)' => Executes(frame[g].owner, g)'
  BY <1>1, <1>2, <1>4, <1>5, <1>6 DEF Executes, IsRunning
<1>9. \A v \in Workers : \A g \in todo'[v] :
         frame'[g].status = "queued" => frame'[g].source = TurnOf[v]
  BY <1>1, <1>5, <1>6 DEF FrameInv
<1>. QED
  BY <1>7, <1>8, <1>9 DEF FrameInv

\* Skipped, finished, cancelled or interrupted: afterwards nothing runs.
LEMMA EndedFrame ==
    ASSUME TypeOK, SessionInv, FrameInv, up, NEW w \in Workers,
           \/ SkipFrame(w) \/ FinishFrame(w) \/ MarkCancelled(w)
           \/ MarkInterrupted(w)
    PROVE  FrameInv'
<1>. USE StepTypes
<1>t. \A f \in Frames : /\ frame[f] \in Frame /\ run[f] \in Run
                        /\ TurnOf[w] \in Turns
  OBVIOUS
<1>p. pc[w] \in {"frame", "exec", "cancelling", "interrupt"}
  BY DEF SkipFrame, FinishFrame, MarkCancelled, MarkInterrupted
<1>o. \A f \in Frames : /\ RunActive(f) <=> IsRunning(f)
                        /\ IsRunning(f) => /\ frame[f].owner = w
                                           /\ Executes(w, f)
  BY <1>p, OnlyItsFrame DEF InSession
<1>1. CASE SkipFrame(w)
  <2>1. \A f \in Frames : ~IsRunning(f) /\ ~RunActive(f)
    BY <1>o, <1>1 DEF SkipFrame, Executes
  <2>2. /\ run' = run /\ \A v \in Workers : todo'[v] \subseteq todo[v]
        /\ \A f \in Frames : frame'[f] = frame[f] \/ frame'[f].status = "failed"
    BY <1>1, <1>t, SettleFields DEF SkipFrame, FrameStatuses,
       TerminalFrameStatuses
  <2>. QED
    BY <2>1, <2>2, NothingRuns DEF FrameInv, IsRunning, RunActive
<1>2. CASE FinishFrame(w)
  <2>1. PICK result \in FrameResults : FinishAttempt(w, cur[w], result)
    BY <1>2 DEF FinishFrame
  <2>2. /\ pc[w] = "exec" /\ cur[w] \in Frames
        /\ todo' = [todo EXCEPT ![w] = @ \ {cur[w]}]
    BY <1>2 DEF FinishFrame
  <2>3. \A f \in Frames \ {cur[w]} : /\ ~IsRunning(f) /\ ~RunActive(f)
                                     /\ frame'[f] = frame[f] /\ run'[f] = run[f]
    BY <1>o, <2>1, <2>2 DEF Executes, FinishAttempt
  <2>4. frame'[cur[w]].status # "running" /\ run'[cur[w]].status # "running"
    BY <1>t, <2>1, <2>2, SettleFields DEF FinishAttempt, FrameResults,
       FrameStatuses, TerminalFrameStatuses, RunStatuses
  <2>5. \A f \in Frames : ~IsRunning(f)' /\ ~RunActive(f)'
    BY <2>3, <2>4 DEF IsRunning, RunActive
  <2>6. \A v \in Workers : \A f \in todo'[v] :
           frame'[f].status = "queued" => frame'[f].source = TurnOf[v]
    <3>1. \A v \in Workers : v # w => todo[v] = {}
      BY <2>2 DEF SessionInv, InSession
    <3>. QED
      BY <2>2, <2>3, <3>1 DEF FrameInv
  <2>. QED
    BY <2>5, <2>6, NothingRuns
<1>3. CASE MarkCancelled(w)
  <2>1. ~CancelSourceTurnFenced(TurnOf[w])
    BY <1>o DEF CancelSourceTurnFenced, RunsOfTurn, FramesOfTurn, Executes
  <2>2. CancelSourceTurn(TurnOf[w]) /\ todo' = todo
    BY <1>3, <2>1 DEF MarkCancelled
  <2>3. \A f \in Frames : /\ IsRunning(f) => /\ f \in FramesOfTurn(TurnOf[w])
                                             /\ f \in RunsOfTurn(TurnOf[w])
    BY <1>o DEF FrameInv, Paired, Executes, FramesOfTurn, RunsOfTurn,
       IsRunning, TerminalFrameStatuses
  <2>4. \A f \in Frames :
           /\ frame'[f] = IF f \in FramesOfTurn(TurnOf[w])
                          THEN Settle(frame[f], "cancelled") ELSE frame[f]
           /\ run'[f] = IF f \in RunsOfTurn(TurnOf[w])
                        THEN Settle(run[f], "finished") ELSE run[f]
    BY <2>2 DEF CancelSourceTurn
  <2>5. \A f \in Frames :
           /\ Settle(frame[f], "cancelled").status = "cancelled"
           /\ Settle(run[f], "finished").status = "finished"
    BY <1>t, SettleFields DEF FrameStatuses, TerminalFrameStatuses, RunStatuses
  <2>6. \A f \in Frames : ~IsRunning(f)' /\ ~RunActive(f)'
    BY <1>o, <2>3, <2>4, <2>5 DEF IsRunning, RunActive
  <2>. QED
    BY <2>2, <2>4, <2>5, <2>6, NothingRuns DEF FrameInv
<1>4. CASE MarkInterrupted(w)
  <2>1. \A f \in Frames : IsRunning(f) => cur[w] = f
    BY <1>o DEF Executes
  <2>2. CASE cur[w] = None
    <3>1. UNCHANGED <<frame, run, todo>>
      BY <1>4, <2>2 DEF MarkInterrupted
    <3>. QED
      BY <1>o, <2>1, <2>2, <3>1, NoneAssumption, NothingRuns
         DEF FrameInv, IsRunning, RunActive
  <2>3. CASE cur[w] # None
    <3>1. cur[w] \in Frames
      BY <2>3
    <3>2. ~InterruptFenced(w, cur[w])
      BY <1>o, <3>1 DEF InterruptFenced, Executes
    <3>3. InterruptAttempt(w, cur[w]) /\ todo' = todo
      BY <1>4, <2>3, <3>2 DEF MarkInterrupted
    <3>4. \A f \in Frames \ {cur[w]} : frame'[f] = frame[f] /\ run'[f] = run[f]
      BY <3>3 DEF InterruptAttempt
    <3>5. CASE IsRunning(cur[w])
      <4>1. /\ frame'[cur[w]] = Settle(frame[cur[w]], "queued")
            /\ run'[cur[w]] = Settle(run[cur[w]], "finished")
            /\ frame[cur[w]].source = TurnOf[w]
        BY <1>o, <3>1, <3>3, <3>5 DEF InterruptAttempt, FrameInv, Paired,
           Executes
      <4>2. /\ frame'[cur[w]].status = "queued"
            /\ frame'[cur[w]].source = TurnOf[w]
            /\ run'[cur[w]].status = "finished"
        BY <1>t, <3>1, <4>1, SettleFields DEF FrameStatuses, RunStatuses
      <4>3. \A f \in Frames : ~IsRunning(f)' /\ ~RunActive(f)'
        BY <1>o, <2>1, <3>4, <4>2 DEF IsRunning, RunActive
      <4>4. \A v \in Workers : v # w => todo[v] = {}
        BY <1>p DEF SessionInv, InSession
      <4>. QED
        BY <3>3, <3>4, <4>2, <4>3, <4>4, NothingRuns DEF FrameInv
    <3>6. CASE ~IsRunning(cur[w])
      <4>1. frame'[cur[w]] = frame[cur[w]] /\ run'[cur[w]] = run[cur[w]]
        BY <1>o, <3>1, <3>3, <3>6 DEF InterruptAttempt
      <4>2. \A f \in Frames : frame'[f] = frame[f] /\ run'[f] = run[f]
        BY <3>4, <4>1
      <4>3. \A f \in Frames : ~IsRunning(f) /\ ~RunActive(f)
        BY <1>o, <2>1, <3>6
      <4>. QED
        BY <3>3, <4>2, <4>3, NothingRuns DEF FrameInv, IsRunning, RunActive
    <3>. QED
      BY <3>5, <3>6
  <2>. QED
    BY <2>2, <2>3
<1>. QED
  BY <1>1, <1>2, <1>3, <1>4

\* The other steps of the worker leave frames and runs alone; one that runs
\* a frame stays with it on its way out.
LEMMA QuietFrames ==
    ASSUME TypeOK, SessionInv, FrameInv, up, NEW w \in Workers,
           WorkerStep(w),
           ~(\/ PlanTurn(w) \/ PlanCompletion(w) \/ StartFrame(w)
             \/ SkipFrame(w) \/ FinishFrame(w) \/ MarkCancelled(w)
             \/ MarkInterrupted(w))
    PROVE  FrameInv'
<1>. USE StepTypes DEF Goto
<1>1. UNCHANGED <<frame, run, up>>
  BY DEF WorkerStep, LoopStep, SideStep, Arrive, AcquireSession, ClaimTurn,
     BindMessage, Announce, CheckPoint, PrepareReply, ReserveReply,
     PublishReply, CompleteTurn, Fail, MarkCancelledReceipt, CancelReply,
     MarkInterruptedReceipt, Close, ErrorReply, InterruptedReply, ArriveDraft,
     DraftClaim, DraftBind, DraftComplete, DraftFail
<1>2. \A v \in Workers : /\ todo'[v] \subseteq todo[v]
                         /\ v # w => pc'[v] = pc[v] /\ cur'[v] = cur[v]
  <2>1. CASE Arrive(w) \/ Close(w) \/ SideStep(w)
    BY <2>1, EdgeMoves, SideMoves, ZenonT(30)
  <2>2. CASE LoopStep(w)
    <3>1. todo' = todo
      BY <2>2 DEF LoopStep, AcquireSession, ClaimTurn, BindMessage, Announce,
         CheckPoint, PrepareReply, ReserveReply, PublishReply, CompleteTurn,
         Fail, MarkCancelledReceipt, CancelReply, MarkInterruptedReceipt
    <3>. QED
      BY <2>2, <3>1, LoopMoves
  <2>. QED
    BY <2>1, <2>2 DEF WorkerStep
<1>3. pc[w] \in {"exec", "cancelling", "interrupt"} =>
         /\ cur'[w] = cur[w]
         /\ pc'[w] = "interrupt" \/ pc'[w] = "cancelling"
  <2>1. CASE Arrive(w) \/ Close(w) \/ SideStep(w)
    BY <2>1, EdgeMoves, SideMoves DEF InSession
  <2>2. CASE CheckPoint(w) \/ Fail(w)
    BY <2>2 DEF CheckPoint, Fail
  <2>3. CASE LoopStep(w) /\ ~CheckPoint(w) /\ ~Fail(w)
    BY <2>3 DEF LoopStep, AcquireSession, ClaimTurn, BindMessage, Announce,
       PrepareReply, ReserveReply, PublishReply, CompleteTurn,
       MarkCancelledReceipt, CancelReply, MarkInterruptedReceipt
  <2>. QED
    BY <2>1, <2>2, <2>3 DEF WorkerStep
<1>4. \A f \in Frames : IsRunning(f) =>
         /\ frame[f].owner \in Workers
         /\ pc[frame[f].owner] \in {"exec", "cancelling", "interrupt"}
  BY DEF FrameInv, Paired, Executes
<1>. QED
  BY <1>1, <1>2, <1>3, <1>4, FramesUntouched

\* A restart finds every attempt and every running frame.
LEMMA OrphanRows ==
    ASSUME NEW f \in Frames
    PROVE  /\ RunActive(f) => <<f, run[f].attempt>> \in Orphans(TRUE).attempts
           /\ IsRunning(f) => f \in Orphans(TRUE).frames
           /\ Orphans(TRUE) = Idle => ~RunActive(f)
<1>1. ASSUME NEW startup, startup = TRUE
      PROVE  /\ RunActive(f) =>
                   <<f, run[f].attempt>> \in Orphans(startup).attempts
             /\ IsRunning(f) => f \in Orphans(startup).frames
  BY <1>1 DEF Orphans, OrphanRuns, OrphanFrames
<1>2. Idle.attempts = {}
  BY DEF Idle
<1>. QED
  BY <1>1, <1>2

\* The sweeper, the crash, the restart and the clock.
LEMMA RecoveryFrames ==
    ASSUME TypeOK, SessionInv, SweepInv, FrameInv, ~MayLapse,
           \/ RequestStep \/ SweepLoad \/ SweepWrite \/ Crash \/ Startup
           \/ Expire \/ UNCHANGED vars
    PROVE  FrameInv'
<1>. USE StepTypes
<1>1. CASE \/ RequestStep \/ SweepLoad \/ ExpireSessionLease
           \/ (\E t \in Turns : ExpireTurn(t)) \/ UNCHANGED vars
  <2>1. UNCHANGED <<frame, run, pc, todo, cur, up>>
    BY <1>1 DEF RequestStep, CancelLooks, CancelUnclaimed, Cancel, SweepLoad,
       ExpireSessionLease, ExpireTurn, vars
  <2>. QED
    BY <2>1, FramesUntouched
<1>2. CASE SweepWrite
  <2>1. RecoverFrames({}, {})
    BY <1>2 DEF SweepWrite, Recover, SweepInv
  <2>2. UNCHANGED <<frame, run>>
    BY <2>1 DEF RecoverFrames
  <2>. QED
    BY <1>2, <2>2, OtherMoves, FramesUntouched
<1>3. CASE Crash
  <2>1. /\ UNCHANGED <<frame, run>> /\ ~up'
        /\ \A w \in Workers : todo'[w] = {}
    BY <1>3, OtherMoves
  <2>2. \A f \in Frames : Paired(f)'
    BY <2>1 DEF FrameInv, Paired, IsRunning, RunActive
  <2>. QED
    BY <2>1, <2>2 DEF FrameInv
<1>4. CASE Startup
  <2>1. \A w \in Workers : todo'[w] = {}
    BY <1>4, OtherMoves DEF SessionInv
  <2>2. \A f \in Frames : ~IsRunning(f)' /\ ~RunActive(f)'
    <3>1. CASE Orphans(TRUE) = Idle
      <4>1. \A f \in Frames : ~RunActive(f)
        BY <3>1, OrphanRows
      <4>2. UNCHANGED <<frame, run>>
        BY <1>4, <3>1 DEF Startup
      <4>. QED
        BY <4>1, <4>2 DEF FrameInv, Paired, IsRunning, RunActive
    <3>2. CASE Orphans(TRUE) # Idle
      <4>1. RecoverFrames(Orphans(TRUE).attempts, Orphans(TRUE).frames)
        BY <1>4, <3>2 DEF Startup, Recover
      <4>2. \A f \in Frames :
               /\ RunActive(f) => <<f, run[f].attempt>> \in Orphans(TRUE).attempts
               /\ IsRunning(f) => f \in Orphans(TRUE).frames
        BY OrphanRows
      <4>3. \A f \in Frames :
               /\ Settle(frame[f], "queued").status = "queued"
               /\ Settle(run[f], "abandoned").status = "abandoned"
        BY SettleFields DEF FrameStatuses, RunStatuses
      <4>. QED
        BY <4>1, <4>2, <4>3 DEF RecoverFrames, IsRunning, RunActive
    <3>. QED
      BY <3>1, <3>2
  <2>. QED
    BY <2>1, <2>2, NothingRuns
<1>5. ASSUME NEW f \in Frames, ExpireRun(f) \/ ExpireFrame(f)
      PROVE  FrameInv'
  <2>1. ~up
    <3>1. up /\ IsRunning(f) => /\ frame[f].live /\ run[f].live
                                /\ Alive(run[f].owner)
      BY DEF FrameInv, Paired, Executes, Alive
    <3>2. RunActive(f) <=> IsRunning(f)
      BY DEF FrameInv, Paired
    <3>. QED
      BY <1>5, <3>1, <3>2 DEF ExpireRun, ExpireFrame, Lapses
  <2>2. UNCHANGED <<pc, todo, cur, up>>
    BY <1>5 DEF ExpireRun, ExpireFrame
  <2>3. \A g \in Frames :
           /\ frame'[g].status = frame[g].status
           /\ frame'[g].owner = frame[g].owner
           /\ frame'[g].attempt = frame[g].attempt
           /\ frame'[g].source = frame[g].source
           /\ run'[g].status = run[g].status /\ run'[g].owner = run[g].owner
           /\ run'[g].attempt = run[g].attempt
           /\ run'[g].source = run[g].source
    BY <1>5 DEF ExpireRun, ExpireFrame, Frame, Run
  <2>4. \A g \in Frames : Paired(g)'
    BY <2>3 DEF FrameInv, Paired, IsRunning, RunActive
  <2>. QED
    BY <2>1, <2>2, <2>3, <2>4 DEF FrameInv
<1>. QED
  BY <1>1, <1>2, <1>3, <1>4, <1>5 DEF Expire

LEMMA FrameStep ==
    ASSUME TypeOK, SessionInv, SweepInv, FrameInv, ~MayLapse, [Next]_vars
    PROVE  FrameInv'
BY NextSplit, PlanFrames, StartedFrame, EndedFrame, QuietFrames, RecoveryFrames

(* While executors renew in time (harness_session_lease.py, renew), one    *)
(* worker at a time is in the session, running frames and runs belong to   *)
(* the step it has reached, and the sweeper has loaded no frame and only   *)
(* turns whose owner is dead.  The four parts are inductive together.      *)
THEOREM HealthyInvariant ==
    ASSUME ~MayLapse
    PROVE  Spec => []HealthyInv
<1>1. Init => HealthyInv
  BY NoneAssumption DEF Init, SessionLeaseInit, ReceiptInit, NoReceipt,
     FramesInit, NoFrame, NoRun, Idle, HealthyInv, SessionInv, OwnerInv,
     SweepInv, FrameInv, Paired, InSession, IsActive, ActiveTurnStatuses,
     IsRunning, RunActive
<1>2. TypeOK /\ TypeOK' /\ ReceiptInv /\ HealthyInv /\ [Next]_vars
         => HealthyInv'
  BY SessionStep, OwnerStep, SweepStep, FrameStep DEF HealthyInv
<1>. QED
  BY <1>1, <1>2, TypeCorrect, ReceiptInvariant, PTL DEF Spec
-----------------------------------------------------------------------------
(* The rows of a frame and of its run, whatever lapses.                    *)
(*                                                                         *)
(* Every writer but the sweeper names the status, the owner and the lease  *)
(* it expects, and the sweeper writes what it loaded: each run it loaded   *)
(* of a frame that still runs comes with that frame (OrphansTogether), and *)
(* an attempt that started since has a number it has not seen.             *)

OneAttempt(f) ==
    IsRunning(f) => /\ RunActive(f)
                    /\ run[f].owner = frame[f].owner
                    /\ run[f].attempt = frame[f].attempt
                    /\ run[f].source = frame[f].source

\* Attempt numbers grow, and a frame at rest has no attempt going on.
AttemptsInOrder(f) ==
    /\ run[f].attempt <= frame[f].attempt
    /\ frame[f].status \in {"none", "awaiting_user", "waiting_external_task"}
          => ~RunActive(f)

OrphansTogether(f) ==
    /\ \A n \in Nat : <<f, n>> \in sweep.attempts => n <= frame[f].attempt
    /\ IsRunning(f) /\ <<f, run[f].attempt>> \in sweep.attempts
          => f \in sweep.frames

RowsInv(f) == OneAttempt(f) /\ AttemptsInOrder(f) /\ OrphansTogether(f)

\* The two ways a row goes back that only the sweeper's write has.
Reverts(f) == \/ IsTerminalFrame(f) /\ frame'[f].status # frame[f].status
              \/ ~Overtaken(f) /\ Overtaken(f)'

LEMMA RowFields ==
    ASSUME TypeOK, NEW f \in Frames
    PROVE  /\ frame[f] \in Frame /\ run[f] \in Run
           /\ frame[f].attempt \in Nat /\ run[f].attempt \in Nat
           /\ \A row \in Frame \cup Run : \A status :
                 LET new == Settle(row, status) IN
                 /\ new.status = status /\ new.attempt = row.attempt
                 /\ new.source = row.source
                 /\ \A t : LET moved == [new EXCEPT !.source = t] IN
                       moved.status = status /\ moved.attempt = row.attempt
BY DEF TypeOK, FramesTypeOK, Settle, Frame, Run

\* Nothing of the two rows changes but whether their leases are live.
LeasesApart(f) ==
    /\ frame'[f].status = frame[f].status /\ run'[f].status = run[f].status
    /\ frame'[f].owner = frame[f].owner /\ run'[f].owner = run[f].owner
    /\ frame'[f].attempt = frame[f].attempt
    /\ run'[f].attempt = run[f].attempt
    /\ frame'[f].source = frame[f].source /\ run'[f].source = run[f].source

LEMMA LeaseLapses ==
    ASSUME TypeOK, NEW f \in Frames, NEW g \in Frames,
           ExpireRun(g) \/ ExpireFrame(g)
    PROVE  LeasesApart(f)
<1>1. frame \in [Frames -> Frame] /\ run \in [Frames -> Run]
  BY StepTypes
<1>2. CASE ExpireRun(g)
  BY <1>1, <1>2 DEF ExpireRun, LeasesApart, Run
<1>3. CASE ExpireFrame(g)
  BY <1>1, <1>3 DEF ExpireFrame, LeasesApart, Frame
<1>. QED
  BY <1>2, <1>3

LEMMA RowsUnchanged ==
    ASSUME NEW f \in Frames, frame'[f] = frame[f], run'[f] = run[f]
    PROVE  LeasesApart(f)
BY DEF LeasesApart

LEMMA RowsAlone ==
    ASSUME TypeOK, NEW f \in Frames, RowsInv(f),
           LeasesApart(f),
           UNCHANGED sweep \/ sweep' = Idle
    PROVE  RowsInv(f)' /\ ~Reverts(f)
<1>1. Idle.attempts = {}
  BY DEF Idle
<1>. QED
  BY <1>1 DEF LeasesApart, RowsInv, OneAttempt, AttemptsInOrder,
     OrphansTogether, Reverts, Overtaken, IsRunning, RunActive

\* A step after which the frame does not run: its attempt number stays, and
\* it is settled together with its run unless it is finished.
LEMMA RowsSettled ==
    ASSUME TypeOK, NEW f \in Frames, RowsInv(f),
           ~IsRunning(f)', ~IsTerminalFrame(f),
           frame'[f].attempt = frame[f].attempt,
           run'[f].attempt = run[f].attempt,
           RunActive(f)' => \/ IsTerminalFrame(f)'
                            \/ /\ frame'[f].status = frame[f].status
                               /\ RunActive(f)
                            \/ Overtaken(f) /\ Overtaken(f)',
           UNCHANGED sweep
    PROVE  RowsInv(f)' /\ ~Reverts(f)
<1>. USE DEF RowsInv
<1>1. OneAttempt(f)'
  BY DEF OneAttempt
<1>2. AttemptsInOrder(f)'
  BY DEF AttemptsInOrder, Overtaken, IsTerminalFrame, TerminalFrameStatuses
<1>3. OrphansTogether(f)'
  BY DEF OrphansTogether
<1>4. ~Reverts(f)
  BY DEF Reverts, Overtaken, IsTerminalFrame, TerminalFrameStatuses
<1>. QED
  BY <1>1, <1>2, <1>3, <1>4

\* The plan and the user's end of a task.
LEMMA RowsPlanned ==
    ASSUME TypeOK, NEW f \in Frames, RowsInv(f), NEW w \in Workers,
           PlanTurn(w) \/ PlanCompletion(w)
    PROVE  RowsInv(f)' /\ ~Reverts(f)
<1>. USE RowFields
<1>1. CASE frame'[f] = frame[f] /\ run'[f] = run[f] /\ UNCHANGED sweep
  BY <1>1, RowsUnchanged, RowsAlone
<1>2. ASSUME NEW g \in Frames, CompleteTask(g), ~IsTerminalFrame(g),
             UNCHANGED sweep
      PROVE  RowsInv(f)' /\ ~Reverts(f)
  <2>1. CASE g # f
    BY <1>1, <1>2, <2>1 DEF CompleteTask
  <2>2. CASE g = f
    <3>1. frame'[f] = Settle(frame[f], "completed") /\ run'[f] = run[f]
      BY <1>2, <2>2, StepTypes DEF CompleteTask
    <3>. QED
      BY <1>2, <2>2, <3>1, RowsSettled
         DEF IsRunning, RunActive, IsTerminalFrame, TerminalFrameStatuses
  <2>. QED
    BY <2>1, <2>2
<1>3. ASSUME NEW plan \in SUBSET Frames,
             NEW removed \in SUBSET {g \in Frames : ~IsTerminalFrame(g)},
             PersistPlan(TurnOf[w], plan, removed), UNCHANGED sweep
      PROVE  RowsInv(f)' /\ ~Reverts(f)
  <2>1. /\ frame'[f] = IF f \in removed THEN Settle(frame[f], "cancelled")
                       ELSE IF f \in plan /\ Requeues(f)
                       THEN [Settle(frame[f], "queued")
                                EXCEPT !.source = TurnOf[w]]
                       ELSE frame[f]
        /\ run'[f] = IF f \in plan /\ IsRunning(f) /\ RunActive(f)
                     THEN Settle(run[f], "abandoned") ELSE run[f]
    BY <1>3 DEF PersistPlan
  <2>2. CASE f \in removed
    BY <1>3, <2>1, <2>2, RowsSettled
       DEF IsRunning, RunActive, IsTerminalFrame, TerminalFrameStatuses
  <2>3. CASE f \notin removed /\ f \in plan /\ Requeues(f)
    <3>1. /\ frame'[f].status = "queued"
          /\ frame'[f].attempt = frame[f].attempt
          /\ run'[f].attempt = run[f].attempt
      BY <2>1, <2>3
    <3>2. RunActive(f)' => RunActive(f) /\ ~IsRunning(f)
      BY <2>1, <2>3 DEF RowsInv, OneAttempt, RunActive
    <3>3. RunActive(f)' => frame[f].status = "queued"
      BY <2>3, <3>2 DEF Requeues, RowsInv, AttemptsInOrder, IsRunning, Frame,
         FrameStatuses
    <3>. QED
      BY <1>3, <2>3, <3>1, <3>2, <3>3, RowsSettled
         DEF Requeues, IsTerminalFrame, IsRunning
  <2>4. CASE f \notin removed /\ ~(f \in plan /\ Requeues(f))
    <3>1. frame'[f] = frame[f] /\ (f \in plan => ~IsRunning(f))
      BY <2>1, <2>4 DEF Requeues, IsRunning, TerminalFrameStatuses
    <3>. QED
      BY <1>1, <1>3, <2>1, <3>1
  <2>. QED
    BY <2>2, <2>3, <2>4
<1>4. UNCHANGED sweep
  BY DEF PlanTurn, PlanCompletion
<1>5. CASE PlanCompletion(w)
  BY <1>1, <1>2, <1>4, <1>5 DEF PlanCompletion
<1>6. CASE PlanTurn(w)
  <2>1. \/ UNCHANGED <<frame, run>>
        \/ \E removed \in SUBSET {g \in Frames : /\ frame[g].status # "none"
                                                 /\ ~IsTerminalFrame(g)},
              plan \in SUBSET Frames : PersistPlan(TurnOf[w], plan, removed)
    BY <1>6 DEF PlanTurn
  <2>. QED
    BY <1>1, <1>3, <1>4, <2>1
<1>. QED
  BY <1>5, <1>6

\* A new attempt carries a number that neither its run nor the sweeper has.
LEMMA RowsStarted ==
    ASSUME TypeOK, NEW f \in Frames, RowsInv(f), NEW w \in Workers,
           StartFrame(w)
    PROVE  RowsInv(f)' /\ ~Reverts(f)
<1>. USE RowFields
<1>1. PICK g \in Frames : StartAttempt(w, g)
  BY StepTypes DEF StartFrame
<1>2. UNCHANGED sweep
  BY DEF StartFrame
<1>3. CASE g # f
  <2>1. frame'[f] = frame[f] /\ run'[f] = run[f]
    BY <1>1, <1>3 DEF StartAttempt
  <2>. QED
    BY <1>2, <2>1, RowsUnchanged, RowsAlone
<1>4. CASE g = f
  <2>1. /\ frame[f].status = "queued"
        /\ frame'[f].status = "running" /\ run'[f].status = "running"
        /\ frame'[f].owner = w /\ run'[f].owner = w
        /\ frame'[f].attempt = frame[f].attempt + 1
        /\ run'[f].attempt = frame[f].attempt + 1
        /\ frame'[f].source = frame[f].source
        /\ run'[f].source = frame[f].source
    BY <1>1, <1>4, StepTypes DEF StartAttempt
  <2>2. <<f, run'[f].attempt>> \notin sweep'.attempts
    BY <1>2, <2>1 DEF RowsInv, OrphansTogether
  <2>3. \A n \in Nat : <<f, n>> \in sweep'.attempts => n <= frame'[f].attempt
    BY <1>2, <2>1 DEF RowsInv, OrphansTogether
  <2>. QED
    BY <2>1, <2>2, <2>3 DEF RowsInv, OneAttempt, AttemptsInOrder,
       OrphansTogether, Reverts, Overtaken, IsRunning, RunActive,
       IsTerminalFrame, TerminalFrameStatuses
<1>. QED
  BY <1>3, <1>4

\* The frame of an attempt that ends under its fences.
LEMMA RowsEnded ==
    ASSUME TypeOK, NEW f \in Frames, RowsInv(f), NEW w \in Workers,
           \/ SkipFrame(w) \/ FinishFrame(w)
           \/ MarkCancelled(w) \/ MarkInterrupted(w)
    PROVE  RowsInv(f)' /\ ~Reverts(f)
<1>. USE RowFields, StepTypes
<1>0. UNCHANGED sweep
  BY DEF SkipFrame, FinishFrame, MarkCancelled, MarkInterrupted
<1>1. CASE frame'[f] = frame[f] /\ run'[f] = run[f]
  BY <1>0, <1>1, RowsUnchanged, RowsAlone
<1>2. CASE SkipFrame(w)
  <2>1. run'[f] = run[f]
    BY <1>2 DEF SkipFrame
  <2>2. \/ frame'[f] = frame[f]
        \/ /\ frame[f].status = "queued"
           /\ frame'[f] = Settle(frame[f], "failed")
    BY <1>2 DEF SkipFrame
  <2>. QED
    BY <1>0, <1>1, <2>1, <2>2, RowsSettled
       DEF IsRunning, RunActive, IsTerminalFrame, TerminalFrameStatuses
<1>3. CASE FinishFrame(w)
  <2>1. PICK result \in FrameResults : FinishAttempt(w, cur[w], result)
    BY <1>3 DEF FinishFrame
  <2>2. CASE cur[w] # f
    BY <1>1, <2>1, <2>2 DEF FinishAttempt
  <2>3. CASE cur[w] = f
    <3>1. /\ IsRunning(f) /\ frame'[f] = Settle(frame[f], result)
          /\ run'[f] = Settle(run[f], "finished")
      BY <2>1, <2>3 DEF FinishAttempt, OwnsFrame
    <3>2. result # "running"
      BY DEF FrameResults
    <3>. QED
      BY <1>0, <3>1, <3>2, RowsSettled
         DEF IsRunning, RunActive, IsTerminalFrame, TerminalFrameStatuses
  <2>. QED
    BY <2>2, <2>3
<1>4. CASE MarkCancelled(w)
  <2>1. UNCHANGED <<frame, run>> \/ CancelSourceTurn(TurnOf[w])
    BY <1>4 DEF MarkCancelled, Escape
  <2>2. CASE CancelSourceTurn(TurnOf[w])
    <3>1. /\ frame'[f] = IF f \in FramesOfTurn(TurnOf[w])
                         THEN Settle(frame[f], "cancelled") ELSE frame[f]
          /\ run'[f] = IF f \in RunsOfTurn(TurnOf[w])
                       THEN Settle(run[f], "finished") ELSE run[f]
      BY <2>2 DEF CancelSourceTurn
    <3>2. CASE f \in FramesOfTurn(TurnOf[w])
      BY <1>0, <3>1, <3>2, RowsSettled
         DEF FramesOfTurn, IsRunning, RunActive, IsTerminalFrame,
             TerminalFrameStatuses
    <3>3. CASE f \notin FramesOfTurn(TurnOf[w]) /\ f \in RunsOfTurn(TurnOf[w])
      <4>1. /\ frame'[f] = frame[f] /\ run'[f] = Settle(run[f], "finished")
            /\ frame[f].source = TurnOf[w] => IsTerminalFrame(f)
        BY <3>1, <3>3 DEF FramesOfTurn, IsTerminalFrame
      <4>2. ~IsRunning(f)
        BY <3>3, <4>1 DEF RunsOfTurn, RowsInv, OneAttempt, IsRunning,
           IsTerminalFrame, TerminalFrameStatuses
      <4>3. ~RunActive(f)' /\ run'[f].attempt = run[f].attempt
        BY <4>1 DEF RunActive
      <4>. QED
        BY <1>0, <4>1, <4>2, <4>3 DEF RowsInv, OneAttempt, AttemptsInOrder,
           OrphansTogether, Reverts, Overtaken, IsRunning, RunActive
    <3>4. CASE /\ f \notin FramesOfTurn(TurnOf[w])
               /\ f \notin RunsOfTurn(TurnOf[w])
      BY <1>1, <3>1, <3>4
    <3>. QED
      BY <3>2, <3>3, <3>4
  <2>. QED
    BY <1>1, <2>1, <2>2
<1>5. CASE MarkInterrupted(w)
  <2>1. \/ UNCHANGED <<frame, run>>
        \/ cur[w] \in Frames /\ InterruptAttempt(w, cur[w])
    BY <1>5 DEF MarkInterrupted, Escape
  <2>2. CASE cur[w] # f /\ InterruptAttempt(w, cur[w])
    BY <1>1, <2>2 DEF InterruptAttempt
  <2>3. CASE InterruptAttempt(w, f)
    <3>1. /\ frame'[f] = IF IsRunning(f) /\ frame[f].owner = w
                         THEN Settle(frame[f], "queued") ELSE frame[f]
          /\ run'[f] = IF RunActive(f) /\ run[f].owner = w
                       THEN Settle(run[f], "finished") ELSE run[f]
      BY <2>3 DEF InterruptAttempt
    <3>2. CASE IsRunning(f) /\ frame[f].owner = w
      <4>1. RunActive(f) /\ run[f].owner = w
        BY <3>2 DEF RowsInv, OneAttempt
      <4>. QED
        BY <1>0, <3>1, <3>2, <4>1, RowsSettled
           DEF IsRunning, RunActive, IsTerminalFrame, TerminalFrameStatuses
    <3>3. CASE ~(IsRunning(f) /\ frame[f].owner = w)
               /\ RunActive(f) /\ run[f].owner = w
      <4>1. frame'[f] = frame[f] /\ run'[f] = Settle(run[f], "finished")
        BY <3>1, <3>3
      <4>2. ~IsRunning(f)
        BY <3>3 DEF RowsInv, OneAttempt
      <4>3. ~RunActive(f)' /\ run'[f].attempt = run[f].attempt
        BY <4>1 DEF RunActive
      <4>. QED
        BY <1>0, <4>1, <4>2, <4>3 DEF RowsInv, OneAttempt, AttemptsInOrder,
           OrphansTogether, Reverts, Overtaken, IsRunning, RunActive
    <3>4. CASE /\ ~(IsRunning(f) /\ frame[f].owner = w)
               /\ ~(RunActive(f) /\ run[f].owner = w)
      BY <1>1, <3>1, <3>4
    <3>. QED
      BY <3>2, <3>3, <3>4
  <2>. QED
    BY <1>1, <2>1, <2>2, <2>3
<1>. QED
  BY <1>2, <1>3, <1>4, <1>5

\* What recovery writes, given that it has each loaded run's running frame.
LEMMA RowsRecovered ==
    ASSUME TypeOK, NEW f \in Frames, RowsInv(f), NEW attempts, NEW frames,
           RecoverFrames(attempts, frames),
           IsRunning(f) /\ <<f, run[f].attempt>> \in attempts => f \in frames,
           UNCHANGED sweep \/ sweep' = Idle
    PROVE  /\ RowsInv(f)'
           /\ f \notin frames => ~Reverts(f)
<1>. USE RowFields
<1>0. Idle.attempts = {}
  BY DEF Idle
<1>1. /\ frame'[f] = IF f \in frames THEN Settle(frame[f], "queued")
                                     ELSE frame[f]
      /\ run'[f] = IF <<f, run[f].attempt>> \in attempts
                   THEN Settle(run[f], "abandoned") ELSE run[f]
  BY DEF RecoverFrames
<1>2. CASE f \in frames
  <2>1. /\ ~IsRunning(f)' /\ frame'[f].status = "queued"
        /\ frame'[f].attempt = frame[f].attempt
        /\ run'[f].attempt = run[f].attempt
    BY <1>1, <1>2 DEF IsRunning
  <2>. QED
    BY <1>0, <1>2, <2>1 DEF RowsInv, OneAttempt, AttemptsInOrder,
       OrphansTogether
<1>3. CASE f \notin frames /\ <<f, run[f].attempt>> \in attempts
  <2>1. /\ frame'[f] = frame[f] /\ ~IsRunning(f)
        /\ ~RunActive(f)' /\ run'[f].attempt = run[f].attempt
    BY <1>1, <1>3 DEF RunActive
  <2>. QED
    BY <1>0, <2>1 DEF RowsInv, OneAttempt, AttemptsInOrder,
       OrphansTogether, Reverts, Overtaken, IsRunning, RunActive
<1>4. CASE f \notin frames /\ <<f, run[f].attempt>> \notin attempts
  BY <1>1, <1>4, RowsUnchanged, RowsAlone
<1>. QED
  BY <1>2, <1>3, <1>4

\* The rows that recovery loads: no run without its running frame.
LEMMA RowsLoaded ==
    ASSUME NEW startup \in BOOLEAN, NEW f \in Frames
    PROVE  /\ \A n : <<f, n>> \in Orphans(startup).attempts =>
                 n = run[f].attempt
           /\ IsRunning(f) /\ <<f, run[f].attempt>> \in Orphans(startup).attempts
                 => f \in Orphans(startup).frames
           /\ f \in Orphans(startup).frames => IsRunning(f)
<1>1. \A n : <<f, n>> \in Orphans(startup).attempts
               <=> n = run[f].attempt /\ f \in OrphanRuns(startup)
  BY DEF Orphans
<1>2. f \in Orphans(startup).frames
         <=> /\ f \in OrphanFrames(startup) \/ f \in OrphanRuns(startup)
             /\ IsRunning(f)
  BY DEF Orphans
<1>. QED
  BY <1>1, <1>2

LEMMA RowsStep ==
    ASSUME TypeOK, NEW f \in Frames, RowsInv(f), [Next]_vars
    PROVE  RowsInv(f)' /\ (Reverts(f) => f \in sweep.frames)
<1>. USE RowFields, StepTypes
<1>1. CASE UNCHANGED <<frame, run, sweep>>
  BY <1>1, RowsUnchanged, RowsAlone
<1>2. ASSUME NEW w \in Workers, WorkerStep(w)
      PROVE  RowsInv(f)' /\ ~Reverts(f)
  <2>1. \/ UNCHANGED <<frame, run, sweep>>
        \/ PlanTurn(w) \/ PlanCompletion(w) \/ StartFrame(w)
        \/ SkipFrame(w) \/ FinishFrame(w)
        \/ MarkCancelled(w) \/ MarkInterrupted(w)
    BY <1>2 DEF WorkerStep, LoopStep, SideStep, Arrive, AcquireSession,
       ClaimTurn, BindMessage, Announce, CheckPoint, PrepareReply,
       ReserveReply, PublishReply, CompleteTurn, Fail, MarkCancelledReceipt,
       CancelReply, MarkInterruptedReceipt, Close, ErrorReply,
       InterruptedReply, ArriveDraft, DraftClaim, DraftBind, DraftComplete,
       DraftFail
  <2>2. CASE UNCHANGED <<frame, run, sweep>>
    BY <2>2, RowsUnchanged, RowsAlone
  <2>. QED
    BY <2>1, <2>2, RowsPlanned, RowsStarted, RowsEnded
<1>3. CASE RequestStep \/ UNCHANGED vars
  BY <1>1, <1>3 DEF RequestStep, CancelLooks, CancelUnclaimed, Cancel, vars
<1>4. CASE SweepLoad
  <2>1. UNCHANGED <<frame, run>> /\ sweep' = Orphans(FALSE)
    BY <1>4 DEF SweepLoad
  <2>2. OrphansTogether(f)'
    BY <2>1, RowsLoaded DEF RowsInv, AttemptsInOrder, OrphansTogether,
       IsRunning
  <2>. QED
    BY <2>1, <2>2 DEF RowsInv, OneAttempt, AttemptsInOrder, Reverts,
       Overtaken, IsRunning, RunActive
<1>5. CASE SweepWrite
  <2>1. RecoverFrames(sweep.attempts, sweep.frames) /\ sweep' = Idle
    BY <1>5 DEF SweepWrite, Recover
  <2>. QED
    BY <2>1, RowsRecovered DEF RowsInv, OrphansTogether
<1>6. CASE Crash
  BY <1>6, RowsUnchanged, RowsAlone DEF Crash
<1>7. CASE Startup
  <2>1. UNCHANGED sweep
    BY <1>7 DEF Startup
  <2>2. CASE Orphans(TRUE) = Idle
    BY <1>1, <1>7, <2>1, <2>2 DEF Startup
  <2>3. CASE Orphans(TRUE) # Idle
    <3>1. RecoverFrames(Orphans(TRUE).attempts, Orphans(TRUE).frames)
      BY <1>7, <2>3 DEF Startup, Recover
    <3>2. /\ RowsInv(f)'
          /\ f \notin Orphans(TRUE).frames => ~Reverts(f)
      BY <2>1, <3>1, RowsLoaded, RowsRecovered
    <3>3. f \in Orphans(TRUE).frames => ~Reverts(f)
      <4>1. SUFFICES ASSUME f \in Orphans(TRUE).frames
                     PROVE  ~Reverts(f)
        OBVIOUS
      <4>2. IsRunning(f) /\ RunActive(f)
        BY <4>1, RowsLoaded DEF RowsInv, OneAttempt
      <4>3. <<f, run[f].attempt>> \in Orphans(TRUE).attempts
        BY <4>2, OrphanRows
      <4>4. ~RunActive(f)'
        BY <3>1, <4>3 DEF RecoverFrames, RunActive
      <4>. QED
        BY <4>2, <4>4 DEF Reverts, Overtaken, IsRunning, IsTerminalFrame,
           TerminalFrameStatuses
    <3>. QED
      BY <3>2, <3>3
  <2>. QED
    BY <2>2, <2>3
<1>8. CASE Expire
  <2>1. CASE ExpireSessionLease \/ \E t \in Turns : ExpireTurn(t)
    BY <1>1, <2>1 DEF ExpireSessionLease, ExpireTurn
  <2>2. ASSUME NEW g \in Frames, ExpireRun(g) \/ ExpireFrame(g)
        PROVE  RowsInv(f)' /\ ~Reverts(f)
    <3>1. LeasesApart(f)
      BY <2>2, LeaseLapses
    <3>2. UNCHANGED sweep
      BY <2>2 DEF ExpireRun, ExpireFrame
    <3>. QED
      BY <3>1, <3>2, RowsAlone
  <2>. QED
    BY <1>8, <2>1, <2>2 DEF Expire
<1>. QED
  BY <1>2, <1>3, <1>4, <1>5, <1>6, <1>7, <1>8, NextSplit

THEOREM RowsInvariant == Spec => [](\A f \in Frames : RowsInv(f))
<1>1. Init => \A f \in Frames : RowsInv(f)
  BY DEF Init, FramesInit, NoFrame, NoRun, Idle, RowsInv, OneAttempt,
     AttemptsInOrder, OrphansTogether, IsRunning, RunActive
<1>2. TypeOK /\ (\A f \in Frames : RowsInv(f)) /\ [Next]_vars
         => (\A f \in Frames : RowsInv(f))'
  BY RowsStep
<1>. QED
  BY <1>1, <1>2, TypeCorrect, PTL DEF Spec

(* A frame marked running has its run, still running, of the same worker   *)
(* and the same attempt (mark_running and start_run, finish_run and        *)
(* finish_frame, the sweeper's writes), whatever leases lapse.             *)
THEOREM AttemptsArePaired == Spec => []AttemptsPaired
<1>1. (\A f \in Frames : RowsInv(f)) => AttemptsPaired
  BY DEF RowsInv, OneAttempt, AttemptsPaired
<1>. QED
  BY <1>1, RowsInvariant, PTL

(* Whatever lapses, nothing but the sweeper's write of a row it loaded     *)
(* while it ran brings a finished task back, or queues a task whose        *)
(* attempt is still marked running.                                        *)
THEOREM OnlySweepersRevive == Spec => OnlySweepRevives
<1>1. TypeOK /\ (\A f \in Frames : RowsInv(f)) /\ [Next]_vars
         => [\A f \in Frames :
                \/ IsTerminalFrame(f) /\ frame'[f].status # frame[f].status
                \/ ~Overtaken(f) /\ Overtaken(f)'
                => f \in sweep.frames]_vars
  BY RowsStep DEF Reverts
<1>. QED
  BY <1>1, RowsInvariant, TypeCorrect, PTL DEF Spec, OnlySweepRevives
-----------------------------------------------------------------------------
(* The contract of a client_turn_id *)

\* What the contract adds to the lossy one: a completed turn is not failed,
\* and a failed one is not answered.
LEMMA StrictStep ==
    ASSUME NEW t \in Turns, LossyContract!Step(t),
           phaseBar[t] = "completed" => phaseBar'[t] # "failed",
           phaseBar[t] = "failed" /\ "reply" \in shownBar'[t]
              => "reply" \in shownBar[t]
    PROVE  Contract!Step(t)
<1>. USE DEF Contract!Step, Contract!Moves, Contract!Stays, Contract!Shows,
             LossyContract!Moves, LossyContract!Stays, LossyContract!Shows
<1>1. CASE LossyContract!Grant(t)
  BY <1>1 DEF LossyContract!Grant, Contract!Grant
<1>2. CASE LossyContract!Reserve(t)
  BY <1>2 DEF LossyContract!Reserve, Contract!Reserve
<1>3. CASE LossyContract!Reply(t)
  <2>1. CASE phaseBar[t] = "publishing"
    BY <1>3, <2>1 DEF LossyContract!Reply, Contract!Reply
  <2>2. CASE phaseBar[t] = "failed"
    <3>1. shownBar'[t] = shownBar[t] \cup {}
      BY <1>3, <2>2 DEF LossyContract!Reply
    <3>. QED
      BY <1>3, <3>1 DEF LossyContract!Reply
  <2>. QED
    BY <1>3, <2>1, <2>2 DEF LossyContract!Reply
<1>4. CASE LossyContract!Complete(t)
  BY <1>4 DEF LossyContract!Complete, Contract!Complete
<1>5. CASE LossyContract!Cancel(t)
  BY <1>5 DEF LossyContract!Cancel, Contract!Cancel
<1>6. CASE LossyContract!TellCancelled(t)
  BY <1>6 DEF LossyContract!TellCancelled, Contract!TellCancelled
<1>7. CASE LossyContract!Fail(t)
  <2>1. CASE phaseBar[t] = "failed"
    BY <1>7, <2>1 DEF LossyContract!Fail, Contract!TellFailure
  <2>2. CASE phaseBar[t] # "failed"
    BY <1>7, <2>2 DEF LossyContract!Fail, Contract!Fail
  <2>. QED
    BY <2>1, <2>2
<1>8. CASE LossyContract!TellFailure(t)
  BY <1>8 DEF LossyContract!TellFailure, Contract!TellFailure
<1>9. CASE LossyContract!Stays(t) /\ LossyContract!Shows(t, {})
  BY <1>9
<1>. QED
  BY <1>1, <1>2, <1>3, <1>4, <1>5, <1>6, <1>7, <1>8, <1>9
     DEF LossyContract!Step

\* A reply is shown by the worker that has reserved it, or by the shortcut
\* with its completion.
LEMMA ReplyWhileActive ==
    ASSUME TypeOK, OwnerInv, [Next]_vars, NEW t \in Turns,
           "reply" \in messages'[t], "reply" \notin messages[t]
    PROVE  IsActive(t)
<1>. USE DEF Show, ShowIfNone
<1>0. messages \in [Turns -> SUBSET MessageKinds]
  BY DEF TypeOK
<1>1. ASSUME NEW w \in Workers, PublishReply(w)
      PROVE  IsActive(t)
  BY <1>0, <1>1 DEF PublishReply, OwnerInv, IsActive, ActiveTurnStatuses
<1>2. ASSUME NEW w \in Workers, DraftComplete(w)
      PROVE  IsActive(t)
  BY <1>0, <1>2 DEF DraftComplete, Complete, Fenced, IsActive
<1>3. ASSUME NEW w \in Workers,
             CancelReply(w) \/ ErrorReply(w) \/ InterruptedReply(w)
      PROVE  FALSE
  BY <1>0, <1>3 DEF CancelReply, ErrorReply, InterruptedReply
<1>4. ASSUME NEW w \in Workers, WorkerStep(w)
      PROVE  IsActive(t)
  <2>1. \/ UNCHANGED messages \/ PublishReply(w) \/ DraftComplete(w)
        \/ CancelReply(w) \/ ErrorReply(w) \/ InterruptedReply(w)
    BY <1>4 DEF WorkerStep, LoopStep, SideStep, Arrive, AcquireSession,
       ClaimTurn, BindMessage, Announce, CheckPoint, PlanTurn, PlanCompletion,
       StartFrame, SkipFrame, FinishFrame, PrepareReply, ReserveReply,
       CompleteTurn, Fail, MarkCancelled, MarkCancelledReceipt,
       MarkInterrupted, MarkInterruptedReceipt, Close, ArriveDraft,
       DraftClaim, DraftBind, DraftFail
  <2>. QED
    BY <1>1, <1>2, <1>3, <2>1
<1>5. RequestStep => "reply" \notin messages'[t]
  BY <1>0 DEF RequestStep, CancelLooks, CancelUnclaimed, Cancel, CancelMessage
<1>6. SweepWrite \/ Startup => "reply" \notin messages'[t]
  <2>1. ASSUME NEW snapshot, Recover(snapshot)
        PROVE  "reply" \notin messages'[t]
    BY <2>1 DEF Recover, RecoveryReply
  <2>. QED
    BY <2>1 DEF SweepWrite, Startup
<1>7. SweepLoad \/ Crash \/ Expire \/ UNCHANGED vars => UNCHANGED messages
  BY DEF SweepLoad, Crash, Expire, ExpireSessionLease, ExpireTurn, ExpireRun,
     ExpireFrame, vars
<1>. QED
  BY <1>4, <1>5, <1>6, <1>7, NextSplit

LEMMA StrictlyAllowed ==
    ASSUME TypeOK, TypeOK', ReceiptInv, PublishInv, HealthyInv,
           ~MayLapse, ~MayStall, Next, NEW t \in Turns
    PROVE  Contract!Step(t)
<1>1. LossyContract!Step(t)
  BY NextAllowed, AllowedIsContract
<1>2. /\ phaseBar[t] = PhaseOf(receipt[t].status)
      /\ phaseBar'[t] = PhaseOf(receipt'[t].status)
      /\ shownBar[t] = KindsOf(messages[t])
      /\ shownBar'[t] = KindsOf(messages'[t])
  BY DEF phaseBar, shownBar
<1>3. /\ receipt[t].status \in {"none", "started", "finalizing", "completed",
                                "failed", "cancelled"}
      /\ PhaseOf(receipt[t].status) = "completed"
            => receipt[t].status = "completed"
      /\ PhaseOf(receipt[t].status) = "failed" => receipt[t].status = "failed"
  BY DEF TypeOK, ReceiptTypeOK, Receipt, ActiveTurnStatuses,
     TerminalTurnStatuses, PhaseOf
<1>4. PhaseOf("completed") # "failed"
  BY DEF PhaseOf
<1>5. receipt[t].status = "completed" => receipt'[t].status = "completed"
  BY ReceiptsMove DEF HealthyInv, ReceiptMoves, SameReceipt, SettlesAs
<1>6. /\ messages[t] \in SUBSET MessageKinds
      /\ messages'[t] \in SUBSET MessageKinds
  BY DEF TypeOK
<1>7. receipt[t].status = "failed" /\ "reply" \in messages'[t]
         => "reply" \in messages[t]
  BY ReplyWhileActive DEF HealthyInv, IsActive, ActiveTurnStatuses
<1>8. /\ "reply" \in KindsOf(messages[t]) <=> "reply" \in messages[t]
      /\ "reply" \in KindsOf(messages'[t]) <=> "reply" \in messages'[t]
  BY <1>6, KindsGrow
<1>. QED
  BY <1>1, <1>2, <1>3, <1>4, <1>5, <1>7, <1>8, StrictStep

(* While no lease expires under a live executor and no cancel request that *)
(* found no receipt stalls past planning, HarnessTurn implements the full  *)
(* contract: a completed turn stays completed and shows its reply, and     *)
(* nothing is answered after it failed, whatever crashes or is recovered.  *)
THEOREM ImplementsContract ==
    ASSUME ~MayLapse, ~MayStall
    PROVE  Spec => KeepsContract
<1>1. Init => Contract!Init
  BY DEF Init, ReceiptInit, NoReceipt, Contract!Init, phaseBar, executorBar,
     shownBar, PhaseOf, KindsOf
<1>2. TypeOK /\ TypeOK' /\ ReceiptInv /\ PublishInv /\ HealthyInv
         /\ [Next]_vars => [Contract!Next]_Contract!vars
  <2> SUFFICES ASSUME TypeOK, TypeOK', ReceiptInv, PublishInv, HealthyInv,
                      [Next]_vars
               PROVE  [Contract!Next]_Contract!vars
    OBVIOUS
  <2>1. CASE Next
    <3>1. \A t \in Turns : Contract!Step(t)
      BY <2>1, StrictlyAllowed
    <3>2. Contract!ContractTypeOK'
      BY BarTypesNext DEF Contract!ContractTypeOK, Contract!Phases,
         Contract!Kinds, LossyContract!Phases, LossyContract!Kinds
    <3>. QED
      BY <3>1, <3>2 DEF Contract!Next
  <2>2. CASE UNCHANGED vars
    BY <2>2 DEF vars, Contract!vars, phaseBar, executorBar, shownBar
  <2>. QED
    BY <2>1, <2>2
<1>. QED
  BY <1>1, <1>2, TypeCorrect, ReceiptInvariant, PublishInvariant,
     HealthyInvariant, PTL DEF Spec, KeepsContract, Contract!Spec
-----------------------------------------------------------------------------
(* One outcome *)

\* Until its owner has published, or is on its way out, nothing is shown of
\* a turn; a receipt is owned by a request of its own turn.
UnansweredInv ==
    \A t \in Turns :
       /\ receipt[t].owner # None => TurnOf[receipt[t].owner] = t
       /\ receipt[t].status = "none" => messages[t] = {}
       /\ IsActive(t) /\ pc[receipt[t].owner] \in RunSteps \ {"complete"}
             => messages[t] = {}

SoleOutcome == \A t \in Turns : \A k, l \in messages[t] \ {"error"} : k = l

\* What a step shows for a turn: the reply of its owner, an error report, or
\* the first message of a turn that ends there or whose request does.
OutcomeMoves(t) ==
    \/ messages'[t] = messages[t]
    \/ /\ receipt[t].status # "none"
       /\ \/ messages'[t] = messages[t] \cup {"error"}
          \/ messages[t] = {} /\ \E kind \in MessageKinds : messages'[t] = {kind}
       /\ \/ ~IsActive(t)'
          \/ \E w \in Workers : TurnOf[w] = t /\ pc'[w] \in {"close", "done"}
    \/ /\ messages'[t] = messages[t] \cup {"reply"}
       /\ \E w \in Workers : /\ TurnOf[w] = t /\ receipt[t].owner = w
                             /\ IsActive(t)
                             /\ pc[w] \in RunSteps \ {"complete"}
                             /\ pc'[w] \in {"complete", "done"}

LEMMA OutcomesMove ==
    ASSUME TypeOK, ReceiptInv, PublishInv, OwnerInv, ~MayStall, [Next]_vars,
           NEW t \in Turns
    PROVE  OutcomeMoves(t)
<1>. USE StepTypes DEF Show, ShowIfNone, Goto
<1>0. /\ messages \in [Turns -> SUBSET MessageKinds]
      /\ receipt \in [Turns -> Receipt]
      /\ receipt[t].status \in {"none"} \cup ActiveTurnStatuses
                                        \cup TerminalTurnStatuses
  BY DEF TypeOK, ReceiptTypeOK, Receipt
<1>1. CASE messages' = messages
  BY <1>1 DEF OutcomeMoves
<1>2. ASSUME NEW w \in Workers, \/ PublishReply(w)
                                \/ DraftComplete(w) /\ messages' # messages
      PROVE  OutcomeMoves(t)
  <2>1. /\ receipt[TurnOf[w]].owner = w /\ IsActive(TurnOf[w])
        /\ pc[w] \in RunSteps \ {"complete"} /\ pc'[w] \in {"complete", "done"}
        /\ messages' = [messages EXCEPT ![TurnOf[w]] = @ \cup {"reply"}]
    <3>1. CASE PublishReply(w)
      BY <3>1 DEF PublishReply, OwnerInv, ReceiptInv, OwnersExecute, IsActive,
         ActiveTurnStatuses
    <3>2. CASE DraftComplete(w) /\ messages' # messages
      BY <3>2 DEF DraftComplete, Complete, Fenced, IsActive
    <3>. QED
      BY <1>2, <3>1, <3>2
  <2>. QED
    BY <1>0, <2>1 DEF OutcomeMoves
<1>3. ASSUME NEW w \in Workers,
             CancelReply(w) \/ ErrorReply(w) \/ InterruptedReply(w)
      PROVE  OutcomeMoves(t)
  <2>1. receipt[TurnOf[w]].status # "none" /\ pc'[w] \in {"close", "done"}
    <3>1. CASE CancelReply(w)
      BY <3>1, SoleExecutor DEF CancelReply
    <3>2. CASE ErrorReply(w) \/ InterruptedReply(w)
      BY <3>2, PublishInvParts DEF ErrorReply, InterruptedReply, Follows
    <3>. QED
      BY <1>3, <3>1, <3>2
  <2>2. \/ messages' = messages
        \/ messages' = [messages EXCEPT ![TurnOf[w]] = @ \cup {"error"}]
        \/ /\ messages[TurnOf[w]] = {}
           /\ \E kind \in MessageKinds :
                 messages' = [messages EXCEPT ![TurnOf[w]] = @ \cup {kind}]
    BY <1>3 DEF CancelReply, ErrorReply, InterruptedReply
  <2>3. CASE t = TurnOf[w]
    <3>1. \/ messages'[t] = messages[t]
          \/ messages'[t] = messages[t] \cup {"error"}
          \/ messages[t] = {} /\ \E kind \in MessageKinds : messages'[t] = {kind}
      BY <1>0, <2>2, <2>3
    <3>. QED
      BY <2>1, <2>3, <3>1 DEF OutcomeMoves
  <2>4. CASE t # TurnOf[w]
    BY <1>0, <2>2, <2>4 DEF OutcomeMoves
  <2>. QED
    BY <2>3, <2>4
<1>4. ASSUME NEW w \in Workers, WorkerStep(w)
      PROVE  OutcomeMoves(t)
  <2>1. \/ UNCHANGED messages \/ PublishReply(w) \/ DraftComplete(w)
        \/ CancelReply(w) \/ ErrorReply(w) \/ InterruptedReply(w)
    BY <1>4 DEF WorkerStep, LoopStep, SideStep, Arrive, AcquireSession,
       ClaimTurn, BindMessage, Announce, CheckPoint, PlanTurn, PlanCompletion,
       StartFrame, SkipFrame, FinishFrame, PrepareReply, ReserveReply,
       CompleteTurn, Fail, MarkCancelled, MarkCancelledReceipt,
       MarkInterrupted, MarkInterruptedReceipt, Close, ArriveDraft,
       DraftClaim, DraftBind, DraftFail
  <2>. QED
    BY <1>1, <1>2, <1>3, <2>1
<1>5. ASSUME NEW u \in Turns, Cancel(u)
      PROVE  OutcomeMoves(t)
  <2>1. CASE t = u /\ announced[t] /\ messages[t] = {}
    <3>1. messages'[t] = {"cancelled"}
      BY <1>0, <1>5, <2>1 DEF Cancel, CancelMessage
    <3>2. receipt[t].status # "none"
      BY <2>1 DEF ReceiptInv, NothingBeforeClaim
    <3>3. receipt[t].status # "finalizing"
      BY <1>5, <2>1, PublishInvParts DEF Cancel, CancelFirst, CancelAgain,
         ReservedExcludesCancel
    <3>4. receipt'[t].status \notin ActiveTurnStatuses
      BY <1>0, <1>5, <2>1, <3>2, <3>3, CancelledReceiptType
         DEF Cancel, ActiveTurnStatuses, TerminalTurnStatuses
    <3>. QED
      BY <2>1, <3>1, <3>2, <3>4 DEF OutcomeMoves, IsActive
  <2>2. CASE ~(t = u /\ announced[t] /\ messages[t] = {})
    BY <1>0, <1>5, <2>2 DEF Cancel, CancelMessage, OutcomeMoves
  <2>. QED
    BY <2>1, <2>2
<1>6. ASSUME NEW snapshot, Recover(snapshot),
             t \in snapshot.turns => receipt[t].status # "none"
      PROVE  OutcomeMoves(t)
  <2>1. CASE t \in snapshot.turns /\ messages[t] = {}
    <3>1. messages'[t] = {"recovered"} /\ receipt'[t].status = "failed"
      BY <1>6, <2>1, RecoveredReceiptsType DEF Recover, RecoveryReply
    <3>. QED
      BY <1>6, <2>1, <3>1 DEF OutcomeMoves, IsActive, ActiveTurnStatuses
  <2>2. CASE ~(t \in snapshot.turns /\ messages[t] = {})
    BY <1>6, <2>2 DEF Recover, RecoveryReply, OutcomeMoves
  <2>. QED
    BY <2>1, <2>2
<1>7. CASE SweepWrite
  BY <1>6, <1>7 DEF SweepWrite, ReceiptInv, NothingBeforeClaim
<1>8. CASE Startup
  <2>1. t \in Orphans(TRUE).turns => receipt[t].status # "none"
    BY OrphansType DEF OrphanTurns, IsActive, ActiveTurnStatuses
  <2>. QED
    BY <1>1, <1>6, <1>8, <2>1 DEF Startup
<1>9. CASE \/ RequestStep /\ ~\E u \in Turns : Cancel(u)
           \/ SweepLoad \/ Crash \/ Expire \/ UNCHANGED vars
  BY <1>1, <1>9 DEF RequestStep, CancelLooks, CancelUnclaimed, SweepLoad,
     Crash, Expire, ExpireSessionLease, ExpireTurn, ExpireRun, ExpireFrame, vars
<1>. QED
  BY <1>4, <1>5, <1>7, <1>8, <1>9, NextSplit DEF RequestStep

\* A worker executes its turn from its claim on.
LEMMA WayToRun ==
    ASSUME TypeOK, [Next]_vars, NEW w \in Workers,
           pc'[w] \in RunSteps \ {"complete"}
    PROVE  pc[w] \in RunSteps \ {"complete"} \/ Claim(w, TurnOf[w])
<1>. USE StepTypes DEF Goto
<1>1. ASSUME NEW v \in Workers, v # w, WorkerStep(v)
      PROVE  pc'[w] = pc[w]
  BY <1>1, LoopMoves, SideMoves, EdgeMoves DEF WorkerStep
<1>2. CASE Arrive(w) \/ Close(w)
  BY <1>2, EdgeMoves
<1>3. CASE SideStep(w)
  BY <1>3 DEF SideStep, ErrorReply, InterruptedReply, ArriveDraft, DraftClaim,
     DraftBind, DraftComplete, DraftFail
<1>4. CASE LoopStep(w)
  <2>1. CASE pc[w] \in RunSteps \ {"complete"}
    BY <2>1
  <2>2. CASE pc[w] \notin RunSteps \ {"complete"}
    BY <1>4, <2>2 DEF LoopStep, AcquireSession, ClaimTurn, BindMessage,
       Announce, CheckPoint, PlanTurn, PlanCompletion, StartFrame, SkipFrame,
       FinishFrame, PrepareReply, ReserveReply, PublishReply, CompleteTurn,
       Fail, MarkCancelled, MarkCancelledReceipt, CancelReply,
       MarkInterrupted, MarkInterruptedReceipt, Escape
  <2>. QED
    BY <2>1, <2>2
<1>5. CASE ~\E v \in Workers : WorkerStep(v)
  BY <1>5, NextSplit, OtherMoves
<1>. QED
  BY <1>1, <1>2, <1>3, <1>4, <1>5 DEF WorkerStep

LEMMA UnansweredStep ==
    ASSUME TypeOK, TypeOK', ReceiptInv, PublishInv, HealthyInv, UnansweredInv,
           EachTurnOnce, ~MayLapse, ~MayStall, [Next]_vars
    PROVE  UnansweredInv'
<1>. USE NoneAssumption
<1>1. ASSUME NEW t \in Turns
      PROVE  /\ receipt'[t].owner # None => TurnOf[receipt'[t].owner] = t
             /\ receipt'[t].status = "none" => messages'[t] = {}
             /\ IsActive(t)' /\ pc'[receipt'[t].owner] \in RunSteps \ {"complete"}
                   => messages'[t] = {}
  <2>0. /\ receipt[t].status \in {"none"} \cup ActiveTurnStatuses
                                         \cup TerminalTurnStatuses
        /\ receipt[t].owner \in Workers \cup {None}
        /\ receipt[t].status = "none" <=> receipt[t].owner = None
    BY DEF TypeOK, ReceiptTypeOK, Receipt, ReceiptInv, OwnersExecute
  <2>1. ReceiptMoves(t) /\ OutcomeMoves(t)
    BY ReceiptsMove, OutcomesMove DEF HealthyInv
  <2>2. CASE receipt[t].status = "none"
    <3>1. messages'[t] = {}
      BY <2>1, <2>2 DEF OutcomeMoves, IsActive, ActiveTurnStatuses,
         UnansweredInv
    <3>2. receipt'[t].owner # None => TurnOf[receipt'[t].owner] = t
      BY <2>0, <2>1, <2>2 DEF ReceiptMoves, SameReceipt, SettlesAs
    <3>. QED
      BY <3>1, <3>2
  <2>3. CASE receipt[t].status # "none"
    <3>1. /\ receipt'[t].owner = receipt[t].owner
          /\ receipt'[t].status # "none"
          /\ IsActive(t)' => IsActive(t)
      BY <2>0, <2>1, <2>3 DEF ReceiptMoves, SameReceipt, SettlesAs, IsActive,
         ActiveTurnStatuses, TerminalTurnStatuses
    <3>2. PICK w \in Workers : w = receipt[t].owner /\ TurnOf[w] = t
      BY <2>0, <2>3 DEF UnansweredInv
    <3>3. ASSUME IsActive(t)', pc'[w] \in RunSteps \ {"complete"}
          PROVE  messages'[t] = {}
      <4>1. messages[t] = {}
        BY <2>3, <3>1, <3>2, <3>3, WayToRun DEF Claim, UnansweredInv
      <4>2. \A v \in Workers : TurnOf[v] = t => v = w
        BY <3>2 DEF EachTurnOnce
      <4>. QED
        BY <2>1, <3>3, <4>1, <4>2 DEF OutcomeMoves
    <3>. QED
      BY <3>1, <3>2, <3>3
  <2>. QED
    BY <2>2, <2>3
<1>. QED
  BY <1>1 DEF UnansweredInv, IsActive

LEMMA SoleStep ==
    ASSUME TypeOK, ReceiptInv, PublishInv, HealthyInv, UnansweredInv,
           SoleOutcome, ~MayStall, [Next]_vars
    PROVE  SoleOutcome'
<1>1. ASSUME NEW t \in Turns
      PROVE  \A k, l \in messages'[t] \ {"error"} : k = l
  <2>1. OutcomeMoves(t)
    BY OutcomesMove DEF HealthyInv
  <2>2. ASSUME NEW w \in Workers, receipt[t].owner = w, IsActive(t),
               pc[w] \in RunSteps \ {"complete"}
        PROVE  messages[t] = {}
    BY <2>2 DEF UnansweredInv
  <2>. QED
    BY <2>1, <2>2 DEF OutcomeMoves, SoleOutcome
<1>. QED
  BY <1>1 DEF SoleOutcome

(* While no lease expires under a live executor, no cancel request stalls  *)
(* past planning, and no client_turn_id is sent twice, the user is shown   *)
(* one of the outcomes of a turn: its reply, its cancellation, its         *)
(* recovery or its interruption; an error report may come on top.          *)
THEOREM ShowsOneOutcome ==
    ASSUME ~MayLapse, ~MayStall, EachTurnOnce
    PROVE  Spec => []OneOutcome
<1>1. Init => UnansweredInv /\ SoleOutcome
  BY DEF Init, ReceiptInit, NoReceipt, IsActive, ActiveTurnStatuses,
     UnansweredInv, SoleOutcome
<1>2. /\ TypeOK /\ TypeOK' /\ ReceiptInv /\ PublishInv /\ HealthyInv
      /\ UnansweredInv /\ SoleOutcome /\ [Next]_vars
      => UnansweredInv' /\ SoleOutcome'
  BY UnansweredStep, SoleStep
<1>3. SoleOutcome => OneOutcome
  <2> SUFFICES ASSUME SoleOutcome, NEW t \in Turns
               PROVE  Cardinality(messages[t] \ {"error"}) <= 1
    BY DEF OneOutcome
  <2>1. CASE messages[t] \ {"error"} = {}
    BY <2>1, FS_EmptySet
  <2>2. CASE messages[t] \ {"error"} # {}
    <3>1. PICK k : messages[t] \ {"error"} = {k}
      BY <2>2 DEF SoleOutcome
    <3>2. Cardinality({k}) = 1
      BY FS_Singleton
    <3>. QED
      BY <3>1, <3>2
  <2>. QED
    BY <2>1, <2>2
<1>. QED
  BY <1>1, <1>2, <1>3, TypeCorrect, ReceiptInvariant, PublishInvariant,
     HealthyInvariant, PTL DEF Spec
=============================================================================
