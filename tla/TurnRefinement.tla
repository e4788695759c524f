--------------------------- MODULE TurnRefinement ---------------------------
(***************************************************************************)
(* HarnessTurn keeps the contract of a client_turn_id.  The receipt gives  *)
(* the phase and the executor; the messages, the error, recovery and       *)
(* interruption reports being one kind of failure, are what is shown.      *)
(***************************************************************************)
EXTENDS HarnessTurn

PhaseOf(status) ==
    CASE status = "none"       -> "unclaimed"
      [] status = "started"    -> "executing"
      [] status = "finalizing" -> "publishing"
      [] status = "completed"  -> "completed"
      [] status = "cancelled"  -> "cancelled"
      [] status = "failed"     -> "failed"

KindsOf(kinds) ==
    (kinds \cap {"reply", "cancelled"})
    \cup IF kinds \cap {"error", "recovered", "interrupted"} # {}
         THEN {"failure"} ELSE {}

phaseBar == [t \in Turns |-> PhaseOf(receipt[t].status)]
executorBar == [t \in Turns |-> receipt[t].owner]
shownBar == [t \in Turns |-> KindsOf(messages[t])]

Contract == INSTANCE TurnContract WITH
    MayLose <- FALSE,
    phase <- phaseBar, executor <- executorBar, shown <- shownBar

LossyContract == INSTANCE TurnContract WITH
    MayLose <- TRUE,
    phase <- phaseBar, executor <- executorBar, shown <- shownBar

(* While no lease expires under a live executor, every step of the         *)
(* coordinator, the shortcut, the endpoint, the sweeper, a crash and a     *)
(* restart is a step the contract allows: a completed turn stays completed *)
(* and shows its reply, nothing is published after a failure.              *)
KeepsContract == Contract!Spec

(* Whatever lapses, the weaker contract is kept: one execution, no reply   *)
(* next to a cancellation, no completed turn without its reply.            *)
KeepsLossyContract == LossyContract!Spec
-----------------------------------------------------------------------------
(* What relates the receipt to the step of its worker, beyond ReceiptInv.  *)

(* A completed turn shows its reply: the reply commits before the receipt. *)
CompletedShowsReply ==
    /\ \A t \in Turns : receipt[t].status = "completed" => "reply" \in messages[t]
    /\ \A w \in Workers : pc[w] = "complete" => "reply" \in messages[TurnOf[w]]

(* Nobody but the worker moves its receipt towards completion.             *)
ReceiptFollowsWorker ==
    \A w \in Workers :
        LET status == receipt[TurnOf[w]].status IN
        /\ pc[w] \in {"bind", "announce", "plan", "frame", "exec", "begin",
                      "draftBind", "draftComplete", "cancelling",
                      "cancelReceipt"} =>
               status \notin {"finalizing", "completed"}
        /\ pc[w] \in {"finalize", "complete", "interrupt", "interruptReceipt"} =>
               status # "completed"
        /\ pc[w] = "cancelReply" => status \in {"cancelled", "failed"}
        /\ pc[w] \in ReplySteps \/ after[w] \in ReplySteps => status # "none"

(* A reserved reply has no cancellation, recorded or on its way.           *)
ReservedExcludesCancel ==
    ~MayStall => \A t \in Turns : receipt[t].status = "finalizing" =>
        ~cancelEvent[t] /\ t \notin pending

(* The strengthening of ReceiptInv under which every step is one of the    *)
(* contract: a worker's step says what its receipt may be.                 *)
PublishInv ==
    /\ CompletedShowsReply
    /\ ReceiptFollowsWorker
    /\ ReservedExcludesCancel
=============================================================================
