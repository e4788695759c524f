---------------------------- MODULE TurnReceipts ---------------------------
(***************************************************************************)
(* Durable receipts of Harness turns (core/harness_turn_store.py): one row *)
(* per client_turn_id under a unique constraint, written only by updates   *)
(* that name the expected statuses and the row's lease owner, and by two   *)
(* writers outside the store: the cancel endpoint and orphan recovery.     *)
(***************************************************************************)
EXTENDS HarnessBase

VARIABLE receipt    \* receipt[t]: the HarnessTurnRecord of t

ActiveTurnStatuses == {"started", "finalizing"}
TerminalTurnStatuses == {"completed", "failed", "cancelled"}

Receipt ==
    [status: {"none"} \cup ActiveTurnStatuses \cup TerminalTurnStatuses,
     digest: Digests \cup {None},
     owner:  Workers \cup {None},
     live:   BOOLEAN]

NoReceipt == [status |-> "none", digest |-> None, owner |-> None,
              live |-> FALSE]

ReceiptTypeOK == receipt \in [Turns -> Receipt]

ReceiptInit == receipt = [t \in Turns |-> NoReceipt]

IsActive(t) == receipt[t].status \in ActiveTurnStatuses
IsTerminal(t) == receipt[t].status \in TerminalTurnStatuses

(* Mutations of this module are named for the bug they make. *)

ClaimAfterFailure(w, t) ==          \* a bug: a failed receipt is claimed again
    /\ receipt[t].status \in {"none", "failed"}
    /\ receipt' = [receipt EXCEPT ![t] =
           [status |-> "started", digest |-> DigestOf[w], owner |-> w,
            live |-> TRUE]]

(* claim inserts the row; the select before it and the IntegrityError path *)
(* make the insert and the verdict on an existing row one atomic choice.   *)
Claim(w, t) ==
    /\ receipt[t].status = "none"
    /\ receipt' = [receipt EXCEPT ![t] =
           [status |-> "started", digest |-> DigestOf[w], owner |-> w,
            live |-> TRUE]]

(* _existing_claim: a completed receipt of the same digest is replayed and *)
(* every other existing receipt is a HarnessTurnConflict.                  *)
Replays(w, t) ==
    /\ receipt[t].digest = DigestOf[w]
    /\ receipt[t].status = "completed"

FencedByOwner(w, t, expected) ==    \* a bug: the status is not compared
    receipt[t].owner = w

(* _try_fenced_update: id, expected statuses and lease owner must match;   *)
(* the deadline of the lease is not part of the fence.                     *)
Fenced(w, t, expected) ==
    /\ receipt[t].status \in expected
    /\ receipt[t].owner = w

(* user_message_id only ties messages to their turn, as their index does   *)
(* in the model: what is left of the update is its fence.                  *)
BindUserMessage(w, t) ==
    /\ Fenced(w, t, {"started"})
    /\ UNCHANGED receipt

(* A terminal status; nobody reads the deadline of a settled receipt. *)
Settled(row, status) == [row EXCEPT !.status = status, !.live = FALSE]

(* renew leaves a receipt that is no longer active alone. *)
RenewedReceipt(w, t) ==
    IF Fenced(w, t, ActiveTurnStatuses)
    THEN [receipt EXCEPT ![t].live = TRUE]
    ELSE receipt

BeginCompletion(w, t) ==
    /\ Fenced(w, t, {"started"})
    /\ receipt' = [receipt EXCEPT ![t].status = "finalizing"]

Complete(w, t) ==
    /\ Fenced(w, t, ActiveTurnStatuses)
    /\ receipt' = [receipt EXCEPT ![t] = Settled(receipt[t], "completed")]

FinishAsInterrupted(w, t, status) ==    \* a bug: a status nobody knows
    receipt' = IF Fenced(w, t, ActiveTurnStatuses)
               THEN [receipt EXCEPT ![t] = Settled(receipt[t], "interrupted")]
               ELSE receipt

(* finish_with_error returns silently when the receipt is not active. *)
FinishWithError(w, t, status) ==
    receipt' = IF Fenced(w, t, ActiveTurnStatuses)
               THEN [receipt EXCEPT ![t] = Settled(receipt[t], status)]
               ELSE receipt

CancelledAnyReceipt(t) ==           \* a bug: the status is not compared
    IF receipt[t].status = "none" THEN receipt
    ELSE [receipt EXCEPT ![t] = Settled(receipt[t], "cancelled")]

(* _cancel_harness_turn_receipt of the cancel endpoint: fenced by status,  *)
(* not by owner.                                                           *)
CancelledReceipt(t) ==
    IF receipt[t].status = "started"
    THEN [receipt EXCEPT ![t] = Settled(receipt[t], "cancelled")]
    ELSE receipt

(* recover_orphan_harness_runs assigns the loaded row object, so the write *)
(* is by primary key: whatever status the row has by then is overwritten.  *)
RecoveredReceipts(turns) ==
    [t \in Turns |->
        IF t \in turns
        THEN Settled(receipt[t], "failed")
        ELSE receipt[t]]
=============================================================================
