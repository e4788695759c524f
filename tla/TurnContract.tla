---------------------------- MODULE TurnContract ----------------------------
(***************************************************************************)
(* What a client_turn_id is promised, whoever serves it: it is granted to  *)
(* one execution; that execution reserves the right to publish and         *)
(* replies, or it is cancelled, or it fails; a completed turn has its      *)
(* reply; a reply and a cancellation are never both shown.  Turns are      *)
(* independent: a step may move several of them.                           *)
(*                                                                         *)
(* MayLose weakens the contract for executors whose leases can expire      *)
(* under them: an execution may then be declared lost, and failed, while   *)
(* it publishes and even after it has completed.                           *)
(***************************************************************************)
CONSTANTS Turns, Workers, None, MayLose

VARIABLES
    phase,      \* how far the turn has got
    executor,   \* the execution it was granted to, or None
    shown       \* the kinds of message the user was shown for it

Phases == {"unclaimed", "executing", "publishing",
           "completed", "cancelled", "failed"}
Kinds == {"reply", "cancelled", "failure"}

vars == <<phase, executor, shown>>

ContractTypeOK ==
    /\ phase \in [Turns -> Phases]
    /\ executor \in [Turns -> Workers \cup {None}]
    /\ shown \in [Turns -> SUBSET Kinds]

Init ==
    /\ phase = [t \in Turns |-> "unclaimed"]
    /\ executor = [t \in Turns |-> None]
    /\ shown = [t \in Turns |-> {}]

(* The step of a turn from one phase to another, under its executor. *)
Moves(t, from, to) ==
    /\ phase[t] \in from
    /\ phase'[t] = to
    /\ executor'[t] = executor[t]

Stays(t) == phase'[t] = phase[t] /\ executor'[t] = executor[t]
Shows(t, kinds) == shown'[t] = shown[t] \cup kinds

Grant(t) ==
    /\ phase[t] = "unclaimed"
    /\ phase'[t] = "executing"
    /\ executor'[t] \in Workers
    /\ Shows(t, {})

Reserve(t) == Moves(t, {"executing"}, "publishing") /\ Shows(t, {})

Reply(t) ==
    /\ \/ phase[t] = "publishing"
       \/ MayLose /\ phase[t] = "failed"
    /\ Stays(t)
    /\ "cancelled" \notin shown[t]
    /\ Shows(t, {"reply"})

(* The reply is there when the turn completes, or comes with it. *)
Complete(t) ==
    /\ Moves(t, {"executing", "publishing"}, "completed")
    /\ "cancelled" \notin shown[t]
    /\ Shows(t, {"reply"})
    /\ phase[t] = "publishing" => "reply" \in shown[t]

(* A cancellation is told to a user who has been told nothing else. *)
Cancel(t) ==
    /\ Moves(t, {"executing"}, "cancelled")
    /\ \/ Shows(t, {})
       \/ shown[t] = {} /\ Shows(t, {"cancelled"})

TellCancelled(t) ==
    /\ phase[t] \in {"cancelled", "failed"}
    /\ Stays(t)
    /\ shown[t] = {}
    /\ Shows(t, {"cancelled"})

(* A cancelled execution may still turn out to have failed. *)
Fail(t) ==
    /\ Moves(t, {"executing", "publishing", "cancelled"}
                \cup IF MayLose THEN {"completed", "failed"} ELSE {}, "failed")
    /\ \/ Shows(t, {})
       \/ shown[t] = {} /\ Shows(t, {"failure"})

(* The report of a failure, of the execution or of another request.        *)
TellFailure(t) ==
    /\ phase[t] # "unclaimed"
    /\ Stays(t)
    /\ Shows(t, {"failure"})

Step(t) ==
    \/ Grant(t) \/ Reserve(t) \/ Reply(t) \/ Complete(t)
    \/ Cancel(t) \/ TellCancelled(t) \/ Fail(t) \/ TellFailure(t)
    \/ Stays(t) /\ Shows(t, {})

Next ==
    /\ ContractTypeOK'
    /\ \A t \in Turns : Step(t)

Spec == Init /\ [][Next]_vars
=============================================================================
