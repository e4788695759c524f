----------------------------- MODULE SessionLog -----------------------------
(***************************************************************************)
(* The durable event log of one session of the embedded engine, and the    *)
(* pure functions the engine computes from it: the relational checks of    *)
(* the session invariant companion, the repair of a log that a crash cut,  *)
(* the replay of the inbox and the account of the consumed work.           *)
(*                                                                         *)
(* An event carries only what these functions read.                        *)
(***************************************************************************)
EXTENDS Naturals, SequencesExt

\* The left fold of the log's scans: "for (const event of events)".
Scan(after(_, _), fresh, events) ==
    LET at[n \in 0..Len(events)] ==
            IF n = 0 THEN fresh ELSE after(at[n - 1], events[n])
    IN  at[Len(events)]

\* core/agent InboxTarget.
Targets == {"next-turn", "next-step"}

EmptyInbox == [t \in Targets |-> <<>>]

-----------------------------------------------------------------------------
(* The events. *)

Spliced(target, start, removed, inserted, canceled) ==
    [type |-> "agent/inbox/spliced", target |-> target, start |-> start,
     removed |-> removed, inserted |-> inserted, canceled |-> canceled]

TurnStart(turn) == [type |-> "turn/start", turn |-> turn]
TurnEnd(turn, reason) ==
    [type |-> "turn/end", turn |-> turn, reason |-> reason]
StepStart(turn, step) ==
    [type |-> "step/start", turn |-> turn, step |-> step]
StepEnd(turn, step) == [type |-> "step/end", turn |-> turn, step |-> step]
UserMessage(message) == [type |-> "user/message", message |-> message]

\* "calls" are the identities of the message's tool-call blocks, in order.
AssistantMessage(turn, step, calls) ==
    [type |-> "assistant/message", turn |-> turn, step |-> step,
     calls |-> calls]
ToolCall(turn, step, call) ==
    [type |-> "tool/call", turn |-> turn, step |-> step, call |-> call]

\* "code" is the code of an error result, "none" for the others.
ToolResult(turn, step, call, code) ==
    [type |-> "tool/result", turn |-> turn, step |-> step, call |-> call,
     code |-> code]

-----------------------------------------------------------------------------
(* The session invariant companion: the log is a sequence of turns, each a *)
(* sequence of steps, and every result answers a call of its own step.     *)

FreshTrace == [openTurn |-> 0, openStep |-> 0, nextTurn |-> 1, nextStep |-> 1,
               pending |-> {}, ok |-> TRUE]

InOpenStep(trace, e) ==
    /\ trace.openTurn = e.turn
    /\ trace.openStep = e.step
    /\ e.step # 0

\* validateEvent: whether the companion lets the event pass.
EventAllowed(trace, e) ==
    CASE e.type = "turn/start" ->
            trace.openTurn = 0 /\ e.turn = trace.nextTurn
      [] e.type = "turn/end" ->
            trace.openTurn = e.turn /\ trace.openStep = 0
      [] e.type = "step/start" ->
            /\ trace.openTurn = e.turn
            /\ trace.openStep = 0
            /\ e.step = trace.nextStep
      [] e.type \in {"step/end", "assistant/message", "tool/call"} ->
            InOpenStep(trace, e)
      [] e.type = "tool/result" ->
            /\ InOpenStep(trace, e)
            /\ e.call \in trace.pending \/ e.code = "TOOL_NOT_STARTED"
      [] OTHER -> TRUE

\* validateEvent's transition, committed by applyTransition.
TraceAfter(trace, e) ==
    LET t == [trace EXCEPT !.ok = @ /\ EventAllowed(trace, e)] IN
    CASE e.type = "turn/start" ->
            [t EXCEPT !.openTurn = e.turn, !.nextStep = 1]
      [] e.type = "turn/end" ->
            [t EXCEPT !.openTurn = 0, !.nextTurn = @ + 1]
      [] e.type = "step/start" -> [t EXCEPT !.openStep = e.step]
      [] e.type = "step/end" ->
            [t EXCEPT !.openStep = 0, !.nextStep = @ + 1, !.pending = {}]
      [] e.type = "tool/call" -> [t EXCEPT !.pending = @ \cup {e.call}]
      [] e.type = "tool/result" -> [t EXCEPT !.pending = @ \ {e.call}]
      [] OTHER -> t

TraceOf(events) == Scan(TraceAfter, FreshTrace, events)

WellFormed(events) == TraceOf(events).ok

Balanced(events) == TraceOf(events).openTurn = 0

-----------------------------------------------------------------------------
(* interruptedTurnClosers: the events that close the turn a crash left     *)
(* open. The scan keeps the open boundary and the calls the last assistant *)
(* message of the open step asked for, in order, and which of them were    *)
(* recorded as started.                                                    *)

FreshScan == [turn |-> 0, step |-> 0, calls |-> <<>>, started |-> {}]

\* pendingCalls.delete: a call has one entry.
CallsWithout(calls, call) ==
    LET at == {i \in 1..Len(calls) : calls[i] = call}
    IN  IF at = {} THEN calls ELSE RemoveAt(calls, CHOOSE i \in at : TRUE)

ScanAfter(scan, e) ==
    CASE e.type = "turn/start" -> [FreshScan EXCEPT !.turn = e.turn]
      [] e.type = "turn/end" -> FreshScan
      [] e.type = "step/start" -> [scan EXCEPT !.step = e.step]
      [] e.type = "step/end" ->
            [scan EXCEPT !.step = 0, !.calls = <<>>, !.started = {}]
      [] e.type = "assistant/message" ->
            [scan EXCEPT !.calls = @ \o e.calls]
      [] e.type = "tool/call" ->
            [scan EXCEPT !.started = @ \cup ({e.call} \cap ToSet(scan.calls))]
      [] e.type = "tool/result" ->
            [scan EXCEPT !.calls = CallsWithout(@, e.call)]
      [] OTHER -> scan

\* A plausible bug: the open step is not closed before its turn.
InterruptedTurnClosersNoStepEnd(events) ==
    LET scan == Scan(ScanAfter, FreshScan, events)
    IN  IF scan.turn = 0 THEN <<>>
        ELSE <<TurnEnd(scan.turn, "interrupted")>>

\* A plausible bug: a call without a recorded start is reported as started.
InterruptedTurnClosersAllUnknown(events) ==
    LET scan == Scan(ScanAfter, FreshScan, events)
        results == [i \in 1..Len(scan.calls) |->
                      ToolResult(scan.turn, scan.step, scan.calls[i],
                                 "TOOL_OUTCOME_UNKNOWN")]
    IN  IF scan.turn = 0 THEN <<>>
        ELSE results
             \o (IF scan.step = 0 THEN <<>>
                 ELSE <<StepEnd(scan.turn, scan.step)>>)
             \o <<TurnEnd(scan.turn, "interrupted")>>

InterruptedTurnClosers(events) ==
    LET scan == Scan(ScanAfter, FreshScan, events)
        Result(c) ==
            ToolResult(scan.turn, scan.step, c,
                       IF c \in scan.started THEN "TOOL_OUTCOME_UNKNOWN"
                                             ELSE "TOOL_NOT_STARTED")
        results == [i \in 1..Len(scan.calls) |-> Result(scan.calls[i])]
    IN  IF scan.turn = 0 THEN <<>>
        ELSE results
             \o (IF scan.step = 0 THEN <<>>
                 ELSE <<StepEnd(scan.turn, scan.step)>>)
             \o <<TurnEnd(scan.turn, "interrupted")>>

-----------------------------------------------------------------------------
(* Inbox replay: the pending lists are the splices applied in order.       *)

\* Array splice at a zero-based start.
SpliceAt(list, start, removed, inserted) ==
    SubSeq(list, 1, start) \o inserted
        \o SubSeq(list, start + removed + 1, Len(list))

InboxAfter(inbox, e) ==
    IF e.type # "agent/inbox/spliced" THEN inbox
    ELSE [inbox EXCEPT
            ![e.target] = SpliceAt(@, e.start, e.removed, e.inserted)]

InboxOf(events) == Scan(InboxAfter, EmptyInbox, events)

-----------------------------------------------------------------------------
(* foldConsumedWork: the last closed turn that accounts for consumed work, *)
(* and whether accepted work was cancelled unrun after it.                 *)

\* A plausible bug: a blocked turn does not account for what it claimed.
AccountsForClaimNotBlocked(reason) == reason \notin {"completed", "blocked"}

\* accountsForClaim: an ending that tells what became of the claimed input.
AccountsForClaim(reason) == reason # "completed"

FreshAccount == [open |-> 0, stepped |-> {}, claimed |-> {}, end |-> 0,
                 reason |-> "none", droppedUnrun |-> FALSE]

AccountAfter(a, e) ==
    CASE e.type = "turn/start" -> [a EXCEPT !.open = e.turn]
      [] e.type = "step/start" -> [a EXCEPT !.stepped = @ \cup {e.turn}]
      [] e.type = "agent/inbox/spliced" ->
            IF e.removed = 0 THEN a
            ELSE IF e.canceled
                 THEN [a EXCEPT !.droppedUnrun = @ \/ e.inserted = <<>>]
            ELSE IF a.open # 0
                 THEN [a EXCEPT !.claimed = @ \cup {a.open}]
            ELSE a
      [] e.type = "turn/end" ->
            LET accounts == \/ e.turn \in a.stepped
                            \/ /\ e.turn \in a.claimed
                               /\ AccountsForClaim(e.reason)
                rest == [a EXCEPT !.open = 0,
                                  !.stepped = @ \ {e.turn},
                                  !.claimed = IF e.turn \in a.stepped THEN @
                                              ELSE @ \ {e.turn}]
            IN  IF accounts
                THEN [rest EXCEPT !.end = e.turn, !.reason = e.reason,
                                  !.droppedUnrun = FALSE]
                ELSE rest
      [] OTHER -> a

ConsumedWork(events) == Scan(AccountAfter, FreshAccount, events)
=============================================================================
