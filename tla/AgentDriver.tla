----------------------------- MODULE AgentDriver -----------------------------
(***************************************************************************)
(* The driver of one agent of the embedded engine (ReactLoopAgent): it     *)
(* takes messages out of the inbox, opens turns and steps over them and    *)
(* goes idle when nothing is owed.                                         *)
(*                                                                         *)
(* The code runs on one event loop. An action is the code between two      *)
(* awaits of the driver, or one call of a method of the agent. Where a     *)
(* method publishes to listeners in its middle, and a listener may call    *)
(* the agent again, the call is split there: "frames" holds the calls that *)
(* listeners interrupted, innermost last. A method whose publication is    *)
(* its last act (remove, replace, inject) is one action: its listeners run *)
(* after it. An observer of an append cannot append, the session refuses   *)
(* it; it can abort, which differs from an abort right after the append    *)
(* only at turn/start (TurnStartAborted).                                  *)
(*                                                                         *)
(* A listener of internal/dispatch may refuse an append. The session       *)
(* companion, loaded as in the repository's tests, refuses one that breaks *)
(* the order of turns and steps. The refusals that leave the driver in a   *)
(* state of its own are modelled: turn/start, step/end and turn/end. Any   *)
(* other one makes its turn fail as a failing hook does.                   *)
(*                                                                         *)
(* The place of the driver, driver.at:                                     *)
(*   off        no driver                                                  *)
(*   starting   woken, its first turn not yet open (status listeners run)  *)
(*   top        between two turns of one drain                             *)
(*   preStep    the claimed batch awaits assembly and the pre-step hooks   *)
(*   step       the model call, its retries and its tools                  *)
(*   stopping   the turn-stopping hooks                                    *)
(*   returning  turn() has settled, kick() has not resumed yet             *)
(***************************************************************************)
EXTENDS AgentInbox, FiniteSets

CONSTANTS
    MaxSteps,           \* bound: steps of a turn whose tools ask for another
    MaxCancels,         \* bound: calls of cancel
    MaxMaintenance,     \* bound: maintenance tasks
    MaxNesting,         \* bound: calls of listeners inside each other
    MaxRefusals         \* bound: appends that a listener refuses

ASSUME DriverBounds ==
    /\ MaxSteps \in Nat
    /\ MaxCancels \in Nat
    /\ MaxMaintenance \in Nat
    /\ MaxNesting \in Nat \ {0}
    /\ MaxRefusals \in Nat

VARIABLES
    log,        \* the session log
    inbox,      \* the live projection of its splices
    phase,      \* Phase: what owns the agent, and its abort signal
    driver,     \* the suspended turn()
    frames,     \* calls that listeners interrupted
    unsent,     \* messages no one has submitted yet
    spent,      \* cancels, maintenance tasks and refused appends so far,
                \*   and the turn whose end was refused, if it is still open
    owed,       \* history: waking messages the driver has accepted
    stranded,   \* history: messages accepted where no driver looks again
    rewritten   \* history: messages a pre-step hook took out of its batch

vars == <<log, inbox, phase, driver, frames, unsent, spent, owed, stranded, rewritten>>

Causes == {"user", "disposed"}
Ends == {"none", "completed", "max-tokens"}
DriverPlaces == {"off", "starting", "top", "preStep", "step", "stopping",
            "returning"}

Idle(turn) == [kind |-> "idle", abort |-> "none", turn |-> turn, step |-> 0,
               wakeRequested |-> FALSE]
Running(turn) == [Idle(turn) EXCEPT !.kind = "running"]
Maintenance(turn) == [Idle(turn) EXCEPT !.kind = "maintenance"]

NoDriver == [at |-> "off", claimed |-> <<>>, target |-> "next-turn",
             ends |-> "none", depth |-> 0]
DriverAt(place) == [NoDriver EXCEPT !.at = place]

Aborted == phase.abort # "none"

Calm == frames = <<>>       \* no call is interrupted by a listener

Init ==
    /\ log = <<>>
    /\ inbox = EmptyInbox
    /\ phase = Idle(0)
    /\ driver = NoDriver
    /\ frames = <<>>
    /\ unsent = Messages
    /\ spent = [cancels |-> 0, maintenance |-> 0, refusals |-> 0, unended |-> 0]
    /\ owed = {}
    /\ stranded = {}
    /\ rewritten = {}

-----------------------------------------------------------------------------
(* History. A waking message is owed from its wake until it leaves the     *)
(* inbox. The documented exceptions cancel the debt: a disposal, a cancel  *)
(* that keeps the inbox, a rejected step, a failed turn (one whose start   *)
(* or end was refused too). Three windows strand a message although no     *)
(* document says so, and no driver looks at it until another wake: it was  *)
(* sent after turn() found nothing queued and before kick() converged, it  *)
(* was queued while a turn that enters nothing was open, which returns     *)
(* false without a look at the queue, or a listener of what a cancel       *)
(* discards sent it, before that cancel forgets the wake and aborts.       *)

Settle(ms) ==
    /\ owed' = owed \ ms
    /\ stranded' = stranded \ ms

SettleAll == Settle(Messages)

-----------------------------------------------------------------------------
(* wakeDriver: start a driver, or latch the wake behind maintenance or an  *)
(* aborted activity. A live driver claims queued work itself.              *)

\* A plausible bug: only maintenance latches.
LatchesMaintenance(wakeAfterAbort) ==
    phase.abort # "disposed" /\ phase.kind = "maintenance"

Latches(wakeAfterAbort) ==
    /\ phase.abort # "disposed"
    /\ phase.kind = "maintenance" \/ wakeAfterAbort

WakeDriver(wakeAfterAbort) ==
    IF phase.kind = "idle"
    THEN /\ phase' = Running(phase.turn)
         /\ driver' = [DriverAt("starting") EXCEPT !.depth = Len(frames')]
    ELSE /\ phase' = [phase EXCEPT
                        !.wakeRequested = @ \/ Latches(wakeAfterAbort)]
         /\ UNCHANGED driver

-----------------------------------------------------------------------------
(* The methods of the agent. *)

\* send, up to the notification of the insertion: followup is
\* ("next-turn", TRUE), steer ("next-step", TRUE), inject
\* ("next-step", FALSE). Waking input cannot join an aborted activity.
Send(m, target, wakeup) ==
    LET afterAbort == wakeup /\ phase.kind # "idle" /\ Aborted
        resolved == IF afterAbort THEN "next-turn" ELSE target
    IN  /\ m \in unsent
        /\ Len(frames) < MaxNesting
        /\ unsent' = unsent \ {m}
        /\ log' = log \o AppendEvents(inbox, resolved, m)
        /\ inbox' = Appended(inbox, resolved, m)
        /\ frames' = IF wakeup
                     THEN Append(frames, [call |-> "send", message |-> m,
                                          wake |-> afterAbort])
                     ELSE frames
        /\ UNCHANGED <<phase, driver, spent, owed, stranded, rewritten>>

\* The listeners of the innermost call are done. A driver they started runs
\* its first segment before the call they were notified by goes on.
Returned(call) ==
    /\ frames # <<>>
    /\ driver.at = "starting" => Len(frames) > driver.depth
    /\ frames[Len(frames)].call = call

Outer == SubSeq(frames, 1, Len(frames) - 1)

\* The rest of a waking send.
Wake ==
    /\ Returned("send")
    /\ frames' = Outer
    /\ LET f == frames[Len(frames)]
           m == f.message
           accepted == /\ Pending(inbox, m)
                       /\ phase.abort # "disposed"
                       /\ f.wake \/ phase.kind = "maintenance" \/ ~Aborted
           unseen == driver.at = "returning" /\ ~Aborted
       IN  /\ WakeDriver(f.wake)
           /\ owed' = IF accepted THEN owed \cup {m} ELSE owed
           /\ stranded' = IF accepted /\ unseen THEN stranded \cup {m}
                                              ELSE stranded
    /\ UNCHANGED <<log, inbox, unsent, spent, rewritten>>

\* The first cause of an activity wins: a second abort changes nothing.
CancelledPhase(cause, keepInbox) ==
    IF phase.kind = "idle" THEN phase
    ELSE [phase EXCEPT !.abort = IF @ = "none" THEN cause ELSE @,
                       !.wakeRequested = @ /\ keepInbox]

\* A cancel discards the lists in "left", telling the listeners after each,
\* and only then forgets the wake and aborts: a message sent meanwhile joins
\* an activity that is about to stop. "below" are the interrupted calls.
CancelsOn(cause, left, below) ==
    LET queued == {t \in left : inbox[t] # <<>>}
        t == IF "next-step" \in queued THEN "next-step" ELSE "next-turn"
    IN  IF queued = {}
        THEN /\ phase' = CancelledPhase(cause, FALSE)
             /\ frames' = below
             /\ IF phase.kind = "idle"
                THEN UNCHANGED <<owed, stranded>>
                ELSE IF cause = "disposed" THEN SettleAll
                ELSE stranded' = stranded \cup owed /\ UNCHANGED owed
             /\ UNCHANGED <<log, inbox>>
        ELSE /\ log' = log \o EmptyingEvents(inbox, t, TRUE)
             /\ inbox' = [inbox EXCEPT ![t] = <<>>]
             /\ frames' = Append(below, [call |-> "cancel", cause |-> cause,
                                         left |-> {"next-turn"} \ {t}])
             /\ Settle({inbox[t][i] : i \in 1..Len(inbox[t])})
             /\ UNCHANGED phase

Cancel(cause, keepInbox) ==
    /\ spent.cancels < MaxCancels
    /\ spent' = [spent EXCEPT !.cancels = @ + 1]
    /\ IF keepInbox
       THEN /\ cause = "user"
            /\ phase' = CancelledPhase(cause, TRUE)
            /\ IF Aborted \/ phase.kind = "idle" \/ phase.wakeRequested
               THEN UNCHANGED <<owed, stranded>>
               ELSE SettleAll
            /\ UNCHANGED <<log, inbox, frames>>
       ELSE /\ Len(frames) < MaxNesting
            /\ CancelsOn(cause, Targets, frames)
    /\ UNCHANGED <<driver, unsent, rewritten>>

\* The listeners of a discarded list are done.
CancelGoesOn ==
    /\ Returned("cancel")
    /\ LET f == frames[Len(frames)]
       IN  CancelsOn(f.cause, f.left, Outer)
    /\ UNCHANGED <<driver, unsent, spent, rewritten>>

\* A queue edit of the session controller: a pending message is removed, or
\* replaced in place by a new one.
RemoveMessage(m) ==
    /\ Pending(inbox, m)
    /\ log' = log \o RespliceEvents(inbox, m, <<>>)
    /\ inbox' = Respliced(inbox, m, <<>>)
    /\ Settle({m})
    /\ UNCHANGED <<phase, driver, frames, unsent, spent, rewritten>>

ReplaceMessage(m, new) ==
    /\ Pending(inbox, m)
    /\ new \in unsent
    /\ unsent' = unsent \ {new}
    /\ log' = log \o RespliceEvents(inbox, m, <<new>>)
    /\ inbox' = Respliced(inbox, m, <<new>>)
    /\ Settle({m})
    /\ UNCHANGED <<phase, driver, frames, spent, rewritten>>

\* runMaintenance: a task that owns the idle agent, and its settlement.
StartMaintenance ==
    /\ phase.kind = "idle"
    /\ spent.maintenance < MaxMaintenance
    /\ spent' = [spent EXCEPT !.maintenance = @ + 1]
    /\ phase' = Maintenance(phase.turn)
    /\ UNCHANGED <<log, inbox, driver, frames, unsent, owed, stranded, rewritten>>

EndMaintenance ==
    /\ phase.kind = "maintenance"
    /\ Calm
    /\ IF phase.wakeRequested /\ HasPending(inbox)
       THEN phase' = Running(phase.turn) /\ driver' = DriverAt("starting")
       ELSE phase' = Idle(phase.turn) /\ UNCHANGED driver
    /\ UNCHANGED <<log, inbox, frames, unsent, spent, owed, stranded,
                   rewritten>>

-----------------------------------------------------------------------------
(* The driver. *)

\* A plausible bug: an aborted drain goes round again.
StopGoesOn == driver' = DriverAt("top")

\* turn() has thrown, or returned false: kick() will converge to idle.
Stop == driver' = DriverAt("returning")

\* The claim of a step boundary; the batch goes to preStep.
ClaimAt(target, events, ends, in) ==
    /\ log' = log \o events \o ClaimEvents(in, target)
    /\ inbox' = AfterClaim(in, target)
    /\ driver' = [at |-> "preStep", claimed |-> Claimed(in, target),
                  target |-> target, ends |-> ends, depth |-> 0]
    /\ LET batch == Claimed(in, target)
       IN  Settle({batch[i] : i \in 1..Len(batch)})

\* A turn may open. The first one of a drain opens inside the call that
\* woke the driver.
AtBoundary ==
    /\ driver.at \in {"starting", "top"}
    /\ Len(frames) = driver.depth

\* A listener of internal/dispatch refuses an append.
Refuses(unended) ==
    /\ spent.refusals < MaxRefusals
    /\ spent' = [spent EXCEPT !.refusals = @ + 1, !.unended = unended]

\* kick() finds the signal aborted before the turn opens.
SkipTurn ==
    /\ AtBoundary
    /\ Aborted
    /\ Stop
    /\ UNCHANGED <<log, inbox, phase, frames, unsent, spent, owed, stranded, rewritten>>

\* kick() opens a turn and claims its first batch.
BeginTurn ==
    /\ AtBoundary
    /\ ~Aborted
    /\ spent.unended = 0
    /\ phase' = [phase EXCEPT !.turn = @ + 1]
    /\ ClaimAt("next-turn", <<TurnStart(phase.turn + 1)>>, "none", inbox)
    /\ UNCHANGED <<frames, unsent, spent, rewritten>>

\* turn/start is refused, by the companion while a turn is open or by a
\* listener: the driver stops and the queue stays.
TurnStartRefused ==
    /\ AtBoundary
    /\ ~Aborted
    /\ IF spent.unended = 0 THEN Refuses(0) ELSE UNCHANGED spent
    /\ Stop
    /\ SettleAll
    /\ UNCHANGED <<log, inbox, phase, frames, unsent, rewritten>>

\* An observer of turn/start aborts: the turn closes before it claims.
TurnStartAborted(cause, keepInbox) ==
    /\ AtBoundary
    /\ ~Aborted
    /\ spent.unended = 0
    /\ IF keepInbox THEN cause = "user" ELSE ~HasPending(inbox)
    /\ spent.cancels < MaxCancels
    /\ spent' = [spent EXCEPT !.cancels = @ + 1]
    /\ phase' = [CancelledPhase(cause, keepInbox) EXCEPT !.turn = @ + 1]
    /\ log' = log \o <<TurnStart(phase.turn + 1),
                       TurnEnd(phase.turn + 1, "aborted")>>
    /\ Stop
    /\ SettleAll
    /\ UNCHANGED <<inbox, frames, unsent, rewritten>>

\* The turn closes as aborted, blocked or failed, and the driver stops. The
\* turn stays open when its end is refused.
EndTurn(reason, events) ==
    /\ \/ /\ log' = log \o events \o <<TurnEnd(phase.turn, reason)>>
          /\ UNCHANGED spent
       \/ /\ log' = log \o events
          /\ Refuses(phase.turn)
    /\ Stop
    /\ UNCHANGED <<phase, frames>>

\* A plausible bug: an aborted batch is closed as if nothing was owed.
InterruptedReasonCompleted == IF Aborted THEN "completed" ELSE "error"

\* The end of a turn that throws: its signal tells an abort from a failure.
InterruptedReason == IF Aborted THEN "aborted" ELSE "error"

\* Assembly or a pre-step hook throws, or the signal aborted meanwhile.
PreStepThrows ==
    /\ driver.at = "preStep" /\ Calm
    /\ EndTurn(InterruptedReason, <<>>)
    /\ IF Aborted THEN UNCHANGED <<owed, stranded>> ELSE SettleAll
    /\ UNCHANGED <<inbox, unsent, rewritten>>

\* A pre-step hook rejects the step: the claimed batch ends here.
PreStepRejects ==
    /\ driver.at = "preStep" /\ Calm
    /\ ~Aborted
    /\ EndTurn("blocked", <<>>)
    /\ SettleAll
    /\ UNCHANGED <<inbox, unsent, rewritten>>

\* The turn closes normally, unless its end is refused; the driver goes on
\* while work is queued.
CloseTurn ==
    /\ \/ /\ log' = Append(log, TurnEnd(phase.turn, driver.ends))
          /\ IF HasPending(inbox)
             THEN /\ driver' = DriverAt("top")
                  /\ phase' = Running(phase.turn)
             ELSE /\ driver' = [DriverAt("returning") EXCEPT
                                    !.ends = driver.ends]
                  /\ UNCHANGED phase
          /\ UNCHANGED <<spent, owed, stranded>>
       \/ /\ Refuses(phase.turn)
          /\ Stop
          /\ SettleAll
          /\ UNCHANGED <<log, phase>>
    /\ UNCHANGED <<inbox, frames, unsent>>

\* The hooks let the step enter with the claimed batch ("drop" empties it)
\* and perhaps with context of their own.
Entered(drop) == IF drop THEN <<>> ELSE driver.claimed

RewrittenBy(drop) ==
    rewritten' = IF drop
                 THEN rewritten \cup {driver.claimed[i] :
                                        i \in 1..Len(driver.claimed)}
                 ELSE rewritten

\* Nothing to enter after a step that ended the turn.
PreStepFindsNothing(drop, context) ==
    /\ driver.at = "preStep" /\ Calm
    /\ ~Aborted
    /\ Entered(drop) = <<>> /\ ~context
    /\ driver.ends # "none"
    /\ RewrittenBy(drop)
    /\ CloseTurn

\* An empty first step closes the turn; turn() returns false without a look
\* at the queue.
EmptyTurn(drop, context) ==
    /\ driver.at = "preStep" /\ Calm
    /\ ~Aborted
    /\ Entered(drop) = <<>> /\ ~context
    /\ driver.ends = "none" /\ phase.step = 0
    /\ RewrittenBy(drop)
    /\ EndTurn("completed", <<>>)
    /\ stranded' = stranded \cup owed
    /\ UNCHANGED <<inbox, unsent, owed>>

EnterStep(drop, context) ==
    /\ driver.at = "preStep" /\ Calm
    /\ ~Aborted
    /\ Entered(drop) # <<>> \/ context
         \/ (driver.ends = "none" /\ phase.step > 0)
    /\ RewrittenBy(drop)
    /\ phase' = [phase EXCEPT !.step = @ + 1]
    /\ log' = log \o <<StepStart(phase.turn, phase.step + 1)>>
                  \o [i \in 1..Len(Entered(drop)) |->
                        UserMessage(Entered(drop)[i])]
    /\ driver' = [driver EXCEPT !.at = "step", !.claimed = <<>>]
    /\ UNCHANGED <<inbox, frames, unsent, spent, owed, stranded>>

\* The events of a step: its assistant message, one tool call and its
\* result, and the end of the step.
Answer(calls) == AssistantMessage(phase.turn, phase.step, calls)
ToolRun == <<ToolCall(phase.turn, phase.step, 1),
             ToolResult(phase.turn, phase.step, 1, "none")>>
StepOver == <<StepEnd(phase.turn, phase.step)>>

StepBody(outcome) ==
    CASE outcome = "nothing" -> <<>>
      [] outcome \in {"completed", "max-tokens"} -> <<Answer(<<>>)>>
      [] outcome = "asked" -> <<Answer(<<1>>)>>
      [] outcome = "started" -> <<Answer(<<1>>), ToolRun[1]>>
      [] outcome \in {"continue", "concluded"} -> <<Answer(<<1>>)>> \o ToolRun

StepEvents(outcome) == StepBody(outcome) \o StepOver

\* Context that a tool leaves for the next step, at most one message.
ToolContext(outcome, context) ==
    context = {} \/ outcome \in {"continue", "concluded"}

WithContext(context) ==
    IF context = {} THEN inbox
    ELSE Appended(inbox, "next-step", CHOOSE m \in context : TRUE)

ContextEvents(context) ==
    IF context = {} THEN <<>>
    ELSE AppendEvents(inbox, "next-step", CHOOSE m \in context : TRUE)

OneOf(set) == {{}} \cup {{m} : m \in set}

\* How far a step may get that throws: the request failed, a stage of the
\* tool scheduler threw with its call logged or not, or the signal aborted.
Breaks(outcome) == Aborted \/ outcome \notin {"completed", "max-tokens"}

ThrowsWith(context) ==
    /\ inbox' = WithContext(context)
    /\ unsent' = unsent \ context
    /\ IF Aborted THEN UNCHANGED <<owed, stranded>> ELSE SettleAll
    /\ UNCHANGED rewritten

\* The step throws; finally closes it.
StepThrows(outcome, context) ==
    /\ driver.at = "step" /\ Calm
    /\ Breaks(outcome)
    /\ ToolContext(outcome, context)
    /\ EndTurn(InterruptedReason,
               ContextEvents(context) \o StepEvents(outcome))
    /\ ThrowsWith(context)

\* The end of a step is refused, whatever it did: the companion refuses the
\* end of its turn too.
StepEndRefused(outcome, context) ==
    /\ driver.at = "step" /\ Calm
    /\ ToolContext(outcome, context)
    /\ log' = log \o ContextEvents(context) \o StepBody(outcome)
    /\ Refuses(phase.turn)
    /\ Stop
    /\ ThrowsWith(context)
    /\ UNCHANGED <<phase, frames>>

\* max-tokens is sticky; a tool step that does not conclude owes another.
EndsAfter(outcome) ==
    IF driver.ends = "max-tokens" THEN "max-tokens"
    ELSE CASE outcome \in {"completed", "concluded"} -> "completed"
           [] outcome = "max-tokens" -> "max-tokens"
           [] OTHER -> "none"

Settling == {"completed", "max-tokens", "continue", "concluded"}

StepReturns(outcome, context) ==
    /\ driver.at = "step" /\ Calm
    /\ ~Aborted
    /\ outcome \in Settling
    /\ outcome = "continue" => phase.step <= MaxSteps
    /\ ToolContext(outcome, context)
    /\ LET ends == EndsAfter(outcome)
           in == WithContext(context)
           events == ContextEvents(context) \o StepEvents(outcome)
       IN  IF ends # "none" /\ in["next-step"] = <<>>
           THEN /\ log' = log \o events
                /\ inbox' = in
                /\ driver' = [driver EXCEPT !.at = "stopping", !.ends = ends]
                /\ UNCHANGED <<owed, stranded>>
           ELSE ClaimAt("next-step", events, ends, in)
    /\ unsent' = unsent \ context
    /\ UNCHANGED <<phase, frames, spent, rewritten>>

\* The turn-stopping hooks settle: what they steered runs in this turn.
StoppingThrows ==
    /\ driver.at = "stopping" /\ Calm
    /\ EndTurn(InterruptedReason, <<>>)
    /\ IF Aborted THEN UNCHANGED <<owed, stranded>> ELSE SettleAll
    /\ UNCHANGED <<inbox, unsent, rewritten>>

StoppingSettles ==
    /\ driver.at = "stopping" /\ Calm
    /\ ~Aborted
    /\ IF inbox["next-step"] = <<>>
       THEN CloseTurn
       ELSE /\ ClaimAt("next-step", <<>>, driver.ends, inbox)
            /\ UNCHANGED <<phase, frames, unsent, spent>>
    /\ UNCHANGED rewritten

\* A plausible bug: a latched wake is forgotten at convergence.
ReplayedNever == <<>>

Replayed == IF phase.wakeRequested THEN <<[call |-> "replay"]>> ELSE <<>>

\* kick() converges to idle and tells the status listeners; a latched wake
\* is replayed after them.
Converge ==
    /\ driver.at = "returning" /\ Calm
    /\ phase' = Idle(phase.turn)
    /\ driver' = NoDriver
    /\ frames' = Replayed
    /\ UNCHANGED <<log, inbox, unsent, spent, owed, stranded, rewritten>>

Replay ==
    /\ Returned("replay")
    /\ frames' = Outer
    /\ IF HasPending(inbox) THEN WakeDriver(FALSE)
                            ELSE UNCHANGED <<phase, driver>>
    /\ UNCHANGED <<log, inbox, unsent, spent, owed, stranded,
                   rewritten>>

-----------------------------------------------------------------------------
Outcomes == Settling \cup {"nothing", "asked", "started"}

DriverStep ==
    \/ SkipTurn
    \/ BeginTurn
    \/ TurnStartRefused
    \/ \E cause \in Causes, keepInbox \in BOOLEAN :
          TurnStartAborted(cause, keepInbox)
    \/ PreStepThrows
    \/ PreStepRejects
    \/ /\ driver.at = "preStep"
       /\ \E drop, context \in BOOLEAN :
             \/ PreStepFindsNothing(drop, context)
             \/ EmptyTurn(drop, context)
             \/ EnterStep(drop, context)
    \/ /\ driver.at = "step"
       /\ \E outcome \in Outcomes, context \in OneOf(unsent) :
             \/ StepThrows(outcome, context)
             \/ StepEndRefused(outcome, context)
             \/ StepReturns(outcome, context)
    \/ StoppingThrows
    \/ StoppingSettles
    \/ Converge

Listeners ==
    \/ \E m \in Messages :
          \/ Send(m, "next-turn", TRUE)
          \/ Send(m, "next-step", TRUE)
          \/ Send(m, "next-step", FALSE)
          \/ RemoveMessage(m)
          \/ \E new \in Messages : ReplaceMessage(m, new)
    \/ \E cause \in Causes, keepInbox \in BOOLEAN : Cancel(cause, keepInbox)
    \/ StartMaintenance

Next ==
    \/ DriverStep
    \/ Wake
    \/ Replay
    \/ CancelGoesOn
    \/ EndMaintenance
    \/ Listeners

Spec == Init /\ [][Next]_vars

\* The event loop runs what is ready: the driver's awaited calls settle, a
\* listener returns, a maintenance task ends. Nobody has to send or cancel.
Fairness ==
    /\ WF_vars(DriverStep)
    /\ WF_vars(Wake \/ Replay \/ CancelGoesOn)
    /\ WF_vars(EndMaintenance)

FairSpec == Spec /\ Fairness

-----------------------------------------------------------------------------
TypeOK ==
    /\ inbox \in [Targets -> Seq(Messages)]
    /\ phase \in [kind : {"idle", "maintenance", "running"},
                  abort : {"none"} \cup Causes,
                  turn : Nat, step : Nat, wakeRequested : BOOLEAN]
    /\ driver \in [at : DriverPlaces, claimed : Seq(Messages),
                   target : Targets, ends : Ends, depth : Nat]
    /\ frames \in Seq([call : {"send"}, message : Messages, wake : BOOLEAN]
                        \cup [call : {"replay"}]
                        \cup [call : {"cancel"}, cause : Causes,
                              left : SUBSET Targets])
    /\ unsent \subseteq Messages
    /\ spent \in [cancels : Nat, maintenance : Nat, refusals : Nat, unended : Nat]
    /\ owed \subseteq Messages
    /\ stranded \subseteq Messages
    /\ rewritten \subseteq Messages

\* The driver converges to idle only when every waking message it accepted
\* has left the inbox, whatever cancels, wakes, edits and hooks interleaved.
\* (send, wakeDriver, kick and turn agree on who replays a wake.)
IdleOwesNothing ==
    phase.kind = "idle" /\ Calm
        => owed \subseteq stranded

\* What became of each message, read off the log: pending, claimed by the
\* open turn, entered by a step, canceled, or ended with its turn; "lost" are
\* those a turn that ended well had claimed and not entered.
FreshFates ==
    [inbox |-> EmptyInbox, fate |-> [m \in Messages |-> "unsent"],
     turns |-> 0, lost |-> {}, ok |-> TRUE]

FatesAfter(f, e) ==
    LET Taken(m) == \E i \in e.start + 1 .. e.start + e.removed :
                       f.inbox[e.target][i] = m
        claimed == {m \in Messages : f.fate[m] = "claimed"}
        Sure(cond, g) == [g EXCEPT !.ok = @ /\ cond]
    IN
    CASE e.type = "agent/inbox/spliced" ->
            Sure(\A m \in Messages :
                    InSeq(m, e.inserted) => f.fate[m] = "unsent",
              [f EXCEPT
                !.inbox = InboxAfter(@, e),
                !.turns = IF e.target = "next-turn" /\ ~e.canceled
                          THEN @ + e.removed ELSE @,
                !.fate = [m \in Messages |->
                    IF InSeq(m, e.inserted) THEN "pending"
                    ELSE IF Taken(m)
                         THEN IF e.canceled THEN "canceled" ELSE "claimed"
                         ELSE @[m]]])
      [] e.type = "user/message" ->
            Sure(f.fate[e.message] = "claimed",
              [f EXCEPT !.fate[e.message] = "entered"])
      [] e.type = "turn/start" ->
            Sure(claimed = {}, [f EXCEPT !.turns = 0])
      [] e.type = "turn/end" ->
            Sure(f.turns <= 1,
              [f EXCEPT
                !.fate = [m \in Messages |->
                    IF m \in claimed THEN "ended" ELSE @[m]],
                !.lost = IF e.reason \in Ends THEN @ \cup claimed ELSE @])
      [] OTHER -> f

FatesOf(events) == Scan(FatesAfter, FreshFates, events)

\* Every message is taken once and has one fate: a step enters only what its
\* own turn claimed, no message enters twice, a turn holds at most one queued
\* turn, and a turn that ends well has entered all it claimed, except what a
\* hook rewrote away. A claimed message is never silently lost.
EveryMessageAccounted ==
    LET fates == FatesOf(log)
    IN  fates.ok /\ fates.lost \subseteq rewritten

\* The account of consumed work beside the fates: "hidden" are the messages
\* canceled, or claimed and not run, since the turn the account reports,
\* except those that a queue edit replaced.
FreshHistory ==
    [account |-> FreshAccount, fates |-> FreshFates, hidden |-> {}]

Dropped(before, after) ==
    {m \in Messages : /\ after.fate[m] \in {"canceled", "ended"}
                      /\ after.fate[m] # before.fate[m]}

HistoryAfter(h, e) ==
    LET account == AccountAfter(h.account, e)
        fates == FatesAfter(h.fates, e)
        reports == e.type = "turn/end" /\ account.end = e.turn
        replaces == /\ e.type = "agent/inbox/spliced"
                    /\ e.canceled /\ e.inserted # <<>>
    IN  [account |-> account, fates |-> fates,
         hidden |-> IF reports THEN {}
                    ELSE IF replaces THEN h.hidden
                    ELSE h.hidden \cup Dropped(h.fates, fates)]

HistoryOf(events) == Scan(HistoryAfter, FreshHistory, events)

\* The account of consumed work hides nothing: when it reports a turn that
\* ended well, or no turn at all, and nothing dropped since, then no message
\* was canceled, or claimed and not run, after that turn, but for what a hook
\* rewrote or a queue edit replaced.
AccountHidesNothing ==
    LET work == ConsumedWork(log)
    IN  work.reason \in Ends /\ ~work.droppedUnrun
           => HistoryOf(log).hidden \subseteq rewritten

\* An accepted wake is served: under the fairness of the event loop the
\* message leaves the inbox, or a documented exception parks it.
WakesAreServed ==
    \A m \in Messages :
        (m \in owed \ stranded) ~> (m \notin owed \ stranded)

\* Every activity ends: whoever waits for the agent to be idle is answered.
AgentConverges == (phase.kind # "idle") ~> (phase.kind = "idle")
=============================================================================
