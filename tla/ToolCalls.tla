------------------------------ MODULE ToolCalls ------------------------------
(***************************************************************************)
(* The scheduler of the tool calls of one step (executeToolCalls). Calls   *)
(* are 1..NCalls in model order. An exclusive call is a barrier; parallel  *)
(* calls share a bounded pool. Calls start, and results are committed, in  *)
(* model order; only the dispatches overlap. The registry may reclassify a *)
(* call until it starts, the signal may abort at any await, and an         *)
(* internal failure stops the scheduler.                                   *)
(*                                                                         *)
(* The place of the scheduler, at:                                         *)
(*   group     between two groups                                          *)
(*   prepare   the last started call awaits its pre-execute stages         *)
(*   enter     startCall has settled, fillPool has not resumed             *)
(*   commit    commitReady looks at its next slot                          *)
(*   finalize  the post-execute stages of that slot                        *)
(*   fill      commitReady has settled, fillPool decides on another start  *)
(*   race      waiting for a dispatch to settle                            *)
(*   drain     failed, waiting for every dispatch to settle                *)
(*   done, failed                                                          *)
(***************************************************************************)
EXTENDS SessionLog, FiniteSets

CONSTANTS
    NCalls,             \* calls of the assistant message
    MaxParallel,        \* maxParallelToolCalls
    MaxReclassified     \* bound: changes of the registry

ASSUME SchedulerBounds ==
    /\ NCalls \in Nat \ {0}
    /\ MaxParallel \in Nat \ {0}
    /\ MaxReclassified \in Nat

VARIABLES
    log,            \* the session log, from the turn that asked
    signal,         \* whether the signal of the step is aborted
    mode,           \* executionMode: what the registry would say now
    changes,        \* changes of the registry so far
    at,             \* the place of the scheduler
    next,           \* calls of the groups that are over
    group,          \* the current group: its last call, mode and abort
    started,        \* calls with a recorded start
    committed,      \* calls with a committed result
    inFlight,       \* dispatches the scheduler waits for
    stage,          \* stage of each call
    slot,           \* settled outcome of each call
    failure,        \* schedulerFailure
    invoked,        \* history: calls whose tool body was invoked
    startedAs       \* history: mode a call was started under

vars == <<log, signal, mode, changes, at, next, group, started, committed,
          inFlight, stage, slot, failure, invoked, startedAs>>

Calls == 1..NCalls
Modes == {"parallel", "exclusive"}
Stages == {"waiting", "preparing", "wrapped", "body", "settled"}
Places == {"group", "prepare", "enter", "commit", "finalize", "fill", "race",
           "drain", "done", "failed"}

\* What a call came to: a result, an error result, or one of the two
\* cancellations, by whether the body had been invoked.
ResultCodes == {"none", "ERROR", "ABORTED", "TOOL_ABORTED_BEFORE_DISPATCH"}

EmptySlot == [kind |-> "empty", code |-> "none"]
Slots == [kind : {"empty", "post", "final"}, code : ResultCodes]

NoGroup == [last |-> 0, parallel |-> FALSE, aborted |-> FALSE]

Init ==
    /\ log = <<TurnStart(1), StepStart(1, 1),
               AssistantMessage(1, 1, [i \in Calls |-> i])>>
    /\ signal = FALSE
    /\ mode \in [Calls -> Modes]
    /\ changes = 0
    /\ at = "group"
    /\ next = 0
    /\ group = NoGroup
    /\ started = 0
    /\ committed = 0
    /\ inFlight = {}
    /\ stage = [i \in Calls |-> "waiting"]
    /\ slot = [i \in Calls |-> EmptySlot]
    /\ failure = FALSE
    /\ invoked = {}
    /\ startedAs = [i \in Calls |-> "waiting"]

-----------------------------------------------------------------------------
(* The environment: the registry and whoever aborts the step.              *)

\* The mode of a started call is not read again.
Reclassify(i) ==
    /\ changes < MaxReclassified
    /\ stage[i] = "waiting"
    /\ changes' = changes + 1
    /\ mode' = [mode EXCEPT ![i] = IF @ = "parallel" THEN "exclusive"
                                                     ELSE "parallel"]
    /\ UNCHANGED <<log, signal, at, next, group, started, committed, inFlight,
                   stage, slot, failure, invoked, startedAs>>

Abort ==
    /\ ~signal
    /\ at \notin {"done", "failed"}
    /\ signal' = TRUE
    /\ UNCHANGED <<log, mode, changes, at, next, group, started, committed,
                   inFlight, stage, slot, failure, invoked, startedAs>>

-----------------------------------------------------------------------------
(* The dispatch of a prepared call, concurrent with the scheduler: the     *)
(* wrappers around the body, the body, and the outcome for the scheduler.  *)

\* A plausible bug: every cancelled call is reported as never dispatched.
CancelledAlwaysBefore(i, code) ==
    IF signal /\ code = "none" THEN "TOOL_ABORTED_BEFORE_DISPATCH" ELSE code

\* cancellationResult: replaces a success of a cancelled call.
Cancelled(i, code) ==
    IF ~signal \/ code # "none" THEN code
    ELSE IF i \in invoked THEN "ABORTED" ELSE "TOOL_ABORTED_BEFORE_DISPATCH"

Settles(i, kind, code) ==
    /\ stage' = [stage EXCEPT ![i] = "settled"]
    /\ slot' = [slot EXCEPT ![i] = [kind |-> kind, code |-> code]]

\* dispatchToolBody, up to the call of the body.
BodyStarts(i) ==
    /\ stage[i] = "wrapped"
    /\ ~signal
    /\ stage' = [stage EXCEPT ![i] = "body"]
    /\ invoked' = invoked \cup {i}
    /\ UNCHANGED <<log, signal, mode, changes, at, next, group, started,
                   committed, inFlight, slot, failure, startedAs>>

\* The dispatch settles without a body: a wrapper answers or fails, the tool
\* is gone, or the signal aborted before the body.
WrapperSettles(i, kind, code) ==
    /\ stage[i] = "wrapped"
    /\ kind = "final" => code = "ERROR"
    /\ Settles(i, kind, Cancelled(i, code))
    /\ UNCHANGED <<log, signal, mode, changes, at, next, group, started,
                   committed, inFlight, failure, invoked, startedAs>>

\* The body reaches quiescence, aborted or not.
BodySettles(i, kind, code) ==
    /\ stage[i] = "body"
    /\ kind = "final" => code = "ERROR"
    /\ Settles(i, kind, Cancelled(i, code))
    /\ UNCHANGED <<log, signal, mode, changes, at, next, group, started,
                   committed, inFlight, failure, invoked, startedAs>>

\* The dispatch rejects: an internal failure of the scheduler.
DispatchRejects(i) ==
    /\ stage[i] \in {"wrapped", "body"}
    /\ stage' = [stage EXCEPT ![i] = "settled"]
    /\ failure' = TRUE
    /\ UNCHANGED <<log, signal, mode, changes, at, next, group, started,
                   committed, inFlight, slot, invoked, startedAs>>

-----------------------------------------------------------------------------
(* The scheduler. *)

CallEvents(i) == <<ToolCall(1, 1, i)>>

\* startCall, up to the await of prepare.
StartCall(i) ==
    /\ log' = log \o CallEvents(i)
    /\ started' = i
    /\ stage' = [stage EXCEPT ![i] = "preparing"]
    /\ at' = "prepare"

\* executeToolCalls classifies the next call and opens its group.
StartGroup ==
    /\ at = "group" /\ next < NCalls
    /\ LET first == next + 1
           parallel == mode[first] = "parallel"
       IN  /\ group' = [last |-> IF parallel THEN NCalls ELSE first,
                        parallel |-> parallel, aborted |-> signal]
           /\ IF signal
              THEN /\ at' = "race"
                   /\ UNCHANGED <<log, started, stage, startedAs>>
              ELSE /\ StartCall(first)
                   /\ startedAs' = [startedAs EXCEPT ![first] = mode[first]]
    /\ UNCHANGED <<signal, mode, changes, next, committed, inFlight, slot,
                   failure, invoked>>

\* prepare settles: the call is dispatched, or has its outcome already.
Prepared(kind, code) ==
    /\ at = "prepare"
    /\ ~failure
    /\ kind = "dispatch" => code = "none"
    /\ kind = "post" => code \in {"ERROR", "TOOL_ABORTED_BEFORE_DISPATCH"}
    /\ kind = "final" => code \in {"ERROR", "TOOL_ABORTED_BEFORE_DISPATCH"}
    /\ code = "TOOL_ABORTED_BEFORE_DISPATCH" => signal
    /\ IF kind = "dispatch"
       THEN /\ inFlight' = inFlight \cup {started}
            /\ stage' = [stage EXCEPT ![started] = "wrapped"]
            /\ UNCHANGED slot
       ELSE /\ Settles(started, kind, code)
            /\ UNCHANGED inFlight
    /\ at' = "enter"
    /\ UNCHANGED <<log, signal, mode, changes, next, group, started, committed,
                   failure, invoked, startedAs>>

\* The scheduler throws: an await of its own rejected, or it resumed after
\* a dispatch had.
Throws ==
    /\ \/ at \in {"prepare", "finalize"}
       \/ at \in {"enter", "fill"} /\ failure
    /\ failure' = TRUE
    /\ at' = "drain"
    /\ UNCHANGED <<log, signal, mode, changes, next, group, started, committed,
                   inFlight, stage, slot, invoked, startedAs>>

\* A plausible bug: a result is committed as soon as it is there.
CommittableAnySettled(i) ==
    i > committed /\ i <= group.last /\ slot[i].kind # "empty"

\* commitReady: the next slot in model order, if it is settled.
Committable(i) ==
    i = committed + 1 /\ i <= group.last /\ slot[i].kind # "empty"

Committing == at = "commit" \/ (at = "enter" /\ ~failure)

Commits(i, code) ==
    /\ log' = Append(log, ToolResult(1, 1, i, code))
    /\ committed' = committed + 1
    /\ slot' = [slot EXCEPT ![i] = EmptySlot]
    /\ at' = "commit"

\* A final result is committed at once.
CommitFinal(i) ==
    /\ Committing
    /\ Committable(i) /\ slot[i].kind = "final"
    /\ Commits(i, slot[i].code)
    /\ UNCHANGED <<signal, mode, changes, next, group, started, inFlight,
                   stage, failure, invoked, startedAs>>

StartFinalize ==
    /\ Committing
    /\ \E i \in Calls : Committable(i) /\ slot[i].kind = "post"
    /\ at' = "finalize"
    /\ UNCHANGED <<log, signal, mode, changes, next, group, started, committed,
                   inFlight, stage, slot, failure, invoked, startedAs>>

\* finalizeScheduledExecution: post-execute may turn the result into an error.
Finalized(i, fails) ==
    /\ at = "finalize"
    /\ Committable(i) /\ slot[i].kind = "post"
    /\ Commits(i, IF fails THEN "ERROR" ELSE Cancelled(i, slot[i].code))
    /\ UNCHANGED <<signal, mode, changes, next, group, started, inFlight,
                   stage, failure, invoked, startedAs>>

CommitsDone ==
    /\ Committing
    /\ \A i \in Calls : ~Committable(i)
    /\ at' = "fill"
    /\ UNCHANGED <<log, signal, mode, changes, next, group, started, committed,
                   inFlight, stage, slot, failure, invoked, startedAs>>

\* A plausible bug: one dispatch too many.
RoomForOneMore == Cardinality(inFlight) <= MaxParallel

Room == Cardinality(inFlight) < MaxParallel

\* A plausible bug: the mode of later calls is not read again.
JoinsAsPlanned(i) == group.parallel

\* A later call joins the pool only if it is parallel by now.
Joins(i) == group.parallel /\ mode[i] = "parallel"

StartsAnother ==
    /\ ~signal /\ ~group.aborted
    /\ started < group.last
    /\ Room
    /\ Joins(started + 1)

\* fillPool resumes: it takes note of an abort, and starts another call or
\* leaves the pool to the race.
FillPool ==
    /\ at = "fill"
    /\ ~failure
    /\ group' = [group EXCEPT !.aborted = @ \/ signal]
    /\ IF StartsAnother
       THEN /\ StartCall(started + 1)
            /\ startedAs' = [startedAs EXCEPT ![started + 1] =
                                                    mode[started + 1]]
       ELSE /\ at' = "race"
            /\ UNCHANGED <<log, started, stage, startedAs>>
    /\ UNCHANGED <<signal, mode, changes, next, committed, inFlight, slot,
                   failure, invoked>>

\* A plausible bug: a settled dispatch stays in the pool.
NotTaken(i) == inFlight

Taken(i) == inFlight \ {i}

\* The race resumes with one settled dispatch.
Race(i) ==
    /\ at = "race"
    /\ i \in inFlight /\ stage[i] = "settled"
    /\ inFlight' = Taken(i)
    /\ at' = IF failure THEN "drain" ELSE "commit"
    /\ UNCHANGED <<log, signal, mode, changes, next, group, started, committed,
                   stage, slot, failure, invoked, startedAs>>

\* Calls that never started: the rest of the group and of the plan.
Skipped == started + 1 .. NCalls

SkippedEvents(calls) ==
    LET from == NCalls - Cardinality(calls)
    IN  [k \in 1..2 * Cardinality(calls) |->
            LET i == from + (k + 1) \div 2
            IN  IF k % 2 = 1 THEN ToolCall(1, 1, i)
                ELSE ToolResult(1, 1, i, "TOOL_ABORTED_BEFORE_DISPATCH")]

EndGroup ==
    /\ at = "race"
    /\ inFlight = {}
    /\ IF group.aborted
       THEN /\ log' = log \o SkippedEvents(Skipped)
            /\ next' = NCalls
            /\ at' = "done"
       ELSE /\ next' = started
            /\ at' = "group"
            /\ UNCHANGED log
    /\ UNCHANGED <<signal, mode, changes, group, started, committed, inFlight,
                   stage, slot, failure, invoked, startedAs>>

Return ==
    /\ at = "group" /\ next = NCalls
    /\ at' = "done"
    /\ UNCHANGED <<log, signal, mode, changes, next, group, started, committed,
                   inFlight, stage, slot, failure, invoked, startedAs>>

\* A plausible bug: the failure is thrown while dispatches still run.
DrainedAnyway == TRUE

Drained == \A i \in inFlight : stage[i] = "settled"

Fail ==
    /\ at = "drain"
    /\ Drained
    /\ at' = "failed"
    /\ UNCHANGED <<log, signal, mode, changes, next, group, started, committed,
                   inFlight, stage, slot, failure, invoked, startedAs>>

-----------------------------------------------------------------------------
Kinds == {"post", "final"}

SchedulerStep ==
    \/ StartGroup
    \/ \E kind \in Kinds \cup {"dispatch"}, code \in ResultCodes :
          Prepared(kind, code)
    \/ Throws
    \/ \E i \in Calls, fails \in BOOLEAN : Finalized(i, fails)
    \/ StartFinalize
    \/ \E i \in Calls : CommitFinal(i) \/ Race(i)
    \/ CommitsDone
    \/ FillPool
    \/ EndGroup
    \/ Return
    \/ Fail

\* A wrapper may hand on a signal of its own, which aborts before or in the
\* body although the signal of the step does not.
DispatchStep(i) ==
    \/ BodyStarts(i)
    \/ \E kind \in Kinds :
          \/ \E code \in {"none", "ERROR", "TOOL_ABORTED_BEFORE_DISPATCH"} :
                WrapperSettles(i, kind, code)
          \/ \E code \in {"none", "ERROR", "ABORTED"} :
                BodySettles(i, kind, code)
    \/ DispatchRejects(i)

Environment == Abort \/ \E i \in Calls : Reclassify(i)

Next == SchedulerStep \/ Environment \/ \E i \in Calls : DispatchStep(i)

Spec == Init /\ [][Next]_vars

\* The scheduler runs when it can, and every tool, hook and wrapper settles:
\* the scheduler waits for each of them without a timeout of its own.
FairSpec ==
    /\ Spec
    /\ WF_vars(SchedulerStep)
    /\ \A i \in Calls : WF_vars(DispatchStep(i))

-----------------------------------------------------------------------------
TypeOK ==
    /\ signal \in BOOLEAN
    /\ mode \in [Calls -> Modes]
    /\ changes \in Nat
    /\ at \in Places
    /\ next \in 0..NCalls
    /\ group \in [last : 0..NCalls, parallel : BOOLEAN, aborted : BOOLEAN]
    /\ started \in 0..NCalls
    /\ committed \in 0..NCalls
    /\ inFlight \subseteq Calls
    /\ stage \in [Calls -> Stages]
    /\ slot \in [Calls -> Slots]
    /\ failure \in BOOLEAN
    /\ invoked \subseteq Calls
    /\ startedAs \in [Calls -> Modes \cup {"waiting"}]

Over == at \in {"done", "failed"}

Active(i) == stage[i] # "waiting" /\ i > committed

CallsBefore(events, type, k) ==
    {events[l].call : l \in {l \in 1..k - 1 : events[l].type = type}}

InOrder(events, type) ==
    \A k \in 1..Len(events) :
        events[k].type = type =>
            CallsBefore(events, type, k) = 1..events[k].call - 1

\* The log records starts and results in the order of the model's calls and
\* without a gap, however the dispatches overlap and settle.
ModelOrder == InOrder(log, "tool/call") /\ InOrder(log, "tool/result")

\* A call started as exclusive is alone from its start to its result, even
\* when the registry changes its mind about it or about its neighbours.
ExclusiveAlone ==
    \A i, j \in Calls :
        startedAs[i] = "exclusive" /\ i # j => ~(Active(i) /\ Active(j))

\* The pool never holds more dispatches than it may.
PoolBounded ==
    /\ Cardinality(inFlight) <= MaxParallel
    /\ Cardinality({i \in Calls : stage[i] \in {"wrapped", "body"}})
          <= MaxParallel

ResultsOf(events, i) == {k \in 1..Len(events) :
                           /\ events[k].type = "tool/result"
                           /\ events[k].call = i}

\* A step that is over is over: no tool runs for it any more, however it
\* ended. If the scheduler returned, every call is answered once, the aborted
\* and the skipped ones too; if it failed, it has made up no result.
OverMeansOver ==
    /\ Over => \A i \in Calls : stage[i] \notin {"wrapped", "body"}
    /\ at = "done" => \A i \in Calls : Cardinality(ResultsOf(log, i)) = 1
    /\ at = "failed" =>
          \A i \in Calls : ResultsOf(log, i) # {} => stage[i] = "settled"

\* Whenever the process dies, the transcript that the repair leaves to the
\* model is well formed, answers every call once, and never says of a tool
\* whose body was invoked that it was not started or not dispatched.
TranscriptTellsTruth ==
    LET repaired == log \o InterruptedTurnClosers(log)
    IN  /\ WellFormed(repaired)
        /\ \A i \in Calls : Cardinality(ResultsOf(repaired, i)) = 1
        /\ \A i \in invoked, k \in 1..Len(repaired) :
              k \in ResultsOf(repaired, i) =>
                  repaired[k].code \notin {"TOOL_NOT_STARTED",
                                          "TOOL_ABORTED_BEFORE_DISPATCH"}

\* Once every tool settles, the scheduler returns or fails: an abort or a
\* failure leaves no call waiting for another.
SchedulerReturns == <>Over
=============================================================================
