---------------------------- MODULE AgentResume ----------------------------
(***************************************************************************)
(* The agent driver with crashes. The log is written behind: a crash keeps *)
(* a prefix of it, cut anywhere. The next load closes the turn the crash   *)
(* left open, and a new agent replays the inbox from the repaired log.     *)
(* Queued work waits for a wake, as after any start.                       *)
(***************************************************************************)
EXTENDS AgentDriver

CONSTANT MaxCrashes     \* bound: crashes

ASSUME ResumeBounds == MaxCrashes \in Nat

VARIABLE crashes

resumeVars == <<vars, crashes>>

ResumeInit == Init /\ crashes = 0

Survives(n) ==
    LET prefix == SubSeq(log, 1, n)
    IN  prefix \o InterruptedTurnClosers(prefix)

\* turnBoundary.lastTurn of the loaded log.
ResumedTurn(events) ==
    LET turns == {events[i].turn : i \in {j \in 1..Len(events) :
                                            events[j].type = "turn/start"}}
    IN  IF turns = {} THEN 0 ELSE CHOOSE t \in turns : \A u \in turns : u <= t

\* A plausible bug: a resumed agent starts with an empty inbox.
ResumedInboxEmpty(events) == EmptyInbox

\* The constructor of Inbox replays the splices of the log.
ResumedInbox(events) == InboxOf(events)

Crash ==
    /\ crashes < MaxCrashes
    /\ crashes' = crashes + 1
    /\ \E n \in 0..Len(log) :
          /\ log' = Survives(n)
          /\ inbox' = ResumedInbox(Survives(n))
          /\ phase' = Idle(ResumedTurn(Survives(n)))
    /\ driver' = NoDriver
    /\ frames' = <<>>
    /\ owed' = {}
    /\ stranded' = {}
    /\ spent' = [spent EXCEPT !.unended = 0]
    /\ UNCHANGED <<unsent, rewritten>>

ResumeNext == (Next /\ UNCHANGED crashes) \/ Crash

ResumeSpec == ResumeInit /\ [][ResumeNext]_resumeVars

-----------------------------------------------------------------------------
\* The log passes the relational checks of the session companion at every
\* moment, across crashes and repairs: turns and steps are numbered, balanced
\* and closed in order, and whenever no driver runs no turn is open, but the
\* one whose end was refused, until the next load repairs it.
LogIsWellFormed ==
    /\ WellFormed(log)
    /\ phase.kind # "running" => TraceOf(log).openTurn = spent.unended

\* The live inbox is the replay of the durable splices, so that a resumed
\* agent finds the pending work of the interrupted one.
InboxIsReplay == InboxOf(log) = inbox

\* Repair reports an interrupted call by what the log shows of it: a call
\* recorded as started has an unknown outcome, the others were not started.
RepairTellsStarted ==
    \A i \in 1..Len(log) :
        log[i].type = "tool/result" /\ log[i].code # "none" =>
            (log[i].code = "TOOL_OUTCOME_UNKNOWN" <=>
                \E j \in 1..i : /\ log[j].type = "tool/call"
                                /\ log[j].turn = log[i].turn
                                /\ log[j].step = log[i].step
                                /\ log[j].call = log[i].call)
=============================================================================
