------------------------- MODULE AgentResumeProofs -------------------------
(***************************************************************************)
(* The agent driver with crashes, for any messages and bounds: the live    *)
(* inbox is the replay of the log, the log is well formed at every event,  *)
(* its repair tells the calls that started from those that did not, every  *)
(* message has one fate, and the account of the work hides none.           *)
(*                                                                         *)
(* A crash keeps any prefix of the log, so the invariant is about every    *)
(* prefix (GoodLog): the companion admits it, the repair sees the turn and *)
(* the step the companion sees (Fits) and which calls began (Remembers).   *)
(* Such a log can be closed, and each action of the driver appends events  *)
(* that fit where the log stands (LogInv).                                 *)
(*                                                                         *)
(* The fates of the messages are one more scan of the log, and they too    *)
(* are known at every prefix (Fated), which is why a crash leaves them     *)
(* sound. FateInv ties what the open turn has claimed to the batch that    *)
(* the driver carries across its step boundary. What the account reports   *)
(* follows from the fates alone (Reckoned).                                *)
(***************************************************************************)
EXTENDS AgentResume, AgentDriverProofs

\* The scans of the log.
InboxScan == INSTANCE ScanProofs WITH After <- InboxAfter
TraceScan == INSTANCE ScanProofs WITH After <- TraceAfter
RepairScan == INSTANCE ScanProofs WITH After <- ScanAfter

-----------------------------------------------------------------------------
(* The events the driver and the repair write.  A step asks for one call. *)

Splices == [type : {"agent/inbox/spliced"}, target : Targets, start : Nat,
            removed : Nat, inserted : Seq(Messages), canceled : BOOLEAN]

Texts == [type : {"user/message"}, message : Messages]

Reasons == Ends \cup {"aborted", "blocked", "error", "interrupted"}

Codes == {"none", "TOOL_OUTCOME_UNKNOWN", "TOOL_NOT_STARTED"}

LogEvents ==
    Splices \cup Texts
        \cup [type : {"turn/start"}, turn : Nat]
        \cup [type : {"turn/end"}, turn : Nat, reason : Reasons]
        \cup [type : {"step/start", "step/end"}, turn : Nat, step : Nat]
        \cup [type : {"assistant/message"}, turn : Nat, step : Nat,
              calls : {<<>>, << 1 >>}]
        \cup [type : {"tool/call"}, turn : Nat, step : Nat, call : {1}]
        \cup [type : {"tool/result"}, turn : Nat, step : Nat, call : {1},
              code : Codes]

Logs == Seq(LogEvents)

-----------------------------------------------------------------------------
(* What holds at every event of a log. *)

RepairOf(events) == Scan(ScanAfter, FreshScan, events)

Traces == [openTurn : Nat, openStep : Nat, nextTurn : Nat, nextStep : Nat,
           pending : SUBSET {1}, ok : {TRUE}]

Scans == [turn : Nat, step : Nat, calls : {<<>>, << 1 >>},
          started : SUBSET {1}]

\* The companion and the repair see the same open turn and step; a call that
\* started and has no result is pending.
Fits(trace, scan) ==
    /\ trace \in Traces /\ scan \in Scans
    /\ trace.nextTurn >= 1 /\ trace.nextStep >= 1
    /\ trace.openTurn \in {0, trace.nextTurn}
    /\ trace.openStep \in {0, trace.nextStep}
    /\ trace.openTurn = 0 => trace.openStep = 0
    /\ scan.turn = trace.openTurn /\ scan.step = trace.openStep
    /\ trace.openStep = 0 =>
          trace.pending = {} /\ scan.calls = <<>> /\ scan.started = {}
    /\ scan.calls = << 1 >> /\ 1 \in scan.started => 1 \in trace.pending

\* The log has a record that the call of a step started.
Recorded(events, turn, step) ==
    \E j \in 1..Len(events) :
        /\ events[j].type = "tool/call"
        /\ events[j].turn = turn /\ events[j].step = step

StartedTurns(events) ==
    {events[j].turn : j \in {i \in 1..Len(events) :
                                events[i].type = "turn/start"}}

\* A step that has begun.
Reached(trace, turn, step) ==
    \/ turn < trace.nextTurn
    \/ /\ turn = trace.openTurn
       /\ step < trace.nextStep \/ step = trace.openStep

\* The turns are numbered, calls are of steps reached, the repair knows
\* which call started, and a result of the repair tells it.
Remembers(events, trace, scan) ==
    /\ StartedTurns(events) =
          1..(IF trace.openTurn = 0 THEN trace.nextTurn - 1
                                    ELSE trace.nextTurn)
    /\ \A j \in 1..Len(events) : events[j].type = "tool/call" =>
          Reached(trace, events[j].turn, events[j].step)
    /\ scan.calls = << 1 >> =>
          (1 \in scan.started <=> Recorded(events, scan.turn, scan.step))
    /\ Len(events) > 0 =>
          LET e == events[Len(events)]
          IN  e.type = "tool/result" /\ e.code # "none" =>
                 (e.code = "TOOL_OUTCOME_UNKNOWN"
                     <=> Recorded(events, e.turn, e.step))

GoodAt(events) ==
    /\ InboxOf(events) \in Inboxes
    /\ Fits(TraceOf(events), RepairOf(events))
    /\ Remembers(events, TraceOf(events), RepairOf(events))

GoodLog(events) ==
    /\ events \in Logs
    /\ \A n \in 0..Len(events) : GoodAt(SubSeq(events, 1, n))

Sees(scan, calls, started) == scan.calls = calls /\ scan.started = started

\* Where the log stands when the driver is at a place.
Closed(events, turn) ==
    LET trace == TraceOf(events)
    IN  trace.openTurn = 0 /\ trace.nextTurn = turn + 1

Unclosed(events, turn) == TraceOf(events).openTurn = turn

\* Between two turns: the last one is closed, unless its end was refused.
Resting(events, turn, unended) ==
    IF unended = 0 THEN Closed(events, turn) ELSE Unclosed(events, unended)

InTurn(events, turn, step) ==
    LET trace == TraceOf(events)
    IN  /\ turn >= 1 /\ trace.openTurn = turn
        /\ trace.openStep = 0 /\ trace.nextStep = step + 1

Open(events, turn, step) ==
    LET trace == TraceOf(events)
    IN  /\ turn >= 1 /\ trace.openTurn = turn
        /\ step >= 1 /\ trace.openStep = step

InStep(events, turn, step) ==
    LET trace == TraceOf(events)
        scan == RepairOf(events)
    IN  /\ Open(events, turn, step)
        /\ trace.pending = {} /\ Sees(scan, <<>>, {})
        /\ ~Recorded(events, turn, step)

\* The answer has asked for its call, and the call has started.
Asked(events, turn, step) ==
    LET scan == RepairOf(events)
    IN  /\ Open(events, turn, step)
        /\ Sees(scan, << 1 >>, {})

Started(events, turn, step) ==
    LET scan == RepairOf(events)
    IN  /\ Open(events, turn, step)
        /\ Sees(scan, << 1 >>, {1})

\* The scans end where they did.
Stays(events, longer) ==
    /\ \A t : Closed(events, t) => Closed(longer, t)
    /\ \A t : Unclosed(events, t) => Unclosed(longer, t)
    /\ \A t, p : InTurn(events, t, p) => InTurn(longer, t, p)
    /\ \A t, p : InStep(events, t, p) => InStep(longer, t, p)

LogInv ==
    /\ GoodLog(log)
    /\ InboxOf(log) = inbox
    /\ driver.at \in {"off", "starting", "top", "returning"} =>
          Resting(log, phase.turn, spent.unended)
    /\ driver.at \in {"preStep", "step", "stopping"} => spent.unended = 0
    /\ driver.at \in {"starting", "top"} => phase.step = 0
    /\ driver.at \in {"preStep", "stopping"} =>
          InTurn(log, phase.turn, phase.step)
    /\ driver.at = "step" => InStep(log, phase.turn, phase.step)

ResumeInv == DriverInv /\ LogInv

-----------------------------------------------------------------------------
(* The three scans follow the log event by event. *)

LEMMA ScansAreFolds ==
    ASSUME NEW s
    PROVE  /\ InboxOf(s) = InboxScan!Fold(EmptyInbox, s)
           /\ TraceOf(s) = TraceScan!Fold(FreshTrace, s)
           /\ RepairOf(s) = RepairScan!Fold(FreshScan, s)
<1>1. InboxOf(s) = InboxScan!Fold(EmptyInbox, s)
  BY DEF InboxOf, Scan, InboxScan!Fold
<1>2. TraceOf(s) = TraceScan!Fold(FreshTrace, s)
  BY DEF TraceOf, Scan, TraceScan!Fold
<1>3. RepairOf(s) = RepairScan!Fold(FreshScan, s)
  BY DEF RepairOf, Scan, RepairScan!Fold
<1>. QED
  BY <1>1, <1>2, <1>3

LEMMA ScansStart ==
    /\ InboxOf(<<>>) = EmptyInbox
    /\ TraceOf(<<>>) = FreshTrace
    /\ RepairOf(<<>>) = FreshScan
BY ScansAreFolds, InboxScan!FoldEmpty, TraceScan!FoldEmpty,
   RepairScan!FoldEmpty

LEMMA ScansFollow ==
    ASSUME NEW s \in Logs, NEW e \in LogEvents
    PROVE  /\ InboxOf(Append(s, e)) = InboxAfter(InboxOf(s), e)
           /\ TraceOf(Append(s, e)) = TraceAfter(TraceOf(s), e)
           /\ RepairOf(Append(s, e)) = ScanAfter(RepairOf(s), e)
<1>1. InboxOf(Append(s, e)) = InboxAfter(InboxOf(s), e)
  BY ScansAreFolds, InboxScan!FoldAppend DEF Logs
<1>2. TraceOf(Append(s, e)) = TraceAfter(TraceOf(s), e)
  BY ScansAreFolds, TraceScan!FoldAppend DEF Logs
<1>3. RepairOf(Append(s, e)) = ScanAfter(RepairOf(s), e)
  BY ScansAreFolds, RepairScan!FoldAppend DEF Logs
<1>. QED
  BY <1>1, <1>2, <1>3

\* A log grows by one event at a time, and stays good with each.
LEMMA GoodGrows ==
    ASSUME NEW s, GoodLog(s), NEW e \in LogEvents, GoodAt(Append(s, e))
    PROVE  GoodLog(Append(s, e))
<1>. DEFINE z == Append(s, e)
<1>1. s \in Seq(LogEvents) /\ Len(s) \in Nat
  BY DEF GoodLog, Logs
<1>2. z \in Seq(LogEvents) /\ Len(z) = Len(s) + 1
  BY <1>1
<1>3. ASSUME NEW n \in 0..Len(z)
      PROVE  GoodAt(SubSeq(z, 1, n))
  <2>1. CASE n = Len(s) + 1
    <3>1. SubSeq(z, 1, n) = z
      BY <1>1, <1>2, <2>1
    <3>. QED
      BY <3>1
  <2>2. CASE n # Len(s) + 1
    <3>1. n \in 0..Len(s)
      BY <1>1, <1>2, <2>2
    <3>2. SubSeq(z, 1, n) = SubSeq(s, 1, n)
      BY <1>1, <1>2, <3>1
    <3>. QED
      BY <3>1, <3>2 DEF GoodLog
  <2>. QED
    BY <2>1, <2>2
<1>. QED
  BY <1>2, <1>3 DEF GoodLog, Logs

LEMMA GoodLast ==
    ASSUME NEW s, GoodLog(s)
    PROVE  s \in Logs /\ Len(s) \in Nat /\ GoodAt(s)
<1>1. s \in Seq(LogEvents) /\ Len(s) \in Nat
  BY DEF GoodLog, Logs
<1>2. SubSeq(s, 1, Len(s)) = s /\ Len(s) \in 0..Len(s)
  BY <1>1
<1>. QED
  BY <1>1, <1>2 DEF GoodLog, Logs

LEMMA GoodPrefix ==
    ASSUME NEW s, GoodLog(s), NEW n \in 0..Len(s)
    PROVE  GoodLog(SubSeq(s, 1, n))
<1>. DEFINE p == SubSeq(s, 1, n)
<1>1. s \in Seq(LogEvents) /\ Len(s) \in Nat
  BY DEF GoodLog, Logs
<1>2. p \in Seq(LogEvents) /\ Len(p) = n
  BY <1>1
<1>3. ASSUME NEW m \in 0..n
      PROVE  GoodAt(SubSeq(p, 1, m))
  <2>1. SubSeq(p, 1, m) = SubSeq(s, 1, m) /\ m \in 0..Len(s)
    BY <1>1
  <2>. QED
    BY <2>1 DEF GoodLog
<1>. QED
  BY <1>2, <1>3 DEF GoodLog, Logs

LEMMA GoodEmpty == GoodLog(<<>>) /\ Closed(<<>>, 0)
<1>1. EmptyInbox \in Inboxes
  BY DEF EmptyInbox, Inboxes, Targets
<1>2. Fits(FreshTrace, FreshScan)
  BY DEF Fits, FreshTrace, FreshScan, Traces, Scans
<1>3. StartedTurns(<<>>) = 1..0
  BY DEF StartedTurns
<1>4. Remembers(<<>>, FreshTrace, FreshScan)
  BY <1>3 DEF Remembers, FreshTrace, FreshScan
<1>5. GoodAt(<<>>)
  BY <1>1, <1>2, <1>4, ScansStart DEF GoodAt
<1>6. \A n \in 0..Len(<<>>) : SubSeq(<<>>, 1, n) = <<>>
  OBVIOUS
<1>7. GoodLog(<<>>)
  <2>1. <<>> \in Logs
    BY DEF Logs
  <2>2. \A n \in 0..Len(<<>>) : GoodAt(SubSeq(<<>>, 1, n))
    BY <1>5, <1>6, Zenon
  <2>. QED
    BY <2>1, <2>2, Zenon DEF GoodLog
<1>8. Closed(<<>>, 0)
  BY ScansStart DEF Closed, FreshTrace
<1>. QED
  BY <1>7, <1>8
-----------------------------------------------------------------------------
(* What each event does to the companion and to the repair. *)

Fields(trace, openTurn, openStep, nextTurn, nextStep, pending) ==
    /\ trace.openTurn = openTurn /\ trace.openStep = openStep
    /\ trace.nextTurn = nextTurn /\ trace.nextStep = nextStep
    /\ trace.pending = pending

\* Splices and messages of the user concern neither.
LEMMA NeutralFits ==
    ASSUME NEW tr, NEW sc, Fits(tr, sc), NEW e \in Splices \cup Texts
    PROVE  TraceAfter(tr, e) = tr /\ ScanAfter(sc, e) = sc
<1>1. e.type \in {"agent/inbox/spliced", "user/message"}
  BY DEF Splices, Texts
<1>2. EventAllowed(tr, e) = TRUE
  BY <1>1 DEF EventAllowed
<1>3. [tr EXCEPT !.ok = @ /\ EventAllowed(tr, e)] = tr
  BY <1>2 DEF Fits, Traces
<1>. QED
  BY <1>1, <1>3 DEF TraceAfter, ScanAfter

LEMMA TurnStartFits ==
    ASSUME NEW tr, NEW sc, Fits(tr, sc), tr.openTurn = 0
    PROVE  LET e == TurnStart(tr.nextTurn)
               t == TraceAfter(tr, e)
           IN  /\ Fits(t, ScanAfter(sc, e))
               /\ Fields(t, tr.nextTurn, 0, tr.nextTurn, 1, {})
               /\ Sees(ScanAfter(sc, e), <<>>, {})
<1>. DEFINE e == TurnStart(tr.nextTurn)
<1>1. e.type = "turn/start" /\ e.turn = tr.nextTurn
  BY DEF TurnStart
<1>2. EventAllowed(tr, e) = TRUE
  BY <1>1 DEF EventAllowed
<1>3. [tr EXCEPT !.ok = @ /\ EventAllowed(tr, e)] = tr
  BY <1>2 DEF Fits, Traces
<1>. DEFINE t == [tr EXCEPT !.openTurn = tr.nextTurn, !.nextStep = 1]
            c == [FreshScan EXCEPT !.turn = tr.nextTurn]
<1>. HIDE DEF e
<1>4. TraceAfter(tr, e) = t
  BY <1>1, <1>3 DEF TraceAfter
<1>5. ScanAfter(sc, e) = c
  BY <1>1 DEF ScanAfter
<1>6. t \in Traces /\ c \in Scans
  BY DEF Fits, Traces, Scans, FreshScan
<1>7. Fields(t, tr.nextTurn, 0, tr.nextTurn, 1, {})
  BY DEF Fits, Traces, Fields
<1>8. Sees(c, <<>>, {}) /\ c.turn = tr.nextTurn /\ c.step = 0
  BY DEF Sees, FreshScan
<1>. HIDE DEF t, c
<1>9. Fits(t, c)
  <2>1. tr.nextTurn >= 1 /\ <<>> # << 1 >>
    BY DEF Fits
  <2>. QED
    BY <1>6, <1>7, <1>8, <2>1 DEF Fits, Fields, Sees
<1>. QED
  BY <1>4, <1>5, <1>7, <1>8, <1>9, Zenon DEF e
LEMMA TurnEndFits ==
    ASSUME NEW tr, NEW sc, Fits(tr, sc), NEW reason,
           tr.openTurn # 0, tr.openStep = 0
    PROVE  LET e == TurnEnd(tr.openTurn, reason)
               t == TraceAfter(tr, e)
               c == ScanAfter(sc, e)
           IN  /\ Fits(t, c)
               /\ Fields(t, 0, 0, tr.openTurn + 1, tr.nextStep, {})
               /\ Sees(c, <<>>, {})
<1>. DEFINE e == TurnEnd(tr.openTurn, reason)
<1>1. e.type = "turn/end" /\ e.turn = tr.openTurn
  BY DEF TurnEnd
<1>2. EventAllowed(tr, e) = TRUE
  <2>1. tr.openStep = 0
    BY DEF Fits
  <2>. HIDE DEF e
  <2>. QED
    BY <1>1, <2>1 DEF EventAllowed
<1>3. [tr EXCEPT !.ok = @ /\ EventAllowed(tr, e)] = tr
  BY <1>2 DEF Fits, Traces
<1>. DEFINE t == [tr EXCEPT !.openTurn = 0, !.nextTurn = @ + 1]
            c == FreshScan
<1>. HIDE DEF e
<1>4. TraceAfter(tr, e) = t
  BY <1>1, <1>3 DEF TraceAfter
<1>5. ScanAfter(sc, e) = c
  BY <1>1 DEF ScanAfter
<1>6. t \in Traces /\ c \in Scans
  <2>1. t \in Traces
    <3>1. tr.nextTurn + 1 \in Nat
      BY DEF Fits, Traces
    <3>. QED
      BY <3>1 DEF Fits, Traces
  <2>2. c \in Scans
    BY DEF Fits, Scans, FreshScan
  <2>. QED
    BY <2>1, <2>2
<1>7. Fields(t, 0, 0, tr.openTurn + 1, tr.nextStep, {})
  BY DEF Fits, Traces, Fields
<1>8. Sees(c, <<>>, {}) /\ c.turn = 0 /\ c.step = 0
  BY DEF Fits, Scans, Sees, FreshScan
<1>. HIDE DEF t, c
<1>9. Fits(t, c)
  <2>1. tr.openTurn \in Nat /\ tr.nextStep >= 1 /\ <<>> # << 1 >>
    BY DEF Fits, Traces
  <2>. QED
    BY <1>6, <1>7, <1>8, <2>1 DEF Fits, Fields, Sees
<1>. QED
  BY <1>4, <1>5, <1>7, <1>8, <1>9, Zenon DEF e

LEMMA StepStartFits ==
    ASSUME NEW tr, NEW sc, Fits(tr, sc),
           tr.openTurn # 0, tr.openStep = 0
    PROVE  LET e == StepStart(tr.openTurn, tr.nextStep)
               t == TraceAfter(tr, e)
               c == ScanAfter(sc, e)
           IN  /\ Fits(t, c)
               /\ Fields(t, tr.openTurn, tr.nextStep,
                         tr.openTurn, tr.nextStep, {})
               /\ Sees(c, <<>>, {})
<1>. DEFINE e == StepStart(tr.openTurn, tr.nextStep)
<1>1. e.type = "step/start" /\ e.turn = tr.openTurn /\ e.step = tr.nextStep
  BY DEF StepStart
<1>2. EventAllowed(tr, e) = TRUE
  <2>1. tr.openStep = 0
    BY DEF Fits
  <2>. HIDE DEF e
  <2>. QED
    BY <1>1, <2>1 DEF EventAllowed
<1>3. [tr EXCEPT !.ok = @ /\ EventAllowed(tr, e)] = tr
  BY <1>2 DEF Fits, Traces
<1>. DEFINE t == [tr EXCEPT !.openStep = tr.nextStep]
            c == [sc EXCEPT !.step = tr.nextStep]
<1>. HIDE DEF e
<1>4. TraceAfter(tr, e) = t
  BY <1>1, <1>3 DEF TraceAfter
<1>5. ScanAfter(sc, e) = c
  BY <1>1 DEF ScanAfter
<1>6. t \in Traces /\ c \in Scans
  <2>1. t \in Traces
    BY DEF Fits, Traces
  <2>2. c \in Scans
    BY DEF Fits, Traces, Scans
  <2>. QED
    BY <2>1, <2>2
<1>7. Fields(t, tr.openTurn, tr.nextStep, tr.openTurn, tr.nextStep, {})
  BY DEF Fits, Traces, Fields
<1>8. Sees(c, <<>>, {}) /\ c.turn = tr.openTurn /\ c.step = tr.nextStep
  BY DEF Fits, Scans, Sees, FreshScan
<1>. HIDE DEF t, c
<1>9. Fits(t, c)
  <2>1. tr.openTurn \in Nat \ {0} /\ tr.nextStep >= 1 /\ <<>> # << 1 >>
    BY DEF Fits, Traces
  <2>. QED
    BY <1>6, <1>7, <1>8, <2>1 DEF Fits, Fields, Sees
<1>. QED
  BY <1>4, <1>5, <1>7, <1>8, <1>9, Zenon DEF e

LEMMA StepEndFits ==
    ASSUME NEW tr, NEW sc, Fits(tr, sc),
           tr.openStep # 0
    PROVE  LET e == StepEnd(tr.openTurn, tr.openStep)
               t == TraceAfter(tr, e)
               c == ScanAfter(sc, e)
           IN  /\ Fits(t, c)
               /\ Fields(t, tr.openTurn, 0, tr.openTurn, tr.openStep + 1, {})
               /\ Sees(c, <<>>, {})
<1>. DEFINE e == StepEnd(tr.openTurn, tr.openStep)
<1>1. e.type = "step/end" /\ e.turn = tr.openTurn /\ e.step = tr.openStep
  BY DEF StepEnd
<1>2. EventAllowed(tr, e) = TRUE
  <2>1. tr.openStep # 0
    BY DEF Fits
  <2>. HIDE DEF e
  <2>. QED
    BY <1>1, <2>1 DEF EventAllowed, InOpenStep
<1>3. [tr EXCEPT !.ok = @ /\ EventAllowed(tr, e)] = tr
  BY <1>2 DEF Fits, Traces
<1>. DEFINE t == [tr EXCEPT !.openStep = 0, !.nextStep = @ + 1, !.pending = {}]
            c == [sc EXCEPT !.step = 0, !.calls = <<>>, !.started = {}]
<1>. HIDE DEF e
<1>4. TraceAfter(tr, e) = t
  BY <1>1, <1>3 DEF TraceAfter
<1>5. ScanAfter(sc, e) = c
  BY <1>1 DEF ScanAfter
<1>6. t \in Traces /\ c \in Scans
  <2>1. t \in Traces
    <3>1. tr.nextStep + 1 \in Nat
      BY DEF Fits, Traces
    <3>. QED
      BY <3>1 DEF Fits, Traces
  <2>2. c \in Scans
    BY DEF Fits, Scans, FreshScan
  <2>. QED
    BY <2>1, <2>2
<1>7. Fields(t, tr.openTurn, 0, tr.openTurn, tr.openStep + 1, {})
  BY DEF Fits, Traces, Fields
<1>8. Sees(c, <<>>, {}) /\ c.turn = tr.openTurn /\ c.step = 0
  BY DEF Fits, Scans, Sees, FreshScan
<1>. HIDE DEF t, c
<1>9. Fits(t, c)
  <2>1. tr.openTurn \in Nat \ {0} /\ tr.openStep \in Nat \ {0} /\ <<>> # << 1 >>
    BY DEF Fits, Traces
  <2>. QED
    BY <1>6, <1>7, <1>8, <2>1 DEF Fits, Fields, Sees
<1>. QED
  BY <1>4, <1>5, <1>7, <1>8, <1>9, Zenon DEF e

LEMMA AnswerFits ==
    ASSUME NEW tr, NEW sc, Fits(tr, sc), NEW calls \in {<<>>, << 1 >>},
           tr.openStep # 0, Sees(sc, <<>>, {}), tr.pending = {}
    PROVE  LET e == AssistantMessage(tr.openTurn, tr.openStep, calls)
               t == TraceAfter(tr, e)
               c == ScanAfter(sc, e)
           IN  /\ Fits(t, c)
               /\ Fields(t, tr.openTurn, tr.openStep,
                         tr.openTurn, tr.openStep, {})
               /\ Sees(c, calls, {})
<1>. DEFINE e == AssistantMessage(tr.openTurn, tr.openStep, calls)
<1>1. /\ e.type = "assistant/message"
      /\ e.turn = tr.openTurn /\ e.step = tr.openStep /\ e.calls = calls
  BY DEF AssistantMessage
<1>2. EventAllowed(tr, e) = TRUE
  <2>1. tr.openStep # 0
    BY DEF Fits
  <2>. HIDE DEF e
  <2>. QED
    BY <1>1, <2>1 DEF EventAllowed, InOpenStep
<1>3. [tr EXCEPT !.ok = @ /\ EventAllowed(tr, e)] = tr
  BY <1>2 DEF Fits, Traces
<1>. DEFINE t == tr
            c == [sc EXCEPT !.calls = calls]
<1>. HIDE DEF e
<1>4. TraceAfter(tr, e) = t
  BY <1>1, <1>3 DEF TraceAfter
<1>5. ScanAfter(sc, e) = c
  BY <1>1 DEF ScanAfter, Sees, Fits, Scans
<1>6. t \in Traces /\ c \in Scans
  <2>1. t \in Traces
    BY DEF Fits, Traces
  <2>2. c \in Scans
    BY DEF Fits, Scans, FreshScan
  <2>. QED
    BY <2>1, <2>2
<1>7. Fields(t, tr.openTurn, tr.openStep, tr.openTurn, tr.openStep, {})
  BY DEF Fits, Traces, Fields
<1>8. Sees(c, calls, {}) /\ c.turn = tr.openTurn /\ c.step = tr.openStep
  BY DEF Fits, Scans, Sees, FreshScan
<1>. HIDE DEF t, c
<1>9. Fits(t, c)
  <2>1. tr.openTurn \in Nat \ {0} /\ tr.openStep \in Nat \ {0} /\ <<>> # << 1 >>
    BY DEF Fits, Traces
  <2>. QED
    BY <1>6, <1>7, <1>8, <2>1 DEF Fits, Fields, Sees
<1>. QED
  BY <1>4, <1>5, <1>7, <1>8, <1>9, Zenon DEF e

LEMMA CallFits ==
    ASSUME NEW tr, NEW sc, Fits(tr, sc),
           tr.openStep # 0, Sees(sc, << 1 >>, {})
    PROVE  LET e == ToolCall(tr.openTurn, tr.openStep, 1)
               t == TraceAfter(tr, e)
               c == ScanAfter(sc, e)
           IN  /\ Fits(t, c)
               /\ Fields(t, tr.openTurn, tr.openStep,
                         tr.openTurn, tr.openStep, {1})
               /\ Sees(c, << 1 >>, {1})
<1>. DEFINE e == ToolCall(tr.openTurn, tr.openStep, 1)
<1>1. /\ e.type = "tool/call"
      /\ e.turn = tr.openTurn /\ e.step = tr.openStep /\ e.call = 1
  BY DEF ToolCall
<1>2. EventAllowed(tr, e) = TRUE
  <2>1. tr.openStep # 0
    BY DEF Fits
  <2>. HIDE DEF e
  <2>. QED
    BY <1>1, <2>1 DEF EventAllowed, InOpenStep
<1>3. [tr EXCEPT !.ok = @ /\ EventAllowed(tr, e)] = tr
  BY <1>2 DEF Fits, Traces
<1>. DEFINE t == [tr EXCEPT !.pending = {1}]
            c == [sc EXCEPT !.started = {1}]
<1>. HIDE DEF e
<1>4. TraceAfter(tr, e) = t
  <2>1. tr.pending \cup {1} = {1}
    BY DEF Fits, Traces
  <2>. QED
    BY <1>1, <1>3, <2>1 DEF TraceAfter
<1>5. ScanAfter(sc, e) = c
  <2>1. sc.started \cup ({1} \cap ToSet(sc.calls)) = {1}
    BY DEF Sees, ToSet
  <2>. QED
    BY <1>1, <2>1 DEF ScanAfter
<1>6. t \in Traces /\ c \in Scans
  <2>1. t \in Traces
    BY DEF Fits, Traces
  <2>2. c \in Scans
    BY DEF Fits, Scans, FreshScan
  <2>. QED
    BY <2>1, <2>2
<1>7. Fields(t, tr.openTurn, tr.openStep, tr.openTurn, tr.openStep, {1})
  BY DEF Fits, Traces, Fields
<1>8. Sees(c, << 1 >>, {1}) /\ c.turn = tr.openTurn /\ c.step = tr.openStep
  BY DEF Fits, Scans, Sees, FreshScan
<1>. HIDE DEF t, c
<1>9. Fits(t, c)
  <2>1. tr.openTurn \in Nat \ {0} /\ tr.openStep \in Nat \ {0} /\ <<>> # << 1 >>
    BY DEF Fits, Traces
  <2>. QED
    BY <1>6, <1>7, <1>8, <2>1 DEF Fits, Fields, Sees
<1>. QED
  BY <1>4, <1>5, <1>7, <1>8, <1>9, Zenon DEF e

LEMMA OneCallLeaves == CallsWithout(<< 1 >>, 1) = <<>>
<1>1. {i \in 1..Len(<< 1 >>) : << 1 >>[i] = 1} = {1}
  OBVIOUS
<1>2. (CHOOSE i \in {1} : TRUE) = 1
  OBVIOUS
<1>3. RemoveAt(<< 1 >>, 1) = <<>>
  BY DEF RemoveAt
<1>. QED
  BY <1>1, <1>2, <1>3 DEF CallsWithout

LEMMA ResultFits ==
    ASSUME NEW tr, NEW sc, Fits(tr, sc), NEW code,
           tr.openStep # 0, sc.calls = << 1 >>,
           1 \in sc.started \/ code = "TOOL_NOT_STARTED"
    PROVE  LET e == ToolResult(tr.openTurn, tr.openStep, 1, code)
               t == TraceAfter(tr, e)
               c == ScanAfter(sc, e)
           IN  /\ Fits(t, c)
               /\ Fields(t, tr.openTurn, tr.openStep,
                         tr.openTurn, tr.openStep, {})
               /\ Sees(c, <<>>, sc.started)
<1>. DEFINE e == ToolResult(tr.openTurn, tr.openStep, 1, code)
<1>1. /\ e.type = "tool/result" /\ e.code = code
      /\ e.turn = tr.openTurn /\ e.step = tr.openStep /\ e.call = 1
  BY DEF ToolResult
<1>2. EventAllowed(tr, e) = TRUE
  <2>1. tr.openStep # 0 /\ (1 \in tr.pending \/ code = "TOOL_NOT_STARTED")
    BY DEF Fits
  <2>. HIDE DEF e
  <2>. QED
    BY <1>1, <2>1 DEF EventAllowed, InOpenStep
<1>3. [tr EXCEPT !.ok = @ /\ EventAllowed(tr, e)] = tr
  BY <1>2 DEF Fits, Traces
<1>. DEFINE t == [tr EXCEPT !.pending = {}]
            c == [sc EXCEPT !.calls = <<>>]
<1>. HIDE DEF e
<1>4. TraceAfter(tr, e) = t
  <2>1. tr.pending \ {1} = {}
    BY DEF Fits, Traces
  <2>. QED
    BY <1>1, <1>3, <2>1 DEF TraceAfter
<1>5. ScanAfter(sc, e) = c
  BY <1>1, OneCallLeaves DEF ScanAfter
<1>6. t \in Traces /\ c \in Scans
  <2>1. t \in Traces
    BY DEF Fits, Traces
  <2>2. c \in Scans
    BY DEF Fits, Scans, FreshScan
  <2>. QED
    BY <2>1, <2>2
<1>7. Fields(t, tr.openTurn, tr.openStep, tr.openTurn, tr.openStep, {})
  BY DEF Fits, Traces, Fields
<1>8. Sees(c, <<>>, sc.started) /\ c.turn = tr.openTurn /\ c.step = tr.openStep
  BY DEF Fits, Scans, Sees, FreshScan
<1>. HIDE DEF t, c
<1>9. Fits(t, c)
  <2>1. tr.openTurn \in Nat \ {0} /\ tr.openStep \in Nat \ {0} /\ <<>> # << 1 >>
    BY DEF Fits, Traces
  <2>. QED
    BY <1>6, <1>7, <1>8, <2>1 DEF Fits, Fields, Sees
<1>. QED
  BY <1>4, <1>5, <1>7, <1>8, <1>9, Zenon DEF e

-----------------------------------------------------------------------------
(* What an event adds to the memory of the log. *)

LEMMA AppendedEvent ==
    ASSUME NEW s \in Logs, NEW e \in LogEvents
    PROVE  /\ Append(s, e) \in Logs /\ Len(s) \in Nat
           /\ Append(s, e) = s \o <<e>>
           /\ Len(Append(s, e)) = Len(s) + 1
           /\ Append(s, e)[Len(s) + 1] = e
           /\ \A j \in 1..Len(s) : Append(s, e)[j] = s[j]
           /\ \A j \in 1..Len(s) + 1 : j \in 1..Len(s) \/ j = Len(s) + 1
BY DEF Logs

LEMMA RecordedAfter ==
    ASSUME NEW s \in Logs, NEW e \in LogEvents, NEW turn, NEW step
    PROVE  Recorded(Append(s, e), turn, step) <=>
              \/ Recorded(s, turn, step)
              \/ e.type = "tool/call" /\ e.turn = turn /\ e.step = step
<1>. DEFINE z == Append(s, e)
            N == Len(s)
<1>1. /\ N \in Nat /\ Len(z) = N + 1 /\ z[N + 1] = e
      /\ \A j \in 1..N : z[j] = s[j]
      /\ \A j \in 1..N + 1 : j \in 1..N \/ j = N + 1
  BY AppendedEvent
<1>. HIDE DEF z, N
<1>2. ASSUME Recorded(z, turn, step)
      PROVE  \/ Recorded(s, turn, step)
             \/ e.type = "tool/call" /\ e.turn = turn /\ e.step = step
  <2>1. PICK j \in 1..N + 1 : /\ z[j].type = "tool/call"
                              /\ z[j].turn = turn /\ z[j].step = step
    BY <1>1, <1>2 DEF Recorded
  <2>. QED
    BY <1>1, <2>1 DEF Recorded, N
<1>3. ASSUME Recorded(s, turn, step)
      PROVE  Recorded(z, turn, step)
  <2>1. PICK j \in 1..N : /\ s[j].type = "tool/call"
                          /\ s[j].turn = turn /\ s[j].step = step
    BY <1>3 DEF Recorded, N
  <2>2. j \in 1..Len(z) /\ z[j] = s[j]
    BY <1>1
  <2>. QED
    BY <2>1, <2>2 DEF Recorded
<1>4. ASSUME e.type = "tool/call" /\ e.turn = turn /\ e.step = step
      PROVE  Recorded(z, turn, step)
  <2>1. N + 1 \in 1..Len(z)
    BY <1>1
  <2>. QED
    BY <1>1, <1>4, <2>1 DEF Recorded
<1>. QED
  BY <1>2, <1>3, <1>4 DEF z

LEMMA StartedTurnsAfter ==
    ASSUME NEW s \in Logs, NEW e \in LogEvents
    PROVE  StartedTurns(Append(s, e)) =
              StartedTurns(s) \cup (IF e.type = "turn/start" THEN {e.turn}
                                                             ELSE {})
<1>. DEFINE z == Append(s, e)
            N == Len(s)
<1>1. /\ N \in Nat /\ Len(z) = N + 1 /\ z[N + 1] = e
      /\ \A j \in 1..N : z[j] = s[j]
      /\ \A j \in 1..N + 1 : j \in 1..N \/ j = N + 1
  BY AppendedEvent
<1>. HIDE DEF z, N
<1>2. ASSUME NEW n
      PROVE  n \in StartedTurns(z) <=>
                \E j \in 1..N + 1 : z[j].type = "turn/start" /\ z[j].turn = n
  BY <1>1 DEF StartedTurns
<1>3. ASSUME NEW n
      PROVE  n \in StartedTurns(s) <=>
                \E j \in 1..N : s[j].type = "turn/start" /\ s[j].turn = n
  BY DEF StartedTurns, N
<1>4. ASSUME NEW n
      PROVE  n \in StartedTurns(z) <=>
                n \in StartedTurns(s) \/ (e.type = "turn/start" /\ n = e.turn)
  <2>1. N + 1 \in 1..N + 1 /\ \A j \in 1..N : j \in 1..N + 1
    BY <1>1
  <2>. QED
    BY <1>1, <1>2, <1>3, <2>1
<1>. QED
  BY <1>4 DEF z

\* What makes an event a good next one.
Continues(s, e) ==
    LET trace == TraceOf(s)
        next == TraceAfter(trace, e)
        scan == ScanAfter(RepairOf(s), e)
        IsCall == e.type = "tool/call"
    IN  /\ InboxAfter(InboxOf(s), e) \in Inboxes
        /\ Fits(next, scan)
        /\ 1..(IF trace.openTurn = 0 THEN trace.nextTurn - 1
                                     ELSE trace.nextTurn)
              \cup (IF e.type = "turn/start" THEN {e.turn} ELSE {})
             = 1..(IF next.openTurn = 0 THEN next.nextTurn - 1
                                        ELSE next.nextTurn)
        /\ \A t, p \in Nat : Reached(trace, t, p) => Reached(next, t, p)
        /\ IsCall => Reached(next, e.turn, e.step)
        /\ scan.calls = << 1 >> =>
              (1 \in scan.started <=>
                 \/ Recorded(s, scan.turn, scan.step)
                 \/ IsCall /\ e.turn = scan.turn /\ e.step = scan.step)
        /\ e.type = "tool/result" /\ e.code # "none" =>
              (e.code = "TOOL_OUTCOME_UNKNOWN" <=> Recorded(s, e.turn, e.step))

LEMMA GoodContinues ==
    ASSUME NEW s, GoodLog(s), NEW e \in LogEvents, Continues(s, e)
    PROVE  /\ GoodLog(Append(s, e))
           /\ InboxOf(Append(s, e)) = InboxAfter(InboxOf(s), e)
           /\ TraceOf(Append(s, e)) = TraceAfter(TraceOf(s), e)
           /\ RepairOf(Append(s, e)) = ScanAfter(RepairOf(s), e)
<1>. DEFINE z == Append(s, e)
            N == Len(s)
            trace == TraceOf(s)
            next == TraceAfter(TraceOf(s), e)
            scan == ScanAfter(RepairOf(s), e)
<1>1. s \in Logs /\ N \in Nat /\ GoodAt(s)
  BY GoodLast
<1>2. /\ InboxOf(z) = InboxAfter(InboxOf(s), e)
      /\ TraceOf(z) = next /\ RepairOf(z) = scan
  BY <1>1, ScansFollow
<1>3. /\ z \in Logs /\ Len(z) = N + 1 /\ z[N + 1] = e
      /\ \A j \in 1..N : z[j] = s[j]
      /\ \A j \in 1..N + 1 : j \in 1..N \/ j = N + 1
  BY <1>1, AppendedEvent
<1>4. StartedTurns(z) = 1..(IF next.openTurn = 0 THEN next.nextTurn - 1
                                                 ELSE next.nextTurn)
  BY <1>1, StartedTurnsAfter DEF Continues, GoodAt, Remembers
<1>5. ASSUME NEW j \in 1..Len(z), z[j].type = "tool/call"
      PROVE  Reached(next, z[j].turn, z[j].step)
  <2>1. CASE j = N + 1
    BY <1>3, <1>5, <2>1 DEF Continues
  <2>2. CASE j \in 1..N
    <3>1. z[j] = s[j] /\ s[j] \in LogEvents
      BY <1>1, <1>3, <2>2 DEF Logs
    <3>2. Reached(trace, s[j].turn, s[j].step)
      BY <1>1, <1>5, <2>2, <3>1 DEF GoodAt, Remembers
    <3>3. s[j].turn \in Nat /\ s[j].step \in Nat
      BY <1>5, <3>1 DEF LogEvents, Splices, Texts
    <3>. HIDE DEF next, trace
    <3>. QED
      BY <3>1, <3>2, <3>3 DEF Continues, next, trace
  <2>. QED
    BY <1>3, <2>1, <2>2
<1>6. \A t, p : Recorded(z, t, p) <=>
                   \/ Recorded(s, t, p)
                   \/ e.type = "tool/call" /\ e.turn = t /\ e.step = p
  BY <1>1, RecordedAfter
<1>7. scan.calls = << 1 >> =>
          (1 \in scan.started <=> Recorded(z, scan.turn, scan.step))
  BY <1>6, Zenon DEF Continues
<1>8. e.type = "tool/result" /\ e.code # "none" =>
          (e.code = "TOOL_OUTCOME_UNKNOWN" <=> Recorded(z, e.turn, e.step))
  <2>1. e.type = "tool/result" => e.type # "tool/call"
    OBVIOUS
  <2>. QED
    BY <1>6, <2>1, Zenon DEF Continues
<1>9. InboxAfter(InboxOf(s), e) \in Inboxes /\ Fits(next, scan)
  BY DEF Continues
<1>. HIDE DEF z, N, next, scan, trace
<1>10. Remembers(z, next, scan)
  <2>1. z[Len(z)] = e
    BY <1>3
  <2>. QED
    BY <1>4, <1>5, <1>7, <1>8, <2>1, Zenon DEF Remembers
<1>11. GoodAt(z)
  BY <1>2, <1>9, <1>10 DEF GoodAt
<1>. QED
  BY <1>2, <1>11, GoodGrows DEF z, next, scan
-----------------------------------------------------------------------------
(* The events of the driver, one by one. *)

\* The scans of a good log fit, and nothing is recorded of a step to come.
LEMMA GoodFits ==
    ASSUME NEW s, GoodLog(s)
    PROVE  /\ s \in Logs /\ InboxOf(s) \in Inboxes
           /\ Fits(TraceOf(s), RepairOf(s))
           /\ Remembers(s, TraceOf(s), RepairOf(s))
BY GoodLast DEF GoodAt

LEMMA NeutralKeeps ==
    ASSUME NEW s, GoodLog(s), NEW e \in Splices \cup Texts,
           InboxAfter(InboxOf(s), e) \in Inboxes
    PROVE  /\ GoodLog(Append(s, e))
           /\ InboxOf(Append(s, e)) = InboxAfter(InboxOf(s), e)
           /\ Stays(s, Append(s, e))
<1>. DEFINE z == Append(s, e)
            tr == TraceOf(s)
            sc == RepairOf(s)
<1>1. /\ s \in Logs /\ Fits(tr, sc) /\ Remembers(s, tr, sc)
  BY GoodFits
<1>2. TraceAfter(tr, e) = tr /\ ScanAfter(sc, e) = sc
  BY <1>1, NeutralFits
<1>3. e \in LogEvents /\ e.type \in {"agent/inbox/spliced", "user/message"}
  BY DEF LogEvents, Splices, Texts
<1>4. Continues(s, e)
  <2>. HIDE DEF tr, sc
  <2>1. StartedTurns(s) = 1..(IF tr.openTurn = 0 THEN tr.nextTurn - 1
                                                 ELSE tr.nextTurn)
    BY <1>1 DEF Remembers
  <2>2. e.type # "turn/start" /\ e.type # "tool/call" /\ e.type # "tool/result"
    BY <1>3
  <2>3. sc.calls = << 1 >> => (1 \in sc.started <=>
                                Recorded(s, sc.turn, sc.step))
    BY <1>1 DEF Remembers
  <2>. QED
    BY <1>1, <1>2, <2>1, <2>2, <2>3, Zenon DEF Continues, tr, sc
<1>5. /\ GoodLog(z) /\ InboxOf(z) = InboxAfter(InboxOf(s), e)
      /\ TraceOf(z) = tr /\ RepairOf(z) = sc
  BY <1>2, <1>3, <1>4, GoodContinues
<1>6. \A t, p : Recorded(z, t, p) <=> Recorded(s, t, p)
  BY <1>1, <1>3, RecordedAfter
<1>. HIDE DEF z
<1>7. /\ \A t : Closed(s, t) => Closed(z, t)
      /\ \A t : Unclosed(s, t) => Unclosed(z, t)
  BY <1>5 DEF Closed, Unclosed
<1>8. \A t, p : InTurn(s, t, p) => InTurn(z, t, p)
  BY <1>5 DEF InTurn
<1>9. \A t, p : InStep(s, t, p) => InStep(z, t, p)
  BY <1>5, <1>6, Zenon DEF InStep, Open
<1>. QED
  BY <1>5, <1>7, <1>8, <1>9 DEF z, Stays

\* Events other than splices leave the inbox alone.
LEMMA OthersKeepInbox ==
    ASSUME NEW box, NEW e, e.type # "agent/inbox/spliced"
    PROVE  InboxAfter(box, e) = box
BY DEF InboxAfter

LEMMA TurnStartKeeps ==
    ASSUME NEW s, GoodLog(s), NEW t \in Nat, Closed(s, t)
    PROVE  LET z == Append(s, TurnStart(t + 1))
           IN  GoodLog(z) /\ InboxOf(z) = InboxOf(s) /\ InTurn(z, t + 1, 0)
<1>. DEFINE e == TurnStart(t + 1)
            tr == TraceOf(s)
            sc == RepairOf(s)
            n == TraceAfter(tr, e)
            c == ScanAfter(sc, e)
<1>1. /\ s \in Logs /\ InboxOf(s) \in Inboxes
      /\ Fits(tr, sc) /\ Remembers(s, tr, sc)
  BY GoodFits
<1>2. tr.openTurn = 0 /\ tr.nextTurn = t + 1
  BY DEF Closed
<1>3. e \in LogEvents /\ e.type = "turn/start" /\ e.turn = t + 1
  BY DEF TurnStart, LogEvents
<1>4. Fits(n, c) /\ Fields(n, t + 1, 0, t + 1, 1, {}) /\ Sees(c, <<>>, {})
  BY <1>1, <1>2, TurnStartFits
<1>5. InboxAfter(InboxOf(s), e) = InboxOf(s)
  BY <1>3, OthersKeepInbox
<1>. HIDE DEF e, n, c, sc, tr
<1>6. Continues(s, e)
  <2>1. 1..(IF tr.openTurn = 0 THEN tr.nextTurn - 1 ELSE tr.nextTurn)
              \cup (IF e.type = "turn/start" THEN {e.turn} ELSE {})
             = 1..(IF n.openTurn = 0 THEN n.nextTurn - 1 ELSE n.nextTurn)
    <3>1. n.openTurn # 0 /\ n.nextTurn = t + 1 /\ tr.nextTurn - 1 = t
      BY <1>2, <1>4 DEF Fields
    <3>2. 1..t \cup {t + 1} = 1..t + 1
      OBVIOUS
    <3>. QED
      BY <1>2, <1>3, <3>1, <3>2
  <2>2. \A m, p \in Nat : Reached(tr, m, p) => Reached(n, m, p)
    BY <1>2, <1>4 DEF Reached, Fields
  <2>3. c.calls # << 1 >>
    BY <1>4 DEF Sees
  <2>. QED
    BY <1>1, <1>3, <1>4, <1>5, <2>1, <2>2, <2>3 DEF Continues, n, c, tr, sc
<1>7. /\ GoodLog(Append(s, e)) /\ InboxOf(Append(s, e)) = InboxOf(s)
      /\ TraceOf(Append(s, e)) = n
  BY <1>3, <1>5, <1>6, GoodContinues DEF n, tr
<1>8. InTurn(Append(s, e), t + 1, 0)
  BY <1>4, <1>7 DEF InTurn, Fields
<1>. QED
  BY <1>7, <1>8 DEF e

LEMMA TurnEndKeeps ==
    ASSUME NEW s, GoodLog(s), NEW t, NEW p, InTurn(s, t, p),
           NEW reason \in Reasons
    PROVE  LET z == Append(s, TurnEnd(t, reason))
           IN  GoodLog(z) /\ InboxOf(z) = InboxOf(s) /\ Closed(z, t)
<1>. DEFINE e == TurnEnd(t, reason)
            tr == TraceOf(s)
            sc == RepairOf(s)
            n == TraceAfter(tr, e)
            c == ScanAfter(sc, e)
<1>1. /\ s \in Logs /\ InboxOf(s) \in Inboxes
      /\ Fits(tr, sc) /\ Remembers(s, tr, sc)
  BY GoodFits
<1>2. /\ tr.openTurn = t /\ tr.nextTurn = t /\ tr.openStep = 0
      /\ tr.nextStep = p + 1 /\ t \in Nat \ {0} /\ p + 1 \in Nat \ {0}
  BY <1>1 DEF InTurn, Fits, Traces
<1>3. e \in LogEvents /\ e.type = "turn/end" /\ e.turn = t
  BY <1>2 DEF TurnEnd, LogEvents
<1>4. /\ Fits(n, c) /\ Fields(n, 0, 0, t + 1, tr.nextStep, {})
      /\ Sees(c, <<>>, {})
  BY <1>1, <1>2, TurnEndFits
<1>5. InboxAfter(InboxOf(s), e) = InboxOf(s)
  BY <1>3, OthersKeepInbox
<1>. HIDE DEF e, n, c, sc, tr
<1>6. Continues(s, e)
  <2>1. 1..(IF tr.openTurn = 0 THEN tr.nextTurn - 1 ELSE tr.nextTurn)
              \cup (IF e.type = "turn/start" THEN {e.turn} ELSE {})
             = 1..(IF n.openTurn = 0 THEN n.nextTurn - 1 ELSE n.nextTurn)
    BY <1>2, <1>3, <1>4 DEF Fields
  <2>2. \A m, q \in Nat : Reached(tr, m, q) => Reached(n, m, q)
    BY <1>2, <1>4 DEF Reached, Fields
  <2>3. e.type = "tool/call" => Reached(n, e.turn, e.step)
    BY <1>3
  <2>4. c.calls # << 1 >>
    BY <1>4 DEF Sees
  <2>5. e.type # "tool/result"
    BY <1>2, <1>3
  <2>. QED
    BY <1>1, <1>3, <1>4, <1>5, <2>1, <2>2, <2>3, <2>4, <2>5, Zenon
       DEF Continues, n, c, tr, sc
<1>7. /\ GoodLog(Append(s, e)) /\ InboxOf(Append(s, e)) = InboxOf(s)
      /\ TraceOf(Append(s, e)) = n /\ RepairOf(Append(s, e)) = c
  BY <1>3, <1>5, <1>6, GoodContinues DEF n, tr, c, sc
<1>8. Closed(Append(s, e), t)
  BY <1>4, <1>7 DEF Closed, Fields
<1>. QED
  BY <1>7, <1>8 DEF e

LEMMA StepStartKeeps ==
    ASSUME NEW s, GoodLog(s), NEW t, NEW p, InTurn(s, t, p)
    PROVE  LET z == Append(s, StepStart(t, p + 1))
           IN  GoodLog(z) /\ InboxOf(z) = InboxOf(s) /\ InStep(z, t, p + 1)
<1>. DEFINE e == StepStart(t, p + 1)
            tr == TraceOf(s)
            sc == RepairOf(s)
            n == TraceAfter(tr, e)
            c == ScanAfter(sc, e)
<1>1. /\ s \in Logs /\ InboxOf(s) \in Inboxes
      /\ Fits(tr, sc) /\ Remembers(s, tr, sc)
  BY GoodFits
<1>2. /\ tr.openTurn = t /\ tr.nextTurn = t /\ tr.openStep = 0
      /\ tr.nextStep = p + 1 /\ t \in Nat \ {0} /\ p + 1 \in Nat \ {0}
  BY <1>1 DEF InTurn, Fits, Traces
<1>3. e \in LogEvents /\ e.type = "step/start" /\ e.turn = t
  BY <1>2 DEF StepStart, LogEvents
<1>4. /\ Fits(n, c) /\ Fields(n, t, p + 1, t, p + 1, {})
      /\ Sees(c, <<>>, {})
  BY <1>1, <1>2, StepStartFits
<1>5. InboxAfter(InboxOf(s), e) = InboxOf(s)
  BY <1>3, OthersKeepInbox
<1>. HIDE DEF e, n, c, sc, tr
<1>6. Continues(s, e)
  <2>1. 1..(IF tr.openTurn = 0 THEN tr.nextTurn - 1 ELSE tr.nextTurn)
              \cup (IF e.type = "turn/start" THEN {e.turn} ELSE {})
             = 1..(IF n.openTurn = 0 THEN n.nextTurn - 1 ELSE n.nextTurn)
    BY <1>2, <1>3, <1>4 DEF Fields
  <2>2. \A m, q \in Nat : Reached(tr, m, q) => Reached(n, m, q)
    BY <1>2, <1>4 DEF Reached, Fields
  <2>3. e.type = "tool/call" => Reached(n, e.turn, e.step)
    BY <1>3
  <2>4. c.calls # << 1 >>
    BY <1>4 DEF Sees
  <2>5. e.type # "tool/result"
    BY <1>2, <1>3
  <2>. QED
    BY <1>1, <1>3, <1>4, <1>5, <2>1, <2>2, <2>3, <2>4, <2>5, Zenon
       DEF Continues, n, c, tr, sc
<1>7. /\ GoodLog(Append(s, e)) /\ InboxOf(Append(s, e)) = InboxOf(s)
      /\ TraceOf(Append(s, e)) = n /\ RepairOf(Append(s, e)) = c
  BY <1>3, <1>5, <1>6, GoodContinues DEF n, tr, c, sc
<1>8. InStep(Append(s, e), t, p + 1)
  <2>1. ~Recorded(s, t, p + 1)
    <3>1. ~Reached(tr, t, p + 1)
      BY <1>2 DEF Reached
    <3>. QED
      BY <1>1, <3>1, Zenon DEF Remembers, Recorded
  <2>2. ~Recorded(Append(s, e), t, p + 1)
    BY <1>1, <1>3, <2>1, RecordedAfter
  <2>3. t >= 1 /\ p + 1 >= 1
    BY <1>2
  <2>. QED
    BY <1>4, <1>7, <2>2, <2>3 DEF InStep, Open, Fields
<1>. QED
  BY <1>7, <1>8 DEF e

LEMMA StepEndKeeps ==
    ASSUME NEW s, GoodLog(s), NEW t, NEW p, Open(s, t, p)
    PROVE  LET z == Append(s, StepEnd(t, p))
           IN  GoodLog(z) /\ InboxOf(z) = InboxOf(s) /\ InTurn(z, t, p)
<1>. DEFINE e == StepEnd(t, p)
            tr == TraceOf(s)
            sc == RepairOf(s)
            n == TraceAfter(tr, e)
            c == ScanAfter(sc, e)
<1>1. /\ s \in Logs /\ InboxOf(s) \in Inboxes
      /\ Fits(tr, sc) /\ Remembers(s, tr, sc)
  BY GoodFits
<1>2. /\ tr.openTurn = t /\ tr.nextTurn = t /\ tr.openStep = p
      /\ tr.nextStep = p /\ t \in Nat \ {0} /\ p \in Nat \ {0}
  BY <1>1 DEF Open, Fits, Traces
<1>3. e \in LogEvents /\ e.type = "step/end" /\ e.turn = t
  BY <1>2 DEF StepEnd, LogEvents
<1>4. /\ Fits(n, c) /\ Fields(n, t, 0, t, p + 1, {})
      /\ Sees(c, <<>>, {})
  BY <1>1, <1>2, StepEndFits
<1>5. InboxAfter(InboxOf(s), e) = InboxOf(s)
  BY <1>3, OthersKeepInbox
<1>. HIDE DEF e, n, c, sc, tr
<1>6. Continues(s, e)
  <2>1. 1..(IF tr.openTurn = 0 THEN tr.nextTurn - 1 ELSE tr.nextTurn)
              \cup (IF e.type = "turn/start" THEN {e.turn} ELSE {})
             = 1..(IF n.openTurn = 0 THEN n.nextTurn - 1 ELSE n.nextTurn)
    BY <1>2, <1>3, <1>4 DEF Fields
  <2>2. \A m, q \in Nat : Reached(tr, m, q) => Reached(n, m, q)
    BY <1>2, <1>4 DEF Reached, Fields
  <2>3. e.type = "tool/call" => Reached(n, e.turn, e.step)
    BY <1>3
  <2>4. c.calls # << 1 >>
    BY <1>4 DEF Sees
  <2>5. e.type # "tool/result"
    BY <1>2, <1>3
  <2>. QED
    BY <1>1, <1>3, <1>4, <1>5, <2>1, <2>2, <2>3, <2>4, <2>5, Zenon
       DEF Continues, n, c, tr, sc
<1>7. /\ GoodLog(Append(s, e)) /\ InboxOf(Append(s, e)) = InboxOf(s)
      /\ TraceOf(Append(s, e)) = n /\ RepairOf(Append(s, e)) = c
  BY <1>3, <1>5, <1>6, GoodContinues DEF n, tr, c, sc
<1>8. InTurn(Append(s, e), t, p)
  BY <1>2, <1>4, <1>7 DEF InTurn, Fields
<1>. QED
  BY <1>7, <1>8 DEF e

LEMMA AnswerKeeps ==
    ASSUME NEW s, GoodLog(s), NEW t, NEW p, InStep(s, t, p),
           NEW calls \in {<<>>, << 1 >>}
    PROVE  LET z == Append(s, AssistantMessage(t, p, calls))
           IN  /\ GoodLog(z) /\ InboxOf(z) = InboxOf(s)
               /\ Open(z, t, p) /\ Sees(RepairOf(z), calls, {})
<1>. DEFINE e == AssistantMessage(t, p, calls)
            tr == TraceOf(s)
            sc == RepairOf(s)
            n == TraceAfter(tr, e)
            c == ScanAfter(sc, e)
<1>1. /\ s \in Logs /\ InboxOf(s) \in Inboxes
      /\ Fits(tr, sc) /\ Remembers(s, tr, sc)
  BY GoodFits
<1>2. /\ tr.openTurn = t /\ tr.nextTurn = t /\ tr.openStep = p
      /\ tr.nextStep = p /\ t \in Nat \ {0} /\ p \in Nat \ {0}
      /\ tr.pending = {} /\ Sees(sc, <<>>, {}) /\ ~Recorded(s, t, p)
  BY <1>1 DEF InStep, Open, Fits, Traces
<1>3. e \in LogEvents /\ e.type = "assistant/message" /\ e.turn = t
  BY <1>2 DEF AssistantMessage, LogEvents
<1>4. /\ Fits(n, c) /\ Fields(n, t, p, t, p, {})
      /\ Sees(c, calls, {})
  BY <1>1, <1>2, AnswerFits
<1>5. InboxAfter(InboxOf(s), e) = InboxOf(s)
  BY <1>3, OthersKeepInbox
<1>. HIDE DEF e, n, c, sc, tr
<1>6. Continues(s, e)
  <2>1. 1..(IF tr.openTurn = 0 THEN tr.nextTurn - 1 ELSE tr.nextTurn)
              \cup (IF e.type = "turn/start" THEN {e.turn} ELSE {})
             = 1..(IF n.openTurn = 0 THEN n.nextTurn - 1 ELSE n.nextTurn)
    BY <1>2, <1>3, <1>4 DEF Fields
  <2>2. \A m, q \in Nat : Reached(tr, m, q) => Reached(n, m, q)
    BY <1>2, <1>4 DEF Reached, Fields
  <2>3. e.type = "tool/call" => Reached(n, e.turn, e.step)
    BY <1>3
  <2>4. /\ e.type # "tool/call" /\ 1 \notin c.started
        /\ ~Recorded(s, c.turn, c.step)
    BY <1>2, <1>3, <1>4 DEF Fits, Sees, Fields
  <2>5. e.type # "tool/result"
    BY <1>2, <1>3
  <2>. QED
    BY <1>1, <1>3, <1>4, <1>5, <2>1, <2>2, <2>3, <2>4, <2>5, Zenon
       DEF Continues, n, c, tr, sc
<1>7. /\ GoodLog(Append(s, e)) /\ InboxOf(Append(s, e)) = InboxOf(s)
      /\ TraceOf(Append(s, e)) = n /\ RepairOf(Append(s, e)) = c
  BY <1>3, <1>5, <1>6, GoodContinues DEF n, tr, c, sc
<1>8. Open(Append(s, e), t, p) /\ Sees(RepairOf(Append(s, e)), calls, {})
  BY <1>2, <1>4, <1>7 DEF Open, Fields, Sees
<1>. QED
  BY <1>7, <1>8 DEF e

LEMMA CallKeeps ==
    ASSUME NEW s, GoodLog(s), NEW t, NEW p, Asked(s, t, p)
    PROVE  LET z == Append(s, ToolCall(t, p, 1))
           IN  GoodLog(z) /\ InboxOf(z) = InboxOf(s) /\ Started(z, t, p)
<1>. DEFINE e == ToolCall(t, p, 1)
            tr == TraceOf(s)
            sc == RepairOf(s)
            n == TraceAfter(tr, e)
            c == ScanAfter(sc, e)
<1>1. /\ s \in Logs /\ InboxOf(s) \in Inboxes
      /\ Fits(tr, sc) /\ Remembers(s, tr, sc)
  BY GoodFits
<1>2. /\ tr.openTurn = t /\ tr.nextTurn = t /\ tr.openStep = p
      /\ tr.nextStep = p /\ t \in Nat \ {0} /\ p \in Nat \ {0}
      /\ Sees(sc, << 1 >>, {})
  BY <1>1 DEF Asked, Open, Fits, Traces
<1>3. e \in LogEvents /\ e.type = "tool/call" /\ e.turn = t /\ e.step = p
  BY <1>2 DEF ToolCall, LogEvents
<1>4. /\ Fits(n, c) /\ Fields(n, t, p, t, p, {1})
      /\ Sees(c, << 1 >>, {1})
  BY <1>1, <1>2, CallFits
<1>5. InboxAfter(InboxOf(s), e) = InboxOf(s)
  BY <1>3, OthersKeepInbox
<1>. HIDE DEF e, n, c, sc, tr
<1>6. Continues(s, e)
  <2>1. 1..(IF tr.openTurn = 0 THEN tr.nextTurn - 1 ELSE tr.nextTurn)
              \cup (IF e.type = "turn/start" THEN {e.turn} ELSE {})
             = 1..(IF n.openTurn = 0 THEN n.nextTurn - 1 ELSE n.nextTurn)
    BY <1>2, <1>3, <1>4 DEF Fields
  <2>2. \A m, q \in Nat : Reached(tr, m, q) => Reached(n, m, q)
    BY <1>2, <1>4 DEF Reached, Fields
  <2>3. Reached(n, e.turn, e.step)
    BY <1>3, <1>4 DEF Reached, Fields
  <2>4. 1 \in c.started /\ e.turn = c.turn /\ e.step = c.step
    BY <1>3, <1>4 DEF Fits, Sees, Fields
  <2>5. e.type # "tool/result"
    BY <1>2, <1>3
  <2>. QED
    BY <1>1, <1>3, <1>4, <1>5, <2>1, <2>2, <2>3, <2>4, <2>5, Zenon
       DEF Continues, n, c, tr, sc
<1>7. /\ GoodLog(Append(s, e)) /\ InboxOf(Append(s, e)) = InboxOf(s)
      /\ TraceOf(Append(s, e)) = n /\ RepairOf(Append(s, e)) = c
  BY <1>3, <1>5, <1>6, GoodContinues DEF n, tr, c, sc
<1>8. Started(Append(s, e), t, p)
  BY <1>2, <1>4, <1>7 DEF Open, Fields, Sees, Started
<1>. QED
  BY <1>7, <1>8 DEF e

\* The result of the tool, or of the repair, which knows whether it started.
LEMMA ResultKeeps ==
    ASSUME NEW s, GoodLog(s), NEW t, NEW p, Open(s, t, p),
           NEW code \in Codes, RepairOf(s).calls = << 1 >>,
           IF code = "none" THEN 1 \in RepairOf(s).started
           ELSE code = "TOOL_OUTCOME_UNKNOWN" <=> 1 \in RepairOf(s).started
    PROVE  LET z == Append(s, ToolResult(t, p, 1, code))
           IN  GoodLog(z) /\ InboxOf(z) = InboxOf(s) /\ Open(z, t, p)
<1>. DEFINE e == ToolResult(t, p, 1, code)
            tr == TraceOf(s)
            sc == RepairOf(s)
            n == TraceAfter(tr, e)
            c == ScanAfter(sc, e)
<1>1. /\ s \in Logs /\ InboxOf(s) \in Inboxes
      /\ Fits(tr, sc) /\ Remembers(s, tr, sc)
  BY GoodFits
<1>2. /\ tr.openTurn = t /\ tr.nextTurn = t /\ tr.openStep = p
      /\ tr.nextStep = p /\ t \in Nat \ {0} /\ p \in Nat \ {0}
      /\ sc.calls = << 1 >> /\ sc.turn = t /\ sc.step = p
      /\ 1 \in sc.started \/ code = "TOOL_NOT_STARTED"
  BY <1>1 DEF Open, Fits, Traces, Codes
<1>3. /\ e \in LogEvents /\ e.type = "tool/result"
      /\ e.turn = t /\ e.step = p /\ e.code = code
  BY <1>2 DEF ToolResult, LogEvents
<1>4. /\ Fits(n, c) /\ Fields(n, t, p, t, p, {})
      /\ Sees(c, <<>>, sc.started)
  BY <1>1, <1>2, ResultFits
<1>5. InboxAfter(InboxOf(s), e) = InboxOf(s)
  BY <1>3, OthersKeepInbox
<1>. HIDE DEF e, n, c, sc, tr
<1>6. Continues(s, e)
  <2>1. 1..(IF tr.openTurn = 0 THEN tr.nextTurn - 1 ELSE tr.nextTurn)
              \cup (IF e.type = "turn/start" THEN {e.turn} ELSE {})
             = 1..(IF n.openTurn = 0 THEN n.nextTurn - 1 ELSE n.nextTurn)
    BY <1>2, <1>3, <1>4 DEF Fields
  <2>2. \A m, q \in Nat : Reached(tr, m, q) => Reached(n, m, q)
    BY <1>2, <1>4 DEF Reached, Fields
  <2>3. e.type = "tool/call" => Reached(n, e.turn, e.step)
    BY <1>3
  <2>4. c.calls # << 1 >>
    BY <1>4 DEF Sees
  <2>5. e.code # "none" => (e.code = "TOOL_OUTCOME_UNKNOWN"
                                <=> Recorded(s, e.turn, e.step))
    BY <1>1, <1>2, <1>3 DEF Remembers, sc
  <2>. QED
    BY <1>1, <1>3, <1>4, <1>5, <2>1, <2>2, <2>3, <2>4, <2>5, Zenon
       DEF Continues, n, c, tr, sc
<1>7. /\ GoodLog(Append(s, e)) /\ InboxOf(Append(s, e)) = InboxOf(s)
      /\ TraceOf(Append(s, e)) = n /\ RepairOf(Append(s, e)) = c
  BY <1>3, <1>5, <1>6, GoodContinues DEF n, tr, c, sc
<1>8. Open(Append(s, e), t, p)
  BY <1>2, <1>4, <1>7 DEF Open, Fields
<1>. QED
  BY <1>7, <1>8 DEF e
-----------------------------------------------------------------------------
(* Every mutation of the inbox writes the splices that replay it. *)

\* A longer log with the inbox "box", where nothing else has changed.
Replays(s, z, box) == GoodLog(z) /\ InboxOf(z) = box /\ Stays(s, z)

LEMMA ReplaysNothing ==
    ASSUME NEW s, GoodLog(s)
    PROVE  Replays(s, s \o <<>>, InboxOf(s))
<1>1. s \in Seq(LogEvents)
  BY GoodFits DEF Logs
<1>2. s \o <<>> = s
  BY <1>1
<1>. QED
  BY <1>2, Zenon DEF Replays, Stays

LEMMA ReplaysThen ==
    ASSUME NEW s, NEW z, NEW y, NEW box, NEW new,
           Replays(s, z, box), Replays(z, y, new)
    PROVE  Replays(s, y, new)
BY Zenon DEF Replays, Stays

LEMMA ReplaysSplice ==
    ASSUME NEW s, GoodLog(s), NEW target \in Targets, NEW start \in Nat,
           NEW removed \in Nat, NEW inserted \in Seq(Messages),
           NEW canceled \in BOOLEAN,
           SpliceAt(InboxOf(s)[target], start, removed, inserted)
              \in Seq(Messages)
    PROVE  Replays(s,
               s \o <<Spliced(target, start, removed, inserted, canceled)>>,
               [InboxOf(s) EXCEPT ![target] =
                    SpliceAt(@, start, removed, inserted)])
<1>. DEFINE e == Spliced(target, start, removed, inserted, canceled)
            box == InboxOf(s)
            new == [box EXCEPT ![target] =
                      SpliceAt(@, start, removed, inserted)]
<1>1. s \in Logs /\ box \in Inboxes
  BY GoodFits
<1>2. e \in Splices \cup Texts
  BY DEF Spliced, Splices
<1>3. InboxAfter(box, e) = new
  BY DEF InboxAfter, Spliced
<1>. HIDE DEF e
<1>4. new \in Inboxes
  <2>. DEFINE list == SpliceAt(box[target], start, removed, inserted)
  <2>. HIDE DEF list
  <2>1. [box EXCEPT ![target] = list] \in Inboxes
    BY <1>1 DEF Inboxes, list
  <2>. QED
    BY <2>1 DEF list
<1>. HIDE DEF new, box
<1>5. /\ GoodLog(Append(s, e)) /\ InboxOf(Append(s, e)) = new
      /\ Stays(s, Append(s, e))
  BY <1>2, <1>3, <1>4, NeutralKeeps DEF box
<1>6. Append(s, e) = s \o <<e>>
  <2>1. e \in LogEvents
    BY <1>2 DEF LogEvents
  <2>. QED
    BY <1>1, <2>1, AppendedEvent
<1>. QED
  BY <1>5, <1>6, Zenon DEF Replays, e, new, box

LEMMA ReplaysAppend ==
    ASSUME NEW s, GoodLog(s), NEW target \in Targets, NEW m \in Messages
    PROVE  Replays(s, s \o AppendEvents(InboxOf(s), target, m),
                   Appended(InboxOf(s), target, m))
<1>. DEFINE box == InboxOf(s)
            list == box[target]
            new == SpliceAt(list, Len(list), 0, <<m>>)
<1>1. box \in Inboxes
  BY GoodFits
<1>2. list \in Seq(Messages) /\ Len(list) \in Nat
  BY <1>1 DEF Inboxes
<1>3. new = Append(list, m) /\ Append(list, m) \in Seq(Messages)
  <2>1. SubSeq(list, 1, Len(list)) = list
    BY <1>2
  <2>2. SubSeq(list, Len(list) + 0 + 1, Len(list)) = <<>>
    BY <1>2
  <2>3. (list \o <<m>>) \o <<>> = Append(list, m)
    BY <1>2
  <2>4. Append(list, m) \in Seq(Messages)
    BY <1>2
  <2>5. new = (SubSeq(list, 1, Len(list)) \o <<m>>)
                 \o SubSeq(list, Len(list) + 0 + 1, Len(list))
    BY DEF SpliceAt
  <2>. HIDE DEF list, new
  <2>. QED
    BY <2>1, <2>2, <2>3, <2>4, <2>5, Zenon
<1>4. Replays(s, s \o <<Spliced(target, Len(list), 0, <<m>>, FALSE)>>,
              [box EXCEPT ![target] = SpliceAt(@, Len(list), 0, <<m>>)])
  <2>1. <<m>> \in Seq(Messages) /\ FALSE \in BOOLEAN /\ 0 \in Nat
    OBVIOUS
  <2>2. SpliceAt(InboxOf(s)[target], Len(list), 0, <<m>>) \in Seq(Messages)
    BY <1>3
  <2>. HIDE DEF list
  <2>. QED
    BY <1>2, <2>1, <2>2, ReplaysSplice
<1>5. [box EXCEPT ![target] = SpliceAt(@, Len(list), 0, <<m>>)]
         = Appended(box, target, m)
  BY <1>1, <1>3 DEF Appended, Inboxes
<1>. QED
  BY <1>4, <1>5 DEF AppendEvents

LEMMA ReplaysResplice ==
    ASSUME NEW s, GoodLog(s), NEW m, Pending(InboxOf(s), m),
           NEW inserted \in Seq(Messages)
    PROVE  Replays(s, s \o RespliceEvents(InboxOf(s), m, inserted),
                   Respliced(InboxOf(s), m, inserted))
<1>. DEFINE box == InboxOf(s)
            place == CHOOSE p \in Places(box, m) : TRUE
            list == box[place[1]]
<1>1. box \in Inboxes
  BY GoodFits
<1>2. /\ place[1] \in Targets
      /\ place[2] \in 1..Len(list)
  BY <1>1, PlaceOf
<1>3. list \in Seq(Messages)
  BY <1>1, <1>2 DEF Inboxes
<1>4. SpliceAt(list, place[2] - 1, 1, inserted) \in Seq(Messages)
  <2>. HIDE DEF list, place
  <2>. QED
    BY <1>2, <1>3, SpliceKeeps
<1>5. Respliced(box, m, inserted) =
         [box EXCEPT ![place[1]] = SpliceAt(@, place[2] - 1, 1, inserted)]
  BY DEF Respliced
<1>6. RespliceEvents(box, m, inserted) =
         <<Spliced(place[1], place[2] - 1, 1, inserted, TRUE)>>
  BY DEF RespliceEvents
<1>7. place[2] - 1 \in Nat /\ 1 \in Nat /\ TRUE \in BOOLEAN
  BY <1>2, <1>3
<1>. HIDE DEF place
<1>8. Replays(s, s \o <<Spliced(place[1], place[2] - 1, 1, inserted, TRUE)>>,
              [box EXCEPT ![place[1]] = SpliceAt(@, place[2] - 1, 1, inserted)])
  BY <1>2, <1>4, <1>7, ReplaysSplice
<1>. QED
  BY <1>5, <1>6, <1>8

LEMMA ReplaysEmptying ==
    ASSUME NEW s, GoodLog(s), NEW target \in Targets, NEW canceled \in BOOLEAN
    PROVE  Replays(s, s \o EmptyingEvents(InboxOf(s), target, canceled),
                   [InboxOf(s) EXCEPT ![target] = <<>>])
<1>. DEFINE box == InboxOf(s)
            list == box[target]
<1>1. box \in Inboxes
  BY GoodFits
<1>2. list \in Seq(Messages) /\ Len(list) \in Nat
  BY <1>1 DEF Inboxes
<1>3. CASE list = <<>>
  <2>1. [box EXCEPT ![target] = <<>>] = box
    BY <1>1, <1>3 DEF Inboxes
  <2>2. EmptyingEvents(box, target, canceled) = <<>>
    BY <1>3 DEF EmptyingEvents
  <2>. QED
    BY <2>1, <2>2, ReplaysNothing
<1>4. CASE list # <<>>
  <2>1. SpliceAt(list, 0, Len(list), <<>>) = <<>>
    <3>1. SubSeq(list, 1, 0) = <<>>
      BY <1>2
    <3>2. SubSeq(list, 0 + Len(list) + 1, Len(list)) = <<>>
      BY <1>2
    <3>3. (<<>> \o <<>>) \o <<>> = <<>>
      OBVIOUS
    <3>. QED
      BY <3>1, <3>2, <3>3 DEF SpliceAt
  <2>2. EmptyingEvents(box, target, canceled) =
           <<Spliced(target, 0, Len(list), <<>>, canceled)>>
    BY <1>4 DEF EmptyingEvents
  <2>3. <<>> \in Seq(Messages)
    OBVIOUS
  <2>. HIDE DEF list
  <2>4. Replays(s, s \o <<Spliced(target, 0, Len(list), <<>>, canceled)>>,
                [box EXCEPT ![target] = SpliceAt(@, 0, Len(list), <<>>)])
    BY <1>2, <2>1, <2>3, ReplaysSplice DEF list
  <2>5. [box EXCEPT ![target] = SpliceAt(@, 0, Len(list), <<>>)]
           = [box EXCEPT ![target] = <<>>]
    BY <2>1, Zenon DEF list
  <2>. QED
    BY <2>2, <2>4, <2>5
<1>. QED
  BY <1>3, <1>4

LEMMA EmptyingTyped ==
    ASSUME NEW box \in Inboxes, NEW target \in Targets,
           NEW canceled \in BOOLEAN
    PROVE  EmptyingEvents(box, target, canceled) \in Logs
<1>1. Len(box[target]) \in Nat /\ <<>> \in Seq(Messages) /\ 0 \in Nat
  BY DEF Inboxes
<1>2. Spliced(target, 0, Len(box[target]), <<>>, canceled) \in LogEvents
  BY <1>1 DEF Spliced, LogEvents, Splices
<1>. QED
  BY <1>2 DEF EmptyingEvents, Logs

LEMMA ReplaysClaim ==
    ASSUME NEW s, GoodLog(s), NEW target \in Targets
    PROVE  Replays(s, s \o ClaimEvents(InboxOf(s), target),
                   AfterClaim(InboxOf(s), target))
<1>. DEFINE box == InboxOf(s)
            turns == box["next-turn"]
            one == EmptyingEvents(box, "next-step", FALSE)
            z == s \o one
            left == [box EXCEPT !["next-step"] = <<>>]
            two == IF OneTurn(box, target) = <<>> THEN <<>>
                   ELSE <<Spliced("next-turn", 0, 1, <<>>, FALSE)>>
            rest == AfterClaim(box, target)
<1>1. s \in Logs /\ box \in Inboxes
  BY GoodFits
<1>2. Replays(s, z, left)
  BY ReplaysEmptying DEF Targets
<1>3. GoodLog(z) /\ InboxOf(z) = left /\ left \in Inboxes
  BY <1>2, GoodFits DEF Replays
<1>4. /\ left["next-turn"] = turns /\ left["next-step"] = <<>>
      /\ turns \in Seq(Messages) /\ Len(turns) \in Nat
  BY <1>1 DEF Inboxes, Targets
<1>5. OneTurn(box, target) \in Seq(Messages) /\ rest \in Inboxes
  <2>1. rest \in Inboxes
    BY <1>1, ClaimTakes
  <2>2. OneTurn(box, target) \in Seq(Messages)
    BY <1>4 DEF OneTurn
  <2>. QED
    BY <2>1, <2>2
<1>6. rest = [t \in Targets |->
                IF t = "next-step" THEN <<>>
                ELSE SubSeq(box[t], Len(OneTurn(box, target)) + 1,
                            Len(box[t]))]
  BY DEF AfterClaim
<1>7. Replays(z, z \o two, rest)
  <2>1. CASE OneTurn(box, target) = <<>>
    <3>1. SubSeq(turns, Len(<<>>) + 1, Len(turns)) = turns
      BY <1>4
    <3>2. rest["next-turn"] = turns /\ rest["next-step"] = <<>>
      BY <1>6, <2>1, <3>1 DEF Targets
    <3>3. rest = left
      BY <1>3, <1>4, <1>5, <3>2 DEF Inboxes, Targets
    <3>. QED
      BY <1>3, <2>1, <3>3, ReplaysNothing
  <2>2. CASE OneTurn(box, target) # <<>>
    <3>1. OneTurn(box, target) = <<Head(turns)>> /\ turns # <<>>
      BY <2>2, Zenon DEF OneTurn
    <3>2. SpliceAt(turns, 0, 1, <<>>) = SubSeq(turns, 2, Len(turns))
      <4>1. SubSeq(turns, 1, 0) = <<>> /\ 0 + 1 + 1 = 2
        BY <1>4
      <4>2. SubSeq(turns, 2, Len(turns)) \in Seq(Messages)
        BY <1>4
      <4>. DEFINE q == SubSeq(turns, 2, Len(turns))
      <4>3. (<<>> \o <<>>) \o q = q
        <5>. HIDE DEF q
        <5>. QED
          BY <4>2 DEF q
      <4>. QED
        BY <4>1, <4>3 DEF SpliceAt
    <3>3. SubSeq(turns, 2, Len(turns)) \in Seq(Messages)
      BY <1>4
    <3>4. rest["next-turn"] = SubSeq(turns, 2, Len(turns))
            /\ rest["next-step"] = <<>>
      BY <1>6, <3>1 DEF Targets
    <3>5. rest = [left EXCEPT !["next-turn"] = SpliceAt(@, 0, 1, <<>>)]
      BY <1>3, <1>4, <1>5, <3>2, <3>4 DEF Inboxes, Targets
    <3>6. Replays(z, z \o <<Spliced("next-turn", 0, 1, <<>>, FALSE)>>,
                  [left EXCEPT !["next-turn"] = SpliceAt(@, 0, 1, <<>>)])
      <4>1. /\ "next-turn" \in Targets /\ 0 \in Nat /\ 1 \in Nat
            /\ <<>> \in Seq(Messages) /\ FALSE \in BOOLEAN
        BY DEF Targets
      <4>2. SpliceAt(InboxOf(z)["next-turn"], 0, 1, <<>>) \in Seq(Messages)
        BY <1>3, <1>4, <3>2, <3>3
      <4>. HIDE DEF z, left
      <4>. QED
        BY <1>3, <4>1, <4>2, ReplaysSplice
    <3>. QED
      BY <2>2, <3>5, <3>6
  <2>. QED
    BY <2>1, <2>2
<1>8. one \in Logs /\ two \in Logs
  <2>1. one \in Logs
    BY <1>1, EmptyingTyped DEF Targets
  <2>. DEFINE e == Spliced("next-turn", 0, 1, <<>>, FALSE)
  <2>2. e \in LogEvents
    BY DEF Spliced, LogEvents, Splices, Targets
  <2>. HIDE DEF e
  <2>3. <<>> \in Logs /\ <<e>> \in Logs
    BY <2>2 DEF Logs
  <2>. QED
    BY <2>1, <2>3, Zenon DEF e
<1>9. z \o two = s \o (one \o two)
  <2>. HIDE DEF one, two
  <2>. QED
    BY <1>1, <1>8 DEF Logs
<1>10. ClaimEvents(box, target) = one \o two
  BY Zenon DEF ClaimEvents
<1>. HIDE DEF one, two, z, left, rest
<1>11. Replays(s, z \o two, rest)
  BY <1>2, <1>7, ReplaysThen
<1>. QED
  BY <1>9, <1>10, <1>11 DEF rest
-----------------------------------------------------------------------------
(* What a step writes. *)

LEMMA TextsKeep ==
    ASSUME NEW s, GoodLog(s), NEW texts \in Seq(Texts)
    PROVE  Replays(s, s \o texts, InboxOf(s))
<1>. DEFINE box == InboxOf(s)
            S == {n \in Nat : \A t \in Seq(Texts) :
                                 Len(t) = n => Replays(s, s \o t, box)}
<1>1. 0 \in S
  <2>1. ASSUME NEW t \in Seq(Texts), Len(t) = 0
        PROVE  Replays(s, s \o t, box)
    <3>1. t = <<>>
      BY <2>1
    <3>. QED
      BY <3>1, ReplaysNothing
  <2>. QED
    BY <2>1
<1>2. ASSUME NEW n \in Nat, n \in S
      PROVE  n + 1 \in S
  <2>1. ASSUME NEW t \in Seq(Texts), Len(t) = n + 1
        PROVE  Replays(s, s \o t, box)
    <3>. DEFINE front == SubSeq(t, 1, n)
                e == t[n + 1]
                z == s \o front
    <3>1. /\ front \in Seq(Texts) /\ Len(front) = n /\ e \in Texts
          /\ t = Append(front, e)
      BY <2>1
    <3>2. Replays(s, z, box)
      BY <1>2, <3>1
    <3>. HIDE DEF front, e
    <3>3. s \in Seq(LogEvents) /\ e \in LogEvents /\ front \in Seq(LogEvents)
      <4>1. Texts \subseteq LogEvents
        BY DEF LogEvents
      <4>. QED
        BY <3>1, <4>1, GoodFits DEF Logs
    <3>4. s \o t = Append(z, e)
      BY <3>1, <3>3
    <3>. HIDE DEF z
    <3>5. GoodLog(z) /\ InboxOf(z) = box /\ box \in Inboxes
      BY <3>2, GoodFits DEF Replays
    <3>6. InboxAfter(box, e) = box
      BY <3>1, OthersKeepInbox DEF Texts
    <3>7. Replays(z, Append(z, e), box)
      BY <3>1, <3>5, <3>6, NeutralKeeps DEF Replays
    <3>. QED
      BY <3>2, <3>4, <3>7, ReplaysThen
  <2>. QED
    BY <2>1
<1>. HIDE DEF S
<1>3. \A n \in Nat : n \in S
  BY <1>1, <1>2, InboxScan!SetInduction
<1>. QED
  BY <1>3 DEF S

LEMMA OneEvent ==
    ASSUME NEW s, GoodLog(s), NEW e \in LogEvents
    PROVE  s \o <<e>> = Append(s, e) /\ s \o <<>> = s
<1>1. s \in Seq(LogEvents)
  BY GoodFits DEF Logs
<1>. QED
  BY <1>1

LEMMA Associates ==
    ASSUME NEW q \in Seq(LogEvents), NEW r \in Seq(LogEvents),
           NEW w \in Seq(LogEvents)
    PROVE  (q \o r) \o w = q \o (r \o w)
BY ConcatAssociative

LEMMA Appends ==
    ASSUME NEW s \in Logs, NEW a \in LogEvents
    PROVE  /\ s \o <<a>> = Append(s, a) /\ Append(s, a) \in Logs
           /\ \A b \in LogEvents :
                 /\ s \o <<a, b>> = Append(Append(s, a), b)
                 /\ s \o (<<a>> \o <<b>>) = Append(Append(s, a), b)
           /\ \A b, c \in LogEvents :
                 s \o (<<a>> \o <<b, c>>) = Append(Append(Append(s, a), b), c)
<1>1. s \in Seq(LogEvents)
  BY DEF Logs
<1>2. s \o <<a>> = Append(s, a) /\ Append(s, a) \in Seq(LogEvents)
  BY <1>1
<1>3. ASSUME NEW b \in LogEvents
      PROVE  /\ s \o <<a, b>> = Append(Append(s, a), b)
             /\ s \o (<<a>> \o <<b>>) = Append(Append(s, a), b)
  BY <1>1
<1>4. ASSUME NEW b \in LogEvents, NEW c \in LogEvents
      PROVE  s \o (<<a>> \o <<b, c>>) = Append(Append(Append(s, a), b), c)
  <2>. DEFINE x == <<a>>
              y == <<b, c>>
              q == s \o x
  <2>1. x \in Seq(LogEvents) /\ y \in Seq(LogEvents)
    BY <1>4
  <2>2. q = Append(s, a) /\ q \in Seq(LogEvents)
    BY <1>1
  <2>3. \A r \in Seq(LogEvents) : r \o y = Append(Append(r, b), c)
    BY <1>4
  <2>. HIDE DEF x, y
  <2>4. q \o y = s \o (x \o y)
    BY <1>1, <2>1, Associates
  <2>. QED
    BY <2>2, <2>3, <2>4 DEF x, y
<1>. QED
  BY <1>2, <1>3, <1>4 DEF Logs

\* The events of a step, before its end.
LEMMA BodyTyped ==
    ASSUME phase.turn \in Nat, phase.step \in Nat, NEW outcome \in Outcomes
    PROVE  StepBody(outcome) \in Logs /\ StepOver \in Logs
<1>. DEFINE t == phase.turn
            p == phase.step
            over == StepEnd(t, p)
            call == ToolCall(t, p, 1)
            result == ToolResult(t, p, 1, "none")
            none == AssistantMessage(t, p, <<>>)
            asks == AssistantMessage(t, p, << 1 >>)
            two == StepBody(outcome)
<1>1. over \in LogEvents
  BY DEF StepEnd, LogEvents
<1>2. call \in LogEvents
  BY DEF ToolCall, LogEvents
<1>3. result \in LogEvents
  BY DEF ToolResult, LogEvents, Codes
<1>4. none \in LogEvents
  BY DEF AssistantMessage, LogEvents
<1>5. asks \in LogEvents
  BY DEF AssistantMessage, LogEvents
<1>6. ToolRun = <<call, result>> /\ ToolRun[1] = call
  BY DEF ToolRun
<1>7. \/ two = <<>> \/ two = <<none>> \/ two = <<asks>>
      \/ two = <<asks, call>> \/ two = <<asks>> \o <<call, result>>
  BY <1>6, Zenon DEF StepBody, Answer, Outcomes, Settling
<1>8. StepOver = <<over>>
  BY DEF StepOver
<1>. HIDE DEF two, over, call, result, none, asks
<1>9. /\ <<>> \in Seq(LogEvents) /\ <<over>> \in Seq(LogEvents)
      /\ <<none>> \in Seq(LogEvents) /\ <<asks>> \in Seq(LogEvents)
      /\ <<asks, call>> \in Seq(LogEvents)
      /\ <<call, result>> \in Seq(LogEvents)
  BY <1>1, <1>2, <1>3, <1>4, <1>5
<1>10. <<asks>> \o <<call, result>> \in Seq(LogEvents)
  BY <1>9
<1>. QED
  BY <1>7, <1>8, <1>9, <1>10, Zenon DEF Logs, two

LEMMA BodyWrites ==
    ASSUME NEW s, GoodLog(s), InStep(s, phase.turn, phase.step),
           NEW outcome \in Outcomes
    PROVE  LET z == s \o StepBody(outcome)
           IN  /\ GoodLog(z) /\ InboxOf(z) = InboxOf(s)
               /\ Open(z, phase.turn, phase.step)
<1>. DEFINE t == phase.turn
            p == phase.step
            box == InboxOf(s)
            call == ToolCall(t, p, 1)
            result == ToolResult(t, p, 1, "none")
            Said(calls) == AssistantMessage(t, p, calls)
            Stands(z) == GoodLog(z) /\ InboxOf(z) = box /\ Open(z, t, p)
            asked == Append(s, Said(<< 1 >>))
            started == Append(asked, call)
            answered == Append(started, result)
<1>1. s \in Logs /\ t \in Nat /\ p \in Nat
  <2>1. Fits(TraceOf(s), RepairOf(s)) /\ s \in Logs
    BY GoodFits
  <2>. QED
    BY <2>1 DEF Fits, Traces, InStep, Open
<1>2. /\ call \in LogEvents /\ result \in LogEvents
      /\ \A calls \in {<<>>, << 1 >>} : Said(calls) \in LogEvents
  <2>1. call \in LogEvents
    BY <1>1 DEF ToolCall, LogEvents
  <2>2. result \in LogEvents
    BY <1>1 DEF ToolResult, LogEvents, Codes
  <2>3. ASSUME NEW calls \in {<<>>, << 1 >>}
        PROVE  Said(calls) \in LogEvents
    BY <1>1 DEF AssistantMessage, LogEvents
  <2>. QED
    BY <2>1, <2>2, <2>3
<1>3. ToolRun = <<call, result>> /\ ToolRun[1] = call
  BY DEF ToolRun
<1>4. GoodLog(asked) /\ InboxOf(asked) = box /\ Asked(asked, t, p)
  BY AnswerKeeps DEF Asked
<1>. HIDE DEF asked
<1>5. GoodLog(started) /\ InboxOf(started) = box /\ Started(started, t, p)
  BY <1>4, CallKeeps
<1>. HIDE DEF started
<1>6. Stands(answered)
  <2>1. /\ Open(started, t, p) /\ "none" \in Codes
        /\ RepairOf(started).calls = << 1 >>
        /\ 1 \in RepairOf(started).started
    BY <1>5 DEF Started, Sees, Codes
  <2>. QED
    BY <1>5, <2>1, ResultKeeps
<1>. HIDE DEF answered
<1>7. CASE outcome = "nothing"
  <2>1. StepBody(outcome) = <<>>
    BY <1>7 DEF StepBody
  <2>2. s \o <<>> = s
    BY <1>1 DEF Logs
  <2>. QED
    BY <2>1, <2>2 DEF InStep
<1>8. CASE outcome \in {"completed", "max-tokens"}
  <2>1. StepBody(outcome) = <<Said(<<>>)>>
    BY <1>8 DEF StepBody, Answer
  <2>2. s \o StepBody(outcome) = Append(s, Said(<<>>))
    <3>1. Said(<<>>) \in LogEvents
      BY <1>2
    <3>. HIDE DEF Said
    <3>. QED
      BY <1>1, <2>1, <3>1, Appends
  <2>3. Stands(Append(s, Said(<<>>)))
    BY AnswerKeeps
  <2>. QED
    BY <2>2, <2>3
<1>9. CASE outcome = "asked"
  <2>1. StepBody(outcome) = <<Said(<< 1 >>)>>
    BY <1>9 DEF StepBody, Answer
  <2>2. s \o StepBody(outcome) = asked
    <3>1. Said(<< 1 >>) \in LogEvents
      BY <1>2
    <3>. HIDE DEF Said
    <3>. QED
      BY <1>1, <2>1, <3>1, Appends DEF asked
  <2>. QED
    BY <1>4, <2>2 DEF Asked
<1>10. CASE outcome = "started"
  <2>1. StepBody(outcome) = <<Said(<< 1 >>), call>>
    BY <1>3, <1>10, Zenon DEF StepBody, Answer, Settling
  <2>2. s \o StepBody(outcome) = started
    <3>. DEFINE said == Said(<< 1 >>)
    <3>1. said \in LogEvents
      BY <1>2
    <3>. HIDE DEF said, call
    <3>2. \A b \in LogEvents : s \o <<said, b>> = Append(Append(s, said), b)
      BY <1>1, <3>1, Appends
    <3>. QED
      BY <1>2, <2>1, <3>2, Zenon DEF asked, started, said
  <2>. QED
    BY <1>5, <2>2 DEF Started
<1>11. CASE outcome \in {"continue", "concluded"}
  <2>1. StepBody(outcome) = <<Said(<< 1 >>)>> \o <<call, result>>
    BY <1>3, <1>11, Zenon DEF StepBody, Answer
  <2>2. s \o StepBody(outcome) = answered
    <3>. DEFINE said == Said(<< 1 >>)
    <3>1. said \in LogEvents
      BY <1>2
    <3>. HIDE DEF said, call, result
    <3>2. \A b, c \in LogEvents :
             s \o (<<said>> \o <<b, c>>)
                = Append(Append(Append(s, said), b), c)
      BY <1>1, <3>1, Appends, ZenonT(30)
    <3>. QED
      BY <1>2, <2>1, <3>2, Zenon DEF asked, started, answered, said
  <2>. QED
    BY <1>6, <2>2
<1>. QED
  BY <1>7, <1>8, <1>9, <1>10, <1>11 DEF Outcomes, Settling

LEMMA StepWrites ==
    ASSUME NEW s, GoodLog(s), InStep(s, phase.turn, phase.step),
           NEW outcome \in Outcomes
    PROVE  LET z == s \o StepEvents(outcome)
           IN  /\ GoodLog(z) /\ InboxOf(z) = InboxOf(s)
               /\ InTurn(z, phase.turn, phase.step)
<1>. DEFINE body == StepBody(outcome)
            z == s \o body
            over == StepEnd(phase.turn, phase.step)
<1>1. s \in Logs /\ phase.turn \in Nat /\ phase.step \in Nat
  <2>1. Fits(TraceOf(s), RepairOf(s)) /\ s \in Logs
    BY GoodFits
  <2>. QED
    BY <2>1 DEF Fits, Traces, InStep, Open
<1>2. body \in Logs /\ StepOver \in Logs
  BY <1>1, BodyTyped
<1>3. /\ GoodLog(z) /\ InboxOf(z) = InboxOf(s)
      /\ Open(z, phase.turn, phase.step)
  BY BodyWrites
<1>4. over \in LogEvents /\ StepOver = <<over>>
  BY <1>1 DEF StepEnd, LogEvents, StepOver
<1>. HIDE DEF body
<1>5. s \o StepEvents(outcome) = z \o StepOver
  <2>. HIDE DEF StepOver
  <2>. QED
    BY <1>1, <1>2, Associates DEF StepEvents, body, Logs
<1>. HIDE DEF z, over
<1>6. z \o StepOver = Append(z, over)
  BY <1>3, <1>4, OneEvent
<1>7. /\ GoodLog(Append(z, over)) /\ InboxOf(Append(z, over)) = InboxOf(z)
      /\ InTurn(Append(z, over), phase.turn, phase.step)
  BY <1>3, StepEndKeeps DEF over
<1>. QED
  BY <1>3, <1>5, <1>6, <1>7
-----------------------------------------------------------------------------
(* The repair of a log that a crash has cut. *)

LEMMA LastTurn ==
    ASSUME NEW s, GoodLog(s), TraceOf(s).openTurn = 0
    PROVE  ResumedTurn(s) \in Nat /\ Closed(s, ResumedTurn(s))
<1>. DEFINE k == TraceOf(s).nextTurn - 1
            turns == StartedTurns(s)
<1>1. /\ Fits(TraceOf(s), RepairOf(s))
      /\ Remembers(s, TraceOf(s), RepairOf(s))
  BY GoodFits
<1>2. k \in Nat /\ TraceOf(s).nextTurn = k + 1
  BY <1>1 DEF Fits, Traces
<1>3. turns = 1..k
  BY <1>1 DEF Remembers
<1>4. ResumedTurn(s) = IF turns = {} THEN 0
                       ELSE CHOOSE t \in turns : \A u \in turns : u <= t
  BY DEF ResumedTurn, StartedTurns
<1>. HIDE DEF k, turns
<1>5. ResumedTurn(s) = k
  <2>1. CASE k = 0
    BY <1>3, <1>4, <2>1
  <2>2. CASE k # 0
    <3>1. k \in turns /\ \A u \in turns : u <= k
      BY <1>2, <1>3, <2>2
    <3>2. PICK t \in turns : /\ \A u \in turns : u <= t
                             /\ ResumedTurn(s) = t
      BY <1>4, <3>1
    <3>. QED
      BY <1>2, <1>3, <3>1, <3>2
  <2>. QED
    BY <2>1, <2>2
<1>. QED
  BY <1>2, <1>5 DEF Closed

LEMMA RepairCloses ==
    ASSUME NEW s, GoodLog(s)
    PROVE  LET z == s \o InterruptedTurnClosers(s)
           IN  GoodLog(z) /\ TraceOf(z).openTurn = 0
<1>. DEFINE sc == RepairOf(s)
            tr == TraceOf(s)
            t == sc.turn
            p == sc.step
            code == IF 1 \in sc.started THEN "TOOL_OUTCOME_UNKNOWN"
                                        ELSE "TOOL_NOT_STARTED"
            result == ToolResult(t, p, 1, code)
            over == StepEnd(t, p)
            last == TurnEnd(t, "interrupted")
            Answers(calls) == [i \in 1..Len(calls) |->
                ToolResult(t, p, calls[i],
                           IF calls[i] \in sc.started
                           THEN "TOOL_OUTCOME_UNKNOWN"
                           ELSE "TOOL_NOT_STARTED")]
<1>1. /\ s \in Logs /\ Fits(tr, sc)
  BY GoodFits
<1>2. /\ sc.calls \in {<<>>, << 1 >>} /\ t \in Nat /\ p \in Nat
      /\ tr.openTurn = t /\ tr.openStep = p
      /\ tr.nextTurn >= 1 /\ tr.nextStep >= 1
      /\ tr.nextTurn \in Nat /\ tr.nextStep \in Nat
      /\ t \in {0, tr.nextTurn} /\ p \in {0, tr.nextStep}
      /\ p = 0 => sc.calls = <<>>
  BY <1>1 DEF Fits, Traces, Scans
<1>3. result \in LogEvents /\ over \in LogEvents /\ last \in LogEvents
  <2>1. result \in LogEvents
    BY <1>2 DEF ToolResult, LogEvents, Codes
  <2>2. over \in LogEvents
    BY <1>2 DEF StepEnd, LogEvents
  <2>3. last \in LogEvents
    BY <1>2 DEF TurnEnd, LogEvents, Reasons
  <2>. QED
    BY <2>1, <2>2, <2>3
<1>4. InterruptedTurnClosers(s) =
         IF t = 0 THEN <<>>
         ELSE Answers(sc.calls)
                 \o (IF p = 0 THEN <<>> ELSE <<over>>) \o <<last>>
  BY Zenon DEF InterruptedTurnClosers, RepairOf
<1>5. Answers(<<>>) = <<>> /\ Answers(<< 1 >>) = <<result>>
  <2>1. Answers(<<>>) = <<>>
    OBVIOUS
  <2>2. Answers(<< 1 >>) = <<result>>
    <3>1. Len(<< 1 >>) = 1 /\ << 1 >>[1] = 1
      OBVIOUS
    <3>2. Answers(<< 1 >>) = [i \in 1..1 |-> result]
      BY <3>1
    <3>. HIDE DEF result
    <3>3. [i \in 1..1 |-> result] = <<result>>
      OBVIOUS
    <3>. QED
      BY <3>2, <3>3 DEF result
  <2>. QED
    BY <2>1, <2>2
<1>6. ASSUME NEW x, NEW m, GoodLog(x), InTurn(x, t, m)
      PROVE  /\ GoodLog(Append(x, last))
             /\ TraceOf(Append(x, last)).openTurn = 0
  <2>1. "interrupted" \in Reasons
    BY DEF Reasons
  <2>. QED
    BY <1>6, <2>1, TurnEndKeeps DEF Closed
<1>7. ASSUME NEW x, GoodLog(x), Open(x, t, p)
      PROVE  /\ GoodLog(Append(Append(x, over), last))
             /\ TraceOf(Append(Append(x, over), last)).openTurn = 0
  <2>1. GoodLog(Append(x, over)) /\ InTurn(Append(x, over), t, p)
    BY <1>7, StepEndKeeps
  <2>. QED
    BY <1>6, <2>1
<1>. HIDE DEF result, over, last, Answers
<1>8. CASE t = 0
  <2>1. s \o <<>> = s
    BY <1>1 DEF Logs
  <2>. QED
    BY <1>2, <1>4, <1>8, <2>1
<1>9. CASE t # 0 /\ p = 0
  <2>1. InterruptedTurnClosers(s) = <<>> \o <<>> \o <<last>>
    BY <1>2, <1>4, <1>5, <1>9
  <2>2. s \o InterruptedTurnClosers(s) = Append(s, last)
    BY <1>1, <1>3, <2>1 DEF Logs
  <2>3. InTurn(s, t, tr.nextStep - 1)
    BY <1>2, <1>9 DEF InTurn
  <2>. QED
    BY <1>6, <2>2, <2>3
<1>10. CASE t # 0 /\ p # 0 /\ sc.calls = <<>>
  <2>1. InterruptedTurnClosers(s) = <<>> \o <<over>> \o <<last>>
    BY <1>4, <1>5, <1>10
  <2>2. s \o InterruptedTurnClosers(s) = Append(Append(s, over), last)
    <3>1. <<>> \o <<over>> \o <<last>> = <<over>> \o <<last>>
      BY <1>3
    <3>2. InterruptedTurnClosers(s) = <<over>> \o <<last>>
      BY <2>1, <3>1
    <3>3. s \o (<<over>> \o <<last>>) = Append(Append(s, over), last)
      BY <1>1, <1>3, Appends
    <3>. QED
      BY <3>2, <3>3, Zenon
  <2>3. Open(s, t, p)
    BY <1>2, <1>10 DEF Open
  <2>. QED
    BY <1>7, <2>2, <2>3
<1>11. CASE t # 0 /\ p # 0 /\ sc.calls = << 1 >>
  <2>1. InterruptedTurnClosers(s) = <<result>> \o <<over>> \o <<last>>
    BY <1>4, <1>5, <1>11
  <2>2. s \o InterruptedTurnClosers(s)
           = Append(Append(Append(s, result), over), last)
    <3>. DEFINE r == <<result>>
                o == <<over>>
                l == <<last>>
                q == Append(s, result)
    <3>1. r \in Seq(LogEvents) /\ o \in Seq(LogEvents) /\ l \in Seq(LogEvents)
      BY <1>3
    <3>2. s \o r = q /\ q \in Logs
      BY <1>1, <1>3, Appends
    <3>3. q \o (o \o l) = Append(Append(q, over), last)
      BY <1>3, <3>2, Appends
    <3>. HIDE DEF r, o, l, q
    <3>4. o \o l \in Seq(LogEvents)
      BY <3>1
    <3>5. (r \o o) \o l = r \o (o \o l)
      BY <3>1, Associates
    <3>6. (s \o r) \o (o \o l) = s \o (r \o (o \o l))
      <4>1. s \in Seq(LogEvents)
        BY <1>1 DEF Logs
      <4>. QED
        BY <4>1, <3>1, <3>4, Associates
    <3>. QED
      BY <2>1, <3>2, <3>3, <3>5, <3>6, Zenon DEF r, o, l, q
  <2>3. Open(s, t, p)
    BY <1>2, <1>11 DEF Open
  <2>4. GoodLog(Append(s, result)) /\ Open(Append(s, result), t, p)
    <3>1. code \in Codes /\ code # "none"
            /\ (code = "TOOL_OUTCOME_UNKNOWN" <=> 1 \in sc.started)
      BY DEF Codes
    <3>. HIDE DEF code
    <3>. QED
      BY <1>11, <2>3, <3>1, ResultKeeps DEF result
  <2>. QED
    BY <1>7, <2>2, <2>4
<1>. QED
  BY <1>2, <1>8, <1>9, <1>10, <1>11
-----------------------------------------------------------------------------
(* The callers of the agent write nothing but splices. *)

\* The place of the driver in its turn.
SamePlace == /\ driver'.at = driver.at
             /\ phase'.turn = phase.turn /\ phase'.step = phase.step
             /\ spent'.unended = spent.unended

LEMMA QuietKeeps ==
    ASSUME LogInv, Replays(log, log', inbox'), SamePlace
    PROVE  LogInv'
<1>1. GoodLog(log') /\ InboxOf(log') = inbox' /\ Stays(log, log')
  BY DEF Replays
<1>2. driver'.at = driver.at /\ phase'.turn = phase.turn
        /\ phase'.step = phase.step /\ spent'.unended = spent.unended
  BY DEF SamePlace
<1>3. \A t, u : Resting(log, t, u) => Resting(log', t, u)
  BY <1>1 DEF Stays, Resting
<1>. QED
  BY <1>1, <1>2, <1>3 DEF LogInv, Stays

LEMMA SameLog ==
    ASSUME LogInv, UNCHANGED <<log, inbox>>
    PROVE  Replays(log, log', inbox')
BY DEF LogInv, Replays, Stays

\* A cancel empties a list, or aborts; it moves no driver.
LEMMA CancelsOnEffect ==
    ASSUME NEW cause, NEW left \in SUBSET Targets, NEW below,
           CancelsOn(cause, left, below)
    PROVE  \/ /\ UNCHANGED <<log, inbox>>
              /\ phase' = CancelledPhase(cause, FALSE)
           \/ /\ phase' = phase
              /\ \E t \in Targets :
                    /\ log' = log \o EmptyingEvents(inbox, t, TRUE)
                    /\ inbox' = [inbox EXCEPT ![t] = <<>>]
<1>. DEFINE queued == {t \in left : inbox[t] # <<>>}
            t == IF "next-step" \in queued THEN "next-step" ELSE "next-turn"
<1>1. CASE queued = {}
  <2>. HIDE DEF t
  <2>. QED
    BY <1>1 DEF CancelsOn
<1>2. CASE queued # {}
  <2>1. /\ log' = log \o EmptyingEvents(inbox, t, TRUE)
        /\ inbox' = [inbox EXCEPT ![t] = <<>>] /\ phase' = phase
    BY <1>2, Zenon DEF CancelsOn
  <2>2. t \in Targets
    BY DEF Targets
  <2>. HIDE DEF t
  <2>. QED
    BY <2>1, <2>2
<1>. QED
  BY <1>1, <1>2

LEMMA CancelsOnWrites ==
    ASSUME DriverInv, LogInv, NEW cause \in Causes,
           NEW left \in SUBSET Targets, NEW below,
           CancelsOn(cause, left, below), UNCHANGED driver,
           spent'.unended = spent.unended
    PROVE  LogInv'
<1>1. phase \in Phases /\ GoodLog(log) /\ InboxOf(log) = inbox
  BY TypedParts DEF DriverInv, LogInv
<1>2. CASE UNCHANGED <<log, inbox>> /\ phase' = CancelledPhase(cause, FALSE)
  <2>1. SamePlace
    BY <1>1, <1>2, CancelledEffect DEF SamePlace
  <2>. QED
    BY <1>2, <2>1, SameLog, QuietKeeps
<1>3. ASSUME phase' = phase, NEW t \in Targets,
             log' = log \o EmptyingEvents(inbox, t, TRUE),
             inbox' = [inbox EXCEPT ![t] = <<>>]
      PROVE  LogInv'
  <2>1. Replays(log, log', inbox')
    BY <1>1, <1>3, ReplaysEmptying
  <2>. QED
    BY <1>3, <2>1, QuietKeeps DEF SamePlace
<1>. QED
  BY <1>2, <1>3, CancelsOnEffect

LEMMA ListenersWrite ==
    ASSUME DriverInv, LogInv, Listeners
    PROVE  LogInv'
<1>0. TypeOK
  BY DEF DriverInv
<1>. USE DEF Targets
<1>1. ASSUME NEW m \in Messages, NEW target \in Targets,
             NEW wakeup \in BOOLEAN, Send(m, target, wakeup)
      PROVE  LogInv'
  <2>. DEFINE resolved == IF wakeup /\ phase.kind # "idle" /\ Aborted
                          THEN "next-turn" ELSE target
  <2>1. /\ log' = log \o AppendEvents(inbox, resolved, m)
        /\ inbox' = Appended(inbox, resolved, m)
        /\ UNCHANGED <<phase, driver, spent>>
    BY <1>1, Zenon DEF Send
  <2>2. resolved \in Targets
    OBVIOUS
  <2>3. GoodLog(log) /\ InboxOf(log) = inbox
    BY DEF LogInv
  <2>. HIDE DEF resolved
  <2>4. Replays(log, log', inbox')
    BY <2>1, <2>2, <2>3, ReplaysAppend
  <2>. QED
    BY <2>1, <2>4, QuietKeeps DEF SamePlace
<1>2. ASSUME NEW m \in Messages, RemoveMessage(m)
      PROVE  LogInv'
  <2>1. /\ log' = log \o RespliceEvents(inbox, m, <<>>)
        /\ inbox' = Respliced(inbox, m, <<>>)
        /\ UNCHANGED <<phase, driver, spent>> /\ Pending(inbox, m)
    BY <1>2, Zenon DEF RemoveMessage
  <2>2. GoodLog(log) /\ InboxOf(log) = inbox /\ <<>> \in Seq(Messages)
    BY DEF LogInv
  <2>3. Replays(log, log', inbox')
    BY <2>1, <2>2, ReplaysResplice
  <2>. QED
    BY <2>1, <2>3, QuietKeeps DEF SamePlace
<1>3. ASSUME NEW m \in Messages, NEW new \in Messages, ReplaceMessage(m, new)
      PROVE  LogInv'
  <2>1. /\ log' = log \o RespliceEvents(inbox, m, <<new>>)
        /\ inbox' = Respliced(inbox, m, <<new>>)
        /\ UNCHANGED <<phase, driver, spent>> /\ Pending(inbox, m)
    BY <1>3, Zenon DEF ReplaceMessage
  <2>2. GoodLog(log) /\ InboxOf(log) = inbox /\ <<new>> \in Seq(Messages)
    BY DEF LogInv
  <2>3. Replays(log, log', inbox')
    BY <2>1, <2>2, ReplaysResplice
  <2>. QED
    BY <2>1, <2>3, QuietKeeps DEF SamePlace
<1>4. ASSUME NEW cause \in Causes, NEW keepInbox \in BOOLEAN,
             Cancel(cause, keepInbox)
      PROVE  LogInv'
  <2>1. UNCHANGED driver /\ spent'.unended = spent.unended
    BY <1>0, <1>4, TypedParts DEF Cancel, Spending
  <2>2. CASE keepInbox
    <3>1. UNCHANGED <<log, inbox>> /\ phase' = CancelledPhase(cause, TRUE)
      BY <1>4, <2>2 DEF Cancel
    <3>2. SamePlace
      BY <1>0, <2>1, <3>1, TypedParts, CancelledEffect DEF SamePlace
    <3>. QED
      BY <3>1, <3>2, SameLog, QuietKeeps
  <2>3. CASE ~keepInbox
    <3>1. CancelsOn(cause, Targets, frames)
      BY <1>4, <2>3 DEF Cancel
    <3>. QED
      BY <2>1, <3>1, CancelsOnWrites
  <2>. QED
    BY <2>2, <2>3
<1>5. CASE StartMaintenance
  <2>1. /\ phase.kind = "idle" /\ UNCHANGED <<log, inbox, driver>>
        /\ phase' = Maintenance(phase.turn)
        /\ spent' = [spent EXCEPT !.maintenance = @ + 1]
    BY <1>5 DEF StartMaintenance
  <2>2. phase'.turn = phase.turn /\ spent'.unended = spent.unended
    BY <1>0, <2>1, TypedParts DEF Maintenance, Idle, Spending
  <2>3. driver.at = "off" /\ driver'.at = "off"
    BY <1>0, <2>1 DEF DriverInv, PhaseInv, TypeOK
  <2>. QED
    BY <2>1, <2>2, <2>3 DEF LogInv
<1>6. \/ \E m \in Messages :
            \/ \E target \in Targets, wakeup \in BOOLEAN :
                  Send(m, target, wakeup)
            \/ RemoveMessage(m)
            \/ \E new \in Messages : ReplaceMessage(m, new)
      \/ \E cause \in Causes, keepInbox \in BOOLEAN : Cancel(cause, keepInbox)
      \/ StartMaintenance
  BY Zenon DEF Listeners
<1>. QED
  BY <1>1, <1>2, <1>3, <1>4, <1>5, <1>6

\* A wake, a replay of one and the end of maintenance may start a driver
\* where none was; a cancel that goes on empties the next list.
LEMMA WakesWrite ==
    ASSUME DriverInv, LogInv,
           Wake \/ Replay \/ EndMaintenance \/ CancelGoesOn
    PROVE  LogInv'
<1>0. TypeOK /\ PhaseInv
  BY DEF DriverInv
<1>1. CASE CancelGoesOn
  <2>. DEFINE f == frames[Len(frames)]
  <2>1. f \in Frames /\ f.call = "cancel"
    BY <1>0, <1>1, TypedParts, FramePopped DEF CancelGoesOn
  <2>2. f.cause \in Causes /\ f.left \in SUBSET Targets
    BY <2>1 DEF Frames, Sends, Cancels
  <2>3. CancelsOn(f.cause, f.left, Outer) /\ UNCHANGED <<driver, spent>>
    BY <1>1 DEF CancelGoesOn
  <2>. HIDE DEF f
  <2>. QED
    BY <2>2, <2>3, CancelsOnWrites
<1>. SUFFICES ASSUME Wake \/ Replay \/ EndMaintenance
              PROVE  LogInv'
  BY <1>1
<1>7. UNCHANGED <<log, inbox, spent>>
  BY Zenon DEF Wake, Replay, EndMaintenance
<1>2. ASSUME phase.kind # "running", phase'.turn = phase.turn,
             \/ driver' = driver
             \/ driver'.at = "starting" /\ phase'.step = 0
      PROVE  LogInv'
  <2>1. driver.at = "off"
    BY <1>0, <1>2 DEF PhaseInv, TypeOK
  <2>. QED
    BY <1>2, <1>7, <2>1 DEF LogInv
<1>3. ASSUME NEW after \in BOOLEAN, WakeDriver(after)
      PROVE  LogInv'
  <2>1. CASE phase.kind = "idle"
    <3>1. /\ phase' = Running(phase.turn)
          /\ driver' = [DriverAt("starting") EXCEPT !.depth = Len(frames')]
      BY <1>3, <2>1 DEF WakeDriver
    <3>2. /\ phase'.turn = phase.turn /\ phase'.step = 0
          /\ driver'.at = "starting"
      BY <3>1 DEF Running, Idle, DriverAt, NoDriver
    <3>. QED
      BY <1>2, <2>1, <3>2
  <2>2. CASE phase.kind # "idle"
    <3>1. /\ phase' = [phase EXCEPT !.wakeRequested = @ \/ Latches(after)]
          /\ driver' = driver
      BY <1>3, <2>2 DEF WakeDriver
    <3>2. SamePlace
      BY <1>0, <1>7, <3>1 DEF SamePlace, TypeOK
    <3>. QED
      BY <1>7, <3>2, SameLog, QuietKeeps
  <2>. QED
    BY <2>1, <2>2
<1>4. CASE Wake
  <2>1. WakeDriver(frames[Len(frames)].wake)
    BY <1>4, Zenon DEF Wake
  <2>2. frames[Len(frames)].wake \in BOOLEAN
    <3>1. frames[Len(frames)] \in Frames /\ frames[Len(frames)].call = "send"
      BY <1>0, <1>4, TypedParts, FramePopped DEF Wake
    <3>. QED
      BY <3>1 DEF Frames, Sends, Cancels
  <2>. QED
    BY <1>3, <2>1, <2>2
<1>5. CASE Replay
  <2>1. WakeDriver(FALSE) \/ UNCHANGED <<phase, driver>>
    BY <1>5, Zenon DEF Replay
  <2>2. CASE UNCHANGED <<phase, driver>>
    BY <1>7, <2>2, SameLog, QuietKeeps DEF SamePlace
  <2>. QED
    BY <1>3, <2>1, <2>2
<1>6. CASE EndMaintenance
  <2>1. /\ phase.kind = "maintenance"
        /\ \/ phase' = Running(phase.turn) /\ driver' = DriverAt("starting")
           \/ phase' = Idle(phase.turn) /\ driver' = driver
    BY <1>6 DEF EndMaintenance
  <2>2. /\ phase'.turn = phase.turn /\ phase'.step = 0
        /\ driver' = driver \/ driver'.at = "starting"
    BY <2>1 DEF Running, Idle, DriverAt, NoDriver
  <2>. QED
    BY <1>2, <2>1, <2>2
<1>. QED
  BY <1>4, <1>5, <1>6
-----------------------------------------------------------------------------
(* The driver writes turns and steps. *)

LEMMA AfterTurnEnd ==
    ASSUME NEW s, GoodLog(s), NEW p, InTurn(s, phase.turn, p),
           NEW reason \in Reasons
    PROVE  LET z == s \o <<TurnEnd(phase.turn, reason)>>
           IN  GoodLog(z) /\ InboxOf(z) = InboxOf(s) /\ Closed(z, phase.turn)
<1>. DEFINE e == TurnEnd(phase.turn, reason)
            z == Append(s, e)
<1>1. GoodLog(z) /\ InboxOf(z) = InboxOf(s) /\ Closed(z, phase.turn)
  BY TurnEndKeeps
<1>2. phase.turn \in Nat
  <2>1. Fits(TraceOf(s), RepairOf(s))
    BY GoodFits
  <2>. QED
    BY <2>1 DEF Fits, Traces, InTurn
<1>3. e \in LogEvents
  BY <1>2 DEF TurnEnd, LogEvents
<1>4. s \o <<e>> = z
  BY <1>3, OneEvent
<1>. QED
  BY <1>1, <1>4

\* Leaving a turn: the driver stops or goes to the next one.
LEMMA LeavesTurn ==
    ASSUME NEW s, GoodLog(s), NEW p, InTurn(s, phase.turn, p),
           NEW reason \in Reasons,
           log' = s \o <<TurnEnd(phase.turn, reason)>>,
           inbox' = InboxOf(s), phase'.turn = phase.turn,
           spent'.unended = 0,
           \/ driver'.at = "returning"
           \/ driver'.at = "top" /\ phase'.step = 0
    PROVE  LogInv'
<1>1. GoodLog(log') /\ InboxOf(log') = inbox' /\ Closed(log', phase.turn)
  BY AfterTurnEnd
<1>. QED
  BY <1>1 DEF LogInv, Resting

\* The end of the turn is refused: the driver stops and the turn stays open.
LEMMA LeavesItOpen ==
    ASSUME GoodLog(log'), InboxOf(log') = inbox',
           TraceOf(log').openTurn = phase.turn, phase.turn >= 1,
           phase.turn \in Nat, spent'.unended = phase.turn,
           driver'.at = "returning"
    PROVE  LogInv'
BY DEF LogInv, Resting, Unclosed

LEMMA RefusesEffect ==
    ASSUME DriverInv, NEW unended, Refuses(unended)
    PROVE  spent'.unended = unended
BY TypedParts DEF DriverInv, Refuses, Spending

LEMMA EndTurnWrites ==
    ASSUME DriverInv, LogInv, driver.at \in {"preStep", "step", "stopping"},
           NEW p, NEW events, NEW reason \in Reasons,
           GoodLog(log \o events), InTurn(log \o events, phase.turn, p),
           EndTurn(reason, events), inbox' = InboxOf(log \o events)
    PROVE  LogInv'
<1>1. driver'.at = "returning" /\ phase' = phase
  BY DEF EndTurn, Stop, DriverAt, NoDriver
<1>2. phase.turn \in Nat /\ spent.unended = 0
  BY DEF DriverInv, TypeOK, LogInv
<1>3. CASE /\ log' = log \o events \o <<TurnEnd(phase.turn, reason)>>
           /\ UNCHANGED spent
  BY <1>1, <1>2, <1>3, LeavesTurn
<1>4. CASE log' = log \o events /\ Refuses(phase.turn)
  <2>1. spent'.unended = phase.turn
    BY <1>4, RefusesEffect
  <2>2. TraceOf(log').openTurn = phase.turn /\ phase.turn >= 1
    BY <1>4 DEF InTurn
  <2>. QED
    BY <1>1, <1>2, <1>4, <2>1, <2>2, LeavesItOpen
<1>. QED
  BY <1>3, <1>4, Zenon DEF EndTurn

LEMMA CloseTurnWrites ==
    ASSUME DriverInv, LogInv, driver.at \in {"preStep", "stopping"}, CloseTurn
    PROVE  LogInv'
<1>1. /\ GoodLog(log) /\ InboxOf(log) = inbox /\ inbox' = inbox
      /\ InTurn(log, phase.turn, phase.step) /\ spent.unended = 0
  BY DEF LogInv, CloseTurn
<1>2. driver.ends \in Reasons /\ phase.turn \in Nat
  BY DEF DriverInv, TypeOK, Reasons
<1>3. CASE /\ log' = Append(log, TurnEnd(phase.turn, driver.ends))
           /\ spent' = spent
           /\ \/ driver' = DriverAt("top") /\ phase' = Running(phase.turn)
              \/ /\ driver' = [DriverAt("returning") EXCEPT
                                   !.ends = driver.ends]
                 /\ phase' = phase
  <2>1. /\ phase'.turn = phase.turn /\ spent'.unended = 0
        /\ \/ driver'.at = "returning"
           \/ driver'.at = "top" /\ phase'.step = 0
    BY <1>1, <1>3 DEF DriverAt, NoDriver, Running, Idle
  <2>2. log' = log \o <<TurnEnd(phase.turn, driver.ends)>>
    <3>1. TurnEnd(phase.turn, driver.ends) \in LogEvents
      BY <1>2 DEF TurnEnd, LogEvents
    <3>. QED
      BY <1>1, <1>3, <3>1, OneEvent
  <2>. QED
    BY <1>1, <1>2, <2>1, <2>2, LeavesTurn
<1>4. CASE Refuses(phase.turn) /\ Stop /\ UNCHANGED <<log, phase>>
  <2>1. spent'.unended = phase.turn /\ driver'.at = "returning"
    BY <1>4, RefusesEffect DEF Stop, DriverAt, NoDriver
  <2>2. TraceOf(log').openTurn = phase.turn /\ phase.turn >= 1
    BY <1>1, <1>4 DEF InTurn
  <2>. QED
    BY <1>1, <1>2, <1>4, <2>1, <2>2, LeavesItOpen
<1>. QED
  BY <1>3, <1>4, Zenon DEF CloseTurn

\* A claim at a step boundary of the open turn.
LEMMA ClaimWrites ==
    ASSUME NEW target \in Targets, NEW events, NEW ends, NEW in,
           GoodLog(log \o events), InboxOf(log \o events) = in,
           InTurn(log \o events, phase'.turn, phase'.step),
           ClaimAt(target, events, ends, in), spent'.unended = 0
    PROVE  LogInv'
<1>. DEFINE s == log \o events
<1>1. /\ log' = s \o ClaimEvents(in, target)
      /\ inbox' = AfterClaim(in, target) /\ driver'.at = "preStep"
  BY DEF ClaimAt
<1>. HIDE DEF s
<1>2. Replays(s, log', inbox')
  BY <1>1, ReplaysClaim DEF s
<1>3. GoodLog(log') /\ InboxOf(log') = inbox'
        /\ InTurn(log', phase'.turn, phase'.step)
  BY <1>2 DEF Replays, Stays, s
<1>. QED
  BY <1>1, <1>3 DEF LogInv

LEMMA BeginTurnWrites ==
    ASSUME DriverInv, LogInv, BeginTurn
    PROVE  LogInv'
<1>. DEFINE e == TurnStart(phase.turn + 1)
<1>1. /\ driver.at \in {"starting", "top"}
      /\ phase' = [phase EXCEPT !.turn = @ + 1]
      /\ ClaimAt("next-turn", <<e>>, "none", inbox)
      /\ spent.unended = 0 /\ spent' = spent
  BY DEF BeginTurn, AtBoundary
<1>2. phase.turn \in Nat /\ phase'.turn = phase.turn + 1
        /\ phase'.step = phase.step
  BY <1>1 DEF DriverInv, TypeOK
<1>3. /\ GoodLog(log) /\ InboxOf(log) = inbox
      /\ Closed(log, phase.turn) /\ phase.step = 0
  BY <1>1 DEF LogInv, Resting
<1>4. e \in LogEvents
  BY <1>2 DEF TurnStart, LogEvents
<1>5. log \o <<e>> = Append(log, e)
  BY <1>3, <1>4, OneEvent
<1>6. /\ GoodLog(log \o <<e>>) /\ InboxOf(log \o <<e>>) = inbox
      /\ InTurn(log \o <<e>>, phase'.turn, phase'.step)
  BY <1>2, <1>3, <1>5, TurnStartKeeps
<1>. HIDE DEF e
<1>. QED
  BY <1>1, <1>6, ClaimWrites DEF Targets

\* The driver stops at a boundary; no turn has opened.
LEMMA TurnStartRefusedWrites ==
    ASSUME DriverInv, LogInv, SkipTurn \/ TurnStartRefused
    PROVE  LogInv'
<1>1. /\ driver.at \in {"starting", "top"} /\ driver'.at = "returning"
      /\ UNCHANGED <<log, inbox, phase>>
  BY DEF SkipTurn, TurnStartRefused, AtBoundary, Stop, DriverAt, NoDriver
<1>2. spent'.unended = spent.unended
  BY RefusesEffect DEF SkipTurn, TurnStartRefused
<1>. QED
  BY <1>1, <1>2 DEF LogInv

\* A turn that closes before it claims.
LEMMA TurnStartAbortedWrites ==
    ASSUME DriverInv, LogInv, NEW cause \in Causes, NEW keepInbox \in BOOLEAN,
           TurnStartAborted(cause, keepInbox)
    PROVE  /\ LogInv'
           /\ LET e == TurnStart(phase.turn + 1)
                  f == TurnEnd(phase.turn + 1, "aborted")
              IN  /\ log' = Append(Append(log, e), f)
                  /\ GoodLog(Append(log, e))
                  /\ e \in LogEvents /\ f \in LogEvents
<1>. DEFINE t == phase.turn + 1
            e == TurnStart(t)
            f == TurnEnd(t, "aborted")
            x == Append(log, e)
            y == Append(x, f)
<1>1. /\ driver.at \in {"starting", "top"} /\ driver'.at = "returning"
      /\ spent.unended = 0 /\ spent' = [spent EXCEPT !.cancels = @ + 1]
      /\ phase' = [CancelledPhase(cause, keepInbox) EXCEPT !.turn = @ + 1]
      /\ log' = log \o <<e, f>> /\ inbox' = inbox
  BY DEF TurnStartAborted, AtBoundary, Stop, DriverAt, NoDriver
<1>2. phase \in Phases /\ spent \in Spending /\ phase.turn \in Nat
  BY TypedParts DEF DriverInv, Phases
<1>3. phase'.turn = t /\ spent'.unended = 0
  <2>1. /\ CancelledPhase(cause, keepInbox) \in Phases
        /\ CancelledPhase(cause, keepInbox).turn = phase.turn
    BY <1>2, CancelledEffect
  <2>. QED
    BY <1>1, <1>2, <2>1 DEF Phases, Spending
<1>4. GoodLog(log) /\ InboxOf(log) = inbox /\ Closed(log, phase.turn)
  BY <1>1 DEF LogInv, Resting
<1>5. e \in LogEvents /\ f \in LogEvents /\ log \in Logs
  <2>1. e \in LogEvents
    BY <1>2 DEF TurnStart, LogEvents
  <2>2. f \in LogEvents
    BY <1>2 DEF TurnEnd, LogEvents, Reasons
  <2>. QED
    BY <1>4, <2>1, <2>2, GoodFits
<1>6. log' = y
  <2>. HIDE DEF e, f
  <2>. QED
    BY <1>1, <1>5, Appends
<1>7. GoodLog(x) /\ InboxOf(x) = inbox /\ InTurn(x, t, 0)
  BY <1>2, <1>4, TurnStartKeeps
<1>. HIDE DEF x
<1>8. GoodLog(y) /\ InboxOf(y) = inbox /\ Closed(y, t)
  <2>1. "aborted" \in Reasons
    BY DEF Reasons
  <2>. QED
    BY <1>7, <2>1, TurnEndKeeps
<1>. HIDE DEF y, e, f
<1>9. LogInv'
  BY <1>1, <1>3, <1>6, <1>8 DEF LogInv, Resting
<1>. QED
  BY <1>5, <1>6, <1>7, <1>9 DEF e, f, x, y

LEMMA ReasonsOfThrow == InterruptedReason \in Reasons
BY DEF InterruptedReason, Reasons

LEMMA PreStepWrites ==
    ASSUME DriverInv, LogInv, driver.at = "preStep",
           \/ PreStepThrows \/ PreStepRejects
           \/ \E drop, context \in BOOLEAN :
                 PreStepFindsNothing(drop, context) \/ EmptyTurn(drop, context)
    PROVE  LogInv'
<1>1. /\ GoodLog(log) /\ InboxOf(log) = inbox
      /\ InTurn(log, phase.turn, phase.step)
  BY DEF LogInv
<1>2. log \o <<>> = log
  BY <1>1 DEF GoodLog, Logs
<1>3. ASSUME NEW reason \in Reasons, EndTurn(reason, <<>>), inbox' = inbox
      PROVE  LogInv'
  BY <1>1, <1>2, <1>3, EndTurnWrites, Zenon
<1>4. CASE PreStepThrows
  BY <1>3, <1>4, ReasonsOfThrow DEF PreStepThrows
<1>5. CASE PreStepRejects
  BY <1>3, <1>5 DEF PreStepRejects, Reasons
<1>6. ASSUME NEW drop, NEW context, EmptyTurn(drop, context)
      PROVE  LogInv'
  BY <1>3, <1>6 DEF EmptyTurn, Reasons, Ends
<1>7. ASSUME NEW drop, NEW context, PreStepFindsNothing(drop, context)
      PROVE  LogInv'
  BY <1>7, CloseTurnWrites DEF PreStepFindsNothing
<1>. QED
  BY <1>4, <1>5, <1>6, <1>7

LEMMA EnterStepWrites ==
    ASSUME DriverInv, LogInv, NEW drop, NEW context, EnterStep(drop, context)
    PROVE  LogInv'
<1>. DEFINE batch == Entered(drop)
            texts == [i \in 1..Len(batch) |-> UserMessage(batch[i])]
            e == StepStart(phase.turn, phase.step + 1)
            s == log \o <<e>>
<1>1. /\ driver.at = "preStep" /\ log' = s \o texts /\ inbox' = inbox
      /\ phase' = [phase EXCEPT !.step = @ + 1]
      /\ driver' = [driver EXCEPT !.at = "step", !.claimed = <<>>]
      /\ spent' = spent
  BY DEF EnterStep
<1>2. TypeOK /\ phase.turn \in Nat /\ phase.step \in Nat
  BY DEF DriverInv, TypeOK
<1>3. /\ driver'.at = "step" /\ phase'.turn = phase.turn
      /\ phase'.step = phase.step + 1 /\ spent'.unended = 0
  BY <1>1, <1>2 DEF TypeOK, LogInv
<1>4. /\ GoodLog(log) /\ InboxOf(log) = inbox
      /\ InTurn(log, phase.turn, phase.step)
  BY <1>1 DEF LogInv
<1>5. e \in LogEvents
  BY <1>2 DEF StepStart, LogEvents
<1>6. s = Append(log, e)
  BY <1>4, <1>5, OneEvent
<1>7. /\ GoodLog(s) /\ InboxOf(s) = inbox
      /\ InStep(s, phase'.turn, phase'.step)
  <2>1. /\ GoodLog(Append(log, e)) /\ InboxOf(Append(log, e)) = inbox
        /\ InStep(Append(log, e), phase.turn, phase.step + 1)
    BY <1>4, StepStartKeeps
  <2>. HIDE DEF s, e
  <2>. QED
    BY <1>3, <1>6, <2>1
<1>8. texts \in Seq(Texts)
  <2>1. batch \in Seq(Messages)
    BY <1>2 DEF TypeOK, Entered
  <2>. HIDE DEF batch
  <2>2. Len(batch) \in Nat
    BY <2>1
  <2>3. \A i \in 1..Len(batch) : UserMessage(batch[i]) \in Texts
    BY <2>1 DEF UserMessage, Texts
  <2>. QED
    BY <2>2, <2>3
<1>. HIDE DEF texts, s
<1>9. Replays(s, log', inbox')
  BY <1>1, <1>7, <1>8, TextsKeep
<1>10. GoodLog(log') /\ InboxOf(log') = inbox'
         /\ InStep(log', phase'.turn, phase'.step)
  BY <1>7, <1>9 DEF Replays, Stays
<1>. QED
  BY <1>3, <1>10 DEF LogInv

\* The splice of a tool's context, and the events of its step.
LEMMA StepContext ==
    ASSUME DriverInv, LogInv, driver.at = "step", NEW context \in OneOf(unsent)
    PROVE  LET s == log \o ContextEvents(context)
           IN  /\ GoodLog(s) /\ InboxOf(s) = WithContext(context)
               /\ InStep(s, phase.turn, phase.step)
               /\ ContextEvents(context) \in Logs
<1>. DEFINE one == ContextEvents(context)
            s == log \o one
            m == CHOOSE x \in context : TRUE
<1>1. /\ GoodLog(log) /\ InboxOf(log) = inbox
      /\ InStep(log, phase.turn, phase.step)
  BY DEF LogInv
<1>2. unsent \subseteq Messages /\ inbox \in Inboxes
        /\ phase.turn \in Nat /\ phase.step \in Nat
  BY DEF DriverInv, TypeOK, Inboxes
<1>3. Replays(log, s, WithContext(context)) /\ one \in Logs
  <2>1. CASE context = {}
    <3>1. <<>> \in Logs
      BY DEF Logs
    <3>. QED
      BY <1>1, <2>1, <3>1, ReplaysNothing DEF ContextEvents, WithContext
  <2>2. CASE context # {}
    <3>1. m \in Messages
      BY <1>2, <2>2 DEF OneOf
    <3>. HIDE DEF m
    <3>2. Replays(log, log \o AppendEvents(inbox, "next-step", m),
                  Appended(inbox, "next-step", m))
      BY <1>1, <3>1, ReplaysAppend DEF Targets
    <3>3. AppendEvents(inbox, "next-step", m) \in Logs
      <4>1. Len(inbox["next-step"]) \in Nat /\ <<m>> \in Seq(Messages)
              /\ 0 \in Nat
        BY <1>2, <3>1 DEF Inboxes, Targets
      <4>. DEFINE e == Spliced("next-step", Len(inbox["next-step"]), 0, <<m>>,
                               FALSE)
      <4>2. e \in LogEvents
        BY <4>1 DEF Spliced, LogEvents, Splices, Targets
      <4>3. AppendEvents(inbox, "next-step", m) = <<e>>
        BY DEF AppendEvents
      <4>. HIDE DEF e
      <4>4. <<e>> \in Seq(LogEvents)
        BY <4>2
      <4>. QED
        BY <4>3, <4>4, Zenon DEF Logs
    <3>4. /\ WithContext(context) = Appended(inbox, "next-step", m)
          /\ one = AppendEvents(inbox, "next-step", m)
      BY <2>2 DEF WithContext, ContextEvents, m
    <3>. HIDE DEF one
    <3>. QED
      BY <3>2, <3>3, <3>4
  <2>. QED
    BY <2>1, <2>2
<1>. HIDE DEF one
<1>5. /\ GoodLog(s) /\ InboxOf(s) = WithContext(context)
      /\ InStep(s, phase.turn, phase.step)
  BY <1>1, <1>3 DEF Replays, Stays
<1>. QED
  BY <1>3, <1>5 DEF one

LEMMA StepBlock ==
    ASSUME DriverInv, LogInv, driver.at = "step",
           NEW outcome \in Outcomes, NEW context \in OneOf(unsent)
    PROVE  LET z == log \o (ContextEvents(context) \o StepEvents(outcome))
           IN  /\ GoodLog(z) /\ InboxOf(z) = WithContext(context)
               /\ InTurn(z, phase.turn, phase.step)
<1>. DEFINE one == ContextEvents(context)
            two == StepEvents(outcome)
            s == log \o one
<1>1. /\ GoodLog(s) /\ InboxOf(s) = WithContext(context)
      /\ InStep(s, phase.turn, phase.step) /\ one \in Logs
  BY StepContext
<1>2. two \in Logs /\ log \in Seq(LogEvents)
  <2>. DEFINE body == StepBody(outcome)
  <2>1. phase.turn \in Nat /\ phase.step \in Nat
    BY DEF DriverInv, TypeOK
  <2>2. body \in Logs /\ StepOver \in Logs
    BY <2>1, BodyTyped
  <2>3. two = body \o StepOver
    BY DEF StepEvents
  <2>. HIDE DEF body, two
  <2>4. body \o StepOver \in Logs
    BY <2>2 DEF Logs
  <2>. QED
    BY <2>3, <2>4 DEF LogInv, GoodLog, Logs
<1>. HIDE DEF one, two
<1>3. /\ GoodLog(s \o two) /\ InboxOf(s \o two) = WithContext(context)
      /\ InTurn(s \o two, phase.turn, phase.step)
  BY <1>1, StepWrites DEF two
<1>4. s \o two = log \o (one \o two)
  BY <1>1, <1>2, ConcatAssociative DEF Logs
<1>. QED
  BY <1>3, <1>4 DEF one, two

LEMMA StepEndsWrite ==
    ASSUME DriverInv, LogInv, driver.at = "step",
           NEW outcome \in Outcomes, NEW context \in OneOf(unsent),
           \/ StepThrows(outcome, context)
           \/ StepEndRefused(outcome, context)
           \/ StepReturns(outcome, context)
    PROVE  LogInv'
<1>. DEFINE events == ContextEvents(context) \o StepEvents(outcome)
            s == log \o events
            in == WithContext(context)
            ends == EndsAfter(outcome)
<1>1. /\ GoodLog(s) /\ InboxOf(s) = in /\ InTurn(s, phase.turn, phase.step)
  BY StepBlock
<1>2. spent.unended = 0
  BY DEF LogInv
<1>3. CASE StepThrows(outcome, context)
  <2>1. EndTurn(InterruptedReason, events) /\ inbox' = in
    BY <1>3 DEF StepThrows, ThrowsWith
  <2>. HIDE DEF events, in
  <2>. QED
    BY <1>1, <2>1, ReasonsOfThrow, EndTurnWrites
<1>4. CASE StepReturns(outcome, context)
  <2>1. /\ phase' = phase /\ spent'.unended = 0
        /\ \/ /\ log' = s /\ inbox' = in
              /\ driver' = [driver EXCEPT !.at = "stopping", !.ends = ends]
           \/ ClaimAt("next-step", events, ends, in)
    BY <1>2, <1>4 DEF StepReturns
  <2>2. CASE ClaimAt("next-step", events, ends, in)
    <3>. HIDE DEF events, in, ends
    <3>. QED
      BY <1>1, <2>1, <2>2, ClaimWrites DEF Targets
  <2>3. CASE /\ log' = s /\ inbox' = in
             /\ driver' = [driver EXCEPT !.at = "stopping", !.ends = ends]
    <3>1. driver'.at = "stopping"
      BY <2>3 DEF DriverInv, TypeOK
    <3>. HIDE DEF s, in, ends
    <3>. QED
      BY <1>1, <2>1, <2>3, <3>1 DEF LogInv
  <2>. QED
    BY <2>1, <2>2, <2>3
<1>5. CASE StepEndRefused(outcome, context)
  <2>. DEFINE q == log \o ContextEvents(context)
  <2>1. /\ log' = q \o StepBody(outcome) /\ inbox' = in
        /\ Refuses(phase.turn) /\ driver'.at = "returning"
    BY <1>5 DEF StepEndRefused, ThrowsWith, Stop, DriverAt, NoDriver
  <2>2. GoodLog(q) /\ InboxOf(q) = in /\ InStep(q, phase.turn, phase.step)
    BY StepContext
  <2>. HIDE DEF q, in
  <2>3. /\ GoodLog(log') /\ InboxOf(log') = inbox'
        /\ Open(log', phase.turn, phase.step)
    BY <2>1, <2>2, BodyWrites
  <2>4. /\ TraceOf(log').openTurn = phase.turn /\ phase.turn >= 1
        /\ phase.turn \in Nat
    BY <2>3 DEF Open, DriverInv, TypeOK
  <2>. QED
    BY <2>1, <2>3, <2>4, RefusesEffect, LeavesItOpen
<1>. QED
  BY <1>3, <1>4, <1>5

LEMMA StoppingWrites ==
    ASSUME DriverInv, LogInv, StoppingThrows \/ StoppingSettles
    PROVE  LogInv'
<1>1. driver.at = "stopping"
  BY DEF StoppingThrows, StoppingSettles
<1>2. /\ GoodLog(log) /\ InboxOf(log) = inbox
      /\ InTurn(log, phase.turn, phase.step)
  BY <1>1 DEF LogInv
<1>3. log \o <<>> = log
  BY <1>2 DEF GoodLog, Logs
<1>4. CASE StoppingThrows
  <2>1. EndTurn(InterruptedReason, <<>>) /\ inbox' = inbox
    BY <1>4 DEF StoppingThrows
  <2>. QED
    BY <1>1, <1>2, <1>3, <2>1, ReasonsOfThrow, EndTurnWrites
<1>5. CASE StoppingSettles
  <2>1. \/ CloseTurn
        \/ /\ ClaimAt("next-step", <<>>, driver.ends, inbox)
           /\ UNCHANGED <<phase, spent>>
    BY <1>5 DEF StoppingSettles
  <2>2. CASE /\ ClaimAt("next-step", <<>>, driver.ends, inbox)
             /\ UNCHANGED <<phase, spent>>
    <3>1. spent'.unended = 0
      BY <1>1, <2>2 DEF LogInv
    <3>. QED
      BY <1>2, <1>3, <2>2, <3>1, ClaimWrites DEF Targets
  <2>. QED
    BY <1>1, <2>1, <2>2, CloseTurnWrites
<1>. QED
  BY <1>4, <1>5

LEMMA DriverWrites ==
    ASSUME DriverInv, LogInv, DriverStep
    PROVE  LogInv'
<1>1. CASE SkipTurn \/ TurnStartRefused
  BY <1>1, TurnStartRefusedWrites
<1>2. CASE Converge
  <2>1. /\ driver.at = "returning" /\ driver'.at = "off"
        /\ phase'.turn = phase.turn /\ UNCHANGED <<log, inbox, spent>>
    BY <1>2 DEF Converge, NoDriver, Idle
  <2>. QED
    BY <2>1 DEF LogInv
<1>3. CASE PreStepThrows
  BY <1>3, PreStepWrites DEF PreStepThrows
<1>4. CASE PreStepRejects
  BY <1>4, PreStepWrites DEF PreStepRejects
<1>5. ASSUME NEW drop \in BOOLEAN, NEW context \in BOOLEAN,
             \/ PreStepFindsNothing(drop, context)
             \/ EmptyTurn(drop, context) \/ EnterStep(drop, context)
      PROVE  LogInv'
  <2>1. driver.at = "preStep"
    BY <1>5 DEF PreStepFindsNothing, EmptyTurn, EnterStep
  <2>. QED
    BY <1>5, <2>1, PreStepWrites, EnterStepWrites
<1>6. ASSUME NEW outcome \in Outcomes, NEW context \in OneOf(unsent),
             \/ StepThrows(outcome, context)
             \/ StepEndRefused(outcome, context)
             \/ StepReturns(outcome, context)
      PROVE  LogInv'
  <2>1. driver.at = "step"
    BY <1>6 DEF StepThrows, StepEndRefused, StepReturns
  <2>. QED
    BY <1>6, <2>1, StepEndsWrite
<1>7. ASSUME NEW cause \in Causes, NEW keepInbox \in BOOLEAN,
             TurnStartAborted(cause, keepInbox)
      PROVE  LogInv'
  BY <1>7, TurnStartAbortedWrites
<1>. QED
  BY <1>1, <1>2, <1>3, <1>4, <1>5, <1>6, <1>7, BeginTurnWrites, StoppingWrites,
     Zenon DEF DriverStep

-----------------------------------------------------------------------------
(* The driver with crashes *)

LEMMA CrashKeeps ==
    ASSUME ResumeInv, Crash
    PROVE  ResumeInv'
<1>1. PICK n \in 0..Len(log) :
         /\ log' = Survives(n) /\ inbox' = ResumedInbox(Survives(n))
         /\ phase' = Idle(ResumedTurn(Survives(n)))
  BY DEF Crash
<1>2. /\ driver' = NoDriver /\ frames' = <<>> /\ owed' = {} /\ stranded' = {}
      /\ spent' = [spent EXCEPT !.unended = 0]
      /\ UNCHANGED <<unsent, rewritten>>
  BY DEF Crash
<1>. DEFINE prefix == SubSeq(log, 1, n)
<1>3. GoodLog(prefix)
  BY GoodPrefix DEF ResumeInv, LogInv
<1>4. log' = prefix \o InterruptedTurnClosers(prefix)
  BY <1>1 DEF Survives
<1>. HIDE DEF prefix
<1>5. GoodLog(log') /\ TraceOf(log').openTurn = 0
  BY <1>3, <1>4, RepairCloses
<1>6. /\ ResumedTurn(log') \in Nat /\ Closed(log', ResumedTurn(log'))
      /\ InboxOf(log') \in Inboxes
  BY <1>5, LastTurn, GoodFits
<1>7. inbox' = InboxOf(log') /\ phase' = Idle(ResumedTurn(log'))
  BY <1>1 DEF ResumedInbox
<1>8. /\ phase'.kind = "idle" /\ phase'.abort = "none"
      /\ phase'.turn = ResumedTurn(log') /\ ~phase'.wakeRequested
      /\ phase' \in Phases /\ driver'.at = "off"
  <2>1. /\ phase'.kind = "idle" /\ phase'.abort = "none"
        /\ phase'.turn = ResumedTurn(log') /\ phase'.wakeRequested = FALSE
    BY <1>7 DEF Idle
  <2>2. phase' \in Phases
    BY <1>6, <1>7, FreshPhases
  <2>3. driver'.at = "off"
    BY <1>2 DEF NoDriver
  <2>. QED
    BY <2>1, <2>2, <2>3
<1>0. spent \in Spending
  BY TypedParts DEF ResumeInv, DriverInv
<1>9. LogInv'
  <2>1. spent'.unended = 0
    BY <1>0, <1>2 DEF Spending
  <2>. QED
    BY <1>5, <1>6, <1>7, <1>8, <2>1 DEF LogInv, Resting
<1>10. TypeOK'
  <2>1. TypeOK
    BY DEF ResumeInv, DriverInv
  <2>2. driver' \in Drivers /\ frames' \in Seq(Frames)
    BY <1>2, FreshDrivers
  <2>3. spent' \in Spending
    BY <1>0, <1>2 DEF Spending
  <2>4. /\ inbox' \in Inboxes /\ phase' \in Phases
        /\ unsent' \subseteq Messages /\ rewritten' \subseteq Messages
        /\ owed' \subseteq Messages /\ stranded' \subseteq Messages
    BY <1>2, <1>6, <1>7, <1>8, <2>1, TypedParts
  <2>. QED
    BY <2>2, <2>3, <2>4, TypedAfter
<1>11. PhaseInv' /\ OwedPending' /\ WakeKept'
  BY <1>2, <1>8 DEF PhaseInv, OwedPending, WakeKept
<1>. QED
  BY <1>9, <1>10, <1>11 DEF ResumeInv, DriverInv

LEMMA ResumeStepKeeps ==
    ASSUME ResumeInv, [ResumeNext]_resumeVars
    PROVE  ResumeInv'
<1>0. DriverInv /\ LogInv
  BY DEF ResumeInv
<1>1. CASE Next
  <2>1. DriverInv'
    BY <1>0, <1>1, DriverStepKeeps
  <2>2. LogInv'
    BY <1>0, <1>1, DriverWrites, ListenersWrite, WakesWrite, Zenon
       DEF Next
  <2>. QED
    BY <2>1, <2>2 DEF ResumeInv
<1>2. CASE Crash
  BY <1>2, CrashKeeps
<1>3. CASE UNCHANGED vars
  <2>1. DriverInv'
    BY <1>0, <1>3, DriverStepKeeps
  <2>2. UNCHANGED <<log, inbox>> /\ SamePlace
    BY <1>3, Zenon DEF vars, SamePlace
  <2>3. LogInv'
    BY <1>0, <2>2, SameLog, QuietKeeps
  <2>. QED
    BY <2>1, <2>3 DEF ResumeInv
<1>. QED
  BY <1>1, <1>2, <1>3 DEF ResumeNext, resumeVars

(* The driver and its log fit together at every event, across any number   *)
(* of crashes that cut the log anywhere: the place of the driver is where  *)
(* the log stands, and the log is one the repair can close.                *)
THEOREM ResumeInvariant == ResumeSpec => []ResumeInv
<1>1. ResumeInit => ResumeInv
  <2>. SUFFICES ASSUME ResumeInit
                PROVE  ResumeInv
    OBVIOUS
  <2>1. DriverInv
    BY DriverStarts DEF ResumeInit
  <2>2. /\ log = <<>> /\ inbox = EmptyInbox /\ driver.at = "off"
        /\ phase.turn = 0 /\ spent.unended = 0
    BY DEF ResumeInit, Init, NoDriver, Idle
  <2>3. LogInv
    BY <2>2, GoodEmpty, ScansStart DEF LogInv, Resting
  <2>. QED
    BY <2>1, <2>3 DEF ResumeInv
<1>. QED
  BY <1>1, ResumeStepKeeps, PTL DEF ResumeSpec

(* The log passes the checks of the session companion at every event, and  *)
(* no turn is open when no driver runs but the one whose end was refused,  *)
(* until the next load repairs it (session/src/invariant.ts, agent.ts and  *)
(* the repair of an interrupted turn).                                     *)
THEOREM LogStaysWellFormed == ResumeSpec => []LogIsWellFormed
<1>1. ASSUME ResumeInv
      PROVE  LogIsWellFormed
  <2>1. TraceOf(log) \in Traces
    BY <1>1, GoodFits DEF ResumeInv, LogInv, Fits
  <2>2. TraceOf(log).ok = TRUE
    BY <2>1 DEF Traces
  <2>3. ASSUME phase.kind # "running"
        PROVE  TraceOf(log).openTurn = spent.unended
    <3>1. driver.at = "off"
      BY <1>1, <2>3 DEF ResumeInv, DriverInv, PhaseInv, TypeOK
    <3>. QED
      BY <1>1, <3>1 DEF ResumeInv, LogInv, Resting, Closed, Unclosed
  <2>. QED
    BY <2>2, <2>3 DEF LogIsWellFormed, WellFormed, Balanced
<1>. QED
  BY <1>1, ResumeInvariant, PTL

(* The live inbox is the replay of the splices in the log (inbox.ts), so   *)
(* that an agent resumed from the log has the pending work of the last.    *)
THEOREM InboxReplays == ResumeSpec => []InboxIsReplay
<1>1. ResumeInv => InboxIsReplay
  BY DEF ResumeInv, LogInv, InboxIsReplay
<1>. QED
  BY <1>1, ResumeInvariant, PTL

(* A result that the repair wrote says that the outcome is unknown exactly *)
(* when the log has the start of its call (interruptedTurnClosers).        *)
THEOREM RepairIsTruthful == ResumeSpec => []RepairTellsStarted
<1>1. ASSUME ResumeInv
      PROVE  RepairTellsStarted
  <2>1. GoodLog(log) /\ log \in Seq(LogEvents)
    BY <1>1 DEF ResumeInv, LogInv, GoodLog, Logs
  <2>2. ASSUME NEW i \in 1..Len(log),
               log[i].type = "tool/result", log[i].code # "none"
        PROVE  log[i].code = "TOOL_OUTCOME_UNKNOWN" <=>
                  \E j \in 1..i : /\ log[j].type = "tool/call"
                                  /\ log[j].turn = log[i].turn
                                  /\ log[j].step = log[i].step
                                  /\ log[j].call = log[i].call
    <3>. DEFINE p == SubSeq(log, 1, i)
    <3>1. /\ Len(p) = i /\ i > 0 /\ p[i] = log[i]
          /\ \A j \in 1..i : p[j] = log[j] /\ log[j] \in LogEvents
      BY <2>1
    <3>2. GoodAt(p)
      BY <2>1 DEF GoodLog
    <3>3. log[i].call = 1
      BY <2>2, <3>1 DEF LogEvents, Splices, Texts
    <3>4. \A j \in 1..i : log[j].type = "tool/call" => log[j].call = 1
      BY <3>1 DEF LogEvents, Splices, Texts
    <3>. HIDE DEF p
    <3>5. log[i].code = "TOOL_OUTCOME_UNKNOWN"
             <=> Recorded(p, log[i].turn, log[i].step)
      BY <2>2, <3>1, <3>2 DEF GoodAt, Remembers
    <3>6. Recorded(p, log[i].turn, log[i].step) <=>
             \E j \in 1..i : /\ log[j].type = "tool/call"
                             /\ log[j].turn = log[i].turn
                             /\ log[j].step = log[i].step
      BY <3>1 DEF Recorded
    <3>. QED
      BY <3>3, <3>4, <3>5, <3>6
  <2>. QED
    BY <2>2 DEF RepairTellsStarted
<1>. QED
  BY <1>1, ResumeInvariant, PTL
-----------------------------------------------------------------------------
(* What became of the messages, at every event of a log.                   *)

FateScan == INSTANCE ScanProofs WITH After <- FatesAfter

FateNames == {"unsent", "pending", "canceled", "claimed", "entered", "ended"}

Fates == [inbox : Inboxes, fate : [Messages -> FateNames], turns : Nat,
          lost : SUBSET Messages, ok : {TRUE}]

Members(list) == {list[i] : i \in 1..Len(list)}

\* What a splice takes out of a list.
Taken(list, start, removed) ==
    {list[i] : i \in start + 1..start + removed}

Distinct(list) ==
    \A i, j \in 1..Len(list) : list[i] = list[j] => i = j

\* A message is queued in one place.
Single(box) ==
    \A t, u \in Targets : \A i \in 1..Len(box[t]), j \in 1..Len(box[u]) :
        box[t][i] = box[u][j] => t = u /\ i = j

Held(f) == {m \in Messages : f.fate[m] = "claimed"}

ClaimedIn(events) == Held(FatesOf(events))

\* The scan of the fates agrees with the inbox: "fresh" are messages no one
\* has sent, "waived" those that a turn may close over.
Settled(f, fresh, waived) ==
    /\ f \in Fates
    /\ f.turns <= 1
    /\ Single(f.inbox)
    /\ \A m \in Messages : Pending(f.inbox, m) => f.fate[m] = "pending"
    /\ \A m \in fresh : m \in Messages /\ f.fate[m] = "unsent"
    /\ f.lost \subseteq waived

\* Between two turns no message is claimed.
FateAt(events, fresh, waived) ==
    /\ Settled(FatesOf(events), fresh, waived)
    /\ FatesOf(events).inbox = InboxOf(events)
    /\ TraceOf(events).openTurn = 0 => ClaimedIn(events) = {}

Fated(events, fresh, waived) ==
    /\ GoodLog(events)
    /\ \A n \in 0..Len(events) : FateAt(SubSeq(events, 1, n), fresh, waived)

LEMMA FatesFollow ==
    /\ FatesOf(<<>>) = FreshFates
    /\ \A s \in Logs, e \in LogEvents :
          FatesOf(Append(s, e)) = FatesAfter(FatesOf(s), e)
<1>1. \A s : FatesOf(s) = FateScan!Fold(FreshFates, s)
  BY DEF FatesOf, Scan, FateScan!Fold
<1>2. FatesOf(<<>>) = FreshFates
  BY <1>1, FateScan!FoldEmpty
<1>3. ASSUME NEW s \in Logs, NEW e \in LogEvents
      PROVE  FatesOf(Append(s, e)) = FatesAfter(FatesOf(s), e)
  BY <1>1, FateScan!FoldAppend DEF Logs
<1>. QED
  BY <1>2, <1>3

LEMMA FatedLast ==
    ASSUME NEW s, NEW fresh, NEW waived, Fated(s, fresh, waived)
    PROVE  FateAt(s, fresh, waived) /\ GoodLog(s) /\ s \in Logs
<1>1. s \in Seq(LogEvents) /\ Len(s) \in Nat
  BY DEF Fated, GoodLog, Logs
<1>2. SubSeq(s, 1, Len(s)) = s /\ Len(s) \in 0..Len(s)
  BY <1>1
<1>. QED
  BY <1>1, <1>2 DEF Fated, Logs

LEMMA FatedGrows ==
    ASSUME NEW s, NEW fresh, NEW waived, Fated(s, fresh, waived),
           NEW e \in LogEvents, GoodLog(Append(s, e)),
           FateAt(Append(s, e), fresh, waived)
    PROVE  Fated(Append(s, e), fresh, waived)
<1>. DEFINE z == Append(s, e)
<1>1. s \in Seq(LogEvents) /\ Len(s) \in Nat
  BY DEF Fated, GoodLog, Logs
<1>2. z \in Seq(LogEvents) /\ Len(z) = Len(s) + 1
  BY <1>1
<1>3. ASSUME NEW n \in 0..Len(z)
      PROVE  FateAt(SubSeq(z, 1, n), fresh, waived)
  <2>1. CASE n = Len(s) + 1
    <3>1. SubSeq(z, 1, n) = z
      BY <1>1, <1>2, <2>1
    <3>. QED
      BY <3>1
  <2>2. CASE n # Len(s) + 1
    <3>1. n \in 0..Len(s)
      BY <1>1, <1>2, <2>2
    <3>2. SubSeq(z, 1, n) = SubSeq(s, 1, n)
      BY <1>1, <1>2, <3>1
    <3>. QED
      BY <3>1, <3>2 DEF Fated
  <2>. QED
    BY <2>1, <2>2
<1>. QED
  BY <1>2, <1>3 DEF Fated

LEMMA FatedPrefix ==
    ASSUME NEW s, NEW fresh, NEW waived, Fated(s, fresh, waived),
           NEW n \in 0..Len(s)
    PROVE  Fated(SubSeq(s, 1, n), fresh, waived)
<1>. DEFINE p == SubSeq(s, 1, n)
<1>1. s \in Seq(LogEvents) /\ Len(s) \in Nat
  BY DEF Fated, GoodLog, Logs
<1>2. p \in Seq(LogEvents) /\ Len(p) = n
  BY <1>1
<1>3. ASSUME NEW m \in 0..n
      PROVE  FateAt(SubSeq(p, 1, m), fresh, waived)
  <2>1. SubSeq(p, 1, m) = SubSeq(s, 1, m) /\ m \in 0..Len(s)
    BY <1>1
  <2>. QED
    BY <2>1 DEF Fated
<1>4. GoodLog(p)
  BY GoodPrefix DEF Fated
<1>. QED
  BY <1>2, <1>3, <1>4 DEF Fated

LEMMA FatedWeakens ==
    ASSUME NEW s, NEW fresh, NEW waived, Fated(s, fresh, waived),
           NEW less, less \subseteq fresh, NEW more, waived \subseteq more
    PROVE  Fated(s, less, more)
<1>1. ASSUME NEW n \in 0..Len(s)
      PROVE  FateAt(SubSeq(s, 1, n), less, more)
  <2>1. FateAt(SubSeq(s, 1, n), fresh, waived)
    BY DEF Fated
  <2>. QED
    BY <2>1 DEF FateAt, Settled
<1>. QED
  BY <1>1 DEF Fated

LEMMA FatedEmpty == Fated(<<>>, Messages, {})
<1>. DEFINE f == FreshFates
<1>1. EmptyInbox \in Inboxes
  BY DEF EmptyInbox, Inboxes
<1>2. /\ f.inbox = EmptyInbox /\ f.fate = [m \in Messages |-> "unsent"]
      /\ f.turns = 0 /\ f.lost = {} /\ f \in Fates
  BY <1>1 DEF FreshFates, Fates, FateNames
<1>. HIDE DEF f
<1>3. \A t \in Targets : Len(EmptyInbox[t]) = 0
  BY DEF EmptyInbox
<1>4. Single(EmptyInbox) /\ \A m : ~Pending(EmptyInbox, m)
  <2>1. \A t \in Targets : 1..Len(EmptyInbox[t]) = {}
    BY <1>3
  <2>. QED
    BY <2>1, Zenon DEF Single, Pending, InSeq
<1>5. Settled(f, Messages, {})
  BY <1>2, <1>4 DEF Settled
<1>6. Held(f) = {}
  BY <1>2 DEF Held
<1>7. FateAt(<<>>, Messages, {})
  BY <1>2, <1>5, <1>6, FatesFollow, ScansStart DEF FateAt, ClaimedIn, f
<1>8. \A n \in 0..Len(<<>>) : SubSeq(<<>>, 1, n) = <<>>
  OBVIOUS
<1>. QED
  BY <1>7, <1>8, GoodEmpty, Zenon DEF Fated

-----------------------------------------------------------------------------
(* What each event does to the fates.                                      *)

\* Where the elements of a spliced list come from.
LEMMA SplicedPlaces ==
    ASSUME NEW list \in Seq(Messages), NEW start \in Nat, NEW removed \in Nat,
           start + removed <= Len(list), NEW inserted \in Seq(Messages)
    PROVE  LET new == SpliceAt(list, start, removed, inserted)
               gap == Len(inserted)
           IN  /\ new \in Seq(Messages)
               /\ \A k \in 1..Len(new) :
                    \/ /\ k <= start /\ k \in 1..Len(list)
                       /\ new[k] = list[k]
                    \/ /\ k - start \in 1..gap
                       /\ new[k] = inserted[k - start]
                    \/ /\ k > start + gap
                       /\ k - gap + removed \in start + removed + 1..Len(list)
                       /\ new[k] = list[k - gap + removed]
<1>. DEFINE left == SubSeq(list, 1, start)
            right == SubSeq(list, start + removed + 1, Len(list))
            new == SpliceAt(list, start, removed, inserted)
            gap == Len(inserted)
            front == left \o inserted
<1>0. Len(list) \in Nat /\ gap \in Nat
  OBVIOUS
<1>1. /\ left \in Seq(Messages) /\ Len(left) = start
      /\ \A j \in 1..start : left[j] = list[j]
  BY <1>0
<1>2. /\ right \in Seq(Messages) /\ Len(right) = Len(list) - (start + removed)
      /\ \A j \in 1..Len(list) - (start + removed) :
            right[j] = list[start + removed + j]
  BY <1>0
<1>3. new = front \o right
  BY DEF SpliceAt
<1>. HIDE DEF left, right, new
<1>4. /\ front \in Seq(Messages) /\ Len(front) = start + gap
      /\ \A j \in 1..start + gap :
            front[j] = IF j <= start THEN left[j] ELSE inserted[j - start]
  BY <1>1, ConcatProperties
<1>. HIDE DEF front
<1>5. /\ new \in Seq(Messages)
      /\ Len(new) = start + gap + (Len(list) - (start + removed))
      /\ \A j \in 1..Len(new) :
            new[j] = IF j <= start + gap THEN front[j]
                     ELSE right[j - (start + gap)]
  <2>1. front \in Seq(Messages) /\ right \in Seq(Messages)
    BY <1>2, <1>4
  <2>2. /\ new \in Seq(Messages)
        /\ Len(new) = Len(front) + Len(right)
        /\ \A j \in 1..Len(front) + Len(right) :
              new[j] = IF j <= Len(front) THEN front[j]
                       ELSE right[j - Len(front)]
    BY <1>3, <2>1, ConcatProperties
  <2>3. Len(front) = start + gap
    BY <1>4
  <2>. QED
    BY <1>2, <2>2, <2>3
<1>. HIDE DEF gap
<1>6. ASSUME NEW k \in 1..Len(new)
      PROVE  \/ /\ k <= start /\ k \in 1..Len(list)
                /\ new[k] = list[k]
             \/ /\ k - start \in 1..gap
                /\ new[k] = inserted[k - start]
             \/ /\ k > start + gap
                /\ k - gap + removed \in start + removed + 1..Len(list)
                /\ new[k] = list[k - gap + removed]
  <2>0. /\ k \in Nat /\ k >= 1
        /\ k <= start + gap + (Len(list) - (start + removed))
    BY <1>0, <1>5
  <2>1. CASE k <= start
    <3>1. k \in 1..start /\ k \in 1..start + gap /\ k \in 1..Len(list)
            /\ k <= start + gap
      BY <1>0, <2>0, <2>1
    <3>. QED
      BY <1>1, <1>4, <1>5, <2>1, <3>1
  <2>2. CASE k > start /\ k <= start + gap
    <3>1. k - start \in 1..gap /\ k \in 1..start + gap /\ ~(k <= start)
      BY <1>0, <2>0, <2>2
    <3>. QED
      BY <1>4, <1>5, <2>2, <3>1
  <2>3. CASE k > start + gap
    <3>. DEFINE j == k - (start + gap)
    <3>1. /\ j \in 1..Len(list) - (start + removed) /\ ~(k <= start + gap)
          /\ start + removed + j = k - gap + removed
          /\ k - gap + removed \in start + removed + 1..Len(list)
      BY <1>0, <2>0, <2>3
    <3>. HIDE DEF j
    <3>2. new[k] = right[j]
      BY <1>5, <3>1 DEF j
    <3>3. right[j] = list[start + removed + j]
      BY <1>2, <3>1
    <3>. QED
      BY <2>3, <3>1, <3>2, <3>3
  <2>. QED
    BY <1>0, <2>0, <2>1, <2>2, <2>3
<1>. QED
  BY <1>5, <1>6 DEF new, gap

LEMMA OnePlace ==
    ASSUME NEW start \in Nat, NEW removed \in Nat, NEW gap \in Nat,
           NEW k \in Nat, k <= start \/ k > start + gap,
           NEW l \in Nat, l <= start \/ l > start + gap,
           (IF k <= start THEN k ELSE k - gap + removed)
              = (IF l <= start THEN l ELSE l - gap + removed)
    PROVE  k = l
<1>1. CASE k <= start /\ l <= start
  BY <1>1
<1>2. CASE k > start + gap /\ l > start + gap
  BY <1>2
<1>3. CASE k <= start /\ l > start + gap
  BY <1>3
<1>4. CASE k > start + gap /\ l <= start
  BY <1>4
<1>. QED
  BY <1>1, <1>2, <1>3, <1>4

\* The fates after a splice: what it inserts is no longer fresh, and what
\* it takes is claimed, unless it is canceled.
SplicedFates(f, e, fresh, waived) ==
    LET g == FatesAfter(f, e)
        taken == Taken(f.inbox[e.target], e.start, e.removed)
    IN  /\ Settled(g, fresh \ Members(e.inserted), waived)
        /\ g.inbox = InboxAfter(f.inbox, e)
        /\ Held(g) = Held(f) \cup (IF e.canceled THEN {} ELSE taken)
        /\ e.target # "next-turn" => g.turns = f.turns

LEMMA SpliceSettles ==
    ASSUME NEW f, NEW fresh, NEW waived, Settled(f, fresh, waived),
           NEW target \in Targets, NEW start \in Nat, NEW removed \in Nat,
           start + removed <= Len(f.inbox[target]),
           NEW inserted \in Seq(Messages), Len(inserted) <= 1,
           Members(inserted) \subseteq fresh, NEW canceled \in BOOLEAN,
           target = "next-turn" /\ ~canceled => f.turns + removed <= 1
    PROVE  SplicedFates(f, Spliced(target, start, removed, inserted, canceled),
                        fresh, waived)
<1>. DEFINE e == Spliced(target, start, removed, inserted, canceled)
            box == f.inbox
            list == box[target]
            new == SpliceAt(list, start, removed, inserted)
            gap == Len(inserted)
            taken == Taken(list, start, removed)
            cond == \A m \in Messages :
                       InSeq(m, inserted) => f.fate[m] = "unsent"
            box2 == [box EXCEPT ![target] = new]
            turns == IF target = "next-turn" /\ ~canceled
                     THEN f.turns + removed ELSE f.turns
            fate == [m \in Messages |->
                       IF InSeq(m, inserted) THEN "pending"
                       ELSE IF m \in taken
                            THEN IF canceled THEN "canceled" ELSE "claimed"
                            ELSE f.fate[m]]
            g == [inbox |-> box2, fate |-> fate, turns |-> turns,
                  lost |-> f.lost, ok |-> TRUE]
<1>1. /\ box \in Inboxes /\ f.fate \in [Messages -> FateNames]
      /\ f.turns \in Nat /\ f.lost \subseteq Messages /\ f.ok = TRUE
      /\ f = [inbox |-> f.inbox, fate |-> f.fate, turns |-> f.turns,
              lost |-> f.lost, ok |-> f.ok]
  BY DEF Settled, Fates
<1>2. list \in Seq(Messages) /\ Len(list) \in Nat /\ gap \in Nat
  BY <1>1 DEF Inboxes
<1>3. \A m : InSeq(m, inserted) <=> m \in Members(inserted)
  BY DEF InSeq, Members
<1>4. cond = TRUE
  BY <1>3 DEF Settled
<1>5. FatesAfter(f, e) = g
  <2>1. /\ e.type = "agent/inbox/spliced" /\ e.target = target
        /\ e.start = start /\ e.removed = removed /\ e.inserted = inserted
        /\ e.canceled = canceled
    BY DEF Spliced
  <2>2. InboxAfter(box, e) = box2
    <3>. HIDE DEF e, box
    <3>. QED
      BY <2>1 DEF InboxAfter
  <2>. HIDE DEF e
  <2>3. \A m : (\E i \in e.start + 1..e.start + e.removed :
                   f.inbox[e.target][i] = m) <=> m \in taken
    BY <2>1 DEF Taken
  <2>. DEFINE h == [f EXCEPT
                !.inbox = InboxAfter(@, e),
                !.turns = IF e.target = "next-turn" /\ ~e.canceled
                          THEN @ + e.removed ELSE @,
                !.fate = [m \in Messages |->
                    IF InSeq(m, e.inserted) THEN "pending"
                    ELSE IF \E i \in e.start + 1..e.start + e.removed :
                               f.inbox[e.target][i] = m
                         THEN IF e.canceled THEN "canceled" ELSE "claimed"
                         ELSE @[m]]]
  <2>4. FatesAfter(f, e) = [h EXCEPT !.ok = @ /\ \A m \in Messages :
                    InSeq(m, e.inserted) => f.fate[m] = "unsent"]
    BY <2>1 DEF FatesAfter
  <2>5. h = [inbox |-> box2, fate |-> fate, turns |-> turns,
             lost |-> f.lost, ok |-> TRUE]
    <3>1. h = [f EXCEPT !.inbox = box2, !.turns = turns, !.fate = fate]
      <4>1. [m \in Messages |->
                    IF InSeq(m, e.inserted) THEN "pending"
                    ELSE IF \E i \in e.start + 1..e.start + e.removed :
                               f.inbox[e.target][i] = m
                         THEN IF e.canceled THEN "canceled" ELSE "claimed"
                         ELSE f.fate[m]] = fate
        <5>. HIDE DEF taken
        <5>. QED
          BY <2>1, <2>3
      <4>. HIDE DEF fate, box2, taken
      <4>. QED
        BY <2>1, <2>2, <4>1, Zenon
    <3>. HIDE DEF fate, box2, turns, h
    <3>. QED
      BY <1>1, <3>1
  <2>6. h.ok = TRUE
    <3>. HIDE DEF fate, box2, turns, h
    <3>. QED
      BY <2>5
  <2>. HIDE DEF h, fate, box2, turns, cond
  <2>7. FatesAfter(f, e) = [h EXCEPT !.ok = @ /\ cond]
    BY <2>1, <2>4 DEF cond
  <2>8. (h.ok /\ cond) = TRUE
    BY <1>4, <2>6
  <2>. QED
    BY <2>5, <2>7, <2>8
<1>6. /\ new \in Seq(Messages)
      /\ \A k \in 1..Len(new) :
            \/ k <= start /\ k \in 1..Len(list) /\ new[k] = list[k]
            \/ k - start \in 1..gap /\ new[k] = inserted[k - start]
            \/ /\ k > start + gap
               /\ k - gap + removed \in start + removed + 1..Len(list)
               /\ new[k] = list[k - gap + removed]
  <2>. HIDE DEF list
  <2>. QED
    BY <1>2, SplicedPlaces, SMTT(30) DEF list
<1>7. /\ box2 \in Inboxes /\ box2[target] = new
      /\ \A t \in Targets : t # target => box2[t] = box[t]
  <2>. HIDE DEF new
  <2>. QED
    BY <1>1, <1>6 DEF Inboxes
<1>. DEFINE Old(t, k) == IF t # target \/ k <= start THEN k
                         ELSE k - gap + removed
\* A place of the new inbox holds the message inserted, or one that stays.
<1>8. ASSUME NEW t \in Targets, NEW k \in 1..Len(box2[t])
      PROVE  \/ /\ t = target /\ k = start + 1
                /\ box2[t][k] \in Members(inserted)
             \/ /\ Old(t, k) \in 1..Len(box[t])
                /\ box2[t][k] = box[t][Old(t, k)]
                /\ t = target =>
                      /\ Old(t, k) \notin start + 1..start + removed
                      /\ k <= start \/ k > start + gap
  <2>1. CASE t # target
    BY <1>7, <2>1
  <2>2. CASE t = target
    <3>0. box2[t] = new /\ k \in 1..Len(new) /\ k \in Nat
      BY <1>6, <1>7, <2>2
    <3>. HIDE DEF new, list, box2
    <3>1. CASE k <= start /\ k \in 1..Len(list) /\ new[k] = list[k]
      <4>1. Old(t, k) = k /\ k \notin start + 1..start + removed
        BY <3>0, <3>1
      <4>. QED
        BY <2>2, <3>0, <3>1, <4>1 DEF list
    <3>2. CASE k - start \in 1..gap /\ new[k] = inserted[k - start]
      <4>1. k = start + 1
        BY <1>2, <3>0, <3>2
      <4>2. new[k] \in Members(inserted)
        BY <3>2 DEF Members
      <4>. QED
        BY <2>2, <3>0, <4>1, <4>2
    <3>3. CASE /\ k > start + gap
               /\ k - gap + removed \in start + removed + 1..Len(list)
               /\ new[k] = list[k - gap + removed]
      <4>1. /\ Old(t, k) = k - gap + removed
            /\ k - gap + removed \in 1..Len(list)
            /\ k - gap + removed \notin start + 1..start + removed
        BY <1>2, <2>2, <3>0, <3>3
      <4>. QED
        BY <2>2, <3>0, <3>3, <4>1 DEF list
    <3>. QED
      BY <1>6, <3>0, <3>1, <3>2, <3>3
  <2>. QED
    BY <2>1, <2>2
<1>9. \A m \in Messages : Pending(box, m) => f.fate[m] = "pending"
  BY DEF Settled
<1>10. \A t \in Targets : \A k \in 1..Len(box[t]) :
          Pending(box, box[t][k]) /\ box[t][k] \in Messages
  BY <1>1 DEF Pending, InSeq, Inboxes
<1>11. \A m \in Members(inserted) : m \in Messages /\ f.fate[m] = "unsent"
  BY DEF Settled
<1>12. \A m \in taken : m \in Messages /\ f.fate[m] = "pending"
  <2>1. \A i \in start + 1..start + removed : i \in 1..Len(list)
    BY <1>2
  <2>. QED
    BY <1>9, <1>10, <2>1 DEF Taken
<1>. HIDE DEF box2, new, Old, list, taken
<1>13. Single(box2)
  <2>. SUFFICES ASSUME NEW t \in Targets, NEW u \in Targets,
                       NEW k \in 1..Len(box2[t]), NEW l \in 1..Len(box2[u]),
                       box2[t][k] = box2[u][l]
                PROVE  t = u /\ k = l
    BY DEF Single
  <2>. DEFINE x == box2[t][k]
  <2>1. CASE x \in Members(inserted)
    <3>1. f.fate[x] = "unsent" /\ x \in Messages
      BY <1>11, <2>1
    <3>2. ~Pending(box, x)
      BY <1>9, <3>1
    <3>. HIDE DEF x
    <3>3. \A v \in Targets : \A j \in 1..Len(box[v]) : box[v][j] # x
      BY <1>10, <3>2
    <3>4. t = target /\ k = start + 1
      BY <1>8, <3>3 DEF x
    <3>5. u = target /\ l = start + 1
      <4>1. box2[u][l] = x
        BY DEF x
      <4>. QED
        BY <1>8, <3>3, <4>1
    <3>. QED
      BY <3>4, <3>5
  <2>2. CASE x \notin Members(inserted)
    <3>. DEFINE a == Old(t, k)
                b == Old(u, l)
    <3>1. /\ a \in 1..Len(box[t]) /\ b \in 1..Len(box[u])
          /\ box[t][a] = box[u][b]
      BY <1>8, <2>2
    <3>2. t = u /\ a = b
      <4>1. Single(box)
        BY DEF Settled
      <4>. HIDE DEF a, b, box
      <4>. QED
        BY <3>1, <4>1 DEF Single
    <3>3. Len(box2[t]) \in Nat /\ Len(box2[u]) \in Nat
      BY <1>7 DEF Inboxes
    <3>4. k \in Nat /\ l \in Nat /\ k >= 1 /\ l >= 1
      BY <3>3
    <3>5. CASE t # target
      BY <3>2, <3>5 DEF Old
    <3>6. CASE t = target
      <4>1. /\ k <= start \/ k > start + gap
            /\ l <= start \/ l > start + gap
        BY <1>8, <2>2, <3>2, <3>6
      <4>2. /\ a = IF k <= start THEN k ELSE k - gap + removed
            /\ b = IF l <= start THEN l ELSE l - gap + removed
        BY <3>2, <3>6 DEF Old
      <4>3. k = l
        <5>. HIDE DEF a, b, gap
        <5>. QED
          BY <1>2, <3>2, <3>4, <4>1, <4>2, OnePlace, Zenon
      <4>. QED
        BY <3>2, <4>3
    <3>. QED
      BY <3>5, <3>6
  <2>. QED
    BY <2>1, <2>2
<1>14. ASSUME NEW m \in Messages, Pending(box2, m)
       PROVE  fate[m] = "pending"
  <2>0. PICK t \in Targets : InSeq(m, box2[t])
    BY <1>14 DEF Pending
  <2>1. PICK k \in 1..Len(box2[t]) : box2[t][k] = m
    BY <2>0 DEF InSeq
  <2>2. CASE m \in Members(inserted)
    BY <1>3, <2>2
  <2>3. CASE m \notin Members(inserted)
    <3>. DEFINE j == Old(t, k)
    <3>1. /\ j \in 1..Len(box[t]) /\ m = box[t][j]
          /\ t = target => j \notin start + 1..start + removed
      BY <1>8, <2>1, <2>3
    <3>. HIDE DEF j
    <3>2. f.fate[m] = "pending"
      BY <1>9, <1>10, <3>1
    <3>3. m \notin taken
      <4>1. SUFFICES ASSUME m \in taken
                     PROVE  FALSE
        OBVIOUS
      <4>2. PICK i \in start + 1..start + removed : list[i] = m
        BY <4>1 DEF taken, Taken
      <4>3. i \in 1..Len(box[target]) /\ box[target][i] = m
        BY <1>2, <4>2 DEF list
      <4>4. t = target /\ j = i
        BY <3>1, <4>3 DEF Settled, Single
      <4>. QED
        BY <3>1, <4>2, <4>4
    <3>. QED
      BY <1>3, <2>3, <3>2, <3>3
  <2>. QED
    BY <2>2, <2>3
<1>15. ASSUME NEW m \in fresh \ Members(inserted)
       PROVE  fate[m] = "unsent"
  <2>1. f.fate[m] = "unsent" /\ m \in Messages
    BY DEF Settled
  <2>2. m \notin taken
    BY <1>12, <2>1
  <2>. QED
    BY <1>3, <2>1, <2>2
<1>16. fate \in [Messages -> FateNames]
  BY <1>1 DEF FateNames
<1>17. turns \in Nat /\ turns <= 1 /\ (target # "next-turn" => turns = f.turns)
  BY <1>1 DEF Settled
<1>18. \A m \in Messages : fate[m] = "claimed" <=>
          f.fate[m] = "claimed" \/ (~canceled /\ m \in taken)
  BY <1>3, <1>11, <1>12
<1>. HIDE DEF fate, turns
<1>19. /\ g.inbox = box2 /\ g.fate = fate /\ g.turns = turns
       /\ g.lost = f.lost /\ g.ok = TRUE /\ g \in Fates
  BY <1>1, <1>7, <1>16, <1>17 DEF Fates
<1>. HIDE DEF g
<1>20. Settled(g, fresh \ Members(inserted), waived)
  BY <1>13, <1>14, <1>15, <1>17, <1>19 DEF Settled
<1>21. Held(g) = Held(f) \cup (IF canceled THEN {} ELSE taken)
  BY <1>12, <1>18, <1>19 DEF Held
<1>22. InboxAfter(f.inbox, e) = box2
  BY DEF InboxAfter, Spliced, box2, new, list
<1>23. /\ e.target = target /\ e.start = start /\ e.removed = removed
       /\ e.inserted = inserted /\ e.canceled = canceled
  BY DEF Spliced
<1>24. taken = Taken(f.inbox[e.target], e.start, e.removed)
  BY <1>23 DEF taken, list
<1>25. g.inbox = InboxAfter(f.inbox, e)
  BY <1>19, <1>22
<1>26. e.target # "next-turn" => g.turns = f.turns
  BY <1>17, <1>19, <1>23
<1>. HIDE DEF e, cond, box, taken
<1>27. Held(g) = Held(f) \cup (IF e.canceled THEN {} ELSE taken)
  <2>1. CASE canceled = TRUE
    BY <1>21, <1>23, <2>1
  <2>2. CASE canceled = FALSE
    BY <1>21, <1>23, <2>2
  <2>. QED
    BY <2>1, <2>2
<1>28. Settled(g, fresh \ Members(e.inserted), waived)
  BY <1>20, <1>23
<1>. QED
  BY <1>5, <1>24, <1>25, <1>26, <1>27, <1>28, Zenon DEF SplicedFates, e

LEMMA QuietSettles ==
    ASSUME NEW f, NEW e,
           e.type \notin {"agent/inbox/spliced", "user/message",
                          "turn/start", "turn/end"}
    PROVE  FatesAfter(f, e) = f
<1>1. /\ e.type # "agent/inbox/spliced" /\ e.type # "user/message"
      /\ e.type # "turn/start" /\ e.type # "turn/end"
  OBVIOUS
<1>. QED
  BY <1>1, Zenon DEF FatesAfter

LEMMA TurnStartSettles ==
    ASSUME NEW f, NEW fresh, NEW waived, Settled(f, fresh, waived),
           Held(f) = {}, NEW turn
    PROVE  LET g == FatesAfter(f, TurnStart(turn))
           IN  /\ Settled(g, fresh, waived) /\ g.inbox = f.inbox
               /\ Held(g) = {} /\ g.turns = 0
<1>. DEFINE e == TurnStart(turn)
            h == [f EXCEPT !.turns = 0]
            cond == Held(f) = {}
<1>1. e.type = "turn/start"
  BY DEF TurnStart
<1>2. h \in Fates /\ h.ok = TRUE
  BY DEF Settled, Fates
<1>3. cond = TRUE
  OBVIOUS
<1>4. FatesAfter(f, e) = h
  <2>. HIDE DEF e, h, cond
  <2>1. FatesAfter(f, e) = [h EXCEPT !.ok = @ /\ cond]
    BY <1>1 DEF FatesAfter, h, cond, Held
  <2>2. (h.ok /\ cond) = TRUE
    BY <1>2, <1>3
  <2>3. [h EXCEPT !.ok = TRUE] = h
    BY <1>2 DEF Fates
  <2>. QED
    BY <2>1, <2>2, <2>3
<1>5. /\ h.inbox = f.inbox /\ h.fate = f.fate /\ h.lost = f.lost
      /\ h.turns = 0
  BY DEF Settled, Fates
<1>. HIDE DEF h
<1>6. Settled(h, fresh, waived)
  BY <1>2, <1>5 DEF Settled
<1>7. Held(h) = {}
  BY <1>5 DEF Held
<1>. QED
  BY <1>4, <1>5, <1>6, <1>7

LEMMA TurnEndSettles ==
    ASSUME NEW f, NEW fresh, NEW waived, Settled(f, fresh, waived),
           NEW turn, NEW reason, reason \in Ends => Held(f) \subseteq waived
    PROVE  LET g == FatesAfter(f, TurnEnd(turn, reason))
           IN  /\ Settled(g, fresh, waived) /\ g.inbox = f.inbox
               /\ Held(g) = {}
<1>. DEFINE e == TurnEnd(turn, reason)
            fate == [m \in Messages |-> IF m \in Held(f) THEN "ended"
                                        ELSE f.fate[m]]
            lost == IF reason \in Ends THEN f.lost \cup Held(f) ELSE f.lost
            h == [f EXCEPT !.fate = fate, !.lost = lost]
            cond == f.turns <= 1
<1>1. e.type = "turn/end" /\ e.reason = reason
  BY DEF TurnEnd
<1>2. /\ f \in Fates /\ f.ok = TRUE /\ f.fate \in [Messages -> FateNames]
      /\ f.lost \subseteq Messages /\ f.lost \subseteq waived
  BY DEF Settled, Fates
<1>3. cond = TRUE
  BY DEF Settled
<1>4. Held(f) \subseteq Messages
  BY DEF Held
<1>5. fate \in [Messages -> FateNames]
  BY <1>2 DEF FateNames
<1>6. lost \subseteq Messages /\ lost \subseteq waived
  BY <1>2, <1>4
<1>7. \A m \in Messages : fate[m] # "claimed"
                          /\ (m \notin Held(f) => fate[m] = f.fate[m])
  BY DEF Held
<1>. HIDE DEF fate, lost
<1>8. /\ h \in Fates /\ h.ok = TRUE /\ h.inbox = f.inbox /\ h.fate = fate
      /\ h.lost = lost /\ h.turns = f.turns
  BY <1>2, <1>5, <1>6 DEF Fates
<1>9. FatesAfter(f, e) = h
  <2>. HIDE DEF e, h, cond
  <2>1. FatesAfter(f, e) = [h EXCEPT !.ok = @ /\ cond]
    BY <1>1 DEF FatesAfter, h, cond, fate, lost, Held
  <2>2. (h.ok /\ cond) = TRUE
    BY <1>3, <1>8
  <2>3. [h EXCEPT !.ok = TRUE] = h
    BY <1>8 DEF Fates
  <2>. QED
    BY <2>1, <2>2, <2>3
<1>. HIDE DEF h
<1>10. \A m \in Messages : f.fate[m] \in {"pending", "unsent"} =>
          fate[m] = f.fate[m]
  BY <1>7 DEF Held
<1>11. \A m \in fresh : m \in Messages
  <2>. QED
    BY DEF Settled
<1>12. Settled(h, fresh, waived)
  BY <1>6, <1>8, <1>10, <1>11 DEF Settled
<1>13. Held(h) = {}
  BY <1>7, <1>8 DEF Held
<1>. QED
  BY <1>8, <1>9, <1>12, <1>13

LEMMA TextSettles ==
    ASSUME NEW f, NEW fresh, NEW waived, Settled(f, fresh, waived),
           NEW m \in Held(f)
    PROVE  LET g == FatesAfter(f, UserMessage(m))
           IN  /\ Settled(g, fresh, waived) /\ g.inbox = f.inbox
               /\ Held(g) = Held(f) \ {m}
<1>. DEFINE e == UserMessage(m)
            h == [f EXCEPT !.fate[m] = "entered"]
            cond == f.fate[m] = "claimed"
<1>1. e.type = "user/message" /\ e.message = m
  BY DEF UserMessage
<1>2. /\ f \in Fates /\ f.ok = TRUE /\ f.fate \in [Messages -> FateNames]
      /\ m \in Messages /\ f.fate[m] = "claimed"
  BY DEF Settled, Fates, Held
<1>3. /\ h \in Fates /\ h.ok = TRUE /\ h.inbox = f.inbox
      /\ h.lost = f.lost /\ h.turns = f.turns
      /\ h.fate[m] = "entered"
      /\ \A x \in Messages : x # m => h.fate[x] = f.fate[x]
  BY <1>2 DEF Fates, FateNames
<1>4. FatesAfter(f, e) = h
  <2>. HIDE DEF e, h, cond
  <2>1. FatesAfter(f, e) = [h EXCEPT !.ok = @ /\ cond]
    BY <1>1 DEF FatesAfter, h, cond
  <2>2. (h.ok /\ cond) = TRUE
    BY <1>2, <1>3 DEF cond
  <2>3. [h EXCEPT !.ok = TRUE] = h
    BY <1>3 DEF Fates
  <2>. QED
    BY <2>1, <2>2, <2>3
<1>. HIDE DEF h
<1>5. Settled(h, fresh, waived)
  <2>1. \A x \in Messages : Pending(h.inbox, x) => h.fate[x] = "pending"
    BY <1>2, <1>3 DEF Settled
  <2>2. \A x \in fresh : h.fate[x] = "unsent"
    BY <1>2, <1>3 DEF Settled
  <2>. QED
    BY <1>3, <2>1, <2>2 DEF Settled
<1>6. Held(h) = Held(f) \ {m}
  BY <1>3 DEF Held
<1>. QED
  BY <1>3, <1>4, <1>5, <1>6

-----------------------------------------------------------------------------
(* The log with one more event.                                            *)

LEMMA FateGrows ==
    ASSUME NEW s, NEW fresh, NEW waived, Fated(s, fresh, waived),
           NEW e \in LogEvents, GoodLog(Append(s, e)),
           NEW less, less \subseteq fresh,
           Settled(FatesAfter(FatesOf(s), e), less, waived),
           FatesAfter(FatesOf(s), e).inbox = InboxAfter(InboxOf(s), e),
           TraceOf(Append(s, e)).openTurn = 0 =>
              Held(FatesAfter(FatesOf(s), e)) = {}
    PROVE  /\ Fated(Append(s, e), less, waived)
           /\ FatesOf(Append(s, e)) = FatesAfter(FatesOf(s), e)
<1>1. s \in Logs /\ Fated(s, less, waived)
  BY FatedLast, FatedWeakens
<1>2. FatesOf(Append(s, e)) = FatesAfter(FatesOf(s), e)
  BY <1>1, FatesFollow
<1>3. InboxOf(Append(s, e)) = InboxAfter(InboxOf(s), e)
  BY <1>1, ScansFollow
<1>4. FateAt(Append(s, e), less, waived)
  BY <1>2, <1>3 DEF FateAt, ClaimedIn
<1>. QED
  BY <1>1, <1>2, <1>4, FatedGrows

SplicedLog(s, e, fresh, waived) ==
    LET z == Append(s, e)
        taken == Taken(InboxOf(s)[e.target], e.start, e.removed)
    IN  /\ Fated(z, fresh \ Members(e.inserted), waived)
        /\ ClaimedIn(z) = ClaimedIn(s) \cup (IF e.canceled THEN {} ELSE taken)
        /\ e.target # "next-turn" => FatesOf(z).turns = FatesOf(s).turns
        /\ TraceOf(z) = TraceOf(s)

LEMMA SpliceFates ==
    ASSUME NEW s, NEW fresh, NEW waived, Fated(s, fresh, waived),
           NEW target \in Targets, NEW start \in Nat, NEW removed \in Nat,
           start + removed <= Len(InboxOf(s)[target]),
           NEW inserted \in Seq(Messages), Len(inserted) <= 1,
           Members(inserted) \subseteq fresh, NEW canceled \in BOOLEAN,
           target = "next-turn" /\ ~canceled =>
              FatesOf(s).turns + removed <= 1,
           canceled \/ removed = 0 \/ TraceOf(s).openTurn # 0,
           GoodLog(Append(s, Spliced(target, start, removed, inserted,
                                     canceled)))
    PROVE  SplicedLog(s, Spliced(target, start, removed, inserted, canceled),
                      fresh, waived)
<1>. DEFINE e == Spliced(target, start, removed, inserted, canceled)
            f == FatesOf(s)
            g == FatesAfter(f, e)
            taken == Taken(InboxOf(s)[e.target], e.start, e.removed)
            less == fresh \ Members(inserted)
<1>1. /\ Settled(f, fresh, waived) /\ f.inbox = InboxOf(s)
      /\ TraceOf(s).openTurn = 0 => Held(f) = {}
      /\ s \in Logs /\ GoodLog(s)
  BY FatedLast DEF FateAt, ClaimedIn
<1>2. e \in Splices /\ e \in LogEvents
  BY DEF Spliced, Splices, LogEvents
<1>3. TraceOf(Append(s, e)) = TraceOf(s)
  <2>. HIDE DEF e
  <2>1. Fits(TraceOf(s), RepairOf(s))
    BY <1>1, GoodFits
  <2>2. TraceAfter(TraceOf(s), e) = TraceOf(s)
    BY <1>2, <2>1, NeutralFits
  <2>. QED
    BY <1>1, <1>2, <2>2, ScansFollow
<1>4. /\ e.target = target /\ e.start = start /\ e.removed = removed
      /\ e.inserted = inserted /\ e.canceled = canceled
  BY DEF Spliced
<1>5. SplicedFates(f, e, fresh, waived)
  <2>. HIDE DEF f
  <2>1. start + removed <= Len(f.inbox[target])
    BY <1>1
  <2>2. target = "next-turn" /\ ~canceled => f.turns + removed <= 1
    BY DEF f
  <2>. QED
    BY <1>1, <2>1, <2>2, SpliceSettles
<1>6. GoodLog(Append(s, e))
  OBVIOUS
<1>. HIDE DEF e
<1>7. /\ Settled(g, less, waived) /\ g.inbox = InboxAfter(f.inbox, e)
      /\ Held(g) = Held(f) \cup (IF e.canceled THEN {} ELSE taken)
      /\ e.target # "next-turn" => g.turns = f.turns
  <2>. HIDE DEF f
  <2>. QED
    BY <1>1, <1>4, <1>5 DEF SplicedFates
<1>8. TraceOf(s).openTurn = 0 => Held(g) = {}
  <2>1. removed = 0 => taken = {}
    BY <1>4 DEF Taken
  <2>. HIDE DEF taken, g, f
  <2>. QED
    BY <1>1, <1>4, <1>7, <2>1
<1>. HIDE DEF less
<1>9. Fated(Append(s, e), less, waived) /\ FatesOf(Append(s, e)) = g
  <2>1. less \subseteq fresh
    BY DEF less
  <2>2. g.inbox = InboxAfter(InboxOf(s), e)
    BY <1>1, <1>7
  <2>3. TraceOf(Append(s, e)).openTurn = 0 => Held(g) = {}
    BY <1>3, <1>8
  <2>. QED
    BY <1>2, <1>6, <1>7, <2>1, <2>2, <2>3, FateGrows
<1>. HIDE DEF f, g, taken
<1>10. /\ ClaimedIn(Append(s, e))
             = ClaimedIn(s) \cup (IF e.canceled THEN {} ELSE taken)
       /\ e.target # "next-turn" =>
             FatesOf(Append(s, e)).turns = FatesOf(s).turns
  BY <1>7, <1>9 DEF ClaimedIn, f
<1>11. SplicedLog(s, e, fresh, waived)
  BY <1>3, <1>4, <1>9, <1>10, Zenon DEF SplicedLog, less, taken
<1>. QED
  BY <1>11 DEF e

LEMMA TurnStartFates ==
    ASSUME NEW s, NEW fresh, NEW waived, Fated(s, fresh, waived),
           TraceOf(s).openTurn = 0, NEW turn \in Nat,
           GoodLog(Append(s, TurnStart(turn)))
    PROVE  LET z == Append(s, TurnStart(turn))
           IN  /\ Fated(z, fresh, waived)
               /\ ClaimedIn(z) = {} /\ FatesOf(z).turns = 0
<1>. DEFINE e == TurnStart(turn)
            f == FatesOf(s)
            g == FatesAfter(f, e)
<1>1. /\ Settled(f, fresh, waived) /\ f.inbox = InboxOf(s) /\ Held(f) = {}
  BY FatedLast DEF FateAt, ClaimedIn
<1>2. e \in LogEvents /\ e.type # "agent/inbox/spliced"
  BY DEF TurnStart, LogEvents
<1>3. /\ Settled(g, fresh, waived) /\ g.inbox = f.inbox
      /\ Held(g) = {} /\ g.turns = 0
  <2>. HIDE DEF f
  <2>. QED
    BY <1>1, TurnStartSettles
<1>. HIDE DEF e
<1>4. g.inbox = InboxAfter(InboxOf(s), e)
  BY <1>1, <1>2, <1>3, OthersKeepInbox
<1>5. Fated(Append(s, e), fresh, waived) /\ FatesOf(Append(s, e)) = g
  <2>1. GoodLog(Append(s, e))
    BY DEF e
  <2>. QED
    BY <1>2, <1>3, <1>4, <2>1, FateGrows
<1>. QED
  BY <1>3, <1>5 DEF e, ClaimedIn

LEMMA TurnEndFates ==
    ASSUME NEW s, NEW fresh, NEW waived, Fated(s, fresh, waived),
           NEW turn \in Nat, NEW reason \in Reasons,
           reason \in Ends => ClaimedIn(s) \subseteq waived,
           GoodLog(Append(s, TurnEnd(turn, reason)))
    PROVE  LET z == Append(s, TurnEnd(turn, reason))
           IN  Fated(z, fresh, waived) /\ ClaimedIn(z) = {}
<1>. DEFINE e == TurnEnd(turn, reason)
            f == FatesOf(s)
            g == FatesAfter(f, e)
<1>1. /\ Settled(f, fresh, waived) /\ f.inbox = InboxOf(s)
  BY FatedLast DEF FateAt
<1>2. e \in LogEvents /\ e.type # "agent/inbox/spliced"
  BY DEF TurnEnd, LogEvents
<1>3. /\ Settled(g, fresh, waived) /\ g.inbox = f.inbox
      /\ Held(g) = {}
  <2>1. reason \in Ends => Held(f) \subseteq waived
    BY DEF ClaimedIn
  <2>. HIDE DEF f
  <2>. QED
    BY <1>1, <2>1, TurnEndSettles
<1>. HIDE DEF e
<1>4. g.inbox = InboxAfter(InboxOf(s), e)
  BY <1>1, <1>2, <1>3, OthersKeepInbox
<1>5. Fated(Append(s, e), fresh, waived) /\ FatesOf(Append(s, e)) = g
  <2>1. GoodLog(Append(s, e))
    BY DEF e
  <2>. QED
    BY <1>2, <1>3, <1>4, <2>1, FateGrows
<1>. QED
  BY <1>3, <1>5 DEF e, ClaimedIn

LEMMA TextFates ==
    ASSUME NEW s, NEW fresh, NEW waived, Fated(s, fresh, waived),
           NEW m \in ClaimedIn(s), TraceOf(s).openTurn # 0,
           GoodLog(Append(s, UserMessage(m)))
    PROVE  LET z == Append(s, UserMessage(m))
           IN  /\ Fated(z, fresh, waived) /\ ClaimedIn(z) = ClaimedIn(s) \ {m}
               /\ TraceOf(z) = TraceOf(s)
<1>. DEFINE e == UserMessage(m)
            f == FatesOf(s)
            g == FatesAfter(f, e)
<1>1. /\ Settled(f, fresh, waived) /\ f.inbox = InboxOf(s) /\ m \in Held(f)
      /\ s \in Logs /\ GoodLog(s)
  BY FatedLast DEF FateAt, ClaimedIn
<1>2. e \in Texts /\ e \in LogEvents /\ e.type # "agent/inbox/spliced"
  BY <1>1 DEF UserMessage, LogEvents, Texts, Held
<1>3. /\ Settled(g, fresh, waived) /\ g.inbox = f.inbox
      /\ Held(g) = Held(f) \ {m}
  <2>. HIDE DEF f
  <2>. QED
    BY <1>1, TextSettles
<1>. HIDE DEF e
<1>4. g.inbox = InboxAfter(InboxOf(s), e)
  BY <1>1, <1>2, <1>3, OthersKeepInbox
<1>5. TraceOf(Append(s, e)) = TraceOf(s)
  <2>1. Fits(TraceOf(s), RepairOf(s))
    BY <1>1, GoodFits
  <2>2. TraceAfter(TraceOf(s), e) = TraceOf(s)
    BY <1>2, <2>1, NeutralFits
  <2>. QED
    BY <1>1, <1>2, <2>2, ScansFollow
<1>6. Fated(Append(s, e), fresh, waived) /\ FatesOf(Append(s, e)) = g
  <2>1. GoodLog(Append(s, e))
    BY DEF e
  <2>. QED
    BY <1>2, <1>3, <1>4, <1>5, <2>1, FateGrows
<1>. QED
  BY <1>3, <1>5, <1>6 DEF e, ClaimedIn

\* The events of a step other than its messages.
Quiet == [type : {"step/start", "step/end"}, turn : Nat, step : Nat]
            \cup [type : {"assistant/message"}, turn : Nat, step : Nat,
                  calls : {<<>>, << 1 >>}]
            \cup [type : {"tool/call"}, turn : Nat, step : Nat, call : {1}]
            \cup [type : {"tool/result"}, turn : Nat, step : Nat, call : {1},
                  code : Codes]

LEMMA QuietFates ==
    ASSUME NEW s, NEW fresh, NEW waived, Fated(s, fresh, waived),
           NEW e \in Quiet, GoodLog(Append(s, e))
    PROVE  LET z == Append(s, e)
           IN  Fated(z, fresh, waived) /\ ClaimedIn(z) = ClaimedIn(s)
<1>. DEFINE f == FatesOf(s)
            g == FatesAfter(f, e)
<1>1. /\ Settled(f, fresh, waived) /\ f.inbox = InboxOf(s)
      /\ TraceOf(s).openTurn = 0 => Held(f) = {}
      /\ s \in Logs /\ GoodLog(s)
  BY FatedLast DEF FateAt, ClaimedIn
<1>2. e \in LogEvents
  BY DEF Quiet, LogEvents
<1>3. e.type \notin {"agent/inbox/spliced", "user/message",
                     "turn/start", "turn/end"}
  BY DEF Quiet
<1>4. g = f
  BY <1>3, QuietSettles
<1>5. g.inbox = InboxAfter(InboxOf(s), e)
  BY <1>1, <1>3, <1>4, OthersKeepInbox
<1>6. TraceOf(Append(s, e)).openTurn = TraceOf(s).openTurn
  <2>. DEFINE tr == TraceOf(s)
  <2>1. tr \in Traces
    BY <1>1, GoodFits DEF Fits
  <2>. HIDE DEF tr
  <2>2. e.type # "turn/start" /\ e.type # "turn/end"
    BY <1>3
  <2>. DEFINE t == [tr EXCEPT !.ok = @ /\ EventAllowed(tr, e)]
  <2>3. t.openTurn = tr.openTurn /\ \E b : t = [tr EXCEPT !.ok = b]
    BY <2>1 DEF Traces
  <2>4. TraceAfter(tr, e).openTurn = tr.openTurn
    <3>1. PICK b : t = [tr EXCEPT !.ok = b]
      BY <2>3
    <3>2. \/ TraceAfter(tr, e) = [t EXCEPT !.openStep = e.step]
          \/ TraceAfter(tr, e) = [t EXCEPT !.openStep = 0,
                                           !.nextStep = @ + 1, !.pending = {}]
          \/ TraceAfter(tr, e) = [t EXCEPT !.pending = @ \cup {e.call}]
          \/ TraceAfter(tr, e) = [t EXCEPT !.pending = @ \ {e.call}]
          \/ TraceAfter(tr, e) = t
      BY <2>2, Zenon DEF TraceAfter
    <3>. HIDE DEF t
    <3>. QED
      BY <2>1, <2>3, <3>1, <3>2 DEF Traces
  <2>. QED
    BY <1>1, <1>2, <2>4, ScansFollow DEF tr
<1>7. Fated(Append(s, e), fresh, waived) /\ FatesOf(Append(s, e)) = g
  BY <1>1, <1>2, <1>4, <1>5, <1>6, FateGrows
<1>. QED
  BY <1>4, <1>7 DEF ClaimedIn

-----------------------------------------------------------------------------
(* The mutations of the inbox.                                             *)

\* The log has grown in the open turn, which claimed "taken".
Grows(s, z, fresh, waived, taken) ==
    /\ Fated(z, fresh, waived)
    /\ ClaimedIn(z) = ClaimedIn(s) \cup taken
    /\ TraceOf(z) = TraceOf(s)

LEMMA GrowsNothing ==
    ASSUME NEW s, NEW fresh, NEW waived, Fated(s, fresh, waived)
    PROVE  Grows(s, s \o <<>>, fresh, waived, {})
<1>1. s \in Seq(LogEvents)
  BY FatedLast DEF Logs
<1>2. s \o <<>> = s /\ ClaimedIn(s) \cup {} = ClaimedIn(s)
  BY <1>1
<1>. QED
  BY <1>2, Zenon DEF Grows

LEMMA AppendFates ==
    ASSUME NEW s, NEW fresh, NEW waived, Fated(s, fresh, waived),
           NEW target \in Targets, NEW m \in fresh
    PROVE  Grows(s, s \o AppendEvents(InboxOf(s), target, m),
                 fresh \ {m}, waived, {})
<1>. DEFINE box == InboxOf(s)
            start == Len(box[target])
            inserted == <<m>>
            e == Spliced(target, start, 0, inserted, FALSE)
            taken == Taken(box[target], start, 0)
<1>1. /\ GoodLog(s) /\ s \in Logs /\ Settled(FatesOf(s), fresh, waived)
  BY FatedLast DEF FateAt
<1>2. m \in Messages /\ FatesOf(s).turns + 0 <= 1
  BY <1>1 DEF Settled, Fates
<1>3. start \in Nat /\ start + 0 <= Len(box[target])
  <2>1. box \in Inboxes
    BY <1>1, GoodFits
  <2>. QED
    BY <2>1 DEF Inboxes
<1>4. /\ inserted \in Seq(Messages) /\ Len(inserted) <= 1
      /\ Members(inserted) = {m}
  BY <1>2 DEF Members
<1>5. taken = {}
  BY <1>3 DEF Taken
<1>6. GoodLog(s \o AppendEvents(box, target, m))
  BY <1>1, <1>2, ReplaysAppend DEF Replays
<1>7. AppendEvents(box, target, m) = <<e>>
  BY DEF AppendEvents
<1>8. e \in LogEvents
  BY <1>3, <1>4 DEF Spliced, LogEvents, Splices
<1>9. s \o <<e>> = Append(s, e)
  BY <1>1, <1>8, OneEvent
<1>. HIDE DEF inserted, start
<1>10. GoodLog(Append(s, e))
  BY <1>6, <1>7, <1>9, Zenon
<1>11. SplicedLog(s, e, fresh, waived)
  <2>1. FALSE \in BOOLEAN /\ 0 \in Nat /\ Members(inserted) \subseteq fresh
    BY <1>4
  <2>. HIDE DEF box
  <2>. QED
    BY <1>2, <1>3, <1>4, <1>10, <2>1, SpliceFates DEF box
<1>12. /\ e.target = target /\ e.start = start /\ e.removed = 0
       /\ e.inserted = inserted /\ e.canceled = FALSE
  BY DEF Spliced
<1>. HIDE DEF e, taken
<1>13. Taken(InboxOf(s)[e.target], e.start, e.removed) = {}
  BY <1>5, <1>12 DEF taken
<1>14. Grows(s, Append(s, e), fresh \ {m}, waived, {})
  BY <1>4, <1>11, <1>12, <1>13 DEF Grows, SplicedLog
<1>. QED
  BY <1>7, <1>9, <1>14, Zenon DEF box

LEMMA RespliceFates ==
    ASSUME NEW s, NEW fresh, NEW waived, Fated(s, fresh, waived),
           NEW m, Pending(InboxOf(s), m), NEW inserted \in Seq(Messages),
           Len(inserted) <= 1, Members(inserted) \subseteq fresh
    PROVE  Grows(s, s \o RespliceEvents(InboxOf(s), m, inserted),
                 fresh \ Members(inserted), waived, {})
<1>. DEFINE box == InboxOf(s)
            place == CHOOSE p \in Places(box, m) : TRUE
            target == place[1]
            start == place[2] - 1
            e == Spliced(target, start, 1, inserted, TRUE)
<1>1. /\ GoodLog(s) /\ s \in Logs
  BY FatedLast
<1>2. box \in Inboxes
  BY <1>1, GoodFits
<1>3. /\ target \in Targets /\ start \in Nat
      /\ start + 1 <= Len(box[target])
  <2>1. place[1] \in Targets /\ place[2] \in 1..Len(box[place[1]])
    BY <1>2, PlaceOf
  <2>2. Len(box[place[1]]) \in Nat
    BY <1>2, <2>1 DEF Inboxes
  <2>. QED
    BY <2>1, <2>2
<1>4. GoodLog(s \o RespliceEvents(box, m, inserted))
  BY <1>1, ReplaysResplice DEF Replays
<1>5. RespliceEvents(box, m, inserted) = <<e>>
  BY DEF RespliceEvents
<1>. HIDE DEF target, start, place
<1>6. e \in LogEvents
  BY <1>3 DEF Spliced, LogEvents, Splices
<1>7. s \o <<e>> = Append(s, e)
  BY <1>1, <1>6, OneEvent
<1>8. GoodLog(Append(s, e))
  BY <1>4, <1>5, <1>7, Zenon
<1>9. SplicedLog(s, e, fresh, waived)
  <2>1. TRUE \in BOOLEAN /\ 1 \in Nat
    OBVIOUS
  <2>. HIDE DEF box
  <2>. QED
    BY <1>3, <1>8, <2>1, SpliceFates DEF box
<1>10. e.inserted = inserted /\ e.canceled = TRUE
  BY DEF Spliced
<1>. HIDE DEF e
<1>11. Grows(s, Append(s, e), fresh \ Members(inserted), waived, {})
  BY <1>9, <1>10 DEF Grows, SplicedLog
<1>. QED
  BY <1>5, <1>7, <1>11, Zenon DEF box

\* Emptying a list claims it or cancels it.
LEMMA EmptyingFates ==
    ASSUME NEW s, NEW fresh, NEW waived, Fated(s, fresh, waived),
           NEW target \in Targets, NEW canceled \in BOOLEAN,
           ~canceled => target = "next-step" /\ TraceOf(s).openTurn # 0
    PROVE  LET z == s \o EmptyingEvents(InboxOf(s), target, canceled)
           IN  /\ Grows(s, z, fresh, waived,
                        IF canceled THEN {} ELSE Members(InboxOf(s)[target]))
               /\ target = "next-step" => FatesOf(z).turns = FatesOf(s).turns
<1>. DEFINE box == InboxOf(s)
            list == box[target]
            removed == Len(list)
            inserted == <<>>
            e == Spliced(target, 0, removed, inserted, canceled)
            taken == Taken(list, 0, removed)
            events == EmptyingEvents(box, target, canceled)
            gain == IF canceled THEN {} ELSE Members(list)
<1>1. GoodLog(s) /\ s \in Logs
  BY FatedLast
<1>2. list \in Seq(Messages) /\ removed \in Nat
  <2>1. box \in Inboxes
    BY <1>1, GoodFits
  <2>. QED
    BY <2>1 DEF Inboxes
<1>3. taken = Members(list)
  BY <1>2 DEF Taken, Members
<1>4. CASE list = <<>>
  <2>1. events = <<>> /\ s \o events = s
    <3>1. s \o <<>> = s
      BY <1>1 DEF Logs
    <3>. QED
      BY <1>4, <3>1 DEF EmptyingEvents
  <2>2. gain = {}
    BY <1>4 DEF Members
  <2>. HIDE DEF gain, events
  <2>3. Grows(s, s \o events, fresh, waived, gain)
    BY <2>1, <2>2, GrowsNothing
  <2>. QED
    BY <2>1, <2>3, Zenon DEF gain, events, list, box
<1>5. CASE list # <<>>
  <2>1. events = <<e>>
    BY <1>5 DEF EmptyingEvents
  <2>2. /\ inserted \in Seq(Messages) /\ Len(inserted) <= 1
        /\ Members(inserted) = {} /\ 0 \in Nat
        /\ 0 + removed <= Len(box[target])
    BY <1>2 DEF Members
  <2>3. GoodLog(s \o events)
    BY <1>1, ReplaysEmptying DEF Replays
  <2>4. e \in LogEvents
    BY <1>2, <2>2 DEF Spliced, LogEvents, Splices
  <2>5. s \o <<e>> = Append(s, e)
    BY <1>1, <2>4, OneEvent
  <2>. HIDE DEF inserted, removed, events
  <2>6. GoodLog(Append(s, e))
    BY <2>1, <2>3, <2>5, Zenon
  <2>7. SplicedLog(s, e, fresh, waived)
    <3>1. Members(inserted) \subseteq fresh
      BY <2>2
    <3>2. target = "next-turn" /\ ~canceled =>
             FatesOf(s).turns + removed <= 1
      OBVIOUS
    <3>3. canceled \/ removed = 0 \/ TraceOf(s).openTurn # 0
      OBVIOUS
    <3>. HIDE DEF box
    <3>. QED
      BY <1>2, <2>2, <2>6, <3>1, <3>2, <3>3, SpliceFates DEF box
  <2>8. /\ e.target = target /\ e.start = 0 /\ e.removed = removed
        /\ e.inserted = inserted /\ e.canceled = canceled
    BY DEF Spliced
  <2>. HIDE DEF e, taken, list
  <2>9. Grows(s, Append(s, e), fresh, waived, gain)
    <3>1. fresh \ Members(inserted) = fresh
      BY <2>2
    <3>2. Taken(InboxOf(s)[e.target], e.start, e.removed) = Members(list)
      BY <1>3, <2>8 DEF taken, list
    <3>3. ClaimedIn(Append(s, e)) = ClaimedIn(s) \cup gain
      <4>1. CASE canceled = TRUE
        BY <2>7, <2>8, <4>1 DEF SplicedLog
      <4>2. CASE canceled = FALSE
        BY <2>7, <2>8, <3>2, <4>2 DEF SplicedLog
      <4>. QED
        BY <4>1, <4>2
    <3>. QED
      BY <2>7, <2>8, <3>1, <3>3 DEF Grows, SplicedLog
  <2>10. target = "next-step" =>
           FatesOf(Append(s, e)).turns = FatesOf(s).turns
    BY <2>7, <2>8 DEF SplicedLog
  <2>11. s \o events = Append(s, e)
    BY <2>1, <2>5
  <2>. QED
    BY <2>9, <2>10, <2>11, Zenon DEF events, list, box, gain
<1>. QED
  BY <1>4, <1>5

LEMMA GrowsThen ==
    ASSUME NEW s, NEW z, NEW y, NEW fresh, NEW less, NEW waived,
           NEW one, Grows(s, z, fresh, waived, one),
           NEW two, Grows(z, y, less, waived, two)
    PROVE  Grows(s, y, less, waived, one \cup two)
<1>1. (ClaimedIn(s) \cup one) \cup two = ClaimedIn(s) \cup (one \cup two)
  OBVIOUS
<1>. QED
  BY <1>1, Zenon DEF Grows

LEMMA BatchIsDistinct ==
    ASSUME NEW box \in Inboxes, Single(box), NEW target \in Targets
    PROVE  LET batch == Claimed(box, target)
           IN  /\ batch \in Seq(Messages) /\ Distinct(batch)
               /\ Members(batch) = Members(box["next-step"])
                                      \cup Members(OneTurn(box, target))
<1>. DEFINE steps == box["next-step"]
            turns == box["next-turn"]
            one == OneTurn(box, target)
            batch == steps \o one
<1>1. /\ steps \in Seq(Messages) /\ turns \in Seq(Messages)
      /\ Len(steps) \in Nat /\ Len(turns) \in Nat
  BY DEF Inboxes, Targets
<1>2. /\ one \in Seq(Messages)
      /\ one = <<>> \/ (turns # <<>> /\ one = <<turns[1]>>)
  BY <1>1 DEF OneTurn
<1>3. \A i, j \in 1..Len(steps) : steps[i] = steps[j] => i = j
  <2>1. "next-step" \in Targets
    BY DEF Targets
  <2>. QED
    BY <2>1 DEF Single
<1>4. ASSUME NEW i \in 1..Len(steps), NEW j \in 1..Len(turns),
             steps[i] = turns[j]
      PROVE  FALSE
  <2>1. "next-step" \in Targets /\ "next-turn" \in Targets
          /\ "next-step" # "next-turn"
    BY DEF Targets
  <2>. QED
    BY <1>4, <2>1 DEF Single
<1>. HIDE DEF steps, turns, one
<1>5. /\ batch \in Seq(Messages) /\ Len(batch) = Len(steps) + Len(one)
      /\ \A i \in 1..Len(steps) : batch[i] = steps[i]
      /\ \A i \in 1..Len(one) : batch[Len(steps) + i] = one[i]
  <2>1. /\ batch \in Seq(Messages) /\ Len(batch) = Len(steps) + Len(one)
        /\ \A i \in 1..Len(steps) + Len(one) :
              batch[i] = IF i <= Len(steps) THEN steps[i]
                         ELSE one[i - Len(steps)]
    BY <1>1, <1>2, ConcatProperties
  <2>2. Len(one) \in Nat
    BY <1>2
  <2>. HIDE DEF batch
  <2>. QED
    BY <1>1, <2>1, <2>2
<1>6. Members(batch) = Members(steps) \cup Members(one)
  <2>1. Len(one) \in Nat
    BY <1>2
  <2>. HIDE DEF batch
  <2>2. ASSUME NEW x \in Members(batch)
        PROVE  x \in Members(steps) \cup Members(one)
    <3>1. PICK i \in 1..Len(batch) : batch[i] = x
      BY DEF Members
    <3>2. CASE i <= Len(steps)
      <4>1. i \in 1..Len(steps)
        BY <1>1, <3>2
      <4>. QED
        BY <1>5, <3>1, <4>1 DEF Members
    <3>3. CASE ~(i <= Len(steps))
      <4>1. /\ i - Len(steps) \in 1..Len(one)
            /\ Len(steps) + (i - Len(steps)) = i
        BY <1>1, <1>5, <2>1, <3>3
      <4>. QED
        BY <1>5, <3>1, <4>1 DEF Members
    <3>. QED
      BY <3>2, <3>3
  <2>3. ASSUME NEW x \in Members(steps)
        PROVE  x \in Members(batch)
    <3>1. PICK i \in 1..Len(steps) : steps[i] = x
      BY DEF Members
    <3>2. i \in 1..Len(batch)
      BY <1>1, <1>5, <2>1
    <3>. QED
      BY <1>5, <3>1, <3>2 DEF Members
  <2>4. ASSUME NEW x \in Members(one)
        PROVE  x \in Members(batch)
    <3>1. PICK i \in 1..Len(one) : one[i] = x
      BY DEF Members
    <3>2. Len(steps) + i \in 1..Len(batch)
      BY <1>1, <1>5, <2>1
    <3>. QED
      BY <1>5, <3>1, <3>2 DEF Members
  <2>. QED
    BY <2>2, <2>3, <2>4
<1>7. Distinct(batch)
  <2>. SUFFICES ASSUME NEW i \in 1..Len(batch), NEW j \in 1..Len(batch),
                       batch[i] = batch[j]
                PROVE  i = j
    BY Zenon DEF Distinct
  <2>. HIDE DEF batch
  <2>1. CASE one = <<>>
    <3>1. Len(batch) = Len(steps)
      BY <1>1, <1>5, <2>1
    <3>2. i \in 1..Len(steps) /\ j \in 1..Len(steps)
      BY <3>1
    <3>. QED
      BY <1>3, <1>5, <3>2
  <2>2. CASE turns # <<>> /\ one = <<turns[1]>>
    <3>1. Len(one) = 1 /\ one[1] = turns[1] /\ 1 \in 1..Len(turns)
      BY <1>1, <2>2
    <3>2. /\ Len(batch) = Len(steps) + 1 /\ batch[Len(steps) + 1] = turns[1]
      BY <1>5, <3>1
    <3>3. /\ i \in 1..Len(steps) \/ i = Len(steps) + 1
          /\ j \in 1..Len(steps) \/ j = Len(steps) + 1
      BY <1>1, <3>2
    <3>. QED
      BY <1>3, <1>4, <1>5, <3>1, <3>2, <3>3
  <2>. QED
    BY <1>2, <2>1, <2>2
<1>8. Claimed(box, target) = batch
  BY DEF Claimed, steps, one
<1>. QED
  BY <1>5, <1>6, <1>7, <1>8 DEF steps, one

LEMMA ClaimFates ==
    ASSUME NEW s, NEW fresh, NEW waived, Fated(s, fresh, waived),
           NEW target \in Targets, TraceOf(s).openTurn # 0,
           target = "next-turn" => FatesOf(s).turns = 0
    PROVE  LET batch == Claimed(InboxOf(s), target)
           IN  /\ Grows(s, s \o ClaimEvents(InboxOf(s), target),
                        fresh, waived, Members(batch))
               /\ batch \in Seq(Messages) /\ Distinct(batch)
<1>. DEFINE box == InboxOf(s)
            turns == box["next-turn"]
            one == EmptyingEvents(box, "next-step", FALSE)
            z == s \o one
            left == [box EXCEPT !["next-step"] = <<>>]
            e == Spliced("next-turn", 0, 1, <<>>, FALSE)
            first == OneTurn(box, target)
            two == IF first = <<>> THEN <<>> ELSE <<e>>
            steps == Members(box["next-step"])
<1>0. GoodLog(s) /\ Settled(FatesOf(s), fresh, waived)
        /\ FatesOf(s).inbox = box
  BY FatedLast DEF FateAt
<1>1. s \in Logs /\ box \in Inboxes /\ Single(box)
  BY <1>0, GoodFits DEF Settled
<1>2. /\ Grows(s, z, fresh, waived, steps)
      /\ FatesOf(z).turns = FatesOf(s).turns
  <2>1. "next-step" \in Targets /\ FALSE \in BOOLEAN
    BY DEF Targets
  <2>2. LET y == s \o EmptyingEvents(InboxOf(s), "next-step", FALSE)
        IN  /\ Grows(s, y, fresh, waived,
                     IF FALSE THEN {} ELSE Members(InboxOf(s)["next-step"]))
            /\ "next-step" = "next-step" =>
                  FatesOf(y).turns = FatesOf(s).turns
    BY <2>1, EmptyingFates, Zenon
  <2>. QED
    BY <2>2
<1>3. InboxOf(z) = left /\ left \in Inboxes
  <2>1. Replays(s, z, left)
    BY <1>0, ReplaysEmptying DEF Targets
  <2>. QED
    BY <2>1, GoodFits DEF Replays
<1>4. /\ left["next-turn"] = turns /\ turns \in Seq(Messages)
      /\ Len(turns) \in Nat
  BY <1>1 DEF Inboxes, Targets
<1>5. e \in LogEvents
  BY DEF Spliced, LogEvents, Splices, Targets
<1>6. one \in Logs /\ two \in Logs
  <2>1. one \in Logs
    BY <1>1, EmptyingTyped DEF Targets
  <2>. HIDE DEF e
  <2>2. <<>> \in Logs /\ <<e>> \in Logs
    BY <1>5 DEF Logs
  <2>. QED
    BY <2>1, <2>2, Zenon
<1>7. z \o two = s \o (one \o two)
  <2>. HIDE DEF one, two
  <2>. QED
    BY <1>1, <1>6 DEF Logs
<1>8. ClaimEvents(box, target) = one \o two
  BY Zenon DEF ClaimEvents
<1>9. GoodLog(z \o two)
  <2>1. GoodLog(s \o ClaimEvents(box, target))
    BY <1>0, ReplaysClaim DEF Replays
  <2>. HIDE DEF one, two, z, box
  <2>. QED
    BY <1>7, <1>8, <2>1
<1>10. Fated(z, fresh, waived) /\ TraceOf(z).openTurn # 0
  BY <1>2 DEF Grows
<1>11. Grows(z, z \o two, fresh, waived, Members(first))
  <2>1. CASE first = <<>>
    <3>1. Members(first) = {} /\ two = <<>>
      BY <2>1 DEF Members
    <3>. HIDE DEF first, two, z
    <3>. QED
      BY <1>10, <3>1, GrowsNothing
  <2>2. CASE first # <<>>
    <3>1. target = "next-turn" /\ turns # <<>> /\ first = <<turns[1]>>
      <4>1. target = "next-turn" /\ turns # <<>> /\ first = <<Head(turns)>>
        BY <2>2, Zenon DEF OneTurn
      <4>2. Head(turns) = turns[1]
        BY <1>4, <4>1
      <4>. QED
        BY <4>1, <4>2
    <3>2. two = <<e>> /\ Members(first) = {turns[1]}
      <4>. HIDE DEF first, e, turns
      <4>1. two = <<e>>
        BY <2>2, Zenon
      <4>2. Members(first) = {turns[1]}
        BY <3>1 DEF Members
      <4>. QED
        BY <4>1, <4>2
    <3>3. z \o two = Append(z, e)
      <4>1. GoodLog(z)
        BY <1>10, FatedLast
      <4>. HIDE DEF z, e
      <4>. QED
        BY <1>5, <3>2, <4>1, OneEvent
    <3>. HIDE DEF two, first, z, left
    <3>4. SplicedLog(z, e, fresh, waived)
      <4>1. /\ "next-turn" \in Targets /\ 0 \in Nat /\ 1 \in Nat
            /\ <<>> \in Seq(Messages) /\ FALSE \in BOOLEAN
            /\ Len(<<>>) <= 1 /\ Members(<<>>) \subseteq fresh
        BY DEF Targets, Members
      <4>2. 0 + 1 <= Len(InboxOf(z)["next-turn"])
        BY <1>3, <1>4, <3>1
      <4>3. FatesOf(z).turns + 1 <= 1
        BY <1>2, <3>1
      <4>4. GoodLog(Append(z, Spliced("next-turn", 0, 1, <<>>, FALSE)))
        BY <1>9, <3>3
      <4>. HIDE DEF turns
      <4>. QED
        BY <1>10, <4>1, <4>2, <4>3, <4>4, SpliceFates
    <3>5. /\ e.target = "next-turn" /\ e.start = 0 /\ e.removed = 1
          /\ e.inserted = <<>> /\ e.canceled = FALSE
      BY DEF Spliced
    <3>. HIDE DEF e
    <3>6. Taken(InboxOf(z)[e.target], e.start, e.removed) = {turns[1]}
      BY <1>3, <1>4, <3>5 DEF Taken
    <3>7. fresh \ Members(e.inserted) = fresh
      BY <3>5 DEF Members
    <3>. QED
      BY <3>2, <3>3, <3>4, <3>5, <3>6, <3>7 DEF SplicedLog, Grows
  <2>. QED
    BY <2>1, <2>2
<1>12. LET batch == Claimed(box, target)
       IN  /\ batch \in Seq(Messages) /\ Distinct(batch)
           /\ Members(batch) = steps \cup Members(first)
  BY <1>1, BatchIsDistinct
<1>. HIDE DEF one, two, z, left, first, steps
<1>13. Grows(s, z \o two, fresh, waived, steps \cup Members(first))
  BY <1>2, <1>11, GrowsThen
<1>. QED
  BY <1>7, <1>8, <1>12, <1>13

-----------------------------------------------------------------------------
(* Runs of events.                                                         *)

\* A step enters its batch, message by message.
LEMMA TextsFates ==
    ASSUME NEW s, NEW fresh, NEW waived, Fated(s, fresh, waived),
           TraceOf(s).openTurn # 0,
           NEW batch \in Seq(Messages), Distinct(batch),
           Members(batch) \subseteq ClaimedIn(s)
    PROVE  LET z == s \o [i \in 1..Len(batch) |-> UserMessage(batch[i])]
           IN  /\ Fated(z, fresh, waived)
               /\ ClaimedIn(z) = ClaimedIn(s) \ Members(batch)
<1>. DEFINE texts == [i \in 1..Len(batch) |-> UserMessage(batch[i])]
            At(n) == s \o SubSeq(texts, 1, n)
            Sent(n) == {batch[i] : i \in 1..n}
            Stands(n) == /\ Fated(At(n), fresh, waived)
                         /\ ClaimedIn(At(n)) = ClaimedIn(s) \ Sent(n)
                         /\ TraceOf(At(n)) = TraceOf(s)
            S == {n \in Nat : n <= Len(batch) => Stands(n)}
<1>0. GoodLog(s) /\ s \in Seq(LogEvents) /\ Len(batch) \in Nat
  BY FatedLast DEF Logs
<1>1. texts \in Seq(Texts) /\ Len(texts) = Len(batch)
        /\ \A i \in 1..Len(batch) : texts[i] = UserMessage(batch[i])
  <2>1. \A i \in 1..Len(batch) : UserMessage(batch[i]) \in Texts
    BY DEF UserMessage, Texts
  <2>. QED
    BY <1>0, <2>1
<1>. HIDE DEF texts
<1>2. 0 \in S
  <2>1. SubSeq(texts, 1, 0) = <<>> /\ s \o <<>> = s
    BY <1>0, <1>1
  <2>2. At(0) = s /\ Sent(0) = {}
    <3>1. At(0) = s
      BY <2>1
    <3>2. 1..0 = {}
      OBVIOUS
    <3>3. Sent(0) = {}
      BY <3>2
    <3>. QED
      BY <3>1, <3>3
  <2>. HIDE DEF At, Sent
  <2>3. Stands(0)
    BY <2>2
  <2>. HIDE DEF Stands
  <2>. QED
    BY <2>3
<1>3. ASSUME NEW n \in Nat, n \in S
      PROVE  n + 1 \in S
  <2>. SUFFICES ASSUME n + 1 <= Len(batch)
                PROVE  Stands(n + 1)
    BY DEF S
  <2>. DEFINE front == SubSeq(texts, 1, n)
              m == batch[n + 1]
              e == UserMessage(m)
  <2>1. Stands(n) /\ n + 1 \in 1..Len(batch)
    BY <1>0, <1>3
  <2>2. /\ front \in Seq(Texts) /\ e \in Texts
        /\ SubSeq(texts, 1, n + 1) = Append(front, e)
    <3>1. texts[n + 1] = e
      BY <1>1, <2>1
    <3>2. texts[n + 1] \in Texts
      BY <1>1, <2>1
    <3>. HIDE DEF e
    <3>3. front \in Seq(Texts)
            /\ SubSeq(texts, 1, n + 1) = Append(front, texts[n + 1])
      BY <1>0, <1>1, <2>1
    <3>. QED
      BY <3>1, <3>2, <3>3
  <2>. HIDE DEF front, e
  <2>3. At(n + 1) = Append(At(n), e)
    <3>1. front \in Seq(LogEvents) /\ e \in LogEvents
      <4>1. Texts \subseteq LogEvents
        BY DEF LogEvents
      <4>. QED
        BY <2>2, <4>1
    <3>2. s \o Append(front, e) = Append(s \o front, e)
      BY <1>0, <3>1
    <3>. QED
      BY <2>2, <3>2 DEF front
  <2>4. GoodLog(At(n + 1))
    <3>0. Append(front, e) \in Seq(Texts)
      BY <2>2
    <3>1. SubSeq(texts, 1, n + 1) \in Seq(Texts)
      BY <2>2, <3>0, Zenon
    <3>. QED
      BY <1>0, <3>1, TextsKeep DEF Replays
  <2>5. m \in ClaimedIn(At(n))
    <3>1. m \in Members(batch)
      BY <2>1 DEF Members
    <3>2. m \notin Sent(n)
      <4>1. SUFFICES ASSUME NEW i \in 1..n, batch[i] = m
                     PROVE  FALSE
        OBVIOUS
      <4>2. i \in 1..Len(batch) /\ i # n + 1
        BY <1>0, <2>1
      <4>. QED
        BY <2>1, <4>1, <4>2 DEF Distinct
    <3>. HIDE DEF At, Sent, m
    <3>. QED
      BY <2>1, <3>1, <3>2
  <2>6. Sent(n + 1) = Sent(n) \cup {m}
    OBVIOUS
  <2>. HIDE DEF At, Sent, m
  <2>7. /\ Fated(Append(At(n), e), fresh, waived)
        /\ ClaimedIn(Append(At(n), e)) = ClaimedIn(At(n)) \ {m}
        /\ TraceOf(Append(At(n), e)) = TraceOf(At(n))
    BY <2>1, <2>3, <2>4, <2>5, TextFates DEF e
  <2>. QED
    BY <2>1, <2>3, <2>6, <2>7
<1>. HIDE DEF S
<1>4. \A n \in Nat : n \in S
  BY <1>2, <1>3, InboxScan!SetInduction
<1>5. Stands(Len(batch))
  <2>1. Len(batch) \in S /\ Len(batch) <= Len(batch)
    BY <1>0, <1>4
  <2>. HIDE DEF Stands
  <2>. QED
    BY <2>1 DEF S
<1>6. At(Len(batch)) = s \o texts
  BY <1>0, <1>1
<1>7. Sent(Len(batch)) = Members(batch)
  BY DEF Members
<1>. HIDE DEF At, Sent
<1>. QED
  BY <1>5, <1>6, <1>7 DEF texts

LEMMA QuietRun ==
    ASSUME NEW s, NEW fresh, NEW waived, Fated(s, fresh, waived),
           NEW quiet \in Seq(Quiet), GoodLog(s \o quiet)
    PROVE  LET z == s \o quiet
           IN  Fated(z, fresh, waived) /\ ClaimedIn(z) = ClaimedIn(s)
<1>. DEFINE z == s \o quiet
            At(n) == s \o SubSeq(quiet, 1, n)
            Stands(n) == /\ Fated(At(n), fresh, waived)
                         /\ ClaimedIn(At(n)) = ClaimedIn(s)
            S == {n \in Nat : n <= Len(quiet) => Stands(n)}
<1>0. /\ s \in Seq(LogEvents) /\ Len(quiet) \in Nat /\ Len(s) \in Nat
      /\ quiet \in Seq(LogEvents)
  <2>1. Quiet \subseteq LogEvents
    BY DEF Quiet, LogEvents
  <2>2. s \in Seq(LogEvents)
    BY FatedLast DEF Logs
  <2>. QED
    BY <2>1, <2>2
<1>1. 0 \in S
  <2>1. SubSeq(quiet, 1, 0) = <<>> /\ s \o <<>> = s
    BY <1>0
  <2>2. At(0) = s
    BY <2>1
  <2>. HIDE DEF At
  <2>3. Stands(0)
    BY <2>2
  <2>. HIDE DEF Stands
  <2>. QED
    BY <2>3
<1>2. ASSUME NEW n \in Nat, n \in S
      PROVE  n + 1 \in S
  <2>. SUFFICES ASSUME n + 1 <= Len(quiet)
                PROVE  Stands(n + 1)
    BY DEF S
  <2>. DEFINE front == SubSeq(quiet, 1, n)
              e == quiet[n + 1]
  <2>1. Stands(n) /\ n + 1 \in 1..Len(quiet)
    BY <1>0, <1>2
  <2>2. /\ front \in Seq(LogEvents) /\ e \in Quiet /\ e \in LogEvents
        /\ SubSeq(quiet, 1, n + 1) = Append(front, e)
    BY <1>0, <2>1
  <2>3. At(n + 1) = Append(At(n), e)
    <3>. HIDE DEF front, e
    <3>1. s \o Append(front, e) = Append(s \o front, e)
      BY <1>0, <2>2
    <3>. QED
      BY <2>2, <3>1 DEF front
  <2>4. GoodLog(At(n + 1))
    <3>1. At(n + 1) = SubSeq(z, 1, Len(s) + n + 1)
      <4>. DEFINE p == At(n + 1)
                  q == SubSeq(z, 1, Len(s) + n + 1)
                  r == SubSeq(quiet, 1, n + 1)
      <4>1. /\ r \in Seq(LogEvents) /\ Len(r) = n + 1
            /\ \A i \in 1..n + 1 : r[i] = quiet[i]
        BY <1>0, <2>1
      <4>. HIDE DEF r
      <4>2. /\ p \in Seq(LogEvents) /\ Len(p) = Len(s) + n + 1
            /\ \A i \in 1..Len(s) + n + 1 :
                  p[i] = IF i <= Len(s) THEN s[i] ELSE r[i - Len(s)]
        <5>1. p = s \o r
          BY DEF r
        <5>2. /\ p \in Seq(LogEvents) /\ Len(p) = Len(s) + Len(r)
              /\ \A i \in 1..Len(s) + Len(r) :
                    p[i] = IF i <= Len(s) THEN s[i] ELSE r[i - Len(s)]
          BY <1>0, <4>1, <5>1, ConcatProperties
        <5>. HIDE DEF p
        <5>. QED
          BY <1>0, <4>1, <5>2
      <4>3. /\ z \in Seq(LogEvents) /\ Len(z) = Len(s) + Len(quiet)
            /\ \A i \in 1..Len(s) + Len(quiet) :
                  z[i] = IF i <= Len(s) THEN s[i] ELSE quiet[i - Len(s)]
        BY <1>0, ConcatProperties
      <4>. HIDE DEF p, z
      <4>4. /\ q \in Seq(LogEvents) /\ Len(q) = Len(s) + n + 1
            /\ \A i \in 1..Len(s) + n + 1 : q[i] = z[i]
        BY <1>0, <2>1, <4>3
      <4>. HIDE DEF q
      <4>5. ASSUME NEW i \in 1..Len(s) + n + 1
            PROVE  p[i] = q[i]
        <5>1. i \in 1..Len(s) + Len(quiet) /\ q[i] = z[i]
          BY <1>0, <2>1, <4>4
        <5>2. ~(i <= Len(s)) => i - Len(s) \in 1..n + 1
          BY <1>0
        <5>. QED
          BY <4>1, <4>2, <4>3, <5>1, <5>2
      <4>6. p = q
        BY <4>2, <4>4, <4>5
      <4>. QED
        BY <4>6 DEF p, q
    <3>2. Len(s) + n + 1 \in 0..Len(z)
      <4>1. Len(z) = Len(s) + Len(quiet)
        BY <1>0
      <4>. QED
        BY <1>0, <2>1, <4>1
    <3>. HIDE DEF At, z
    <3>3. GoodLog(z)
      BY DEF z
    <3>. QED
      BY <3>1, <3>2, <3>3, GoodPrefix
  <2>. HIDE DEF At, e
  <2>5. /\ Fated(Append(At(n), e), fresh, waived)
        /\ ClaimedIn(Append(At(n), e)) = ClaimedIn(At(n))
    BY <2>1, <2>2, <2>3, <2>4, QuietFates
  <2>. QED
    BY <2>1, <2>3, <2>5
<1>. HIDE DEF S
<1>3. \A n \in Nat : n \in S
  BY <1>1, <1>2, InboxScan!SetInduction
<1>4. Stands(Len(quiet))
  <2>1. Len(quiet) \in S /\ Len(quiet) <= Len(quiet)
    BY <1>0, <1>3
  <2>. HIDE DEF Stands
  <2>. QED
    BY <2>1 DEF S
<1>5. At(Len(quiet)) = s \o quiet
  BY <1>0
<1>. HIDE DEF At
<1>. QED
  BY <1>4, <1>5

LEMMA GoodFront ==
    ASSUME NEW a \in Seq(LogEvents), NEW b \in Seq(LogEvents), GoodLog(a \o b)
    PROVE  GoodLog(a)
<1>1. /\ SubSeq(a \o b, 1, Len(a)) = a /\ Len(a) \in 0..Len(a \o b)
  OBVIOUS
<1>. DEFINE z == a \o b
<1>. HIDE DEF z
<1>2. GoodLog(SubSeq(z, 1, Len(a)))
  BY <1>1, GoodPrefix DEF z
<1>. QED
  BY <1>1, <1>2 DEF z

\* The events of a step are quiet.
LEMMA StepIsQuiet ==
    ASSUME phase.turn \in Nat, phase.step \in Nat, NEW outcome \in Outcomes
    PROVE  /\ StepBody(outcome) \in Seq(Quiet)
           /\ StepEvents(outcome) \in Seq(Quiet)
<1>. DEFINE t == phase.turn
            p == phase.step
            over == StepEnd(t, p)
            call == ToolCall(t, p, 1)
            result == ToolResult(t, p, 1, "none")
            none == AssistantMessage(t, p, <<>>)
            asks == AssistantMessage(t, p, << 1 >>)
            two == StepBody(outcome)
<1>1. over \in Quiet
  BY DEF StepEnd, Quiet
<1>2. call \in Quiet
  BY DEF ToolCall, Quiet
<1>3. result \in Quiet
  BY DEF ToolResult, Quiet, Codes
<1>4. none \in Quiet
  BY DEF AssistantMessage, Quiet
<1>5. asks \in Quiet
  BY DEF AssistantMessage, Quiet
<1>6. ToolRun = <<call, result>> /\ ToolRun[1] = call
  BY DEF ToolRun
<1>7. \/ two = <<>> \/ two = <<none>> \/ two = <<asks>>
      \/ two = <<asks, call>> \/ two = <<asks>> \o <<call, result>>
  BY <1>6, Zenon DEF StepBody, Answer, Outcomes, Settling
<1>8. StepEvents(outcome) = two \o <<over>>
  BY DEF StepEvents, StepOver
<1>. HIDE DEF two, over, call, result, none, asks
<1>9. /\ <<>> \in Seq(Quiet) /\ <<over>> \in Seq(Quiet)
      /\ <<none>> \in Seq(Quiet) /\ <<asks>> \in Seq(Quiet)
      /\ <<asks, call>> \in Seq(Quiet) /\ <<call, result>> \in Seq(Quiet)
  BY <1>1, <1>2, <1>3, <1>4, <1>5
<1>10. <<asks>> \o <<call, result>> \in Seq(Quiet)
  BY <1>9
<1>11. two \in Seq(Quiet)
  BY <1>7, <1>9, <1>10, Zenon
<1>12. two \o <<over>> \in Seq(Quiet)
  BY <1>9, <1>11
<1>. QED
  BY <1>8, <1>11, <1>12 DEF two

LEMMA EndFates ==
    ASSUME NEW s, NEW fresh, NEW waived, Fated(s, fresh, waived),
           NEW turn \in Nat, NEW reason \in Reasons,
           reason \in Ends => ClaimedIn(s) \subseteq waived,
           GoodLog(s \o <<TurnEnd(turn, reason)>>)
    PROVE  Fated(s \o <<TurnEnd(turn, reason)>>, fresh, waived)
<1>. DEFINE e == TurnEnd(turn, reason)
<1>1. e \in LogEvents /\ GoodLog(s)
  BY FatedLast DEF TurnEnd, LogEvents
<1>2. s \o <<e>> = Append(s, e)
  <2>. HIDE DEF e
  <2>. QED
    BY <1>1, OneEvent
<1>3. GoodLog(Append(s, e))
  BY <1>2
<1>4. Fated(Append(s, e), fresh, waived)
  BY <1>3, TurnEndFates
<1>. QED
  BY <1>2, <1>4

\* What the repair closes, no turn that ended well has claimed.
LEMMA RepairFates ==
    ASSUME NEW s, NEW fresh, NEW waived, Fated(s, fresh, waived)
    PROVE  Fated(s \o InterruptedTurnClosers(s), fresh, waived)
<1>. DEFINE sc == RepairOf(s)
            t == sc.turn
            p == sc.step
            answers == [i \in 1..Len(sc.calls) |->
                ToolResult(t, p, sc.calls[i],
                           IF sc.calls[i] \in sc.started
                           THEN "TOOL_OUTCOME_UNKNOWN"
                           ELSE "TOOL_NOT_STARTED")]
            over == IF p = 0 THEN <<>> ELSE <<StepEnd(t, p)>>
            last == <<TurnEnd(t, "interrupted")>>
            quiet == answers \o over
            z == s \o InterruptedTurnClosers(s)
<1>1. GoodLog(s) /\ s \in Seq(LogEvents) /\ GoodLog(z)
  BY FatedLast, RepairCloses DEF Logs
<1>2. sc.calls \in {<<>>, << 1 >>} /\ t \in Nat /\ p \in Nat
  BY <1>1, GoodFits DEF Fits, Scans
<1>3. InterruptedTurnClosers(s) = IF t = 0 THEN <<>> ELSE quiet \o last
  BY Zenon DEF InterruptedTurnClosers, RepairOf
<1>4. quiet \in Seq(Quiet)
  <2>1. answers \in Seq(Quiet)
    <3>1. ASSUME NEW i \in 1..Len(sc.calls)
          PROVE  answers[i] \in Quiet
      <4>1. sc.calls[i] = 1
        BY <1>2
      <4>. HIDE DEF sc
      <4>2. answers[i] = ToolResult(t, p, 1, IF sc.calls[i] \in sc.started
                                             THEN "TOOL_OUTCOME_UNKNOWN"
                                             ELSE "TOOL_NOT_STARTED")
        BY <4>1
      <4>3. \A code \in Codes : ToolResult(t, p, 1, code) \in Quiet
        BY <1>2 DEF ToolResult, Quiet
      <4>. HIDE DEF answers
      <4>. QED
        BY <4>2, <4>3 DEF Codes
    <3>2. Len(sc.calls) \in Nat
      BY <1>2
    <3>3. answers = [i \in 1..Len(sc.calls) |-> answers[i]]
      OBVIOUS
    <3>. HIDE DEF answers, sc
    <3>. QED
      BY <3>1, <3>2, <3>3
  <2>2. over \in Seq(Quiet)
    <3>1. StepEnd(t, p) \in Quiet
      BY <1>2 DEF StepEnd, Quiet
    <3>. QED
      BY <3>1
  <2>. HIDE DEF answers, over
  <2>. QED
    BY <2>1, <2>2
<1>5. last \in Seq(LogEvents)
  <2>1. TurnEnd(t, "interrupted") \in LogEvents
    BY <1>2 DEF TurnEnd, LogEvents, Reasons
  <2>. QED
    BY <2>1
<1>6. quiet \in Seq(LogEvents)
  <2>1. Quiet \subseteq LogEvents
    BY DEF Quiet, LogEvents
  <2>. HIDE DEF quiet
  <2>. QED
    BY <1>4, <2>1
<1>. HIDE DEF quiet
<1>7. CASE t = 0
  <2>1. s \o <<>> = s
    BY <1>1
  <2>. QED
    BY <1>3, <1>7, <2>1
<1>8. CASE t # 0
  <2>1. z = (s \o quiet) \o last
    <3>. HIDE DEF last
    <3>. QED
      BY <1>1, <1>3, <1>5, <1>6, <1>8, Associates, SMTT(30)
  <2>2. s \o quiet \in Seq(LogEvents)
    BY <1>1, <1>6
  <2>3. GoodLog(s \o quiet)
    <3>. DEFINE front == s \o quiet
    <3>. HIDE DEF last, front
    <3>. QED
      BY <1>1, <1>5, <2>1, <2>2, GoodFront DEF front
  <2>4. Fated(s \o quiet, fresh, waived)
    BY <1>4, <2>3, QuietRun
  <2>5. Fated((s \o quiet) \o last, fresh, waived)
    <3>1. "interrupted" \in Reasons /\ "interrupted" \notin Ends
      BY DEF Reasons, Ends
    <3>2. GoodLog((s \o quiet) \o last)
      BY <1>1, <2>1
    <3>. DEFINE front == s \o quiet
    <3>. HIDE DEF front, t
    <3>. QED
      BY <1>2, <2>4, <3>1, <3>2, EndFates DEF front, t
  <2>. QED
    BY <2>1, <2>5
<1>. QED
  BY <1>7, <1>8

-----------------------------------------------------------------------------
(* The driver and the fates.                                               *)

\* What the open turn has claimed is the batch that waits at its step
\* boundary, and then nothing but what the hooks took out of it.
FateInv ==
    /\ Fated(log, unsent, rewritten)
    /\ driver.at = "preStep" =>
          /\ Distinct(driver.claimed)
          /\ Members(driver.claimed) \subseteq ClaimedIn(log)
          /\ ClaimedIn(log) \subseteq Members(driver.claimed) \cup rewritten
    /\ driver.at \in {"step", "stopping"} => ClaimedIn(log) \subseteq rewritten

\* Between two turns nothing is held.
LEMMA RestKeepsFates ==
    ASSUME Fated(log', unsent', rewritten'),
           driver'.at \in {"off", "starting", "top", "returning"}
    PROVE  FateInv'
BY DEF FateInv

LEMMA GrowthKeepsFates ==
    ASSUME FateInv, Grows(log, log', unsent', rewritten', {}),
           UNCHANGED <<driver, rewritten>>
    PROVE  FateInv'
<1>1. /\ Fated(log', unsent', rewritten')
      /\ ClaimedIn(log') = ClaimedIn(log)
      /\ driver' = driver /\ rewritten' = rewritten
  BY DEF Grows
<1>. QED
  BY <1>1 DEF FateInv

LEMMA CancelsOnKeepsFates ==
    ASSUME LogInv, FateInv, NEW cause, NEW left \in SUBSET Targets, NEW below,
           CancelsOn(cause, left, below), UNCHANGED <<driver, unsent, rewritten>>
    PROVE  FateInv'
<1>1. Fated(log, unsent, rewritten) /\ InboxOf(log) = inbox
  BY DEF FateInv, LogInv
<1>2. CASE log' = log
  BY <1>2 DEF FateInv
<1>3. ASSUME NEW t \in Targets, log' = log \o EmptyingEvents(inbox, t, TRUE)
      PROVE  FateInv'
  <2>1. Grows(log, log', unsent', rewritten', {})
    BY <1>1, <1>3, EmptyingFates
  <2>. QED
    BY <2>1, GrowthKeepsFates
<1>. QED
  BY <1>2, <1>3, CancelsOnEffect

LEMMA ListenersKeepFates ==
    ASSUME LogInv, FateInv, Listeners
    PROVE  FateInv'
<1>1. Fated(log, unsent, rewritten) /\ InboxOf(log) = inbox
  BY DEF FateInv, LogInv
<1>. USE DEF Targets
<1>2. ASSUME NEW m \in Messages, NEW target \in Targets,
             NEW wakeup \in BOOLEAN, Send(m, target, wakeup)
      PROVE  FateInv'
  <2>. DEFINE resolved == IF wakeup /\ phase.kind # "idle" /\ Aborted
                          THEN "next-turn" ELSE target
  <2>1. /\ log' = log \o AppendEvents(inbox, resolved, m)
        /\ m \in unsent /\ unsent' = unsent \ {m}
        /\ UNCHANGED <<driver, rewritten>>
    BY <1>2, Zenon DEF Send
  <2>2. resolved \in Targets
    OBVIOUS
  <2>. HIDE DEF resolved
  <2>3. Grows(log, log', unsent', rewritten', {})
    BY <1>1, <2>1, <2>2, AppendFates
  <2>. QED
    BY <2>1, <2>3, GrowthKeepsFates
<1>3. ASSUME NEW m \in Messages, NEW inserted \in Seq(Messages),
             Len(inserted) <= 1, Members(inserted) \subseteq unsent,
             Pending(inbox, m), unsent' = unsent \ Members(inserted),
             log' = log \o RespliceEvents(inbox, m, inserted),
             UNCHANGED <<driver, rewritten>>
      PROVE  FateInv'
  <2>1. Grows(log, log', unsent', rewritten', {})
    BY <1>1, <1>3, RespliceFates
  <2>. QED
    BY <1>3, <2>1, GrowthKeepsFates
<1>4. ASSUME NEW m \in Messages, RemoveMessage(m)
      PROVE  FateInv'
  <2>1. /\ log' = log \o RespliceEvents(inbox, m, <<>>)
        /\ UNCHANGED <<unsent, driver, rewritten>> /\ Pending(inbox, m)
    BY <1>4, Zenon DEF RemoveMessage
  <2>2. /\ <<>> \in Seq(Messages) /\ Len(<<>>) <= 1
        /\ Members(<<>>) = {}
    BY DEF Members
  <2>3. unsent' = unsent \ Members(<<>>) /\ Members(<<>>) \subseteq unsent
    BY <2>1, <2>2
  <2>. QED
    BY <1>3, <2>1, <2>2, <2>3
<1>5. ASSUME NEW m \in Messages, NEW new \in Messages, ReplaceMessage(m, new)
      PROVE  FateInv'
  <2>1. /\ log' = log \o RespliceEvents(inbox, m, <<new>>)
        /\ new \in unsent /\ unsent' = unsent \ {new}
        /\ UNCHANGED <<driver, rewritten>> /\ Pending(inbox, m)
    BY <1>5, Zenon DEF ReplaceMessage
  <2>2. /\ <<new>> \in Seq(Messages) /\ Len(<<new>>) = 1
        /\ <<new>>[1] = new
    OBVIOUS
  <2>3. Members(<<new>>) = {new}
    BY <2>2 DEF Members
  <2>4. /\ unsent' = unsent \ Members(<<new>>)
        /\ Members(<<new>>) \subseteq unsent /\ Len(<<new>>) <= 1
    BY <2>1, <2>2, <2>3
  <2>. QED
    BY <1>3, <2>1, <2>2, <2>4
<1>6. ASSUME NEW cause \in Causes, NEW keepInbox \in BOOLEAN,
             Cancel(cause, keepInbox)
      PROVE  FateInv'
  <2>1. UNCHANGED <<unsent, driver, rewritten>>
    BY <1>6 DEF Cancel
  <2>2. CASE keepInbox
    <3>1. log' = log
      BY <1>6, <2>2 DEF Cancel
    <3>. QED
      BY <2>1, <3>1 DEF FateInv
  <2>3. CASE ~keepInbox
    <3>1. CancelsOn(cause, Targets, frames)
      BY <1>6, <2>3 DEF Cancel
    <3>. QED
      BY <2>1, <3>1, CancelsOnKeepsFates
  <2>. QED
    BY <2>2, <2>3
<1>7. CASE StartMaintenance
  <2>1. UNCHANGED <<log, driver, unsent, rewritten>>
    BY <1>7 DEF StartMaintenance
  <2>. QED
    BY <2>1 DEF FateInv
<1>8. \/ \E m \in Messages :
            \/ \E target \in Targets, wakeup \in BOOLEAN :
                  Send(m, target, wakeup)
            \/ RemoveMessage(m)
            \/ \E new \in Messages : ReplaceMessage(m, new)
      \/ \E cause \in Causes, keepInbox \in BOOLEAN : Cancel(cause, keepInbox)
      \/ StartMaintenance
  BY Zenon DEF Listeners
<1>. QED
  BY <1>2, <1>4, <1>5, <1>6, <1>7, <1>8

LEMMA WakesKeepFates ==
    ASSUME DriverInv, LogInv, FateInv,
           Wake \/ Replay \/ EndMaintenance \/ CancelGoesOn
    PROVE  FateInv'
<1>1. CASE CancelGoesOn
  <2>. DEFINE f == frames[Len(frames)]
  <2>1. f \in Frames /\ f.call = "cancel"
    BY <1>1, TypedParts, FramePopped DEF CancelGoesOn, DriverInv
  <2>2. f.left \in SUBSET Targets
    BY <2>1 DEF Frames, Sends, Cancels
  <2>3. /\ CancelsOn(f.cause, f.left, Outer)
        /\ UNCHANGED <<driver, unsent, rewritten>>
    BY <1>1 DEF CancelGoesOn
  <2>. HIDE DEF f
  <2>. QED
    BY <2>2, <2>3, CancelsOnKeepsFates
<1>2. CASE Wake \/ Replay \/ EndMaintenance
  <2>1. UNCHANGED <<log, unsent, rewritten>>
    BY <1>2, Zenon DEF Wake, Replay, EndMaintenance
  <2>2. \/ driver' = driver
        \/ driver' = DriverAt("starting")
        \/ driver' = [DriverAt("starting") EXCEPT !.depth = Len(frames')]
    BY <1>2, Zenon DEF Wake, Replay, EndMaintenance, WakeDriver
  <2>3. CASE driver' = driver
    BY <2>1, <2>3 DEF FateInv
  <2>4. CASE driver' # driver
    <3>1. driver'.at = "starting"
      BY <2>2, <2>4 DEF DriverAt, NoDriver
    <3>2. Fated(log', unsent', rewritten')
      BY <2>1 DEF FateInv
    <3>. QED
      BY <3>1, <3>2, RestKeepsFates
  <2>. QED
    BY <2>3, <2>4
<1>. QED
  BY <1>1, <1>2

\* A turn that closes with "s" behind it.
LEMMA LeavingKeepsFates ==
    ASSUME NEW s, Fated(s, unsent', rewritten'), NEW reason \in Reasons,
           phase.turn \in Nat,
           reason \in Ends => ClaimedIn(s) \subseteq rewritten',
           log' = s \o <<TurnEnd(phase.turn, reason)>>, LogInv',
           driver'.at \in {"top", "returning"}
    PROVE  FateInv'
<1>1. GoodLog(s \o <<TurnEnd(phase.turn, reason)>>)
  BY DEF LogInv
<1>2. Fated(log', unsent', rewritten')
  BY <1>1, EndFates
<1>. QED
  BY <1>2, RestKeepsFates

\* A step boundary of the open turn, with "s" behind it.
LEMMA ClaimKeepsFates ==
    ASSUME NEW s, Fated(s, unsent', rewritten'),
           ClaimedIn(s) \subseteq rewritten', TraceOf(s).openTurn # 0,
           NEW target \in Targets, NEW ends, NEW in, InboxOf(s) = in,
           target = "next-turn" => FatesOf(s).turns = 0,
           log' = s \o ClaimEvents(in, target),
           driver' = [at |-> "preStep", claimed |-> Claimed(in, target),
                      target |-> target, ends |-> ends, depth |-> 0]
    PROVE  FateInv'
<1>. DEFINE batch == Claimed(InboxOf(s), target)
<1>1. /\ Grows(s, s \o ClaimEvents(InboxOf(s), target),
               unsent', rewritten', Members(batch))
      /\ Distinct(batch)
  BY ClaimFates
<1>2. driver'.at = "preStep" /\ driver'.claimed = batch
  OBVIOUS
<1>. HIDE DEF batch
<1>3. Fated(log', unsent', rewritten')
        /\ ClaimedIn(log') = ClaimedIn(s) \cup Members(batch)
  BY <1>1 DEF Grows
<1>. QED
  BY <1>1, <1>2, <1>3 DEF FateInv

LEMMA EndTurnKeepsFates ==
    ASSUME DriverInv, LogInv', NEW events, NEW reason \in Reasons,
           EndTurn(reason, events),
           Fated(log \o events, unsent', rewritten'),
           reason \in Ends => ClaimedIn(log \o events) \subseteq rewritten'
    PROVE  FateInv'
<1>. DEFINE s == log \o events
<1>1. /\ \/ log' = s \o <<TurnEnd(phase.turn, reason)>>
         \/ log' = s
      /\ driver'.at = "returning"
  BY DEF EndTurn, Stop, DriverAt, NoDriver
<1>2. phase.turn \in Nat
  BY DEF DriverInv, TypeOK
<1>. HIDE DEF s
<1>3. Fated(s, unsent', rewritten')
        /\ (reason \in Ends => ClaimedIn(s) \subseteq rewritten')
  BY DEF s
<1>4. CASE log' = s
  BY <1>1, <1>3, <1>4, RestKeepsFates
<1>. QED
  BY <1>1, <1>2, <1>3, <1>4, LeavingKeepsFates

LEMMA CloseTurnKeepsFates ==
    ASSUME DriverInv, LogInv, LogInv', Fated(log, unsent, rewritten'),
           ClaimedIn(log) \subseteq rewritten', CloseTurn
    PROVE  FateInv'
<1>1. unsent' = unsent
  BY DEF CloseTurn
<1>2. CASE /\ log' = Append(log, TurnEnd(phase.turn, driver.ends))
           /\ driver'.at \in {"top", "returning"}
  <2>1. driver.ends \in Reasons /\ phase.turn \in Nat
    BY DEF DriverInv, TypeOK, Reasons
  <2>2. log' = log \o <<TurnEnd(phase.turn, driver.ends)>>
    <3>1. TurnEnd(phase.turn, driver.ends) \in LogEvents
      BY <2>1 DEF TurnEnd, LogEvents
    <3>. QED
      BY <1>2, <3>1, OneEvent DEF LogInv
  <2>. QED
    BY <1>1, <1>2, <2>1, <2>2, LeavingKeepsFates
<1>3. CASE log' = log /\ driver'.at = "returning"
  BY <1>1, <1>3, RestKeepsFates
<1>4. \/ /\ log' = Append(log, TurnEnd(phase.turn, driver.ends))
         /\ driver'.at \in {"top", "returning"}
      \/ log' = log /\ driver'.at = "returning"
  BY DEF CloseTurn, Stop, DriverAt, NoDriver
<1>. QED
  BY <1>2, <1>3, <1>4

LEMMA NothingWritten ==
    ASSUME LogInv
    PROVE  log \o <<>> = log
BY DEF LogInv, GoodLog, Logs

LEMMA BeginTurnKeepsFates ==
    ASSUME DriverInv, LogInv, FateInv, BeginTurn
    PROVE  FateInv'
<1>. DEFINE turn == phase.turn + 1
            e == TurnStart(turn)
            s == log \o <<e>>
<1>1. /\ driver.at \in {"starting", "top"}
      /\ UNCHANGED <<unsent, rewritten>>
      /\ log' = s \o ClaimEvents(inbox, "next-turn")
      /\ driver' = [at |-> "preStep", claimed |-> Claimed(inbox, "next-turn"),
                    target |-> "next-turn", ends |-> "none", depth |-> 0]
      /\ spent.unended = 0
  BY DEF BeginTurn, AtBoundary, ClaimAt
<1>2. turn \in Nat /\ turn # 0
  BY DEF DriverInv, TypeOK
<1>3. /\ GoodLog(log) /\ InboxOf(log) = inbox
      /\ Closed(log, phase.turn) /\ phase.step = 0
  BY <1>1 DEF LogInv, Resting
<1>4. e \in LogEvents
  BY <1>2 DEF TurnStart, LogEvents
<1>5. s = Append(log, e)
  BY <1>3, <1>4, OneEvent
<1>6. /\ GoodLog(Append(log, e)) /\ InboxOf(Append(log, e)) = inbox
      /\ InTurn(Append(log, e), turn, 0)
  BY <1>3, TurnStartKeeps DEF DriverInv, TypeOK
<1>. HIDE DEF turn
<1>7. TraceOf(log).openTurn = 0
  BY <1>3 DEF Closed
<1>8. /\ Fated(Append(log, e), unsent, rewritten)
      /\ ClaimedIn(Append(log, e)) = {} /\ FatesOf(Append(log, e)).turns = 0
  BY <1>2, <1>6, <1>7, TurnStartFates DEF FateInv
<1>9. TraceOf(Append(log, e)).openTurn # 0
  BY <1>2, <1>6 DEF InTurn
<1>. HIDE DEF s, e
<1>10. /\ Fated(s, unsent', rewritten') /\ ClaimedIn(s) \subseteq rewritten'
       /\ TraceOf(s).openTurn # 0 /\ FatesOf(s).turns = 0
       /\ InboxOf(s) = inbox
  BY <1>1, <1>5, <1>6, <1>8, <1>9
<1>. QED
  BY <1>1, <1>10, ClaimKeepsFates DEF Targets

\* A turn that closes before it claims has claimed nothing.
LEMMA TurnStartAbortedKeepsFates ==
    ASSUME DriverInv, LogInv, LogInv', FateInv,
           NEW cause \in Causes, NEW keepInbox \in BOOLEAN,
           TurnStartAborted(cause, keepInbox)
    PROVE  FateInv'
<1>. DEFINE turn == phase.turn + 1
            e == TurnStart(turn)
            f == TurnEnd(turn, "aborted")
            s == Append(log, e)
<1>1. /\ driver.at \in {"starting", "top"} /\ spent.unended = 0
      /\ UNCHANGED <<unsent, rewritten>> /\ driver'.at = "returning"
  BY DEF TurnStartAborted, AtBoundary, Stop, DriverAt, NoDriver
<1>2. turn \in Nat /\ turn # 0
  BY DEF DriverInv, TypeOK
<1>3. TraceOf(log).openTurn = 0
  BY <1>1 DEF LogInv, Resting, Closed
<1>4. /\ log' = Append(s, f) /\ GoodLog(s)
      /\ e \in LogEvents /\ f \in LogEvents
  BY TurnStartAbortedWrites
<1>. HIDE DEF turn
<1>5. Fated(s, unsent, rewritten)
  BY <1>2, <1>3, <1>4, TurnStartFates DEF FateInv
<1>. HIDE DEF s
<1>6. log' = s \o <<f>>
  BY <1>4, OneEvent
<1>7. "aborted" \in Reasons /\ "aborted" \notin Ends
  BY DEF Reasons, Ends
<1>8. GoodLog(s \o <<f>>)
  BY <1>6 DEF LogInv
<1>9. Fated(log', unsent', rewritten')
  BY <1>1, <1>2, <1>5, <1>6, <1>7, <1>8, EndFates
<1>. QED
  BY <1>1, <1>9, RestKeepsFates

\* A drop waives the batch; otherwise an empty batch is what was claimed.
LEMMA DropWaives ==
    ASSUME FateInv, driver.at = "preStep", NEW drop \in BOOLEAN,
           RewrittenBy(drop)
    PROVE  /\ rewritten \subseteq rewritten'
           /\ drop => ClaimedIn(log) \subseteq rewritten'
           /\ Entered(drop) = <<>> => ClaimedIn(log) \subseteq rewritten'
           /\ Fated(log, unsent, rewritten')
<1>1. /\ Fated(log, unsent, rewritten)
      /\ ClaimedIn(log) \subseteq Members(driver.claimed) \cup rewritten
  BY DEF FateInv
<1>2. rewritten' = IF drop THEN rewritten \cup Members(driver.claimed)
                   ELSE rewritten
  BY DEF RewrittenBy, Members
<1>3. rewritten \subseteq rewritten'
        /\ (drop => ClaimedIn(log) \subseteq rewritten')
  BY <1>1, <1>2
<1>4. ASSUME Entered(drop) = <<>>, ~drop
      PROVE  ClaimedIn(log) \subseteq rewritten'
  <2>1. driver.claimed = <<>>
    BY <1>4 DEF Entered
  <2>2. Members(driver.claimed) = {}
    BY <2>1 DEF Members
  <2>. QED
    BY <1>1, <1>3, <2>2
<1>5. Fated(log, unsent, rewritten')
  BY <1>1, <1>3, FatedWeakens
<1>. QED
  BY <1>3, <1>4, <1>5

LEMMA PreStepKeepsFates ==
    ASSUME DriverInv, LogInv, LogInv', FateInv,
           \/ PreStepThrows \/ PreStepRejects
           \/ \E drop, context \in BOOLEAN :
                 PreStepFindsNothing(drop, context) \/ EmptyTurn(drop, context)
    PROVE  FateInv'
<1>1. log \o <<>> = log
  BY NothingWritten
<1>2. ASSUME NEW reason \in Reasons, reason \notin Ends,
             EndTurn(reason, <<>>), UNCHANGED <<unsent, rewritten>>
      PROVE  FateInv'
  <2>1. Fated(log \o <<>>, unsent', rewritten')
    BY <1>1, <1>2 DEF FateInv
  <2>. QED
    BY <1>2, <2>1, EndTurnKeepsFates
<1>3. CASE PreStepThrows
  <2>1. InterruptedReason \notin Ends
    BY DEF InterruptedReason, Ends
  <2>. QED
    BY <1>2, <1>3, <2>1, ReasonsOfThrow DEF PreStepThrows
<1>4. CASE PreStepRejects
  <2>1. "blocked" \in Reasons /\ "blocked" \notin Ends
    BY DEF Reasons, Ends
  <2>. QED
    BY <1>2, <1>4, <2>1 DEF PreStepRejects
<1>5. ASSUME NEW drop \in BOOLEAN, NEW context, EmptyTurn(drop, context)
      PROVE  FateInv'
  <2>1. /\ driver.at = "preStep" /\ Entered(drop) = <<>>
        /\ RewrittenBy(drop) /\ EndTurn("completed", <<>>)
        /\ unsent' = unsent
    BY <1>5, Zenon DEF EmptyTurn
  <2>2. /\ ClaimedIn(log) \subseteq rewritten'
        /\ Fated(log, unsent, rewritten')
    BY <2>1, DropWaives
  <2>3. "completed" \in Reasons
    BY DEF Reasons, Ends
  <2>. QED
    BY <1>1, <2>1, <2>2, <2>3, EndTurnKeepsFates
<1>6. ASSUME NEW drop \in BOOLEAN, NEW context,
             PreStepFindsNothing(drop, context)
      PROVE  FateInv'
  <2>1. /\ driver.at = "preStep" /\ Entered(drop) = <<>>
        /\ RewrittenBy(drop) /\ CloseTurn
    BY <1>6, Zenon DEF PreStepFindsNothing
  <2>2. /\ ClaimedIn(log) \subseteq rewritten'
        /\ Fated(log, unsent, rewritten')
    BY <2>1, DropWaives
  <2>. QED
    BY <2>1, <2>2, CloseTurnKeepsFates
<1>. QED
  BY <1>3, <1>4, <1>5, <1>6

LEMMA EnterStepKeepsFates ==
    ASSUME DriverInv, LogInv, FateInv, NEW drop \in BOOLEAN, NEW context,
           EnterStep(drop, context)
    PROVE  FateInv'
<1>. DEFINE batch == Entered(drop)
            e == StepStart(phase.turn, phase.step + 1)
            s == log \o <<e>>
<1>1. /\ driver.at = "preStep" /\ RewrittenBy(drop) /\ unsent' = unsent
      /\ log' = s \o [i \in 1..Len(batch) |-> UserMessage(batch[i])]
      /\ driver' = [driver EXCEPT !.at = "step", !.claimed = <<>>]
  BY DEF EnterStep
<1>2. driver'.at = "step" /\ phase.turn \in Nat /\ phase.step \in Nat
        /\ driver.claimed \in Seq(Messages)
  BY <1>1 DEF DriverInv, TypeOK
<1>3. /\ GoodLog(log) /\ InboxOf(log) = inbox
      /\ InTurn(log, phase.turn, phase.step)
  BY <1>1 DEF LogInv
<1>4. e \in Quiet /\ e \in LogEvents
  BY <1>2 DEF StepStart, Quiet, LogEvents
<1>5. s = Append(log, e)
  BY <1>3, <1>4, OneEvent
<1>6. /\ GoodLog(Append(log, e))
      /\ InStep(Append(log, e), phase.turn, phase.step + 1)
  BY <1>3, StepStartKeeps
<1>7. TraceOf(Append(log, e)).openTurn # 0
  BY <1>6 DEF InStep, Open
<1>8. /\ rewritten \subseteq rewritten'
      /\ drop => ClaimedIn(log) \subseteq rewritten'
      /\ Fated(log, unsent, rewritten')
  BY <1>1, DropWaives
<1>9. /\ Fated(Append(log, e), unsent, rewritten')
      /\ ClaimedIn(Append(log, e)) = ClaimedIn(log)
  BY <1>4, <1>6, <1>8, QuietFates
<1>10. /\ batch \in Seq(Messages) /\ Distinct(batch)
       /\ Members(batch) \subseteq ClaimedIn(log)
       /\ ClaimedIn(log) \ Members(batch) \subseteq rewritten'
  <2>1. CASE drop
    <3>1. batch = <<>>
      BY <2>1 DEF Entered
    <3>2. Members(batch) = {} /\ Distinct(batch)
      BY <3>1 DEF Members, Distinct
    <3>3. batch \in Seq(Messages)
      BY <3>1
    <3>. HIDE DEF batch
    <3>. QED
      BY <1>8, <2>1, <3>2, <3>3
  <2>2. CASE ~drop
    <3>1. batch = driver.claimed
      BY <2>2 DEF Entered
    <3>2. /\ Distinct(driver.claimed)
          /\ Members(driver.claimed) \subseteq ClaimedIn(log)
          /\ ClaimedIn(log) \subseteq Members(driver.claimed) \cup rewritten
      BY <1>1 DEF FateInv
    <3>. QED
      BY <1>2, <1>8, <3>1, <3>2
  <2>. QED
    BY <2>1, <2>2
<1>. HIDE DEF batch, e, s
<1>11. /\ Fated(s, unsent', rewritten') /\ TraceOf(s).openTurn # 0
       /\ ClaimedIn(s) = ClaimedIn(log)
  BY <1>1, <1>5, <1>7, <1>9
<1>12. /\ Fated(log', unsent', rewritten')
       /\ ClaimedIn(log') = ClaimedIn(s) \ Members(batch)
  BY <1>1, <1>10, <1>11, TextsFates
<1>. QED
  BY <1>2, <1>10, <1>11, <1>12 DEF FateInv

\* What a step has written when it ends.
LEMMA StepContextFates ==
    ASSUME DriverInv, LogInv, FateInv, NEW context \in OneOf(unsent)
    PROVE  LET s == log \o ContextEvents(context)
           IN  /\ Fated(s, unsent \ context, rewritten)
               /\ ClaimedIn(s) = ClaimedIn(log)
<1>. DEFINE one == ContextEvents(context)
            s == log \o one
            m == CHOOSE x \in context : TRUE
            left == unsent \ context
<1>1. GoodLog(log) /\ InboxOf(log) = inbox /\ log \in Seq(LogEvents)
  BY DEF LogInv, GoodLog, Logs
<1>2. Fated(log, unsent, rewritten)
  BY DEF FateInv
<1>3. /\ unsent \subseteq Messages /\ inbox \in Inboxes
      /\ phase.turn \in Nat /\ phase.step \in Nat
  BY DEF DriverInv, TypeOK, Inboxes
<1>4. Grows(log, s, left, rewritten, {}) /\ one \in Seq(LogEvents)
  <2>1. CASE context = {}
    <3>1. one = <<>> /\ left = unsent
      BY <2>1 DEF ContextEvents
    <3>2. <<>> \in Seq(LogEvents)
      OBVIOUS
    <3>. HIDE DEF one, left
    <3>. QED
      BY <1>2, <3>1, <3>2, GrowsNothing
  <2>2. CASE context # {}
    <3>1. m \in unsent /\ context = {m} /\ m \in Messages
      BY <1>3, <2>2 DEF OneOf
    <3>. HIDE DEF m
    <3>2. Grows(log, log \o AppendEvents(inbox, "next-step", m),
                unsent \ {m}, rewritten, {})
      BY <1>1, <1>2, <3>1, AppendFates DEF Targets
    <3>3. one = AppendEvents(inbox, "next-step", m)
      BY <2>2 DEF ContextEvents, m
    <3>4. AppendEvents(inbox, "next-step", m) \in Seq(LogEvents)
      <4>1. Len(inbox["next-step"]) \in Nat /\ <<m>> \in Seq(Messages)
              /\ 0 \in Nat
        BY <1>3, <3>1 DEF Inboxes, Targets
      <4>. DEFINE e == Spliced("next-step", Len(inbox["next-step"]), 0, <<m>>,
                               FALSE)
      <4>2. e \in LogEvents
        BY <4>1 DEF Spliced, LogEvents, Splices, Targets
      <4>3. AppendEvents(inbox, "next-step", m) = <<e>>
        BY DEF AppendEvents
      <4>. HIDE DEF e
      <4>4. <<e>> \in Seq(LogEvents)
        BY <4>2
      <4>. QED
        BY <4>3, <4>4, Zenon
    <3>5. left = unsent \ {m}
      BY <3>1
    <3>. HIDE DEF one, left
    <3>. QED
      BY <3>2, <3>3, <3>4, <3>5
  <2>. QED
    BY <2>1, <2>2
<1>. HIDE DEF s, left
<1>. QED
  BY <1>4 DEF Grows, left, s

LEMMA StepBlockFates ==
    ASSUME DriverInv, LogInv, FateInv, driver.at = "step",
           NEW outcome \in Outcomes, NEW context \in OneOf(unsent)
    PROVE  LET z == log \o (ContextEvents(context) \o StepEvents(outcome))
           IN  /\ Fated(z, unsent \ context, rewritten)
               /\ ClaimedIn(z) = ClaimedIn(log)
<1>. DEFINE one == ContextEvents(context)
            two == StepEvents(outcome)
            s == log \o one
            left == unsent \ context
<1>1. log \in Seq(LogEvents) /\ one \in Seq(LogEvents)
  BY StepContext DEF LogInv, GoodLog, Logs
<1>2. Fated(s, left, rewritten) /\ ClaimedIn(s) = ClaimedIn(log)
  BY StepContextFates
<1>3. two \in Seq(Quiet) /\ two \in Seq(LogEvents)
  <2>1. two \in Seq(Quiet)
    BY StepIsQuiet DEF DriverInv, TypeOK
  <2>2. Quiet \subseteq LogEvents
    BY DEF Quiet, LogEvents
  <2>. HIDE DEF two
  <2>. QED
    BY <2>1, <2>2
<1>. HIDE DEF one, two, left
<1>4. s \o two = log \o (one \o two)
  BY <1>1, <1>3, ConcatAssociative
<1>5. GoodLog(s \o two)
  BY <1>4, StepBlock DEF one, two
<1>. HIDE DEF s
<1>6. Fated(s \o two, left, rewritten) /\ ClaimedIn(s \o two) = ClaimedIn(s)
  BY <1>2, <1>3, <1>5, QuietRun
<1>. QED
  BY <1>2, <1>4, <1>6, Zenon DEF one, two, left

LEMMA StepEndsKeepFates ==
    ASSUME DriverInv, LogInv, LogInv', FateInv,
           NEW outcome \in Outcomes, NEW context \in OneOf(unsent),
           \/ StepThrows(outcome, context)
           \/ StepEndRefused(outcome, context)
           \/ StepReturns(outcome, context)
    PROVE  FateInv'
<1>. DEFINE events == ContextEvents(context) \o StepEvents(outcome)
            s == log \o events
            in == WithContext(context)
            ends == EndsAfter(outcome)
<1>1. /\ driver.at = "step" /\ unsent' = unsent \ context
      /\ rewritten' = rewritten
  BY Zenon DEF StepThrows, StepEndRefused, StepReturns, ThrowsWith
<1>2. /\ Fated(s, unsent', rewritten') /\ ClaimedIn(s) = ClaimedIn(log)
      /\ ClaimedIn(log) \subseteq rewritten'
  BY <1>1, StepBlockFates DEF FateInv
<1>3. InboxOf(s) = in /\ TraceOf(s).openTurn # 0
  <2>1. InboxOf(s) = in /\ InTurn(s, phase.turn, phase.step)
    BY <1>1, StepBlock
  <2>2. phase.turn \in Nat
    BY DEF DriverInv, TypeOK
  <2>. HIDE DEF s, in
  <2>. QED
    BY <2>1, <2>2 DEF InTurn
<1>4. CASE StepThrows(outcome, context)
  <2>1. EndTurn(InterruptedReason, events)
    BY <1>4 DEF StepThrows
  <2>2. InterruptedReason \notin Ends
    BY DEF InterruptedReason, Ends
  <2>. HIDE DEF events
  <2>. QED
    BY <1>2, <2>1, <2>2, ReasonsOfThrow, EndTurnKeepsFates
<1>5. CASE StepReturns(outcome, context)
  <2>1. \/ /\ log' = s
           /\ driver' = [driver EXCEPT !.at = "stopping", !.ends = ends]
        \/ ClaimAt("next-step", events, ends, in)
    BY <1>5 DEF StepReturns
  <2>2. CASE ClaimAt("next-step", events, ends, in)
    <3>1. /\ log' = s \o ClaimEvents(in, "next-step")
          /\ driver' = [at |-> "preStep", claimed |-> Claimed(in, "next-step"),
                        target |-> "next-step", ends |-> ends,
                        depth |-> 0]
      BY <2>2 DEF ClaimAt
    <3>. HIDE DEF s, in, ends
    <3>. QED
      BY <1>2, <1>3, <3>1, ClaimKeepsFates DEF Targets
  <2>3. CASE /\ log' = s
             /\ driver' = [driver EXCEPT !.at = "stopping", !.ends = ends]
    <3>1. driver'.at = "stopping"
      BY <2>3 DEF DriverInv, TypeOK
    <3>. HIDE DEF s, ends
    <3>. QED
      BY <1>2, <2>3, <3>1 DEF FateInv
  <2>. QED
    BY <2>1, <2>2, <2>3
<1>6. CASE StepEndRefused(outcome, context)
  <2>. DEFINE q == log \o ContextEvents(context)
              body == StepBody(outcome)
  <2>1. log' = q \o body /\ driver'.at = "returning"
    BY <1>6 DEF StepEndRefused, Stop, DriverAt, NoDriver
  <2>2. Fated(q, unsent', rewritten')
    BY <1>1, StepContextFates
  <2>3. body \in Seq(Quiet)
    BY StepIsQuiet DEF DriverInv, TypeOK
  <2>4. GoodLog(q \o body)
    BY <2>1 DEF LogInv
  <2>. HIDE DEF q, body
  <2>5. Fated(log', unsent', rewritten')
    BY <2>1, <2>2, <2>3, <2>4, QuietRun
  <2>. QED
    BY <2>1, <2>5, RestKeepsFates
<1>. QED
  BY <1>4, <1>5, <1>6

LEMMA StoppingKeepsFates ==
    ASSUME DriverInv, LogInv, LogInv', FateInv,
           StoppingThrows \/ StoppingSettles
    PROVE  FateInv'
<1>1. driver.at = "stopping"
  BY DEF StoppingThrows, StoppingSettles
<1>2. log \o <<>> = log
  BY NothingWritten
<1>3. Fated(log, unsent, rewritten) /\ ClaimedIn(log) \subseteq rewritten
  BY <1>1 DEF FateInv
<1>4. InboxOf(log) = inbox /\ TraceOf(log).openTurn # 0
  BY <1>1 DEF LogInv, InTurn, DriverInv, TypeOK
<1>5. CASE StoppingThrows
  <2>1. EndTurn(InterruptedReason, <<>>) /\ UNCHANGED <<unsent, rewritten>>
    BY <1>5 DEF StoppingThrows
  <2>2. InterruptedReason \notin Ends
    BY DEF InterruptedReason, Ends
  <2>3. Fated(log \o <<>>, unsent', rewritten')
    BY <1>2, <1>3, <2>1
  <2>. QED
    BY <2>1, <2>2, <2>3, ReasonsOfThrow, EndTurnKeepsFates
<1>6. CASE StoppingSettles
  <2>1. /\ rewritten' = rewritten
        /\ \/ CloseTurn
           \/ /\ ClaimAt("next-step", <<>>, driver.ends, inbox)
              /\ unsent' = unsent
    BY <1>6 DEF StoppingSettles
  <2>2. CASE CloseTurn
    BY <1>3, <2>1, <2>2, CloseTurnKeepsFates
  <2>3. CASE /\ ClaimAt("next-step", <<>>, driver.ends, inbox)
             /\ unsent' = unsent
    <3>1. /\ log' = log \o ClaimEvents(inbox, "next-step")
          /\ driver' = [at |-> "preStep",
                        claimed |-> Claimed(inbox, "next-step"),
                        target |-> "next-step", ends |-> driver.ends,
                        depth |-> 0]
      BY <1>2, <2>3, Zenon DEF ClaimAt
    <3>. QED
      BY <1>3, <1>4, <2>1, <2>3, <3>1, ClaimKeepsFates DEF Targets
  <2>. QED
    BY <2>1, <2>2, <2>3
<1>. QED
  BY <1>5, <1>6

LEMMA DriverKeepsFates ==
    ASSUME DriverInv, LogInv, LogInv', FateInv, DriverStep
    PROVE  FateInv'
<1>1. CASE SkipTurn \/ TurnStartRefused \/ Converge
  <2>1. /\ UNCHANGED <<log, unsent, rewritten>>
        /\ driver'.at \in {"off", "returning"}
    BY <1>1 DEF SkipTurn, TurnStartRefused, Converge, Stop, DriverAt, NoDriver
  <2>2. Fated(log', unsent', rewritten')
    BY <2>1 DEF FateInv
  <2>. QED
    BY <2>1, <2>2, RestKeepsFates
<1>2. ASSUME NEW drop \in BOOLEAN, NEW context \in BOOLEAN,
             \/ PreStepFindsNothing(drop, context)
             \/ EmptyTurn(drop, context) \/ EnterStep(drop, context)
      PROVE  FateInv'
  BY <1>2, PreStepKeepsFates, EnterStepKeepsFates
<1>3. ASSUME NEW outcome \in Outcomes, NEW context \in OneOf(unsent),
             \/ StepThrows(outcome, context)
             \/ StepEndRefused(outcome, context)
             \/ StepReturns(outcome, context)
      PROVE  FateInv'
  BY <1>3, StepEndsKeepFates
<1>4. ASSUME NEW cause \in Causes, NEW keepInbox \in BOOLEAN,
             TurnStartAborted(cause, keepInbox)
      PROVE  FateInv'
  BY <1>4, TurnStartAbortedKeepsFates
<1>. QED
  BY <1>1, <1>2, <1>3, <1>4, BeginTurnKeepsFates, PreStepKeepsFates,
     StoppingKeepsFates, Zenon DEF DriverStep

LEMMA CrashKeepsFates ==
    ASSUME ResumeInv, FateInv, Crash
    PROVE  FateInv'
<1>1. PICK n \in 0..Len(log) : log' = Survives(n)
  BY DEF Crash
<1>2. driver' = NoDriver /\ UNCHANGED <<unsent, rewritten>>
  BY DEF Crash
<1>. DEFINE prefix == SubSeq(log, 1, n)
<1>3. Fated(prefix, unsent, rewritten)
  BY FatedPrefix DEF FateInv
<1>4. log' = prefix \o InterruptedTurnClosers(prefix)
  BY <1>1 DEF Survives
<1>. HIDE DEF prefix
<1>5. Fated(log', unsent', rewritten')
  BY <1>2, <1>3, <1>4, RepairFates
<1>6. driver'.at = "off"
  BY <1>2 DEF NoDriver
<1>. QED
  BY <1>5, <1>6, RestKeepsFates

LEMMA FateStepKeeps ==
    ASSUME ResumeInv, FateInv, [ResumeNext]_resumeVars
    PROVE  FateInv'
<1>1. DriverInv /\ LogInv /\ LogInv'
  BY ResumeStepKeeps DEF ResumeInv
<1>2. CASE Next
  BY <1>1, <1>2, DriverKeepsFates, ListenersKeepFates, WakesKeepFates, Zenon
     DEF Next
<1>3. CASE Crash
  BY <1>3, CrashKeepsFates
<1>4. CASE UNCHANGED vars
  BY <1>4 DEF vars, FateInv
<1>. QED
  BY <1>2, <1>3, <1>4 DEF ResumeNext, resumeVars

(* Across any number of crashes, what the open turn holds is the batch at  *)
(* its step boundary, and the fates of the messages follow the log: what   *)
(* is queued stands in one place of the inbox, what no one has sent has    *)
(* left no trace, and nothing is claimed between two turns.                *)
THEOREM FatesInvariant == ResumeSpec => []FateInv
<1>1. ResumeInit => FateInv
  <2>. SUFFICES ASSUME ResumeInit
                PROVE  FateInv
    OBVIOUS
  <2>1. /\ log = <<>> /\ unsent = Messages /\ rewritten = {}
        /\ driver.at = "off"
    BY DEF ResumeInit, Init, NoDriver
  <2>. QED
    BY <2>1, FatedEmpty DEF FateInv
<1>. QED
  BY <1>1, FateStepKeeps, ResumeInvariant, PTL DEF ResumeSpec

(* Every message is taken once and has one fate, whatever cancels, queue   *)
(* edits, hooks and crashes interleave (inbox.ts, agent.ts turn and step,  *)
(* and the repair of an interrupted turn).                                 *)
THEOREM EveryMessageHasItsFate == ResumeSpec => []EveryMessageAccounted
<1>1. ASSUME FateInv
      PROVE  EveryMessageAccounted
  <2>1. Settled(FatesOf(log), unsent, rewritten)
    BY <1>1, FatedLast DEF FateInv, FateAt
  <2>2. FatesOf(log).ok = TRUE /\ FatesOf(log).lost \subseteq rewritten
    BY <2>1 DEF Settled, Fates
  <2>. QED
    BY <2>2 DEF EveryMessageAccounted
<1>. QED
  BY <1>1, FatesInvariant, PTL
-----------------------------------------------------------------------------
(* The account of consumed work, read beside the fates.                    *)

WorkScan == INSTANCE ScanProofs WITH After <- AccountAfter
HistoryScan == INSTANCE ScanProofs WITH After <- HistoryAfter

Accounts == [open : Nat, stepped : SUBSET Nat, claimed : SUBSET Nat,
             end : Nat, reason : Reasons, droppedUnrun : BOOLEAN]

LEMMA HistoriesFollow ==
    /\ ConsumedWork(<<>>) = FreshAccount /\ HistoryOf(<<>>) = FreshHistory
    /\ \A s \in Logs, e \in LogEvents :
          /\ ConsumedWork(Append(s, e)) = AccountAfter(ConsumedWork(s), e)
          /\ HistoryOf(Append(s, e)) = HistoryAfter(HistoryOf(s), e)
<1>1. /\ \A s : ConsumedWork(s) = WorkScan!Fold(FreshAccount, s)
      /\ \A s : HistoryOf(s) = HistoryScan!Fold(FreshHistory, s)
  BY DEF ConsumedWork, HistoryOf, Scan, WorkScan!Fold, HistoryScan!Fold
<1>2. ConsumedWork(<<>>) = FreshAccount /\ HistoryOf(<<>>) = FreshHistory
  BY <1>1, WorkScan!FoldEmpty, HistoryScan!FoldEmpty
<1>3. ASSUME NEW s \in Logs, NEW e \in LogEvents
      PROVE  /\ ConsumedWork(Append(s, e)) = AccountAfter(ConsumedWork(s), e)
             /\ HistoryOf(Append(s, e)) = HistoryAfter(HistoryOf(s), e)
  <2>1. ConsumedWork(Append(s, e)) = AccountAfter(ConsumedWork(s), e)
    BY <1>1, WorkScan!FoldAppend DEF Logs
  <2>2. HistoryOf(Append(s, e)) = HistoryAfter(HistoryOf(s), e)
    BY <1>1, HistoryScan!FoldAppend DEF Logs
  <2>. QED
    BY <2>1, <2>2
<1>. QED
  BY <1>2, <1>3

\* The account reports the same turn, with nothing more dropped.
SameReport(a, b) ==
    b.reason = a.reason /\ b.droppedUnrun = a.droppedUnrun

\* What an event does to the account.
LEMMA OthersAccount ==
    ASSUME NEW a \in Accounts, NEW e \in LogEvents,
           e.type \notin {"turn/start", "turn/end", "agent/inbox/spliced"}
    PROVE  LET b == AccountAfter(a, e)
           IN  /\ b \in Accounts /\ SameReport(a, b)
               /\ b.open = a.open /\ b.claimed = a.claimed
<1>1. CASE e.type = "step/start"
  <2>1. e.turn \in Nat
    BY <1>1 DEF LogEvents, Splices, Texts
  <2>2. AccountAfter(a, e) = [a EXCEPT !.stepped = @ \cup {e.turn}]
    BY <1>1 DEF AccountAfter
  <2>. QED
    BY <2>1, <2>2 DEF Accounts, SameReport
<1>2. CASE e.type # "step/start"
  <2>1. AccountAfter(a, e) = a
    BY <1>2, Zenon DEF AccountAfter
  <2>. QED
    BY <2>1 DEF Accounts, SameReport
<1>. QED
  BY <1>1, <1>2

LEMMA TurnStartAccount ==
    ASSUME NEW a \in Accounts, NEW e \in LogEvents, e.type = "turn/start"
    PROVE  LET b == AccountAfter(a, e)
           IN  /\ b \in Accounts /\ SameReport(a, b) /\ b.open = e.turn
<1>1. e.turn \in Nat
  BY DEF LogEvents, Splices, Texts
<1>2. AccountAfter(a, e) = [a EXCEPT !.open = e.turn]
  BY DEF AccountAfter
<1>. QED
  BY <1>1, <1>2 DEF Accounts, SameReport

LEMMA SpliceAccount ==
    ASSUME NEW a \in Accounts, NEW e \in LogEvents,
           e.type = "agent/inbox/spliced"
    PROVE  LET b == AccountAfter(a, e)
           IN  /\ b \in Accounts /\ b.open = a.open
               /\ a.claimed \subseteq b.claimed /\ b.reason = a.reason
               /\ e.removed = 0 => b = a
               /\ e.removed # 0 /\ e.canceled /\ e.inserted = <<>>
                     => b.droppedUnrun = TRUE
               /\ e.inserted # <<>> \/ ~e.canceled => SameReport(a, b)
               /\ e.removed # 0 /\ ~e.canceled /\ a.open # 0
                     => a.open \in b.claimed
<1>. DEFINE b == AccountAfter(a, e)
            gone == (e.inserted = <<>>)
<1>1. gone \in BOOLEAN /\ e.canceled \in BOOLEAN
  BY DEF LogEvents, Splices, Texts
<1>2. b = IF e.removed = 0 THEN a
          ELSE IF e.canceled
               THEN [a EXCEPT !.droppedUnrun = @ \/ gone]
          ELSE IF a.open # 0
               THEN [a EXCEPT !.claimed = @ \cup {a.open}]
          ELSE a
  BY DEF AccountAfter
<1>3. CASE e.removed = 0 \/ (~e.canceled /\ a.open = 0)
  <2>1. b = a
    BY <1>2, <1>3
  <2>. HIDE DEF gone
  <2>. QED
    BY <1>3, <2>1 DEF SameReport
<1>4. CASE e.removed # 0 /\ e.canceled
  <2>1. b = [a EXCEPT !.droppedUnrun = a.droppedUnrun \/ gone]
    BY <1>2, <1>4
  <2>2. CASE gone
    <3>1. b = [a EXCEPT !.droppedUnrun = TRUE] /\ e.inserted = <<>>
      BY <2>1, <2>2
    <3>. HIDE DEF gone
    <3>. QED
      BY <1>4, <3>1 DEF Accounts
  <2>3. CASE ~gone
    <3>1. a.droppedUnrun \/ gone <=> a.droppedUnrun
      BY <2>3
    <3>2. (a.droppedUnrun \/ gone) = a.droppedUnrun
      BY <1>1, <2>3, <3>1 DEF Accounts
    <3>3. [a EXCEPT !.droppedUnrun = a.droppedUnrun] = a
      BY DEF Accounts
    <3>4. b = a /\ e.inserted # <<>>
      BY <2>1, <2>3, <3>2, <3>3
    <3>. HIDE DEF gone
    <3>. QED
      BY <1>4, <3>4 DEF SameReport
  <2>. QED
    BY <2>2, <2>3
<1>5. CASE e.removed # 0 /\ ~e.canceled /\ a.open # 0
  <2>1. b = [a EXCEPT !.claimed = @ \cup {a.open}]
    BY <1>2, <1>5
  <2>. HIDE DEF gone
  <2>. QED
    BY <1>5, <2>1 DEF Accounts, SameReport
<1>. QED
  BY <1>3, <1>4, <1>5

\* A turn whose end is not reported: it entered no step, and claimed nothing
\* or ended as completed.
LEMMA TurnEndAccount ==
    ASSUME NEW a \in Accounts, NEW e \in LogEvents, e.type = "turn/end"
    PROVE  LET b == AccountAfter(a, e)
           IN  /\ b \in Accounts /\ b.open = 0
               /\ \/ b.end = e.turn
                  \/ /\ SameReport(a, b)
                     /\ e.turn \notin a.claimed \/ e.reason = "completed"
<1>. DEFINE b == AccountAfter(a, e)
            accounts == \/ e.turn \in a.stepped
                        \/ /\ e.turn \in a.claimed
                           /\ AccountsForClaim(e.reason)
            claimed == IF e.turn \in a.stepped THEN a.claimed
                       ELSE a.claimed \ {e.turn}
            rest == [a EXCEPT !.open = 0, !.stepped = @ \ {e.turn},
                              !.claimed = claimed]
<1>1. e.turn \in Nat /\ e.reason \in Reasons
  BY DEF LogEvents, Splices, Texts
<1>2. b = IF accounts
          THEN [rest EXCEPT !.end = e.turn, !.reason = e.reason,
                            !.droppedUnrun = FALSE]
          ELSE rest
  BY DEF AccountAfter
<1>3. claimed \subseteq Nat
  BY DEF Accounts
<1>. HIDE DEF claimed
<1>4. rest \in Accounts /\ rest.open = 0 /\ SameReport(a, rest)
  BY <1>3 DEF Accounts, SameReport
<1>5. CASE accounts
  <2>1. b = [rest EXCEPT !.end = e.turn, !.reason = e.reason,
                         !.droppedUnrun = FALSE]
    BY <1>2, <1>5
  <2>. HIDE DEF rest, accounts
  <2>. QED
    BY <1>1, <1>4, <2>1 DEF Accounts
<1>6. CASE ~accounts
  <2>1. b = rest
    BY <1>2, <1>6
  <2>2. e.turn \notin a.claimed \/ e.reason = "completed"
    BY <1>6 DEF AccountsForClaim
  <2>. HIDE DEF rest, accounts
  <2>. QED
    BY <1>4, <2>1, <2>2
<1>. QED
  BY <1>5, <1>6

\* What an event does to the fates.
LEMMA OthersDropNothing ==
    ASSUME NEW f \in Fates, NEW e \in LogEvents,
           e.type \notin {"agent/inbox/spliced", "turn/end"}
    PROVE  LET g == FatesAfter(f, e)
           IN  Dropped(f, g) = {} /\ Held(g) \subseteq Held(f)
<1>. DEFINE g == FatesAfter(f, e)
<1>0. f.fate \in [Messages -> FateNames]
  BY DEF Fates
<1>1. CASE e.type = "user/message"
  <2>. DEFINE h == [f EXCEPT !.fate[e.message] = "entered"]
              cond == (f.fate[e.message] = "claimed")
  <2>1. g = [h EXCEPT !.ok = @ /\ cond]
    BY <1>1 DEF FatesAfter
  <2>2. h.fate = [f.fate EXCEPT ![e.message] = "entered"]
    BY DEF Fates
  <2>3. g.fate = h.fate
    <3>. HIDE DEF g, cond
    <3>. QED
      BY <2>1 DEF Fates
  <2>. HIDE DEF h, cond, g
  <2>4. \A m \in Messages : g.fate[m] = "entered" \/ g.fate[m] = f.fate[m]
    BY <1>0, <2>2, <2>3
  <2>. QED
    BY <2>4 DEF Dropped, Held, g
<1>2. CASE e.type = "turn/start"
  <2>. DEFINE h == [f EXCEPT !.turns = 0]
              cond == ({m \in Messages : f.fate[m] = "claimed"} = {})
  <2>1. g = [h EXCEPT !.ok = @ /\ cond]
    BY <1>2 DEF FatesAfter
  <2>2. h.fate = f.fate
    BY DEF Fates
  <2>3. g.fate = h.fate
    <3>. HIDE DEF g, cond
    <3>. QED
      BY <2>1 DEF Fates
  <2>. HIDE DEF h, cond, g
  <2>. QED
    BY <2>2, <2>3 DEF Dropped, Held, g
<1>3. CASE e.type \notin {"user/message", "turn/start"}
  <2>1. g = f
    BY <1>3, QuietSettles
  <2>. HIDE DEF g
  <2>. QED
    BY <2>1 DEF Dropped, Held, g
<1>. QED
  BY <1>1, <1>2, <1>3

LEMMA SpliceDrops ==
    ASSUME NEW f \in Fates, NEW e \in LogEvents,
           e.type = "agent/inbox/spliced"
    PROVE  LET g == FatesAfter(f, e)
           IN  /\ e.removed = 0 \/ ~e.canceled => Dropped(f, g) = {}
               /\ e.removed = 0 \/ e.canceled => Held(g) \subseteq Held(f)
<1>. DEFINE g == FatesAfter(f, e)
            taken == {m \in Messages :
                        \E i \in e.start + 1 .. e.start + e.removed :
                           f.inbox[e.target][i] = m}
            fate == [m \in Messages |->
                       IF InSeq(m, e.inserted) THEN "pending"
                       ELSE IF m \in taken
                            THEN IF e.canceled THEN "canceled" ELSE "claimed"
                            ELSE f.fate[m]]
            h == [f EXCEPT
                    !.inbox = InboxAfter(@, e),
                    !.turns = IF e.target = "next-turn" /\ ~e.canceled
                              THEN @ + e.removed ELSE @,
                    !.fate = fate]
            cond == \A m \in Messages :
                       InSeq(m, e.inserted) => f.fate[m] = "unsent"
<1>1. /\ e.canceled \in BOOLEAN /\ e.start \in Nat /\ e.removed \in Nat
  BY DEF LogEvents, Splices, Texts
<1>2. g = [h EXCEPT !.ok = @ /\ cond]
  <2>1. fate = [m \in Messages |->
                    IF InSeq(m, e.inserted) THEN "pending"
                    ELSE IF \E i \in e.start + 1 .. e.start + e.removed :
                               f.inbox[e.target][i] = m
                         THEN IF e.canceled THEN "canceled" ELSE "claimed"
                         ELSE f.fate[m]]
    OBVIOUS
  <2>. HIDE DEF fate
  <2>. QED
    BY <2>1 DEF FatesAfter
<1>3. h.fate = fate
  <2>. HIDE DEF fate
  <2>. QED
    BY DEF Fates
<1>4. g.fate = fate
  <2>1. h.fate = fate /\ g = [h EXCEPT !.ok = h.ok /\ cond]
    BY <1>2, <1>3
  <2>2. \A c : [h EXCEPT !.ok = c].fate = h.fate
    BY DEF Fates
  <2>. HIDE DEF h, g, cond, fate
  <2>. QED
    BY <2>1, <2>2
<1>5. e.removed = 0 => taken = {}
  BY <1>1
<1>. HIDE DEF g, h, cond, taken
<1>6. \A m \in Messages :
         \/ g.fate[m] = "pending" \/ g.fate[m] = f.fate[m]
         \/ m \in taken /\ e.canceled /\ g.fate[m] = "canceled"
         \/ m \in taken /\ ~e.canceled /\ g.fate[m] = "claimed"
  BY <1>4
<1>. HIDE DEF fate
<1>7. e.removed = 0 \/ ~e.canceled => Dropped(f, g) = {}
  BY <1>5, <1>6 DEF Dropped
<1>8. e.removed = 0 \/ e.canceled => Held(g) \subseteq Held(f)
  BY <1>5, <1>6 DEF Held
<1>. QED
  BY <1>7, <1>8 DEF g

LEMMA TurnEndDrops ==
    ASSUME NEW f \in Fates, NEW e, e.type = "turn/end"
    PROVE  LET g == FatesAfter(f, e)
           IN  /\ Dropped(f, g) \subseteq Held(f) /\ Held(g) = {}
               /\ e.reason \in Ends => Held(f) \subseteq g.lost
<1>. DEFINE g == FatesAfter(f, e)
            fate == [m \in Messages |-> IF m \in Held(f) THEN "ended"
                                        ELSE f.fate[m]]
            lost == IF e.reason \in Ends THEN f.lost \cup Held(f) ELSE f.lost
            h == [f EXCEPT !.fate = fate, !.lost = lost]
            cond == f.turns <= 1
<1>1. g = [h EXCEPT !.ok = @ /\ cond]
  BY DEF FatesAfter, Held
<1>2. \A m \in Messages : IF m \in Held(f) THEN fate[m] = "ended"
                          ELSE fate[m] = f.fate[m] /\ fate[m] # "claimed"
  BY DEF Held
<1>. HIDE DEF fate, lost
<1>3. h.fate = fate /\ h.lost = lost
  BY DEF Fates
<1>4. \A c : [h EXCEPT !.ok = c].fate = h.fate
             /\ [h EXCEPT !.ok = c].lost = h.lost
  BY DEF Fates
<1>. HIDE DEF h, cond, g
<1>5. g.fate = fate /\ g.lost = lost
  BY <1>1, <1>3, <1>4
<1>6. Dropped(f, g) \subseteq Held(f) /\ Held(g) = {}
  BY <1>2, <1>5 DEF Dropped, Held
<1>7. e.reason \in Ends => Held(f) \subseteq g.lost
  BY <1>5 DEF lost
<1>. QED
  BY <1>6, <1>7 DEF g

\* The turn an event opens or closes.
LEMMA TurnsFollow ==
    ASSUME NEW s, NEW e \in LogEvents, GoodLog(s), GoodLog(Append(s, e))
    PROVE  LET now == TraceOf(s).openTurn
               then == TraceOf(Append(s, e)).openTurn
           IN  /\ e.type = "turn/start" => now = 0 /\ then = e.turn
               /\ e.type = "turn/end" => now = e.turn /\ then = 0
               /\ e.type \notin {"turn/start", "turn/end"} => then = now
<1>. DEFINE tr == TraceOf(s)
            t == [tr EXCEPT !.ok = @ /\ EventAllowed(tr, e)]
            z == TraceAfter(tr, e)
<1>1. /\ s \in Logs /\ tr \in Traces
      /\ TraceOf(Append(s, e)) \in Traces
  BY GoodFits DEF Fits
<1>2. TraceOf(Append(s, e)) = z
  BY <1>1, ScansFollow
<1>. HIDE DEF tr
<1>3. z.ok = TRUE
  BY <1>1, <1>2 DEF Traces
<1>4. /\ t.openTurn = tr.openTurn /\ t.ok = (tr.ok /\ EventAllowed(tr, e))
  BY <1>1 DEF Traces
<1>5. /\ t = [openTurn |-> tr.openTurn, openStep |-> tr.openStep,
              nextTurn |-> tr.nextTurn, nextStep |-> tr.nextStep,
              pending |-> tr.pending, ok |-> tr.ok /\ EventAllowed(tr, e)]
  BY <1>1 DEF Traces
<1>. HIDE DEF t
<1>6. CASE e.type = "turn/start"
  <2>1. z = [t EXCEPT !.openTurn = e.turn, !.nextStep = 1]
    BY <1>6 DEF TraceAfter, t
  <2>. HIDE DEF z
  <2>2. z.ok = t.ok /\ z.openTurn = e.turn
    BY <1>5, <2>1
  <2>3. EventAllowed(tr, e)
    BY <1>3, <1>4, <2>2, Zenon
  <2>4. tr.openTurn = 0
    BY <1>6, <2>3 DEF EventAllowed
  <2>. QED
    BY <1>2, <1>6, <2>2, <2>4 DEF z, tr
<1>7. CASE e.type = "turn/end"
  <2>1. z = [t EXCEPT !.openTurn = 0, !.nextTurn = @ + 1]
    BY <1>7 DEF TraceAfter, t
  <2>. HIDE DEF z
  <2>2. z.ok = t.ok /\ z.openTurn = 0
    BY <1>5, <2>1
  <2>3. EventAllowed(tr, e)
    BY <1>3, <1>4, <2>2, Zenon
  <2>4. tr.openTurn = e.turn
    BY <1>7, <2>3 DEF EventAllowed
  <2>. QED
    BY <1>2, <1>7, <2>2, <2>4 DEF z, tr
<1>8. CASE e.type \notin {"turn/start", "turn/end"}
  <2>1. \/ z = [t EXCEPT !.openStep = e.step]
        \/ z = [t EXCEPT !.openStep = 0, !.nextStep = @ + 1, !.pending = {}]
        \/ z = [t EXCEPT !.pending = @ \cup {e.call}]
        \/ z = [t EXCEPT !.pending = @ \ {e.call}]
        \/ z = t
    BY <1>8, Zenon DEF TraceAfter, t
  <2>. HIDE DEF z
  <2>2. z.openTurn = tr.openTurn
    <3>1. CASE z = [t EXCEPT !.openStep = e.step]
      BY <1>5, <3>1
    <3>2. CASE z = [t EXCEPT !.openStep = 0, !.nextStep = @ + 1,
                             !.pending = {}]
      BY <1>5, <3>2
    <3>3. CASE z = [t EXCEPT !.pending = @ \cup {e.call}]
      BY <1>5, <3>3
    <3>4. CASE z = [t EXCEPT !.pending = @ \ {e.call}]
      BY <1>5, <3>4
    <3>. QED
      BY <1>4, <2>1, <3>1, <3>2, <3>3, <3>4
  <2>. QED
    BY <1>2, <1>8, <2>2 DEF z, tr
<1>. QED
  BY <1>6, <1>7, <1>8

\* The account knows the open turn and that it has claimed what is held, and
\* a report that may be taken for finished work leaves nothing hidden.
Reckoned(s, waived) ==
    /\ ConsumedWork(s) \in Accounts
    /\ HistoryOf(s).account = ConsumedWork(s)
    /\ HistoryOf(s).fates = FatesOf(s)
    /\ ConsumedWork(s).open = TraceOf(s).openTurn
    /\ ClaimedIn(s) # {} => ConsumedWork(s).open \in ConsumedWork(s).claimed
    /\ ConsumedWork(s).reason \in Ends /\ ~ConsumedWork(s).droppedUnrun
          => HistoryOf(s).hidden \subseteq waived

LEMMA ReckonedGrows ==
    ASSUME NEW s, NEW e \in LogEvents, NEW fresh, NEW waived,
           Fated(s, fresh, waived), Fated(Append(s, e), fresh, waived),
           Reckoned(s, waived)
    PROVE  Reckoned(Append(s, e), waived)
<1>. DEFINE z == Append(s, e)
            a == ConsumedWork(s)
            b == AccountAfter(a, e)
            f == FatesOf(s)
            g == FatesAfter(f, e)
            h == HistoryOf(s)
            k == HistoryAfter(h, e)
            now == TraceOf(s).openTurn
            then == TraceOf(z).openTurn
            reports == e.type = "turn/end" /\ b.end = e.turn
            replaces == /\ e.type = "agent/inbox/spliced"
                        /\ e.canceled /\ e.inserted # <<>>
<1>1. s \in Logs /\ GoodLog(s) /\ GoodLog(z)
  BY FatedLast
<1>2. /\ ConsumedWork(z) = b /\ HistoryOf(z) = k /\ FatesOf(z) = g
  BY <1>1, HistoriesFollow, FatesFollow
<1>3. /\ f \in Fates /\ (now = 0 => Held(f) = {})
  BY FatedLast DEF FateAt, Settled, ClaimedIn
<1>4. /\ g.lost \subseteq waived /\ (then = 0 => Held(g) = {})
  <2>1. FateAt(z, fresh, waived)
    BY FatedLast
  <2>. QED
    BY <1>2, <2>1 DEF FateAt, Settled, ClaimedIn
<1>5. /\ a \in Accounts /\ h.account = a /\ h.fates = f /\ a.open = now
      /\ Held(f) # {} => a.open \in a.claimed
      /\ a.reason \in Ends /\ ~a.droppedUnrun => h.hidden \subseteq waived
  BY DEF Reckoned, ClaimedIn
<1>6. /\ e.type = "turn/start" => now = 0 /\ then = e.turn
      /\ e.type = "turn/end" => now = e.turn /\ then = 0
      /\ e.type \notin {"turn/start", "turn/end"} => then = now
  BY <1>1, TurnsFollow
<1>7. k = [account |-> b, fates |-> g,
           hidden |-> IF reports THEN {}
                      ELSE IF replaces THEN h.hidden
                      ELSE h.hidden \cup Dropped(f, g)]
  BY <1>5 DEF HistoryAfter
<1>8. /\ k.account = b /\ k.fates = g
      /\ k.hidden \subseteq h.hidden \cup Dropped(f, g)
      /\ reports => k.hidden = {}
      /\ replaces => k.hidden \subseteq h.hidden
  BY <1>7
<1>9. SUFFICES /\ b \in Accounts /\ b.open = then
               /\ Held(g) # {} => b.open \in b.claimed
               /\ b.reason \in Ends /\ ~b.droppedUnrun
                     => k.hidden \subseteq waived
  BY <1>2, <1>8, Zenon DEF Reckoned, ClaimedIn
<1>. HIDE DEF k, now, then, z, a, h, f
<1>10. CASE e.type \notin {"turn/start", "turn/end", "agent/inbox/spliced"}
  <2>1. /\ b \in Accounts /\ SameReport(a, b)
        /\ b.open = a.open /\ b.claimed = a.claimed
    BY <1>5, <1>10, OthersAccount
  <2>2. Dropped(f, g) = {} /\ Held(g) \subseteq Held(f)
    BY <1>3, <1>10, OthersDropNothing
  <2>. HIDE DEF b, g, reports, replaces
  <2>. QED
    BY <1>5, <1>6, <1>8, <1>10, <2>1, <2>2 DEF SameReport
<1>11. CASE e.type = "turn/start"
  <2>1. b \in Accounts /\ SameReport(a, b) /\ b.open = e.turn
    BY <1>5, <1>11, TurnStartAccount
  <2>2. Dropped(f, g) = {} /\ Held(g) \subseteq Held(f)
    BY <1>3, <1>11, OthersDropNothing
  <2>. HIDE DEF b, g, reports, replaces
  <2>. QED
    BY <1>3, <1>5, <1>6, <1>8, <1>11, <2>1, <2>2 DEF SameReport
<1>12. CASE e.type = "turn/end"
  <2>1. /\ b \in Accounts /\ b.open = 0
        /\ \/ b.end = e.turn
           \/ /\ SameReport(a, b)
              /\ e.turn \notin a.claimed \/ e.reason = "completed"
    BY <1>5, <1>12, TurnEndAccount
  <2>2. /\ Dropped(f, g) \subseteq Held(f) /\ Held(g) = {}
        /\ e.reason \in Ends => Held(f) \subseteq g.lost
    BY <1>3, <1>12, TurnEndDrops
  <2>3. ASSUME b.end # e.turn, b.reason \in Ends, ~b.droppedUnrun
        PROVE  k.hidden \subseteq waived
    <3>1. SameReport(a, b) /\ h.hidden \subseteq waived
      BY <1>5, <2>1, <2>3 DEF SameReport
    <3>2. CASE e.turn \notin a.claimed
      <4>1. Held(f) = {}
        BY <1>5, <1>6, <1>12, <3>2
      <4>. QED
        BY <1>8, <2>2, <3>1, <4>1
    <3>3. CASE e.reason = "completed"
      <4>1. Held(f) \subseteq waived
        BY <1>4, <2>2, <3>3 DEF Ends
      <4>. QED
        BY <1>8, <2>2, <3>1, <4>1
    <3>. QED
      BY <2>1, <2>3, <3>2, <3>3
  <2>. QED
    BY <1>6, <1>8, <1>12, <2>1, <2>2, <2>3
<1>13. CASE e.type = "agent/inbox/spliced"
  <2>1. /\ b \in Accounts /\ b.open = a.open
        /\ a.claimed \subseteq b.claimed /\ b.reason = a.reason
        /\ e.removed = 0 => b = a
        /\ e.removed # 0 /\ e.canceled /\ e.inserted = <<>>
              => b.droppedUnrun = TRUE
        /\ e.inserted # <<>> \/ ~e.canceled => SameReport(a, b)
        /\ e.removed # 0 /\ ~e.canceled /\ a.open # 0
              => a.open \in b.claimed
    BY <1>5, <1>13, SpliceAccount
  <2>2. /\ e.removed = 0 \/ ~e.canceled => Dropped(f, g) = {}
        /\ e.removed = 0 \/ e.canceled => Held(g) \subseteq Held(f)
    BY <1>3, <1>13, SpliceDrops
  <2>3. b.open = then
    BY <1>5, <1>6, <1>13, <2>1
  <2>4. ASSUME Held(g) # {}
        PROVE  b.open \in b.claimed
    <3>1. CASE e.removed = 0 \/ e.canceled
      BY <1>5, <2>1, <2>2, <2>4, <3>1
    <3>2. CASE e.removed # 0 /\ ~e.canceled
      BY <1>4, <2>1, <2>3, <2>4, <3>2
    <3>. QED
      BY <3>1, <3>2
  <2>5. ASSUME b.reason \in Ends, ~b.droppedUnrun
        PROVE  k.hidden \subseteq waived
    <3>1. CASE e.removed = 0 \/ ~e.canceled
      <4>1. SameReport(a, b) /\ Dropped(f, g) = {}
        BY <2>1, <2>2, <3>1 DEF SameReport
      <4>. QED
        BY <1>5, <1>8, <2>5, <4>1 DEF SameReport
    <3>2. CASE e.removed # 0 /\ e.canceled
      <4>1. e.inserted # <<>>
        BY <2>1, <2>5, <3>2
      <4>2. SameReport(a, b) /\ k.hidden \subseteq h.hidden
        BY <1>8, <1>13, <2>1, <3>2, <4>1
      <4>. QED
        BY <1>5, <2>5, <4>2 DEF SameReport
    <3>. QED
      BY <3>1, <3>2
  <2>. QED
    BY <2>1, <2>3, <2>4, <2>5
<1>. QED
  BY <1>10, <1>11, <1>12, <1>13

LEMMA FatedIsReckoned ==
    ASSUME NEW s, NEW fresh, NEW waived, Fated(s, fresh, waived)
    PROVE  Reckoned(s, waived)
<1>. DEFINE S == {n \in Nat : n <= Len(s) =>
                                 Reckoned(SubSeq(s, 1, n), waived)}
<1>0. s \in Seq(LogEvents) /\ Len(s) \in Nat
  BY FatedLast DEF Logs
<1>1. 0 \in S
  <2>1. SubSeq(s, 1, 0) = <<>>
    BY <1>0
  <2>2. Fated(<<>>, fresh, waived)
    <3>1. Fated(SubSeq(s, 1, 0), fresh, waived)
      BY <1>0, FatedPrefix
    <3>. QED
      BY <2>1, <3>1
  <2>3. FreshAccount \in Accounts /\ FreshAccount.open = 0
    BY DEF FreshAccount, Accounts, Reasons, Ends
  <2>4. /\ FreshHistory.account = FreshAccount
        /\ FreshHistory.fates = FreshFates /\ FreshHistory.hidden = {}
    BY DEF FreshHistory
  <2>5. TraceOf(<<>>).openTurn = 0
    BY GoodEmpty DEF Closed
  <2>6. ClaimedIn(<<>>) = {}
    BY <2>2, <2>5, FatedLast DEF FateAt
  <2>7. FatesOf(<<>>) = FreshFates
    BY FatesFollow
  <2>8. Reckoned(<<>>, waived)
    BY <2>3, <2>4, <2>5, <2>6, <2>7, HistoriesFollow DEF Reckoned
  <2>. QED
    BY <2>1, <2>8
<1>2. ASSUME NEW n \in Nat, n \in S
      PROVE  n + 1 \in S
  <2>1. ASSUME n + 1 <= Len(s)
        PROVE  Reckoned(SubSeq(s, 1, n + 1), waived)
    <3>. DEFINE p == SubSeq(s, 1, n)
                e == s[n + 1]
                q == SubSeq(s, 1, n + 1)
    <3>1. /\ n \in 0..Len(s) /\ n + 1 \in 0..Len(s) /\ n <= Len(s)
          /\ e \in LogEvents
      BY <1>0, <2>1
    <3>2. q = Append(p, e)
      BY <1>0, <2>1
    <3>3. Fated(p, fresh, waived) /\ Fated(q, fresh, waived)
      BY <3>1, FatedPrefix
    <3>4. Reckoned(p, waived)
      BY <1>2, <3>1
    <3>. HIDE DEF p, e, q
    <3>5. Reckoned(Append(p, e), waived)
      BY <3>1, <3>2, <3>3, <3>4, ReckonedGrows
    <3>. QED
      BY <3>2, <3>5 DEF q
  <2>. QED
    BY <2>1
<1>. HIDE DEF S
<1>3. \A n \in Nat : n \in S
  BY <1>1, <1>2, InboxScan!SetInduction
<1>4. Reckoned(SubSeq(s, 1, Len(s)), waived)
  BY <1>0, <1>3 DEF S
<1>5. SubSeq(s, 1, Len(s)) = s
  BY <1>0
<1>. QED
  BY <1>4, <1>5

(* The account of consumed work hides nothing (consumed-work.ts): after a  *)
(* turn it reports as ended well, nothing was canceled, or claimed and not *)
(* run, that a hook or a queue edit did not take, across any crashes.      *)
THEOREM AccountIsHonest == ResumeSpec => []AccountHidesNothing
<1>1. ASSUME FateInv
      PROVE  AccountHidesNothing
  <2>1. Reckoned(log, rewritten)
    BY <1>1, FatedIsReckoned DEF FateInv
  <2>. QED
    BY <2>1 DEF Reckoned, AccountHidesNothing
<1>. QED
  BY <1>1, FatesInvariant, PTL
=============================================================================
