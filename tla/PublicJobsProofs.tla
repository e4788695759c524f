-------------------------- MODULE PublicJobsProofs --------------------------
(***************************************************************************)
(* The jobs of the public API, for any jobs, handles, threads and bound on *)
(* the log: row, log, stream, chat session and executor agree.             *)
(*                                                                         *)
(* None of the properties is inductive.  All of them rest on the           *)
(* generation: a job is claimed once, under generation 1, and a worker     *)
(* past its claim either owns the running row of that generation or has    *)
(* been fenced by recovery, which left generation 2 and a failure          *)
(* (WorkerInv).  That recovery tells a failure at most once more rests on  *)
(* the jobs it has loaded: they are told at most once so far (FoundInv).   *)
(***************************************************************************)
EXTENDS PublicJobs, FiniteSetTheorems, TLAPS

\* A job is claimed once; the generation counts the claim and the recovery.
JobInv ==
    \A j \in Jobs :
        /\ job[j].status \in {"none", "queued"} =>
              job[j].owner = None /\ job[j].gen = 0 /\ claims[j] = 0
        /\ job[j].status = "running" =>
              job[j].owner \in Handles /\ job[j].gen = 1 /\ claims[j] = 1
        /\ IsFinished(j) =>
              /\ job[j].owner = None /\ claims[j] = 1
              /\ job[j].gen = 1 \/ (job[j].gen = 2 /\ job[j].status = "failed")

\* A worker past its claim owns the job or has lost it to recovery.
OwnsOrLost(row, h) ==
    \/ row.status = "running" /\ row.owner = h /\ row.gen = 1
    \/ row.status = "failed" /\ row.gen = 2

WorkerOK(h) ==
    /\ pc[h] # "none" <=> handle[h] = "running"
    /\ handle[h] \in {"registered", "queued", "running"} =>
          jobOf[h] \in Jobs /\ job[jobOf[h]].status # "none"
    /\ pc[h] \notin {"none", "claim"} =>
          gen[h] = 1 /\ OwnsOrLost(job[jobOf[h]], h)

WorkerInv == \A h \in Handles : WorkerOK(h)

OfferInv == \A j \in offering : job[j].status # "none"

\* What the log tells of a job with this status.
Tells(status, events) ==
    /\ status \in Terminal <=> TerminalIn(events) # {}
    /\ \A i \in TerminalIn(events) : events[i] = status
    /\ Cardinality(TerminalIn(events)) <= IF status = "failed" THEN 2 ELSE 1

LogInv == \A j \in Jobs : Tells(job[j].status, log[j])

\* What recovery has loaded is running, or has been told once since.
FoundInv ==
    found # None =>
        \A j \in found :
            /\ job[j].status \in {"running"} \cup Terminal
            /\ Cardinality(TerminalIn(log[j])) <= 1

ReaderInv ==
    \A j \in Jobs :
        /\ reader[j].cursor <= Len(log[j])
        /\ reader[j].saw # None /\ reader[j].saw \in Terminal => IsFinished(j)
        /\ ~reader[j].open =>
              \E i \in 1..reader[j].cursor : log[j][i] \in Terminal

PoolInv ==
    /\ pool # "open" => \A h \in Handles : handle[h] # "queued"
    /\ ShutdownDrains

JobsInv == /\ TypeOK
           /\ JobInv /\ WorkerInv /\ OfferInv
           /\ LogInv /\ FoundInv /\ ReaderInv
           /\ PoolInv
-----------------------------------------------------------------------------
(* What an append does to what a log tells. *)

LEMMA TerminalFinite ==
    ASSUME NEW events \in Seq(EventTypes)
    PROVE  /\ IsFiniteSet(TerminalIn(events))
           /\ Cardinality(TerminalIn(events)) \in Nat
<1>1. IsFiniteSet(1..Len(events))
  BY FS_Interval
<1>2. TerminalIn(events) \in SUBSET (1..Len(events))
  BY DEF TerminalIn
<1>. QED
  BY <1>1, <1>2, FS_Subset, FS_CardinalityType

\* An event that ends nothing tells nothing.
LEMMA AppendOther ==
    ASSUME NEW events \in Seq(EventTypes), NEW type \in EventTypes \ Terminal
    PROVE  TerminalIn(Append(events, type)) = TerminalIn(events)
BY DEF TerminalIn

LEMMA AppendTerminal ==
    ASSUME NEW events \in Seq(EventTypes), NEW type \in Terminal
    PROVE  LET told == TerminalIn(events)
               new == TerminalIn(Append(events, type))
           IN  /\ new = told \cup {Len(events) + 1}
               /\ Cardinality(new) = Cardinality(told) + 1
<1>. DEFINE told == TerminalIn(events)
            new == TerminalIn(Append(events, type))
<1>1. new = told \cup {Len(events) + 1}
  BY DEF TerminalIn
<1>2. Len(events) + 1 \notin told
  BY DEF TerminalIn
<1>. QED
  BY <1>1, <1>2, TerminalFinite, FS_AddElement

\* The first terminal event of a running job, and a failure told again.
LEMMA TellsTerminal ==
    ASSUME NEW events \in Seq(EventTypes), NEW type \in Terminal,
           NEW status, Tells(status, events),
           \/ status \notin Terminal
           \/ /\ status = type /\ type = "failed"
              /\ Cardinality(TerminalIn(events)) <= 1
    PROVE  Tells(type, Append(events, type))
<1>. DEFINE told == TerminalIn(events)
            new == TerminalIn(Append(events, type))
<1>1. /\ new = told \cup {Len(events) + 1}
      /\ Cardinality(new) = Cardinality(told) + 1
  BY AppendTerminal
<1>2. new # {}
  BY <1>1
<1>3. \A i \in new : Append(events, type)[i] = type
  <2>1. Append(events, type)[Len(events) + 1] = type
    OBVIOUS
  <2>2. \A i \in told : Append(events, type)[i] = events[i] /\ events[i] = type
    BY DEF Tells, TerminalIn
  <2>. QED
    BY <1>1, <2>1, <2>2
<1>4. Cardinality(new) <= IF type = "failed" THEN 2 ELSE 1
  <2>1. CASE status \notin Terminal
    <3>1. told = {}
      BY <2>1 DEF Tells
    <3>. QED
      BY <1>1, <3>1, FS_EmptySet
  <2>2. CASE status \in Terminal
    BY <1>1, <2>2, TerminalFinite
  <2>. QED
    BY <2>1, <2>2
<1>. HIDE DEF new, told
<1>5. Tells(type, Append(events, type)) <=>
         /\ type \in Terminal <=> new # {}
         /\ \A i \in new : Append(events, type)[i] = type
         /\ Cardinality(new) <= IF type = "failed" THEN 2 ELSE 1
  BY DEF Tells, new
<1>. QED
  BY <1>2, <1>3, <1>4, <1>5

\* A log is never told less.
LEMMA TellsOther ==
    ASSUME NEW events \in Seq(EventTypes), NEW type \in EventTypes \ Terminal,
           NEW status, Tells(status, events)
    PROVE  Tells(status, Append(events, type))
<1>1. TerminalIn(Append(events, type)) = TerminalIn(events)
  BY AppendOther
<1>2. \A i \in TerminalIn(events) : Append(events, type)[i] = events[i]
  BY DEF TerminalIn
<1>. QED
  BY <1>1, <1>2 DEF Tells
-----------------------------------------------------------------------------
(* What a step does to a row and to a log. *)

\* Every row but this one stays, and this one has these values.
Becomes(j, status, owner, g) ==
    /\ job' \in [Jobs -> Job]
    /\ job'[j].status = status /\ job'[j].owner = owner /\ job'[j].gen = g
    /\ \A k \in Jobs : k # j => job'[k] = job[k]

LEMMA RowBecomes ==
    ASSUME job \in [Jobs -> Job], NEW j \in Jobs, NEW row \in Job,
           job' = [job EXCEPT ![j] = row]
    PROVE  Becomes(j, row.status, row.owner, row.gen)
<1>1. job'[j] = row
  OBVIOUS
<1>2. job' \in [Jobs -> Job] /\ \A k \in Jobs : k # j => job'[k] = job[k]
  OBVIOUS
<1>. QED
  BY <1>1, <1>2 DEF Becomes

With(row, status, owner, g) ==
    [row EXCEPT !.status = status, !.owner = owner, !.gen = g]

LEMMA WithTyped ==
    ASSUME NEW row \in Job, NEW status \in JobStatuses,
           NEW owner \in Handles \cup {None}, NEW g \in Nat
    PROVE  LET new == With(row, status, owner, g)
           IN  /\ new \in Job
               /\ new.status = status /\ new.owner = owner /\ new.gen = g
BY DEF Job, With

LEMMA FailedJobTyped ==
    ASSUME NEW row \in Job
    PROVE  /\ FailedJob(row) \in Job
           /\ IF row.status = "running"
              THEN /\ FailedJob(row).status = "failed"
                   /\ FailedJob(row).owner = None
                   /\ FailedJob(row).gen = row.gen + 1
              ELSE FailedJob(row) = row
<1>1. row.gen + 1 \in Nat /\ "failed" \in JobStatuses
  BY DEF Job, JobStatuses, Terminal
<1>2. row.status = "running" =>
         FailedJob(row) = With(row, "failed", None, row.gen + 1)
  BY DEF FailedJob, With
<1>3. row.status # "running" => FailedJob(row) = row
  BY DEF FailedJob
<1>. QED
  BY <1>1, <1>2, <1>3, WithTyped

LEMMA Creates ==
    ASSUME job \in [Jobs -> Job], NEW j \in Jobs, Create(j)
    PROVE  Becomes(j, "queued", job[j].owner, job[j].gen)
<1>. DEFINE row == [job[j] EXCEPT !.status = "queued"]
<1>1. row \in Job
  BY DEF Job, JobStatuses
<1>2. row.status = "queued" /\ row.owner = job[j].owner /\ row.gen = job[j].gen
  BY DEF Job
<1>3. job' = [job EXCEPT ![j] = row]
  BY DEF Create
<1>. HIDE DEF row
<1>. QED
  BY <1>1, <1>2, <1>3, RowBecomes

LEMMA Claims ==
    ASSUME job \in [Jobs -> Job], NEW h \in Handles, jobOf[h] \in Jobs,
           ClaimJob(h), Claimable(jobOf[h])
    PROVE  Becomes(jobOf[h], "running", h, job[jobOf[h]].gen + 1)
<1>. DEFINE j == jobOf[h]
            row == With(job[j], "running", h, job[j].gen + 1)
<1>1. job[j].gen + 1 \in Nat /\ "running" \in JobStatuses
  BY DEF Job, JobStatuses
<1>2. row \in Job /\ row.status = "running" /\ row.owner = h
      /\ row.gen = job[j].gen + 1
  BY <1>1, WithTyped
<1>3. job' = [job EXCEPT ![j] = row]
  BY DEF ClaimJob, With
<1>. HIDE DEF row
<1>. QED
  BY <1>2, <1>3, RowBecomes

LEMMA Publishes ==
    ASSUME job \in [Jobs -> Job], NEW h \in Handles, jobOf[h] \in Jobs,
           Terminalize(h), OwnsJob(h)
    PROVE  /\ Outcome[pc[h]] \in Terminal
           /\ Becomes(jobOf[h], Outcome[pc[h]], None, job[jobOf[h]].gen)
<1>. DEFINE j == jobOf[h]
            row == [job[j] EXCEPT !.status = Outcome[pc[h]], !.owner = None]
<1>1. Outcome[pc[h]] \in Terminal
  BY DEF Terminalize, Outcome, Terminal
<1>2. row \in Job /\ row.status = Outcome[pc[h]] /\ row.owner = None
      /\ row.gen = job[j].gen
  BY <1>1 DEF Job, JobStatuses
<1>3. job' = [job EXCEPT ![j] = row]
  BY DEF Terminalize
<1>. HIDE DEF row
<1>. QED
  BY <1>1, <1>2, <1>3, RowBecomes

\* A cancel request leaves everything but its mark.
LEMMA Marks ==
    ASSUME job \in [Jobs -> Job], NEW j \in Jobs, CancelWrite(j)
    PROVE  Becomes(j, job[j].status, job[j].owner, job[j].gen)
<1>. DEFINE row == [job[j] EXCEPT !.cancel = TRUE]
<1>1. row \in Job /\ row.status = job[j].status /\ row.owner = job[j].owner
      /\ row.gen = job[j].gen
  BY DEF Job
<1>2. job' = [job EXCEPT ![j] = row]
  BY DEF CancelWrite
<1>. HIDE DEF row
<1>. QED
  BY <1>1, <1>2, RowBecomes

LEMMA Recovers ==
    ASSUME job \in [Jobs -> Job], FailRunning, NEW j \in Jobs
    PROVE  /\ job' \in [Jobs -> Job]
           /\ j \in found /\ job[j].status = "running" =>
                 /\ job'[j].status = "failed" /\ job'[j].owner = None
                 /\ job'[j].gen = job[j].gen + 1
           /\ j \notin found \/ job[j].status # "running" => job'[j] = job[j]
<1>1. \A k \in Jobs : FailedJob(job[k]) \in Job
  BY FailedJobTyped
<1>2. job' \in [Jobs -> Job]
  BY <1>1 DEF FailRunning
<1>3. job'[j] = IF j \in found THEN FailedJob(job[j]) ELSE job[j]
  BY DEF FailRunning
<1>. QED
  BY <1>2, <1>3, FailedJobTyped

\* Every log but this one stays, and this one has one event more.
Appends(j, type) ==
    /\ log' \in [Jobs -> Seq(EventTypes)]
    /\ log'[j] = Append(log[j], type)
    /\ \A k \in Jobs : k # j => log'[k] = log[k]

LEMMA EmitAppends ==
    ASSUME log \in [Jobs -> Seq(EventTypes)], NEW j \in Jobs,
           NEW type \in EventTypes, Emit(j, type)
    PROVE  Appends(j, type)
BY DEF Emit, Appends

LEMMA EventsTyped ==
    /\ Terminal \subseteq EventTypes
    /\ {"queued", "started", "progress", "cancel"} = EventTypes \ Terminal
BY DEF EventTypes, Terminal

-----------------------------------------------------------------------------
(* Types *)

LEMMA TypeStep ==
    ASSUME JobsInv, [Next]_vars
    PROVE  TypeOK'
<1>0. /\ job \in [Jobs -> Job] /\ claims \in [Jobs -> Nat]
      /\ log \in [Jobs -> Seq(EventTypes)]
      /\ reader \in [Jobs -> Reader] /\ chat \in [Jobs -> {"active", "running"}]
      /\ gen \in [Handles -> Nat] /\ seen \in [Handles -> Nat]
  BY DEF JobsInv, TypeOK
<1>1. ASSUME NEW h \in Handles, SubmitJob(h) \/ StartWorker(h) PROVE TypeOK'
  BY <1>1 DEF JobsInv, TypeOK, AsyncTypeOK, SubmitJob, StartWorker, Submit,
     Begin, Goto, HandleStatuses, WorkerSteps, jobVars, requestVars,
     workerVars, lifeVars
<1>2. ASSUME NEW h \in Handles, ClaimJob(h) PROVE TypeOK'
  <2>1. jobOf[h] \in Jobs
    BY <1>2 DEF JobsInv, WorkerInv, WorkerOK, ClaimJob
  <2>2. job' \in [Jobs -> Job]
    BY <1>0, <1>2, <2>1, Claims DEF ClaimJob, Becomes
  <2>3. claims' \in [Jobs -> Nat] /\ gen' \in [Handles -> Nat]
    <3>1. job[jobOf[h]].gen + 1 \in Nat /\ claims[jobOf[h]] + 1 \in Nat
      BY <1>0, <2>1 DEF Job
    <3>2. \/ /\ claims' = [claims EXCEPT ![jobOf[h]] = @ + 1]
             /\ gen' = [gen EXCEPT ![h] = job[jobOf[h]].gen + 1]
          \/ UNCHANGED <<claims, gen>>
      BY <1>2 DEF ClaimJob
    <3>. QED
      BY <1>0, <2>1, <3>1, <3>2
  <2>. QED
    BY <1>2, <2>2, <2>3 DEF JobsInv, TypeOK, AsyncTypeOK, ClaimJob, End, Goto,
       HandleStatuses, EndedHandle, WorkerSteps, requestVars, lifeVars
<1>3. ASSUME NEW h \in Handles, ReadLatest(h) \/ EmitStarted(h) PROVE TypeOK'
  <2>1. jobOf[h] \in Jobs
    BY <1>3 DEF JobsInv, WorkerInv, WorkerOK, ReadLatest, EmitStarted
  <2>2. log' \in [Jobs -> Seq(EventTypes)]
    BY <1>0, <1>3, <2>1, EmitAppends, EventsTyped
       DEF ReadLatest, EmitStarted, Appends, jobVars
  <2>3. seen' \in [Handles -> Nat]
    <3>1. Len(log[jobOf[h]]) \in Nat
      BY <1>0, <2>1
    <3>. QED
      BY <1>0, <1>3, <3>1 DEF ReadLatest, EmitStarted
  <2>. QED
    BY <1>3, <2>2, <2>3 DEF JobsInv, TypeOK, AsyncTypeOK, ReadLatest,
       EmitStarted, End, Goto, HandleStatuses, EndedHandle, WorkerSteps,
       jobVars, requestVars, lifeVars
<1>4. ASSUME NEW h \in Handles,
             \/ SeeCancel(h) \/ EnterHandler(h) \/ HandlerReturns(h)
             \/ NotCancelled(h) \/ HandlerFails(h)
      PROVE  TypeOK'
  BY <1>4 DEF JobsInv, TypeOK, AsyncTypeOK, SeeCancel, EnterHandler,
     HandlerReturns, NotCancelled, HandlerFails, Goto, WorkerSteps, Outcome,
     jobVars, requestVars, workerVars, lifeVars
<1>5. ASSUME NEW h \in Handles, Progress(h) PROVE TypeOK'
  <2>1. jobOf[h] \in Jobs
    BY <1>5 DEF JobsInv, WorkerInv, WorkerOK, Progress
  <2>2. log' \in [Jobs -> Seq(EventTypes)]
    BY <1>0, <1>5, <2>1, EmitAppends, EventsTyped DEF Progress, Appends
  <2>. QED
    BY <1>5, <2>2 DEF JobsInv, TypeOK, AsyncTypeOK, Progress, requestVars,
       workerVars, lifeVars
<1>6. ASSUME NEW h \in Handles, Terminalize(h) PROVE TypeOK'
  <2>1. jobOf[h] \in Jobs
    BY <1>6 DEF JobsInv, WorkerInv, WorkerOK, Terminalize, Outcome
  <2>2. job' \in [Jobs -> Job]
    BY <1>0, <1>6, <2>1, Publishes DEF Terminalize, Becomes
  <2>3. log' \in [Jobs -> Seq(EventTypes)]
    BY <1>0, <1>6, <2>1, Publishes, EmitAppends, EventsTyped
       DEF Terminalize, Appends
  <2>. QED
    BY <1>6, <2>2, <2>3 DEF JobsInv, TypeOK, AsyncTypeOK, Terminalize, End,
       Goto, HandleStatuses, EndedHandle, requestVars, lifeVars
<1>7. ASSUME NEW h \in Handles, TerminalizeRaises(h) PROVE TypeOK'
  BY <1>7 DEF JobsInv, TypeOK, AsyncTypeOK, TerminalizeRaises, End, Goto,
     HandleStatuses, EndedHandle, jobVars, requestVars, workerVars, lifeVars
<1>8. ASSUME NEW j \in Jobs, Create(j) PROVE TypeOK'
  <2>1. job' \in [Jobs -> Job]
    BY <1>0, <1>8, Creates DEF Becomes
  <2>2. log' \in [Jobs -> Seq(EventTypes)]
    BY <1>0, <1>8, EmitAppends, EventsTyped DEF Create, Appends
  <2>. QED
    BY <1>8, <2>1, <2>2 DEF JobsInv, TypeOK, AsyncTypeOK, Create, workerVars,
       lifeVars
<1>9. ASSUME NEW j \in Jobs, Offer(j) PROVE TypeOK'
  BY <1>9 DEF JobsInv, TypeOK, AsyncTypeOK, Offer, Register, HandleStatuses,
     jobVars, requestVars, workerVars, lifeVars
<1>10. ASSUME NEW j \in Jobs, CancelRead(j) \/ CancelWrite(j) PROVE TypeOK'
  <2>1. job' \in [Jobs -> Job]
    BY <1>0, <1>10, Marks DEF CancelRead, Becomes, jobVars
  <2>2. log' \in [Jobs -> Seq(EventTypes)]
    BY <1>0, <1>10, EmitAppends, EventsTyped
       DEF CancelRead, CancelWrite, Appends, jobVars
  <2>. QED
    BY <1>10, <2>1, <2>2 DEF JobsInv, TypeOK, AsyncTypeOK, CancelRead,
       CancelWrite, jobVars, workerVars, lifeVars
<1>11. ASSUME NEW j \in Jobs, ReadStatus(j) \/ ReadEvents(j) PROVE TypeOK'
  <2>1. job[j].status \in JobStatuses /\ Len(log[j]) \in Nat
    BY <1>0 DEF Job
  <2>2. reader' \in [Jobs -> Reader]
    <3>1. ASSUME ReadStatus(j) PROVE reader' \in [Jobs -> Reader]
      BY <1>0, <2>1, <3>1, ZenonT(30) DEF ReadStatus, Reader
    <3>2. ASSUME ReadEvents(j) PROVE reader' \in [Jobs -> Reader]
      BY <1>0, <2>1, <3>2 DEF ReadEvents, Reader
    <3>. QED
      BY <1>11, <3>1, <3>2
  <2>. QED
    BY <1>11, <2>2 DEF JobsInv, TypeOK, AsyncTypeOK, ReadStatus, ReadEvents,
       jobVars, workerVars, lifeVars
<1>12. CASE Halt
  BY <1>12 DEF JobsInv, TypeOK, AsyncTypeOK, Halt, HandleStatuses, Reader,
     jobVars
<1>13. CASE Shutdown /\ ~Halt
  BY <1>13 DEF JobsInv, TypeOK, AsyncTypeOK, Shutdown, StopAccepting,
     ClosePool, Drain, HandleStatuses, EndedHandle, jobVars, requestVars,
     workerVars, lifeVars
<1>14. CASE Reload \/ LoadRunning
  BY <1>14 DEF JobsInv, TypeOK, AsyncTypeOK, Reload, LoadRunning, FreshQueue,
     jobVars, requestVars, workerVars, lifeVars
<1>15. CASE Startup
  <2>1. \A j \in Jobs : FailedJob(job[j]) \in Job
    BY <1>0, FailedJobTyped
  <2>2. job' \in [Jobs -> Job]
    BY <1>0, <1>15, <2>1 DEF Startup, FailRunning
  <2>3. log' \in [Jobs -> Seq(EventTypes)]
    BY <1>0, <1>15 DEF Startup, FailRunning, Terminal, EventTypes
  <2>4. chat' \in [Jobs -> {"active", "running"}]
    BY <1>0, <1>15 DEF Startup, FailRunning
  <2>. QED
    BY <1>15, <2>2, <2>3, <2>4 DEF JobsInv, TypeOK, AsyncTypeOK, Startup,
       ToOffer, workerVars
<1>16. CASE UNCHANGED vars
  BY <1>16 DEF JobsInv, TypeOK, AsyncTypeOK, vars, jobVars, requestVars,
     workerVars, lifeVars
<1>. QED
  BY <1>1, <1>2, <1>3, <1>4, <1>5, <1>6, <1>7, <1>8, <1>9, <1>10, <1>11,
     <1>12, <1>13, <1>14, <1>15, <1>16 DEF Next, Work, Crash
-----------------------------------------------------------------------------
(* Rows and workers *)

\* The steps that write rows or count claims, and those that write the log.
RowStep ==
    \/ UNCHANGED <<job, claims>>
    \/ \E j \in Jobs : Create(j) \/ CancelWrite(j)
    \/ \E h \in Handles : \/ ClaimJob(h) /\ Claimable(jobOf[h])
                          \/ Terminalize(h) /\ OwnsJob(h)
    \/ Startup

LogStep ==
    \/ UNCHANGED log
    \/ \E j \in Jobs : Create(j) \/ CancelWrite(j)
    \/ \E h \in Handles : \/ EmitStarted(h) \/ Progress(h)
                          \/ Terminalize(h) /\ OwnsJob(h)
    \/ Startup

LEMMA WritingSteps ==
    ASSUME [Next]_vars
    PROVE  RowStep /\ LogStep
<1>1. ASSUME NEW h \in Handles, Work(h) \/ Progress(h) \/ HandlerFails(h)
                                \/ TerminalizeRaises(h)
      PROVE  RowStep /\ LogStep
  <2>1. \/ UNCHANGED <<job, claims>>
        \/ ClaimJob(h) /\ Claimable(jobOf[h])
        \/ Terminalize(h) /\ OwnsJob(h)
    BY <1>1 DEF Work, SubmitJob, StartWorker, ClaimJob, ReadLatest,
       EmitStarted, SeeCancel, EnterHandler, HandlerReturns, NotCancelled,
       Terminalize, Progress, HandlerFails, TerminalizeRaises, jobVars
  <2>2. \/ UNCHANGED log
        \/ EmitStarted(h) \/ Progress(h)
        \/ Terminalize(h) /\ OwnsJob(h)
    BY <1>1 DEF Work, SubmitJob, StartWorker, ClaimJob, ReadLatest,
       EmitStarted, SeeCancel, EnterHandler, HandlerReturns, NotCancelled,
       Terminalize, HandlerFails, TerminalizeRaises, jobVars
  <2>3. RowStep
    BY <2>1 DEF RowStep
  <2>4. LogStep
    BY <2>2 DEF LogStep
  <2>. QED
    BY <2>3, <2>4
<1>2. ASSUME NEW j \in Jobs, Offer(j) \/ CancelRead(j) \/ ReadStatus(j)
                             \/ ReadEvents(j)
      PROVE  RowStep /\ LogStep
  BY <1>2 DEF Offer, CancelRead, ReadStatus, ReadEvents, jobVars, RowStep,
     LogStep
<1>3. CASE Crash \/ Shutdown \/ Reload \/ LoadRunning \/ UNCHANGED vars
  BY <1>3 DEF Crash, Halt, Shutdown, Reload, LoadRunning, vars, jobVars,
     RowStep, LogStep
<1>4. CASE Startup \/ \E j \in Jobs : Create(j) \/ CancelWrite(j)
  BY <1>4 DEF RowStep, LogStep
<1>. QED
  BY <1>1, <1>2, <1>3, <1>4 DEF Next

\* What is left of the types.
LEMMA Typed ==
    ASSUME JobsInv
    PROVE  /\ job \in [Jobs -> Job] /\ claims \in [Jobs -> Nat]
           /\ log \in [Jobs -> Seq(EventTypes)]
           /\ reader \in [Jobs -> Reader]
           /\ jobOf \in [Handles -> Jobs \cup {None}]
           /\ pc \in [Handles -> {"none"} \cup WorkerSteps \cup DOMAIN Outcome]
           /\ gen \in [Handles -> Nat]
           /\ handle \in [Handles -> HandleStatuses]
BY DEF JobsInv, TypeOK, AsyncTypeOK

\* A worker has a job, and past its claim it is or was its owner.
LEMMA WorkersJob ==
    ASSUME JobsInv, NEW h \in Handles, pc[h] # "none"
    PROVE  /\ handle[h] = "running"
           /\ jobOf[h] \in Jobs /\ job[jobOf[h]].status # "none"
           /\ pc[h] # "claim" => gen[h] = 1 /\ OwnsOrLost(job[jobOf[h]], h)
BY DEF JobsInv, WorkerInv, WorkerOK

LEMMA JobStep ==
    ASSUME JobsInv, [Next]_vars
    PROVE  JobInv'
<1>. USE Typed
<1>1. CASE UNCHANGED <<job, claims>>
  BY <1>1 DEF JobsInv, JobInv, IsFinished
<1>2. ASSUME NEW j \in Jobs, Create(j) PROVE JobInv'
  <2>1. Becomes(j, "queued", job[j].owner, job[j].gen)
    BY <1>2, Creates
  <2>2. job[j].status = "none" /\ UNCHANGED claims
    BY <1>2 DEF Create
  <2>. QED
    BY <2>1, <2>2 DEF JobsInv, JobInv, IsFinished, Becomes, Terminal
<1>3. ASSUME NEW j \in Jobs, CancelWrite(j) PROVE JobInv'
  <2>1. Becomes(j, job[j].status, job[j].owner, job[j].gen)
    BY <1>3, Marks
  <2>2. UNCHANGED claims
    BY <1>3 DEF CancelWrite
  <2>. QED
    BY <2>1, <2>2, ZenonT(30) DEF JobsInv, JobInv, IsFinished, Becomes
<1>4. ASSUME NEW h \in Handles, ClaimJob(h), Claimable(jobOf[h]) PROVE JobInv'
  <2>. DEFINE j == jobOf[h]
  <2>1. j \in Jobs
    BY <1>4, WorkersJob DEF ClaimJob
  <2>2. Becomes(j, "running", h, job[j].gen + 1)
    BY <1>4, <2>1, Claims
  <2>3. claims' = [claims EXCEPT ![j] = @ + 1]
    BY <1>4 DEF ClaimJob
  <2>4. job[j].gen = 0 /\ claims[j] = 0
    BY <1>4, <2>1, JobsAssumption DEF JobsInv, JobInv, Claimable
  <2>. QED
    BY <2>1, <2>2, <2>3, <2>4 DEF JobsInv, JobInv, IsFinished, Becomes,
       Terminal
<1>5. ASSUME NEW h \in Handles, Terminalize(h), OwnsJob(h) PROVE JobInv'
  <2>. DEFINE j == jobOf[h]
  <2>1. j \in Jobs
    BY <1>5, WorkersJob DEF Terminalize, Outcome
  <2>2. /\ Outcome[pc[h]] \in Terminal
        /\ Becomes(j, Outcome[pc[h]], None, job[j].gen)
    BY <1>5, <2>1, Publishes
  <2>3. UNCHANGED claims
    BY <1>5 DEF Terminalize
  <2>4. job[j].gen = 1 /\ claims[j] = 1
    BY <1>5, <2>1 DEF JobsInv, JobInv, OwnsJob
  <2>. QED
    BY <2>1, <2>2, <2>3, <2>4, ZenonT(30)
       DEF JobsInv, JobInv, IsFinished, Becomes,
       Terminal
<1>6. CASE Startup
  <2>1. FailRunning /\ UNCHANGED claims
    BY <1>6 DEF Startup
  <2>2. ASSUME NEW j \in Jobs
        PROVE  \/ job'[j] = job[j]
               \/ /\ job[j].gen = 1 /\ claims[j] = 1
                  /\ job'[j].status = "failed" /\ job'[j].owner = None
                  /\ job'[j].gen = 2
    <3>1. /\ j \in found /\ job[j].status = "running" =>
                /\ job'[j].status = "failed" /\ job'[j].owner = None
                /\ job'[j].gen = job[j].gen + 1
          /\ j \notin found \/ job[j].status # "running" => job'[j] = job[j]
      BY <2>1, Recovers
    <3>2. job[j].status = "running" => job[j].gen = 1 /\ claims[j] = 1
      BY DEF JobsInv, JobInv
    <3>. QED
      BY <3>1, <3>2
  <2>. QED
    BY <2>1, <2>2 DEF JobsInv, JobInv, IsFinished, Terminal
<1>. QED
  BY <1>1, <1>2, <1>3, <1>4, <1>5, <1>6, WritingSteps DEF RowStep

\* What a step does to the row of a job.
RowMoves(j) ==
    \/ /\ job'[j].status = job[j].status /\ job'[j].owner = job[j].owner
       /\ job'[j].gen = job[j].gen
    \/ job[j].status = "none" /\ job'[j].status = "queued"
    \/ /\ job[j].status = "queued" /\ job'[j].status = "running"
       /\ \E h \in Handles : ClaimJob(h) /\ jobOf[h] = j /\ job'[j].owner = h
       /\ job'[j].gen = 1
    \/ /\ job[j].status = "running" /\ job'[j].status \in Terminal
       /\ \E h \in Handles : /\ Terminalize(h) /\ OwnsJob(h) /\ jobOf[h] = j
                            /\ job'[j].status = Outcome[pc[h]]
    \/ /\ job[j].status = "running" /\ job'[j].status = "failed"
       /\ job'[j].gen = 2 /\ Startup /\ j \in found

LEMMA RowsMove ==
    ASSUME JobsInv, [Next]_vars, NEW j \in Jobs
    PROVE  RowMoves(j)
<1>. USE Typed DEF RowMoves
<1>1. CASE UNCHANGED <<job, claims>>
  BY <1>1
<1>2. ASSUME NEW k \in Jobs, Create(k) PROVE RowMoves(j)
  <2>1. Becomes(k, "queued", job[k].owner, job[k].gen)
    BY <1>2, Creates
  <2>2. job[k].status = "none"
    BY <1>2 DEF Create
  <2>. QED
    BY <2>1, <2>2 DEF Becomes
<1>3. ASSUME NEW k \in Jobs, CancelWrite(k) PROVE RowMoves(j)
  <2>1. Becomes(k, job[k].status, job[k].owner, job[k].gen)
    BY <1>3, Marks
  <2>. QED
    BY <2>1 DEF Becomes
<1>4. ASSUME NEW h \in Handles, ClaimJob(h), Claimable(jobOf[h])
      PROVE  RowMoves(j)
  <2>1. jobOf[h] \in Jobs
    BY <1>4, WorkersJob DEF ClaimJob
  <2>2. Becomes(jobOf[h], "running", h, job[jobOf[h]].gen + 1)
    BY <1>4, <2>1, Claims
  <2>3. job[jobOf[h]].status = "queued" /\ job[jobOf[h]].gen = 0
    BY <1>4, <2>1, JobsAssumption DEF JobsInv, JobInv, Claimable
  <2>4. CASE j = jobOf[h]
    BY <1>4, <2>2, <2>3, <2>4 DEF Becomes
  <2>5. CASE j # jobOf[h]
    BY <2>2, <2>5 DEF Becomes
  <2>. QED
    BY <2>4, <2>5
<1>5. ASSUME NEW h \in Handles, Terminalize(h), OwnsJob(h) PROVE RowMoves(j)
  <2>1. jobOf[h] \in Jobs
    BY <1>5, WorkersJob DEF Terminalize, Outcome
  <2>2. /\ Outcome[pc[h]] \in Terminal
        /\ Becomes(jobOf[h], Outcome[pc[h]], None, job[jobOf[h]].gen)
    BY <1>5, <2>1, Publishes
  <2>3. job[jobOf[h]].status = "running"
    BY <1>5 DEF OwnsJob
  <2>4. CASE j = jobOf[h]
    BY <1>5, <2>2, <2>3, <2>4 DEF Becomes
  <2>5. CASE j # jobOf[h]
    BY <2>2, <2>5 DEF Becomes
  <2>. QED
    BY <2>4, <2>5
<1>6. CASE Startup
  <2>1. FailRunning
    BY <1>6 DEF Startup
  <2>2. /\ j \in found /\ job[j].status = "running" =>
              /\ job'[j].status = "failed" /\ job'[j].owner = None
              /\ job'[j].gen = job[j].gen + 1
        /\ j \notin found \/ job[j].status # "running" => job'[j] = job[j]
    BY <2>1, Recovers
  <2>3. job[j].status = "running" => job[j].gen = 1
    BY DEF JobsInv, JobInv
  <2>. QED
    BY <1>6, <2>2, <2>3
<1>. QED
  BY <1>1, <1>2, <1>3, <1>4, <1>5, <1>6, WritingSteps DEF RowStep

\* A job that exists goes on to exist, and one that was claimed is running
\* or keeps the outcome it has.
LEMMA StatusMoves ==
    ASSUME JobsInv, [Next]_vars, NEW j \in Jobs
    PROVE  /\ job[j].status # "none" => job'[j].status # "none"
           /\ job[j].status \in {"running"} \cup Terminal =>
                 job'[j].status \in {"running"} \cup Terminal
           /\ IsFinished(j) => job'[j].status = job[j].status
BY RowsMove DEF RowMoves, IsFinished, Terminal

\* A worker past its claim keeps or loses its job, unless it ends it itself.
LEMMA WorkersKeep ==
    ASSUME JobsInv, [Next]_vars, NEW h \in Handles,
           pc[h] \notin {"none", "claim"}, ~Terminalize(h)
    PROVE  OwnsOrLost(job'[jobOf[h]], h)
<1>1. jobOf[h] \in Jobs /\ OwnsOrLost(job[jobOf[h]], h)
  BY WorkersJob
<1>2. RowMoves(jobOf[h])
  BY <1>1, RowsMove
<1>. QED
  BY <1>1, <1>2 DEF RowMoves, OwnsOrLost, OwnsJob

\* A worker that stays where it is, moves on past its claim, or ends.
LEMMA WorkerStays ==
    ASSUME JobsInv, [Next]_vars, NEW g \in Handles,
           jobOf'[g] = jobOf[g], gen'[g] = gen[g],
           handle'[g] \in {"registered", "queued", "running"} =>
              handle[g] \in {"registered", "queued", "running"},
           pc'[g] # "none" <=> handle'[g] = "running",
           pc'[g] \notin {"none", "claim"} =>
              pc[g] \notin {"none", "claim"} /\ ~Terminalize(g)
    PROVE  WorkerOK(g)'
<1>1. WorkerOK(g)
  BY DEF JobsInv, WorkerInv
<1>2. handle'[g] \in {"registered", "queued", "running"} =>
         jobOf[g] \in Jobs /\ job'[jobOf[g]].status # "none"
  BY <1>1, StatusMoves DEF WorkerOK
<1>3. pc'[g] \notin {"none", "claim"} =>
         gen[g] = 1 /\ OwnsOrLost(job'[jobOf[g]], g)
  BY <1>1, WorkersKeep DEF WorkerOK
<1>. QED
  BY <1>2, <1>3 DEF WorkerOK

LEMMA WorkerStep ==
    ASSUME JobsInv, [Next]_vars
    PROVE  WorkerInv'
<1>. SUFFICES ASSUME NEW g \in Handles PROVE WorkerOK(g)'
  BY DEF WorkerInv
<1>. USE Typed
<1>0. WorkerOK(g)
  BY DEF JobsInv, WorkerInv
<1>1. ASSUME NEW h \in Handles, ClaimJob(h), Claimable(jobOf[h]), g = h
      PROVE  WorkerOK(g)'
  <2>1. jobOf[h] \in Jobs /\ handle[h] = "running"
    BY <1>1, WorkersJob DEF ClaimJob
  <2>2. Becomes(jobOf[h], "running", h, job[jobOf[h]].gen + 1)
    BY <1>1, <2>1, Claims
  <2>3. job[jobOf[h]].gen = 0
    BY <1>1, <2>1, JobsAssumption DEF JobsInv, JobInv, Claimable
  <2>4. /\ gen'[h] = job[jobOf[h]].gen + 1 /\ pc'[h] = "start"
        /\ UNCHANGED <<handle, jobOf>>
    BY <1>1 DEF ClaimJob, Goto
  <2>. QED
    BY <1>1, <2>1, <2>2, <2>3, <2>4 DEF WorkerOK, OwnsOrLost, Becomes
<1>2. ASSUME NEW h \in Handles, ClaimJob(h), ~Claimable(jobOf[h]) \/ g # h
      PROVE  WorkerOK(g)'
  <2>1. /\ jobOf' = jobOf /\ gen'[g] = gen[g]
        /\ IF g = h THEN pc'[g] = "none" /\ handle'[g] = "succeeded"
                    ELSE pc'[g] = pc[g] /\ handle'[g] = handle[g]
    BY <1>2 DEF ClaimJob, Goto, End
  <2>2. g # h => ~Terminalize(g)
    BY <1>2 DEF ClaimJob, Terminalize, Goto, Outcome
  <2>. QED
    BY <1>0, <2>1, <2>2, WorkerStays DEF WorkerOK
<1>3. ASSUME NEW h \in Handles, SubmitJob(h) \/ StartWorker(h)
      PROVE  WorkerOK(g)'
  <2>1. /\ jobOf' = jobOf /\ gen' = gen
        /\ IF g = h THEN \/ /\ handle[g] = "registered" /\ pc'[g] = pc[g]
                            /\ handle'[g] \in {"queued", "none"}
                         \/ /\ handle[g] = "queued" /\ handle'[g] = "running"
                            /\ pc'[g] = "claim"
                    ELSE pc'[g] = pc[g] /\ handle'[g] = handle[g]
    BY <1>3 DEF SubmitJob, StartWorker, Submit, Begin, Goto, workerVars
  <2>2. ~Terminalize(g)
    BY <1>3 DEF SubmitJob, StartWorker, Submit, Begin, Terminalize, End
  <2>. QED
    BY <1>0, <2>1, <2>2, WorkerStays DEF WorkerOK
<1>4. ASSUME NEW h \in Handles,
             \/ ReadLatest(h) \/ EmitStarted(h) \/ SeeCancel(h)
             \/ EnterHandler(h) \/ HandlerReturns(h) \/ NotCancelled(h)
             \/ Progress(h) \/ HandlerFails(h) \/ TerminalizeRaises(h)
      PROVE  WorkerOK(g)'
  <2>1. /\ jobOf' = jobOf /\ gen' = gen
        /\ IF g = h THEN /\ pc[g] \notin {"none", "claim"}
                         /\ \/ pc'[g] # "none" /\ handle'[g] = handle[g]
                            \/ pc'[g] = "none" /\ handle'[g] = "failed"
                    ELSE pc'[g] = pc[g] /\ handle'[g] = handle[g]
    BY <1>4 DEF ReadLatest, EmitStarted, SeeCancel, EnterHandler,
       HandlerReturns, NotCancelled, Progress, HandlerFails,
       TerminalizeRaises, Goto, End, workerVars
  <2>2. pc'[g] \notin {"none", "claim"} => ~Terminalize(g)
    BY DEF Terminalize, Goto
  <2>. QED
    BY <1>0, <2>1, <2>2, WorkerStays DEF WorkerOK
<1>5. ASSUME NEW h \in Handles, Terminalize(h) PROVE WorkerOK(g)'
  <2>1. /\ jobOf' = jobOf /\ gen' = gen
        /\ IF g = h THEN pc'[g] = "none" /\ handle'[g] = "succeeded"
                    ELSE pc'[g] = pc[g] /\ handle'[g] = handle[g]
    BY <1>5 DEF Terminalize, Goto, End
  <2>2. pc'[g] \notin {"none", "claim"} => ~Terminalize(g)
    BY DEF Terminalize, Goto
  <2>. QED
    BY <1>0, <2>1, <2>2, WorkerStays DEF WorkerOK
<1>6. ASSUME NEW j \in Jobs, Offer(j) PROVE WorkerOK(g)'
  <2>1. job[j].status # "none" /\ UNCHANGED job
    BY <1>6 DEF Offer, JobsInv, OfferInv, jobVars
  <2>2. \/ /\ handle[g] \in {"none"} \cup EndedHandle
           /\ handle'[g] = "registered" /\ jobOf'[g] = j
        \/ handle'[g] = handle[g] /\ jobOf'[g] = jobOf[g]
    BY <1>6 DEF Offer, Register
  <2>3. pc' = pc /\ gen' = gen
    BY <1>6 DEF Offer
  <2>. QED
    BY <1>0, <2>1, <2>2, <2>3 DEF WorkerOK, EndedHandle
<1>7. ASSUME NEW j \in Jobs, \/ Create(j) \/ CancelRead(j) \/ CancelWrite(j)
                             \/ ReadStatus(j) \/ ReadEvents(j)
      PROVE  WorkerOK(g)'
  <2>1. UNCHANGED <<handle, workerVars>>
    BY <1>7 DEF Create, CancelRead, CancelWrite, ReadStatus, ReadEvents
  <2>2. pc'[g] \notin {"none", "claim"} => ~Terminalize(g)
    BY DEF Terminalize, Goto
  <2>. QED
    BY <1>0, <2>1, <2>2, WorkerStays DEF WorkerOK, workerVars
<1>8. CASE Halt
  BY <1>8 DEF Halt, WorkerOK
<1>9. CASE Shutdown /\ ~Halt
  <2>1. UNCHANGED workerVars
    BY <1>9 DEF Shutdown
  <2>2. \/ handle'[g] = handle[g]
        \/ handle[g] = "queued" /\ handle'[g] = "cancelled"
    BY <1>9 DEF Shutdown, StopAccepting, ClosePool, Drain
  <2>3. pc'[g] \notin {"none", "claim"} => ~Terminalize(g)
    BY DEF Terminalize, Goto
  <2>. QED
    BY <1>0, <2>1, <2>2, <2>3, WorkerStays DEF WorkerOK, workerVars
<1>10. CASE Reload \/ LoadRunning \/ Startup \/ UNCHANGED vars
  <2>1. UNCHANGED <<handle, workerVars>>
    BY <1>10 DEF Reload, LoadRunning, Startup, vars
  <2>2. pc'[g] \notin {"none", "claim"} => ~Terminalize(g)
    BY DEF Terminalize, Goto
  <2>. QED
    BY <1>0, <2>1, <2>2, WorkerStays DEF WorkerOK, workerVars
<1>. QED
  BY <1>1, <1>2, <1>3, <1>4, <1>5, <1>6, <1>7, <1>8, <1>9, <1>10
     DEF Next, Work, Crash

LEMMA OfferStep ==
    ASSUME JobsInv, [Next]_vars
    PROVE  OfferInv'
<1>1. ASSUME NEW j \in offering PROVE j \in Jobs /\ job'[j].status # "none"
  BY StatusMoves DEF JobsInv, TypeOK, OfferInv
<1>2. ASSUME NEW k \in Jobs, Create(k) PROVE OfferInv'
  <2>1. offering' = offering \cup {k} /\ job'[k].status = "queued"
    BY <1>2, Typed, Creates DEF Create, Becomes
  <2>. QED
    BY <1>1, <2>1 DEF OfferInv
<1>3. CASE Startup
  <2>1. offering' \subseteq {j \in Jobs : job[j].status # "none"}
    BY <1>3 DEF Startup, ToOffer
  <2>. QED
    BY <2>1, StatusMoves DEF OfferInv
<1>4. CASE offering' \subseteq offering
  BY <1>1, <1>4 DEF OfferInv
<1>5. ASSUME NEW h \in Handles, \/ Work(h) \/ Progress(h) \/ HandlerFails(h)
                                \/ TerminalizeRaises(h)
      PROVE  UNCHANGED offering
  BY <1>5 DEF Work, SubmitJob, StartWorker, ClaimJob, ReadLatest, EmitStarted,
     SeeCancel, EnterHandler, HandlerReturns, NotCancelled, Terminalize,
     Progress, HandlerFails, TerminalizeRaises, requestVars
<1>6. ASSUME NEW j \in Jobs, \/ Offer(j) \/ CancelRead(j) \/ CancelWrite(j)
                             \/ ReadStatus(j) \/ ReadEvents(j)
      PROVE  offering' \subseteq offering
  BY <1>6 DEF Offer, CancelRead, CancelWrite, ReadStatus, ReadEvents
<1>7. CASE Crash \/ Shutdown \/ Reload \/ LoadRunning \/ UNCHANGED vars
  <2>1. offering' \subseteq offering
    BY <1>7 DEF Crash, Halt, Shutdown, Reload, LoadRunning, vars, requestVars
  <2>. QED
    BY <1>4, <2>1
<1>. QED
  BY <1>2, <1>3, <1>4, <1>5, <1>6, <1>7 DEF Next
-----------------------------------------------------------------------------
(* The log *)

\* What a step does to the log of a job, next to what it does to its row: a
\* terminal event is written by the step that finishes the job, or by the
\* recovery that had loaded it before it failed.
LogMoves(j) ==
    \/ log'[j] = log[j] /\ (IsFinished(j)' <=> IsFinished(j))
    \/ /\ \E type \in EventTypes \ Terminal : log'[j] = Append(log[j], type)
       /\ IsFinished(j)' <=> IsFinished(j)
    \/ /\ IsFinished(j)' /\ log'[j] = Append(log[j], job'[j].status)
       /\ \/ job[j].status = "running"
          \/ /\ job[j].status = "failed" /\ job'[j].status = "failed"
             /\ Startup /\ j \in found

LEMMA LogsMove ==
    ASSUME JobsInv, [Next]_vars, NEW j \in Jobs
    PROVE  LogMoves(j)
<1>. USE Typed
<1>. DEFINE Same == IsFinished(j)' <=> IsFinished(j)
<1>1. ASSUME UNCHANGED log, ~Startup,
             \A h \in Handles : ~(Terminalize(h) /\ OwnsJob(h))
      PROVE  LogMoves(j)
  <2>1. Same
    BY <1>1, RowsMove DEF RowMoves, IsFinished, Terminal
  <2>. QED
    BY <1>1, <2>1 DEF LogMoves
<1>2. ASSUME NEW k \in Jobs, Create(k) PROVE LogMoves(j)
  <2>1. Becomes(k, "queued", job[k].owner, job[k].gen)
    BY <1>2, Creates
  <2>2. job[k].status = "none" /\ Appends(k, "queued")
    BY <1>2, EmitAppends, EventsTyped DEF Create
  <2>3. Same
    BY <2>1, <2>2 DEF Becomes, IsFinished, Terminal
  <2>. QED
    BY <2>2, <2>3, EventsTyped DEF LogMoves, Appends
<1>3. ASSUME NEW k \in Jobs, CancelWrite(k) PROVE LogMoves(j)
  <2>1. Becomes(k, job[k].status, job[k].owner, job[k].gen)
    BY <1>3, Marks
  <2>2. Same
    BY <2>1 DEF Becomes, IsFinished
  <2>3. Appends(k, "cancel") \/ UNCHANGED log
    BY <1>3, EmitAppends, EventsTyped DEF CancelWrite
  <2>. QED
    BY <2>2, <2>3, EventsTyped DEF LogMoves, Appends
<1>4. ASSUME NEW h \in Handles, EmitStarted(h) \/ Progress(h)
      PROVE  LogMoves(j)
  <2>1. jobOf[h] \in Jobs
    BY <1>4, WorkersJob DEF EmitStarted, Progress
  <2>2. UNCHANGED job
    BY <1>4 DEF EmitStarted, Progress
  <2>3. \/ Appends(jobOf[h], "started") \/ Appends(jobOf[h], "progress")
        \/ UNCHANGED log
    BY <1>4, <2>1, EmitAppends, EventsTyped DEF EmitStarted, Progress
  <2>4. Same
    BY <2>2 DEF IsFinished
  <2>. QED
    BY <2>3, <2>4, EventsTyped DEF LogMoves, Appends
<1>5. ASSUME NEW h \in Handles, Terminalize(h), OwnsJob(h) PROVE LogMoves(j)
  <2>1. jobOf[h] \in Jobs
    BY <1>5, WorkersJob DEF Terminalize, Outcome
  <2>2. /\ Outcome[pc[h]] \in Terminal
        /\ Becomes(jobOf[h], Outcome[pc[h]], None, job[jobOf[h]].gen)
    BY <1>5, <2>1, Publishes
  <2>3. job[jobOf[h]].status = "running" /\ Emit(jobOf[h], Outcome[pc[h]])
    BY <1>5 DEF OwnsJob, Terminalize
  <2>4. Appends(jobOf[h], Outcome[pc[h]])
    BY <2>1, <2>2, <2>3, EmitAppends, EventsTyped
  <2>5. CASE j = jobOf[h]
    BY <2>2, <2>3, <2>4, <2>5 DEF LogMoves, Appends, Becomes, IsFinished
  <2>6. CASE j # jobOf[h]
    BY <2>2, <2>4, <2>6 DEF LogMoves, Appends, Becomes, IsFinished
  <2>. QED
    BY <2>5, <2>6
<1>6. CASE Startup
  <2>1. FailRunning
    BY <1>6 DEF Startup
  <2>2. /\ j \in found /\ job[j].status = "running" => job'[j].status = "failed"
        /\ j \notin found \/ job[j].status # "running" => job'[j] = job[j]
    BY <2>1, Recovers
  <2>3. log'[j] = IF j \in found /\ job'[j].status = "failed"
                  THEN Append(log[j], "failed") ELSE log[j]
    BY <2>1 DEF FailRunning
  <2>4. CASE j \in found /\ job'[j].status = "failed"
    BY <1>6, <2>2, <2>3, <2>4 DEF LogMoves, IsFinished, Terminal
  <2>5. CASE ~(j \in found /\ job'[j].status = "failed")
    BY <2>2, <2>3, <2>5 DEF LogMoves, IsFinished
  <2>. QED
    BY <2>4, <2>5
<1>. QED
  BY <1>1, <1>2, <1>3, <1>4, <1>5, <1>6, WritingSteps DEF LogStep

LEMMA LogInvStep ==
    ASSUME JobsInv, [Next]_vars
    PROVE  LogInv'
<1>. SUFFICES ASSUME NEW j \in Jobs PROVE Tells(job'[j].status, log'[j])
  BY DEF LogInv
<1>. USE Typed
<1>1. Tells(job[j].status, log[j]) /\ log[j] \in Seq(EventTypes)
  BY DEF JobsInv, LogInv
<1>2. IsFinished(j) => job'[j].status = job[j].status
  BY StatusMoves
<1>3. ASSUME IsFinished(j)' <=> IsFinished(j)
      PROVE  Tells(job'[j].status, log[j])
  <2>1. CASE IsFinished(j)
    BY <1>1, <1>2, <2>1
  <2>2. CASE ~IsFinished(j)
    <3>1. TerminalIn(log[j]) = {}
      BY <1>1, <2>2 DEF Tells, IsFinished
    <3>2. job'[j].status \notin Terminal
      BY <1>3, <2>2 DEF IsFinished
    <3>. QED
      BY <3>1, <3>2, FS_EmptySet DEF Tells, Terminal
  <2>. QED
    BY <2>1, <2>2
<1>4. CASE log'[j] = log[j] /\ (IsFinished(j)' <=> IsFinished(j))
  BY <1>3, <1>4
<1>5. CASE /\ \E type \in EventTypes \ Terminal : log'[j] = Append(log[j], type)
           /\ IsFinished(j)' <=> IsFinished(j)
  BY <1>1, <1>3, <1>5, TellsOther
<1>6. CASE /\ IsFinished(j)' /\ log'[j] = Append(log[j], job'[j].status)
           /\ \/ job[j].status = "running"
              \/ /\ job[j].status = "failed" /\ job'[j].status = "failed"
                 /\ Startup /\ j \in found
  <2>1. job'[j].status \in Terminal
    BY <1>6 DEF IsFinished
  <2>2. \/ job[j].status \notin Terminal
        \/ /\ job[j].status = job'[j].status /\ job'[j].status = "failed"
           /\ Cardinality(TerminalIn(log[j])) <= 1
    BY <1>6 DEF JobsInv, FoundInv, Startup, Terminal
  <2>. QED
    BY <1>1, <1>6, <2>1, <2>2, TellsTerminal
<1>. QED
  BY <1>4, <1>5, <1>6, LogsMove DEF LogMoves

LEMMA FoundStep ==
    ASSUME JobsInv, [Next]_vars
    PROVE  FoundInv'
<1>. USE Typed
<1>1. CASE LoadRunning
  <2>1. /\ found' = {j \in Jobs : job[j].status = "running"}
        /\ UNCHANGED <<job, log>>
    BY <1>1 DEF LoadRunning, jobVars
  <2>2. ASSUME NEW j \in found'
        PROVE  /\ job[j].status = "running"
               /\ Cardinality(TerminalIn(log[j])) <= 1
    BY <2>1, <2>2 DEF JobsInv, LogInv, Tells
  <2>. QED
    BY <2>1, <2>2 DEF FoundInv
<1>2. CASE found' = None
  BY <1>2 DEF FoundInv
<1>3. CASE UNCHANGED found /\ ~Startup
  <2>. SUFFICES ASSUME found # None, NEW j \in found
                PROVE  /\ job'[j].status \in {"running"} \cup Terminal
                       /\ Cardinality(TerminalIn(log'[j])) <= 1
    BY <1>3 DEF FoundInv
  <2>1. /\ j \in Jobs /\ job[j].status \in {"running"} \cup Terminal
        /\ Cardinality(TerminalIn(log[j])) <= 1
    BY DEF JobsInv, TypeOK, FoundInv
  <2>2. job'[j].status \in {"running"} \cup Terminal
    BY <2>1, StatusMoves
  <2>3. CASE log'[j] = log[j]
    BY <2>1, <2>2, <2>3
  <2>4. CASE \E type \in EventTypes \ Terminal : log'[j] = Append(log[j], type)
    <3>1. log[j] \in Seq(EventTypes)
      BY <2>1
    <3>2. TerminalIn(log'[j]) = TerminalIn(log[j])
      BY <2>4, <3>1, AppendOther
    <3>. QED
      BY <2>1, <2>2, <3>2
  <2>5. CASE IsFinished(j)' /\ log'[j] = Append(log[j], job'[j].status)
             /\ job[j].status = "running"
    <3>1. TerminalIn(log[j]) = {}
      BY <2>1, <2>5 DEF JobsInv, LogInv, Tells, Terminal
    <3>2. log[j] \in Seq(EventTypes) /\ job'[j].status \in Terminal
      BY <2>1, <2>5 DEF IsFinished
    <3>3. Cardinality(TerminalIn(log'[j])) = Cardinality(TerminalIn(log[j])) + 1
      BY <2>5, <3>2, AppendTerminal
    <3>. QED
      BY <2>2, <3>1, <3>3, FS_EmptySet
  <2>. QED
    BY <1>3, <2>1, <2>2, <2>3, <2>4, <2>5, LogsMove DEF LogMoves
<1>4. CASE Startup
  BY <1>2, <1>4 DEF Startup
<1>5. ASSUME NEW h \in Handles, \/ Work(h) \/ Progress(h) \/ HandlerFails(h)
                                \/ TerminalizeRaises(h)
      PROVE  UNCHANGED found
  BY <1>5 DEF Work, SubmitJob, StartWorker, ClaimJob, ReadLatest, EmitStarted,
     SeeCancel, EnterHandler, HandlerReturns, NotCancelled, Terminalize,
     Progress, HandlerFails, TerminalizeRaises, lifeVars
<1>6. ASSUME NEW j \in Jobs, \/ Create(j) \/ Offer(j) \/ CancelRead(j)
                             \/ CancelWrite(j) \/ ReadStatus(j) \/ ReadEvents(j)
      PROVE  UNCHANGED found
  BY <1>6 DEF Create, Offer, CancelRead, CancelWrite, ReadStatus, ReadEvents,
     lifeVars
<1>7. CASE Crash \/ Shutdown \/ Reload \/ UNCHANGED vars
  <2>1. found' = None \/ UNCHANGED found
    BY <1>7 DEF Crash, Halt, Shutdown, Reload, vars, lifeVars
  <2>. QED
    BY <1>2, <1>3, <1>4, <2>1
<1>. QED
  BY <1>1, <1>2, <1>3, <1>4, <1>5, <1>6, <1>7 DEF Next
-----------------------------------------------------------------------------
(* Streams *)

\* A log only grows: what it tells at a position stays.
LEMMA LogGrows ==
    ASSUME JobsInv, [Next]_vars, NEW j \in Jobs
    PROVE  /\ Len(log[j]) \in Nat /\ Len(log'[j]) \in Nat
           /\ Len(log[j]) <= Len(log'[j])
           /\ \A i \in 1..Len(log[j]) : log'[j][i] = log[j][i]
<1>1. log[j] \in Seq(EventTypes)
  BY Typed
<1>2. \/ log'[j] = log[j]
      \/ \E type \in EventTypes : log'[j] = Append(log[j], type)
  BY LogsMove, EventsTyped DEF LogMoves, IsFinished
<1>. QED
  BY <1>1, <1>2

\* What a reader of the log does when it reads.
LEMMA Reads ==
    ASSUME reader \in [Jobs -> Reader], NEW j \in Jobs,
           ReadStatus(j) \/ ReadEvents(j)
    PROVE  /\ \A k \in Jobs : k # j => reader'[k] = reader[k]
           /\ reader[j].open
           /\ \/ /\ reader'[j].saw = job[j].status /\ reader'[j].open
                 /\ reader'[j].cursor = reader[j].cursor
              \/ /\ reader'[j].cursor = Len(log[j]) /\ reader'[j].saw = None
                 /\ ~reader'[j].open => /\ reader[j].saw # None
                                        /\ reader[j].saw \in Terminal
<1>1. CASE ReadStatus(j)
  <2>1. /\ reader' = [reader EXCEPT ![j].saw = job[j].status]
        /\ reader[j].open
    BY <1>1 DEF ReadStatus
  <2>. QED
    BY <2>1 DEF Reader
<1>2. CASE ReadEvents(j)
  BY <1>2 DEF ReadEvents
<1>. QED
  BY <1>1, <1>2

LEMMA ReaderStep ==
    ASSUME JobsInv, [Next]_vars
    PROVE  ReaderInv'
<1>. SUFFICES ASSUME NEW j \in Jobs
              PROVE  /\ reader'[j].cursor <= Len(log'[j])
                     /\ reader'[j].saw # None /\ reader'[j].saw \in Terminal =>
                           IsFinished(j)'
                     /\ ~reader'[j].open =>
                           \E i \in 1..reader'[j].cursor :
                               log'[j][i] \in Terminal
  BY DEF ReaderInv
<1>0. /\ reader[j].cursor \in Nat /\ reader[j].cursor <= Len(log[j])
      /\ reader[j].saw # None /\ reader[j].saw \in Terminal => IsFinished(j)
      /\ ~reader[j].open =>
            \E i \in 1..reader[j].cursor : log[j][i] \in Terminal
  BY Typed DEF JobsInv, ReaderInv, Reader
<1>1. IsFinished(j) => IsFinished(j)'
  BY StatusMoves DEF IsFinished
<1>2. CASE /\ reader'[j].cursor = reader[j].cursor
           /\ reader'[j].saw \in {reader[j].saw, None}
           /\ reader'[j].open = reader[j].open
  <2>1. \A i \in 1..reader[j].cursor : log'[j][i] = log[j][i]
    BY <1>0, LogGrows
  <2>2. reader[j].cursor <= Len(log'[j])
    BY <1>0, LogGrows
  <2>. QED
    BY <1>0, <1>1, <1>2, <2>1, <2>2
<1>3. ASSUME NEW k \in Jobs, ReadStatus(k) \/ ReadEvents(k), k = j
      PROVE  /\ reader'[j].cursor <= Len(log'[j])
             /\ reader'[j].saw # None /\ reader'[j].saw \in Terminal =>
                   IsFinished(j)'
             /\ ~reader'[j].open =>
                   \E i \in 1..reader'[j].cursor : log'[j][i] \in Terminal
  <2>1. UNCHANGED <<job, log>>
    BY <1>3 DEF ReadStatus, ReadEvents, jobVars
  <2>2. CASE /\ reader'[j].saw = job[j].status /\ reader'[j].open
             /\ reader'[j].cursor = reader[j].cursor
    BY <1>0, <2>1, <2>2 DEF IsFinished
  <2>3. CASE /\ reader'[j].cursor = Len(log[j]) /\ reader'[j].saw = None
             /\ ~reader'[j].open => /\ reader[j].saw # None
                                    /\ reader[j].saw \in Terminal
    <3>1. Len(log[j]) <= Len(log'[j])
      BY LogGrows
    <3>2. ASSUME ~reader'[j].open
          PROVE  \E i \in 1..Len(log[j]) : log[j][i] \in Terminal
      <4>1. IsFinished(j)
        BY <1>0, <2>3, <3>2
      <4>2. TerminalIn(log[j]) # {}
        BY <4>1 DEF JobsInv, LogInv, Tells, IsFinished
      <4>3. log[j] \in Seq(EventTypes)
        BY Typed
      <4>. QED
        BY <4>2, <4>3 DEF TerminalIn
    <3>. QED
      BY <2>1, <2>3, <3>1, <3>2
  <2>. QED
    BY <1>3, <2>2, <2>3, Reads, Typed
<1>4. ASSUME NEW k \in Jobs, ReadStatus(k) \/ ReadEvents(k), k # j
      PROVE  reader'[j] = reader[j]
  BY <1>4, Reads, Typed
<1>5. ASSUME NEW k \in Jobs, \/ Create(k) \/ Offer(k) \/ CancelRead(k)
                             \/ CancelWrite(k)
      PROVE  reader' = reader
  BY <1>5 DEF Create, Offer, CancelRead, CancelWrite, jobVars
<1>6. ASSUME NEW h \in Handles, \/ Work(h) \/ Progress(h) \/ HandlerFails(h)
                                \/ TerminalizeRaises(h)
      PROVE  reader' = reader
  BY <1>6 DEF Work, SubmitJob, StartWorker, ClaimJob, ReadLatest, EmitStarted,
     SeeCancel, EnterHandler, HandlerReturns, NotCancelled, Terminalize,
     Progress, HandlerFails, TerminalizeRaises, requestVars
<1>7. CASE Halt
  <2>1. reader'[j] = [reader[j] EXCEPT !.saw = None]
    BY <1>7 DEF Halt
  <2>2. reader[j] \in Reader
    BY Typed
  <2>3. /\ reader'[j].cursor = reader[j].cursor /\ reader'[j].saw = None
        /\ reader'[j].open = reader[j].open
    BY <2>1, <2>2 DEF Reader
  <2>. QED
    BY <1>2, <2>3
<1>8. CASE \/ Shutdown /\ ~Halt
           \/ Reload \/ LoadRunning \/ Startup \/ UNCHANGED vars
  <2>1. reader' = reader
    BY <1>8 DEF Shutdown, Reload, LoadRunning, Startup, vars, requestVars
  <2>. QED
    BY <1>2, <2>1
<1>. QED
  BY <1>2, <1>3, <1>4, <1>5, <1>6, <1>7, <1>8 DEF Next, Crash
-----------------------------------------------------------------------------
(* The executor *)

LEMMA PoolStep ==
    ASSUME JobsInv, [Next]_vars
    PROVE  PoolInv'
<1>. USE Typed
<1>0. /\ pool # "open" => \A h \in Handles : handle[h] # "queued"
      /\ pool = "drained" => \A h \in Handles : handle[h] # "running"
  BY DEF JobsInv, PoolInv, ShutdownDrains
<1>1. ASSUME UNCHANGED pool,
             \A h \in Handles : handle'[h] \in {"queued", "running"} =>
                handle'[h] = handle[h]
      PROVE  PoolInv'
  BY <1>0, <1>1 DEF PoolInv, ShutdownDrains
<1>2. ASSUME NEW h \in Handles, SubmitJob(h) PROVE PoolInv'
  <2>1. /\ UNCHANGED pool
        /\ handle'[h] = IF pool = "open" THEN "queued" ELSE "none"
        /\ \A g \in Handles : g # h => handle'[g] = handle[g]
    BY <1>2 DEF SubmitJob, Submit
  <2>. QED
    BY <1>0, <2>1 DEF PoolInv, ShutdownDrains
<1>3. ASSUME NEW h \in Handles, StartWorker(h) PROVE PoolInv'
  <2>1. handle[h] = "queued" /\ UNCHANGED pool
    BY <1>3 DEF StartWorker, Begin
  <2>2. pool = "open"
    BY <1>0, <2>1
  <2>. QED
    BY <2>1, <2>2 DEF PoolInv, ShutdownDrains
<1>4. ASSUME NEW h \in Handles, \/ Work(h) \/ Progress(h) \/ HandlerFails(h)
                                \/ TerminalizeRaises(h),
             ~SubmitJob(h), ~StartWorker(h)
      PROVE  PoolInv'
  <2>1. UNCHANGED pool
    BY <1>4 DEF Work, ClaimJob, ReadLatest, EmitStarted, SeeCancel,
       EnterHandler, HandlerReturns, NotCancelled, Terminalize, Progress,
       HandlerFails, TerminalizeRaises
  <2>2. \/ UNCHANGED handle
        \/ handle' = [handle EXCEPT ![h] = "succeeded"]
        \/ handle' = [handle EXCEPT ![h] = "failed"]
    BY <1>4 DEF Work, ClaimJob, ReadLatest, EmitStarted, SeeCancel,
       EnterHandler, HandlerReturns, NotCancelled, Terminalize, Progress,
       HandlerFails, TerminalizeRaises, End
  <2>. QED
    BY <1>1, <2>1, <2>2
<1>5. ASSUME NEW j \in Jobs, \/ Create(j) \/ Offer(j) \/ CancelRead(j)
                             \/ CancelWrite(j) \/ ReadStatus(j) \/ ReadEvents(j)
      PROVE  PoolInv'
  <2>1. UNCHANGED pool
    BY <1>5 DEF Create, Offer, CancelRead, CancelWrite, ReadStatus, ReadEvents
  <2>2. \/ UNCHANGED handle
        \/ \E h \in Handles : handle' = [handle EXCEPT ![h] = "registered"]
    BY <1>5 DEF Create, Offer, CancelRead, CancelWrite, ReadStatus,
       ReadEvents, Register
  <2>. QED
    BY <1>1, <2>1, <2>2
<1>6. CASE Halt
  BY <1>6 DEF Halt, PoolInv, ShutdownDrains
<1>7. CASE StopAccepting \/ Drain
  BY <1>0, <1>7 DEF StopAccepting, Drain, InFlight, PoolInv, ShutdownDrains
<1>8. CASE ClosePool
  BY <1>8 DEF ClosePool, PoolInv, ShutdownDrains
<1>9. CASE Reload \/ Startup \/ UNCHANGED vars
  <2>1. UNCHANGED <<handle, pool>>
    BY <1>9 DEF Reload, Startup, vars
  <2>. QED
    BY <1>1, <2>1
<1>10. CASE LoadRunning
  BY <1>10 DEF LoadRunning, FreshQueue, PoolInv, ShutdownDrains
<1>. QED
  BY <1>2, <1>3, <1>4, <1>5, <1>6, <1>7, <1>8, <1>9, <1>10
     DEF Next, Crash, Shutdown
-----------------------------------------------------------------------------
(* The theorems *)

LEMMA JobsInit ==
    ASSUME Init
    PROVE  JobsInv
<1>1. TypeOK
  BY DEF Init, TypeOK, AsyncInit, AsyncTypeOK, HandleStatuses, Job, NoJob,
     JobStatuses, Reader, NewReader
<1>2. \A j \in Jobs : /\ job[j].status = "none" /\ job[j].owner = None
                      /\ job[j].gen = 0 /\ claims[j] = 0
  BY DEF Init, NoJob
<1>3. JobInv
  BY <1>2 DEF JobInv, IsFinished, Terminal
<1>4. WorkerInv /\ OfferInv /\ FoundInv /\ PoolInv
  BY DEF Init, AsyncInit, WorkerInv, WorkerOK, OfferInv, FoundInv, PoolInv,
     ShutdownDrains
<1>5. \A j \in Jobs : TerminalIn(log[j]) = {}
  BY DEF Init, TerminalIn
<1>6. LogInv
  BY <1>2, <1>5, FS_EmptySet DEF LogInv, Tells, Terminal
<1>7. ReaderInv
  BY DEF Init, ReaderInv, NewReader
<1>. QED
  BY <1>1, <1>3, <1>4, <1>6, <1>7 DEF JobsInv

\* The inductive invariant holds in every behaviour of the jobs.
THEOREM JobsInvariant == Spec => []JobsInv
<1>1. Init => JobsInv
  BY JobsInit
<1>2. ASSUME JobsInv, [Next]_vars
      PROVE  JobsInv'
  BY <1>2, TypeStep, JobStep, WorkerStep, OfferStep, LogInvStep, FoundStep,
     ReaderStep, PoolStep DEF JobsInv
<1>. QED
  BY <1>1, <1>2, PTL DEF Spec

\* Rows, logs, workers, streams and the executor have their types, whatever
\* the number of jobs and threads.
THEOREM JobsTyped == Spec => []TypeOK
<1>1. JobsInv => TypeOK
  BY DEF JobsInv
<1>. QED
  BY <1>1, JobsInvariant, PTL

\* A job's log holds a terminal event exactly when its row is finished, of
\* the row's status, once, or twice when recovery told a failure again
\* (_emit_terminal_job_event, recover_public_jobs).
THEOREM OutcomeIsLogged == Spec => []OutcomeInLog
<1>1. JobsInv => OutcomeInLog
  BY DEF JobsInv, LogInv, Tells, OutcomeInLog, IsFinished
<1>. QED
  BY <1>1, JobsInvariant, PTL

\* No step of a worker, a request or recovery changes the outcome of a
\* finished job: the fence of _terminalize_job and recover_public_jobs.
THEOREM OutcomeIsFinal == Spec => OutcomeFinal
<1>1. ASSUME JobsInv, [Next]_vars
      PROVE  [\A j \in Jobs : IsFinished(j) =>
                 job'[j].status = job[j].status]_vars
  BY <1>1, StatusMoves
<1>. QED
  BY <1>1, JobsInvariant, PTL DEF Spec, OutcomeFinal

\* The claim of _claim_job is won at most once in the life of a job, over
\* any number of offers, workers, crashes and restarts.
THEOREM ExecutesOnce == Spec => []ExecutedOnce
<1>1. ASSUME JobsInv
      PROVE  ExecutedOnce
  <2>1. \A j \in Jobs :
           job[j].status \in {"none", "queued", "running"} \cup Terminal
    BY <1>1, Typed DEF Job, JobStatuses
  <2>. QED
    BY <1>1, <2>1 DEF JobsInv, JobInv, IsFinished, ExecutedOnce
<1>. QED
  BY <1>1, JobsInvariant, PTL

\* stream_job_events ends only behind a terminal event it has delivered.
THEOREM StreamsDeliver == Spec => []StreamDeliversOutcome
<1>1. JobsInv => StreamDeliversOutcome
  BY DEF JobsInv, ReaderInv, StreamDeliversOutcome
<1>. QED
  BY <1>1, JobsInvariant, PTL

\* When shutdown has returned nothing is queued or running in the executor.
THEOREM ShutdownIsDrained == Spec => []ShutdownDrains
<1>1. JobsInv => ShutdownDrains
  BY DEF JobsInv, PoolInv
<1>. QED
  BY <1>1, JobsInvariant, PTL

\* Only the two steps of the handler set a chat session running, and only
\* the start of the process makes it serve.
LEMMA ChatMoves ==
    ASSUME JobsInv, [Next]_vars, ~Startup, NEW j \in Jobs,
           chat'[j] = "running"
    PROVE  /\ up' => up
           /\ \/ chat[j] = "running"
              \/ \E h \in Handles :
                    /\ jobOf[h] = j /\ pc[h] \in {"check", "handle"}
                    /\ UNCHANGED job
<1>0. chat \in [Jobs -> {"active", "running"}]
  BY DEF JobsInv, TypeOK
<1>1. ASSUME NEW h \in Handles, EnterHandler(h) \/ HandlerReturns(h)
      PROVE  /\ up' = up
             /\ \/ chat'[j] = chat[j]
                \/ /\ jobOf[h] = j /\ pc[h] \in {"check", "handle"}
                   /\ UNCHANGED job
  BY <1>0, <1>1 DEF EnterHandler, HandlerReturns, jobVars, lifeVars
<1>2. ASSUME NEW h \in Handles, Terminalize(h)
      PROVE  up' = up /\ chat'[j] = chat[j]
  BY <1>0, <1>2 DEF Terminalize, lifeVars
<1>3. ASSUME NEW h \in Handles,
             \/ SubmitJob(h) \/ StartWorker(h) \/ ClaimJob(h) \/ ReadLatest(h)
             \/ EmitStarted(h) \/ SeeCancel(h) \/ NotCancelled(h)
             \/ Progress(h) \/ HandlerFails(h) \/ TerminalizeRaises(h)
      PROVE  UNCHANGED <<up, chat>>
  BY <1>3 DEF SubmitJob, StartWorker, ClaimJob, ReadLatest, EmitStarted,
     SeeCancel, NotCancelled, Progress, HandlerFails, TerminalizeRaises,
     lifeVars
<1>4. ASSUME NEW k \in Jobs, \/ Create(k) \/ Offer(k) \/ CancelRead(k)
                             \/ CancelWrite(k) \/ ReadStatus(k) \/ ReadEvents(k)
      PROVE  UNCHANGED <<up, chat>>
  BY <1>4 DEF Create, Offer, CancelRead, CancelWrite, ReadStatus, ReadEvents,
     lifeVars
<1>5. CASE Crash \/ Shutdown \/ Reload \/ LoadRunning \/ UNCHANGED vars
  <2>1. UNCHANGED chat /\ (up' = up \/ up' = FALSE)
    BY <1>5 DEF Crash, Halt, Shutdown, Reload, LoadRunning, vars, lifeVars
  <2>. QED
    BY <2>1
<1>. QED
  BY <1>1, <1>2, <1>3, <1>4, <1>5 DEF Next, Work

LEMMA SessionStep ==
    ASSUME JobsInv, [Next]_vars, NEW j \in Jobs, KeepsSession(j)'
    PROVE  \/ KeepsSession(j) /\ ~(up' /\ ~up)
           \/ \E h \in Handles : /\ jobOf[h] = j /\ Fenced(h)
                                 /\ pc[h] \in {"check", "handle"}
<1>0. IsFinished(j)' /\ chat'[j] = "running"
  BY DEF KeepsSession
<1>1. ~Startup
  BY <1>0 DEF Startup, FailRunning, IsFinished
<1>2. CASE IsFinished(j) /\ chat[j] = "running"
  BY <1>0, <1>1, <1>2, ChatMoves DEF KeepsSession
<1>3. ASSUME NEW h \in Handles, jobOf[h] = j, pc[h] \in {"check", "handle"},
             UNCHANGED job
      PROVE  Fenced(h)
  <2>1. IsFinished(j)
    BY <1>0, <1>3 DEF IsFinished
  <2>2. gen[h] = 1 /\ OwnsOrLost(job[j], h)
    BY <1>3, WorkersJob
  <2>. QED
    BY <1>3, <2>1, <2>2 DEF Fenced, OwnsOrLost, IsFinished, Terminal
<1>4. CASE ~IsFinished(j) /\ chat[j] = "running"
  \* The step that finishes the job releases its session.
  <2>1. PICK h \in Handles : Terminalize(h) /\ OwnsJob(h) /\ jobOf[h] = j
    BY <1>0, <1>1, <1>4, RowsMove DEF RowMoves, IsFinished, Terminal
  <2>2. chat'[j] = "active"
    BY <2>1 DEF Terminalize, JobsInv, TypeOK
  <2>. QED
    BY <1>0, <2>2
<1>. QED
  BY <1>0, <1>1, <1>2, <1>3, <1>4, ChatMoves

\* A finished run keeps its chat session running only when a worker that
\* recovery has fenced, still in its handler, sets it so: publishing the
\* outcome releases the session, and so does every start of the process.
THEOREM SessionIsReleased == Spec => SessionReleased
<1>1. ASSUME JobsInv, [Next]_vars
      PROVE  [\A j \in Jobs : KeepsSession(j)' =>
                 \/ KeepsSession(j) /\ ~(up' /\ ~up)
                 \/ \E h \in Handles : /\ jobOf[h] = j /\ Fenced(h)
                                       /\ pc[h] \in {"check", "handle"}]_vars
  BY <1>1, SessionStep
<1>. QED
  BY <1>1, JobsInvariant, PTL DEF Spec, SessionReleased
=============================================================================
