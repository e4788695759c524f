# StaffDeck in TLA+

A verification project for StaffDeck (`src/`), a server that lets people talk to
"digital employees": a chat turn is planned by a language model into *task
frames*, the frames are executed by agents with tools, and the result is shown,
stored and replayed. Everything that must survive a retry, a crash or a
cancellation lives in one SQLite database written by the threads of one process.
That state, and the order in which threads, sweepers, endpoints and restarts
write it, is what the first half of the modules describes. The second half is the
embedded engine, `src/harness-engine`, a Node program that the repository carries
as source: the driver of one agent on its event loop, the durable log of its
session, and the scheduler of its tool calls.

Paths below are relative to `src/backend/app/`, those of the engine to
`src/harness-engine/packages/core/`, unless they start with `src/`.

## 1. The system

### How the parts interact

```
 browser ── api/chat.py ──► AgentLoop.handle_turn ──► TurnCoordinator._run
               │ cancel            │ ways out              │
               ▼                   ▼                       ▼
        cancellation.py     assistant messages      HarnessSessionLeaseStore
        (marker, event)     (chat_messages)         HarnessTurnStore   (receipts)
               │                                    TaskFrameStore     (frames, runs)
               └────────► receipts ◄──────┐                ▲
                                          │                │
        main.py startup ──► harness_recovery (startup, and a sweep every 60 s)

 API client ── public_api/* ──► jobs.create_job ──► async_jobs (thread pool)
                  │ cancel, SSE        │ row + log        │ run_job
                  ▼                    ▼                  ▼
               APIJob, APIJobEvent rows ◄── recover_public_jobs at startup
                                       └──► webhook deliveries

 tool call ── enqueue_http ──► ExternalBusinessTask row ◄── callback endpoint
                                 ▲        │      ▲
        worker (submit, poll) ───┘        │      └── scanner (stale, expired, offers)
                                          ▼
                              waiting TaskFrame ── resumed by the next plan

 engine:  send/cancel/inject ──► Inbox ──claim──► ReactLoopAgent.turn ──► step
                                   │ splice           │ turn, step           │
                                   ▼                  ▼                      ▼
                               session log  ◄────────────────────── executeToolCalls
                                   │                                 (pool of dispatches)
                                   └──► repair and replay at the next load
```

The parts share state through rows, not through calls: a lease, a status and an
owner in a row decide who may write it. Two kinds of write exist, and most of
the hard behaviour comes from their mixture:

* a *fenced* write, `UPDATE .. WHERE id = .. AND status IN .. AND owner = ..`, is
  atomic: the models make it one step with its fence as a guard;
* an *ORM* write loads a row, decides, and writes it back by primary key. SQLite
  is opened through pysqlite, which begins a transaction only before the first
  write, so another thread may commit between the load and the write. Where the
  code has a window of this kind the model has two actions.

### Inventory

| component | state it keeps | operations | what makes it correct | modelled |
|---|---|---|---|---|
| Session lock and lease (`core/harness_session_lock.py`, `core/harness_session_lease.py`) | in-process lock, lease row per session | acquire, take over when expired, renew, release | one executor per session; a lost or late owner never blocks it or frees another's lease | `SessionLease` |
| Turn receipts (`core/harness_turn_store.py`) | one row per `client_turn_id` | claim or replay, bind, renew, begin_completion, complete, finish_with_error | executed once; a completed turn replays for ever; completion and cancellation exclude each other | `TurnReceipts` |
| Cancellation (`core/cancellation.py`, cancel endpoint of `api/chat.py`) | local markers, `stream_cancelled` events | mark, look, clear, cancel endpoint | a cancelled turn is not answered, an answered one is not cancelled | `HarnessTurn` |
| Task frames and runs (`core/task_frame_store.py`) | frames and run attempts with leases | plan, claim, start/finish run, finish frame, cancel, complete | an attempt at a time; a finished task is not undone | `TaskFrames` |
| Turn coordinator and agent loop (`core/turn_coordinator.py`, `core/agent_loop.py`) | program counters; messages; session status | one chat turn from arrival to its reply, failure or cancellation | every claimed turn settles, with one outcome shown | `HarnessTurn` |
| Orphan recovery (`core/harness_recovery.py`) | what a sweep has loaded | startup recovery, periodic sweep | recovers what nobody executes, and only that | `HarnessTurn` |
| Public jobs (`public_api/jobs.py`) | job rows, event logs | create, claim, progress, terminalize, cancel, SSE stream, recover | one execution, one final outcome, in row and log alike; no lost job | `PublicJobs` |
| Job executor (`async_jobs.py`) | handles, accepting flag, thread pool | enqueue, run, shutdown, start | nothing accepted is left unfinished by a shutdown | `AsyncJobs` |
| Run jobs (`public_api/runs.py`) | job and chat session of a run | execute, cancel | a finished run frees its session | in `PublicJobs` |
| Start and stop (`main.py`, `runtime_lock.py`) | – | order of recoveries, draining shutdown, single process | no serving before recovery | `Startup`, `Shutdown` actions |
| Webhook deliveries (`public_api/webhooks.py`, `maintenance.py`) | delivery rows | stage with the event, claim, send, complete, retry, give up | each event is delivered or given up; a duplicate worker cannot overwrite | planned |
| Channel outbox (`channels/service_outbox.py`) | outbound rows, generations | stage, claim, deliver, reset stuck, remove reactions | no message is sent twice by two lanes; a stuck row ends | planned |
| External tasks (`tools/external_tasks.py`, `external_task_worker.py`, `external_task_dispatch.py`, `api/external_business_tasks.py`) | detached task rows, event ids, leases, the scanner's pass | submit, callback, poll, recover, expire, resume tracking, resume the frame | a request is sent once; an ended task stays ended; its frame does not wait for ever | `ExternalTasks` |
| Session reset (`core/harness_session_cleanup.py`) | rows of one session | cancel and clear everything of a session | a reset leaves no active row behind | planned |
| Scheduled tasks (`scheduled_tasks/`) | schedules | claim due tasks, execute, compute next run | a due task runs once, and again only when due | planned |
| SOP state machine (`src/backend/src/staffdeck_harness/sop/`) | step state | walk a procedure graph | the walk follows the graph and ends | planned as operators |
| Capability ledger (`src/backend/src/staffdeck_harness/capabilities/ledger.py`) | invocation records | record, replay | a side effect is not repeated by a retry | planned |
| Channel intake, teams, A2A, Lark jobs | inboxes, wakeups, remote tasks | claim, deliver, wake | – | later, if at all |
| Models, prompts, planning | none | model calls and parsing | what a model answers is a nondeterministic choice here | no |
| Knowledge, memory, evolution, feedback | documents, records | CRUD and background indexing around model calls | – | no |
| Engine: agent driver and inbox (`agent-loop/src/agent.ts`, `agent/src/inbox.ts`) | phase, abort controller, latched wake, two pending lists | send, steer, inject, edit, cancel, maintenance, the turn loop with its hooks | an accepted message is served, has one fate; every activity ends | `AgentInbox`, `AgentDriver` |
| Engine: session log (`session/src/invariant.ts`, `session/src/repair.ts`, `agent/src/consumed-work.ts`) | append-only events | check, repair after a crash, replay the inbox, account for consumed work | balanced turns and steps; nothing is told that did not happen | `SessionLog`, `AgentResume` |
| Engine: tool-call scheduler and registry stages (`agent-loop/src/tool-calls.ts`, `tools/src/index.ts`) | groups, pool, slots | prepare, dispatch, commit, drain, skip | model order, exclusive barriers, nothing runs after the end | `ToolCalls` |
| Engine: persistence, agent creation, jobs and schedules | snapshots, locks, background jobs | append, load, wait, kill | – | no, see 5 |
| Engine extensions (compaction, retry, approvals, subagents, MCP, terminals), engine clients, web interface | – | – | the loop takes their answers as any answer; presentation | no |

### What is hard

* **Retries.** A client repeats a `client_turn_id`, with the same payload or not,
  at any moment of the first execution.
* **Cancellation.** It arrives in another request, before the turn is claimed,
  while it is planned, while its reply is being published, or afterwards.
* **Lapsing leases.** A lease says nothing about its owner's life: a thread in a
  long model call outlives it.
* **Read-modify-write windows.** The sweeper, the cancel endpoint, `cancel_job`
  and job recovery write rows they read earlier.
* **Crashes** between any two commits; recovery sees rows only.
* **Exceptions inside handlers of exceptions**, which skip the clean-up.
* **Many who know.** A worker, a callback and the scanner learn of the end of a
  detached task at once, each in several commits, while its frame is still running.
* **Re-entrancy.** The engine has one thread, but every await and every listener
  of an event is a place where the agent is called again.
* **Overlapping tools** of one step settle in any order under aborts and failures,
  and the log may be cut at any event.

`PROJECT.json` lists each hazard at its line, with the properties about it.

## 2. The modules

```
HarnessBase ── SessionLease ─┐
            ── TurnReceipts ─┼── HarnessTurn (MCHarnessTurn for TLC)
            ── TaskFrames  ──┘        │    ▲
                                      │    └─ TurnRefinement ── TurnContract
                                      └ HarnessTurnProofs, TurnRefinementProofs

AsyncJobs ── PublicJobs ── MCPublicJobs, PublicJobsProofs

ExternalTasks ── ExternalTasksProofs

SessionLog ── AgentInbox ── AgentDriver ── AgentDriverProofs
           │                    └── AgentResume ── MCAgentResume, AgentResumeProofs
           │                                                          └ ScanProofs
           └─ ToolCalls ── ToolCallsProofs
```

**HarnessBase** declares the parameters of a chat session: `Workers` (request
executions), `Turns`, `Digests`, `Frames`, which turn and digest a worker's
request carries, and two timing parameters. A worker stands for every owner token
it draws. A deadline is one bit, `live`; the clock is the `Expire` actions.

**SessionLease**, **TurnReceipts**, **TaskFrames** hold the rows of one store
each and its operations as operators, guard and write together, so that every
fence is visible in one place. `NoReceipt` and `NoFrame` are absent rows. The
latest run of a frame is `run[f]`; what frame and run can be to each other is
`AttemptsPaired` and `OnlySweepRevives`. The row of an attempt that was overtaken by
the sweeper's stale write (`Overtaken`) is forgotten when the next attempt starts; in
the code it stays until a later sweep abandons it. `awaiting_user` stands for all resting statuses a plan
requeues. `state_version` is left out, since it is compared with a value read in
the same transaction.

**HarnessTurn** composes them. `pc[w]` is the position of a worker *between two
commits*; an action is a commit with the checks before it.

| actions | code |
|---|---|
| `Arrive`, `AcquireSession`, `ClaimTurn`, `BindMessage`, `Announce` | `TurnCoordinator._run` up to the committed user message |
| `PlanTurn`, `PlanCompletion` | `persist_plan`, or ending a task, after the planner's answer |
| `StartFrame`, `SkipFrame`, `FinishFrame` | the frame loop and `_run_frame` |
| `PrepareReply`, `ReserveReply`, `PublishReply`, `CompleteTurn` | reply, `begin_completion`, `finalize_turn`, `complete`: four commits |
| `CheckPoint`, `Fail` | `_raise_if_cancelled`, a lost lease, any other exception |
| `MarkCancelled..`, `CancelReply`, `MarkInterrupted..`, `Escape`, `Close`, `ErrorReply`, `InterruptedReply` | the `except` and `finally` blocks of `handle_turn`, and the stream worker's last words |
| `ArriveDraft` … `DraftFail` | the scheduled-task shortcut of `api/chat.py`, which takes neither lock nor lease |
| `CancelLooks`, `CancelUnclaimed`, `Cancel` | the cancel endpoint: without a receipt its look and its write are two steps, with one the compare-and-set makes it a single step |
| `SweepLoad`, `SweepWrite`, `Startup` | `recover_orphan_harness_runs`, periodic and at startup |
| `Crash`, `Expire..` | the process dies; a deadline passes |

**TurnContract** is the abstract specification: what a `client_turn_id` is
promised, whoever serves it. A turn is granted to one execution, which reserves
the right to publish and replies before it completes, or is cancelled, or fails;
a reply and a cancellation are never both shown; a completed turn has its reply.
`MayLose` weakens it for executions that can be declared lost: they may then be
failed while they publish and after they have completed. **TurnRefinement** maps
receipts to phases, owners to executors and messages to kinds (the error,
recovery and interruption reports are one kind of failure); its `KeepsContract`
and `KeepsLossyContract` are the two refinements.

**AsyncJobs** is the thread pool: `Register` under the queue's lock and `Submit`
outside it are two steps, as `shutdown` may close the pool between them.
**PublicJobs** runs jobs on it: the row, the log (a sequence number is a position,
and a number that is taken is the unique constraint's error), the worker, the
cancel request (read, then write), an SSE reader (row, then log), the chat
session of a run, crash, shutdown, reload in the same process and recovery.

**ExternalTasks** is one task frame and the detached tasks its steps submit. A
task stands for the one worker the dispatcher admits for it. Whoever learns
something of a task runs `apply_task_event`, and the thread that does so is an
element of `Threads`; `event[p]` is where it stands between commits:

| actions | code |
|---|---|
| `Enqueue`, `FinishWaiting`, `Finish`, `Rerun`, `Remove` | `enqueue_http`, the end of `_run_frame` with its second look at the task, the plan |
| `WriteEvent`, `LookAtFrame`, `ResumeFrame`, `ResumeFails` | `apply_task_event` behind the row lock, `_prepare_sop_resume` as a read and a write |
| `CallbackArrives`, `ResumeTracking` | `api/external_business_tasks.py` |
| `Claim`, `ResolveFails`, `Post`, `Answered`, `ClaimPoll`, `Polled`, `PollFails`, `Release` | `execute_external_task`, `_execute_local_task`, `_submit_provider_task`, `_poll_task` |
| `LoadStale`, `ReadAgain`, `RecoverStale`, `LoadExpired`, `Expire`, `Offer` | `poll_due_external_tasks`: rows loaded, then written one by one |
| `Lapse`, `DeadlinePasses`, `Crash` | the lease (3660 s, longer than any request: it lapses only without its worker), the tracking deadline, a crash |

`FinishWaiting` is one step although it writes the frame and reads the task: the
write comes first and takes SQLite's write lock, so no end of the task commits
between the two. `strategy` says whether a task runs in the worker, at a provider,
or at a provider with a status URL. `Reports` are the statuses that
`normalize_status` can make of what a provider says, `CallbackReports` those that
its callback may carry; `failed` stands for
`cancelled` and `expired` as well, which every line treats alike.

**SessionLog** has the event types of a session and the engine's pure functions
over them: the relational checks (`WellFormed`, `Balanced`), the repair
(`InterruptedTurnClosers`), the replay of the inbox (`InboxOf`) and
`ConsumedWork`. **AgentInbox** gives each mutation of the inbox with the splice it
writes. **AgentDriver** is `ReactLoopAgent`: an action is the code between two
awaits of the driver, or one call of a method; a method that publishes to
listeners in its middle is split there (`Send`, `Wake`; `Cancel`, `CancelGoesOn`),
and `frames` holds the calls that listeners interrupted, `driver.depth` how many
of them a driver was woken in. An edit of the inbox publishes last, so it is one
action and its listeners come after it. A listener may refuse an append
(`MaxRefusals`): refusals of `turn/start`, `step/end` and `turn/end` are modelled,
since each leaves a state of its own; any other is a failing hook. `Send`, `Cancel`, `RemoveMessage`,
`ReplaceMessage`, `StartMaintenance` are the callers; `SkipTurn`, `BeginTurn`, the
`TurnStart..` and `PreStep..` actions, `EmptyTurn`, `EnterStep`, the `Step..` and `Stopping..` actions
are `turn()` with its hooks; `Converge` and `Replay` are the end of `kick()`. The
tool calls of a step are one event pair here. **AgentResume** adds the crash: the
log is cut anywhere, the repair closes it and a new agent goes on over it.

**ToolCalls** opens up the step: groups, the pool, the staged runtime of the
registry (prepare, dispatch with body and wrapper, finalize), commits in order,
the drain after a failure, the skipped calls after an abort. `at` is the place of
the scheduler between two awaits. `TranscriptTellsTruth` applies the repair of
`SessionLog` to the log as a crash leaves it, which is how the two modules compose.

Operators marked `a bug` in the modules are not part of the model. Each is a
variant of a mapped definition with a mistake somebody could make in the code,
and each property is known to fail when the definition is replaced by it.

## 3. What is checked

Run `tlc -workers 2 -config X.cfg M`. `CHECK_DEADLOCK FALSE` everywhere: a
session whose requests are finished, or a process that nobody starts again, has
nothing to do.

| run | instance | question |
|---|---|---|
| `HarnessTurnRetry` | three requests of one turn, one of them with another payload, one frame, `MayLapse` | Whatever is retried, crashes, lapses, is cancelled or recovered: is the turn executed once (`ExecutedOnce`), and do reply and cancellation exclude each other (`CancelExcludesReply`, `CancelHonoured`)? `ReceiptInv` and `PublishInv` are the inductive invariants of the proofs. Is the lossy contract kept (`KeepsLossyContract`)? |
| `HarnessTurnLapse` | two turns over one frame, `MayLapse` | Has a running frame its own running attempt (`AttemptsPaired`)? Does only a sweeper that loaded the frame bring a finished task back, or queue it over an attempt not recorded as ended (`OnlySweepRevives`)? |
| `HarnessTurnHealthy` | the same, leases of a live executor do not lapse | Is one outcome shown (`OneOutcome`), is the full contract kept, in which a completed turn stays completed (`KeepsContract`)? |
| `HarnessTurnLiveness` | two requests of one turn, `MayLapse` and `MayStall`, fair | Does every claimed turn settle (`TurnSettles`), every attempt end (`AttemptEnds`), the session become usable again (`SessionFreed`)? |
| `HarnessTurnRecoversOnlyOrphans` | two requests of one turn, `MayLapse` | violated, see below |
| `HarnessTurnCancelledNotAnswered` | the same, no lapse | violated |
| `HarnessTurnNoContradictoryCancel` | the same | violated |
| `PublicJobs` | one job, two handles, `MaxEvents = 3`, fair | Do row, log, stream and chat session agree on one final outcome (`OutcomeInLog`, `OutcomeFinal`, `StreamDeliversOutcome`, `SessionReleased`), is the handler started once (`ExecutedOnce`), does a shutdown drain (`ShutdownDrains`)? Is a committed job finished and its stream read to the end, or visibly stranded (`JobSettles`)? |
| `ExternalTasks` | one task of any strategy, one callback with any content, one crash, fair | Is the request sent once (`SubmittedOnce`), does an ended task stay ended (`EndStays`), does a frame stop waiting (`WaitEnds`)? |
| `AgentDriver` | two messages, one cancel, one maintenance task, calls of listeners two deep, one refused append, fair | Does the driver go idle only when it owes nothing (`IdleOwesNothing`), is every accepted wake served (`WakesAreServed`), does every activity end (`AgentConverges`)? |
| `AgentResume` | two messages, one cancel, calls two deep, one refused append, one crash | Across a crash at any event: is the log well formed (`LogIsWellFormed`), is the live inbox its replay (`InboxIsReplay`), does the repair tell started from unstarted calls (`RepairTellsStarted`), has every message one fate (`EveryMessageAccounted`), does the account of the work hide nothing (`AccountHidesNothing`)? |
| `ToolCalls` | three calls, pool of two, one reclassification, fair | Is the log in model order (`ModelOrder`), is an exclusive call alone (`ExclusiveAlone`), does the pool keep its limit (`PoolBounded`), is a step that is over really over (`OverMeansOver`), does the transcript tell the truth after a crash at any event (`TranscriptTellsTruth`), does the scheduler return (`SchedulerReturns`)? |

`TypeOK` of `HarnessTurn`, `PublicJobs` and `AgentDriver` is an invariant of their
runs and a theorem; the types of `ToolCalls` and `ExternalTasks` are theorems
(`TypeCorrect`, `SubmitInvariant`). `OutcomeFinal`, `SessionReleased`,
`OnlySweepRevives` and `EndStays` are properties of steps.

### Bounds, and why they are enough

* *Requests.* All races of a session are between two executors of one turn, two
  turns, or an executor and the endpoint or sweeper, which are not bounded. The
  third request of `HarnessTurnRetry` arrives after a failure, or with another
  payload.
* *Frames.* Conflicts are about one frame claimed by two workers; one is enough
  for each, and a plan may still name, remove, requeue or end it. Attempts are
  not bounded by a constant: a worker executes each planned frame once.
* *Crashes and restarts* are not bounded: the state stays finite, because a
  request that has been served is not served again.
* *Jobs.* One job, because rows of different jobs are only related by the pool,
  whose refusals and draining one job already meets. Two handles are a worker of
  an earlier life and the one recovery enqueues. `MaxEvents` bounds the log before
  its terminal events: next to created and started, one progress or cancel
  event takes the number that the started event or a terminal event wants, which is
  every conflict of two writers of the log; terminal events are not bounded by it.
* *External tasks.* One task, as tasks of a frame are only related by the check
  that a frame waits for this very task; its events, polls, callbacks, scans and
  offers are not bounded. `MaxCrashes = 1`: after a crash nothing is left but the
  rows, so a second one meets no new state of them. The proofs have no bound. What
  the callback says is chosen at each delivery, among `CallbackReports`, the statuses
  its request model admits; the first delivery that is applied counts.
* *Engine.* Two messages are the least for which order, edits and a wake during a
  turn matter. `MaxSteps` bounds the steps whose tools ask for another (with 0 a
  turn still takes a second step for a steering message), `MaxCancels`,
  `MaxMaintenance` and `MaxNesting` the outside calls and how deeply listeners
  interrupt them; two deep is a call inside a call, a message sent in the middle of
  a cancel for one. `MaxRefusals` bounds the appends that a listener refuses; the
  companion's own refusals are not bounded. A refused append, like a failed turn, ends
  its drain, so one of each kind is enough to meet every state the next drain can
  start from. `AgentResume` gives up maintenance for the crash, and its messages are
  symmetric. The theorems about both modules hold for any bounds.
* *Tool calls.* Three calls over a pool of two: a group that fills the pool and a
  call that waits, or a barrier with a neighbour on each side. Aborts and failures
  are not bounded.

### Timing parameters

`MayLapse = FALSE` says that the lease of an executor that is alive does not
expire. The code does not ensure that (finding 1). It is used where the question
is what the design gives *while executors renew in time*: with `MayLapse = TRUE`
the sweeper's write of rows it loaded earlier can turn a receipt that completed
since into a failure, so `OneOutcome` and `KeepsContract` are claims about
`MayLapse = FALSE` only. What is claimed of frames holds without it:
`AttemptsPaired` as it stands, and `OnlySweepRevives`, which says what the sweeper's
write can do to a frame and that nothing else can. So do `ExecutedOnce`, the
exclusion of reply and cancellation, and `KeepsLossyContract`.
`OneOutcome` is also a claim about turns that are not retried while they run: a
retry that meets the claim in the scheduled-task shortcut ends as an exception,
and the interruption it reports is one more message of the turn.

`MayStall = FALSE` says that a cancel request which looked for a receipt, found
none and is about to insert its event has done so before a turn claimed meanwhile
has been planned. That is a claim about time, not about order: as a rule a model
call lies between, but a slash command is planned without one
(`turn_coordinator.py:498`), and there only the few commits of the claim do. With
`MayStall = TRUE` the same request may record the cancellation of a completed
turn, which finding 3 reports even without that (the scheduled-task shortcut
plans nothing).

### Fairness

`HarnessTurn`: the threads of a running process are scheduled (`WF` of
`Execute(w)`: what a worker does next, not the failures it may meet), the sweeper
wakes every 60 s, a process that died is started again, and deadlines pass.
Requests, cancellations, failures and crashes never have to happen.
`PublicJobs`: threads are scheduled, an accepted request goes on and readers poll;
nothing is assumed of shutdown and recovery. `JobSettles` has the antecedent
`Serving`, that the process stays up from some time on: jobs are resumed by
nothing but a start.

`ExternalTasks`: the scanner wakes every few seconds, of the threads that apply an
event some one goes on, and deadlines pass. Workers, providers and callbacks need not
ever answer: `WaitEnds` rests on the deadline alone.
`AgentDriver`: the event loop runs what is ready, that is, the awaited calls of the
driver settle, listeners return and a maintenance task ends. Nobody has to send,
cancel or edit.
`ToolCalls`: the scheduler runs when it can and every tool, hook and wrapper
settles; the scheduler itself waits for each of them without a timeout, so a tool
that never settles is outside the claim.

### Where the code departs from what it says

1. `RecoversOnlyOrphans`. `harness_recovery.py:58` recovers "rows left without a
   live executor". Nothing renews the 900 s leases of a frame while it executes
   (`_renew_execution_leases` has no caller, a step may take 3600 s). The sweeper
   requeues the frame, fails the turn and tells the user that the execution was
   lost while it goes on.
2. `CancelledNotAnswered`. `chat.py:501`: "Cancellation wins over the shortcut."
   The shortcut looks once, before its model call.
3. `NoContradictoryCancel`. `chat.py:1465`: no "contradictory cancellation
   event/message after that linearization". Without a receipt there is nothing to
   compare, and the event is appended whatever has become of the turn.

Also met, and visible in the model without being claims of the code: the sweeper
writes by primary key what it loaded before (`harness_recovery.py:129`), and so
requeues a frame that has finished since, or one whose next attempt is running,
which leaves that attempt marked running under a queued frame (TLC finds both
in 21 to 23 steps when `OnlySweepRevives` has no exception); a turn whose
reply was committed may be settled as failed when the sweep or an exception comes
between the two commits; a `cancelled` receipt may be overwritten by `failed`; a
job whose started event loses its number to a cancel event is stranded
(`Stranded`) until the next start; recovery may tell a failure twice. And a dead
owner may block the next turn for a while, of which `harness_recovery.py:202` says
"must never": a crash between the commit of the lease and the claim leaves no run,
frame or turn, recovery returns early (`:118`), and the session is busy until the
lease expires. `SessionFreed` holds because it does.

In the external tasks, `EndStays` and `WaitEnds` name two exceptions the code makes:

* the recovery of stale leases (`tools/external_tasks.py:326`) writes each loaded
  row by primary key. A callback that completes a task between the load and the
  write is overwritten with `outcome_unknown`, or with `working` and polled again;
  the lock and refresh in `apply_task_event`, which keep callbacks and polls from
  doing this, are not used there;
* the end of a task and the resume of its frame are two commits (`:193`, `:195`).
  A crash or an exception between them leaves the frame `waiting_external_task`;
  no scan looks for ended tasks with a waiting frame.

In the driver, `IdleOwesNothing` and `WakesAreServed` name what they exclude. A
message is `stranded`, that is, stays queued on an idle agent until another wake,
when a driver that is running is expected to claim it and does not look again:

* it was accepted after the last look at the inbox (`agent-loop/src/agent.ts:333`)
  and before `kick` resumes;
* it was queued while a turn that enters nothing was open, which returns without a
  look (`:285`);
* a listener of what a cancel discards sent it. `cancel` empties the inbox, tells
  the listeners after each list, and only then forgets the wake and aborts
  (`:145`); the message finds a signal that is not aborted yet, so no wake is
  latched, and the driver stops.

A turn that fails ends the debts of its drain; so does one whose `turn/start`,
`step/end` or `turn/end` a listener refuses, which the repository's tests expect
(`agent-loop/tests/contract-regressions.spec.ts:736`, `:793`): the agent is idle,
with its queue untouched in the first case and with an open turn in the others. A
turn left open makes the companion refuse the next `turn/start`, so nothing is
served until the log is loaded again and repaired. A wake on a disposed agent is not
latched, but disposal after a user's cancel finds the signal aborted with the user's
reason (`:186`), and there the wake is latched all the same.

## 4. What is proved

`tlapm` on the modules named `..Proofs`. A theorem holds for every value of the
constants, from the assumptions named; the invariants it rests on were checked by
TLC on the small instances before they were proved.

### The turn

The theorems hold for all workers, turns, digests and frames, all assignments of
turns and digests to requests, and both values of the timing parameters unless
stated. They use the assumptions of `HarnessBase` only: `RequestsAssumption`
(functions of the right type), `NoneAssumption` (NULL is none of the values) and
`TimingAssumption`.

| theorem | says |
|---|---|
| `TypeCorrect` | `Spec => []TypeOK` |
| `ReceiptInvariant` | `Spec => []ReceiptInv` |
| `ClaimedOnce` | `Spec => []ExecutedOnce` |
| `CancellationHonoured` | `~MayStall => (Spec => []CancelHonoured)` |
| `ReplyExcludesCancellation` | `~MayStall => (Spec => []CancelExcludesReply)` |
| `PublishInvariant` | `~MayStall => (Spec => []PublishInv)` |
| `ImplementsLossyContract` | `~MayStall => (Spec => KeepsLossyContract)` |
| `HealthyInvariant` | `~MayLapse => (Spec => []HealthyInv)` |
| `RowsInvariant` | `Spec => []RowsInv` |
| `AttemptsArePaired` | `Spec => []AttemptsPaired` |
| `OnlySweepersRevive` | `Spec => OnlySweepRevives` |
| `ImplementsContract` | `~MayLapse /\ ~MayStall => (Spec => KeepsContract)` |
| `ShowsOneOutcome` | `~MayLapse /\ ~MayStall /\ EachTurnOnce => (Spec => []OneOutcome)` |

*The argument.* None of the three safety properties is inductive. `ReceiptInv`
adds what the code relies on silently:

* `OwnersExecute` – a worker past its claim is the owner its receipt names, for
  ever: no write changes an owner, and `claim` writes absent rows only. Hence
  `ExecutedOnce`.
* `CancelLeavesItsEvent` – a marker, a cancelled receipt, a cancellation message
  and a worker on its way to cancel all presuppose the durable event.
* `NothingBeforeClaim` – nothing of a turn is shown before it is claimed, and the
  sweeper holds claimed turns only, so its blind write creates no receipt.
* `CompletionExcludesCancel` – the race itself: a worker at `begin` whose turn has
  its event finds no started receipt, and a worker past `begin` has no event and a
  receipt the endpoint's fence refuses. No request may be pending by then, which
  is where `MayStall` enters.

*The refinement.* `PublishInv` strengthens `ReceiptInv` by what a step of the
contract presupposes: a completed turn shows its reply (`CompletedShowsReply`),
a receipt is never further than the step of its worker (`ReceiptFollowsWorker`),
and a reserved reply has no cancellation, recorded or on its way
(`ReservedExcludesCancel`). Then each action is, for its own turn, one of the nine
cases of `AllowedStep`, and a stutter for every other turn; recovery moves several
turns at once, which is why the contract lets turns step together.

*Frames and runs.* Every writer of the two rows but one names the status, the owner
and the lease it expects. The sweeper names nothing: it writes the rows it loaded.
What saves `AttemptsPaired` is that it loaded them together. `RowsInv` says so
(`OrphansTogether`: the run of a frame that still runs was not loaded without the
frame), next to the pairing with the source turn (`OneAttempt`) and the order of the
attempt numbers (`AttemptsInOrder`), since a run is found by its attempt and a
frame is not. Each action then either leaves the rows (`RowsAlone`), settles them
together (`RowsSettled`), or is plan, start, end, load or write of recovery, with a
lemma of its own. No timing is assumed.

*While leases do not lapse.* `HealthyInv` is the argument that a lease is as good as
its owner. The session lock lets one worker at a time run frames (`SessionInv`), so
whatever is running belongs to the step that worker is at, and its leases have not
expired (`FrameInv`); hence the sweeper never finds a frame, and the turns it has
loaded belong to owners that are gone (`OwnerInv`, `SweepInv`) and that will write
no more. With this the write of the sweeper cannot undo a completed turn, which is all that separates the lossy contract from the full one. One
outcome needs that an owner is also the only one to report: `UnansweredInv` says
that the messages of a turn are empty until the steps that write its last word.
`EachTurnOnce`, that no two requests carry the same turn, is what the property
itself is about (see 3).

`HarnessTurnProofs` first states what each operator of the stores returns and
leaves alone (types, then owners and statuses), and then has one step per action,
and under it one step per conjunct the action can disturb.

### The jobs

For any jobs, handles, pool size and bound on the log, from `JobsAssumption`,
`MaxWorkersAssumption` and `MaxEventsAssumption`:

| theorem | says |
|---|---|
| `JobsInvariant`, `JobsTyped` | `Spec => []JobsInv`, `Spec => []TypeOK` |
| `OutcomeIsLogged`, `OutcomeIsFinal` | `Spec => []OutcomeInLog`, `Spec => OutcomeFinal` |
| `ExecutesOnce` | `Spec => []ExecutedOnce` |
| `StreamsDeliver` | `Spec => []StreamDeliversOutcome` |
| `ShutdownIsDrained` | `Spec => []ShutdownDrains` |
| `SessionIsReleased` | `Spec => SessionReleased` |

*The argument.* A job is claimed once, under generation 1 (`JobInv`). A worker past
its claim either owns the running row of that generation, or recovery has failed the
row under generation 2, and every write of the worker is fenced (`WorkerInv`). So one
terminal event is written with the terminal status, by whoever wins; recovery may
tell its failure once more, and no more than once, because what it loaded has been
told at most once by then (`FoundInv`). A reader stops only at a terminal event it
has read, or behind a status that no later write can change (`ReaderInv`).

### The agent driver

For any messages and bounds, from `DriverBounds`:

| theorem | says |
|---|---|
| `DriverInvariant`, `DriverTyped` | `Spec => []DriverInv`, `Spec => []TypeOK` |
| `OwesNothingIdle` | `Spec => []IdleOwesNothing` |

*The argument.* A message that is owed is in the inbox (`OwedPending`), so a driver
that looks, finds it. Whoever lets go of the agent without looking, because the
signal is aborted or maintenance owns the phase, has left a wake latched, or the
replay of one on the stack of listeners (`WakeKept`). What remains are the messages
`stranded` names. A cancel is several steps with listeners between them, and
forgets the wake in the last one only: there it strands what is owed, and by then
the lists it found are empty, so that this is what its own listeners sent. A refused
append ends the drain as a failure does. The invariant says nothing of the calls on
the stack but whether a replay is among them, since a cancel that goes on reads the
lists anew.

### The session log

For any messages, bounds and number of crashes:

| theorem | says |
|---|---|
| `ResumeInvariant` | `ResumeSpec => []ResumeInv` |
| `LogStaysWellFormed` | `ResumeSpec => []LogIsWellFormed` |
| `InboxReplays` | `ResumeSpec => []InboxIsReplay` |
| `RepairIsTruthful` | `ResumeSpec => []RepairTellsStarted` |
| `FatesInvariant`, `EveryMessageHasItsFate` | `ResumeSpec => []FateInv`, `ResumeSpec => []EveryMessageAccounted` |
| `AccountIsHonest` | `ResumeSpec => []AccountHidesNothing` |

*The argument.* A crash keeps any prefix of the log, so the invariant is about
prefixes: after every event the companion has admitted the log, the repair sees the
same open turn and step as the companion (`Fits`), and it remembers which calls the
log has the start of (`Remembers`). A log that is good in this sense can be closed:
the closers of the repair are events the companion admits, one by one, and the closed
log is good again. On the live side the place of the driver is where the scans of the
log stand (`LogInv`), so that each action appends events that fit. Between two turns
the last one is closed, or it is the one turn whose end was refused (`Resting`);
nothing opens then until a load has closed it. `ScanProofs` says
what a fold over a log computes for any step of the fold: it ends at its fresh value
over the empty log and takes one step per event. Its induction is over the set of
lengths for which a claim holds and follows from the well-foundedness of `Nat`; each
scan is an instance of that module.

*The fates.* `EveryMessageAccounted` reads a fourth scan, which is known at every
prefix as well (`Fated`), so that the crash and the closers keep it. It agrees with
the replayed inbox; a queued message stands in one place of one list (`Single`),
which is why a claim takes it once; a message no one has sent has left no trace; and
nothing is claimed while no turn is open. None of this sees that a step enters what
its turn claimed: the batch leaves the inbox at one await of the driver and is
entered at another, with hooks, cancels and edits between them. `FateInv` bridges
that gap: at the step boundary the claimed messages are the batch the driver carries,
each in it once, and what hooks rewrote; afterwards they are rewritten ones only.
Each mutation of the inbox has a lemma on what it does to the fates (`AppendFates`,
`RespliceFates`, `EmptyingFates`, `ClaimFates`, `TextsFates`).

*The account.* `AccountHidesNothing` needs no further invariant of the driver: it
follows from the fates of a log by induction over its prefixes (`FatedIsReckoned`).
The account has the open turn and marks it when it claims, so an end it does not
report held nothing, or ended as completed; in the second case the fates already say
that whatever it held was rewritten.

### The tool-call scheduler

For any number of calls, pool size and number of reclassifications, from the
assumptions of `ToolCalls` on its constants:

| theorem | says |
|---|---|
| `TypeCorrect` | `Spec => []TypeOK` |
| `SchedulerInvariant` | `Spec => []SchedulerInv` |
| `ExclusiveIsAlone` | `Spec => []ExclusiveAlone` |
| `PoolIsBounded` | `Spec => []PoolBounded`: pool and running dispatches stay within the bound |
| `LogInvariant`, `LogInModelOrder` | `Spec => []ModelOrder` |
| `OverIsOver` | `Spec => []OverMeansOver` |
| `TruthInvariant`, `TranscriptIsTrue` | `Spec => []TruthInv`, `Spec => []TranscriptTellsTruth` |

*The argument.* `SchedulerInv` relates three things the code keeps apart: the stage
of each call to its place between `committed` and `started` (`StageInv`), the pool
to the calls whose dispatch runs (`PoolInv`, with the library's facts about
cardinality), and the current group to the calls started in it (`GroupInv`). The
barrier then needs that an exclusive call was started when everything before it was
committed, and that nothing starts while it is out (`BarrierInv`): the second
classification in `fillPool` is what keeps it when the registry has changed its
mind. `LogInv` says that the starts and results in the log are exactly those of the
calls reached, which with the lemmas on appending and on the skipped tail gives the
order and the one result of each call.

`TranscriptTellsTruth` is about the log and the closers the repair would append to it
now. Where the scans of the companion and of the repair stand is determined by how
many starts and results the log has (`ReadsLog`), so the closers answer exactly the
calls that have a start or were asked for and have no result, each once. That no
answer denies a tool that ran rests on `InvokedInv`: a body is invoked only
behind the start of its call, and from then on neither the slot of the call nor
its result says that it was aborted before dispatch.

### The external tasks

For any tasks, callbacks and number of crashes, from `ThreadsAssumption`:

| theorem | says |
|---|---|
| `SubmitInvariant` | `Spec => []SubmitInv` |
| `SentOnce` | `Spec => []SubmittedOnce` |
| `EndedStays` | `Spec => EndStays` |

*The argument.* That a worker about to send finds no request sent (`Unsent`) rests
on the row: it says `queued` only before the one claim of a submission, and nothing
writes that status back, since no event can carry it (`EventInv`) and recovery
writes `working` or `outcome_unknown` only. A crash forgets the worker and keeps the
claim. `EndedStays` needs no more than the types: each write of a status looks at
the row behind its lock, except the one named.

### Only model-checked

The eight liveness properties: `TurnSettles`, `AttemptEnds` and `SessionFreed` of
the turn, `JobSettles`, `WaitEnds`, `WakesAreServed`, `AgentConverges` and
`SchedulerReturns`. They rest on fairness, that is on ENABLED, which the provers do
not handle. Every other property of a run that passes is a theorem.

## 5. What the models leave out

* Messages of a turn are a set of kinds: two identical ones are one. Looking for an
  earlier message and inserting one is a step, since both happen behind the
  write lock of one transaction.
* The process is single (`runtime_lock.py` holds a file lock), so the local lock
  and the markers vanish together with all workers.
* Plans choose frames freely; dependencies, slots, checkpoints and the projection
  into the session are data the properties do not read. `complete_task` also stores
  the plan and readies frames that depend on the task, and may meet another writer
  between its renewal of the lease and its write: it is one fenced step here.
* In `HarnessTurn` a frame that waits for an external task stays so: its resumption
  is `ExternalTasks`, where in turn the frame is a status and the task it waits for.
* In `ExternalTasks` the contents of results and slots, the checkpoint of the agent
  loop, the limits of the two pools and the draining of the dispatcher are left out;
  the registry of modules is installed, so that results are reviewed. The write lock
  of SQLite is assumed, also for the frame's write and read above. A comment
  (`tools/external_tasks.py:126`) has PostgreSQL in mind as well: there the end of a
  task could commit between the two, and `WaitEnds` is not shown.
* In the engine an append to the log is atomic and a crash keeps a prefix of it;
  snapshots, locks and forks of the store, the lifecycle of agents, background jobs
  and the extensions around the loop (compaction, retry, approvals, subagents) are
  not modelled. A step's tool calls are one event pair in `AgentDriver` and the
  whole subject of `ToolCalls`; nested calls from a code tool are left out. In
  `ToolCalls` a wrapper may hand on a signal of its own, but calls `next()` at most
  once; a second call would run a body twice behind one result. `acceptContext` and
  the `finish` stage do not throw after a result is in the log. In `AgentDriver` a
  splice is written and applied in one action: an observer of the splice sees the old
  list, but cannot append.
* Streaming to the browser, its idle timeout and the order of relayed tokens.
* In `PublicJobs` each job is a run job with a session of its own; retention of old
  rows and authorization are left out. An executor that refuses a webhook delivery
  while it stops is an exception of the emitting code.

## 6. Plan

Done, because everything a user sees passes through it: the turn (`HarnessTurn` and
its stores, then its abstract `TurnContract`), the jobs (`PublicJobs`, `AsyncJobs`),
the detached tasks (`ExternalTasks`), and the engine's driver, log and scheduler.

Next, in this order:

1. Session reset as actions of `HarnessTurn`, with the property that a reset
   session has no active row and that the worker it cut off writes nothing more.
2. `Webhooks` – staging with the event, claim, completion fence, retries with
   attempts bounded by the schedule, maintenance. One delivery, two workers, one
   crash. Properties: an ended delivery stays ended; every delivery ends.
3. `ChannelOutbox` – two lanes, one row and its reaction, the stuck reset.
   Properties: a generation is sent once, a failed row is not sent, rows end.
4. The engine's background jobs (wait, kill, retention) and the coordinator of its
   session store.
5. `ScheduledTasks` and operators for the computation of the next run and for the
   walk of a procedure graph, each against a reference definition.

Theorems to add: the claim fences of the two delivery modules, and for the turn that
a reset leaves no row of its session active.
