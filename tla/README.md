# Formal models of Taiwan LINE Equity

This directory holds TLA+ models of the parts of the repository in which several
actors share state: worker processes over one SQLite file, threads over one
lock, webhook deliveries over one chat, a supervisor and the processes it
starts. Everything else in the repository is sequential code over read-only
market data and is listed below as not modelled. `PROJECT.json` maps every
definition to the lines of the source it stands for and lists the runs, the
mutants that each property detects, the findings, the hazards and the theorems.

Contents: 1 the system, 2 the models, 3 the runs, 4 the findings, 5 the proofs,
6 what is left out, 7 the plan, 8 how to run everything.

## 1. The system

The product is a LINE bot that answers questions about Taiwanese equities, with
a local GPU model, a web console, daily data updates and a news research
pipeline ("Single-Track V3"). It runs as a handful of processes on one machine
which share SQLite databases; there is no server between them.

```
 LINE ──webhook──> gateway processes ── handle_line_event ──> answer ──reply──> LINE
                     │        │
                     │        └── conversation memory (SQLite, encrypted)
                     │                 └── compaction ──┐
                     └── model answers, shadow runs ────┤
                                                        v
                                        model admission controller ──> GPU model

 equity supervisor ── starts ── model runtime, web application, tunnel, equity scheduler
 equity scheduler  ── daily stages, news, TDCC ──> scripts ──> market tables

 scheduler tick ── declares ──> news_retrieval_run rows ──> retrieval workers
      │                                                         │ items, outbox, receipts
      │                                event reconciler <───────┘
      │                                       │ clusters, sealed revisions
      │                                       v
      │                      content and target assessments ── calls ──> models
      │                                       │ outbox: terminal cascades, deltas
      └── artifact production <───────────────┘
```

### 1.1 Components, state, operations, difficulty

Paths under `equity/` are relative to the repository's root, all others to its
`review_src/`.

**Durable news-retrieval worker** (`task/single_track_v3_retrieval_worker.py` with
three repositories). State: the run row (`queued`, `running` or a verdict), one
lease row per run with owner, token and expiry, the news items, the links from
runs to items, outbox rows, worker receipts. Operations: check for a receipt to
replay, claim the run, call the adapters outside any transaction with a heartbeat
after each call, seal the run in one savepoint, release. Hard: every clock
reading is taken before the transaction that uses it; workers die between
transactions; leases expire under slow adapters; two runs meet at one item while
retention prunes it. Correct when a run gets one verdict, announced and receipted
once, by the holder of its lease, and cites nothing it could not have known at
its cutoff.

**Single-Track V3 scheduler tick** (`task/single_track_v3_scheduler.py`, the
planner in `core/`, the calendar and scheduler repositories). State: sealed
calendar revisions, run rows keyed by a hash of their identity, one receipt per
tick. Operations: bind the calendar revision visible at the tick's clock reading,
read the runs of the window, plan, insert the missing runs and the receipt in one
savepoint. Hard: the reads precede the savepoint; ticks are repeated and overlap;
a new revision changes the identity of a slot; the planner's rows depend on when
it is asked. Correct when a receipt stands for runs that exist, a slot of the
window is never missing, and a declared run never changes its cutoff.

**Event reconciler** (`task/single_track_v3_event_reconciler.py` and the
revision repository). State: event clusters, chains of sealed revisions, the
links from items to them. Operation: read the unlinked items visible at a cutoff,
then write clusters, revisions and links in one savepoint. Hard: the read
precedes the savepoint; calls overlap and come with cutoffs in any order;
retrieval changes the standing of an item and the event it belongs to, and
retention prunes it meanwhile.
Correct when evidence only grows, items and revisions tell one story, and
unverified ("radar") items never make a revision.

**Content and target assessment** (the assessment repositories). State: a job row
per content and per target with `state_version`, status and active attempt;
attempt rows; outbox rows. Operations: create, dispatch, record a failure, seal a
result, mark a late one, expire, reconcile. Hard: a worker taken for lost comes
back with a result; failures, seals, watchdogs and cascades race; a target is
created while its content is being sealed. Correct when a job gets one outcome,
from an attempt that was in time, and a failed content takes its targets with it.

**Zero-GPU artifact production**
(`repository/single_track_v3_artifact_production_repository.py` and its service).
State: outbox rows, artifacts, receipts. Operation: a tick takes the oldest
pending rows and produces each in a savepoint of its own. Hard: overlapping and
killed ticks; items that always fail. Correct when each row is delivered once
and a failing item stops no other.

**Model admission controller** (`services/model_admission_service.py`). State: a
heap of tasks, the active task and its start time, a cancel event per preemptible
task, a future per submission. Operations: `submit` from any thread; a worker
thread that pops, checks the deadline, runs, resolves the future. Hard: the lock
is released while the worker waits; the head of the heap changes meanwhile; a lost
wakeup or a second resolution stops everybody. Correct when no submission is lost
or answered twice, background work yields, and what was admitted with a
prediction meets its deadline if predictions hold.

**LINE conversation memory** (`repository/line_conversation_repository.py`,
`services/conversation_memory_service.py`). State per chat: event receipts,
exchanges, the session, active summaries with their sources, the projection, the
compaction lease; and outside the tables the session that each process keeps.
Operations: reserve and finish an event, load the context, commit an exchange with
the next session, compact (peek, claim, read, call the model, store, release),
store the projection, suppress an unsent message, clear the chat. Hard: LINE
redelivers; attempts overlap after 60 seconds; a compaction waits for the model
without a bound while its lease of 90 seconds runs out; a handler holds what it
read while the user unsends, clears or unfollows. Correct when an event is answered and recorded once,
what was removed is gone from what is derived from it, and no history falls out of
the summaries.

**LINE webhook handler** (`services/line_bot_service.py`, `api/line_webhook.py`). No
state of its own; events of one request run one after the other in a background
task, different requests run concurrently. It decides the order of the memory's
operations and is modelled with it.

**Equity scheduler** (`equity/scheduler.py`, `equity/processes.py`). State: a JSON
file of checkpoints by due date and stage, a lock file. Operation: every 30
seconds run what is due, one stage after the other, and record it. Hard: it can
end between a stage and its checkpoint, at a stage, or leave its stage behind;
retries, holidays, the catch-up of a weekly publication, pruning. Correct when
one stage runs at a time and none is repeated once recorded as completed.

**Equity supervisor** (`equity/supervisor.py`, `equity/processes.py`). State: its
children, a lock file. Operations: start the children in order with waits in
between, poll, stop them in reverse order. Hard: a child may end during the start,
a supervisor may be killed and leave everything running, a stop may fail. Correct
when the system is up as a whole or ends as a whole.

**Portfolio, shadow-model ledger, canonical-model services, web API,
authentication, adapters, numerics, data scripts.** See section 6.

### 1.2 How the components interact

* Shared tables: tick, retrieval worker, reconciler, assessments and artifact
  production communicate only through committed rows. A model action is therefore
  one committed transaction, and locals survive between actions.
* Outbox: the assessment transaction that fails a content also writes the row that
  artifact production delivers; `ArtifactProduction` composes the two.
* Shared lock: all model calls of a process go through one admission controller;
  compaction waits in its queue as maintenance work (priority 20), answers as
  interactive work (priority 0).
* Callbacks: a future's done-callbacks and `on_start` run on the worker thread,
  which is why a submission from there has to be refused (`Reenter`).
* Processes: the supervisor sees its children by their exit only; the scheduler
  sees a stage by its exit code. `EquitySupervisor` composes the two.

## 2. The models

### 2.1 RunLedger and RetrievalRun

`RunLedger` is the promise: a run declared open gets one verdict, in one step
together with one announcement and one receipt that agree. It knows no leases,
workers or crashes.

`RetrievalRun` is the program. `now` is the wall clock, `seen[w]` the reading a
worker took last. The tables are `run`, `lease`, `item`, `outbox`, `receipt` and
`link`; the locals are `pc`, `job`, `token`, `seen`, `left`, `tally`, `found`.

| action | code |
|---|---|
| `Begin` | entry checks of `run_retrieval_worker`: no receipt, run open, clock read, token made |
| `ClaimWon`, `ClaimRefused`, `ClaimTooLate`, `ClaimRaises` | the four ends of the claim savepoint |
| `Fetch` | one adapter call and the clock read after it |
| `Heartbeat` | `record_scheduler_heartbeat`, renewed or lost |
| `Finish` | the last clock reading, `completed_at` |
| `Seal` | the terminal savepoint with merge, prune, links, verdict, outbox, receipt, release |
| `Raise`, `Abort` | any exception after the claim, and the outer handler's release |
| `Die` | a kill, or a release that fails and is swallowed |

What an adapter call returns is enumerated by `AdapterResults`: which outcomes
its attempts had and which items could be normalized. Contents of items are
reduced to what the merge and the pruning look at. `orphaned` is a history
variable that remembers leases left behind by a dead worker; no guard reads it.
`NoLeakedLease` exempts these leases, so it says nothing of a resume after a crash;
that one is covered by `SealedOnce` and `ImplementsLedger`, which hold over takeovers
of any kind.
The scheduler's `skipped` runs exist from the start and are never touched.

### 2.2 ModelAdmission

Each block under the condition's lock is one action; what happens outside it
(reading the clock before `submit`, the second deadline check, running the
callable) is an action of its own. `Arrive` and `Admit` are the two halves of
`submit`, `Reenter` its first guard. `Rest`, `Take`, `StartGrace`, `EndGrace` are
the ways through the worker's wait, `CheckDeadline`, `Complete`, `Clear` the rest
of its loop. `notified` records that a `notify_all` reached the waiting worker.
`order` is the heap's sequence number, `Outranks` the dataclass ordering.
Durations and deadlines are constants of each submission, so that an instance
fixes the workload and TLC explores every order of arrivals.

### 2.3 LineMemory

One chat, its tables, and handler threads in several processes. Exchanges are
the indices of `rows`; a row that was deleted by a cascade stays in the sequence
as `gone`, so that an identity is never reused and invariants can speak about
what no longer exists. A summary is the pair of what it cites (`sources`) and
what its text was written from (`content`): the code stores only the first, and
the difference between the two is what the unsend properties are about. The
model's answer is a choice: a rolling summary and some of the per-stock ones, or
nothing usable. `Recent` stands for the number of exchanges a projection reads.

What the chat is about is carried from answer to answer by
`conversation_context`. A handler takes it from its process (`cached`, the model of
`_conversation_sessions`), where it may have expired, lets the stored `session`
override it, adds its question, commits the result as the next session unless a
newer exchange has done so, and leaves it in its process. Of the context the model
keeps the earlier questions (`recent_user_questions`), named by their events;
`Followed` are the events whose questions a configuration follows, so that a run
which asks nothing about them does not distinguish states by them. `session.last`
is the exchange that wrote the stored session. Unsends and unfollows do not reach
`cached`; a clear command does, in its own process, after its transaction.

`held` and `crowded` are history variables which no guard reads. `held[h]` is the
time until which the reservation or the compaction lease of `h` keeps others out,
and 0 once it was deleted, by a clear, by an attempt at the same event that
finished, or by a release of the same process, whose threads share a lease owner.
`crowded` are the threads that compacted beside another one. With them the
properties about reservations and leases can say exactly when two threads may
meet, instead of assuming that they are fast.

| action | code |
|---|---|
| `Begin` | `reserve_event`, including the takeover of a stale processing receipt |
| `Snapshot`, `LoadSession` | `_conversation_snapshot`, then `context_for_event` |
| `ClearScope`, `ClearCached`, `Unfollow` | `clear_scope` and the clear of the process's session, from a command; `clear_scope` from an unfollow event |
| `Reply`, `FinishEvent` | the reply to LINE and `finish_event` |
| `CommitExchange`, `CommitRefused` | `commit_exchange` with the session, and its unique key |
| `Peek`, `Claim`, `ReadBatch`, `ReadBase`, `StoreSummary`, `Release` | `_compact_if_needed` |
| `ReadRecent`, `ReadRolling`, `StoreProjection` | `_store_projection` |
| `CommitContext` | `_commit_conversation_context` |
| `Unsend` | `suppress_message` |
| `DatabaseFails`, `Crash` | a transaction that is rolled back; a killed process |

### 2.4 AssessmentOutcome, Assessment and ArtifactProduction

`AssessmentOutcome` is what readers of the tables are promised: a job gets at most
one outcome; a target gets its own only after its content is complete; the step
that fails a content announces it and may block targets with it.

`Assessment` is the program. Contents and targets share their actions, because
their two state repositories mirror each other line by line; where they differ
(creation, cascade, activation) the operators say so. `job`, `attempt` and `outbox`
are tables; `worker` says what the caller of each attempt is doing, `reading` what
a creation of a target has read of the content so far. A transition that ends an
attempt is guarded by `Owns`, the code's compare-and-swap on version, status and
active attempt. `Readings` are the clock readings a process may hold: at most `Lag`
old; the completion time that a caller reports may be up to `Skew` after the clock,
because the repository compares it with its own reading in the late branch only.
`sealed` in an attempt is a history field: the database's time of its seal.
Keys, digests and the content of results are left out: a result is named by
the attempt that made it, and `basis` says on which result a target works.

| action | code |
|---|---|
| `CreateContent`, `ReadContent`, `InsertTarget` | `create_content_assessment`; `create_target_impact_assessment`, whose reading of the content and insertion are two statements |
| `Dispatch` | `dispatch_*_attempt` |
| `ReportFailure` | `record_*_attempt_failure`, by the worker or by a supervisor that takes it for lost |
| `SealWins`, `SealLoses` | `seal_*_success`, with the swap won or lost |
| `SealLate`, `MarkLate` | its late branch: the failure in one savepoint, the audit mark in the next |
| `Expire`, `Reconcile` | `terminalize_expired_*`, `reconcile_blocked_target_dependencies` |
| `WorkerGone` | the caller dies, or gives up without a word |

`ArtifactProduction` adds the zero-GPU part of a scheduler tick: `StartTick` reads the
oldest `Limit` pending rows, `Produce` is one item's savepoint, `PassOver` an item
that is a replay, no longer agrees with the durable state, or raises, `KillTick` the
end of a tick inside its batch. `SealDelta` stands for the transaction that seals
an event delta and enqueues its row. `Poison` are the deltas whose production
raises every time; any other row may raise too and be produced later (`Raises`).
`MaxMishaps` bounds these failures together with the killed ticks.

### 2.5 SchedulerTick

A tick is `Start` (it reads the clock), `Bind` (the visible calendar revision, and
the replay of a sealed receipt), `ReadRuns` (the existing runs of the window, and the
plan), and `Materialize` or `Refuse` (the savepoint with its row-by-row comparison).
`Die` ends it anywhere. A run is named by the identity that its idempotency key
hashes: revision, target session, slot, scheduled time; what is not in the key
(status, cutoff, creation) is the row. `FixedRow` and `SentinelRow` are the planner's
decisions between queued and skipped, `Quarters` and `FixedKeys` its windows, `NextOpen`
the target of a sentinel. `SealCalendar` and `WorkOn` are the environment: a revision
is sealed up to `SealDelay` after it became available, and a worker moves a queued
run on. The script's `--observed-at` override is not modelled: ticks read the clock.
`overtaken` is a history variable: the ticks since whose reads another tick has
sealed something.

### 2.6 EventReconciler

A call is `Read` (the pending items visible at its cutoff, and which of them carry a
verification) and `Commit` (the savepoint for all its keys), or `Abandon`. A cluster is
named by its dedup key, a revision is its source references, those of them that
were verified, and its key points; `NewRevision`, `ExactDuplicate` and `Promotes` say
which revision a batch makes, `LinkedNumber` which revision its items are linked to,
`MayLink` and `DigestIsNew` the two checks that roll the savepoint back. `Retrieve` and
`Prune` are the environment: adapters may say something else of a licensed item's
verification each time, and retention prunes what has expired. A retrieval also
overwrites the item's cluster and entity references, which name the event it
belongs to, with those of the run (`KeysOf[i]` are the keys an item may get, one
per stock it is retrieved for), and leaves its link alone. A call goes by the keys
it read. An item's content
hash covers source, publisher and URL, so that no two items share one: of the
relations the classifier knows, only "exact duplicate" can be reached.

### 2.7 EquityScheduler and EquitySupervisor

`EquityScheduler` has the wall clock, the state file, the lock, the scheduler processes
and the running stages. A scheduler is named by the generation of the supervisor
that starts it. `StartScheduler` takes the lock or exits; `BeginRound` reads file and
clock once; `StartStage` starts the first due stage after the last one (`MayRun`,
`DueDay`: daily, latest news slot, weekly publication with catch-up); `EndStage` is its
exit or its time limit; `Checkpoint` replaces the file; `EndRound` prunes it. A
scheduler ends by an exception (`Fail`, which stops the stage it waits for), by a
kill from outside that leaves the stage running (`KillScheduler`) or by its
supervisor (`StopScheduler`). `TreeKill` tells platforms apart: on Windows a stop
reaches the whole process tree (`taskkill /T`), on POSIX it reaches the scheduler's
process group, in which a stage, the leader of its own session, is not. The
product supports both; each has a run.

`EquitySupervisor` adds the supervisors with their lock and their other children.
`phase` walks through the start: each step ends with what it waits for and launches
what comes next. `Poll` notices any child that ended, `Interrupt` is a signal or any
other failure, `StopLast` stops one child, last first, `StopRaises` is a stop that
outlives its timeout and thereby ends the loop, `Finish` the end. `Kill`, `KillAlone` and
`ChildDies` are the faults, bounded together by `MaxFaults`. The tunnel mode is
"quick" and neither `--no-model` nor `--no-schedule` is given.

## 3. The runs

Every instance is small on purpose; the bound that makes it finite is always
either the clock (`Horizon`), the number of calls or rows, or the number of
submissions, and the table says what each makes possible.

| run | shows | why the bounds are enough |
|---|---|---|
| retrieval | `SealedOnce`, `NoLookahead`, `LinksMatchReceipts`, `NoLeakedLease`, `ContentNeverRestored`, `ImplementsLedger`, `NoStolenLease`, `StaleWorkerWritesNothing` | two runs with cutoffs 1 and 2, one shared item, retention and lease of one tick, two workers that are each called once and may die, clock to 2: an item is retrieved, pruned and retrieved again by the other run; each run is late in some behaviours; a lease is renewed, taken over after a crash, and taken over from a worker that is only slow and comes back |
| admission_race | `NothingLost`, `BackgroundToldToYield`, `EverySubmissionAnswered` | four submissions around a queue of two: the queue is full while one is active and one waits; clock free to jump |
| admission_kept | `AdmissionKept` | three interactive tasks of lengths 2, 1, 2 with deadlines 5, 4, 6 behind shadow and maintenance work: some orders fit, others do not |
| memory_retry | `OneRowPerEvent`, `NoSummaryOfForgotten`, `SessionAnswerLive`, `OneAttempt`, `OneCompactor`, `HistoryNotSkipped`, `DeliveredStaysDelivered` | two processes, two events, two exchanges, trigger 1, a user who clears and unfollows or one who unsends, reservations and leases that are stale after one tick, clock to 1, crashes and failing transactions: a reply that is repeated after a removal, a slow attempt and a slow compaction that are overtaken, a compaction interrupted by every removal |
| assessment | `OneActiveAttempt`, `GatedByContent`, `SealedInTime`, `TerminalAnnounced`, `DeliveredOnce`, `ImplementsOutcome`, `EveryCascadeProduced` | a content, a target that waits for it, two attempts each, a run limit and delays of one tick, deadlines at 2, clock to 2, callers whose clock may be one tick ahead: a retry, a late result of the first attempt during the second, an expiry and a seal at the deadline; two producers, one poisoned delta in a batch of two, one mishap: a killed tick, or a row that raises once |
| schedule | `ReceiptsMaterialized`, `PointInTime`, `NoGap`, `RefusedOnlyOvertaken` | two overlapping ticks, two revisions of which the later one drops a session, two fixed slots and quarters of two ticks, a catch-up and audit windows that end inside the clock's four ticks: rows are queued, caught up and skipped; one run is worked on between two ticks |
| reconciler | `EvidenceGrows`, `CitedAreLinked`, `RadarNeverPromotes`, `PointInTime`, `SealedForGood` | two calls, cutoffs from 0 to 2, an official and a radar item that are retrieved for two events in turn and a licensed item of the first, retention of one tick, a limit of two: chains of two revisions, items that move to the other event before and after they are linked, reads that another call, a retrieval or a pruning overtakes, and batches beyond the limit |
| equity | `OneStageAtATime`, `ChildrenReclaimed`, `ServicesOutliveScheduler`, `NoStageRepeated`, `EndsTogether` | two supervisors, a news and a weekly stage, clock from a publication into the next day, retries after one tick, one fault: a supervisor that is killed and leaves its scheduler to the next, a stage left behind by its scheduler, the catch-up of a failed publication; processes are stopped as on Windows |
| memory_unsend, memory_session, assessment_stranded, equity_posix | one sentence of the documentation each, refuted | see section 4; equity_posix is the instance of equity with processes stopped as on POSIX |

Deadlock checking is off everywhere: when the clock has reached its bound and
every call has returned, the bounded system really stops; that nothing stops
before it should is stated by the liveness properties instead. Symmetry is used
where no liveness is checked: over workers and tokens in retrieval (tokens are
only compared for equality), over the threads in memory_retry (each is a process
of its own), over the ticks in schedule and over the calls in reconciler. Type
invariants and the one-step properties that are theorems anyway (`TypeOK` of every
module, `TerminalRunIsFree`, `AnsweredOnce`, `CompletedStaysCompleted`) are proved and not
run. memory_retry has `Followed = {}` because none of its properties looks at the
questions a session carries; the run about them is memory_session.

**Assumptions about time.** In retrieval, admission_race, memory_retry, schedule,
reconciler and equity the clock may advance at any point, also between a reading
and its use. In assessment a reading may be up to `Lag` old and a reported completion
up to `Skew` ahead; the instance takes 0 and 1 to stay small, while the theorems hold
for every value. `Punctual` (admission_kept only) makes predictions true: time stands
still while code has work to do and a running task ends within its prediction, or
within the preemption bound once cancelled. `AdmissionKept` is a statement about right
predictions and would be meaningless without it. Nothing is assumed about the pace
of an answer or of a compaction: a compaction waits in the admission queue without a
bound, so its lease does run out, and `OneAttempt`, `OneCompactor`, `HistoryNotSkipped` and
`DeliveredStaysDelivered` say what follows from that and what does not.

**Fairness.** admission_race: the worker is a daemon thread in a loop and callables end
(weak fairness of `WorkerStep`), a submitter that has read the clock gets the
lock (weak fairness of `Admit(t)`), and time passes; nobody is obliged to submit.
assessment: a producer's tick starts and goes on (`WF_batch(TickStep(p))`): the task
is registered to run at startup and every 15 minutes, to start when it was missed
and not to overlap itself. That is more than the code alone gives: a tick whose
preflight or schedule raises never gets to the production
(`scripts/run_single_track_v3_scheduler.py:242-250`), so `EveryCascadeProduced` is about a
schedule that succeeds again and again; workers, watchdogs and the reconciler owe nothing,
because nothing in the repository calls them periodically. equity: a supervisor
that starts or ends goes on (weak fairness of `StartStep \/ EndStep`): its waits
have timeouts, its loop polls every second. The memory, the scheduler tick's
declarations and the event reconciler have no liveness property: what follows the
reply is best effort, and the reconciler and the retrieval worker have no caller
but the tests.

**Mutants.** Each property of each passing run is paired with a change to one
mapped definition that a plausible mistake would make: an acquisition one tick
early, a release guarded by the wrong condition, a missing compare-and-swap, a
check of a deadline against the run limit only, a waiting set that includes
targets of other states, a batch that is dropped at its first failure, children
stopped in the order of their start, a range without its end. The mutated operators
stand in the modules directly above the definition they replace, and no other
definition uses them.

## 4. The findings

Four sentences of the repository are not what its code does. Each has a run that
finds the shortest behaviour.

1. *Unsend and summaries* (memory_unsend). The deployment guide promises that an
   unsend disables the summaries that cite the message. The rolling summary cites
   its last batch only but is written from its predecessor as well; an older
   message stays in.
2. *Unsend and sessions* (memory_session). The same guide says that an unsend
   suppresses the message, and the privacy notice that it is excluded from usable
   memory. The stored session is deleted only if the message is not older than the
   exchange that wrote it; otherwise the question stays among its recent questions.
   The session in the process is not touched, and a handler that has read either of
   them before the unsend writes the question into the next one. What does hold is
   `SessionAnswerLive`: the exchange that the stored session goes on from is live.
3. *A target that waits for nothing* (assessment_stranded). The contracts say that
   the seal of a content activates its waiting targets in the same transaction. A
   creation that read the content before that seal and inserts its row after it
   adds a target that waits for a content which is already complete: nothing
   activates, expires or repairs it.
4. *Stages left behind on POSIX* (equity_posix). The README says, for Windows and for
   Linux and macOS alike, that closing reclaims the child processes that were
   started. On POSIX the stop of the scheduler signals its process group
   (`equity/processes.py:33`), while its stages lead sessions of their own (`:16`) and the
   scheduler has no handler that would stop them: a stage works on after its
   supervisor and its scheduler have ended. The Windows branch (`taskkill /T`) keeps
   the promise, which is proved (`ChildrenReclaimedAlways`, under `TreeKill`).

Further observations, from the code and the models, which no run of this directory
claims as a finding:

* *Grace.* The idle-grace wait of background work (`model_admission_service.py:6`)
  ends at any notification, so a second background submission starts the first one
  at once.
* *Skipped history.* After an unsend disables a rolling summary, its other sources
  stay marked as summarized and no compaction reads them again.
* *Unsend and projection.* A projection read before an unsend and stored after it
  brings the removed exchange back.
* *Receipts.* A slow attempt that was taken over can mark a delivered event as failed;
  the next redelivery is answered again. `DeliveredStaysDelivered` says that only such
  an attempt, or a clear, can.
* *Lease of a process.* `release_compaction` deletes the lease by its owner, which is the
  process: a thread whose own lease has expired may release the one that another
  thread of its process took since, and a third thread may then compact beside it.
* *Skipped by an overlap.* Two compactions that overlap, because the model took longer
  than the lease, replace each other's rolling summary while both batches are
  marked as summarized. `HistoryNotSkipped` says that this and an unsend are the only
  ways to lose an exchange.
* *Retries.* An assessment retry that no longer fits before its deadline gets no
  `next_attempt_at`, which a dispatch reads as "at once". A stage of the equity
  scheduler that runs longer than the retry interval before it fails is retried at
  once too, because the interval counts from the start of the round.
* *Starvation.* As many outbox rows that cannot be produced as a batch holds are the
  oldest pending ones for ever. In the same way more unverified items than the
  reconciler's limit block every call until they expire.
* *Sentinels.* A quarter that a tick declared as skipped gets a second row from a tick
  after the next session has opened, since the target session is part of a run's
  identity; so does every slot after a new calendar revision.
* *Cutoffs.* No guard compares the cutoffs of successive event revisions: one for an
  earlier cutoff may be appended after one for a later cutoff, and then has an
  availability later than its own cutoff. `PointInTime` holds of what it adds.
* *Aborted stops.* A child that outlives its stop timeout ends the supervisor's loop,
  and the children started before it stay up; `ChildrenReclaimed` exempts this end.
* *Checkpoints.* A scheduler that ends between the end of a stage and its checkpoint
  runs the stage again. `NoStageRepeated` is about what the file shows.

## 5. The proofs

Eight modules (`RetrievalRunProofs`, `ModelAdmissionProofs`, `LineMemoryProofs`,
`AssessmentProofs`, `ArtifactProductionProofs`, `SchedulerTickProofs`,
`EventReconcilerProofs`, `EquityProofs`) prove, for every value of the constants that
satisfies the modules' named assumptions, what the runs check on small instances.
The clock bound is no restriction: the theorems hold for every `Horizon`. Every
safety property of a passing run, invariant or action property or refinement, is
stated by a theorem; liveness is not (see the end of this section). Theorems that
are conditional say so in their statement: `Punctual` and `TreeKill` are hypotheses of
those that need them, and of no others.

**RetrievalRun.** `TypeStep` proves the type invariant inductive. On top of it
stand two inductive strengthenings, each kept separate because different
theorems need different ones. `SealedOnce`, `TerminalRunIsFree` and `NoLeakedLease`
are inductive together with `TypeOK` alone: `OnlySealWrites` and `SealWrites` say
which action touches the verdict, outbox and receipt and how, and the
compare-and-swap in `MaySeal` does the rest, since only a running run is sealed
and a running run has no receipt. `ClockInv` (`seen[w] <= now`, and what a call
found was found no later than its reading) is what relates stale readings to
the real clock: a lease that is live by the clock is live by every reading, which
gives `NoStolenLease`; and an item that a call seals on time was first retrieved
by the cutoff, which gives `NoLookahead`, because `Recordable` refuses the seal when
another run recorded the item after this run's `completed_at`. `ContentNeverRestored`
and `StaleWorkerWritesNothing` are properties of single steps under the type
invariant. `LinksMatchReceipts` is inductive by itself, given that `SealWrites` and
`OnlySealWrites` name all that a sealing step adds to links and receipts: nobody
else writes either. `Refinement` maps `Seal` to the ledger's `Seal` and every other action to
a stutter; a claim stutters because `queued` and `running` both map to "open".

**ModelAdmission.** The inductive invariant is `TypeOK`, `NothingLost`,
`BackgroundToldToYield`, finiteness of the heap (needed for its cardinality) and
`HoldsOneTask`, which says when the worker has an active task and that it is not
on the heap. `AnsweredOnce` is then a property of each step: only the active
task's future is resolved, and `NothingLost` says that it was pending.

`AdmissionKept` is a schedulability argument. `Load(t)` is the sum of the predictions of
the queued interactive tasks that go before `t` and of `t` itself, `Remaining` what the
task in the worker's hands may still take, and `QueueInTime` says that `now +
Remaining + Load(t)` is less than the deadline of every promised `t`. That is what the
test in `submit` establishes for a new task; the test only looks ahead, though, and
what must be shown is that an admission does not break the promises behind it.
`AdmitKept` shows it from the other half of the test, which adds the newcomer to each
later deadline. A pop moves a prediction from `Load` to `Remaining` (`PopKept`), a
tick takes from `Remaining` what it adds to `now` (`TickKept`), which is where
`Punctual` enters: while the worker is idle the clock waits for it. `BackgroundToldToYield`
is needed too, because a running background task counts as the preemption bound only
once it was told to yield. `KeptInv` collects these facts (`FreshReading`, `NothingWaits`,
`WithinTime`, `ActiveInTime`, `QueueInTime`); TLC found it invariant on the instance of
admission_kept before it was proved. The sum is a fold, which is defined by recursion
over a `CHOOSE`: `SumEquation` and `SumTakesOut` are proved without an induction rule, by
a minimal counterexample in the well-founded order of the finite subsets
(`MinimalSubset`).

**LineMemory.** Typing needs one fact more than `TypeOK`: a handler that is at work
has an event (`HasEvent`). `OneRowPerEvent` follows because only `CommitExchange`
adds a row, and it does so only when no row of the event exists (`RowsKept`,
`CommitType`). `SessionAnswerLive` rests on the time stamps of the events
being different: an unsend ends every session at or after the stamp of its
exchange, and a session it leaves alone belongs to another one.
`NoSummaryOfForgotten` is the instructive one. The foreign keys check the batch of
a rolling summary, not the older summary its text also starts from (`base`), so
the property alone is not inductive. What makes it true is `BaseOutlivesBatch`:
while every member of the batch exists, every exchange behind the base does too,
because a clear removes all exchanges of the chat at once. It needs in turn that
the batch is never empty (`BatchIsRead`), which holds because an exchange that is
due for compaction includes a least one (`OldestIsThere`). The three together
(`SummaryInv`) are inductive over the type invariant.

The other four are about who may meet whom, and assume neither a pace nor a user.
`OneAttempt` is carried by `Reserved`: an attempt that still keeps others out has the
receipt of its event in processing, and that receipt turns stale at the very moment
the attempt loses it, so `reserve_event` refuses the event exactly as long. A clear
and a finished attempt take the receipt from everybody who answers the event, which
is what `held` records. The same fact turns the unconditional update of `finish_event` into
a safe one for everybody who still holds the event (`DeliveredStaysDelivered`), since the
receipt it overwrites is its own. `OneCompactor` is carried by `Leased`: a thread that
still keeps others out has the lease in its process's name and with its own expiry.
The code releases whatever lease is its process's; a thread of the same process that
still holds one loses it by that, and `held` says so. `HistoryNotSkipped` does not need
the lease at all: `Crowding` says that threads which compact at the same time are both
marked as crowded, and for a thread that is not, `BaseIsFresh` (the active rolling summary
has nothing that its base lacks) and `BatchIsMarked` (once it has stored the rolling
summary, its batch is marked) make a store of any topic skip nothing. Clears, failed
stores and crashes only remove exchanges or leave them unmarked.

**Assessment.** The inductive invariant joins the row types and the four safety
properties with four facts about what lies between two transactions. `OneActiveAttempt`
is the heart: an attempt in dispatch still owns its job, so every end of an attempt
finds the job as the attempt left it. `ReadingsStillTrue` is what makes the
two-statement creation of targets safe where it is safe: a content that was read
as complete or failed still is, with the same result, because final rows are never
touched; a content read as unfinished may have moved on, which is the third
finding. `CallersKnown` ties a late caller to an attempt that exists, and
`ContentsWaitForNothing` and `AbsentIsEmpty` keep the shared actions from mixing the
two kinds of jobs. `TypeCorrect` includes the schema's CHECK that a target with work
names a result, so no transaction of the model would be rolled back by it.
`Refinement` maps a terminal transition of a content to `Cascade`, the other outcomes
to `Decide`, creation to `Open` or `Block`, the reconciler to `Block`, and everything that
happens to attempts to a stutter.

**ArtifactProduction.** The run checks these properties in the composition with
artifact production, and the composition has theorems of its own. A step of the
production either leaves the variables of `Assessment` alone or changes the outbox row
of a content from pending to delivered, which no assessment reads
(`ProduceKeepsAssessments`); hence the invariant of the assessments and the four
properties carry over (`AssessmentsBesideProduction`), and so does the refinement
(`ProductionRefinement`). In the other direction an assessment step adds pending rows
and touches no delivered one (`AssessmentsOnlyAnnounce`), and a failed content stays
failed (`FailureIsFinal`, read off the abstract specification: the refinement is used
as a lemma). With both, `DeliveredOnce` is inductive together with the types
(`ProductionInv`), and `DeliveredForGood` is a property of each step.

**SchedulerTick.** `IInv` adds to the types and the three invariants what a tick holds
between its reads (`TicksOK`): its observation is not in the future, its revision was
visible then, a plan consists of rows of that revision which are timely, and every
identity of its windows is planned or already a run. `Grows` (runs, receipts and
calendar only grow) carries this over the steps of other ticks: what was there when
the plan was made is still there when it is written, and `Agrees` rolls back a plan
that another tick has overtaken with different rows. `RefusedOnlyOvertaken` is the
other half: `StillAlone` says of a tick that nobody has overtaken that nothing of its
plan is on record and its receipt is not written. It rests on `ReadsWhatItDeclares`,
that the window a tick reads covers all that its plan may declare, down to the
quarter in which the sentinel's audit begins; a bound that is off by one there would
let the tick collide with its own predecessor in every later attempt.

**EventReconciler.** `ReadsVisible` says that what a call holds was visible at its
cutoff, and stays true because the availability and the expiry of an item do not
change once it is there, although its key does. `CitedEarlier` (whatever a revision
cites is linked) together with the guard `MayLink` is why a batch never cites again
what the chain already has: members that are still unlinked are new, members linked meanwhile roll the
savepoint back unless they carry the very number the batch would write. From there
`EvidenceGrows`, `CitedAreLinked` and `RadarNeverPromotes` follow for the appended
revision, and untouched keys keep theirs. None of it says that an item's key
is still the key of its link, which is false once the item was retrieved for another
stock: what the invariant needs is that links are final (`LinksFinal`) and that a call
goes by the keys it read. `SealedForGood` is a property of `Commit`.

**Equity.** `ProcessOK` says of a scheduler in a round that its memory is the file:
nobody else writes it, since only the holder of the lock is alive (`Locked`, first half
of `OneStageAtATime`). Hence a stage it starts is not completed in the file either,
which is `NoStageRepeated`, and a checkpoint loses no completion. That pruning forgets
no stage that can be due again (`CompletedStaysCompleted`) is arithmetic on days: a
weekly publication is caught up for less than two weeks, and `SchedulerAssumption`
keeps records at least that long. `StagesAwaited` and `ChildrenReclaimed` hold under
`TreeKill`, which their theorems assume; `NothingRuns` relates the phases of a
supervisor to its children. `ServicesOutliveScheduler` is carried by `Ordered`: nothing is
stopped before the end begins, and no service while the scheduler is alive. It
holds on both platforms and for an end out of any phase of the start.

Not proved, and why: liveness (`EverySubmissionAnswered`, `EveryCascadeProduced`,
`EndsTogether`) needs fairness and enabledness, which the prover does not support;
these three are model-checked only. `TypeCorrect` of the composition with artifact production is part of `ProductionInv` and not stated apart.
The four refuted sentences of section 4 are about behaviours, and stay with TLC.

## 6. What is not modelled

* Retention of the memory: receipts expire after 24 hours, exchanges after their
  retention period, leases and projections are purged. The purge deletes rows
  nobody reads any more; a redelivery after 24 hours is answered again.
* The volatile fallback of the memory when its database is unavailable
  (`_volatile_sessions` and in-process receipts): deduplication then works within one
  process only. What else the session carries besides earlier questions, which
  follows the same way, and the limit on their number.
* Encryption of payloads, wording of answers, routing of questions, parsing of
  adapter payloads: data, not control.
* Artifact production beyond its outbox: the verification of the events behind a
  delta, the drafting of canonical artifacts, report release.
* The status `superseded` of assessments, which nothing in the repository sets; the
  promotion epoch, which moves only together with the state version; relations of
  the event classifier that need two items with one content hash or an event type
  that differs within one key.
* The market writer lock that the update scripts take among themselves, and what
  the children of the supervisor do.
* Adapters, LINE, the GPU model and the tunnel are external; the models see them
  through the outcomes their callers distinguish.
* Analysis, evaluation, outlook and market numerics, which are by far the largest
  part of the repository: floating point over tables of prices, sequential; real
  arithmetic is out of a model checker's reach.
* Web console, authentication, rate limits: one transaction per request.
* Portfolio confirmations and the shadow-model ledger: small sequential stores.
* Data update scripts: sequential programs, started by an operator or by the
  equity scheduler.

## 7. The plan

Done: `RunLedger` and `RetrievalRun`; `ModelAdmission`; `LineMemory`;
`AssessmentOutcome`, `Assessment` and `ArtifactProduction`; `SchedulerTick`;
`EventReconciler`; `EquityScheduler` and `EquitySupervisor`; proofs of each. Left, in
order of importance:

1. An abstract specification of the chat that survives unsends and clears (which
   exchanges exist, which may be remembered), implemented by `LineMemory` up to the
   two findings about unsends.
2. Composition of `LineMemory` with `ModelAdmission`: the compaction lease against
   the unbounded wait for maintenance work; and of `SchedulerTick`, `RetrievalRun` and
   `EventReconciler` through the run and item rows they share.
3. Portfolio confirmations and the shadow-model ledger.

## 8. Running

```
cd tla
tlc -workers 2 -config RetrievalRun_cutoffs.cfg MCRetrievalRun
tlc -workers 2 -config ModelAdmission_race.cfg MCModelAdmission
tlc -workers 2 -config LineMemory_retry.cfg MCLineMemory
tlc -workers 2 -config Assessment_production.cfg MCAssessment
tlc -workers 2 -config SchedulerTick_overlap.cfg MCSchedulerTick
tlc -workers 2 -config EventReconciler_overlap.cfg MCEventReconciler
tlc -workers 2 -config Equity_restart.cfg MCEquity
tlapm RetrievalRunProofs.tla
```

The other configurations belong to the module named in their file name, with the
prefix MC; the other proof modules are checked like the first. Each passing run
takes less than three minutes on two cores.
