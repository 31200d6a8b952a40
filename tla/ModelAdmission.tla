--------------------------- MODULE ModelAdmission ---------------------------
(***************************************************************************)
(* The single-process admission controller for the local GPU model.  Any   *)
(* thread may submit a task; one worker thread takes the first task of a   *)
(* heap ordered by priority, deadline and arrival and runs it to its end.  *)
(* Interactive LINE work has priority 0.  Shadow and maintenance work is   *)
(* background: it waits an idle grace before it starts and, when it was    *)
(* given a cancellable callable, is asked to yield once interactive work   *)
(* is admitted.  Each block under the condition's lock is one action.      *)
(***************************************************************************)
EXTENDS Integers, FiniteSets, Functions

CONSTANTS
  Tasks,        \* submissions
  Priority,     \* 0 interactive, 10 shadow, 20 maintenance
  Deadline,     \* the reply deadline of each task, or Never
  Never,        \* deadline_sort of a task without a deadline
  Predicted,    \* predicted_duration_ms of each task, 0 when unknown
  Preemptible,  \* the tasks that were given a cancellable callable
  QueueMax,     \* LINE_MODEL_GPU_QUEUE_MAX
  Grace,        \* LINE_MODEL_SHADOW_IDLE_GRACE_MS
  YieldTime,    \* LINE_MODEL_PREEMPTION_P95_MS
  Nobody,       \* no task
  Punctual,     \* see Tick
  Horizon       \* bound on the clock

ASSUME AdmissionAssumption ==
  /\ Priority \in [Tasks -> Nat]
  /\ Never \in Nat
  /\ Deadline \in [Tasks -> 0..Never]
  /\ Predicted \in [Tasks -> Nat]
  /\ Preemptible \subseteq {t \in Tasks : Priority[t] >= 10}
  /\ QueueMax \in Nat \ {0}
  /\ Grace \in Nat
  /\ YieldTime \in Nat
  /\ Nobody \notin Tasks
  /\ Punctual \in BOOLEAN
  /\ Horizon \in Nat

VARIABLES
  now,        \* time.monotonic()
  clocked,    \* per task: the submitter's clock reading (0 once used), or Unset
  future,     \* per task: "none", "pending", or how the submission ended
  queue,      \* the tasks on the heap
  order,      \* per queued task: its sequence number
  arrivals,   \* the next sequence number
  cancelled,  \* per task: when its cancel event was set, or Unset
  active,     \* the task the worker popped, or Nobody
  startedAt,  \* _active_started_at
  batch,      \* the worker's background_batch_active
  graceUntil, \* when the worker's idle-grace wait times out
  notified,   \* a notify_all came while the worker waits
  pc          \* where the worker thread is

submission == <<clocked, future, queue, order, arrivals, cancelled>>
worker == <<active, startedAt, batch, graceUntil, notified, pc>>
vars == <<now, submission, worker>>

Unset == -1
HasDeadline(t) == Deadline[t] < Never
Interactive == {t \in Tasks : Priority[t] = 0}
Background == {t \in Tasks : Priority[t] >= 10}
Rejections == {"expired", "predicted", "full", "reentry"}
Endings == {"result", "error", "preempted", "late"}

TypeOK ==
  /\ now \in Nat
  /\ clocked \in [Tasks -> Nat \cup {Unset}]
  /\ future \in [Tasks -> {"none", "pending"} \cup Rejections \cup Endings]
  /\ queue \in SUBSET Tasks
  /\ Cardinality(queue) <= QueueMax
  /\ order \in [Tasks -> Nat]
  /\ arrivals \in Nat
  /\ cancelled \in [Tasks -> Nat \cup {Unset}]
  /\ active \in Tasks \cup {Nobody}
  /\ startedAt \in Nat
  /\ batch \in BOOLEAN
  /\ graceUntil \in Nat
  /\ notified \in BOOLEAN
  /\ pc \in {"looping", "asleep", "grace", "checking", "running", "clearing"}

Init ==
  /\ now = 0
  /\ clocked = [t \in Tasks |-> Unset]
  /\ future = [t \in Tasks |-> "none"]
  /\ queue = {}
  /\ order = [t \in Tasks |-> 0]
  /\ arrivals = 0
  /\ cancelled = [t \in Tasks |-> Unset]
  /\ active = Nobody
  /\ startedAt = 0
  /\ batch = FALSE
  /\ graceUntil = 0
  /\ notified = FALSE
  /\ pc = "looping"

-----------------------------------------------------------------------------
(* Submission.  The clock is read before the lock is taken; a deadline     *)
(* already behind it ends the submission without touching the controller.  *)
Arrive(t) ==
  /\ future[t] = "none"
  /\ clocked[t] = Unset
  /\ clocked' = [clocked EXCEPT ![t] = now]
  /\ future' = [future EXCEPT ![t] = IF HasDeadline(t) /\ Deadline[t] <= now
                                       THEN "expired" ELSE "none"]
  /\ UNCHANGED <<now, queue, order, arrivals, cancelled, worker>>

PosPart(n) == IF n > 0 THEN n ELSE 0

(* What the active task is expected to take from the submitter's reading.  *)
ActiveRemaining(t) ==
  CASE active = Nobody -> 0
    [] active \in Preemptible -> YieldTime
    [] OTHER -> IF Predicted[active] = 0 THEN 0
                ELSE PosPart(Predicted[active] - PosPart(clocked[t] - startedAt))

QueuedAhead == SumFunctionOnSet(Predicted, queue \cap Interactive)

PredictedFinish(t) ==
  clocked[t] + ActiveRemaining(t) + QueuedAhead + Predicted[t]

PredictedToMissLate(t) ==
  /\ t \in Interactive
  /\ HasDeadline(t)
  /\ Predicted[t] > 0
  /\ PredictedFinish(t) > Deadline[t]

PredictedToMiss(t) ==
  /\ t \in Interactive
  /\ HasDeadline(t)
  /\ Predicted[t] > 0
  /\ PredictedFinish(t) >= Deadline[t]

(* Interactive work sets the cancel event of an active task that has one.  *)
AskActiveToYield(t) ==
  cancelled' = IF t \in Interactive /\ active \in Preemptible
               THEN [cancelled EXCEPT ![active] = IF @ = Unset THEN now ELSE @]
               ELSE cancelled

Full == Cardinality(queue) >= QueueMax

NotifiesNobody == FALSE

(* notify_all reaches the worker only while it waits.                      *)
Notifies == pc \in {"asleep", "grace"}

AdmitBeforeLimit(t) ==
  /\ future[t] = "none"
  /\ clocked[t] # Unset
  /\ ~PredictedToMiss(t)
  /\ future' = [future EXCEPT ![t] = IF Full THEN "full" ELSE "pending"]
  /\ AskActiveToYield(t)
  /\ queue' = queue \cup {t}
  /\ order' = [order EXCEPT ![t] = arrivals]
  /\ arrivals' = arrivals + 1
  /\ notified' = Notifies
  /\ clocked' = [clocked EXCEPT ![t] = 0]
  /\ UNCHANGED <<now, active, startedAt, batch, graceUntil, pc>>

(* The block of submit under the lock.  A task predicted to miss leaves    *)
(* everything alone; one that meets a full queue has asked the active task *)
(* to yield by then.                                                       *)
Admit(t) ==
  /\ future[t] = "none"
  /\ clocked[t] # Unset
  /\ \/ /\ PredictedToMiss(t)
        /\ future' = [future EXCEPT ![t] = "predicted"]
        /\ UNCHANGED <<queue, order, arrivals, cancelled, notified>>
     \/ /\ ~PredictedToMiss(t)
        /\ Full
        /\ future' = [future EXCEPT ![t] = "full"]
        /\ AskActiveToYield(t)
        /\ UNCHANGED <<queue, order, arrivals, notified>>
     \/ /\ ~PredictedToMiss(t)
        /\ ~Full
        /\ future' = [future EXCEPT ![t] = "pending"]
        /\ AskActiveToYield(t)
        /\ queue' = queue \cup {t}
        /\ order' = [order EXCEPT ![t] = arrivals]
        /\ arrivals' = arrivals + 1
        /\ notified' = Notifies
  /\ clocked' = [clocked EXCEPT ![t] = 0]
  /\ UNCHANGED <<now, active, startedAt, batch, graceUntil, pc>>

(* A submission from the worker thread itself (the running callable, its   *)
(* on_start, or a callback of a future just resolved) raises at once.      *)
Reenter(t) ==
  /\ pc \in {"running", "clearing"}
  /\ future[t] = "none"
  /\ clocked[t] = Unset
  /\ future' = [future EXCEPT ![t] = "reentry"]
  /\ UNCHANGED <<now, clocked, queue, order, arrivals, cancelled, worker>>

-----------------------------------------------------------------------------
(* The worker.  Outranks is the field order of _QueuedTask.                *)
Outranks(t, u) ==
  \/ Priority[t] < Priority[u]
  \/ Priority[t] = Priority[u] /\ Deadline[t] < Deadline[u]
  \/ Priority[t] = Priority[u] /\ Deadline[t] = Deadline[u] /\ order[t] < order[u]

IsHead(t) == t \in queue /\ \A u \in queue : ~Outranks(u, t)

(* The worker sees the heap at the top of its loop or after its wait.      *)
Awake == pc = "looping" \/ (pc = "asleep" /\ notified)

(* An empty queue ends the background batch and the worker waits.          *)
Rest ==
  /\ Awake
  /\ queue = {}
  /\ batch' = FALSE
  /\ notified' = FALSE
  /\ pc' = "asleep"
  /\ UNCHANGED <<now, submission, active, startedAt, graceUntil>>

Pop(t) ==
  /\ queue' = queue \ {t}
  /\ active' = t
  /\ startedAt' = now
  /\ batch' = (t \in Background)
  /\ order' = [order EXCEPT ![t] = 0]
  /\ graceUntil' = 0
  /\ notified' = FALSE
  /\ pc' = "checking"
  /\ UNCHANGED <<now, clocked, future, arrivals, cancelled>>

NeedsGrace(t) == t \in Background /\ ~batch /\ Grace > 0

Take(t) ==
  /\ Awake
  /\ IsHead(t)
  /\ ~NeedsGrace(t)
  /\ Pop(t)

(* The first background task of a batch waits for the idle grace, or for   *)
(* the next notify_all, whichever comes first.                             *)
StartGrace(t) ==
  /\ Awake
  /\ IsHead(t)
  /\ NeedsGrace(t)
  /\ graceUntil' = now + Grace
  /\ notified' = FALSE
  /\ pc' = "grace"
  /\ UNCHANGED <<now, submission, active, startedAt, batch>>

EndGraceWithOldHead(t) ==
  /\ pc = "grace"
  /\ notified \/ now >= graceUntil
  /\ t \in queue \cap Background
  /\ Pop(t)

(* After the wait the head of the heap is read again.                      *)
EndGrace(t) ==
  /\ pc = "grace"
  /\ notified \/ now >= graceUntil
  /\ IsHead(t)
  /\ Pop(t)

(* The deadline is checked once more outside the lock.                     *)
CheckDeadline ==
  /\ pc = "checking"
  /\ IF HasDeadline(active) /\ now >= Deadline[active]
     THEN /\ future' = [future EXCEPT ![active] = "late"]
          /\ pc' = "clearing"
     ELSE /\ pc' = "running"
          /\ UNCHANGED future
  /\ UNCHANGED <<now, clocked, queue, order, arrivals, cancelled,
                 active, startedAt, batch, graceUntil, notified>>

(* on_start and the callable end with a value or any exception; only a     *)
(* task whose cancel event is set reports that it yielded.                 *)
Complete ==
  /\ pc = "running"
  /\ \E ending \in {"result", "error", "preempted"} :
       /\ ending = "preempted" => cancelled[active] # Unset
       /\ future' = [future EXCEPT ![active] = ending]
  /\ pc' = "clearing"
  /\ UNCHANGED <<now, clocked, queue, order, arrivals, cancelled,
                 active, startedAt, batch, graceUntil, notified>>

(* The active fields are cleared under the lock.                           *)
Clear ==
  /\ pc = "clearing"
  /\ active' = Nobody
  /\ startedAt' = 0
  /\ pc' = "looping"
  /\ UNCHANGED <<now, submission, batch, graceUntil, notified>>

WorkerStep ==
  \/ Rest
  \/ \E t \in Tasks : Take(t) \/ StartGrace(t) \/ EndGrace(t)
  \/ CheckDeadline
  \/ Complete
  \/ Clear

-----------------------------------------------------------------------------
(* When Punctual, predictions are right and code takes no time: the clock  *)
(* stands still while a submitter or the worker has something to do, and   *)
(* the running task ends within its prediction or, once cancelled, within  *)
(* YieldTime.  Otherwise the clock may advance at any point.               *)
WithinPrediction ==
  IF active \in Preemptible
  THEN cancelled[active] = Unset \/ now < cancelled[active] + YieldTime
  ELSE now < startedAt + Predicted[active]

Settled ==
  /\ \A t \in Tasks : clocked[t] # Unset => future[t] # "none"
  /\ \/ pc = "asleep" /\ ~notified
     \/ pc = "grace" /\ ~notified /\ now < graceUntil
     \/ pc = "running" /\ WithinPrediction

(* Past the horizon the clock only runs to the end of a grace.             *)
Tick ==
  /\ now < Horizon \/ (pc = "grace" /\ now < graceUntil)
  /\ Punctual => Settled
  /\ now' = now + 1
  /\ UNCHANGED <<submission, worker>>

Next ==
  \/ Tick
  \/ WorkerStep
  \/ \E t \in Tasks : Arrive(t) \/ Admit(t) \/ Reenter(t)

Spec == Init /\ [][Next]_vars

(* The worker thread runs, callables end, a submitter that read the clock  *)
(* gets the lock, and time passes.  Nobody has to submit.                  *)
FairSpec ==
  /\ Spec
  /\ WF_vars(WorkerStep)
  /\ WF_vars(Tick)
  /\ \A t \in Tasks : WF_vars(Admit(t))

-----------------------------------------------------------------------------
(* A future is unresolved exactly while its task is on the heap or in the  *)
(* worker's hands: no submission is lost, and none stays queued after its  *)
(* caller was answered.                                                    *)
NothingLost ==
  \A t \in Tasks :
    future[t] = "pending" <=>
      t \in queue \/ (t = active /\ pc \in {"checking", "running"})

(* Interactive work never waits behind a cancellable background task that  *)
(* has not been told to yield, also when it arrived during the idle grace. *)
BackgroundToldToYield ==
  queue \cap Interactive # {} /\ active \in Preemptible /\ pc # "clearing"
  => cancelled[active] # Unset

(* When predictions hold, interactive work admitted with a prediction is   *)
(* answered before its deadline, whatever is admitted behind or ahead of   *)
(* it later: the test `predicted_finish >= deadline_monotonic` is enough.  *)
AdmissionKept ==
  \A t \in Interactive :
    future[t] = "pending" /\ HasDeadline(t) /\ Predicted[t] > 0
    => now < Deadline[t]

(* A caller is answered once: the future of a submission that ended never  *)
(* changes again (a second set_result would kill the worker thread).       *)
AnsweredOnce ==
  [][\A t \in Tasks : future[t] \in Rejections \cup Endings
                      => future'[t] = future[t]]_vars

(* Every submission is answered: no wakeup is lost, and no reentry waits   *)
(* for the worker that it occupies.                                        *)
EverySubmissionAnswered ==
  \A t \in Tasks :
    clocked[t] # Unset ~> future[t] \in Rejections \cup Endings
=============================================================================
