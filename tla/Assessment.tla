----------------------------- MODULE Assessment -----------------------------
(***************************************************************************)
(* Content and target assessments of Single-Track V3: the durable jobs     *)
(* whose attempts are calls of a language model.  A content is assessed    *)
(* once; the targets that depend on it wait for it, and are activated or   *)
(* blocked by the transaction that decides it.  Workers, supervisors and   *)
(* watchdogs are separate processes on one SQLite file.  Every released    *)
(* outermost savepoint commits, so each of them is one action; a reading   *)
(* of a clock or of another row made before it is an earlier step or a     *)
(* value that may be stale.  Rows are confirmed by compare-and-swap on     *)
(* state_version, status and active attempt.  promotion_epoch moves only   *)
(* together with state_version and is not a variable of its own.           *)
(***************************************************************************)
EXTENDS Integers, FiniteSets

CONSTANTS
  Contents,    \* content_assessment identities
  Targets,     \* target_impact_assessment identities
  ContentOf,   \* content_assessment_id of each target
  MaxAttempts, \* attempts a job may consume (4)
  RunLimit,    \* longest model call (300 seconds)
  Delay,       \* wait after the n-th failure, jitter included (1/5/15 minutes)
  Predicted,   \* predicted_runtime_seconds of a retry
  Eligible,    \* content_eligible_at, resolution_eligible_at
  Deadline,    \* recovery deadline; for a target the earlier of it and the issue deadline
  Lag,         \* how old a clock reading can be when it is used
  Skew,        \* how far ahead of the database clock a caller's completed_at can be
  Horizon      \* bound on the clock

Jobs == Contents \cup Targets
Numbers == 1..MaxAttempts

ASSUME AssessmentAssumption ==
  /\ Contents \cap Targets = {}
  /\ ContentOf \in [Targets -> Contents]
  /\ MaxAttempts \in Nat \ {0}
  /\ RunLimit \in Nat /\ Predicted \in Nat /\ Lag \in Nat /\ Skew \in Nat
  /\ Horizon \in Nat
  /\ Delay \in [Numbers -> Nat]
  /\ Eligible \in [Jobs -> Nat] /\ Deadline \in [Jobs -> Nat]

VARIABLES
  now,      \* the database clock
  job,      \* rows of content_assessment and target_impact_assessment
  attempt,  \* their attempt rows, by attempt_no
  worker,   \* what the caller of each attempt is doing
  reading,  \* content row seen by a create_target_impact_assessment under way
  outbox,   \* CONTENT_TERMINAL_CASCADE rows, deduplicated per content
  since     \* their available_at

records == <<job, attempt, worker>>
vars == <<now, records, reading, outbox, since>>

NoTime == -1
Final == {"complete", "failed_terminal", "blocked_dependency_terminal"}
Dispatchable == {"queued", "retry_wait"}
JobStatus == Final \cup Dispatchable \cup {"absent", "waiting_for_content", "dispatching"}
FailureClass == {"timeout", "deadline_elapsed", "permanent", "retryable"}
AttemptStatus == {"none", "dispatching", "succeeded", "retryable_failure", "timed_out",
                  "permanent_failure", "stale_completion"}

JobRow == [status : JobStatus, version : Nat, active : Numbers \cup {0},
           count : Numbers \cup {0}, next : Nat \cup {NoTime},
           result : Numbers \cup {0}, basis : Numbers \cup {0}]
AttemptRow == [status : AttemptStatus, started : Nat, hard : Nat,
               class : FailureClass \cup {"none"}, completed : Nat \cup {NoTime},
               sealed : Nat \cup {NoTime}, expected : Nat]
NoJob == [status |-> "absent", version |-> 0, active |-> 0, count |-> 0,
          next |-> NoTime, result |-> 0, basis |-> 0]
NoAttempt == [status |-> "none", started |-> 0, hard |-> 0, class |-> "none",
              completed |-> NoTime, sealed |-> NoTime, expected |-> 0]
Unread == [status |-> "unread", result |-> 0]

RowsTyped ==
  /\ now \in Nat
  /\ job \in [Jobs -> JobRow]
  /\ attempt \in [Jobs -> [Numbers -> AttemptRow]]
  /\ worker \in [Jobs -> [Numbers -> {"none", "calling", "marking", "gone"}]]
  /\ reading \in [Targets -> [status : JobStatus \cup {"unread"}, result : Numbers \cup {0}]]
  /\ outbox \in [Contents -> {"absent", "pending", "delivered"}]
  /\ since \in [Contents -> Nat]

(* The rows have their types, and the CHECK that a target with work or a   *)
(* result names a result of its content never rolls a transaction back.    *)
TypeOK ==
  /\ RowsTyped
  /\ \A t \in Targets : job[t].basis = 0 =>
       job[t].status \in {"absent", "waiting_for_content", "blocked_dependency_terminal"}

Init ==
  /\ now = 0
  /\ job = [j \in Jobs |-> NoJob]
  /\ attempt = [j \in Jobs |-> [n \in Numbers |-> NoAttempt]]
  /\ worker = [j \in Jobs |-> [n \in Numbers |-> "none"]]
  /\ reading = [t \in Targets |-> Unread]
  /\ outbox = [c \in Contents |-> "absent"]
  /\ since = [c \in Contents |-> 0]

(* What a process that has read the clock a while ago may hold.            *)
Readings == {t \in 0..now : now <= t + Lag}

(* The completed_at a caller may claim: by its own clock, unchecked.       *)
Completions == 0..(now + Skew)

Earlier(a, b) == IF a <= b THEN a ELSE b

-----------------------------------------------------------------------------
(* Creation.  The content row is read by one statement and the target row  *)
(* inserted by another; whatever happens in between is not noticed.        *)

CreateContent(c) ==
  /\ job[c].status = "absent"
  /\ job' = [job EXCEPT ![c].status = "queued"]
  /\ UNCHANGED <<now, attempt, worker, reading, outbox, since>>

ReadContent(t) ==
  /\ job[t].status = "absent"
  /\ job[ContentOf[t]].status # "absent"
  /\ reading' = [reading EXCEPT ![t] = [status |-> job[ContentOf[t]].status,
                                        result |-> job[ContentOf[t]].result]]
  /\ UNCHANGED <<now, records, outbox, since>>

FirstStatusEager(seen) ==
  IF seen = "failed_terminal" THEN "blocked_dependency_terminal" ELSE "queued"

FirstStatus(seen) ==
  IF seen = "complete" THEN "queued"
  ELSE IF seen = "failed_terminal" THEN "blocked_dependency_terminal"
  ELSE "waiting_for_content"

InsertTarget(t) ==
  /\ job[t].status = "absent"
  /\ reading[t] # Unread
  /\ job' = [job EXCEPT ![t] = [NoJob EXCEPT !.status = FirstStatus(reading[t].status),
                                             !.basis = reading[t].result]]
  /\ reading' = [reading EXCEPT ![t] = Unread]
  /\ UNCHANGED <<now, attempt, worker, outbox, since>>

-----------------------------------------------------------------------------
(* Dispatch consumes one attempt.  Whether the caller asks it to repair a  *)
(* contract, which it may once, changes nothing else and is left out.      *)

RunsUntil(j, d) == Earlier(d + RunLimit, Deadline[j])

MayDispatchAgain(j, d) ==
  job[j].next <= d /\ job[j].count < MaxAttempts /\ Eligible[j] <= d /\ d < Deadline[j]

MayDispatch(j, d) ==
  /\ job[j].status \in Dispatchable
  /\ job[j].next <= d
  /\ job[j].count < MaxAttempts
  /\ Eligible[j] <= d /\ d < Deadline[j]

Dispatched(row) ==
  [row EXCEPT !.status = "dispatching", !.active = row.count + 1, !.count = @ + 1,
              !.next = NoTime, !.version = @ + 1]

NewAttempt(j, d) ==
  [NoAttempt EXCEPT !.status = "dispatching", !.started = d, !.hard = RunsUntil(j, d),
                    !.expected = job[j].version + 1]

Dispatch(j, d) ==
  LET n == job[j].count + 1 IN
  /\ MayDispatch(j, d)
  /\ job' = [job EXCEPT ![j] = Dispatched(@)]
  /\ attempt' = [attempt EXCEPT ![j][n] = NewAttempt(j, d)]
  /\ worker' = [worker EXCEPT ![j][n] = "calling"]
  /\ UNCHANGED <<now, reading, outbox, since>>

(* The compare-and-swap of every transition that ends an attempt.          *)
Owns(j, n) ==
  /\ job[j].status = "dispatching"
  /\ job[j].active = n
  /\ job[j].version = attempt[j][n].expected

-----------------------------------------------------------------------------
(* The terminal transition of a job; of a content, it blocks the waiting   *)
(* targets and enqueues one announcement in the same savepoint.            *)

Waiters(c) ==
  {t \in Targets : /\ ContentOf[t] = c
                   /\ job[t].status = "waiting_for_content" /\ job[t].count = 0}

Ended(row, status) ==
  [row EXCEPT !.status = status, !.active = 0, !.next = NoTime, !.version = @ + 1]

Terminalized(j) ==
  [k \in Jobs |-> IF k = j THEN Ended(job[k], "failed_terminal")
                  ELSE IF k \in Waiters(j) THEN Ended(job[k], "blocked_dependency_terminal")
                  ELSE job[k]]

AnnounceNothing(j, t) == UNCHANGED <<outbox, since>>

Announce(j, t) ==
  IF j \in Contents /\ outbox[j] = "absent"
  THEN /\ outbox' = [outbox EXCEPT ![j] = "pending"]
       /\ since' = [since EXCEPT ![j] = t]
  ELSE UNCHANGED <<outbox, since>>

-----------------------------------------------------------------------------
(* Failure of an attempt, recorded at the clock reading t.  completed_at   *)
(* is kept for sealed results only: elsewhere it is audit data.            *)

StatusOfFailure(class) ==
  CASE class \in {"timeout", "deadline_elapsed"} -> "timed_out"
    [] class = "permanent" -> "permanent_failure"
    [] class = "retryable" -> "retryable_failure"

Fatal(j, n, class, t) ==
  \/ class \in {"deadline_elapsed", "permanent"}
  \/ n >= MaxAttempts
  \/ t >= Deadline[j]

RetryAt(j, n, t) ==
  IF t + Delay[n] + Predicted > Deadline[j] THEN NoTime ELSE t + Delay[n]

Retrying(row, at) ==
  [row EXCEPT !.status = "retry_wait", !.active = 0, !.next = at, !.version = @ + 1]

Failed(row, class) == [row EXCEPT !.status = StatusOfFailure(class), !.class = class]

MayFail(j, n, class, t) ==
  /\ attempt[j][n].status = "dispatching"
  /\ attempt[j][n].started <= t
  /\ class = "timeout" => t >= attempt[j][n].hard
  /\ Owns(j, n)

Fail(j, n, class, t) ==
  /\ MayFail(j, n, class, t)
  /\ attempt' = [attempt EXCEPT ![j][n] = Failed(@, class)]
  /\ IF Fatal(j, n, class, t)
     THEN job' = Terminalized(j) /\ Announce(j, t)
     ELSE /\ job' = [job EXCEPT ![j] = Retrying(@, RetryAt(j, n, t))]
          /\ UNCHANGED <<outbox, since>>

(* The worker itself, or a supervisor that takes it for lost, reports a    *)
(* failure; a worker taken for lost may still come back with a result.     *)
ReportFailure(j, n, class, t) ==
  /\ job[j].status \notin Final
  /\ Fail(j, n, class, t)
  /\ UNCHANGED <<now, worker, reading>>

WorkerGone(j, n) ==
  /\ worker[j][n] \in {"calling", "marking"}
  /\ worker' = [worker EXCEPT ![j][n] = "gone"]
  /\ UNCHANGED <<now, job, attempt, reading, outbox, since>>

-----------------------------------------------------------------------------
(* Sealing a result that its caller calls completed at k, by a clock that  *)
(* need not agree with the database clock, which says t.  The field sealed *)
(* is not in the table: it keeps t for the properties.                     *)

Stale(row) == [row EXCEPT !.status = IF @ = "succeeded" THEN @ ELSE "stale_completion"]

MarkStale(j, n) == attempt' = [attempt EXCEPT ![j][n] = Stale(@)]

Calling(j, n) == worker[j][n] = "calling" /\ attempt[j][n].status # "succeeded"

TooLateByRun(j, n, k, t) == k > attempt[j][n].hard

TooLate(j, n, k, t) == k > attempt[j][n].hard \/ t >= Deadline[j]

ClassOfLate(j, n, k) == IF k > attempt[j][n].hard THEN "timeout" ELSE "deadline_elapsed"

(* record_*_attempt_failure returns without a change: the job has an       *)
(* outcome, or this very failure is already recorded.  It raises when the  *)
(* attempt already carries another one, and then the call leaves no trace. *)
AlreadySettled(j, n, class) ==
  \/ job[j].status \in {"complete", "blocked_dependency_terminal"}
  \/ job[j].status = "failed_terminal" /\ attempt[j][n].class \in {"none", class}
  \/ /\ job[j].status \notin Final
     /\ attempt[j][n].status # "dispatching" /\ attempt[j][n].class = class

(* The failure commits in its own savepoint, the audit mark after it.  A   *)
(* result that calls itself late before the database clock says so raises. *)
SealLate(j, n, k, t) ==
  LET class == ClassOfLate(j, n, k) IN
  /\ Calling(j, n)
  /\ TooLate(j, n, k, t)
  /\ k > attempt[j][n].hard => t >= attempt[j][n].hard
  /\ \/ /\ job[j].status \notin Final
        /\ Fail(j, n, class, t)
        /\ worker' = [worker EXCEPT ![j][n] = "marking"]
     \/ /\ AlreadySettled(j, n, class)
        /\ MarkStale(j, n)
        /\ worker' = [worker EXCEPT ![j][n] = "gone"]
        /\ UNCHANGED <<job, outbox, since>>
  /\ UNCHANGED <<now, reading>>

MarkLate(j, n) ==
  /\ worker[j][n] = "marking"
  /\ MarkStale(j, n)
  /\ worker' = [worker EXCEPT ![j][n] = "gone"]
  /\ UNCHANGED <<now, job, reading, outbox, since>>

Completed(row, n) ==
  [row EXCEPT !.status = "complete", !.result = n, !.active = 0, !.next = NoTime,
              !.version = @ + 1]

Activated(row, result) ==
  [row EXCEPT !.status = "queued", !.basis = result, !.version = @ + 1]

(* Success: of a content, it activates the targets that wait for it.       *)
Sealed(j, n) ==
  [k \in Jobs |-> IF k = j THEN Completed(job[k], n)
                  ELSE IF k \in Waiters(j) THEN Activated(job[k], n)
                  ELSE job[k]]

Succeeded(row, k, t) ==
  [row EXCEPT !.status = "succeeded", !.completed = k, !.sealed = t]

SealWins(j, n, k, t) ==
  /\ Calling(j, n)
  /\ ~TooLate(j, n, k, t)
  /\ Owns(j, n)
  /\ attempt[j][n].status = "dispatching"
  /\ job' = Sealed(j, n)
  /\ attempt' = [attempt EXCEPT ![j][n] = Succeeded(@, k, t)]
  /\ worker' = [worker EXCEPT ![j][n] = "gone"]
  /\ UNCHANGED <<now, reading, outbox, since>>

(* The compare-and-swap is lost: the result is kept for audit only.        *)
SealLoses(j, n, k, t) ==
  /\ Calling(j, n)
  /\ ~TooLate(j, n, k, t)
  /\ ~Owns(j, n)
  /\ MarkStale(j, n)
  /\ worker' = [worker EXCEPT ![j][n] = "gone"]
  /\ UNCHANGED <<now, job, reading, outbox, since>>

-----------------------------------------------------------------------------
(* Watchdogs end expired jobs that nobody is working on; the reconciler    *)
(* blocks the targets a failed content has left waiting.                   *)

Expire(j, t) ==
  /\ job[j].status \in Dispatchable
  /\ job[j].active = 0
  /\ t >= Deadline[j]
  /\ job' = Terminalized(j)
  /\ Announce(j, t)
  /\ UNCHANGED <<now, attempt, worker, reading>>

StrandedByStatus == {t \in Targets : job[t].status = "waiting_for_content"}

Stranded == {t \in Targets : /\ job[t].status = "waiting_for_content"
                             /\ job[ContentOf[t]].status = "failed_terminal"}

Reconcile ==
  /\ Stranded # {}
  /\ job' = [k \in Jobs |-> IF k \in Stranded /\ job[k].count = 0
                            THEN Ended(job[k], "blocked_dependency_terminal") ELSE job[k]]
  /\ UNCHANGED <<now, attempt, worker, reading, outbox, since>>

Tick ==
  /\ now < Horizon
  /\ now' = now + 1
  /\ UNCHANGED <<records, reading, outbox, since>>

AttemptStep(j, n) ==
  \/ WorkerGone(j, n) \/ MarkLate(j, n)
  \/ \E t \in Readings, class \in FailureClass : ReportFailure(j, n, class, t)
  \/ \E t \in Readings, k \in Completions :
       SealLate(j, n, k, t) \/ SealWins(j, n, k, t) \/ SealLoses(j, n, k, t)

JobStep(j) ==
  \/ \E d \in Readings : Dispatch(j, d)
  \/ \E t \in Readings : Expire(j, t)
  \/ \E n \in Numbers : AttemptStep(j, n)

Next ==
  \/ \E c \in Contents : CreateContent(c)
  \/ \E t \in Targets : ReadContent(t) \/ InsertTarget(t)
  \/ \E j \in Jobs : JobStep(j)
  \/ Reconcile \/ Tick

Spec == Init /\ [][Next]_vars

-----------------------------------------------------------------------------
(* What the tables must never show, whatever workers, supervisors and      *)
(* watchdogs do, and whenever.                                             *)

(* A job is in flight with exactly one attempt, the last one it consumed,  *)
(* and that attempt can still win its compare-and-swap: no interleaving of *)
(* failures, seals and watchdogs strands a job in dispatching.             *)
OneActiveAttempt ==
  \A j \in Jobs :
    /\ job[j].status = "dispatching" <=> job[j].active # 0
    /\ job[j].active # 0 => job[j].active = job[j].count
    /\ \A n \in Numbers :
         /\ attempt[j][n].status = "none" <=> n > job[j].count
         /\ attempt[j][n].status = "dispatching" <=> job[j].active = n
         /\ attempt[j][n].status = "dispatching" => Owns(j, n)

(* A target gets work or a result only on the basis of the result its      *)
(* content was sealed with, and is blocked only when the content failed,   *)
(* however its creation races with the end of the content.                 *)
GatedByContent ==
  \A t \in Targets :
    LET content == job[ContentOf[t]] IN
    /\ job[t].status \notin {"absent", "waiting_for_content", "blocked_dependency_terminal"} =>
         content.status = "complete" /\ job[t].basis = content.result
    /\ job[t].status = "blocked_dependency_terminal" => content.status = "failed_terminal"
    /\ job[t].status \in {"waiting_for_content", "blocked_dependency_terminal"} =>
         job[t].count = 0

(* A job is complete with the result of one succeeded attempt, completed   *)
(* inside its run limit and sealed before the deadline of the job by the   *)
(* database clock, whatever the clocks of the callers say: a late or       *)
(* superseded call leaves no result behind.                                *)
SealedInTime ==
  \A j \in Jobs :
    /\ job[j].status = "complete" <=> job[j].result # 0
    /\ \A n \in Numbers :
         /\ attempt[j][n].status = "succeeded" <=> job[j].result = n
         /\ attempt[j][n].status = "succeeded" =>
              /\ attempt[j][n].completed \in 0..attempt[j][n].hard
              /\ attempt[j][n].sealed \in 0..(Deadline[j] - 1)

(* The failure of a content and its announcement are one fact.             *)
TerminalAnnounced ==
  \A c \in Contents : outbox[c] # "absent" <=> job[c].status = "failed_terminal"

(* The abstract specification: waiting, attempts and retries disappear.    *)
OutcomeOf(status) ==
  CASE status = "absent" -> "absent"
    [] status = "complete" -> "complete"
    [] status = "failed_terminal" -> "failed"
    [] status = "blocked_dependency_terminal" -> "blocked"
    [] OTHER -> "open"

Outcomes == INSTANCE AssessmentOutcome WITH
  outcome <- [j \in Jobs |-> OutcomeOf(job[j].status)],
  announced <- {c \in Contents : outbox[c] # "absent"}

(* Whatever happens to attempts, a job gets at most one outcome and keeps  *)
(* it, and a content fails together with the targets that wait for it and  *)
(* its announcement.                                                       *)
ImplementsOutcome == Outcomes!Spec

(* "A content success CAS ... activates its waiting targets in the same    *)
(* transaction": no target waits for a content that is complete.           *)
WaitingFollowsContent ==
  \A t \in Targets :
    job[t].status = "waiting_for_content" => job[ContentOf[t]].status # "complete"
=============================================================================
