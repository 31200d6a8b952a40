--------------------------- MODULE AssessmentProofs ---------------------------
(***************************************************************************)
(* Machine-checked proofs about Assessment, for every set of contents and  *)
(* targets, every bound on attempts and every choice of times and delays.  *)
(***************************************************************************)
EXTENDS Assessment, TLAPS

(* Waiting and being blocked are states of targets.                        *)
ContentsWaitForNothing ==
  \A c \in Contents : job[c].status \notin {"waiting_for_content", "blocked_dependency_terminal"}

(* A content row that a creation has read as final still says the same.    *)
ReadingsStillTrue ==
  \A t \in Targets :
    LET content == job[ContentOf[t]] IN
    /\ reading[t].status = "complete" =>
         content.status = "complete" /\ reading[t].result = content.result
    /\ reading[t].status = "failed_terminal" => content.status = "failed_terminal"

(* A caller works on an attempt that exists, and marks one that is over.   *)
CallersKnown ==
  \A j \in Jobs, n \in Numbers :
    /\ worker[j][n] \in {"calling", "marking"} => attempt[j][n].status # "none"
    /\ worker[j][n] = "marking" => attempt[j][n].status # "dispatching"

(* A row that is not there yet is empty.                                   *)
AbsentIsEmpty == \A j \in Jobs : job[j].status = "absent" => job[j] = NoJob

IInv ==
  /\ RowsTyped
  /\ AbsentIsEmpty
  /\ ContentsWaitForNothing
  /\ OneActiveAttempt
  /\ SealedInTime
  /\ GatedByContent
  /\ ReadingsStillTrue
  /\ CallersKnown
  /\ TerminalAnnounced

-----------------------------------------------------------------------------
(* What the operators of the model return.                                 *)

LEMMA JobsAreContentsOrTargets ==
  /\ Contents \subseteq Jobs /\ Targets \subseteq Jobs
  /\ \A t \in Targets : ContentOf[t] \in Contents /\ t \notin Contents
BY AssessmentAssumption DEF Jobs

(* Only a content has targets that wait for it.                            *)
LEMMA WaitersWait ==
  ASSUME NEW j \in Jobs
  PROVE  /\ Waiters(j) \subseteq Targets
         /\ j \in Targets => Waiters(j) = {}
         /\ \A t \in Waiters(j) : /\ ContentOf[t] = j /\ t # j
                                  /\ job[t].status = "waiting_for_content"
                                  /\ job[t].count = 0
BY JobsAreContentsOrTargets DEF Waiters

LEMMA RunsUntilType ==
  ASSUME NEW j \in Jobs, NEW d \in Nat
  PROVE  RunsUntil(j, d) \in Nat
BY AssessmentAssumption DEF RunsUntil, Earlier

(* The rows that the transitions write, and what they keep.                *)
LEMMA JobUpdates ==
  ASSUME NEW row \in JobRow
  PROVE  /\ \A n \in Numbers : /\ Completed(row, n) \in JobRow
                               /\ Activated(row, n) \in JobRow
         /\ \A s \in JobStatus : Ended(row, s) \in JobRow
         /\ \A at \in Nat \cup {NoTime} : Retrying(row, at) \in JobRow
         /\ row.count < MaxAttempts => /\ row.count + 1 \in Numbers
                                       /\ Dispatched(row) \in JobRow
<1>1. /\ row.version + 1 \in Nat
      /\ {"complete", "queued", "retry_wait", "dispatching"} \subseteq JobStatus
  BY DEF JobRow, JobStatus, Final, Dispatchable
<1>2. ASSUME NEW n \in Numbers
      PROVE  Completed(row, n) \in JobRow /\ Activated(row, n) \in JobRow
  BY <1>1 DEF JobRow, Completed, Activated
<1>3. ASSUME NEW s \in JobStatus PROVE Ended(row, s) \in JobRow
  BY <1>1 DEF JobRow, Ended
<1>4. ASSUME NEW at \in Nat \cup {NoTime} PROVE Retrying(row, at) \in JobRow
  BY <1>1 DEF JobRow, Retrying
<1>5. ASSUME row.count < MaxAttempts
      PROVE  row.count + 1 \in Numbers /\ Dispatched(row) \in JobRow
  <2>1. row.count + 1 \in Numbers
    BY <1>5, AssessmentAssumption DEF JobRow, Numbers
  <2>2. QED
    BY <1>1, <2>1 DEF JobRow, Dispatched
<1>6. QED
  BY <1>2, <1>3, <1>4, <1>5

LEMMA AttemptUpdates ==
  ASSUME NEW row \in AttemptRow
  PROVE  /\ \A class \in FailureClass :
              /\ Failed(row, class) \in AttemptRow
              /\ Failed(row, class).status \notin {"none", "dispatching", "succeeded"}
         /\ Stale(row) \in AttemptRow
         /\ Stale(row).status \notin {"none", "dispatching"}
              \/ row.status = "succeeded"
         /\ \A k, t \in Nat : Succeeded(row, k, t) \in AttemptRow
<1>1. ASSUME NEW class \in FailureClass
      PROVE  /\ Failed(row, class) \in AttemptRow
             /\ Failed(row, class).status \notin {"none", "dispatching", "succeeded"}
  <2>1. StatusOfFailure(class) \in AttemptStatus \ {"none", "dispatching", "succeeded"}
    BY DEF StatusOfFailure, FailureClass, AttemptStatus
  <2>2. QED
    BY <2>1 DEF Failed, AttemptRow
<1>2. /\ Stale(row) \in AttemptRow
      /\ Stale(row).status \notin {"none", "dispatching"} \/ row.status = "succeeded"
  BY DEF Stale, AttemptRow, AttemptStatus
<1>3. ASSUME NEW k \in Nat, NEW t \in Nat PROVE Succeeded(row, k, t) \in AttemptRow
  BY DEF Succeeded, AttemptRow, AttemptStatus
<1>4. QED
  BY <1>1, <1>2, <1>3

LEMMA TablesTyped ==
  ASSUME RowsTyped, NEW j \in Jobs, NEW n \in Numbers
  PROVE  /\ Terminalized(j) \in [Jobs -> JobRow]
         /\ Sealed(j, n) \in [Jobs -> JobRow]
<1>1. \A k \in Jobs : job[k] \in JobRow
  BY DEF RowsTyped
<1>2. {"failed_terminal", "blocked_dependency_terminal"} \subseteq JobStatus
  BY DEF JobStatus, Final
<1>3. Terminalized(j) \in [Jobs -> JobRow]
  BY <1>1, <1>2, JobUpdates DEF Terminalized
<1>4. Sealed(j, n) \in [Jobs -> JobRow]
  BY <1>1, JobUpdates DEF Sealed
<1>5. QED
  BY <1>3, <1>4

(* An announcement and the retry time are well typed.                      *)
LEMMA AnnounceType ==
  ASSUME RowsTyped, NEW j \in Jobs, NEW t \in Nat, Announce(j, t)
  PROVE  /\ outbox' \in [Contents -> {"absent", "pending", "delivered"}]
         /\ since' \in [Contents -> Nat]
BY DEF RowsTyped, Announce

LEMMA RetryAtType ==
  ASSUME NEW j \in Jobs, NEW n \in Numbers, NEW t \in Nat
  PROVE  RetryAt(j, n, t) \in Nat \cup {NoTime}
BY AssessmentAssumption DEF RetryAt

LEMMA ReadingsAreTimes ==
  ASSUME RowsTyped PROVE Readings \subseteq Nat /\ Completions \subseteq Nat
BY AssessmentAssumption DEF RowsTyped, Readings, Completions

-----------------------------------------------------------------------------
(* Failing an attempt, whoever reports it.                                 *)

LEMMA FailType ==
  ASSUME RowsTyped, NEW j \in Jobs, NEW n \in Numbers, NEW class \in FailureClass,
         NEW t \in Nat, Fail(j, n, class, t)
  PROVE  /\ job' \in [Jobs -> JobRow]
         /\ attempt' \in [Jobs -> [Numbers -> AttemptRow]]
         /\ outbox' \in [Contents -> {"absent", "pending", "delivered"}]
         /\ since' \in [Contents -> Nat]
<1>1. attempt' \in [Jobs -> [Numbers -> AttemptRow]]
  <2>1. attempt[j][n] \in AttemptRow
    BY DEF RowsTyped
  <2>2. Failed(attempt[j][n], class) \in AttemptRow
    BY <2>1, AttemptUpdates
  <2>3. QED
    BY <2>2 DEF Fail, RowsTyped
<1>2. CASE Fatal(j, n, class, t)
  BY <1>1, <1>2, TablesTyped, AnnounceType DEF Fail, RowsTyped
<1>3. CASE ~Fatal(j, n, class, t)
  <2>1. job[j] \in JobRow /\ Retrying(job[j], RetryAt(j, n, t)) \in JobRow
    BY JobUpdates, RetryAtType DEF RowsTyped
  <2>2. QED
    BY <1>1, <1>3, <2>1 DEF Fail, RowsTyped
<1>4. QED
  BY <1>2, <1>3

(* Every step keeps the rows in their types.                               *)
LEMMA TypeStep == RowsTyped /\ [Next]_vars => RowsTyped'
<1> SUFFICES ASSUME RowsTyped, [Next]_vars PROVE RowsTyped'
  OBVIOUS
<1> USE JobsAreContentsOrTargets
<1>1. ASSUME NEW c \in Contents, CreateContent(c) PROVE RowsTyped'
  <2> DEFINE row == job[c]
  <2>1. row \in JobRow /\ job' = [job EXCEPT ![c] = [row EXCEPT !.status = "queued"]]
    BY <1>1 DEF RowsTyped, CreateContent
  <2> HIDE DEF row
  <2>2. [row EXCEPT !.status = "queued"] \in JobRow
    BY <2>1 DEF JobRow, JobStatus, Dispatchable
  <2>3. job' \in [Jobs -> JobRow]
    BY <2>1, <2>2 DEF RowsTyped
  <2>4. UNCHANGED <<now, attempt, worker, reading, outbox, since>>
    BY <1>1 DEF CreateContent
  <2>5. QED
    BY <2>3, <2>4 DEF RowsTyped
<1>2. ASSUME NEW t \in Targets, ReadContent(t) PROVE RowsTyped'
  BY <1>2 DEF RowsTyped, ReadContent, records, JobRow
<1>3. ASSUME NEW t \in Targets, InsertTarget(t) PROVE RowsTyped'
  <2>1. FirstStatus(reading[t].status) \in JobStatus /\ "absent" \in JobStatus
    BY DEF FirstStatus, JobStatus, Final, Dispatchable
  <2>2. reading[t].result \in Numbers \cup {0}
    BY DEF RowsTyped
  <2>3. [NoJob EXCEPT !.status = FirstStatus(reading[t].status), !.basis = reading[t].result]
          \in JobRow
    BY <2>1, <2>2 DEF NoJob, JobRow
  <2>4. QED
    BY <1>3, <2>3 DEF RowsTyped, InsertTarget, Unread
<1>4. ASSUME NEW j \in Jobs, NEW d \in Readings, Dispatch(j, d) PROVE RowsTyped'
  <2>1. d \in Nat /\ job[j] \in JobRow /\ job[j].count < MaxAttempts
    BY <1>4, ReadingsAreTimes DEF RowsTyped, Dispatch, MayDispatch
  <2>2. job[j].count + 1 \in Numbers /\ Dispatched(job[j]) \in JobRow
    BY <2>1, JobUpdates
  <2>3. job[j].version + 1 \in Nat
    BY <2>1 DEF JobRow
  <2>4. NewAttempt(j, d) \in AttemptRow
    BY <2>1, <2>3, RunsUntilType DEF NewAttempt, NoAttempt, AttemptRow, AttemptStatus
  <2>5. QED
    BY <1>4, <2>2, <2>4 DEF RowsTyped, Dispatch
<1>5. ASSUME NEW j \in Jobs, NEW t \in Readings, Expire(j, t) PROVE RowsTyped'
  <2>1. 1 \in Numbers
    BY AssessmentAssumption DEF Numbers
  <2>2. QED
    BY <1>5, <2>1, TablesTyped, AnnounceType, ReadingsAreTimes DEF RowsTyped, Expire
<1>6. ASSUME NEW j \in Jobs, NEW n \in Numbers, WorkerGone(j, n) PROVE RowsTyped'
  BY <1>6 DEF RowsTyped, WorkerGone
<1>7. ASSUME NEW j \in Jobs, NEW n \in Numbers, MarkLate(j, n) PROVE RowsTyped'
  BY <1>7, AttemptUpdates DEF RowsTyped, MarkLate, MarkStale
<1>8. ASSUME NEW j \in Jobs, NEW n \in Numbers, NEW t \in Readings, NEW class \in FailureClass,
             ReportFailure(j, n, class, t)
      PROVE RowsTyped'
  BY <1>8, FailType, ReadingsAreTimes DEF RowsTyped, ReportFailure
<1>9. ASSUME NEW j \in Jobs, NEW n \in Numbers, NEW t \in Readings, NEW k \in Completions,
             SealLate(j, n, k, t)
      PROVE RowsTyped'
  <2>1. worker' \in [Jobs -> [Numbers -> {"none", "calling", "marking", "gone"}]]
    <3>1. \E place \in {"marking", "gone"} : worker' = [worker EXCEPT ![j][n] = place]
      BY <1>9 DEF SealLate
    <3>2. QED
      BY <3>1 DEF RowsTyped
  <2>2. CASE Fail(j, n, ClassOfLate(j, n, k), t)
    <3>1. ClassOfLate(j, n, k) \in FailureClass /\ t \in Nat
      BY ReadingsAreTimes DEF ClassOfLate, FailureClass
    <3>2. QED
      BY <1>9, <2>1, <2>2, <3>1, FailType DEF RowsTyped, SealLate
  <2>3. CASE MarkStale(j, n) /\ UNCHANGED <<job, outbox, since>>
    BY <1>9, <2>1, <2>3, AttemptUpdates DEF RowsTyped, SealLate, MarkStale
  <2>4. QED
    BY <1>9, <2>2, <2>3 DEF SealLate
<1>10. ASSUME NEW j \in Jobs, NEW n \in Numbers, NEW t \in Readings, NEW k \in Completions,
              SealWins(j, n, k, t)
       PROVE RowsTyped'
  <2>1. k \in Nat /\ t \in Nat /\ attempt[j][n] \in AttemptRow
    BY ReadingsAreTimes DEF RowsTyped
  <2>2. Succeeded(attempt[j][n], k, t) \in AttemptRow
    BY <2>1, AttemptUpdates
  <2>3. QED
    BY <1>10, <2>2, TablesTyped DEF RowsTyped, SealWins
<1>11. ASSUME NEW j \in Jobs, NEW n \in Numbers, NEW t \in Readings, NEW k \in Completions,
              SealLoses(j, n, k, t)
       PROVE RowsTyped'
  BY <1>11, AttemptUpdates DEF RowsTyped, SealLoses, MarkStale
<1>12. CASE Reconcile
  <2>1. \A k \in Jobs : Ended(job[k], "blocked_dependency_terminal") \in JobRow
    BY JobUpdates DEF RowsTyped, JobStatus, Final
  <2>2. QED
    BY <1>12, <2>1 DEF RowsTyped, Reconcile
<1>13. CASE Tick
  BY <1>13 DEF RowsTyped, Tick, records
<1>14. CASE UNCHANGED vars
  BY <1>14 DEF RowsTyped, vars, records
<1>15. QED
  BY <1>1, <1>2, <1>3, <1>4, <1>5, <1>6, <1>7, <1>8, <1>9, <1>10, <1>11, <1>12, <1>13, <1>14
  DEF Next, JobStep, AttemptStep

-----------------------------------------------------------------------------
(* What a transition does to the rows, field by field.                     *)

(* A job that is not touched, but for the marks on attempts that are over. *)
Same(k) ==
  /\ job'[k] = job[k]
  /\ \A n \in Numbers :
       \/ attempt'[k][n] = attempt[k][n]
       \/ /\ attempt[k][n].status \notin {"none", "dispatching"}
          /\ attempt'[k][n].status \notin {"none", "dispatching"}

(* The row of a job that stops being worked on, or is not worked on.       *)
Quiet(k) ==
  /\ job'[k].active = 0 /\ job'[k].count = job[k].count
  /\ job'[k].status # "dispatching"
  /\ \A n \in Numbers : /\ attempt'[k][n].status # "dispatching"
                        /\ attempt'[k][n].status = "none" <=> attempt[k][n].status = "none"

(* The row of a job that an attempt is dispatched for.                     *)
Flown(k) ==
  /\ job'[k].active = job[k].count + 1 /\ job'[k].count = job[k].count + 1
  /\ job'[k].status = "dispatching" /\ job[k].active = 0
  /\ \A n \in Numbers :
       IF n = job[k].count + 1
       THEN attempt'[k][n].status = "dispatching" /\ attempt'[k][n].expected = job'[k].version
       ELSE attempt'[k][n] = attempt[k][n]

LEMMA TerminalizedRows ==
  ASSUME RowsTyped, OneActiveAttempt, NEW j \in Jobs, job' = Terminalized(j)
  PROVE  /\ job'[j] = Ended(job[j], "failed_terminal")
         /\ \A k \in Jobs \ {j} :
              IF k \in Waiters(j) THEN job'[k] = Ended(job[k], "blocked_dependency_terminal")
                                  ELSE job'[k] = job[k]
BY DEF Terminalized

LEMMA EndedRow ==
  ASSUME NEW row \in JobRow, NEW s \in JobStatus
  PROVE  /\ Ended(row, s).status = s /\ Ended(row, s).active = 0
         /\ Ended(row, s).count = row.count /\ Ended(row, s).result = row.result
         /\ Ended(row, s).basis = row.basis
BY DEF Ended, JobRow

LEMMA DispatchedRow ==
  /\ \A row \in JobRow :
       /\ Dispatched(row).status = "dispatching"
       /\ Dispatched(row).active = row.count + 1
       /\ Dispatched(row).count = row.count + 1
       /\ Dispatched(row).version = row.version + 1
       /\ Dispatched(row).result = row.result
       /\ Dispatched(row).basis = row.basis
  /\ \A j, d : /\ NewAttempt(j, d).status = "dispatching"
               /\ NewAttempt(j, d).expected = job[j].version + 1
<1>1. ASSUME NEW row \in JobRow
      PROVE  /\ Dispatched(row).status = "dispatching"
             /\ Dispatched(row).active = row.count + 1
             /\ Dispatched(row).count = row.count + 1
             /\ Dispatched(row).version = row.version + 1
             /\ Dispatched(row).result = row.result
             /\ Dispatched(row).basis = row.basis
  BY DEF Dispatched, JobRow
<1>2. ASSUME NEW j, NEW d
      PROVE  /\ NewAttempt(j, d).status = "dispatching"
             /\ NewAttempt(j, d).expected = job[j].version + 1
  BY DEF NewAttempt, NoAttempt
<1>3. QED
  BY <1>1, <1>2

LEMMA ActivatedRow ==
  ASSUME NEW row \in JobRow, NEW n \in Numbers
  PROVE  /\ Activated(row, n).status = "queued" /\ Activated(row, n).basis = n
         /\ Activated(row, n).active = row.active /\ Activated(row, n).count = row.count
         /\ Activated(row, n).result = row.result
BY DEF Activated, JobRow

LEMMA SucceededRow ==
  ASSUME NEW row \in AttemptRow, NEW k \in Nat, NEW t \in Nat
  PROVE  /\ Succeeded(row, k, t).status = "succeeded"
         /\ Succeeded(row, k, t).completed = k /\ Succeeded(row, k, t).sealed = t
         /\ Succeeded(row, k, t).hard = row.hard
BY DEF Succeeded, AttemptRow

(* A job that nobody works on has no attempt in flight.                    *)
LEMMA IdleJob ==
  ASSUME RowsTyped, OneActiveAttempt, NEW k \in Jobs,
         job[k].active = 0 \/ job[k].status # "dispatching"
  PROVE  job[k].active = 0 /\ \A n \in Numbers : attempt[k][n].status # "dispatching"
BY AssessmentAssumption DEF OneActiveAttempt, Numbers

LEMMA ActiveFromRows ==
  ASSUME RowsTyped, OneActiveAttempt, \A k \in Jobs : Same(k) \/ Quiet(k) \/ Flown(k)
  PROVE  OneActiveAttempt'
<1> SUFFICES ASSUME NEW k \in Jobs
    PROVE  (/\ job[k].status = "dispatching" <=> job[k].active # 0
            /\ job[k].active # 0 => job[k].active = job[k].count
            /\ \A n \in Numbers :
                 /\ attempt[k][n].status = "none" <=> n > job[k].count
                 /\ attempt[k][n].status = "dispatching" <=> job[k].active = n
                 /\ attempt[k][n].status = "dispatching" => Owns(k, n))'
  BY DEF OneActiveAttempt
<1>1. CASE Same(k)
  BY <1>1 DEF Same, OneActiveAttempt, Owns
<1>2. CASE Quiet(k)
  <2>1. (job[k].status = "dispatching" <=> job[k].active # 0)'
    BY <1>2 DEF Quiet
  <2>2. (job[k].active # 0 => job[k].active = job[k].count)'
    BY <1>2 DEF Quiet
  <2>3. ASSUME NEW n \in Numbers
        PROVE  (/\ attempt[k][n].status = "none" <=> n > job[k].count
                /\ attempt[k][n].status = "dispatching" <=> job[k].active = n
                /\ attempt[k][n].status = "dispatching" => Owns(k, n))'
    <3>1. attempt'[k][n].status = "none" <=> n > job'[k].count
      BY <1>2 DEF Quiet, OneActiveAttempt
    <3>2. attempt'[k][n].status # "dispatching" /\ job'[k].active = 0
      BY <1>2 DEF Quiet
    <3>3. n # 0
      BY AssessmentAssumption DEF Numbers
    <3> QED BY <3>1, <3>2, <3>3
  <2> QED BY <2>1, <2>2, <2>3
<1>3. CASE Flown(k)
  <2>1. job[k].count \in Nat /\ \A n \in Numbers : n \in Nat \ {0}
    BY AssessmentAssumption DEF RowsTyped, JobRow, Numbers
  <2>2. job[k].status # "dispatching"
    BY <1>3 DEF Flown, OneActiveAttempt
  <2>3. ASSUME NEW n \in Numbers, n # job[k].count + 1
        PROVE  /\ attempt'[k][n] = attempt[k][n]
               /\ attempt[k][n].status = "none" <=> n > job[k].count + 1
               /\ attempt[k][n].status # "dispatching"
    BY <1>3, <2>1, <2>3 DEF Flown, OneActiveAttempt
  <2>4. ASSUME NEW n \in Numbers, n = job[k].count + 1
        PROVE  attempt'[k][n].status = "dispatching" /\ attempt'[k][n].expected = job'[k].version
    BY <1>3, <2>4 DEF Flown
  <2>5. /\ job'[k].active = job[k].count + 1 /\ job'[k].count = job[k].count + 1
        /\ job'[k].status = "dispatching"
    BY <1>3 DEF Flown
  <2>6. QED
    BY <2>1, <2>3, <2>4, <2>5 DEF Owns
<1>4. QED
  BY <1>1, <1>2, <1>3

(* The results of a job do not change, or the last attempt brings one.     *)
Kept(k) ==
  /\ job'[k].result = job[k].result
  /\ job'[k].status = "complete" <=> job[k].status = "complete"
  /\ \A n \in Numbers :
       /\ attempt'[k][n].status = "succeeded" <=> attempt[k][n].status = "succeeded"
       /\ attempt[k][n].status = "succeeded" =>
            /\ attempt'[k][n].completed = attempt[k][n].completed
            /\ attempt'[k][n].sealed = attempt[k][n].sealed
            /\ attempt'[k][n].hard = attempt[k][n].hard

Won(k) ==
  /\ job[k].status # "complete" /\ job'[k].status = "complete"
  /\ \E m \in Numbers :
       /\ job'[k].result = m
       /\ attempt'[k][m].status = "succeeded"
       /\ attempt'[k][m].completed \in 0..attempt'[k][m].hard
       /\ attempt'[k][m].sealed \in 0..(Deadline[k] - 1)
       /\ \A n \in Numbers \ {m} : attempt'[k][n] = attempt[k][n]

(* The status of a target stays where its content has put it, or follows   *)
(* what its content has become.                                            *)
Working == {"queued", "retry_wait", "dispatching", "complete", "failed_terminal"}

Stays(t) ==
  /\ job'[t].basis = job[t].basis
  /\ \/ job'[t].status = job[t].status /\ job'[t].count = job[t].count
     \/ job[t].status \in Working /\ job'[t].status \in Working

Gated(t) ==
  LET content == job[ContentOf[t]] IN
  /\ job[t].status \notin {"absent", "waiting_for_content", "blocked_dependency_terminal"} =>
       content.status = "complete" /\ job[t].basis = content.result
  /\ job[t].status = "blocked_dependency_terminal" => content.status = "failed_terminal"
  /\ job[t].status \in {"waiting_for_content", "blocked_dependency_terminal"} =>
       job[t].count = 0

RowStep ==
  /\ \A k \in Jobs :
       /\ Same(k) \/ Quiet(k) \/ Flown(k)
       /\ Kept(k) \/ Won(k)
       /\ job[k].status \in Final => job'[k] = job[k]
       /\ job'[k].status = "absent" => job'[k] = job[k]
  /\ \A t \in Targets : Stays(t) \/ Gated(t)'
  /\ \A c \in Contents :
       job'[c].status \notin {"waiting_for_content", "blocked_dependency_terminal"}

NoContentFails ==
  \A c \in Contents : job'[c].status = "failed_terminal" => job'[c] = job[c]

LEMMA SealedFromRows ==
  ASSUME RowsTyped, SealedInTime, \A k \in Jobs : Kept(k) \/ Won(k)
  PROVE  SealedInTime'
<1> SUFFICES ASSUME NEW k \in Jobs
    PROVE  (/\ job[k].status = "complete" <=> job[k].result # 0
            /\ \A n \in Numbers :
                 /\ attempt[k][n].status = "succeeded" <=> job[k].result = n
                 /\ attempt[k][n].status = "succeeded" =>
                      /\ attempt[k][n].completed \in 0..attempt[k][n].hard
                      /\ attempt[k][n].sealed \in 0..(Deadline[k] - 1))'
  BY DEF SealedInTime
<1>1. CASE Kept(k)
  BY <1>1 DEF Kept, SealedInTime
<1>2. CASE Won(k)
  <2>1. job[k].result = 0 /\ \A n \in Numbers : attempt[k][n].status # "succeeded"
    BY <1>2, AssessmentAssumption DEF Won, SealedInTime, Numbers
  <2>2. PICK m \in Numbers :
          /\ job'[k].result = m
          /\ attempt'[k][m].status = "succeeded"
          /\ attempt'[k][m].completed \in 0..attempt'[k][m].hard
          /\ attempt'[k][m].sealed \in 0..(Deadline[k] - 1)
          /\ \A n \in Numbers \ {m} : attempt'[k][n] = attempt[k][n]
    BY <1>2 DEF Won
  <2>3. m # 0
    BY AssessmentAssumption DEF Numbers
  <2>4. QED
    BY <1>2, <2>1, <2>2, <2>3 DEF Won
<1>3. QED
  BY <1>1, <1>2

LEMMA GatedFromRows ==
  ASSUME RowsTyped, GatedByContent, RowStep
  PROVE  GatedByContent'
<1> SUFFICES ASSUME NEW t \in Targets PROVE Gated(t)'
  BY DEF GatedByContent, Gated
<1>1. Gated(t)
  BY DEF GatedByContent, Gated
<1>2. CASE Stays(t)
  <2>1. ContentOf[t] \in Jobs
    BY JobsAreContentsOrTargets
  <2>2. job[ContentOf[t]].status \in Final => job'[ContentOf[t]] = job[ContentOf[t]]
    BY <2>1 DEF RowStep
  <2>3. QED
    BY <1>1, <1>2, <2>2 DEF Stays, Gated, Working, Final
<1>3. QED
  BY <1>2 DEF RowStep

-----------------------------------------------------------------------------
(* The row steps, action by action.                                        *)

(* A job that fails takes with it the targets that wait for it.            *)
LEMMA TerminalizedStep ==
  ASSUME IInv, NEW j \in Jobs, NEW t \in Nat,
         job[j].status \in Dispatchable \cup {"dispatching"},
         job' = Terminalized(j), Announce(j, t),
         \A k \in Jobs \ {j} : attempt'[k] = attempt[k],
         \A n \in Numbers :
           /\ attempt'[j][n].status \notin {"dispatching"}
           /\ attempt'[j][n].status = "none" <=> attempt[j][n].status = "none"
           /\ attempt'[j][n].status = "succeeded" <=> attempt[j][n].status = "succeeded"
           /\ attempt[j][n].status = "succeeded" => attempt'[j][n] = attempt[j][n]
  PROVE  RowStep /\ TerminalAnnounced'
<1> USE DEF IInv
<1>1. /\ job'[j] = Ended(job[j], "failed_terminal")
      /\ \A k \in Waiters(j) : k # j /\ job'[k] = Ended(job[k], "blocked_dependency_terminal")
      /\ \A k \in Jobs \ {j} : k \notin Waiters(j) => job'[k] = job[k]
  BY TerminalizedRows, WaitersWait, JobsAreContentsOrTargets
<1>2. \A k \in Jobs : job[k] \in JobRow
  BY DEF RowsTyped
<1>3. /\ job'[j].status = "failed_terminal" /\ job'[j].active = 0
      /\ job'[j].count = job[j].count /\ job'[j].result = job[j].result
      /\ job'[j].basis = job[j].basis
  BY <1>1, <1>2, EndedRow DEF JobStatus, Final
<1>4. Quiet(j) /\ Kept(j)
  BY <1>3 DEF Quiet, Kept, Dispatchable
<1>5. \A k \in Waiters(j) : /\ job'[k].status = "blocked_dependency_terminal"
                            /\ job'[k].active = 0 /\ job'[k].count = 0
                            /\ job'[k].count = job[k].count
                            /\ job'[k].result = job[k].result
                            /\ job[k].status = "waiting_for_content"
  BY <1>1, <1>2, EndedRow, WaitersWait, JobsAreContentsOrTargets DEF JobStatus, Final
<1>6. \A k \in Waiters(j) : Quiet(k) /\ Kept(k)
  <2> SUFFICES ASSUME NEW k \in Waiters(j) PROVE Quiet(k) /\ Kept(k)
    OBVIOUS
  <2>1. k \in Jobs /\ attempt'[k] = attempt[k]
    BY <1>1, WaitersWait, JobsAreContentsOrTargets
  <2>2. job[k].active = 0 /\ \A n \in Numbers : attempt[k][n].status # "dispatching"
    BY <1>5, <2>1, IdleJob
  <2>3. QED
    BY <1>5, <2>1, <2>2 DEF Quiet, Kept
<1>7. \A k \in Jobs \ {j} : k \notin Waiters(j) => Same(k) /\ Kept(k)
  BY <1>1 DEF Same, Kept
<1>8. \A k \in Targets : Stays(k) \/ Gated(k)'
  <2>1. CASE j \in Targets
    BY <1>1, <1>3, <2>1, WaitersWait, JobsAreContentsOrTargets
    DEF Stays, Working, Dispatchable
  <2>2. CASE j \in Contents
    <3> SUFFICES ASSUME NEW k \in Targets PROVE Stays(k) \/ Gated(k)'
      OBVIOUS
    <3>1. CASE k \in Waiters(j)
      BY <1>3, <1>5, <3>1, WaitersWait DEF Gated
    <3>2. CASE k \notin Waiters(j)
      BY <1>1, <2>2, <3>2, JobsAreContentsOrTargets DEF Stays
    <3>3. QED
      BY <3>1, <3>2
  <2>3. QED
    BY <2>1, <2>2 DEF Jobs
<1>9. \A c \in Contents :
        job'[c].status \notin {"waiting_for_content", "blocked_dependency_terminal"}
  BY <1>1, <1>3, WaitersWait, JobsAreContentsOrTargets DEF ContentsWaitForNothing
<1>10. RowStep
  BY <1>1, <1>3, <1>4, <1>5, <1>6, <1>7, <1>8, <1>9 DEF RowStep, Final, Dispatchable
<1>11. TerminalAnnounced'
  <2> SUFFICES ASSUME NEW c \in Contents
      PROVE  outbox'[c] # "absent" <=> job'[c].status = "failed_terminal"
    BY DEF TerminalAnnounced
  <2>1. outbox[c] # "absent" <=> job[c].status = "failed_terminal"
    BY DEF TerminalAnnounced
  <2>2. CASE c = j
    BY <1>3, <2>1, <2>2 DEF Announce, Dispatchable, RowsTyped
  <2>3. CASE c # j
    BY <1>1, <2>1, <2>3, WaitersWait, JobsAreContentsOrTargets DEF Announce, RowsTyped
  <2>4. QED
    BY <2>2, <2>3
<1>12. QED
  BY <1>10, <1>11

LEMMA FailRows ==
  ASSUME IInv, NEW j \in Jobs, NEW n \in Numbers, NEW class \in FailureClass, NEW t \in Nat,
         Fail(j, n, class, t)
  PROVE  RowStep /\ TerminalAnnounced'
<1> USE DEF IInv
<1>1. /\ job[j].status = "dispatching" /\ job[j].active = n
      /\ attempt[j][n].status = "dispatching"
      /\ attempt' = [attempt EXCEPT ![j][n] = Failed(@, class)]
  BY DEF Fail, MayFail, Owns
<1>2. attempt[j][n] \in AttemptRow
  BY DEF RowsTyped
<1>3. attempt'[j][n].status \notin {"none", "dispatching", "succeeded"}
  BY <1>1, <1>2, AttemptUpdates DEF RowsTyped
<1>4. /\ \A k \in Jobs \ {j} : attempt'[k] = attempt[k]
      /\ \A m \in Numbers \ {n} : attempt'[j][m] = attempt[j][m]
  BY <1>1 DEF RowsTyped
<1>5. \A m \in Numbers :
           /\ attempt'[j][m].status # "dispatching"
           /\ attempt'[j][m].status = "none" <=> attempt[j][m].status = "none"
           /\ attempt'[j][m].status = "succeeded" <=> attempt[j][m].status = "succeeded"
           /\ attempt[j][m].status = "succeeded" => attempt'[j][m] = attempt[j][m]
  BY <1>1, <1>3, <1>4 DEF OneActiveAttempt
<1>6. CASE Fatal(j, n, class, t)
  <2>1. job' = Terminalized(j) /\ Announce(j, t)
    BY <1>6 DEF Fail
  <2>2. QED
    BY <1>1, <1>4, <1>5, <2>1, TerminalizedStep
<1>7. CASE ~Fatal(j, n, class, t)
  <2>1. /\ job' = [job EXCEPT ![j] = Retrying(@, RetryAt(j, n, t))]
        /\ UNCHANGED <<outbox, since>>
    BY <1>7 DEF Fail
  <2>2. /\ \A k \in Jobs \ {j} : job'[k] = job[k]
        /\ job'[j] = Retrying(job[j], RetryAt(j, n, t))
        /\ job[j] \in JobRow
    BY <2>1 DEF RowsTyped
  <2>3. /\ job'[j].status = "retry_wait" /\ job'[j].active = 0
        /\ job'[j].count = job[j].count /\ job'[j].result = job[j].result
        /\ job'[j].basis = job[j].basis
    BY <2>2 DEF Retrying, JobRow
  <2>4. Quiet(j) /\ Kept(j)
    BY <1>1, <1>5, <2>3 DEF Quiet, Kept
  <2>5. \A k \in Jobs \ {j} : Same(k) /\ Kept(k)
    BY <1>4, <2>2 DEF Same, Kept
  <2>6. \A k \in Targets : Stays(k)
    BY <1>1, <2>2, <2>3, JobsAreContentsOrTargets DEF Stays, Working
  <2>7. RowStep
    BY <1>1, <2>2, <2>3, <2>4, <2>5, <2>6, JobsAreContentsOrTargets
    DEF RowStep, ContentsWaitForNothing, Final
  <2>8. TerminalAnnounced'
    BY <1>1, <2>1, <2>2, <2>3, JobsAreContentsOrTargets DEF TerminalAnnounced
  <2>9. QED
    BY <2>7, <2>8
<1>8. QED
  BY <1>6, <1>7

(* A step that leaves the job rows alone and rewrites no attempt in flight. *)
LEMMA StaleRows ==
  ASSUME IInv, NEW j \in Jobs, NEW n \in Numbers, MarkStale(j, n), UNCHANGED job,
         attempt[j][n].status \notin {"none", "dispatching"}
  PROVE  RowStep /\ NoContentFails
<1> USE DEF IInv
<1>1. /\ \A k \in Jobs \ {j} : attempt'[k] = attempt[k]
      /\ \A m \in Numbers \ {n} : attempt'[j][m] = attempt[j][m]
      /\ attempt'[j][n] = Stale(attempt[j][n])
      /\ attempt[j][n] \in AttemptRow
  BY DEF MarkStale, RowsTyped
<1>2. /\ attempt'[j][n].status \notin {"none", "dispatching"}
      /\ attempt'[j][n].status = "succeeded" <=> attempt[j][n].status = "succeeded"
      /\ attempt'[j][n].completed = attempt[j][n].completed
      /\ attempt'[j][n].sealed = attempt[j][n].sealed
      /\ attempt'[j][n].hard = attempt[j][n].hard
  BY <1>1 DEF Stale, AttemptRow
<1>3. \A k \in Jobs : Kept(k)
  BY <1>1, <1>2 DEF Kept
<1>4. \A k \in Jobs : Same(k)
  BY <1>1, <1>2 DEF Same
<1>5. QED
  BY <1>3, <1>4 DEF RowStep, NoContentFails, Stays, ContentsWaitForNothing

(* The attempt a late or losing call marks is over.                        *)
LEMMA LateMarks ==
  ASSUME IInv, NEW j \in Jobs, NEW n \in Numbers,
         worker[j][n] \in {"calling", "marking"},
         \/ worker[j][n] = "marking"
         \/ ~Owns(j, n)
         \/ \E class \in FailureClass : AlreadySettled(j, n, class)
  PROVE  attempt[j][n].status \notin {"none", "dispatching"}
<1>1. attempt[j][n].status # "none"
  BY DEF IInv, CallersKnown
<1>2. CASE worker[j][n] = "marking"
  BY <1>1, <1>2 DEF IInv, CallersKnown
<1>3. CASE ~Owns(j, n)
  BY <1>1, <1>3 DEF IInv, OneActiveAttempt
<1>4. ASSUME NEW class \in FailureClass, AlreadySettled(j, n, class)
      PROVE  attempt[j][n].status # "dispatching"
  BY <1>4, IdleJob DEF IInv, AlreadySettled, Final
<1>5. QED
  BY <1>1, <1>2, <1>3, <1>4

LEMMA DispatchRows ==
  ASSUME IInv, NEW j \in Jobs, NEW d \in Nat, Dispatch(j, d)
  PROVE  RowStep /\ NoContentFails
<1> USE DEF IInv
<1>1. /\ job[j] \in JobRow /\ job[j].count < MaxAttempts
      /\ job[j].status \in Dispatchable
      /\ job' = [job EXCEPT ![j] = Dispatched(@)]
      /\ attempt' = [attempt EXCEPT ![j][job[j].count + 1] = NewAttempt(j, d)]
  BY DEF Dispatch, MayDispatch, RowsTyped
<1>2. job[j].count \in Nat /\ job[j].count + 1 \in Numbers /\ job[j].active = 0
  <2>1. job[j].count \in Nat
    BY <1>1, AssessmentAssumption DEF JobRow, Numbers
  <2>2. job[j].count + 1 \in Numbers
    BY <1>1, JobUpdates
  <2>3. job[j].status # "dispatching"
    BY <1>1 DEF Dispatchable
  <2>4. QED
    BY <2>1, <2>2, <2>3, IdleJob
<1>3. /\ \A k \in Jobs \ {j} : job'[k] = job[k] /\ attempt'[k] = attempt[k]
      /\ job'[j] = Dispatched(job[j])
      /\ \A m \in Numbers \ {job[j].count + 1} : attempt'[j][m] = attempt[j][m]
      /\ attempt'[j][job[j].count + 1] = NewAttempt(j, d)
  BY <1>1, <1>2 DEF RowsTyped
<1>4. /\ job'[j].status = "dispatching" /\ job'[j].active = job[j].count + 1
      /\ job'[j].count = job[j].count + 1 /\ job'[j].version = job[j].version + 1
      /\ job'[j].result = job[j].result /\ job'[j].basis = job[j].basis
  BY <1>1, <1>3, DispatchedRow
<1>5. /\ NewAttempt(j, d).status = "dispatching"
      /\ NewAttempt(j, d).expected = job[j].version + 1
  BY DispatchedRow
<1>6. attempt[j][job[j].count + 1].status = "none"
  BY <1>2 DEF OneActiveAttempt
<1>7. Flown(j) /\ Kept(j)
  BY <1>1, <1>2, <1>3, <1>4, <1>5, <1>6 DEF Flown, Kept, Dispatchable
<1>8. \A k \in Jobs \ {j} : Same(k) /\ Kept(k)
  BY <1>3 DEF Same, Kept
<1>9. \A k \in Targets : Stays(k)
  BY <1>1, <1>3, <1>4, JobsAreContentsOrTargets DEF Stays, Working, Dispatchable
<1>10. NoContentFails
  BY <1>3, <1>4, JobsAreContentsOrTargets DEF NoContentFails
<1>11. QED
  BY <1>1, <1>3, <1>4, <1>7, <1>8, <1>9, <1>10, JobsAreContentsOrTargets
  DEF RowStep, ContentsWaitForNothing, Final, Dispatchable

LEMMA SealWinsRows ==
  ASSUME IInv, NEW j \in Jobs, NEW n \in Numbers, NEW t \in Nat, NEW k \in Completions,
         SealWins(j, n, k, t)
  PROVE  RowStep /\ NoContentFails
<1> USE DEF IInv
<1>1. /\ job[j] \in JobRow /\ attempt[j][n] \in AttemptRow
      /\ job[j].status = "dispatching" /\ job[j].active = n
      /\ attempt[j][n].status = "dispatching"
      /\ k <= attempt[j][n].hard
      /\ t < Deadline[j] /\ Deadline[j] \in Nat /\ k \in Nat
      /\ attempt' = [attempt EXCEPT ![j][n] = Succeeded(@, k, t)]
      /\ job' = Sealed(j, n)
  <2>1. job[j] \in JobRow /\ attempt[j][n] \in AttemptRow
    BY DEF RowsTyped
  <2>2. attempt[j][n].hard \in Nat /\ Deadline[j] \in Nat /\ k \in Nat
    BY <2>1, ReadingsAreTimes, AssessmentAssumption DEF AttemptRow
  <2>3. ~(k > attempt[j][n].hard) /\ ~(t >= Deadline[j])
    BY DEF SealWins, TooLate
  <2>4. k <= attempt[j][n].hard /\ t < Deadline[j]
    BY <2>2, <2>3
  <2>5. QED
    BY <2>1, <2>2, <2>4 DEF SealWins, Calling, Owns
<1>2. /\ \A i \in Jobs \ {j} : attempt'[i] = attempt[i]
      /\ \A m \in Numbers \ {n} : attempt'[j][m] = attempt[j][m]
      /\ attempt'[j][n] = Succeeded(attempt[j][n], k, t)
  BY <1>1 DEF RowsTyped
<1>3. /\ attempt'[j][n].status = "succeeded" /\ attempt'[j][n].completed = k
      /\ attempt'[j][n].sealed = t
      /\ attempt'[j][n].hard = attempt[j][n].hard
  BY <1>1, <1>2, SucceededRow
<1>4. /\ job'[j] = Completed(job[j], n)
      /\ \A i \in Waiters(j) : i # j /\ i \in Jobs /\ job'[i] = Activated(job[i], n)
      /\ \A i \in Jobs \ {j} : i \notin Waiters(j) => job'[i] = job[i]
  BY <1>1, WaitersWait, JobsAreContentsOrTargets DEF Sealed
<1>5. /\ job'[j].status = "complete" /\ job'[j].active = 0 /\ job'[j].result = n
      /\ job'[j].count = job[j].count /\ job'[j].basis = job[j].basis
  BY <1>1, <1>4 DEF Completed, JobRow
<1>6. Quiet(j)
  BY <1>1, <1>2, <1>3, <1>5 DEF Quiet, OneActiveAttempt
<1>7. Won(j)
  <2>1. attempt'[j][n].completed \in 0..attempt'[j][n].hard
    BY <1>1, <1>3 DEF AttemptRow
  <2>2. attempt'[j][n].sealed \in 0..(Deadline[j] - 1)
    BY <1>1, <1>3
  <2>3. QED
    BY <1>1, <1>2, <1>3, <1>5, <2>1, <2>2 DEF Won
<1>8. \A i \in Waiters(j) : /\ job'[i].status = "queued" /\ job'[i].basis = n
                            /\ job'[i].active = job[i].active /\ job'[i].count = job[i].count
                            /\ job'[i].result = job[i].result
                            /\ job[i].status = "waiting_for_content"
  <2>1. \A i \in Waiters(j) : job[i] \in JobRow
    BY <1>4 DEF RowsTyped
  <2>2. QED
    BY <1>4, <2>1, ActivatedRow, WaitersWait
<1>9. \A i \in Waiters(j) : Quiet(i) /\ Kept(i)
  <2> SUFFICES ASSUME NEW i \in Waiters(j) PROVE Quiet(i) /\ Kept(i)
    OBVIOUS
  <2>1. i \in Jobs /\ attempt'[i] = attempt[i]
    BY <1>2, <1>4
  <2>2. job[i].active = 0 /\ \A m \in Numbers : attempt[i][m].status # "dispatching"
    BY <1>8, <2>1, IdleJob
  <2>3. QED
    BY <1>8, <2>1, <2>2 DEF Quiet, Kept
<1>10. \A i \in Jobs \ {j} : i \notin Waiters(j) => Same(i) /\ Kept(i)
  BY <1>2, <1>4 DEF Same, Kept
<1>11. \A i \in Targets : Stays(i) \/ Gated(i)'
  <2>1. CASE j \in Targets
    BY <1>1, <1>4, <1>5, <2>1, WaitersWait, JobsAreContentsOrTargets DEF Stays, Working
  <2>2. CASE j \in Contents
    <3> SUFFICES ASSUME NEW i \in Targets PROVE Stays(i) \/ Gated(i)'
      OBVIOUS
    <3>1. CASE i \in Waiters(j)
      BY <1>5, <1>8, <3>1, WaitersWait DEF Gated
    <3>2. CASE i \notin Waiters(j)
      BY <1>4, <2>2, <3>2, JobsAreContentsOrTargets DEF Stays
    <3>3. QED
      BY <3>1, <3>2
  <2>3. QED
    BY <2>1, <2>2 DEF Jobs
<1>12. \A c \in Contents :
         job'[c].status \notin {"waiting_for_content", "blocked_dependency_terminal"}
  BY <1>4, <1>5, WaitersWait, JobsAreContentsOrTargets DEF ContentsWaitForNothing
<1>13. NoContentFails
  BY <1>4, <1>5, WaitersWait, JobsAreContentsOrTargets DEF NoContentFails
<1>14. QED
  BY <1>1, <1>4, <1>5, <1>6, <1>7, <1>8, <1>9, <1>10, <1>11, <1>12, <1>13 DEF RowStep, Final

LEMMA ExpireRows ==
  ASSUME IInv, NEW j \in Jobs, NEW t \in Nat, Expire(j, t)
  PROVE  RowStep /\ TerminalAnnounced'
<1>1. /\ job[j].status \in Dispatchable /\ job[j].active = 0
      /\ job' = Terminalized(j) /\ Announce(j, t) /\ attempt' = attempt
  BY DEF Expire
<1>2. \A n \in Numbers : attempt[j][n].status # "dispatching"
  BY <1>1, IdleJob DEF IInv
<1>3. QED
  BY <1>1, <1>2, TerminalizedStep

LEMMA CreationRows ==
  ASSUME IInv, NEW j \in Jobs,
         \/ j \in Contents /\ CreateContent(j)
         \/ j \in Targets /\ InsertTarget(j)
  PROVE  RowStep /\ NoContentFails
<1> USE DEF IInv
<1>1. job[j].status = "absent" /\ job[j] = NoJob /\ attempt' = attempt
  BY DEF AbsentIsEmpty, CreateContent, InsertTarget
<1>2. PICK s \in {"queued", "waiting_for_content", "blocked_dependency_terminal"},
           basis \in Numbers \cup {0} :
        /\ \A k \in Jobs \ {j} : job'[k] = job[k]
        /\ job'[j].status = s /\ job'[j].active = 0 /\ job'[j].count = 0
        /\ job'[j].result = 0 /\ job'[j].basis = basis
        /\ j \in Contents => s = "queued"
        /\ j \in Targets => /\ s = FirstStatus(reading[j].status)
                            /\ basis = reading[j].result
  <2>1. CASE j \in Contents /\ CreateContent(j)
    <3>1. job' = [job EXCEPT ![j] = [NoJob EXCEPT !.status = "queued"]]
      BY <1>1, <2>1 DEF CreateContent, RowsTyped
    <3>2. /\ \A k \in Jobs \ {j} : job'[k] = job[k]
          /\ job'[j].status = "queued" /\ job'[j].active = 0 /\ job'[j].count = 0
          /\ job'[j].result = 0 /\ job'[j].basis = 0
      BY <3>1 DEF NoJob, RowsTyped
    <3>3. QED
      BY <2>1, <3>2, JobsAreContentsOrTargets
  <2>2. CASE j \in Targets /\ InsertTarget(j)
    <3> DEFINE s == FirstStatus(reading[j].status)
               basis == reading[j].result
    <3>1. /\ s \in {"queued", "waiting_for_content", "blocked_dependency_terminal"}
          /\ basis \in Numbers \cup {0}
      BY <2>2 DEF FirstStatus, RowsTyped
    <3>2. job' = [job EXCEPT ![j] = [NoJob EXCEPT !.status = s, !.basis = basis]]
      BY <2>2 DEF InsertTarget
    <3> HIDE DEF s, basis
    <3>3. /\ \A k \in Jobs \ {j} : job'[k] = job[k]
          /\ job'[j].status = s /\ job'[j].active = 0 /\ job'[j].count = 0
          /\ job'[j].result = 0 /\ job'[j].basis = basis
      BY <3>2 DEF NoJob, RowsTyped
    <3>4. QED
      BY <2>2, <3>1, <3>3, JobsAreContentsOrTargets DEF s, basis
  <2>3. QED
    BY <2>1, <2>2
<1>3. /\ \A k \in Jobs \ {j} : job'[k] = job[k]
      /\ job'[j].status = s /\ job'[j].active = 0 /\ job'[j].count = 0
      /\ job'[j].result = 0 /\ job'[j].basis = basis
  BY <1>2
<1>4. job[j].active = 0 /\ job[j].count = 0 /\ job[j].result = 0
  BY <1>1 DEF NoJob
<1>5. Quiet(j) /\ Kept(j)
  BY <1>1, <1>3, <1>4, IdleJob DEF Quiet, Kept
<1>6. \A k \in Jobs \ {j} : Same(k) /\ Kept(k)
  BY <1>1, <1>3 DEF Same, Kept
<1>7. \A k \in Targets \ {j} : Stays(k)
  BY <1>3, JobsAreContentsOrTargets DEF Stays
<1>8. j \in Targets => Gated(j)'
  <2> SUFFICES ASSUME j \in Targets PROVE Gated(j)'
    OBVIOUS
  <2>1. ContentOf[j] \in Jobs /\ ContentOf[j] # j
    BY JobsAreContentsOrTargets
  <2>2. job'[ContentOf[j]] = job[ContentOf[j]]
    BY <1>3, <2>1
  <2>3. QED
    BY <1>2, <1>3, <2>2 DEF Gated, FirstStatus, ReadingsStillTrue
<1>9. NoContentFails
  BY <1>2, <1>3, JobsAreContentsOrTargets DEF NoContentFails
<1>10. QED
  BY <1>1, <1>2, <1>3, <1>5, <1>6, <1>7, <1>8, <1>9, JobsAreContentsOrTargets
  DEF RowStep, ContentsWaitForNothing, Final

LEMMA ReconcileRows ==
  ASSUME IInv, Reconcile
  PROVE  RowStep /\ NoContentFails
<1> USE DEF IInv
<1>1. /\ attempt' = attempt
      /\ \A k \in Jobs :
           IF k \in Stranded /\ job[k].count = 0
           THEN job'[k] = Ended(job[k], "blocked_dependency_terminal") ELSE job'[k] = job[k]
  BY DEF Reconcile
<1>2. ASSUME NEW k \in Jobs, k \in Stranded, job[k].count = 0
      PROVE  /\ Quiet(k) /\ Kept(k) /\ Gated(k)' /\ k \in Targets
             /\ job[k].status = "waiting_for_content"
             /\ job'[k].status = "blocked_dependency_terminal"
  <2>1. /\ k \in Targets /\ job[k].status = "waiting_for_content"
        /\ job[ContentOf[k]].status = "failed_terminal" /\ ContentOf[k] \in Jobs
        /\ ContentOf[k] \notin Targets
    BY <1>2, JobsAreContentsOrTargets DEF Stranded
  <2>2. /\ job'[k].status = "blocked_dependency_terminal" /\ job'[k].active = 0
        /\ job'[k].count = 0 /\ job'[k].result = job[k].result
    BY <1>1, <1>2, EndedRow DEF RowsTyped, JobStatus, Final
  <2>3. job[k].active = 0 /\ \A n \in Numbers : attempt[k][n].status # "dispatching"
    BY <2>1, IdleJob
  <2>4. job'[ContentOf[k]] = job[ContentOf[k]]
    BY <1>1, <2>1 DEF Stranded
  <2>5. QED
    BY <1>1, <1>2, <2>1, <2>2, <2>3, <2>4 DEF Quiet, Kept, Gated
<1>3. ASSUME NEW k \in Jobs, ~(k \in Stranded /\ job[k].count = 0)
      PROVE  Same(k) /\ Kept(k) /\ Stays(k) /\ job'[k] = job[k]
  BY <1>1, <1>3 DEF Same, Kept, Stays
<1>4. NoContentFails
  BY <1>2, <1>3, JobsAreContentsOrTargets DEF NoContentFails
<1>5. QED
  BY <1>2, <1>3, <1>4, JobsAreContentsOrTargets DEF RowStep, ContentsWaitForNothing, Final

-----------------------------------------------------------------------------
(* The invariant is inductive.                                             *)

LEMMA FromRows ==
  ASSUME IInv, RowsTyped', RowStep,
         \A t \in Targets :
           \/ reading'[t] = reading[t] \/ reading'[t] = Unread
           \/ reading'[t] = [status |-> job[ContentOf[t]].status,
                             result |-> job[ContentOf[t]].result],
         \A j \in Jobs, n \in Numbers :
           worker'[j][n] \in {"calling", "marking"} =>
             \/ worker'[j][n] = worker[j][n]
             \/ /\ attempt'[j][n].status # "none"
                /\ worker'[j][n] = "marking" => attempt'[j][n].status # "dispatching",
         TerminalAnnounced'
  PROVE  IInv'
<1> USE DEF IInv
<1>1. AbsentIsEmpty'
  BY DEF RowStep, AbsentIsEmpty
<1>2. ContentsWaitForNothing'
  BY DEF RowStep, ContentsWaitForNothing
<1>3. OneActiveAttempt'
  BY ActiveFromRows DEF RowStep
<1>4. SealedInTime' /\ GatedByContent'
  BY SealedFromRows, GatedFromRows DEF RowStep
<1>5. ReadingsStillTrue'
  <2> SUFFICES ASSUME NEW t \in Targets
      PROVE  LET content == job'[ContentOf[t]] IN
             /\ reading'[t].status = "complete" =>
                  content.status = "complete" /\ reading'[t].result = content.result
             /\ reading'[t].status = "failed_terminal" => content.status = "failed_terminal"
    BY DEF ReadingsStillTrue
  <2>1. ContentOf[t] \in Jobs
    BY JobsAreContentsOrTargets
  <2>2. job[ContentOf[t]].status \in Final => job'[ContentOf[t]] = job[ContentOf[t]]
    BY <2>1 DEF RowStep
  <2>3. CASE reading'[t] = reading[t] \/ reading'[t] = Unread
    BY <2>2, <2>3 DEF ReadingsStillTrue, Unread, Final
  <2>4. CASE /\ reading'[t].status = job[ContentOf[t]].status
             /\ reading'[t].result = job[ContentOf[t]].result
    BY <2>2, <2>4 DEF Final
  <2>5. CASE reading'[t] = [status |-> job[ContentOf[t]].status,
                            result |-> job[ContentOf[t]].result]
    BY <2>4, <2>5
  <2>6. QED
    BY <2>3, <2>5
<1>6. CallersKnown'
  <2> SUFFICES ASSUME NEW j \in Jobs, NEW n \in Numbers, worker'[j][n] \in {"calling", "marking"}
      PROVE  /\ attempt'[j][n].status # "none"
             /\ worker'[j][n] = "marking" => attempt'[j][n].status # "dispatching"
    BY DEF CallersKnown
  <2>1. Same(j) \/ Quiet(j) \/ Flown(j)
    BY DEF RowStep
  <2>2. worker'[j][n] = worker[j][n] =>
          /\ attempt[j][n].status # "none"
          /\ worker'[j][n] = "marking" => attempt[j][n].status # "dispatching"
    BY DEF CallersKnown
  <2>3. Flown(j) /\ n = job[j].count + 1 => attempt[j][n].status = "none"
    <3>1. job[j].count \in Nat
      BY AssessmentAssumption DEF RowsTyped, JobRow, Numbers
    <3>2. QED
      BY <3>1 DEF OneActiveAttempt
  <2>4. QED
    BY <2>1, <2>2, <2>3 DEF Same, Quiet, Flown
<1>7. QED
  BY <1>1, <1>2, <1>3, <1>4, <1>5, <1>6

LEMMA QuietAnnouncement ==
  ASSUME IInv, RowStep, NoContentFails, UNCHANGED outbox
  PROVE  TerminalAnnounced'
BY JobsAreContentsOrTargets DEF IInv, TerminalAnnounced, RowStep, NoContentFails, Final

LEMMA UntouchedRows ==
  ASSUME IInv, UNCHANGED <<job, attempt>>
  PROVE  RowStep /\ NoContentFails
BY DEF IInv, RowStep, NoContentFails, Same, Kept, Stays, ContentsWaitForNothing

LEMMA InductiveStep == IInv /\ [Next]_vars => IInv'
<1> SUFFICES ASSUME IInv, [Next]_vars PROVE IInv'
  OBVIOUS
<1>0. RowsTyped' /\ Readings \subseteq Nat /\ RowsTyped
  BY TypeStep, ReadingsAreTimes DEF IInv
<1>1. ASSUME NEW c \in Contents, CreateContent(c) PROVE IInv'
  <2>1. RowStep /\ NoContentFails
    BY <1>1, CreationRows, JobsAreContentsOrTargets
  <2>2. UNCHANGED <<reading, worker, outbox>>
    BY <1>1 DEF CreateContent
  <2>3. QED
    BY <1>0, <2>1, <2>2, QuietAnnouncement, FromRows
<1>2. ASSUME NEW t \in Targets, ReadContent(t) PROVE IInv'
  <2>1. UNCHANGED <<job, attempt, worker, outbox>>
    BY <1>2 DEF ReadContent, records
  <2>2. \A u \in Targets :
          \/ reading'[u] = reading[u]
          \/ reading'[u] = [status |-> job[ContentOf[u]].status,
                            result |-> job[ContentOf[u]].result]
    BY <1>0, <1>2 DEF ReadContent, RowsTyped
  <2>3. QED
    BY <1>0, <2>1, <2>2, UntouchedRows, QuietAnnouncement, FromRows
<1>3. ASSUME NEW t \in Targets, InsertTarget(t) PROVE IInv'
  <2>1. RowStep /\ NoContentFails
    BY <1>3, CreationRows, JobsAreContentsOrTargets
  <2>2. UNCHANGED <<worker, outbox>>
    BY <1>3 DEF InsertTarget
  <2>3. \A u \in Targets : reading'[u] = reading[u] \/ reading'[u] = Unread
    BY <1>0, <1>3 DEF InsertTarget, RowsTyped
  <2>4. QED
    BY <1>0, <2>1, <2>2, <2>3, QuietAnnouncement, FromRows
<1>4. ASSUME NEW j \in Jobs, NEW d \in Readings, Dispatch(j, d) PROVE IInv'
  <2>1. RowStep /\ NoContentFails
    BY <1>0, <1>4, DispatchRows
  <2>2. UNCHANGED <<reading, outbox>>
    BY <1>4 DEF Dispatch
  <2>3. ASSUME NEW i \in Jobs, NEW n \in Numbers
        PROVE  \/ worker'[i][n] = worker[i][n]
               \/ worker'[i][n] = "calling" /\ attempt'[i][n].status # "none"
    <3>1. CASE i = j /\ n = job[j].count + 1
      BY <1>0, <1>4, <3>1, DispatchedRow DEF Dispatch, RowsTyped
    <3>2. CASE ~(i = j /\ n = job[j].count + 1)
      BY <1>0, <1>4, <3>2 DEF Dispatch, RowsTyped
    <3>3. QED
      BY <3>1, <3>2
  <2>4. QED
    BY <1>0, <2>1, <2>2, <2>3, QuietAnnouncement, FromRows
<1>5. ASSUME NEW j \in Jobs, NEW t \in Readings, Expire(j, t) PROVE IInv'
  <2>1. RowStep /\ TerminalAnnounced'
    BY <1>0, <1>5, ExpireRows
  <2>2. UNCHANGED <<reading, worker>>
    BY <1>5 DEF Expire
  <2>3. QED
    BY <1>0, <2>1, <2>2, FromRows
<1>6. ASSUME NEW j \in Jobs, NEW n \in Numbers, WorkerGone(j, n) PROVE IInv'
  <2>1. UNCHANGED <<job, attempt, reading, outbox>>
    BY <1>6 DEF WorkerGone
  <2>2. \A i \in Jobs, m \in Numbers : worker'[i][m] \in {worker[i][m], "gone"}
    BY <1>0, <1>6 DEF WorkerGone, RowsTyped
  <2>3. QED
    BY <1>0, <2>1, <2>2, UntouchedRows, QuietAnnouncement, FromRows
<1>7. ASSUME NEW j \in Jobs, NEW n \in Numbers, MarkLate(j, n) PROVE IInv'
  <2>1. RowStep /\ NoContentFails
    BY <1>7, LateMarks, StaleRows DEF MarkLate
  <2>2. UNCHANGED <<reading, outbox>>
    BY <1>7 DEF MarkLate
  <2>3. \A i \in Jobs, m \in Numbers : worker'[i][m] \in {worker[i][m], "gone"}
    BY <1>0, <1>7 DEF MarkLate, RowsTyped
  <2>4. QED
    BY <1>0, <2>1, <2>2, <2>3, QuietAnnouncement, FromRows
<1>8. ASSUME NEW j \in Jobs, NEW n \in Numbers, NEW t \in Readings, NEW class \in FailureClass,
             ReportFailure(j, n, class, t)
      PROVE IInv'
  <2>1. RowStep /\ TerminalAnnounced'
    BY <1>0, <1>8, FailRows DEF ReportFailure
  <2>2. UNCHANGED <<reading, worker>>
    BY <1>8 DEF ReportFailure
  <2>3. QED
    BY <1>0, <2>1, <2>2, FromRows
<1>9. ASSUME NEW j \in Jobs, NEW n \in Numbers, NEW t \in Readings, NEW k \in Completions,
             SealLate(j, n, k, t)
      PROVE IInv'
  <2>1. ClassOfLate(j, n, k) \in FailureClass /\ worker[j][n] = "calling"
        /\ UNCHANGED reading
    BY <1>9 DEF ClassOfLate, FailureClass, SealLate, Calling
  <2>2. CASE /\ Fail(j, n, ClassOfLate(j, n, k), t)
             /\ worker' = [worker EXCEPT ![j][n] = "marking"]
    <3>1. RowStep /\ TerminalAnnounced'
      BY <1>0, <2>1, <2>2, FailRows
    <3>2. attempt'[j][n].status \notin {"none", "dispatching"}
      <4>1. attempt[j][n] \in AttemptRow
        BY <1>0 DEF RowsTyped
      <4>2. QED
        BY <1>0, <2>1, <2>2, <4>1, AttemptUpdates DEF Fail, RowsTyped
    <3>3. \A i \in Jobs, m \in Numbers :
            i # j \/ m # n => worker'[i][m] = worker[i][m]
      BY <1>0, <2>2 DEF RowsTyped
    <3>4. QED
      BY <1>0, <2>1, <3>1, <3>2, <3>3, FromRows
  <2>3. CASE /\ AlreadySettled(j, n, ClassOfLate(j, n, k)) /\ MarkStale(j, n)
             /\ worker' = [worker EXCEPT ![j][n] = "gone"]
             /\ UNCHANGED <<job, outbox>>
    <3>1. RowStep /\ NoContentFails
      BY <2>1, <2>3, LateMarks, StaleRows
    <3>2. \A i \in Jobs, m \in Numbers : worker'[i][m] \in {worker[i][m], "gone"}
      BY <1>0, <2>3 DEF RowsTyped
    <3>3. QED
      BY <1>0, <2>1, <2>3, <3>1, <3>2, QuietAnnouncement, FromRows
  <2>4. QED
    BY <1>9, <2>2, <2>3 DEF SealLate
<1>10. ASSUME NEW j \in Jobs, NEW n \in Numbers, NEW t \in Readings, NEW k \in Completions,
              SealWins(j, n, k, t)
       PROVE IInv'
  <2>1. RowStep /\ NoContentFails
    BY <1>0, <1>10, SealWinsRows
  <2>2. UNCHANGED <<reading, outbox>>
    BY <1>10 DEF SealWins
  <2>3. \A i \in Jobs, m \in Numbers : worker'[i][m] \in {worker[i][m], "gone"}
    BY <1>0, <1>10 DEF SealWins, RowsTyped
  <2>4. QED
    BY <1>0, <2>1, <2>2, <2>3, QuietAnnouncement, FromRows
<1>11. ASSUME NEW j \in Jobs, NEW n \in Numbers, NEW t \in Readings, NEW k \in Completions,
              SealLoses(j, n, k, t)
       PROVE IInv'
  <2>1. RowStep /\ NoContentFails
    BY <1>11, LateMarks, StaleRows DEF SealLoses, Calling
  <2>2. UNCHANGED <<reading, outbox>>
    BY <1>11 DEF SealLoses
  <2>3. \A i \in Jobs, m \in Numbers : worker'[i][m] \in {worker[i][m], "gone"}
    BY <1>0, <1>11 DEF SealLoses, RowsTyped
  <2>4. QED
    BY <1>0, <2>1, <2>2, <2>3, QuietAnnouncement, FromRows
<1>12. CASE Reconcile
  <2>1. RowStep /\ NoContentFails
    BY <1>12, ReconcileRows
  <2>2. UNCHANGED <<reading, worker, outbox>>
    BY <1>12 DEF Reconcile
  <2>3. QED
    BY <1>0, <2>1, <2>2, QuietAnnouncement, FromRows
<1>13. CASE Tick \/ UNCHANGED vars
  <2>1. UNCHANGED <<job, attempt, worker, reading, outbox>>
    BY <1>13 DEF Tick, vars, records
  <2>2. QED
    BY <1>0, <2>1, UntouchedRows, QuietAnnouncement, FromRows
<1>14. QED
  BY <1>1, <1>2, <1>3, <1>4, <1>5, <1>6, <1>7, <1>8, <1>9, <1>10, <1>11, <1>12, <1>13
  DEF Next, JobStep, AttemptStep

LEMMA Initially == Init => IInv
<1> SUFFICES ASSUME Init PROVE IInv
  OBVIOUS
<1> USE JobsAreContentsOrTargets DEF Init
<1>1. NoJob \in JobRow /\ NoAttempt \in AttemptRow
  BY DEF NoJob, NoAttempt, JobRow, AttemptRow, JobStatus, AttemptStatus
<1>2. RowsTyped
  BY <1>1 DEF RowsTyped, Unread
<1>3. AbsentIsEmpty /\ ContentsWaitForNothing /\ GatedByContent /\ TerminalAnnounced
  BY DEF AbsentIsEmpty, ContentsWaitForNothing, GatedByContent, TerminalAnnounced, NoJob
<1>4. OneActiveAttempt /\ SealedInTime
  <2>1. \A n \in Numbers : n \in Nat /\ n > 0 /\ n # 0
    BY AssessmentAssumption DEF Numbers
  <2>2. QED
    BY <2>1 DEF OneActiveAttempt, SealedInTime, NoJob, NoAttempt
<1>5. ReadingsStillTrue /\ CallersKnown
  BY DEF ReadingsStillTrue, CallersKnown, Unread
<1>6. QED
  BY <1>2, <1>3, <1>4, <1>5 DEF IInv

LEMMA Invariance == Spec => []IInv
BY Initially, InductiveStep, PTL DEF Spec

-----------------------------------------------------------------------------
(* The theorems.                                                           *)

(* The rows have their types, and no transaction is rolled back because a  *)
(* target with work or a result names no result of its content.            *)
THEOREM TypeCorrect == Spec => []TypeOK
<1>1. IInv => TypeOK
  <2> SUFFICES ASSUME IInv, NEW t \in Targets, job[t].basis = 0
      PROVE  job[t].status \in {"absent", "waiting_for_content", "blocked_dependency_terminal"}
    BY DEF IInv, TypeOK
  <2>1. ContentOf[t] \in Jobs
    BY JobsAreContentsOrTargets
  <2>2. QED
    BY <2>1 DEF IInv, GatedByContent, SealedInTime
<1>2. QED
  BY <1>1, Invariance, PTL

(* No interleaving of seals, failures, supervisors and watchdogs strands a *)
(* job in dispatching or lets two of its attempts be current.              *)
THEOREM OneActiveAttemptAlways == Spec => []OneActiveAttempt
BY Invariance, PTL DEF IInv

(* However a target's creation races with the end of its content, it works *)
(* on the sealed result or is blocked by the failure, and nothing else.    *)
THEOREM GatedByContentAlways == Spec => []GatedByContent
BY Invariance, PTL DEF IInv

(* A result is the last attempt's, and was finished in time.               *)
THEOREM SealedInTimeAlways == Spec => []SealedInTime
BY Invariance, PTL DEF IInv

(* A content fails and is announced as failed in one step.                 *)
THEOREM TerminalAnnouncedAlways == Spec => []TerminalAnnounced
BY Invariance, PTL DEF IInv

-----------------------------------------------------------------------------
(* The refinement: what the steps do to the outcomes.                      *)

Outcome == [j \in Jobs |-> OutcomeOf(job[j].status)]
Announced == {c \in Contents : outbox[c] # "absent"}

LEMMA OutcomesOfStatuses ==
  /\ \A s \in Dispatchable \cup {"waiting_for_content", "dispatching"} : OutcomeOf(s) = "open"
  /\ OutcomeOf("absent") = "absent" /\ OutcomeOf("complete") = "complete"
  /\ OutcomeOf("failed_terminal") = "failed"
  /\ OutcomeOf("blocked_dependency_terminal") = "blocked"
BY DEF OutcomeOf, Dispatchable

(* A content fails with the targets that wait for it, a target alone.      *)
LEMMA TerminalizedOutcome ==
  ASSUME IInv, NEW j \in Jobs, NEW t \in Nat,
         job[j].status \in Dispatchable \cup {"dispatching"},
         job' = Terminalized(j), Announce(j, t)
  PROVE  Outcomes!Next
<1> USE DEF IInv
<1>1. /\ job'[j].status = "failed_terminal"
      /\ \A k \in Waiters(j) : /\ k \in Jobs /\ k # j
                               /\ job'[k].status = "blocked_dependency_terminal"
                               /\ job[k].status = "waiting_for_content"
      /\ \A k \in Jobs \ {j} : k \notin Waiters(j) => job'[k] = job[k]
  BY TerminalizedRows, WaitersWait, JobsAreContentsOrTargets, EndedRow
  DEF RowsTyped, JobStatus, Final
<1>2. Outcome[j] = "open"
  BY OutcomesOfStatuses DEF Outcome
<1>3. Outcome' = [k \in Jobs |-> IF k = j THEN "failed"
                                 ELSE IF k \in Waiters(j) THEN "blocked" ELSE Outcome[k]]
  BY <1>1, OutcomesOfStatuses DEF Outcome
<1>4. CASE j \in Targets
  <2>1. Waiters(j) = {} /\ j \notin Contents
    BY <1>4, WaitersWait, JobsAreContentsOrTargets
  <2>2. Outcome' = [Outcome EXCEPT ![j] = "failed"]
    BY <1>3, <2>1 DEF Outcome
  <2>3. Announced' = Announced
    BY <2>1 DEF Announce, Announced
  <2>4. Outcome[ContentOf[j]] = "complete"
    <3>1. job[ContentOf[j]].status = "complete" /\ ContentOf[j] \in Jobs
      BY <1>4, JobsAreContentsOrTargets DEF GatedByContent, Dispatchable
    <3>2. QED
      BY <3>1, OutcomesOfStatuses DEF Outcome
  <2>5. Outcomes!Decide(j, "failed")
    BY <1>2, <2>2, <2>3, <2>4 DEF Outcomes!Decide, Outcome, Announced
  <2>6. QED
    BY <1>4, <2>5 DEF Outcomes!Next
<1>5. CASE j \in Contents
  <2>1. outbox[j] = "absent"
    BY <1>5 DEF TerminalAnnounced, Dispatchable
  <2>2. Announced' = Announced \cup {j}
    BY <1>5, <2>1 DEF Announce, Announced, RowsTyped
  <2>3. Waiters(j) \subseteq Outcomes!OpenTargets(j)
    <3> SUFFICES ASSUME NEW k \in Waiters(j) PROVE k \in Outcomes!OpenTargets(j)
      OBVIOUS
    <3>1. k \in Targets /\ ContentOf[k] = j /\ Outcome[k] = "open"
      BY <1>1, WaitersWait, OutcomesOfStatuses DEF Outcome
    <3>2. QED
      BY <3>1 DEF Outcomes!OpenTargets, Outcome
  <2>4. PICK S \in SUBSET Targets : S = Waiters(j)
    BY WaitersWait
  <2>5. Outcomes!Cascade(j, S)
    <3>1. Outcomes!Jobs = Jobs
      BY DEF Outcomes!Jobs, Jobs
    <3>2. Outcome' = [k \in Outcomes!Jobs |->
                        IF k = j THEN "failed"
                        ELSE IF k \in S THEN "blocked" ELSE Outcome[k]]
      BY <1>3, <2>4, <3>1
    <3>3. QED
      BY <1>2, <2>2, <2>3, <2>4, <3>2 DEF Outcomes!Cascade, Outcome, Announced
  <2>6. QED
    BY <1>5, <2>5 DEF Outcomes!Next
<1>6. QED
  BY <1>4, <1>5 DEF Jobs

LEMMA SealWinsOutcome ==
  ASSUME IInv, NEW j \in Jobs, NEW n \in Numbers, NEW k, NEW t, SealWins(j, n, k, t)
  PROVE  Outcomes!Next
<1> USE DEF IInv
<1>1. /\ job[j] \in JobRow /\ job[j].status = "dispatching" /\ UNCHANGED outbox
      /\ job' = Sealed(j, n)
  BY DEF SealWins, Owns, RowsTyped
<1>2. /\ job'[j] = Completed(job[j], n)
      /\ \A i \in Waiters(j) : /\ i \in Jobs /\ i # j /\ job[i] \in JobRow
                               /\ job'[i] = Activated(job[i], n)
                               /\ job[i].status = "waiting_for_content"
      /\ \A i \in Jobs \ {j} : i \notin Waiters(j) => job'[i] = job[i]
  BY <1>1, WaitersWait, JobsAreContentsOrTargets DEF Sealed, RowsTyped
<1>3. /\ job'[j].status = "complete"
      /\ \A i \in Waiters(j) : job'[i].status = "queued"
  BY <1>1, <1>2, ActivatedRow DEF Completed, JobRow
<1>4. Outcome[j] = "open" /\ Outcome' = [Outcome EXCEPT ![j] = "complete"]
  BY <1>1, <1>2, <1>3, OutcomesOfStatuses DEF Outcome, Dispatchable
<1>5. j \in Targets => Outcome[ContentOf[j]] = "complete"
  <2> SUFFICES ASSUME j \in Targets PROVE Outcome[ContentOf[j]] = "complete"
    OBVIOUS
  <2>1. job[ContentOf[j]].status = "complete" /\ ContentOf[j] \in Jobs
    BY <1>1, JobsAreContentsOrTargets DEF GatedByContent
  <2>2. QED
    BY <2>1, OutcomesOfStatuses DEF Outcome
<1>6. Outcomes!Decide(j, "complete")
  BY <1>1, <1>4, <1>5 DEF Outcomes!Decide, Outcome
<1>7. QED
  BY <1>6 DEF Outcomes!Next, Outcomes!Jobs, Jobs

LEMMA CreationOutcome ==
  ASSUME IInv, NEW j \in Jobs,
         \/ j \in Contents /\ CreateContent(j)
         \/ j \in Targets /\ InsertTarget(j)
  PROVE  Outcomes!Next
<1> USE DEF IInv
<1>1. job[j].status = "absent" /\ UNCHANGED outbox
  BY DEF CreateContent, InsertTarget
<1>2. PICK s \in {"queued", "waiting_for_content", "blocked_dependency_terminal"} :
        /\ job'[j].status = s /\ \A k \in Jobs \ {j} : job'[k] = job[k]
        /\ s = "blocked_dependency_terminal" =>
             /\ j \in Targets
             /\ job[ContentOf[j]].status = "failed_terminal"
  <2>1. CASE j \in Contents /\ CreateContent(j)
    <3>1. job' = [job EXCEPT ![j] = [NoJob EXCEPT !.status = "queued"]]
      BY <2>1 DEF CreateContent, RowsTyped, AbsentIsEmpty
    <3>2. job'[j].status = "queued" /\ \A k \in Jobs \ {j} : job'[k] = job[k]
      BY <3>1 DEF RowsTyped, NoJob
    <3>3. QED
      BY <3>2
  <2>2. CASE j \in Targets /\ InsertTarget(j)
    <3>1. FirstStatus(reading[j].status)
            \in {"queued", "waiting_for_content", "blocked_dependency_terminal"}
      BY DEF FirstStatus
    <3>2. job'[j].status = FirstStatus(reading[j].status)
          /\ \A k \in Jobs \ {j} : job'[k] = job[k]
      BY <2>2 DEF InsertTarget, RowsTyped, NoJob
    <3>3. QED
      BY <2>2, <3>1, <3>2 DEF FirstStatus, ReadingsStillTrue
  <2>3. QED
    BY <2>1, <2>2
<1>3. Outcome[j] = "absent" /\ Outcome' = [Outcome EXCEPT ![j] = OutcomeOf(s)]
  BY <1>1, <1>2, OutcomesOfStatuses DEF Outcome
<1>4. CASE s # "blocked_dependency_terminal"
  <2>1. OutcomeOf(s) = "open"
    BY <1>2, <1>4, OutcomesOfStatuses DEF Dispatchable
  <2>2. Outcomes!Open(j)
    BY <1>1, <1>3, <2>1 DEF Outcomes!Open, Outcome
  <2>3. QED
    BY <2>2 DEF Outcomes!Next, Outcomes!Jobs, Jobs
<1>5. CASE s = "blocked_dependency_terminal"
  <2>1. j \in Targets /\ ContentOf[j] \in Jobs /\ Outcome[ContentOf[j]] = "failed"
    BY <1>2, <1>5, JobsAreContentsOrTargets, OutcomesOfStatuses DEF Outcome
  <2>2. Outcome' = [k \in Jobs |-> IF k \in {j} THEN "blocked" ELSE Outcome[k]]
    BY <1>3, <1>5, OutcomesOfStatuses DEF Outcome
  <2>3. Outcomes!Block({j})
    <3>1. Outcomes!Jobs = Jobs
      BY DEF Outcomes!Jobs, Jobs
    <3>2. QED
      BY <1>1, <1>3, <2>1, <2>2, <3>1 DEF Outcomes!Block, Outcome
  <2>4. QED
    BY <2>1, <2>3 DEF Outcomes!Next
<1>6. QED
  BY <1>4, <1>5

LEMMA ReconcileOutcome ==
  ASSUME IInv, Reconcile
  PROVE  Outcomes!Next
<1> USE DEF IInv
<1>1. /\ Stranded # {} /\ Stranded \subseteq Targets /\ UNCHANGED outbox
      /\ \A k \in Stranded : /\ job[k].status = "waiting_for_content" /\ job[k].count = 0
                             /\ job[ContentOf[k]].status = "failed_terminal"
                             /\ k \in Jobs /\ ContentOf[k] \in Jobs
  BY JobsAreContentsOrTargets DEF Reconcile, Stranded, GatedByContent
<1>2. \A k \in Jobs :
        /\ k \in Stranded => job'[k].status = "blocked_dependency_terminal"
        /\ k \notin Stranded => job'[k] = job[k]
  BY <1>1, EndedRow DEF Reconcile, RowsTyped, JobStatus, Final
<1>3. Outcome' = [k \in Jobs |-> IF k \in Stranded THEN "blocked" ELSE Outcome[k]]
  BY <1>2, OutcomesOfStatuses DEF Outcome
<1>4. \A k \in Stranded : Outcome[k] = "open" /\ Outcome[ContentOf[k]] = "failed"
  BY <1>1, OutcomesOfStatuses DEF Outcome
<1>5. Outcomes!Block(Stranded)
  <2>1. Outcomes!Jobs = Jobs
    BY DEF Outcomes!Jobs, Jobs
  <2>2. QED
    BY <1>1, <1>3, <1>4, <2>1 DEF Outcomes!Block, Outcome
<1>6. QED
  BY <1>1, <1>5 DEF Outcomes!Next

(* All other steps leave the outcomes alone.                               *)
LEMMA SilentOutcome ==
  ASSUME IInv, UNCHANGED outbox,
         \A k \in Jobs : \/ job'[k].status = job[k].status
                         \/ /\ job[k].status \in Dispatchable \cup {"dispatching"}
                            /\ job'[k].status \in Dispatchable \cup {"dispatching"}
  PROVE  UNCHANGED Outcomes!outcomeVars
<1>1. Outcome' = Outcome
  BY OutcomesOfStatuses DEF Outcome
<1>2. QED
  BY <1>1 DEF Outcomes!outcomeVars, Outcome

LEMMA FailOutcome ==
  ASSUME IInv, NEW j \in Jobs, NEW n \in Numbers, NEW class, NEW t \in Nat,
         Fail(j, n, class, t)
  PROVE  [Outcomes!Next]_(Outcomes!outcomeVars)
<1>1. job[j].status = "dispatching" /\ job[j] \in JobRow
  BY DEF Fail, MayFail, Owns, IInv, RowsTyped
<1>2. CASE Fatal(j, n, class, t)
  BY <1>1, <1>2, TerminalizedOutcome DEF Fail
<1>3. CASE ~Fatal(j, n, class, t)
  <2>1. /\ UNCHANGED outbox
        /\ job'[j] = Retrying(job[j], RetryAt(j, n, t))
        /\ \A k \in Jobs \ {j} : job'[k] = job[k]
    BY <1>3 DEF Fail, IInv, RowsTyped
  <2>2. job'[j].status = "retry_wait"
    BY <1>1, <2>1 DEF Retrying, JobRow
  <2>3. QED
    BY <1>1, <2>1, <2>2, SilentOutcome DEF Dispatchable
<1>4. QED
  BY <1>2, <1>3

LEMMA InitOutcome == Init => Outcomes!Init
<1> SUFFICES ASSUME Init PROVE Outcomes!Init
  OBVIOUS
<1>1. \A j \in Jobs : OutcomeOf(job[j].status) = "absent"
  BY OutcomesOfStatuses DEF Init, NoJob
<1>2. {c \in Contents : outbox[c] # "absent"} = {}
  BY DEF Init
<1>3. QED
  BY <1>1, <1>2 DEF Outcomes!Init, Outcomes!Jobs, Jobs

(* Every step is a step of the abstract outcomes or leaves them alone.     *)
LEMMA StepOutcome == IInv /\ [Next]_vars => [Outcomes!Next]_(Outcomes!outcomeVars)
<1> SUFFICES ASSUME IInv, [Next]_vars PROVE [Outcomes!Next]_(Outcomes!outcomeVars)
  OBVIOUS
<1>0. Readings \subseteq Nat
  BY ReadingsAreTimes DEF IInv
<1>1. ASSUME NEW c \in Contents, CreateContent(c) PROVE Outcomes!Next
  BY <1>1, CreationOutcome, JobsAreContentsOrTargets
<1>2. ASSUME NEW t \in Targets, InsertTarget(t) PROVE Outcomes!Next
  BY <1>2, CreationOutcome, JobsAreContentsOrTargets
<1>3. ASSUME NEW j \in Jobs, NEW d \in Readings, Dispatch(j, d)
      PROVE  UNCHANGED Outcomes!outcomeVars
  <2>1. job[j] \in JobRow /\ job[j].status \in Dispatchable /\ UNCHANGED outbox
    BY <1>3 DEF IInv, RowsTyped, Dispatch, MayDispatch
  <2>2. /\ job'[j] = Dispatched(job[j])
        /\ \A k \in Jobs \ {j} : job'[k] = job[k]
    BY <1>3 DEF IInv, RowsTyped, Dispatch
  <2>3. QED
    BY <2>1, <2>2, DispatchedRow, SilentOutcome
<1>4. ASSUME NEW j \in Jobs, NEW t \in Readings, Expire(j, t) PROVE Outcomes!Next
  BY <1>0, <1>4, TerminalizedOutcome DEF Expire
<1>5. ASSUME NEW j \in Jobs, NEW n \in Numbers, NEW t \in Readings, NEW class \in FailureClass,
             ReportFailure(j, n, class, t)
      PROVE  [Outcomes!Next]_(Outcomes!outcomeVars)
  BY <1>0, <1>5, FailOutcome DEF ReportFailure
<1>6. ASSUME NEW j \in Jobs, NEW n \in Numbers, NEW t \in Readings, NEW k \in Completions,
             SealLate(j, n, k, t)
      PROVE  [Outcomes!Next]_(Outcomes!outcomeVars)
  <2>1. CASE Fail(j, n, ClassOfLate(j, n, k), t)
    BY <1>0, <2>1, FailOutcome
  <2>2. CASE UNCHANGED <<job, outbox>>
    BY <2>2, SilentOutcome
  <2>3. QED
    BY <1>6, <2>1, <2>2 DEF SealLate
<1>7. ASSUME NEW j \in Jobs, NEW n \in Numbers, NEW t \in Readings, NEW k \in Completions,
             SealWins(j, n, k, t)
      PROVE  Outcomes!Next
  BY <1>7, SealWinsOutcome
<1>8. CASE Reconcile
  BY <1>8, ReconcileOutcome
<1>9. CASE UNCHANGED <<job, outbox>>
  BY <1>9, SilentOutcome
<1>10. \/ UNCHANGED <<job, outbox>> \/ Reconcile
       \/ \E c \in Contents : CreateContent(c)
       \/ \E t \in Targets : InsertTarget(t)
       \/ \E j \in Jobs :
            \/ \E d \in Readings : Dispatch(j, d) \/ Expire(j, d)
            \/ \E n \in Numbers, t \in Readings :
                 \/ \E class \in FailureClass : ReportFailure(j, n, class, t)
                 \/ \E k \in Completions : SealLate(j, n, k, t) \/ SealWins(j, n, k, t)
  BY DEF Next, JobStep, AttemptStep, ReadContent, WorkerGone, MarkLate, SealLoses, Tick,
         vars, records
<1>11. QED
  BY <1>1, <1>2, <1>3, <1>4, <1>5, <1>6, <1>7, <1>8, <1>9, <1>10

(* Assessments, with their attempts, retries, races and watchdogs,         *)
(* implement the abstract outcomes: a job gets at most one and keeps it.   *)
THEOREM Refinement == Spec => ImplementsOutcome
BY InitOutcome, StepOutcome, Invariance, PTL DEF Spec, ImplementsOutcome, Outcomes!Spec
=============================================================================
