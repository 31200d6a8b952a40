----------------------- MODULE ArtifactProductionProofs -----------------------
(***************************************************************************)
(* Machine-checked proofs about the composition of the assessments with    *)
(* the artifact producer: for any number of producers, deltas and poisoned *)
(* deltas, any batch limit and any number of killed ticks and failed items. *)
(***************************************************************************)
EXTENDS ArtifactProduction, AssessmentProofs

ProductionTyped ==
  /\ deltabox \in [Deltas -> {"absent", "pending", "delivered"}]
  /\ deltaSince \in [Deltas -> Nat]
  /\ artifact \subseteq Contents
  /\ superseded \subseteq Deltas
  /\ batch \in [Producers -> SUBSET Items]
  /\ mishaps \in 0..MaxMishaps

(* What a delivered row of the outbox stands for, on either side of it.    *)
ProductionInv == IInv /\ ProductionTyped /\ DeliveredOnce

-----------------------------------------------------------------------------
(* The assessments and the producer share only the outbox.                 *)

LEMMA ItemsAreContentsOrDeltas ==
  /\ Contents \subseteq Items /\ Deltas \subseteq Items
  /\ \A d \in Deltas : d \notin Contents
  /\ \A i \in Items : i \in Contents \/ i \in Deltas
BY ProductionAssumption DEF Items, Jobs

(* An assessment never takes an announcement back, nor delivers one.       *)
LEMMA AssessmentsOnlyAnnounce ==
  ASSUME IInv, [Next]_vars, NEW c \in Contents
  PROVE  outbox'[c] = outbox[c] \/ (outbox[c] = "absent" /\ outbox'[c] = "pending")
<1>1. ASSUME NEW j \in Jobs, NEW t, Announce(j, t)
      PROVE  outbox'[c] = outbox[c] \/ (outbox[c] = "absent" /\ outbox'[c] = "pending")
  BY <1>1 DEF Announce, IInv, RowsTyped
<1>2. CASE outbox' = outbox
  BY <1>2
<1>3. CASE \E j \in Jobs : \E t : Announce(j, t)
  BY <1>1, <1>3
<1>4. ASSUME NEW j \in Jobs, JobStep(j)
      PROVE  outbox' = outbox \/ \E t : Announce(j, t)
  <2>1. ASSUME NEW n \in Numbers, NEW class, NEW t, Fail(j, n, class, t)
        PROVE  outbox' = outbox \/ Announce(j, t)
    BY <2>1 DEF Fail
  <2>2. ASSUME NEW n \in Numbers, AttemptStep(j, n)
        PROVE  \/ outbox' = outbox
               \/ \E class, t : Fail(j, n, class, t)
    BY <2>2 DEF AttemptStep, WorkerGone, MarkLate, ReportFailure, SealLate, SealWins, SealLoses
  <2>3. ASSUME NEW t, Dispatch(j, t) \/ Expire(j, t)
        PROVE  outbox' = outbox \/ Announce(j, t)
    BY <2>3 DEF Dispatch, Expire
  <2>4. QED
    BY <1>4, <2>1, <2>2, <2>3 DEF JobStep
<1>5. CASE ~ \E j \in Jobs : JobStep(j)
  BY <1>5 DEF Next, CreateContent, ReadContent, InsertTarget, Reconcile, Tick, vars
<1>6. QED
  BY <1>2, <1>3, <1>4, <1>5

(* Failure is final: read off the abstract outcomes, none of whose steps   *)
(* touches a job that has one.                                             *)
LEMMA FailureIsFinal ==
  ASSUME IInv, IInv', [Next]_vars, NEW c \in Contents, job[c].status = "failed_terminal"
  PROVE  job'[c].status = "failed_terminal"
<1>1. c \in Jobs /\ c \notin Targets
  BY JobsAreContentsOrTargets
<1>2. Outcome[c] = "failed"
  BY <1>1, OutcomesOfStatuses DEF Outcome
<1>3. [Outcomes!Next]_(Outcomes!outcomeVars)
  BY StepOutcome
<1>4. Outcome'[c] = "failed"
  <2>1. Outcome \in [Jobs -> {OutcomeOf(s) : s \in JobStatus}]
    BY DEF Outcome, IInv, RowsTyped, JobRow
  <2>2. CASE Outcomes!Next
    <3>1. CASE \E j \in Outcomes!Jobs : Outcomes!Open(j) \/ Outcomes!Decide(j, "complete")
      BY <1>1, <1>2, <2>1, <3>1 DEF Outcomes!Open, Outcomes!Decide, Outcome
    <3>2. CASE \E t \in Targets : Outcomes!Decide(t, "failed")
      BY <1>1, <1>2, <2>1, <3>2 DEF Outcomes!Decide, Outcome
    <3>3. CASE \E S \in SUBSET Targets : Outcomes!Block(S)
      BY <1>1, <1>2, <3>3 DEF Outcomes!Block, Outcomes!Jobs, Jobs, Outcome
    <3>4. CASE \E b \in Contents, S \in SUBSET Targets : Outcomes!Cascade(b, S)
      BY <1>1, <1>2, <3>4 DEF Outcomes!Cascade, Outcomes!Jobs, Jobs, Outcome
    <3>5. QED
      BY <2>2, <3>1, <3>2, <3>3, <3>4 DEF Outcomes!Next
  <2>3. CASE UNCHANGED Outcomes!outcomeVars
    BY <1>2, <2>3 DEF Outcomes!outcomeVars, Outcome
  <2>4. QED
    BY <1>3, <2>2, <2>3
<1>5. OutcomeOf(job'[c].status) = "failed"
  BY <1>1, <1>4 DEF Outcome
<1>6. QED
  BY <1>5 DEF OutcomeOf

(* The producer changes nothing of the assessments but their outbox, and   *)
(* there only a pending row.                                               *)
LEMMA ProductionKeepsAssessments ==
  ASSUME IInv, UNCHANGED <<now, records, reading, since>>,
         outbox' \in [Contents -> {"absent", "pending", "delivered"}],
         \A c \in Contents : outbox'[c] = "absent" <=> outbox[c] = "absent"
  PROVE  /\ IInv'
         /\ UNCHANGED Outcomes!outcomeVars
<1>1. UNCHANGED <<now, job, attempt, worker, reading, since>>
  BY DEF records
<1>2. RowsTyped' /\ TerminalAnnounced'
  BY <1>1 DEF IInv, RowsTyped, TerminalAnnounced
<1>3. OneActiveAttempt' /\ SealedInTime' /\ GatedByContent'
  BY <1>1 DEF IInv, OneActiveAttempt, Owns, SealedInTime, GatedByContent
<1>4. IInv'
  BY <1>1, <1>2, <1>3
  DEF IInv, AbsentIsEmpty, ContentsWaitForNothing, ReadingsStillTrue, CallersKnown
<1>5. UNCHANGED Outcomes!outcomeVars
  BY <1>1 DEF Outcomes!outcomeVars
<1>6. QED
  BY <1>4, <1>5

-----------------------------------------------------------------------------
(* Steps of the producer that move no row.                                 *)
QuietProduction ==
  /\ UNCHANGED <<vars, deltabox, deltaSince, artifact, superseded, receipt>>
  /\ batch' \in [Producers -> SUBSET Items]
  /\ mishaps' \in 0..MaxMishaps

LEMMA QuietSteps ==
  ASSUME ProductionInv, NEW p \in Producers,
         \/ StartTick(p) \/ KillTick(p)
         \/ \E i \in Items : PassOver(p, i)
  PROVE  QuietProduction
<1>1. CASE StartTick(p)
  <2>1. PICK S \in Oldest(PendingAt(now)) : batch' = [batch EXCEPT ![p] = S]
    BY <1>1 DEF StartTick
  <2>2. S \subseteq Items
    BY <2>1 DEF Oldest, PendingAt
  <2>3. QED
    BY <1>1, <2>1, <2>2 DEF StartTick, QuietProduction, ProductionInv, ProductionTyped
<1>2. CASE KillTick(p)
  <2>1. mishaps' \in 0..MaxMishaps
    BY <1>2, ProductionAssumption DEF KillTick, ProductionInv, ProductionTyped
  <2>2. QED
    BY <1>2, <2>1 DEF KillTick, QuietProduction, ProductionInv, ProductionTyped
<1>3. CASE \E i \in Items : PassOver(p, i)
  <2>1. mishaps' \in 0..MaxMishaps
    BY <1>3, ProductionAssumption DEF PassOver, Raises, ProductionInv, ProductionTyped
  <2>2. QED
    BY <1>3, <2>1 DEF PassOver, Leave, QuietProduction, ProductionInv, ProductionTyped
<1>4. QED
  BY <1>1, <1>2, <1>3

LEMMA QuietInv == ProductionInv /\ QuietProduction => ProductionInv'
<1> SUFFICES ASSUME ProductionInv, QuietProduction PROVE ProductionInv'
  OBVIOUS
<1>1. IInv'
  BY ProductionKeepsAssessments DEF ProductionInv, QuietProduction, IInv, RowsTyped, vars
<1>2. ProductionTyped'
  BY DEF ProductionInv, QuietProduction, ProductionTyped
<1>3. DeliveredOnce'
  BY DEF ProductionInv, QuietProduction, DeliveredOnce, BoxOf, vars, records
<1>4. QED
  BY <1>1, <1>2, <1>3 DEF ProductionInv

(* The savepoint of one item: its row, its product and its receipt.        *)
LEMMA ProduceKeepsAssessments ==
  ASSUME ProductionInv, NEW p \in Producers, NEW i \in Items, Produce(p, i)
  PROVE  IInv' /\ UNCHANGED Outcomes!outcomeVars
<1>1. /\ outbox' \in [Contents -> {"absent", "pending", "delivered"}]
      /\ \A c \in Contents : outbox'[c] = "absent" <=> outbox[c] = "absent"
  <2>1. CASE i \in Contents
    BY <2>1 DEF Produce, MayProduce, BoxOf, ProductionInv, IInv, RowsTyped
  <2>2. CASE i \notin Contents
    BY <2>2 DEF Produce, ProductionInv, IInv, RowsTyped
  <2>3. QED
    BY <2>1, <2>2
<1>2. QED
  BY <1>1, ProductionKeepsAssessments DEF Produce, ProductionInv

LEMMA ProduceInv ==
  ASSUME ProductionInv, NEW p \in Producers, NEW i \in Items, Produce(p, i)
  PROVE  ProductionInv'
<1> USE ItemsAreContentsOrDeltas
<1>1. IInv'
  BY ProduceKeepsAssessments
<1>2. ProductionTyped'
  <2>1. batch' \in [Producers -> SUBSET Items]
    BY DEF Produce, Leave, ProductionInv, ProductionTyped
  <2>2. CASE i \in Contents
    BY <2>1, <2>2 DEF Produce, ProductionInv, ProductionTyped
  <2>3. CASE i \in Deltas
    BY <2>1, <2>3 DEF Produce, ProductionInv, ProductionTyped
  <2>4. QED
    BY <2>2, <2>3
<1>3. \A k \in Items : BoxOf(k)' = IF k = i THEN "delivered" ELSE BoxOf(k)
  <2>1. CASE i \in Contents
    BY <2>1 DEF Produce, BoxOf, ProductionInv, ProductionTyped, IInv, RowsTyped
  <2>2. CASE i \in Deltas
    BY <2>2 DEF Produce, BoxOf, ProductionInv, ProductionTyped, IInv, RowsTyped
  <2>3. QED
    BY <2>1, <2>2
<1>4. receipt' = receipt \cup {i} /\ job' = job
  BY DEF Produce, records
<1>5. \A k \in Items : BoxOf(k)' = "delivered" <=> k \in receipt'
  BY <1>3, <1>4 DEF ProductionInv, DeliveredOnce
<1>6. receipt' = artifact' \cup superseded'
  BY <1>4 DEF Produce, ProductionInv, DeliveredOnce
<1>7. \A c \in artifact' : job'[c].status = "failed_terminal"
  BY <1>4 DEF Produce, MayProduce, ProductionInv, DeliveredOnce
<1>8. DeliveredOnce'
  BY <1>5, <1>6, <1>7 DEF DeliveredOnce
<1>9. QED
  BY <1>1, <1>2, <1>8 DEF ProductionInv

LEMMA SealDeltaInv ==
  ASSUME ProductionInv, NEW d \in Deltas, SealDelta(d)
  PROVE  ProductionInv'
<1> USE ItemsAreContentsOrDeltas
<1>1. IInv'
  BY ProductionKeepsAssessments DEF SealDelta, ProductionInv, IInv, RowsTyped, vars
<1>2. ProductionTyped'
  BY DEF SealDelta, ProductionInv, ProductionTyped, IInv, RowsTyped
<1>3. /\ \A k \in Items : BoxOf(k)' = IF k = d THEN "pending" ELSE BoxOf(k)
      /\ BoxOf(d) = "absent"
  BY DEF SealDelta, BoxOf, ProductionInv, ProductionTyped, vars
<1>4. UNCHANGED <<receipt, artifact, superseded, job>>
  BY DEF SealDelta, vars, records
<1>5. DeliveredOnce'
  BY <1>3, <1>4 DEF ProductionInv, DeliveredOnce
<1>6. QED
  BY <1>1, <1>2, <1>5 DEF ProductionInv

LEMMA AssessmentInv ==
  ASSUME ProductionInv, [Next]_vars, UNCHANGED production
  PROVE  ProductionInv'
<1> USE ItemsAreContentsOrDeltas
<1>1. IInv'
  BY InductiveStep DEF ProductionInv
<1>2. UNCHANGED <<deltabox, deltaSince, artifact, superseded, receipt, batch, mishaps>>
  BY DEF production
<1>3. ProductionTyped'
  BY <1>2 DEF ProductionInv, ProductionTyped
<1>4. \A k \in Items : BoxOf(k)' = "delivered" <=> BoxOf(k) = "delivered"
  BY <1>2, AssessmentsOnlyAnnounce DEF ProductionInv, BoxOf
<1>5. \A c \in artifact' : job'[c].status = "failed_terminal"
  BY <1>1, <1>2, FailureIsFinal DEF ProductionInv, ProductionTyped, DeliveredOnce
<1>6. DeliveredOnce'
  BY <1>2, <1>4, <1>5 DEF ProductionInv, DeliveredOnce
<1>7. QED
  BY <1>1, <1>3, <1>6 DEF ProductionInv

LEMMA ProductionInitially == ProductionInit => ProductionInv
<1> SUFFICES ASSUME ProductionInit PROVE ProductionInv
  OBVIOUS
<1>1. IInv
  BY Initially DEF ProductionInit
<1>2. ProductionTyped
  BY ProductionAssumption DEF ProductionInit, ProductionTyped
<1>3. DeliveredOnce
  BY ItemsAreContentsOrDeltas DEF ProductionInit, Init, DeliveredOnce, BoxOf
<1>4. QED
  BY <1>1, <1>2, <1>3 DEF ProductionInv

LEMMA ProductionStep == ProductionInv /\ [ProductionNext]_allVars => ProductionInv'
<1> SUFFICES ASSUME ProductionInv, [ProductionNext]_allVars PROVE ProductionInv'
  OBVIOUS
<1>1. CASE ProductionNext
  BY <1>1, AssessmentInv, SealDeltaInv, ProduceInv, QuietSteps, QuietInv
  DEF ProductionNext, TickStep
<1>2. CASE UNCHANGED allVars
  BY <1>2, AssessmentInv DEF allVars
<1>3. QED
  BY <1>1, <1>2

LEMMA ProductionInvariance == ProductionSpec => []ProductionInv
BY ProductionInitially, ProductionStep, PTL DEF ProductionSpec

-----------------------------------------------------------------------------
(* A row of the outbox is delivered together with its receipt and its      *)
(* product, and nothing is produced for a content that did not fail, for   *)
(* any number of ticks over the same batch and wherever they are killed.   *)
THEOREM DeliveredOnceAlways == ProductionSpec => []DeliveredOnce
BY ProductionInvariance, PTL DEF ProductionInv

(* The producer breaks nothing the assessments promise: their invariants   *)
(* hold in the composition too.                                            *)
THEOREM AssessmentsBesideProduction ==
  ProductionSpec => [](OneActiveAttempt /\ GatedByContent /\ SealedInTime /\ TerminalAnnounced)
BY ProductionInvariance, PTL DEF ProductionInv, IInv

(* A delivery is never undone: what the producer has delivered no later    *)
(* assessment, tick or kill makes pending again.                           *)
DeliveredForGood ==
  [][\A i \in Items : BoxOf(i) = "delivered" => BoxOf(i)' = "delivered"]_allVars

THEOREM DeliveredForGoodAlways == ProductionSpec => DeliveredForGood
<1> USE ItemsAreContentsOrDeltas
<1>1. ASSUME ProductionInv, [ProductionNext]_allVars, NEW i \in Items, BoxOf(i) = "delivered"
      PROVE  BoxOf(i)' = "delivered"
  <2>1. CASE [Next]_vars /\ UNCHANGED production
    BY <1>1, <2>1, AssessmentsOnlyAnnounce DEF ProductionInv, BoxOf, production
  <2>2. CASE \E d \in Deltas : SealDelta(d)
    BY <1>1, <2>2 DEF SealDelta, BoxOf, ProductionInv, ProductionTyped, vars
  <2>3. ASSUME NEW p \in Producers, NEW k \in Items, Produce(p, k)
        PROVE  BoxOf(i)' = "delivered"
    BY <1>1, <2>3 DEF Produce, BoxOf, ProductionInv, ProductionTyped, IInv, RowsTyped
  <2>4. CASE QuietProduction
    BY <1>1, <2>4 DEF QuietProduction, BoxOf, vars
  <2>5. QED
    BY <1>1, <2>1, <2>2, <2>3, <2>4, QuietSteps DEF ProductionNext, TickStep, allVars
<1>2. ProductionInv /\ [ProductionNext]_allVars
      => [\A i \in Items : BoxOf(i) = "delivered" => BoxOf(i)' = "delivered"]_allVars
  BY <1>1
<1>3. QED
  BY <1>2, ProductionInvariance, PTL DEF ProductionSpec, DeliveredForGood

(* The composition still implements the abstract outcomes: a production is *)
(* a stutter of theirs.                                                    *)
THEOREM ProductionRefinement == ProductionSpec => ImplementsOutcome
<1>1. ProductionInit => Outcomes!Init
  BY InitOutcome DEF ProductionInit
<1>2. ProductionInv /\ [ProductionNext]_allVars => [Outcomes!Next]_(Outcomes!outcomeVars)
  <2> SUFFICES ASSUME ProductionInv, [ProductionNext]_allVars
               PROVE  [Outcomes!Next]_(Outcomes!outcomeVars)
    OBVIOUS
  <2>1. CASE [Next]_vars
    BY <2>1, StepOutcome DEF ProductionInv
  <2>2. CASE \E p \in Producers, i \in Items : Produce(p, i)
    BY <2>2, ProduceKeepsAssessments
  <2>3. CASE UNCHANGED vars
    BY <2>3, StepOutcome DEF ProductionInv
  <2>4. QED
    BY <2>1, <2>2, <2>3, QuietSteps
    DEF ProductionNext, TickStep, SealDelta, QuietProduction, allVars
<1>3. QED
  BY <1>1, <1>2, ProductionInvariance, PTL DEF ProductionSpec, ImplementsOutcome, Outcomes!Spec
=============================================================================
