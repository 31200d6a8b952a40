------------------------ MODULE ModelAdmissionProofs ------------------------
(* Safety of the admission controller for any number of submissions, any    *)
(* priorities, deadlines and predictions.                                   *)
EXTENDS ModelAdmission, FiniteSetTheorems, TLAPS

(* The worker holds a task exactly between the pop and the clearing of the  *)
(* active fields, and the task it holds has left the heap.                  *)
HoldsOneTask ==
  /\ active \in Tasks <=> pc \in {"checking", "running", "clearing"}
  /\ pc \in {"checking", "running"} => active \notin queue

(* The heap is finite: it grows by one task at a time.                      *)
FiniteHeap == IsFiniteSet(queue)

Inv == TypeOK /\ FiniteHeap /\ HoldsOneTask /\ NothingLost /\ BackgroundToldToYield

-----------------------------------------------------------------------------
(* What Admit does, whichever of its three ends it takes.                   *)
LEMMA AdmitEffect ==
  ASSUME Inv, NEW t \in Tasks, Admit(t)
  PROVE  /\ future[t] = "none"
         /\ UNCHANGED <<now, active, startedAt, batch, graceUntil, pc>>
         /\ clocked' = [clocked EXCEPT ![t] = 0]
         /\ \/ /\ future' = [future EXCEPT ![t] = "predicted"]
               /\ UNCHANGED <<queue, order, arrivals, cancelled, notified>>
            \/ /\ future' = [future EXCEPT ![t] = "full"]
               /\ AskActiveToYield(t)
               /\ UNCHANGED <<queue, order, arrivals, notified>>
            \/ /\ ~Full
               /\ future' = [future EXCEPT ![t] = "pending"]
               /\ AskActiveToYield(t)
               /\ queue' = queue \cup {t}
               /\ order' = [order EXCEPT ![t] = arrivals]
               /\ arrivals' = arrivals + 1
               /\ notified' = Notifies
BY DEF Admit

(* Setting a cancel event keeps every event that was set.                   *)
LEMMA YieldEffect ==
  ASSUME TypeOK, NEW t \in Tasks, AskActiveToYield(t)
  PROVE  /\ cancelled' \in [Tasks -> Nat \cup {Unset}]
         /\ \A u \in Tasks : cancelled[u] # Unset => cancelled'[u] # Unset
         /\ t \in Interactive /\ active \in Preemptible /\ active \in Tasks
            => cancelled'[active] # Unset
<1>1. CASE t \in Interactive /\ active \in Preemptible
  <2>1. active \in Tasks
    BY <1>1, AdmissionAssumption
  <2>2. now \in Nat /\ now # Unset
    BY DEF TypeOK, Unset
  <2> QED
    BY <1>1, <2>1, <2>2 DEF TypeOK, AskActiveToYield
<1>2. CASE ~(t \in Interactive /\ active \in Preemptible)
  <2>1. cancelled' = cancelled
    BY <1>2 DEF AskActiveToYield
  <2> QED
    BY <1>2, <2>1 DEF TypeOK
<1> QED
  BY <1>1, <1>2

(* The three ways the worker takes a task all take the head of the heap.    *)
LEMMA PopTakesHead ==
  ASSUME Inv, NEW t \in Tasks, Take(t) \/ EndGrace(t)
  PROVE  /\ t \in queue
         /\ \A u \in queue : ~Outranks(u, t)
         /\ Pop(t)
         /\ pc \in {"looping", "asleep", "grace"}
BY DEF Take, EndGrace, IsHead, Awake

(* A heap within its limit stays within it.                                 *)
LEMMA HeapBound ==
  ASSUME Inv, NEW t \in Tasks
  PROVE  /\ IsFiniteSet(queue \cup {t}) /\ IsFiniteSet(queue \ {t})
         /\ ~Full => Cardinality(queue \cup {t}) <= QueueMax
         /\ Cardinality(queue \ {t}) <= QueueMax
<1>1. IsFiniteSet(queue) /\ Cardinality(queue) \in Nat /\ Cardinality(queue) <= QueueMax
  BY FS_CardinalityType DEF Inv, FiniteHeap, TypeOK
<1>2. QueueMax \in Nat
  BY AdmissionAssumption
<1>3. /\ IsFiniteSet(queue \cup {t})
      /\ Cardinality(queue \cup {t}) = IF t \in queue THEN Cardinality(queue)
                                       ELSE Cardinality(queue) + 1
  BY <1>1, FS_AddElement
<1>4. /\ IsFiniteSet(queue \ {t})
      /\ Cardinality(queue \ {t}) = IF t \in queue THEN Cardinality(queue) - 1
                                    ELSE Cardinality(queue)
  BY <1>1, FS_RemoveElement
<1> QED
  BY <1>1, <1>2, <1>3, <1>4 DEF Full

-----------------------------------------------------------------------------
LEMMA InitInv == Init => Inv
<1> SUFFICES ASSUME Init PROVE Inv
  OBVIOUS
<1>1. IsFiniteSet({}) /\ Cardinality({}) = 0
  BY FS_EmptySet
<1>2. TypeOK
  <2>1. Cardinality(queue) <= QueueMax
    BY <1>1, AdmissionAssumption DEF Init
  <2>2. batch \in BOOLEAN /\ notified \in BOOLEAN
    BY DEF Init
  <2> QED
    BY <2>1, <2>2 DEF Init, TypeOK, Unset
<1>3. FiniteHeap /\ HoldsOneTask /\ NothingLost /\ BackgroundToldToYield
  BY <1>1, AdmissionAssumption
  DEF Init, FiniteHeap, HoldsOneTask, NothingLost, BackgroundToldToYield
<1> QED
  BY <1>2, <1>3 DEF Inv

LEMMA AdmitInv ==
  ASSUME Inv, NEW t \in Tasks, Admit(t)
  PROVE  Inv'
<1> USE AdmissionAssumption
<1>1. t \notin queue /\ (pc \in {"checking", "running"} => t # active)
  BY AdmitEffect DEF Inv, NothingLost
<1>2. cancelled' \in [Tasks -> Nat \cup {Unset}]
  BY AdmitEffect, YieldEffect DEF Inv, TypeOK
<1>3. \A u \in Tasks : cancelled[u] # Unset => cancelled'[u] # Unset
  BY AdmitEffect, YieldEffect DEF Inv, TypeOK
<1>4. FiniteHeap'
  BY AdmitEffect, HeapBound DEF Inv, FiniteHeap
<1>5. Cardinality(queue') <= QueueMax
  BY AdmitEffect, HeapBound DEF Inv, TypeOK
<1>6. TypeOK'
  <2>1. Notifies \in BOOLEAN
    BY DEF Notifies
  <2>2. notified' \in BOOLEAN
    BY AdmitEffect, <2>1 DEF Inv, TypeOK
  <2>3. order' \in [Tasks -> Nat] /\ arrivals' \in Nat /\ queue' \in SUBSET Tasks
    BY AdmitEffect DEF Inv, TypeOK
  <2> QED
    BY AdmitEffect, <1>2, <1>5, <2>2, <2>3 DEF Inv, TypeOK, Rejections, Endings
<1>7. HoldsOneTask'
  BY AdmitEffect, <1>1 DEF Inv, HoldsOneTask
<1>8. NothingLost'
  BY AdmitEffect, <1>1 DEF Inv, TypeOK, NothingLost
<1>9. BackgroundToldToYield'
  <2> SUFFICES ASSUME queue' \cap Interactive # {}, active \in Preemptible, pc # "clearing"
               PROVE  cancelled'[active] # Unset
    BY AdmitEffect DEF BackgroundToldToYield
  <2>1. active \in Tasks
    OBVIOUS
  <2>2. CASE queue \cap Interactive # {}
    BY <2>1, <2>2, <1>3 DEF Inv, BackgroundToldToYield
  <2>3. CASE queue \cap Interactive = {}
    <3>1. t \in Interactive /\ AskActiveToYield(t)
      BY <2>3, AdmitEffect
    <3> QED
      BY <2>1, <3>1, YieldEffect DEF Inv
  <2> QED
    BY <2>2, <2>3
<1> QED
  BY <1>4, <1>6, <1>7, <1>8, <1>9 DEF Inv

LEMMA PopInv ==
  ASSUME Inv, NEW t \in Tasks, Take(t) \/ EndGrace(t)
  PROVE  Inv'
<1> USE AdmissionAssumption
<1>1. t \in queue /\ Pop(t) /\ pc \in {"looping", "asleep", "grace"}
  BY PopTakesHead
<1>2. active \notin Tasks
  BY <1>1 DEF Inv, HoldsOneTask
<1>3. FiniteHeap' /\ Cardinality(queue') <= QueueMax
  BY <1>1, HeapBound DEF Pop, FiniteHeap
<1>4. TypeOK'
  <2>1. (t \in Background) \in BOOLEAN
    OBVIOUS
  <2>2. batch' \in BOOLEAN /\ notified' \in BOOLEAN
    BY <1>1, <2>1 DEF Pop
  <2>3. /\ now' \in Nat /\ startedAt' \in Nat /\ graceUntil' \in Nat
        /\ order' \in [Tasks -> Nat] /\ queue' \in SUBSET Tasks
    BY <1>1 DEF Inv, TypeOK, Pop
  <2> QED
    BY <1>1, <1>3, <2>2, <2>3 DEF Inv, TypeOK, Pop
<1>5. HoldsOneTask'
  BY <1>1 DEF HoldsOneTask, Pop
<1>6. NothingLost'
  BY <1>1, <1>2 DEF Inv, NothingLost, Pop
<1>7. BackgroundToldToYield'
  <2> SUFFICES ASSUME t \in Preemptible, NEW u \in queue, u \in Interactive
               PROVE  FALSE
    BY <1>1 DEF BackgroundToldToYield, Pop
  <2>1. u \in Tasks /\ Priority[u] = 0 /\ Priority[t] >= 10 /\ Priority[t] \in Nat
    BY DEF Inv, TypeOK, Interactive
  <2>2. Outranks(u, t)
    BY <2>1 DEF Outranks
  <2> QED
    BY <2>2, PopTakesHead
<1> QED
  BY <1>3, <1>4, <1>5, <1>6, <1>7 DEF Inv

(* Steps that leave the heap, the active task and the cancel events alone.  *)
LEMMA OtherStepInv ==
  ASSUME Inv,
         \/ Tick \/ Rest \/ CheckDeadline \/ Complete \/ Clear
         \/ \E t \in Tasks : Arrive(t) \/ Reenter(t) \/ StartGrace(t)
  PROVE  Inv'
<1> USE AdmissionAssumption
<1> USE DEF submission, worker
<1>1. queue' = queue /\ cancelled' = cancelled
  BY DEF Tick, Rest, CheckDeadline, Complete, Clear, Arrive, Reenter, StartGrace
<1>2. FiniteHeap' /\ Cardinality(queue') <= QueueMax
  BY <1>1 DEF Inv, FiniteHeap, TypeOK
<1>3. CASE Tick \/ Rest \/ \E t \in Tasks : StartGrace(t)
  <2>1. /\ UNCHANGED <<clocked, future, order, arrivals, active, startedAt>>
        /\ pc' \in {"looping", "asleep", "grace"} \/ pc' = pc
        /\ pc' = pc \/ pc \in {"looping", "asleep"}
    BY <1>3 DEF Tick, Rest, StartGrace, Awake
  <2>2. now' \in Nat /\ graceUntil' \in Nat
    BY <1>3 DEF Inv, TypeOK, Tick, Rest, StartGrace
  <2>3. batch' \in BOOLEAN /\ notified' \in BOOLEAN
    BY <1>3 DEF Inv, TypeOK, Tick, Rest, StartGrace
  <2>4. TypeOK'
    BY <1>1, <1>2, <2>1, <2>2, <2>3 DEF Inv, TypeOK
  <2>5. HoldsOneTask'
    BY <1>1, <2>1 DEF Inv, HoldsOneTask
  <2>6. NothingLost'
    BY <1>1, <2>1 DEF Inv, NothingLost
  <2>7. BackgroundToldToYield'
    <3>1. active \in Preemptible => pc' = pc
      BY <2>1 DEF Inv, HoldsOneTask
    <3> QED
      BY <1>1, <2>1, <3>1 DEF Inv, BackgroundToldToYield
  <2> QED
    BY <1>2, <2>4, <2>5, <2>6, <2>7 DEF Inv
<1>4. CASE \E t \in Tasks : Arrive(t) \/ Reenter(t)
  <2>1. PICK t \in Tasks : Arrive(t) \/ Reenter(t)
    BY <1>4
  <2>2. \E e \in {"expired", "reentry", "none"} : future' = [future EXCEPT ![t] = e]
    BY <2>1 DEF Arrive, Reenter
  <2>3. future[t] = "none" /\ t \notin queue /\ (pc \in {"checking", "running"} => t # active)
    BY <2>1 DEF Inv, NothingLost, Arrive, Reenter
  <2>4. TypeOK'
    BY <1>2, <2>1, <2>2 DEF Inv, TypeOK, Arrive, Reenter, Rejections
  <2>5. NothingLost'
    BY <1>1, <2>1, <2>2, <2>3 DEF Inv, TypeOK, NothingLost, Arrive, Reenter
  <2> QED
    BY <1>1, <1>2, <2>1, <2>4, <2>5
    DEF Inv, HoldsOneTask, BackgroundToldToYield, Arrive, Reenter
<1>5. CASE CheckDeadline \/ Complete
  <2>1. active \in Tasks /\ active \notin queue
    BY <1>5 DEF Inv, HoldsOneTask, CheckDeadline, Complete
  <2>2. /\ UNCHANGED <<now, clocked, order, arrivals, active, startedAt, batch,
                       graceUntil, notified>>
        /\ pc \in {"checking", "running"}
        /\ \/ pc' = "running" /\ future' = future
           \/ /\ pc' = "clearing"
              /\ \E e \in Endings : future' = [future EXCEPT ![active] = e]
    BY <1>5 DEF CheckDeadline, Complete, Endings
  <2>3. TypeOK'
    BY <1>1, <1>2, <2>1, <2>2 DEF Inv, TypeOK
  <2>4. NothingLost'
    BY <1>1, <2>1, <2>2 DEF Inv, TypeOK, NothingLost, Endings
  <2> QED
    BY <1>1, <1>2, <2>1, <2>2, <2>3, <2>4 DEF Inv, HoldsOneTask, BackgroundToldToYield
<1>6. CASE Clear
  <2>1. active' \notin Tasks /\ active' \notin Preemptible
    BY <1>6 DEF Clear
  <2> QED
    BY <1>1, <1>2, <1>6, <2>1
    DEF Inv, TypeOK, HoldsOneTask, NothingLost, BackgroundToldToYield, Clear
<1> QED
  BY <1>3, <1>4, <1>5, <1>6

LEMMA StepInv == Inv /\ [Next]_vars => Inv'
<1> SUFFICES ASSUME Inv, [Next]_vars PROVE Inv'
  OBVIOUS
<1>1. CASE Next
  BY <1>1, AdmitInv, PopInv, OtherStepInv DEF Next, WorkerStep
<1>2. CASE UNCHANGED vars
  BY <1>2 DEF vars, submission, worker, Inv, TypeOK, FiniteHeap, HoldsOneTask,
     NothingLost, BackgroundToldToYield
<1> QED
  BY <1>1, <1>2

LEMMA InvAlways == Spec => []Inv
<1> QED
  BY InitInv, StepInv, PTL DEF Spec

-----------------------------------------------------------------------------
(* The state stays well typed and the heap within LINE_MODEL_GPU_QUEUE_MAX. *)
THEOREM TypeCorrect == Spec => []TypeOK
<1>1. Inv => TypeOK
  BY DEF Inv
<1> QED
  BY <1>1, InvAlways, PTL

(* No submission is lost between the heap and the worker, and none stays    *)
(* queued after its caller was answered.                                    *)
THEOREM NothingLostAlways == Spec => []NothingLost
<1>1. Inv => NothingLost
  BY DEF Inv
<1> QED
  BY <1>1, InvAlways, PTL

(* Interactive work never waits behind a cancellable background task that   *)
(* has not been told to yield.                                              *)
THEOREM BackgroundToldToYieldAlways == Spec => []BackgroundToldToYield
<1>1. Inv => BackgroundToldToYield
  BY DEF Inv
<1> QED
  BY <1>1, InvAlways, PTL

(* Only a pending future is ever resolved, so each is resolved once.        *)
THEOREM AnsweredOnceAlways == Spec => AnsweredOnce
<1>1. ASSUME Inv, [Next]_vars, NEW t \in Tasks, future[t] \in Rejections \cup Endings
      PROVE  future'[t] = future[t]
  <2>1. future[t] # "none" /\ future[t] # "pending"
    BY <1>1 DEF Rejections, Endings
  <2>2. pc \in {"checking", "running"} => t # active
    BY <1>1, <2>1 DEF Inv, NothingLost
  <2>3. CASE UNCHANGED future
    BY <2>3
  <2>4. CASE \E u \in Tasks : Arrive(u) \/ Admit(u) \/ Reenter(u)
    <3>1. PICK u \in Tasks : Arrive(u) \/ Admit(u) \/ Reenter(u)
      BY <2>4
    <3>2. u # t /\ \E e : future' = [future EXCEPT ![u] = e]
      BY <3>1, <2>1 DEF Arrive, Admit, Reenter
    <3> QED
      BY <3>2, <1>1 DEF Inv, TypeOK
  <2>5. CASE CheckDeadline \/ Complete
    <3>1. active # t /\ (future' = future \/ \E e : future' = [future EXCEPT ![active] = e])
      BY <2>2, <2>5 DEF CheckDeadline, Complete
    <3> QED
      BY <3>1, <1>1 DEF Inv, TypeOK
  <2>6. \/ UNCHANGED future \/ CheckDeadline \/ Complete
        \/ \E u \in Tasks : Arrive(u) \/ Admit(u) \/ Reenter(u)
    BY <1>1 DEF Next, WorkerStep, Tick, Rest, Take, StartGrace, EndGrace, Pop, Clear,
       vars, submission, worker
  <2> QED
    BY <2>3, <2>4, <2>5, <2>6
<1>2. Inv /\ [Next]_vars
      => [\A t \in Tasks : future[t] \in Rejections \cup Endings
                           => future'[t] = future[t]]_vars
  BY <1>1
<1> QED
  BY <1>2, InvAlways, PTL DEF Spec, AnsweredOnce

-----------------------------------------------------------------------------
(* Sums over finite sets: what QueuedAhead adds up.  Each lemma argues from *)
(* a smallest set that would refute it.                                     *)

(* A set of subsets of a finite set has a minimal element.                  *)
LEMMA MinimalSubset ==
  ASSUME NEW S, IsFiniteSet(S), NEW Bad \in SUBSET (SUBSET S), Bad # {}
  PROVE  \E T \in Bad : \A U \in Bad : ~(U \subseteq T /\ U # T)
<1>1. IsWellFoundedOn(StrictSubsetOrdering(S), SUBSET S)
  BY FS_StrictSubsetOrderingWellFounded, FS_FiniteSubsetsOfFinite
<1>2. \E T \in Bad : \A U \in Bad : ~(<<U, T>> \in StrictSubsetOrdering(S))
  BY <1>1, WFMin
<1>3. \A U, T \in Bad : U \subseteq T /\ U # T => <<U, T>> \in StrictSubsetOrdering(S)
  BY DEF StrictSubsetOrdering
<1> QED
  BY <1>2, <1>3

Pick1(s) == CHOOSE x \in s : TRUE

(* g is the fold behind SumFunctionOnSet(f, S), on all subsets of S.        *)
IsSum(g, f, S) ==
  g = [s \in SUBSET S |->
         IF s = {} THEN 0 ELSE f[Pick1(s)] + g[s \ {Pick1(s)}]]

LEMMA SumIsFold ==
  ASSUME NEW f, NEW S
  PROVE  SumFunctionOnSet(f, S) = (CHOOSE g : IsSum(g, f, S))[S]
BY DEF SumFunctionOnSet, FoldFunctionOnSet, MapThenFoldSet, IsSum, Pick1

LEMMA Pick1In == ASSUME NEW s, s # {} PROVE Pick1(s) \in s
BY DEF Pick1

(* Two such folds agree where both are defined.                             *)
LEMMA SumsAgree ==
  ASSUME NEW S, IsFiniteSet(S), NEW A \in SUBSET S, NEW B \in SUBSET S,
         NEW f, NEW g, NEW h, IsSum(g, f, A), IsSum(h, f, B)
  PROVE  \A s \in SUBSET A : s \subseteq B => g[s] = h[s]
<1> DEFINE Bad == {s \in SUBSET S : s \subseteq A /\ s \subseteq B /\ g[s] # h[s]}
<1> SUFFICES ASSUME Bad # {} PROVE FALSE
  OBVIOUS
<1>a. Bad \in SUBSET (SUBSET S)
  OBVIOUS
<1>1. PICK s \in Bad : \A u \in Bad : ~(u \subseteq s /\ u # s)
  <2> HIDE DEF Bad
  <2> QED BY <1>a, MinimalSubset
<1>2. CASE s = {}
  BY <1>2, <1>1 DEF IsSum
<1>3. CASE s # {}
  <2> DEFINE x == Pick1(s)
  <2>1. x \in s
    BY <1>3, Pick1In
  <2>2. s \ {x} \notin Bad
    BY <1>1, <2>1
  <2>3. g[s \ {x}] = h[s \ {x}]
    BY <2>2, <1>1
  <2>4. g[s] = f[x] + g[s \ {x}] /\ h[s] = f[x] + h[s \ {x}]
    BY <1>1, <1>3 DEF IsSum
  <2> QED
    BY <1>1, <2>3, <2>4
<1> QED
  BY <1>2, <1>3

(* The fold exists on every finite set.                                     *)
LEMMA SumExists ==
  ASSUME NEW S, IsFiniteSet(S), NEW f
  PROVE  \A T \in SUBSET S : \E g : IsSum(g, f, T)
<1> DEFINE Bad == {T \in SUBSET S : ~ \E g : IsSum(g, f, T)}
           G(T) == CHOOSE g : IsSum(g, f, T)
<1> SUFFICES ASSUME Bad # {} PROVE FALSE
  OBVIOUS
<1>a. Bad \in SUBSET (SUBSET S)
  OBVIOUS
<1>1. PICK T \in Bad : \A U \in Bad : ~(U \subseteq T /\ U # T)
  <2> HIDE DEF Bad
  <2> QED BY <1>a, MinimalSubset
<1>2. \A U \in SUBSET T : U # T => IsSum(G(U), f, U)
  BY <1>1
<1> DEFINE step(s) == IF s = {} THEN 0 ELSE f[Pick1(s)] + G(s \ {Pick1(s)})[s \ {Pick1(s)}]
           h == [s \in SUBSET T |-> step(s)]
<1> HIDE DEF G
<1>3. ASSUME NEW s \in SUBSET T, s # T
      PROVE  G(s)[s] = step(s)
  <2>1. CASE s = {}
    BY <2>1, <1>2, <1>3 DEF IsSum
  <2>2. CASE s # {}
    <3> DEFINE u == s \ {Pick1(s)}
    <3>1. u \in SUBSET s /\ u # s
      BY <2>2, Pick1In
    <3>2. IsSum(G(s), f, s) /\ IsSum(G(u), f, u)
      BY <1>2, <1>3, <3>1
    <3>3. s \in SUBSET S /\ u \in SUBSET S
      BY <1>1
    <3>4. G(s)[u] = G(u)[u]
      BY <3>1, <3>2, <3>3, SumsAgree
    <3>5. G(s)[s] = f[Pick1(s)] + G(s)[u]
      BY <2>2, <3>2 DEF IsSum
    <3> QED
      BY <2>2, <3>4, <3>5
  <2> QED
    BY <2>1, <2>2
<1>4. IsSum(h, f, T)
  <2>1. ASSUME NEW s \in SUBSET T, s # {}
        PROVE  h[s] = f[Pick1(s)] + h[s \ {Pick1(s)}]
    <3> DEFINE u == s \ {Pick1(s)}
    <3>1. u \in SUBSET T /\ u # T
      BY <2>1, Pick1In
    <3>2. h[u] = G(u)[u]
      BY <3>1, <1>3
    <3>3. h[s] = f[Pick1(s)] + G(u)[u]
      BY <2>1
    <3> QED
      BY <3>2, <3>3
  <2>2. h[{}] = 0
    OBVIOUS
  <2>3. h = [s \in SUBSET T |-> IF s = {} THEN 0 ELSE f[Pick1(s)] + h[s \ {Pick1(s)}]]
    <3>1. \A s \in SUBSET T : h[s] = IF s = {} THEN 0 ELSE f[Pick1(s)] + h[s \ {Pick1(s)}]
      BY <2>1, <2>2
    <3>2. h = [s \in SUBSET T |-> h[s]]
      OBVIOUS
    <3> HIDE DEF h
    <3> QED
      BY <3>1, <3>2
  <2> HIDE DEF h
  <2> QED
    BY <2>3 DEF IsSum
<1> HIDE DEF h
<1> QED
  BY <1>1, <1>4

(* The defining equation of the sum, over a finite set.                     *)
LEMMA SumEquation ==
  ASSUME NEW S, IsFiniteSet(S), NEW f, NEW s \in SUBSET S
  PROVE  /\ SumFunctionOnSet(f, {}) = 0
         /\ s # {} => SumFunctionOnSet(f, s)
                      = f[Pick1(s)] + SumFunctionOnSet(f, s \ {Pick1(s)})
<1> DEFINE G(T) == CHOOSE g : IsSum(g, f, T)
<1>1. \A T \in SUBSET S : IsSum(G(T), f, T) /\ SumFunctionOnSet(f, T) = G(T)[T]
  BY SumExists, SumIsFold
<1> HIDE DEF G
<1>2. SumFunctionOnSet(f, {}) = 0
  BY <1>1 DEF IsSum
<1>3. ASSUME s # {}
      PROVE  SumFunctionOnSet(f, s) = f[Pick1(s)] + SumFunctionOnSet(f, s \ {Pick1(s)})
  <2> DEFINE u == s \ {Pick1(s)}
  <2>1. u \in SUBSET S /\ u \in SUBSET s
    OBVIOUS
  <2>2. G(s)[u] = G(u)[u]
    BY <1>1, <2>1, SumsAgree
  <2>3. G(s)[s] = f[Pick1(s)] + G(s)[u]
    BY <1>1, <1>3 DEF IsSum
  <2> QED
    BY <1>1, <2>1, <2>2, <2>3
<1> QED
  BY <1>2, <1>3

(* The sum of natural numbers is one, and takes out any element.            *)
LEMMA SumTakesOut ==
  ASSUME NEW S, IsFiniteSet(S), NEW f, \A x \in S : f[x] \in Nat
  PROVE  \A s \in SUBSET S :
           /\ SumFunctionOnSet(f, s) \in Nat
           /\ \A x \in s : SumFunctionOnSet(f, s) = f[x] + SumFunctionOnSet(f, s \ {x})
<1> DEFINE Sum(s) == SumFunctionOnSet(f, s)
           Good(s) == Sum(s) \in Nat /\ \A x \in s : Sum(s) = f[x] + Sum(s \ {x})
           Bad == {s \in SUBSET S : ~Good(s)}
<1>0. \A s \in SUBSET S : Sum({}) = 0 /\ (s # {} => Sum(s) = f[Pick1(s)] + Sum(s \ {Pick1(s)}))
  BY SumEquation
<1> SUFFICES ASSUME Bad # {} PROVE FALSE
  OBVIOUS
<1> HIDE DEF Sum
<1>a. Bad \in SUBSET (SUBSET S)
  OBVIOUS
<1>1. PICK s \in Bad : \A u \in Bad : ~(u \subseteq s /\ u # s)
  <2> HIDE DEF Bad
  <2> QED BY <1>a, MinimalSubset
<1>2. s # {}
  <2>1. Sum({}) = 0
    BY <1>0, {} \in SUBSET S
  <2>2. Good({})
    BY <2>1
  <2>3. ~Good(s)
    <3> HIDE DEF Good
    <3> QED BY <1>1
  <2> HIDE DEF Good
  <2> QED BY <2>2, <2>3
<1> DEFINE c == Pick1(s)
<1>3. c \in s /\ Sum(s) = f[c] + Sum(s \ {c})
  BY <1>0, <1>1, <1>2, Pick1In
<1>b. ASSUME NEW u, u \subseteq s, u # s PROVE Good(u)
  <2>1. u \in SUBSET S /\ u \notin Bad
    <3> HIDE DEF Good
    <3> QED BY <1>b, <1>1
  <2> HIDE DEF Good
  <2> QED BY <2>1
<1>4. ASSUME NEW x \in s PROVE Good(s \ {x})
  <2> HIDE DEF Good
  <2> QED BY <1>b
<1> HIDE DEF c
<1>5. Sum(s) \in Nat
  BY <1>1, <1>3, <1>4
<1>6. ASSUME NEW x \in s PROVE Sum(s) = f[x] + Sum(s \ {x})
  <2>1. CASE x = c
    BY <2>1, <1>3
  <2>2. CASE x # c
    <3>1. Sum(s \ {c}) = f[x] + Sum((s \ {c}) \ {x})
      BY <1>3, <1>4, <2>2
    <3>2. Sum(s \ {x}) = f[c] + Sum((s \ {x}) \ {c})
      BY <1>3, <1>4, <2>2
    <3>3. (s \ {c}) \ {x} = (s \ {x}) \ {c}
      OBVIOUS
    <3>4. Sum((s \ {c}) \ {x}) \in Nat
      <4>1. (s \ {c}) \ {x} \subseteq s /\ (s \ {c}) \ {x} # s
        BY <1>3
      <4>2. Good((s \ {c}) \ {x})
        <5> HIDE DEF Good
        <5> QED BY <4>1, <1>b
      <4> QED BY <4>2
    <3>5. f[x] \in Nat /\ f[c] \in Nat
      BY <1>1, <1>3
    <3> DEFINE rest == Sum((s \ {c}) \ {x})
    <3>6. /\ Sum(s) = f[c] + Sum(s \ {c})
          /\ Sum(s \ {c}) = f[x] + rest
          /\ Sum(s \ {x}) = f[c] + rest
          /\ rest \in Nat
      BY <1>3, <3>1, <3>2, <3>3, <3>4
    <3> HIDE DEF rest
    <3> QED
      BY <3>5, <3>6
  <2> QED BY <2>1, <2>2
<1> QED
  BY <1>1, <1>5, <1>6

(* The sum over a part is at most the sum over the whole.                   *)
LEMMA SumMonotone ==
  ASSUME NEW S, IsFiniteSet(S), NEW f, \A x \in S : f[x] \in Nat, NEW A \in SUBSET S
  PROVE  \A B \in SUBSET S : A \subseteq B => SumFunctionOnSet(f, A) <= SumFunctionOnSet(f, B)
<1> DEFINE Sum(s) == SumFunctionOnSet(f, s)
           Bad == {B \in SUBSET S : A \subseteq B /\ ~(Sum(A) <= Sum(B))}
<1>0. \A s \in SUBSET S : Sum(s) \in Nat /\ \A x \in s : Sum(s) = f[x] + Sum(s \ {x})
  BY SumTakesOut
<1> SUFFICES ASSUME Bad # {} PROVE FALSE
  OBVIOUS
<1> HIDE DEF Sum
<1>a. Bad \in SUBSET (SUBSET S)
  OBVIOUS
<1>1. PICK B \in Bad : \A u \in Bad : ~(u \subseteq B /\ u # B)
  <2> HIDE DEF Bad
  <2> QED BY <1>a, MinimalSubset
<1>2. PICK x \in B : x \notin A
  <2>1. A # B
    BY <1>0, <1>1
  <2> QED BY <1>1, <2>1
<1>3. B \ {x} \notin Bad /\ B \ {x} \in SUBSET S /\ A \subseteq B \ {x}
  BY <1>1, <1>2
<1>4. Sum(A) <= Sum(B \ {x})
  BY <1>3
<1>5. Sum(B) = f[x] + Sum(B \ {x}) /\ f[x] \in Nat
  BY <1>0, <1>1, <1>2
<1>6. Sum(A) \in Nat /\ Sum(B) \in Nat /\ Sum(B \ {x}) \in Nat
  BY <1>0, <1>1, <1>3
<1> QED
  BY <1>1, <1>4, <1>5, <1>6
-----------------------------------------------------------------------------
(* The predicted work of the interactive tasks that run before t, or with   *)
(* it, as the heap orders them.                                             *)
Ahead(q, t) == {u \in q \cap Interactive : Deadline[u] <= Deadline[t]}
LoadOf(q, t) == SumFunctionOnSet(Predicted, Ahead(q, t))
Load(t) == LoadOf(queue, t)

(* What an admitted task u adds to the load of t.                           *)
Share(u, t) == IF u \in Interactive /\ Deadline[u] <= Deadline[t] THEN Predicted[u] ELSE 0

(* What the task in the worker's hands may still take: its prediction, or   *)
(* for a cancellable one the time it has to yield.                          *)
Remaining ==
  IF pc \notin {"checking", "running"} THEN 0
  ELSE IF active \notin Preemptible THEN PosPart(startedAt + Predicted[active] - now)
  ELSE IF cancelled[active] = Unset THEN YieldTime
  ELSE PosPart(cancelled[active] + YieldTime - now)

(* A submitter's reading is still the time when it gets the lock.           *)
FreshReading ==
  \A t \in Tasks : future[t] = "none" /\ clocked[t] # Unset => clocked[t] = now

(* The worker only waits for a notify while nothing waits for it.           *)
NothingWaits ==
  /\ pc = "asleep" /\ ~notified => queue = {}
  /\ pc = "grace" /\ ~notified => queue \cap Interactive = {}

(* Predictions hold: what runs is within its own.                           *)
WithinTime ==
  /\ \A t \in Tasks : cancelled[t] <= now
  /\ pc = "checking" => startedAt = now
  /\ pc \in {"running", "clearing"} => startedAt <= now
  /\ pc = "running" /\ active \notin Preemptible => now <= startedAt + Predicted[active]

Promised(t) == t \in Interactive /\ HasDeadline(t) /\ Predicted[t] > 0

ActiveInTime ==
  pc \in {"checking", "running"} /\ Promised(active)
  => startedAt + Predicted[active] < Deadline[active]

(* What is still to run before the end of t ends before its deadline.       *)
QueueInTime ==
  \A t \in queue : Promised(t) => now + Remaining + Load(t) < Deadline[t]

KeptInv == FreshReading /\ NothingWaits /\ WithinTime /\ ActiveInTime /\ QueueInTime

-----------------------------------------------------------------------------
LEMMA LoadType ==
  ASSUME NEW q, IsFiniteSet(q), NEW t \in Tasks
  PROVE  /\ LoadOf(q, t) \in Nat
         /\ SumFunctionOnSet(Predicted, q \cap Interactive) \in Nat
         /\ LoadOf(q, t) <= SumFunctionOnSet(Predicted, q \cap Interactive)
<1> DEFINE S == q \cap Interactive
<1>1. IsFiniteSet(S) /\ \A u \in S : Predicted[u] \in Nat
  BY FS_Subset, AdmissionAssumption DEF Interactive
<1>2. Ahead(q, t) \in SUBSET S /\ S \in SUBSET S
  BY DEF Ahead
<1> HIDE DEF S
<1>3. SumFunctionOnSet(Predicted, Ahead(q, t)) \in Nat /\ SumFunctionOnSet(Predicted, S) \in Nat
  BY <1>1, <1>2, SumTakesOut
<1>4. SumFunctionOnSet(Predicted, Ahead(q, t)) <= SumFunctionOnSet(Predicted, S)
  BY <1>1, <1>2, SumMonotone
<1> QED
  BY <1>3, <1>4 DEF LoadOf, S

(* One task more or less on the heap changes the loads by its share.        *)
LEMMA LoadAndOne ==
  ASSUME NEW q, NEW r, IsFiniteSet(q), q \subseteq Tasks, NEW u \in q, r = q \ {u}, NEW t \in Tasks
  PROVE  LoadOf(q, t) = Share(u, t) + LoadOf(r, t)
<1>1. IsFiniteSet(Ahead(q, t)) /\ \A v \in Ahead(q, t) : Predicted[v] \in Nat
  <2>1. Ahead(q, t) \subseteq q
    BY DEF Ahead
  <2> QED BY <2>1, FS_Subset, AdmissionAssumption DEF Ahead
<1>2. CASE u \in Ahead(q, t)
  <2>1. Ahead(r, t) = Ahead(q, t) \ {u} /\ Share(u, t) = Predicted[u]
    BY <1>2 DEF Share, Ahead
  <2>2. SumFunctionOnSet(Predicted, Ahead(q, t)) = Predicted[u] + SumFunctionOnSet(Predicted, Ahead(q, t) \ {u})
    BY <1>1, <1>2, SumTakesOut
  <2> QED
    BY <2>1, <2>2 DEF LoadOf
<1>3. CASE u \notin Ahead(q, t)
  <2>1. Ahead(r, t) = Ahead(q, t) /\ Share(u, t) = 0
    BY <1>3 DEF Share, Ahead
  <2>2. SumFunctionOnSet(Predicted, Ahead(q, t)) \in Nat
    BY <1>1, SumTakesOut
  <2> QED
    BY <2>1, <2>2 DEF LoadOf
<1> QED
  BY <1>2, <1>3

LEMMA LoadAfterAdmit ==
  ASSUME Inv, Inv', NEW u \in Tasks, u \notin queue, queue' = queue \cup {u}, NEW t \in Tasks
  PROVE  Load(t)' = Share(u, t) + Load(t)
<1>1. IsFiniteSet(queue') /\ queue' \subseteq Tasks /\ u \in queue' /\ queue = queue' \ {u}
  BY DEF Inv, TypeOK, FiniteHeap
<1> QED
  BY <1>1, LoadAndOne DEF Load

LEMMA LoadAfterPop ==
  ASSUME Inv, NEW u \in queue, queue' = queue \ {u}, NEW t \in Tasks
  PROVE  Load(t) = Share(u, t) + Load(t)'
<1>1. IsFiniteSet(queue) /\ queue \subseteq Tasks
  BY DEF Inv, TypeOK, FiniteHeap
<1> QED
  BY <1>1, LoadAndOne DEF Load

LEMMA RemainingType == ASSUME Inv PROVE Remaining \in Nat
<1>1. pc \in {"checking", "running"} => active \in Tasks
  BY DEF Inv, HoldsOneTask
<1>2. CASE pc \in {"checking", "running"} /\ active \notin Preemptible
  <2>1. startedAt + Predicted[active] - now \in Int
    BY <1>1, <1>2, AdmissionAssumption DEF Inv, TypeOK
  <2> QED
    BY <1>2, <2>1 DEF Remaining, PosPart
<1>3. CASE pc \in {"checking", "running"} /\ active \in Preemptible
  <2>1. cancelled[active] # Unset => cancelled[active] + YieldTime - now \in Int
    BY <1>1, <1>3, AdmissionAssumption DEF Inv, TypeOK
  <2> QED
    BY <1>3, <2>1, AdmissionAssumption DEF Remaining, PosPart
<1> QED
  BY <1>2, <1>3 DEF Remaining

(* Only background tasks can be cancelled.                                  *)
LEMMA InteractiveStays == Interactive \cap Preemptible = {}
BY AdmissionAssumption DEF Interactive

LEMMA InitKept == Init => KeptInv
BY AdmissionAssumption
DEF Init, KeptInv, FreshReading, NothingWaits, WithinTime, ActiveInTime, QueueInTime, Unset

(* The clock moves while the worker waits for work that is not there, and   *)
(* then nothing is promised, or while a task runs, and then what remains    *)
(* shrinks as the clock moves.                                              *)
LEMMA TickKept ==
  ASSUME Punctual, Inv, Inv', KeptInv, Tick
  PROVE  KeptInv'
<1> USE AdmissionAssumption
<1>1. /\ now' = now + 1 /\ now \in Nat
      /\ UNCHANGED <<clocked, future, queue, order, arrivals, cancelled, active,
                     startedAt, batch, graceUntil, notified, pc>>
      /\ Settled
  BY DEF Tick, submission, worker, Inv, TypeOK
<1>2. FreshReading'
  BY <1>1 DEF FreshReading, Settled
<1>3. NothingWaits'
  BY <1>1 DEF KeptInv, NothingWaits
<1>4. pc = "running" => active \in Tasks
  BY DEF Inv, HoldsOneTask
<1>5. pc \in {"asleep", "grace", "running"}
      /\ (pc = "running" => WithinPrediction)
      /\ (pc # "running" => queue \cap Interactive = {})
  BY <1>1 DEF Settled, KeptInv, NothingWaits
<1>6. WithinTime'
  <2>1. \A t \in Tasks : cancelled'[t] <= now'
    BY <1>1 DEF KeptInv, WithinTime, Inv, TypeOK, Unset
  <2>2. pc = "running" => startedAt <= now'
    BY <1>1 DEF KeptInv, WithinTime, Inv, TypeOK
  <2>3. pc = "running" /\ active \notin Preemptible => now' <= startedAt + Predicted[active]
    BY <1>1, <1>4, <1>5 DEF WithinPrediction, Inv, TypeOK
  <2> QED
    BY <1>1, <1>5, <2>1, <2>2, <2>3 DEF WithinTime
<1>7. ActiveInTime'
  BY <1>1 DEF KeptInv, ActiveInTime, Promised, HasDeadline
<1>8. QueueInTime'
  <2> SUFFICES ASSUME NEW t \in queue, Promised(t)
               PROVE  now' + Remaining' + Load(t)' < Deadline[t]
    BY <1>1 DEF QueueInTime, Promised, HasDeadline
  <2>1. pc = "running" /\ t \in queue \cap Interactive /\ t \in Tasks
    BY <1>5 DEF Promised, Inv, TypeOK
  <2>2. active \in Preemptible => cancelled[active] # Unset
    BY <2>1 DEF Inv, BackgroundToldToYield
  <2>3. Load(t)' = Load(t)
    BY <1>1 DEF Load
  <2>4. now' + Remaining' = now + Remaining
    <3>1. CASE active \in Preemptible
      <4>1. cancelled[active] \in Nat /\ now < cancelled[active] + YieldTime
        BY <1>4, <1>5, <2>1, <2>2, <3>1 DEF WithinPrediction, Inv, TypeOK
      <4>2. /\ Remaining = PosPart(cancelled[active] + YieldTime - now)
            /\ Remaining' = PosPart(cancelled[active] + YieldTime - (now + 1))
        BY <1>1, <2>1, <2>2, <3>1 DEF Remaining
      <4> QED
        BY <1>1, <4>1, <4>2 DEF PosPart
    <3>2. CASE active \notin Preemptible
      <4>1. startedAt \in Nat /\ Predicted[active] \in Nat /\ now < startedAt + Predicted[active]
        BY <1>4, <1>5, <2>1, <3>2 DEF WithinPrediction, Inv, TypeOK
      <4>2. /\ Remaining = PosPart(startedAt + Predicted[active] - now)
            /\ Remaining' = PosPart(startedAt + Predicted[active] - (now + 1))
        BY <1>1, <2>1, <3>2 DEF Remaining
      <4> QED
        BY <1>1, <4>1, <4>2 DEF PosPart
    <3> QED
      BY <3>1, <3>2
  <2>5. now + Remaining + Load(t) < Deadline[t]
    BY DEF KeptInv, QueueInTime
  <2> QED
    BY <2>3, <2>4, <2>5
<1> QED
  BY <1>2, <1>3, <1>6, <1>7, <1>8 DEF KeptInv

(* The head leaves the heap for an idle worker: what it adds to what        *)
(* remains it takes from the load of the tasks behind it.                   *)
LEMMA PopKept ==
  ASSUME Inv, Inv', KeptInv, NEW t \in Tasks, Take(t) \/ EndGrace(t)
  PROVE  KeptInv'
<1> USE AdmissionAssumption
<1>1. /\ t \in queue /\ \A u \in queue : ~Outranks(u, t)
      /\ Pop(t)
      /\ pc \in {"looping", "asleep", "grace"}
  BY PopTakesHead
<1>2. /\ queue' = queue \ {t} /\ active' = t /\ startedAt' = now /\ pc' = "checking"
      /\ UNCHANGED <<now, clocked, future, cancelled>>
  BY <1>1 DEF Pop
<1>3. now \in Nat /\ Remaining = 0 /\ Predicted[t] \in Nat
  BY <1>1 DEF Inv, TypeOK, Remaining
<1>4. FreshReading' /\ NothingWaits'
  BY <1>2 DEF KeptInv, FreshReading, NothingWaits
<1>5. WithinTime'
  BY <1>2 DEF KeptInv, WithinTime
<1>6. ASSUME NEW u \in queue, Promised(u)
      PROVE  /\ u \in Tasks /\ Deadline[u] \in Nat
             /\ t \in Interactive /\ Deadline[t] <= Deadline[u]
             /\ now + Load(u) < Deadline[u]
             /\ Load(u) = Predicted[t] + Load(u)'
             /\ Load(u)' \in Nat
  <2>1. u \in Tasks /\ Deadline[u] \in Nat /\ Deadline[t] \in Nat /\ Priority[t] \in Nat
    BY DEF Inv, TypeOK
  <2>2. Priority[u] = 0
    BY <1>6 DEF Promised, Interactive
  <2>3. t \in Interactive /\ Deadline[t] <= Deadline[u]
    BY <1>1, <2>1, <2>2 DEF Outranks, Interactive
  <2>4. now + Load(u) < Deadline[u]
    <3>1. now + Remaining + Load(u) < Deadline[u]
      BY <1>6 DEF KeptInv, QueueInTime
    <3>2. Load(u) \in Nat
      BY <2>1, LoadType DEF Load, Inv, FiniteHeap
    <3> QED
      BY <1>3, <3>1, <3>2
  <2>5. Load(u) = Predicted[t] + Load(u)'
    BY <1>1, <1>2, <2>1, <2>3, LoadAfterPop DEF Share
  <2>6. Load(u)' \in Nat
    BY <2>1, LoadType DEF Load, Inv, FiniteHeap
  <2> QED
    BY <2>1, <2>3, <2>4, <2>5, <2>6
<1>7. ActiveInTime'
  <2> SUFFICES ASSUME Promised(t) PROVE now + Predicted[t] < Deadline[t]
    BY <1>2 DEF ActiveInTime, Promised, HasDeadline
  <2> QED
    BY <1>1, <1>3, <1>6
<1>8. QueueInTime'
  <2> SUFFICES ASSUME NEW u \in queue, Promised(u)
               PROVE  now + Remaining' + Load(u)' < Deadline[u]
    BY <1>2 DEF QueueInTime, Promised, HasDeadline
  <2>1. t \notin Preemptible
    BY <1>6, InteractiveStays
  <2>2. Remaining' = PosPart(now + Predicted[t] - now)
    BY <1>2, <2>1 DEF Remaining
  <2>3. Remaining' = Predicted[t]
    BY <1>3, <2>2 DEF PosPart
  <2> QED
    BY <1>3, <1>6, <2>3
<1> QED
  BY <1>4, <1>5, <1>7, <1>8 DEF KeptInv

(* The test on admission bounds the newcomer and all that it overtakes; the *)
(* tasks it comes after do not see it.                                      *)
LEMMA AdmitKept ==
  ASSUME Inv, Inv', KeptInv, NEW t \in Tasks, Admit(t)
  PROVE  KeptInv'
<1> USE AdmissionAssumption
<1>1. /\ future[t] = "none"
      /\ UNCHANGED <<now, active, startedAt, batch, graceUntil, pc>>
      /\ clocked' = [clocked EXCEPT ![t] = 0]
      /\ \E e \in {"predicted", "full", "pending"} : future' = [future EXCEPT ![t] = e]
      /\ cancelled' = cancelled \/ AskActiveToYield(t)
      /\ \/ UNCHANGED <<queue, notified>>
         \/ queue' = queue \cup {t} /\ notified' = Notifies
  BY AdmitEffect
<1>2. clocked[t] = now /\ now \in Nat
  BY DEF Admit, KeptInv, FreshReading, Inv, TypeOK
<1>4. FreshReading'
  BY <1>1 DEF KeptInv, FreshReading, Inv, TypeOK
<1>5. NothingWaits'
  <2>1. CASE UNCHANGED <<queue, notified>>
    BY <1>1, <2>1 DEF KeptInv, NothingWaits
  <2>2. CASE notified' = Notifies
    <3>1. pc \in {"asleep", "grace"} => notified'
      BY <2>2 DEF Notifies
    <3> QED
      BY <1>1, <3>1 DEF NothingWaits
  <2> QED
    BY <1>1, <2>1, <2>2
<1>6. \A u \in Tasks : cancelled'[u] = cancelled[u]
                       \/ (u = active /\ t \in Interactive /\ u \in Preemptible
                           /\ cancelled[u] = Unset /\ cancelled'[u] = now)
  BY <1>1 DEF AskActiveToYield, Inv, TypeOK
<1>7. WithinTime'
  <2>1. \A u \in Tasks : cancelled'[u] <= now'
    BY <1>1, <1>2, <1>6 DEF KeptInv, WithinTime
  <2> QED
    BY <1>1, <2>1 DEF KeptInv, WithinTime
<1>8. ActiveInTime'
  BY <1>1 DEF KeptInv, ActiveInTime, Promised, HasDeadline
<1>9. Remaining' = Remaining
  <2>1. CASE pc \in {"checking", "running"} /\ active \in Preemptible
    <3>1. active \in Tasks
      BY <2>1
    <3>2. CASE cancelled'[active] = cancelled[active]
      BY <1>1, <3>2 DEF Remaining
    <3>3. CASE cancelled[active] = Unset /\ cancelled'[active] = now
      <4>1. now # Unset /\ now + YieldTime - now = YieldTime
        BY <1>2 DEF Unset
      <4> QED
        BY <1>1, <2>1, <3>3, <4>1 DEF Remaining, PosPart
    <3> QED
      BY <3>1, <3>2, <3>3, <1>6
  <2>2. CASE ~(pc \in {"checking", "running"} /\ active \in Preemptible)
    BY <1>1, <2>2 DEF Remaining
  <2> QED
    BY <2>1, <2>2
<1>10. QueueInTime'
  <2>1. CASE queue' = queue
    <3>1. \A u \in Tasks : Load(u)' = Load(u)
      BY <2>1 DEF Load
    <3> QED
      BY <1>1, <1>9, <2>1, <3>1 DEF KeptInv, QueueInTime, Promised, HasDeadline, Inv, TypeOK
  <2>2. CASE queue' # queue
    <3>1. t \notin queue /\ queue' = queue \cup {t} /\ ~PredictedToMiss(t)
      BY <1>1, <2>2 DEF Admit
    <3> SUFFICES ASSUME NEW u \in queue', Promised(u)
                 PROVE  now + Remaining + Load(u)' < Deadline[u]
      BY <1>1, <1>9 DEF QueueInTime, Promised, HasDeadline
    <3>2. /\ u \in Tasks /\ Deadline[u] \in Nat /\ Deadline[t] \in Nat /\ Deadline[u] < Never
          /\ Load(u) \in Nat /\ QueuedAhead \in Nat /\ Load(u) <= QueuedAhead
          /\ Remaining \in Nat /\ Predicted[t] \in Nat
      <4>1. u \in Tasks
        BY DEF Inv, TypeOK
      <4>2. Load(u) \in Nat /\ QueuedAhead \in Nat /\ Load(u) <= QueuedAhead
        BY <4>1, LoadType DEF Load, QueuedAhead, Inv, FiniteHeap
      <4> QED
        BY <4>1, <4>2, RemainingType DEF Promised, HasDeadline
    <3>3. Load(u)' = Share(t, u) + Load(u)
      BY <3>1, <3>2, LoadAfterAdmit
    <3>4. CASE Promised(t) /\ Deadline[t] <= Deadline[u]
      <4>1. now + ActiveRemaining(t) + QueuedAhead + Predicted[t] < Deadline[t]
            /\ ActiveRemaining(t) \in Nat /\ Remaining <= ActiveRemaining(t)
        <5>1. ActiveRemaining(t) \in Nat /\ Remaining <= ActiveRemaining(t)
          <6>1. CASE pc \in {"checking", "running"} /\ active \notin Preemptible
            <7>1. /\ active \in Tasks /\ active # Nobody
                  /\ startedAt \in Nat /\ startedAt <= now /\ Predicted[active] \in Nat
              BY <6>1 DEF Inv, TypeOK, HoldsOneTask, KeptInv, WithinTime
            <7>2. ActiveRemaining(t) = IF Predicted[active] = 0 THEN 0
                     ELSE PosPart(Predicted[active] - PosPart(now - startedAt))
              BY <1>2, <6>1, <7>1 DEF ActiveRemaining
            <7>3. Remaining = PosPart(startedAt + Predicted[active] - now)
              BY <6>1 DEF Remaining
            <7> QED
              BY <1>2, <7>1, <7>2, <7>3 DEF PosPart
          <6>2. CASE pc \in {"checking", "running"} /\ active \in Preemptible
            <7>1. active \in Tasks /\ active # Nobody
              BY <6>2
            <7>2. ActiveRemaining(t) = YieldTime
              BY <6>2, <7>1 DEF ActiveRemaining
            <7>3. CASE cancelled[active] = Unset
              BY <6>2, <7>2, <7>3 DEF Remaining
            <7>4. CASE cancelled[active] # Unset
              <8>1. cancelled[active] \in Nat /\ cancelled[active] <= now
                BY <7>1, <7>4 DEF Inv, TypeOK, KeptInv, WithinTime
              <8>2. Remaining = PosPart(cancelled[active] + YieldTime - now)
                BY <6>2, <7>4 DEF Remaining
              <8> QED
                BY <1>2, <7>2, <8>1, <8>2 DEF PosPart
            <7> QED
              BY <7>3, <7>4
          <6>3. CASE pc \notin {"checking", "running"}
            <7>1. Remaining = 0
              BY <6>3 DEF Remaining
            <7>2. ActiveRemaining(t) \in Nat
              <8>1. CASE active = Nobody
                BY <8>1 DEF ActiveRemaining
              <8>2. CASE active # Nobody /\ active \in Preemptible
                BY <8>2 DEF ActiveRemaining
              <8>3. CASE active # Nobody /\ active \notin Preemptible
                <9>1. active \in Tasks /\ startedAt \in Nat /\ Predicted[active] \in Nat
                  BY <8>3 DEF Inv, TypeOK
                <9>2. ActiveRemaining(t) = IF Predicted[active] = 0 THEN 0
                        ELSE PosPart(Predicted[active] - PosPart(now - startedAt))
                  BY <1>2, <8>3 DEF ActiveRemaining
                <9> QED
                  BY <1>2, <9>1, <9>2 DEF PosPart
              <8> QED
                BY <8>1, <8>2, <8>3
            <7> QED
              BY <7>1, <7>2
          <6> QED
            BY <6>1, <6>2, <6>3
        <5>2. ~(PredictedFinish(t) >= Deadline[t])
          BY <3>1, <3>4 DEF PredictedToMiss, Promised
        <5> QED
          BY <1>2, <3>2, <5>1, <5>2 DEF PredictedFinish
      <4>2. Share(t, u) = Predicted[t]
        BY <3>4 DEF Share, Promised
      <4> QED
        BY <1>2, <3>2, <3>3, <3>4, <4>1, <4>2
    <3>5. CASE ~(Promised(t) /\ Deadline[t] <= Deadline[u])
      <4>1. Share(t, u) = 0
        BY <3>2, <3>5 DEF Share, Promised, HasDeadline
      <4>2. Load(u)' = Load(u)
        BY <3>2, <3>3, <4>1
      <4>3. u \in queue
        <5>1. u = t => FALSE
          BY <3>5, <3>2
        <5> QED BY <3>1, <5>1
      <4> QED
        BY <4>2, <4>3 DEF KeptInv, QueueInTime
    <3> QED
      BY <3>4, <3>5
  <2> QED
    BY <2>1, <2>2
<1> QED
  BY <1>4, <1>5, <1>7, <1>8, <1>10 DEF KeptInv

(* Steps that leave the heap, the clock and the cancel events alone can     *)
(* only shorten what remains.                                               *)
LEMMA OtherStepKept ==
  ASSUME Inv, Inv', KeptInv,
         \/ Rest \/ CheckDeadline \/ Complete \/ Clear
         \/ \E t \in Tasks : Arrive(t) \/ Reenter(t) \/ StartGrace(t)
  PROVE  KeptInv'
<1> USE AdmissionAssumption
<1>1. /\ queue' = queue /\ cancelled' = cancelled /\ now' = now
      /\ now \in Nat
  BY DEF Rest, CheckDeadline, Complete, Clear, Arrive, Reenter, StartGrace,
     submission, worker, Inv, TypeOK
<1>2. /\ pc' \in {"checking", "running"}
         => /\ pc \in {"checking", "running"} /\ active' = active /\ startedAt' = startedAt
            /\ (pc' = "checking" => pc = "checking")
  BY DEF Rest, CheckDeadline, Complete, Clear, Arrive, Reenter, StartGrace,
     submission, worker
<1>3. FreshReading'
  <2>1. CASE \E t \in Tasks : Arrive(t) \/ Reenter(t)
    BY <1>1, <2>1 DEF Arrive, Reenter, KeptInv, FreshReading, Inv, TypeOK
  <2>2. CASE CheckDeadline \/ Complete
    <3>1. active \in Tasks /\ future[active] = "pending"
      BY <2>2 DEF CheckDeadline, Complete, Inv, HoldsOneTask, NothingLost
    <3>2. clocked' = clocked /\ (\A t \in Tasks : future'[t] = "none" => future[t] = "none")
      BY <2>2, <3>1 DEF CheckDeadline, Complete, Inv, TypeOK
    <3> QED
      BY <1>1, <3>2 DEF KeptInv, FreshReading
  <2>3. CASE Rest \/ Clear \/ \E t \in Tasks : StartGrace(t)
    BY <1>1, <2>3 DEF Rest, Clear, StartGrace, submission, KeptInv, FreshReading
  <2> QED
    BY <2>1, <2>2, <2>3
<1>4. NothingWaits'
  <2>1. CASE Rest
    BY <2>1 DEF Rest, NothingWaits, submission
  <2>2. CASE \E t \in Tasks : StartGrace(t)
    <3>1. PICK t \in Tasks : StartGrace(t)
      BY <2>2
    <3>2. t \in Background /\ t \in queue /\ \A u \in queue : ~Outranks(u, t)
      BY <3>1 DEF StartGrace, NeedsGrace, IsHead
    <3>3. ASSUME NEW u \in queue, u \in Interactive PROVE FALSE
      <4>1. Priority[u] = 0 /\ Priority[t] >= 10 /\ Priority[t] \in Nat
        BY <3>2, <3>3 DEF Interactive, Background
      <4> QED
        BY <3>2, <4>1 DEF Outranks
    <3> QED
      BY <3>1, <3>3, <1>1 DEF StartGrace, NothingWaits
  <2>3. CASE pc' # "asleep" /\ pc' # "grace"
    BY <2>3 DEF NothingWaits
  <2>4. CASE pc' = pc /\ notified' = notified
    BY <1>1, <2>4 DEF KeptInv, NothingWaits
  <2> QED
    BY <2>1, <2>2, <2>3, <2>4 DEF CheckDeadline, Complete, Clear, Arrive, Reenter, worker
<1>5. WithinTime'
  <2>1. CASE CheckDeadline
    <3>1. active \in Tasks /\ startedAt = now /\ startedAt \in Nat /\ Predicted[active] \in Nat
      BY <2>1 DEF CheckDeadline, Inv, TypeOK, HoldsOneTask, KeptInv, WithinTime
    <3>2. pc' \in {"running", "clearing"} /\ active' = active /\ startedAt' = startedAt
      BY <2>1 DEF CheckDeadline
    <3> QED
      BY <1>1, <3>1, <3>2 DEF KeptInv, WithinTime
  <2>2. CASE ~CheckDeadline
    BY <1>1, <2>2 DEF Rest, Complete, Clear, Arrive, Reenter, StartGrace,
       submission, worker, KeptInv, WithinTime
  <2> QED
    BY <2>1, <2>2
<1>6. ActiveInTime'
  BY <1>2 DEF KeptInv, ActiveInTime, Promised, HasDeadline
<1>7. Remaining' <= Remaining /\ Remaining' \in Nat /\ Remaining \in Nat
  <2>1. Remaining \in Nat
    BY RemainingType
  <2>2. CASE pc' \in {"checking", "running"}
    <3>1. Remaining' = Remaining
      BY <1>1, <1>2, <2>2 DEF Remaining
    <3> QED
      BY <2>1, <3>1
  <2>3. CASE pc' \notin {"checking", "running"}
    BY <2>1, <2>3 DEF Remaining
  <2> QED
    BY <2>2, <2>3
<1>8. QueueInTime'
  <2> SUFFICES ASSUME NEW u \in queue, Promised(u)
               PROVE  now + Remaining' + Load(u)' < Deadline[u]
    BY <1>1 DEF QueueInTime, Promised, HasDeadline
  <2>1. now + Remaining + Load(u) < Deadline[u]
    BY DEF KeptInv, QueueInTime
  <2>2. u \in Tasks /\ Load(u) \in Nat
    BY LoadType DEF Load, Inv, FiniteHeap, TypeOK
  <2>3. Load(u)' = Load(u) /\ Deadline[u] \in Nat
    BY <1>1, <2>2 DEF Load
  <2> QED
    BY <1>1, <1>7, <2>1, <2>2, <2>3
<1> QED
  BY <1>3, <1>4, <1>5, <1>6, <1>8 DEF KeptInv

LEMMA StepKept == Punctual /\ Inv /\ Inv' /\ KeptInv /\ [Next]_vars => KeptInv'
<1> SUFFICES ASSUME Punctual, Inv, Inv', KeptInv, [Next]_vars PROVE KeptInv'
  OBVIOUS
<1>1. CASE Next
  BY <1>1, TickKept, AdmitKept, PopKept, OtherStepKept DEF Next, WorkerStep
<1>2. CASE UNCHANGED vars
  BY <1>2 DEF vars, submission, worker, KeptInv, FreshReading, NothingWaits, WithinTime,
     ActiveInTime, QueueInTime, Remaining, Load, Promised, HasDeadline
<1> QED
  BY <1>1, <1>2

(* When predictions hold, interactive work admitted with a prediction is    *)
(* answered before its deadline, for any number of submissions: what is     *)
(* admitted later never breaks what was promised before.                    *)
THEOREM AdmissionKeptAlways ==
  ASSUME Punctual PROVE Spec => []AdmissionKept
<1>1. Inv /\ KeptInv => AdmissionKept
  <2> SUFFICES ASSUME Inv, KeptInv, NEW t \in Interactive,
                      future[t] = "pending", HasDeadline(t), Predicted[t] > 0
               PROVE  now < Deadline[t]
    BY DEF AdmissionKept
  <2>1. Promised(t) /\ t \in Tasks /\ now \in Nat /\ Deadline[t] \in Nat /\ Predicted[t] \in Nat
    BY AdmissionAssumption DEF Promised, Interactive, Inv, TypeOK
  <2>2. t \in queue \/ (t = active /\ pc \in {"checking", "running"})
    BY <2>1 DEF Inv, NothingLost
  <2>3. CASE t \in queue
    <3>1. now + Remaining + Load(t) < Deadline[t]
      BY <2>1, <2>3 DEF KeptInv, QueueInTime
    <3>2. Remaining \in Nat /\ Load(t) \in Nat
      BY <2>1, RemainingType, LoadType DEF Load, Inv, FiniteHeap
    <3> QED
      BY <2>1, <3>1, <3>2
  <2>4. CASE t = active /\ pc \in {"checking", "running"}
    <3>1. startedAt + Predicted[t] < Deadline[t] /\ startedAt \in Nat
      BY <2>1, <2>4 DEF KeptInv, ActiveInTime, Inv, TypeOK
    <3>2. now <= startedAt + Predicted[t]
      BY <2>1, <2>4, <3>1, InteractiveStays DEF KeptInv, WithinTime
    <3> QED
      BY <2>1, <3>1, <3>2
  <2> QED
    BY <2>2, <2>3, <2>4
<1> QED
  BY <1>1, InitKept, StepKept, InvAlways, PTL DEF Spec
=============================================================================
