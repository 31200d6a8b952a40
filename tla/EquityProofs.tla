---------------------------- MODULE EquityProofs ----------------------------
(***************************************************************************)
(* Proofs about the local market scheduler and its supervisor, for any     *)
(* number of restarts, any schedule and any sequence of faults.  What      *)
(* relies on a stop that reaches the stages (TreeKill) says so.            *)
(***************************************************************************)
EXTENDS EquitySupervisor, TLAPS

Pcs == Live \cup {"none", "dead", "killed"}
InRound == {"due", "wait", "ended"}
AtStage == {"wait", "ended"}

CurrentKey(p) == KeyAt(Schedule[p.pos], p.at)

(* A process in a round holds the file as it is, and the stage that it     *)
(* started is not one the file shows completed.                            *)
ProcessType(p) ==
  /\ DOMAIN p = {"pc", "mem", "at", "pos", "ok"}
  /\ p.pc \in Pcs /\ IsState(p.mem) /\ p.at \in Nat
  /\ p.pos \in 0..Len(Schedule) /\ p.ok \in BOOLEAN
  /\ p.pc \in AtStage => p.pos > 0

ProcessOK(p) ==
  /\ ProcessType(p)
  /\ p.at <= now
  /\ p.pc \in InRound => p.mem = file
  /\ p.pc \in AtStage /\ CurrentKey(p) \in DOMAIN p.mem => ~p.mem[CurrentKey(p)].completed

TablesOK == now \in Nat /\ IsState(file) /\ lock \in Generations \cup {Nobody}
ProcessesOK == DOMAIN sched = Generations /\ \A g \in Generations : ProcessOK(sched[g])
Locked == \A g \in Generations : sched[g].pc \in Live => lock = g
StagesTyped == stage \subseteq [by : Generations, key : Keys]

StagesAwaited ==
  \A e \in stage : sched[e.by].pc # "killed" =>
    sched[e.by].pc = "wait" /\ e.key = CurrentKey(sched[e.by])

SchedulerInv == TablesOK /\ ProcessesOK /\ Locked /\ StagesTyped

-----------------------------------------------------------------------------
(* The calendar arithmetic.                                                *)

LEMMA Division ==
  ASSUME NEW a \in Int, NEW d \in Nat \ {0}
  PROVE  /\ a \div d \in Int /\ a % d \in 0..(d - 1)
         /\ d * (a \div d) <= a /\ a < d * (a \div d) + d
OBVIOUS

LEMMA DivisionMonotone ==
  ASSUME NEW a \in Int, NEW b \in Int, NEW d \in Nat \ {0}, a <= b
  PROVE  a \div d <= b \div d
<1>1. PICK x, y : x = a \div d /\ y = b \div d
  OBVIOUS
<1>2. x \in Int /\ y \in Int /\ d * x <= a /\ b < d * y + d
  BY <1>1, Division
<1>3. d * x < d * (y + 1)
  BY <1>2
<1>4. ASSUME x >= y + 1 PROVE d * x >= d * (y + 1)
  BY <1>2, <1>4
<1> QED BY <1>1, <1>2, <1>3, <1>4

LEMMA DayTyped ==
  ASSUME NEW t \in Nat
  PROVE  Day(t) \in Int
BY Division, SchedulerAssumption DEF Day

(* A due date is at most two weeks old.                                    *)
LEMMA DueDayBounds ==
  ASSUME NEW s \in Stages, NEW t \in Nat
  PROVE  DueDay(s, t) \in Int /\ Day(t) - KeepDays <= DueDay(s, t)
<1>1. Day(t) \in Int /\ Week \in Nat \ {0} /\ PublishDay \in Nat /\ KeepDays \in Nat
      /\ 2 * Week - 1 <= KeepDays
  BY DayTyped, SchedulerAssumption
<1>2. (Day(t) - PublishDay) % Week \in 0..(Week - 1)
  BY <1>1, Division
<1>3. /\ LastPublication(t) \in Int
      /\ Day(t) - (Week - 1) <= LastPublication(t)
  BY <1>1, <1>2 DEF LastPublication
<1> QED BY <1>1, <1>3 DEF DueDay

LEMMA KeyTyped ==
  ASSUME NEW i \in 1..Len(Schedule), NEW t \in Nat
  PROVE  KeyAt(Schedule[i], t) \in Keys /\ Schedule[i] \in Stages
<1>1. Schedule[i] \in Stages
  BY SchedulerAssumption DEF Stages
<1> QED BY <1>1, DueDayBounds DEF KeyAt, Keys

(* What is pruned could not be due any more.                               *)
LEMMA PrunedIsOld ==
  ASSUME NEW mem, IsState(mem), NEW t \in Nat, NEW u \in Nat, t <= u,
         NEW k \in DOMAIN mem, k \notin DOMAIN Pruned(mem, t)
  PROVE  k.day < DueDay(k.stage, u)
<1>1. k.day \in Int /\ k.stage \in Stages
  BY DEF IsState, Keys
<1>2. k.day < Day(t) - KeepDays
  <2>1. Day(t) \in Int /\ KeepDays \in Nat
    BY DayTyped, SchedulerAssumption
  <2>2. ~(k.day >= Day(t) - KeepDays)
    BY DEF Pruned
  <2> QED BY <1>1, <2>1, <2>2
<1>3. Day(t) <= Day(u)
  <2>1. PICK d : d = DayLength
    OBVIOUS
  <2>2. d \in Nat \ {0} /\ t \in Int /\ u \in Int
    BY <2>1, SchedulerAssumption
  <2>3. t \div d <= u \div d
    BY <2>2, DivisionMonotone
  <2> QED BY <2>1, <2>3 DEF Day
<1>4. Day(u) - KeepDays <= DueDay(k.stage, u) /\ DueDay(k.stage, u) \in Int
  BY <1>1, DueDayBounds
<1> QED BY <1>1, <1>2, <1>3, <1>4, DayTyped, SchedulerAssumption

-----------------------------------------------------------------------------
(* Moves of one process.                                                   *)

Later == now \in Nat /\ now' \in Nat /\ now <= now'

LEMMA ProcessStays ==
  ASSUME Later, NEW p, ProcessOK(p), file' = file \/ p.pc \notin InRound
  PROVE  ProcessOK(p)'
BY DEF Later, ProcessOK, ProcessType, InRound, AtStage

LEMMA ProcessesMove ==
  ASSUME Later, ProcessesOK, NEW g \in Generations, NEW q, ProcessOK(q)',
         sched' = [sched EXCEPT ![g] = q],
         \A h \in Generations \ {g} : file' = file \/ sched[h].pc \notin InRound
  PROVE  ProcessesOK'
<1>1. ASSUME NEW h \in Generations PROVE ProcessOK(sched[h])'
  <2>1. PICK p : p = sched'[h]
    OBVIOUS
  <2>2. CASE h = g
    BY <2>1, <2>2 DEF ProcessesOK
  <2>3. CASE h # g
    <3>1. p = sched[h]
      BY <2>1, <2>3 DEF ProcessesOK
    <3>2. ProcessOK(p) /\ (file' = file \/ p.pc \notin InRound)
      BY <2>3, <3>1 DEF ProcessesOK
    <3>3. ProcessOK(p)'
      BY <3>2, ProcessStays
    <3> QED BY <2>1, <3>3 DEF ProcessOK, ProcessType, CurrentKey
  <2> QED BY <2>2, <2>3
<1> QED BY <1>1 DEF ProcessesOK

LEMMA ProcessesStay ==
  ASSUME Later, ProcessesOK, file' = file, sched' = sched
  PROVE  ProcessesOK'
<1>1. ASSUME NEW h \in Generations PROVE ProcessOK(sched[h])'
  <2>1. PICK p : p = sched[h]
    OBVIOUS
  <2>2. ProcessOK(p)'
    BY <2>1, ProcessStays DEF ProcessesOK
  <2> QED BY <2>1, <2>2 DEF ProcessOK, ProcessType, CurrentKey
<1> QED BY <1>1 DEF ProcessesOK

(* The lock lets one scheduler work at a time.                             *)
LEMMA OneLive ==
  ASSUME Locked, NEW g \in Generations, NEW h \in Generations \ {g}, sched[g].pc \in Live
  PROVE  sched[h].pc \notin Live
BY DEF Locked

LEMMA OthersIdle ==
  ASSUME Locked, NEW g \in Generations, sched[g].pc \in Live
  PROVE  \A h \in Generations \ {g} : sched[h].pc \notin InRound
BY OneLive DEF Live, InRound

LEMMA EmptyState ==
  IsState(NoRecords)
BY DEF IsState, NoRecords

LEMMA FreshProcess ==
  ASSUME now' \in Nat, NEW pc \in {"none", "loop", "dead", "killed"}
  PROVE  ProcessOK([NewProcess EXCEPT !.pc = pc])'
BY EmptyState DEF ProcessOK, ProcessType, NewProcess, Pcs, Live, InRound, AtStage

(* The other processes keep the lock they have.                            *)
LEMMA LockStays ==
  ASSUME Locked, ProcessesOK, NEW g \in Generations, NEW q, q.pc \in Live => lock = g,
         sched' = [sched EXCEPT ![g] = q], lock' = lock
  PROVE  Locked'
BY DEF Locked, ProcessesOK

-----------------------------------------------------------------------------
(* The steps of a scheduler.                                               *)

LEMMA StartSchedulerStep ==
  ASSUME SchedulerInv, NEW g \in Generations, StartScheduler(g)
  PROVE  SchedulerInv'
<1>1. PICK p : p = sched[g]
  OBVIOUS
<1>2. ProcessOK(p) /\ Later /\ p.pc = "none" /\ now' = now /\ file' = file /\ stage' = stage
  BY <1>1 DEF SchedulerInv, ProcessesOK, TablesOK, Later, StartScheduler
<1>3. CASE lock = Nobody
  <2>1. PICK q : q = [p EXCEPT !.pc = "loop"]
    OBVIOUS
  <2>2. sched' = [sched EXCEPT ![g] = q] /\ lock' = g
    BY <1>1, <1>3, <2>1 DEF StartScheduler, LockFree
  <2>3. ProcessOK(q)'
    BY <1>2, <2>1 DEF ProcessOK, ProcessType, Pcs, Live, InRound, AtStage
  <2>4. ProcessesOK'
    BY <1>2, <2>2, <2>3, ProcessesMove DEF SchedulerInv
  <2>5. Locked'
    BY <1>3, <2>2, SchedulerAssumption DEF SchedulerInv, Locked, ProcessesOK
  <2> QED BY <1>2, <2>2, <2>4, <2>5 DEF SchedulerInv, TablesOK, StagesTyped
<1>4. CASE lock # Nobody
  <2>1. PICK q : q = [p EXCEPT !.pc = "dead"]
    OBVIOUS
  <2>2. sched' = [sched EXCEPT ![g] = q] /\ lock' = lock
    BY <1>1, <1>4, <2>1 DEF StartScheduler, LockFree
  <2>3. ProcessOK(q)' /\ q.pc \notin Live
    BY <1>2, <2>1 DEF ProcessOK, ProcessType, Pcs, Live, InRound, AtStage
  <2>4. ProcessesOK' /\ Locked'
    BY <1>2, <2>2, <2>3, ProcessesMove, LockStays DEF SchedulerInv
  <2> QED BY <1>2, <2>2, <2>4 DEF SchedulerInv, TablesOK, StagesTyped
<1> QED BY <1>3, <1>4

LEMMA BeginRoundStep ==
  ASSUME SchedulerInv, NEW g \in Generations, BeginRound(g)
  PROVE  SchedulerInv'
<1>1. PICK q : q = [pc |-> "due", mem |-> file, at |-> now, pos |-> 0, ok |-> FALSE]
  OBVIOUS
<1>2. /\ sched' = [sched EXCEPT ![g] = q] /\ sched[g].pc = "loop"
      /\ UNCHANGED <<now, file, lock, stage>>
  BY <1>1 DEF BeginRound
<1>3. Later /\ lock = g
  BY <1>2 DEF SchedulerInv, TablesOK, Later, Locked, Live
<1>4. Len(Schedule) \in Nat
  BY SchedulerAssumption
<1>5. ProcessOK(q)'
  BY <1>1, <1>2, <1>4 DEF ProcessOK, ProcessType, Pcs, Live, InRound, AtStage,
     SchedulerInv, TablesOK
<1>6. ProcessesOK' /\ Locked'
  BY <1>2, <1>3, <1>5, ProcessesMove, LockStays DEF SchedulerInv
<1> QED BY <1>2, <1>6 DEF SchedulerInv, TablesOK, StagesTyped

(* What a stage that is started is about.                                  *)
LEMMA StartedStage ==
  ASSUME SchedulerInv, NEW g \in Generations, StartStage(g)
  PROVE  \E i \in 1..Len(Schedule) :
           /\ MayRun(Schedule[i], sched[g].at, file)
           /\ stage' = stage \cup {[by |-> g, key |-> KeyAt(Schedule[i], sched[g].at)]}
           /\ sched' = [sched EXCEPT ![g] = [sched[g] EXCEPT !.pc = "wait", !.pos = i]]
           /\ sched[g].pc = "due" /\ UNCHANGED <<now, file, lock>>
<1>1. sched[g].pc = "due" /\ UNCHANGED <<now, file, lock>>
  BY DEF StartStage
<1>2. ProcessOK(sched[g]) /\ sched[g].pos \in 0..Len(Schedule) /\ sched[g].mem = file
  BY <1>1 DEF SchedulerInv, ProcessesOK, ProcessOK, ProcessType, InRound
<1>3. PICK i \in Ahead(sched[g]) :
        /\ stage' = stage \cup {[by |-> g, key |-> KeyAt(Schedule[i], sched[g].at)]}
        /\ sched' = [sched EXCEPT ![g].pc = "wait", ![g].pos = i]
  BY DEF StartStage
<1>4. /\ i \in (sched[g].pos + 1)..Len(Schedule)
      /\ MayRun(Schedule[i], sched[g].at, sched[g].mem)
  BY DEF Ahead
<1>5. i \in 1..Len(Schedule)
  BY <1>2, <1>4, SchedulerAssumption
<1>6. sched' = [sched EXCEPT ![g] = [sched[g] EXCEPT !.pc = "wait", !.pos = i]]
  BY <1>3 DEF SchedulerInv, ProcessesOK
<1> QED BY <1>1, <1>2, <1>3, <1>4, <1>5, <1>6

LEMMA StartStageStep ==
  ASSUME SchedulerInv, NEW g \in Generations, StartStage(g)
  PROVE  SchedulerInv'
<1>1. PICK p : p = sched[g]
  OBVIOUS
<1>2. PICK i \in 1..Len(Schedule) :
        /\ MayRun(Schedule[i], p.at, file)
        /\ stage' = stage \cup {[by |-> g, key |-> KeyAt(Schedule[i], p.at)]}
        /\ sched' = [sched EXCEPT ![g] = [p EXCEPT !.pc = "wait", !.pos = i]]
        /\ p.pc = "due" /\ UNCHANGED <<now, file, lock>>
  BY <1>1, StartedStage
<1>3. PICK q : q = [p EXCEPT !.pc = "wait", !.pos = i]
  OBVIOUS
<1>4. ProcessOK(p) /\ Later /\ lock = g
  BY <1>1, <1>2 DEF SchedulerInv, ProcessesOK, TablesOK, Later, Locked, Live
<1>5. /\ q.pc = "wait" /\ q.pos = i /\ q.mem = p.mem /\ q.at = p.at /\ q.ok = p.ok
      /\ DOMAIN q = DOMAIN p
  BY <1>3, <1>4 DEF ProcessOK, ProcessType
<1>6. CurrentKey(q) = KeyAt(Schedule[i], p.at) /\ CurrentKey(q) \in Keys
  BY <1>4, <1>5, KeyTyped DEF CurrentKey, ProcessOK, ProcessType
<1>7. i > 0 /\ i \in 0..Len(Schedule)
  BY SchedulerAssumption
<1>8. ProcessOK(q)'
  <2>1. CurrentKey(q) \in DOMAIN q.mem => ~q.mem[CurrentKey(q)].completed
    BY <1>2, <1>4, <1>5, <1>6 DEF MayRun, ProcessOK, InRound
  <2>2. ProcessType(q)
    BY <1>4, <1>5, <1>7 DEF ProcessOK, ProcessType, Pcs, Live
  <2> QED BY <1>2, <1>4, <1>5, <2>1, <2>2 DEF ProcessOK, InRound
<1>9. ProcessesOK' /\ Locked'
  BY <1>2, <1>3, <1>4, <1>8, ProcessesMove, LockStays DEF SchedulerInv
<1>10. StagesTyped'
  BY <1>2, <1>6 DEF StagesTyped, SchedulerInv
<1> QED BY <1>2, <1>9, <1>10 DEF SchedulerInv, TablesOK

LEMMA EndStageStep ==
  ASSUME SchedulerInv, NEW e \in stage, NEW ok \in BOOLEAN, EndStage(e, ok)
  PROVE  SchedulerInv'
<1>1. PICK g : g = e.by
  OBVIOUS
<1>2. g \in Generations /\ UNCHANGED <<now, file, lock>> /\ stage' \subseteq stage
  BY <1>1 DEF SchedulerInv, StagesTyped, EndStage
<1>3. PICK p : p = sched[g]
  OBVIOUS
<1>4. ProcessOK(p) /\ Later
  BY <1>2, <1>3 DEF SchedulerInv, ProcessesOK, TablesOK, Later
<1>5. CASE p.pc = "wait"
  <2>1. PICK q : q = [p EXCEPT !.pc = "ended", !.ok = ok]
    OBVIOUS
  <2>2. sched' = [sched EXCEPT ![g] = q]
    BY <1>1, <1>2, <1>3, <1>5, <2>1 DEF EndStage, SchedulerInv, ProcessesOK
  <2>3. /\ q.pc = "ended" /\ q.pos = p.pos /\ q.mem = p.mem /\ q.at = p.at /\ q.ok = ok
        /\ DOMAIN q = DOMAIN p
    BY <1>4, <2>1 DEF ProcessOK, ProcessType
  <2>4. CurrentKey(q) = CurrentKey(p)
    BY <2>3 DEF CurrentKey
  <2>5. ProcessOK(q)'
    BY <1>2, <1>4, <1>5, <2>3, <2>4 DEF ProcessOK, ProcessType, Pcs, Live, InRound, AtStage
  <2>6. lock = g
    BY <1>2, <1>3, <1>5 DEF SchedulerInv, Locked, Live
  <2>7. ProcessesOK' /\ Locked'
    BY <1>2, <1>4, <2>2, <2>5, <2>6, ProcessesMove, LockStays DEF SchedulerInv
  <2> QED BY <1>2, <2>7 DEF SchedulerInv, TablesOK, StagesTyped
<1>6. CASE p.pc # "wait"
  <2>1. sched' = sched
    BY <1>1, <1>3, <1>6 DEF EndStage
  <2>2. ProcessesOK'
    BY <1>2, <1>4, <2>1, ProcessesStay DEF SchedulerInv
  <2> QED BY <1>2, <2>1, <2>2 DEF SchedulerInv, TablesOK, StagesTyped, Locked
<1> QED BY <1>5, <1>6

(* What a checkpoint writes.                                               *)
LEMMA RecordedState ==
  ASSUME NEW p, ProcessOK(p), p.pc = "ended"
  PROVE  /\ IsState(Recorded(p)) /\ DOMAIN p.mem \subseteq DOMAIN Recorded(p)
         /\ \A k \in DOMAIN p.mem : p.mem[k].completed => Recorded(p)[k] = p.mem[k]
<1>1. p.at \in Nat /\ p.pos \in 1..Len(Schedule) /\ IsState(p.mem) /\ p.ok \in BOOLEAN
  BY SchedulerAssumption DEF ProcessOK, ProcessType, AtStage
<1>2. PICK key : key = CurrentKey(p)
  OBVIOUS
<1>3. key \in Keys /\ (key \in DOMAIN p.mem => ~p.mem[key].completed)
  BY <1>1, <1>2, KeyTyped DEF CurrentKey, ProcessOK, AtStage
<1>4. PICK record : record = [completed |-> p.ok, retry |-> IF p.ok THEN 0 ELSE p.at + Retry]
  OBVIOUS
<1>5. record \in Record
  <2>1. (IF p.ok THEN 0 ELSE p.at + Retry) \in Nat
    BY <1>1, SchedulerAssumption
  <2> QED BY <1>1, <1>4, <2>1 DEF Record
<1>6. Recorded(p) = Put(p.mem, key, record)
  BY <1>2, <1>4 DEF Recorded, CurrentKey
<1>7. /\ DOMAIN Recorded(p) = DOMAIN p.mem \cup {key} /\ Recorded(p)[key] = record
      /\ \A k \in DOMAIN p.mem \ {key} : Recorded(p)[k] = p.mem[k]
  BY <1>6 DEF Put
<1>8. IsState(Recorded(p))
  BY <1>1, <1>3, <1>5, <1>7 DEF IsState
<1> QED BY <1>3, <1>7, <1>8

LEMMA CheckpointStep ==
  ASSUME SchedulerInv, NEW g \in Generations, Checkpoint(g)
  PROVE  SchedulerInv'
<1>1. PICK p, f : p = sched[g] /\ f = Recorded(p)
  OBVIOUS
<1>2. /\ p.pc = "ended" /\ file' = f /\ UNCHANGED <<now, lock, stage>>
      /\ sched' = [sched EXCEPT ![g].pc = "due", ![g].mem = f]
  BY <1>1 DEF Checkpoint
<1>3. ProcessOK(p) /\ Later /\ lock = g
  BY <1>1, <1>2 DEF SchedulerInv, ProcessesOK, TablesOK, Later, Locked, Live
<1>4. IsState(f)
  BY <1>1, <1>2, <1>3, RecordedState
<1>5. PICK q : q = [p EXCEPT !.pc = "due", !.mem = f]
  OBVIOUS
<1>6. sched' = [sched EXCEPT ![g] = q]
  BY <1>1, <1>2, <1>5 DEF SchedulerInv, ProcessesOK
<1>7. ProcessOK(q)'
  BY <1>2, <1>3, <1>4, <1>5 DEF ProcessOK, ProcessType, Pcs, Live, InRound, AtStage
<1>8. \A h \in Generations \ {g} : sched[h].pc \notin InRound
  BY <1>1, <1>2, OthersIdle DEF SchedulerInv, Live
<1>9. ProcessesOK' /\ Locked'
  BY <1>2, <1>3, <1>6, <1>7, <1>8, ProcessesMove, LockStays DEF SchedulerInv
<1> QED BY <1>2, <1>4, <1>9 DEF SchedulerInv, TablesOK, StagesTyped

LEMMA EndRoundStep ==
  ASSUME SchedulerInv, NEW g \in Generations, EndRound(g)
  PROVE  SchedulerInv'
<1>1. PICK p, f, q : /\ p = sched[g] /\ f = Pruned(p.mem, p.at)
                     /\ q = [NewProcess EXCEPT !.pc = "loop"]
  OBVIOUS
<1>2. /\ p.pc = "due" /\ file' = f /\ UNCHANGED <<now, lock, stage>>
      /\ sched' = [sched EXCEPT ![g] = q]
  BY <1>1 DEF EndRound
<1>3. ProcessOK(p) /\ Later /\ lock = g
  BY <1>1, <1>2 DEF SchedulerInv, ProcessesOK, TablesOK, Later, Locked, Live
<1>4. IsState(f)
  BY <1>1, <1>3 DEF ProcessOK, ProcessType, IsState, Pruned
<1>5. ProcessOK(q)'
  BY <1>1, <1>3, FreshProcess DEF Later
<1>6. \A h \in Generations \ {g} : sched[h].pc \notin InRound
  BY <1>1, <1>2, OthersIdle DEF SchedulerInv, Live
<1>7. ProcessesOK' /\ Locked'
  BY <1>2, <1>3, <1>5, <1>6, ProcessesMove, LockStays DEF SchedulerInv
<1> QED BY <1>2, <1>4, <1>7 DEF SchedulerInv, TablesOK, StagesTyped

LEMMA EndsStep ==
  ASSUME SchedulerInv, NEW g \in Generations, NEW how \in {"dead", "killed"},
         NEW taken, Ends(g, how, taken)
  PROVE  SchedulerInv'
<1>1. PICK q : q = [NewProcess EXCEPT !.pc = how]
  OBVIOUS
<1>2. /\ sched' = [sched EXCEPT ![g] = q] /\ UNCHANGED <<now, file>> /\ stage' \subseteq stage
      /\ lock' = Nobody /\ sched[g].pc \in Live
  BY <1>1 DEF Ends, Unlocked, SchedulerInv, Locked
<1>3. Later
  BY <1>2 DEF SchedulerInv, TablesOK, Later
<1>4. ProcessOK(q)' /\ q.pc \notin Live
  BY <1>1, <1>3, FreshProcess DEF Later, NewProcess, Live
<1>5. ProcessesOK'
  BY <1>2, <1>3, <1>4, ProcessesMove DEF SchedulerInv
<1>6. Locked'
  <2>1. ASSUME NEW h \in Generations PROVE sched'[h].pc \notin Live
    <3>1. CASE h = g
      BY <1>2, <1>4, <3>1 DEF SchedulerInv, ProcessesOK
    <3>2. CASE h # g
      BY <1>2, <3>2, OneLive DEF SchedulerInv, ProcessesOK
    <3> QED BY <3>1, <3>2
  <2> QED BY <2>1 DEF Locked
<1> QED BY <1>2, <1>5, <1>6 DEF SchedulerInv, TablesOK, StagesTyped

LEMMA PassStep ==
  ASSUME SchedulerInv, Pass
  PROVE  SchedulerInv'
<1>1. Later /\ UNCHANGED <<file, lock, sched, stage>>
  BY DEF SchedulerInv, TablesOK, Later, Pass
<1> QED BY <1>1, ProcessesStay DEF SchedulerInv, TablesOK, StagesTyped, Locked, Later

LEMMA SchedulerStays ==
  ASSUME SchedulerInv, UNCHANGED schedulerVars
  PROVE  SchedulerInv'
<1>1. Later /\ UNCHANGED <<now, file, lock, sched, stage>>
  BY DEF SchedulerInv, TablesOK, Later, schedulerVars
<1> QED BY <1>1, ProcessesStay DEF SchedulerInv, TablesOK, StagesTyped, Locked

LEMMA SchedulerMoves ==
  ASSUME SchedulerInv, SchedulerStep
  PROVE  SchedulerInv'
<1>1. ASSUME NEW g \in Generations, Round(g) PROVE SchedulerInv'
  BY <1>1, BeginRoundStep, StartStageStep, CheckpointStep, EndRoundStep DEF Round
<1>2. ASSUME NEW g \in Generations, Fail(g) PROVE SchedulerInv'
  BY <1>2, EndsStep DEF Fail
<1> QED BY <1>1, <1>2, EndStageStep, PassStep DEF SchedulerStep

-----------------------------------------------------------------------------
(* The steps of the system, as the scheduler sees them.                    *)

LEMMA SchedulerChanges ==
  ASSUME [Next]_vars
  PROVE  \/ SchedulerStep \/ UNCHANGED schedulerVars
         \/ \E g \in Generations : StartScheduler(g) \/ StopScheduler(g) \/ KillScheduler(g)
<1>1. CASE UNCHANGED vars
  BY <1>1 DEF vars
<1>2. ASSUME NEW g \in Generations, StartStep(g)
      PROVE  UNCHANGED schedulerVars \/ StartScheduler(g)
  BY <1>2 DEF StartStep, Probe, AwaitModel, Warmup, AwaitWeb, LaunchScheduler, Still
<1>3. ASSUME NEW g \in Generations, EndStep(g)
      PROVE  UNCHANGED schedulerVars \/ StopScheduler(g)
  BY <1>3 DEF EndStep, Poll, StopLast, Stop, StopRaises, Finish, Still
<1>4. ASSUME NEW g \in Generations,
             \/ Acquire(g) \/ Interrupt(g) \/ Kill(g) \/ KillAlone(g)
             \/ \E n \in Names \ {"scheduler"} : ChildDies(g, n)
      PROVE  UNCHANGED schedulerVars \/ KillScheduler(g)
  BY <1>4 DEF Acquire, Interrupt, Kill, KillAlone, ChildDies, Still
<1> QED BY <1>1, <1>2, <1>3, <1>4 DEF Next

LEMMA SchedulerInvStep ==
  ASSUME SchedulerInv, [Next]_vars
  PROVE  SchedulerInv'
<1>1. ASSUME NEW g \in Generations, StopScheduler(g) \/ KillScheduler(g)
      PROVE  SchedulerInv'
  BY <1>1, EndsStep DEF StopScheduler, KillScheduler
<1> QED BY <1>1, SchedulerChanges, SchedulerMoves, SchedulerStays, StartSchedulerStep

(* Nobody wakes a scheduler that has ended.                                *)
LEMMA Dormant ==
  ASSUME SchedulerInv, NEW h \in Generations, sched[h].pc \notin Live,
         \/ SchedulerStep \/ UNCHANGED schedulerVars
         \/ \E g \in Generations : StopScheduler(g) \/ KillScheduler(g)
  PROVE  sched'[h] = sched[h]
<1>1. ASSUME NEW g \in Generations, Round(g) PROVE sched'[h] = sched[h]
  BY <1>1 DEF Round, BeginRound, StartStage, Checkpoint, EndRound, Live, SchedulerInv,
     ProcessesOK
<1>2. ASSUME NEW g \in Generations, NEW how, NEW taken, Ends(g, how, taken)
      PROVE  sched'[h] = sched[h]
  BY <1>2 DEF Ends, SchedulerInv, ProcessesOK
<1>3. ASSUME NEW e \in stage, NEW ok \in BOOLEAN, EndStage(e, ok) PROVE sched'[h] = sched[h]
  <2>1. e.by \in Generations
    BY <1>3 DEF SchedulerInv, StagesTyped
  <2> QED BY <1>3, <2>1 DEF EndStage, Live, SchedulerInv, ProcessesOK
<1>4. CASE Pass \/ UNCHANGED schedulerVars
  BY <1>4 DEF Pass, schedulerVars
<1> QED BY <1>1, <1>2, <1>3, <1>4 DEF SchedulerStep, Fail, StopScheduler, KillScheduler

-----------------------------------------------------------------------------
(* A stage that runs is the one its scheduler waits for.                   *)

LEMMA AwaitedStays ==
  ASSUME SchedulerInv, StagesAwaited, NEW g \in Generations, NEW q,
         sched' = [sched EXCEPT ![g] = q], stage' \subseteq stage,
         sched[g].pc \notin {"wait", "killed"} \/ q.pc = "killed" \/ StagesOf(g) \cap stage' = {}
  PROVE  StagesAwaited'
<1>1. ASSUME NEW e \in stage', sched'[e.by].pc # "killed"
      PROVE  sched'[e.by].pc = "wait" /\ e.key = CurrentKey(sched'[e.by])
  <2>1. e \in stage /\ e.by \in Generations
    BY <1>1 DEF SchedulerInv, StagesTyped
  <2>2. e.by # g
    BY <1>1, <2>1 DEF StagesAwaited, StagesOf, SchedulerInv, ProcessesOK
  <2>3. sched'[e.by] = sched[e.by]
    BY <2>1, <2>2 DEF SchedulerInv, ProcessesOK
  <2> QED BY <1>1, <2>1, <2>3 DEF StagesAwaited
<1> QED BY <1>1 DEF StagesAwaited, CurrentKey

LEMMA AwaitedStep ==
  ASSUME SchedulerInv, StagesAwaited, TreeKill, [Next]_vars
  PROVE  StagesAwaited'
<1>1. ASSUME NEW g \in Generations, BeginRound(g) \/ Checkpoint(g) \/ EndRound(g)
      PROVE  StagesAwaited'
  <2>1. sched[g].pc \notin {"wait", "killed"} /\ stage' = stage
    BY <1>1 DEF BeginRound, Checkpoint, EndRound
  <2>2. PICK q : q = sched'[g]
    OBVIOUS
  <2>3. sched' = [sched EXCEPT ![g] = q]
    BY <1>1, <2>2 DEF BeginRound, Checkpoint, EndRound, SchedulerInv, ProcessesOK
  <2> QED BY <2>1, <2>3, AwaitedStays
<1>2. ASSUME NEW g \in Generations, StartScheduler(g) PROVE StagesAwaited'
  <2>1. sched[g].pc = "none" /\ stage' = stage
    BY <1>2 DEF StartScheduler
  <2>2. PICK q : q = sched'[g]
    OBVIOUS
  <2>3. sched' = [sched EXCEPT ![g] = q]
    BY <1>2, <2>2 DEF StartScheduler, SchedulerInv, ProcessesOK
  <2> QED BY <2>1, <2>3, AwaitedStays
<1>3. ASSUME NEW g \in Generations, StartStage(g) PROVE StagesAwaited'
  <2>1. PICK p : p = sched[g]
    OBVIOUS
  <2>2. PICK i \in 1..Len(Schedule) :
          /\ stage' = stage \cup {[by |-> g, key |-> KeyAt(Schedule[i], p.at)]}
          /\ sched' = [sched EXCEPT ![g] = [p EXCEPT !.pc = "wait", !.pos = i]]
          /\ p.pc = "due"
    BY <1>3, <2>1, StartedStage
  <2>3. PICK q : q = [p EXCEPT !.pc = "wait", !.pos = i]
    OBVIOUS
  <2>4. q.pc = "wait" /\ CurrentKey(q) = KeyAt(Schedule[i], p.at)
    BY <2>1, <2>3 DEF CurrentKey, SchedulerInv, ProcessesOK, ProcessOK, ProcessType
  <2>5. sched'[g] = q /\ \A h \in Generations \ {g} : sched'[h] = sched[h]
    BY <2>2, <2>3 DEF SchedulerInv, ProcessesOK
  <2>6. ASSUME NEW e \in stage', sched'[e.by].pc # "killed"
        PROVE  sched'[e.by].pc = "wait" /\ e.key = CurrentKey(sched'[e.by])
    <3>1. CASE e \in stage
      <4>1. e.by \in Generations
        BY <3>1 DEF SchedulerInv, StagesTyped
      <4>2. e.by # g
        BY <2>1, <2>2, <3>1 DEF StagesAwaited
      <4> QED BY <2>5, <2>6, <3>1, <4>1, <4>2 DEF StagesAwaited
    <3>2. CASE e = [by |-> g, key |-> KeyAt(Schedule[i], p.at)]
      BY <2>4, <2>5, <3>2
    <3> QED BY <2>2, <2>6, <3>1, <3>2
  <2> QED BY <2>6 DEF StagesAwaited, CurrentKey
<1>4. ASSUME NEW e \in stage, NEW ok \in BOOLEAN, EndStage(e, ok) PROVE StagesAwaited'
  <2>1. e.by \in Generations /\ stage' = stage \ {e}
    BY <1>4 DEF EndStage, SchedulerInv, StagesTyped
  <2>2. CASE sched[e.by].pc # "wait"
    BY <1>4, <2>1, <2>2 DEF EndStage, StagesAwaited, CurrentKey
  <2>3. CASE sched[e.by].pc = "wait"
    <3>1. PICK q : q = sched'[e.by]
      OBVIOUS
    <3>2. sched' = [sched EXCEPT ![e.by] = q]
      BY <1>4, <2>1, <2>3, <3>1 DEF EndStage, SchedulerInv, ProcessesOK
    <3>3. ASSUME NEW d \in stage, d.by = e.by PROVE d = e
      <4>1. d.key = e.key
        BY <2>3, <3>3 DEF StagesAwaited
      <4> QED BY <3>3, <4>1 DEF SchedulerInv, StagesTyped
    <3>4. StagesOf(e.by) \cap stage' = {}
      BY <2>1, <3>3 DEF StagesOf
    <3> QED BY <2>1, <3>2, <3>4, AwaitedStays
  <2> QED BY <2>2, <2>3
<1>5. ASSUME NEW g \in Generations, Fail(g) \/ StopScheduler(g) PROVE StagesAwaited'
  <2>1. Ends(g, "dead", StagesOf(g))
    BY <1>5 DEF Fail, StopScheduler
  <2>2. PICK q : q = [NewProcess EXCEPT !.pc = "dead"]
    OBVIOUS
  <2>3. sched' = [sched EXCEPT ![g] = q] /\ stage' = stage \ StagesOf(g)
    BY <2>1, <2>2 DEF Ends
  <2> QED BY <2>3, AwaitedStays
<1>6. ASSUME NEW g \in Generations, KillScheduler(g) PROVE StagesAwaited'
  <2>1. PICK q : q = [NewProcess EXCEPT !.pc = "killed"]
    OBVIOUS
  <2>2. sched' = [sched EXCEPT ![g] = q] /\ stage' \subseteq stage /\ q.pc = "killed"
    BY <1>6, <2>1 DEF KillScheduler, Ends, NewProcess
  <2> QED BY <2>2, AwaitedStays
<1>7. CASE Pass \/ UNCHANGED schedulerVars
  BY <1>7 DEF Pass, schedulerVars, StagesAwaited, CurrentKey
<1> QED BY <1>1, <1>2, <1>3, <1>4, <1>5, <1>6, <1>7, SchedulerChanges
     DEF SchedulerStep, Round

-----------------------------------------------------------------------------
(* The supervisor.                                                         *)

Others == Names \ {"scheduler"}
Phases == Running \cup Over \cup {"none", "stopping"}

SupervisorTyped ==
  /\ phase \in [Generations -> Phases]
  /\ child \in [Generations -> [Others -> {"none", "up", "dead", "stopped"}]]
  /\ supLock \in Generations \cup {Nobody}
  /\ faults \in 0..MaxFaults

(* Nothing runs before a supervisor starts, and nothing after it is done.  *)
NothingRuns ==
  \A g \in Generations :
    /\ phase[g] = "none" => sched[g].pc = "none" /\ \A n \in Others : child[g][n] = "none"
    /\ phase[g] = "down" => sched[g].pc \notin Live /\ \A n \in Others : child[g][n] # "up"

LEMMA NamesListed ==
  /\ Services[1] = "model" /\ Services[2] = "web" /\ Services[3] = "tunnel"
  /\ Services[4] = "scheduler"
  /\ DOMAIN Services = 1..4
  /\ Names = {"model", "web", "tunnel", "scheduler"}
<1>1. DOMAIN Services = 1..4
  BY DEF Services
<1>2. /\ Services[1] = "model" /\ Services[2] = "web" /\ Services[3] = "tunnel"
      /\ Services[4] = "scheduler"
  BY DEF Services
<1>3. 1..4 = {1, 2, 3, 4}
  OBVIOUS
<1> QED BY <1>1, <1>2, <1>3 DEF Names

LEMMA NothingUp ==
  ASSUME NEW g \in Generations
  PROVE  Up(g) = {} <=> sched[g].pc \notin Live /\ \A n \in Others : child[g][n] # "up"
<1>1. ASSUME Up(g) = {} PROVE sched[g].pc \notin Live
  <2>1. ConditionOf(g, "scheduler") # "up"
    BY <1>1, NamesListed DEF Up
  <2> QED BY <2>1 DEF ConditionOf, Live
<1>2. ASSUME Up(g) = {}, NEW n \in Others PROVE child[g][n] # "up"
  <2>1. \E i \in DOMAIN Services : Services[i] = n
    BY DEF Others, Names
  <2>2. ConditionOf(g, n) # "up"
    BY <1>2, <2>1 DEF Up
  <2> QED BY <2>2 DEF ConditionOf, Others
<1>3. ASSUME sched[g].pc \notin Live, \A n \in Others : child[g][n] # "up",
             NEW i \in DOMAIN Services
      PROVE  ConditionOf(g, Services[i]) # "up"
  <2>1. Services[i] \in Names
    BY DEF Names
  <2> QED BY <1>3, <2>1 DEF ConditionOf, Others
<1> QED BY <1>1, <1>2, <1>3 DEF Up

LEMMA PhaseMoves ==
  ASSUME SupervisorTyped, NothingRuns, NEW g \in Generations, NEW to \in Phases \ {"none", "down"},
         phase' = [phase EXCEPT ![g] = to],
         \A h \in Generations \ {g} :
           /\ child'[h] = child[h]
           /\ sched[h].pc \notin Live => sched'[h] = sched[h]
  PROVE  NothingRuns' /\ phase' \in [Generations -> Phases]
<1>1. ASSUME NEW h \in Generations \ {g}
      PROVE  /\ phase'[h] = "none" =>
                  sched'[h].pc = "none" /\ \A n \in Others : child'[h][n] = "none"
             /\ phase'[h] = "down" =>
                  sched'[h].pc \notin Live /\ \A n \in Others : child'[h][n] # "up"
  BY DEF NothingRuns, SupervisorTyped, Live
<1>2. phase'[g] \notin {"none", "down"}
  BY DEF SupervisorTyped
<1>3. phase' \in [Generations -> Phases]
  BY DEF SupervisorTyped
<1> QED BY <1>1, <1>2, <1>3 DEF NothingRuns

Rests(h) == sched[h].pc \notin Live => sched'[h] = sched[h]

OnlyEnds(h) ==
  \A n \in Others : \/ child'[h][n] = child[h][n]
                    \/ child[h][n] = "up" /\ child'[h][n] \in {"dead", "stopped"}

LEMMA ConditionMoves ==
  ASSUME NothingRuns, phase' = phase,
         \A h \in Generations : Rests(h) /\ OnlyEnds(h)
  PROVE  NothingRuns'
<1>1. ASSUME NEW h \in Generations
      PROVE  /\ phase[h] = "none" =>
                  sched'[h].pc = "none" /\ \A n \in Others : child'[h][n] = "none"
             /\ phase[h] = "down" =>
                  sched'[h].pc \notin Live /\ \A n \in Others : child'[h][n] # "up"
  BY DEF NothingRuns, Rests, OnlyEnds, Live
<1> QED BY <1>1 DEF NothingRuns

LEMMA AllRest ==
  ASSUME SchedulerInv,
         \/ SchedulerStep \/ UNCHANGED schedulerVars
         \/ \E g \in Generations : StopScheduler(g) \/ KillScheduler(g)
  PROVE  \A h \in Generations : Rests(h)
BY Dormant DEF Rests

SInv == SchedulerInv /\ SupervisorTyped /\ NothingRuns

LEMMA LaunchTyped ==
  ASSUME SupervisorTyped, NEW g \in Generations, NEW n \in Others, NEW c \in {"up", "dead", "stopped"},
         child' = [child EXCEPT ![g][n] = c]
  PROVE  /\ child' \in [Generations -> [Others -> {"none", "up", "dead", "stopped"}]]
         /\ \A h \in Generations \ {g} : child'[h] = child[h]
         /\ child'[g][n] = c /\ \A m \in Others \ {n} : child'[g][m] = child[g][m]
BY DEF SupervisorTyped

LEMMA StartStepInv ==
  ASSUME SInv, NEW g \in Generations, StartStep(g)
  PROVE  SupervisorTyped' /\ NothingRuns'
<1>1. {"model", "web", "tunnel"} \subseteq Others
  BY NamesListed DEF Others
<1>2. PICK to : to = phase'[g]
  OBVIOUS
<1>3. /\ to \in Phases \ {"none", "down"} /\ phase' = [phase EXCEPT ![g] = to]
      /\ UNCHANGED <<supLock, faults>>
      /\ \/ child' = child
         \/ \E n \in Others : Launch(g, n)
  BY <1>1, <1>2 DEF SInv, SupervisorTyped, StartStep, Probe, AwaitModel, Warmup, AwaitWeb,
     LaunchScheduler, Moves, Still, Phases, Running, Starting
<1>4. /\ child' \in [Generations -> [Others -> {"none", "up", "dead", "stopped"}]]
      /\ \A h \in Generations \ {g} : child'[h] = child[h]
  BY <1>3, LaunchTyped DEF Launch, SInv, SupervisorTyped
<1>5. ASSUME NEW h \in Generations \ {g} PROVE sched'[h] = sched[h]
  BY DEF StartStep, Probe, AwaitModel, Warmup, AwaitWeb, LaunchScheduler, StartScheduler,
     Still, schedulerVars, SInv, SchedulerInv, ProcessesOK
<1>6. NothingRuns' /\ phase' \in [Generations -> Phases]
  BY <1>3, <1>4, <1>5, PhaseMoves DEF SInv
<1> QED BY <1>3, <1>4, <1>6 DEF SInv, SupervisorTyped

LEMMA AcquireInv ==
  ASSUME SInv, NEW g \in Generations, Acquire(g)
  PROVE  SupervisorTyped' /\ NothingRuns'
<1>1. UNCHANGED <<sched, child, faults>>
  BY DEF Acquire, schedulerVars
<1>2. CASE supLock = Nobody
  <2>1. phase' = [phase EXCEPT ![g] = "probe"] /\ supLock' = g
    BY <1>2 DEF Acquire, Moves
  <2>2. NothingRuns' /\ phase' \in [Generations -> Phases]
    BY <1>1, <2>1, PhaseMoves DEF SInv, Phases, Running, Starting
  <2> QED BY <1>1, <2>1, <2>2 DEF SInv, SupervisorTyped
<1>3. CASE supLock # Nobody
  <2>1. phase[g] = "none" /\ phase' = [phase EXCEPT ![g] = "down"] /\ supLock' = supLock
    BY <1>3 DEF Acquire, Moves
  <2>2. phase' \in [Generations -> Phases]
    BY <2>1 DEF SInv, SupervisorTyped, Phases, Over
  <2>3. NothingRuns'
    BY <1>1, <2>1 DEF SInv, SupervisorTyped, NothingRuns, Live
  <2> QED BY <1>1, <2>1, <2>2, <2>3 DEF SInv, SupervisorTyped
<1> QED BY <1>2, <1>3

LEMMA EndStepInv ==
  ASSUME SInv, NEW g \in Generations, EndStep(g) \/ Interrupt(g) \/ Kill(g)
  PROVE  SupervisorTyped' /\ NothingRuns'
<1>1. CASE Poll(g) \/ Interrupt(g) \/ StopRaises(g) \/ Kill(g)
  <2>1. PICK to \in {"stopping", "aborted", "killed"} : phase' = [phase EXCEPT ![g] = to]
    BY <1>1 DEF Poll, Interrupt, StopRaises, Kill, Moves
  <2>2. /\ UNCHANGED <<sched, child>> /\ supLock' \in {supLock, Nobody}
        /\ faults' \in 0..MaxFaults
    <3>1. faults \in 0..MaxFaults /\ MaxFaults \in Nat
      BY MaxFaultsAssumption DEF SInv, SupervisorTyped
    <3> QED BY <1>1, <3>1 DEF Poll, Interrupt, StopRaises, Kill, Still, schedulerVars
  <2>3. NothingRuns' /\ phase' \in [Generations -> Phases]
    BY <2>1, <2>2, PhaseMoves DEF SInv, Phases, Over
  <2> QED BY <2>2, <2>3 DEF SInv, SupervisorTyped
<1>2. CASE Finish(g)
  <2>1. /\ UNCHANGED <<sched, child, faults>> /\ Up(g) = {} /\ supLock' = Nobody
        /\ phase' = [phase EXCEPT ![g] = "down"]
    BY <1>2 DEF Finish, Moves, schedulerVars
  <2>2. sched[g].pc \notin Live /\ \A n \in Others : child[g][n] # "up"
    BY <2>1, NothingUp
  <2>3. phase' \in [Generations -> Phases]
    BY <2>1 DEF SInv, SupervisorTyped, Phases, Over
  <2>4. NothingRuns'
    BY <2>1, <2>2 DEF SInv, SupervisorTyped, NothingRuns
  <2> QED BY <2>1, <2>3, <2>4 DEF SInv, SupervisorTyped
<1>3. CASE StopLast(g)
  <2>1. PICK i \in Up(g) : Stop(g, i)
    BY <1>3 DEF StopLast
  <2>2. /\ UNCHANGED <<phase, supLock, faults>>
        /\ IF Services[i] = "scheduler" THEN StopScheduler(g) /\ UNCHANGED child
           ELSE /\ child' = [child EXCEPT ![g][Services[i]] = "stopped"]
                /\ UNCHANGED schedulerVars
    BY <2>1 DEF Stop
  <2>3. i \in DOMAIN Services /\ ConditionOf(g, Services[i]) = "up" /\ Services[i] \in Names
    BY DEF Up, Names
  <2>4. CASE Services[i] = "scheduler"
    <3>1. StopScheduler(g) /\ child' = child
      BY <2>2, <2>4
    <3>2. NothingRuns'
      <4>1. \A h \in Generations : Rests(h) /\ OnlyEnds(h)
        BY <2>2, <3>1, AllRest DEF SInv, OnlyEnds
      <4> QED BY <4>1, <2>2, <3>1, ConditionMoves DEF SInv
    <3> QED BY <2>2, <3>1, <3>2 DEF SInv, SupervisorTyped
  <2>5. CASE Services[i] # "scheduler"
    <3>1. PICK n \in Others : n = Services[i]
      BY <2>3, <2>5 DEF Others
    <3>2. child' = [child EXCEPT ![g][n] = "stopped"] /\ sched' = sched /\ child[g][n] = "up"
      BY <2>2, <2>3, <2>5, <3>1 DEF schedulerVars, ConditionOf
    <3>3. /\ child' \in [Generations -> [Others -> {"none", "up", "dead", "stopped"}]]
          /\ \A h \in Generations \ {g} : child'[h] = child[h]
          /\ child'[g][n] = "stopped" /\ \A m \in Others \ {n} : child'[g][m] = child[g][m]
      BY <3>2, LaunchTyped DEF SInv
    <3>4. NothingRuns'
      <4>1. \A h \in Generations : Rests(h) /\ OnlyEnds(h)
        BY <2>2, <3>2, <3>3 DEF Rests, OnlyEnds
      <4> QED BY <4>1, <2>2, <3>2, <3>3, ConditionMoves DEF SInv
    <3> QED BY <2>2, <3>3, <3>4 DEF SInv, SupervisorTyped
  <2> QED BY <2>4, <2>5
<1> QED BY <1>1, <1>2, <1>3 DEF EndStep

LEMMA FaultInv ==
  ASSUME SInv, NEW g \in Generations,
         KillAlone(g) \/ \E n \in Names \ {"scheduler"} : ChildDies(g, n)
  PROVE  SupervisorTyped' /\ NothingRuns'
<1>1. faults' \in 0..MaxFaults /\ phase' = phase /\ supLock' = supLock
  <2>1. faults \in 0..MaxFaults /\ MaxFaults \in Nat
    BY MaxFaultsAssumption DEF SInv, SupervisorTyped
  <2> QED BY <2>1 DEF KillAlone, ChildDies
<1>2. CASE KillAlone(g)
  <2>1. KillScheduler(g) /\ child' = child
    BY <1>2 DEF KillAlone
  <2>2. NothingRuns'
    <3>1. \A h \in Generations : Rests(h) /\ OnlyEnds(h)
      BY <1>1, <2>1, AllRest DEF SInv, OnlyEnds
    <3> QED BY <3>1, <1>1, <2>1, ConditionMoves DEF SInv
  <2> QED BY <1>1, <2>1, <2>2 DEF SInv, SupervisorTyped
<1>3. ASSUME NEW n \in Others, ChildDies(g, n) PROVE SupervisorTyped' /\ NothingRuns'
  <2>1. child' = [child EXCEPT ![g][n] = "dead"] /\ sched' = sched /\ child[g][n] = "up"
    BY <1>3 DEF ChildDies, schedulerVars
  <2>2. /\ child' \in [Generations -> [Others -> {"none", "up", "dead", "stopped"}]]
        /\ \A h \in Generations \ {g} : child'[h] = child[h]
        /\ child'[g][n] = "dead" /\ \A m \in Others \ {n} : child'[g][m] = child[g][m]
    BY <2>1, LaunchTyped DEF SInv
  <2>3. NothingRuns'
    <3>1. \A h \in Generations : Rests(h) /\ OnlyEnds(h)
      BY <1>1, <2>1, <2>2 DEF Rests, OnlyEnds
    <3> QED BY <3>1, <1>1, <2>1, <2>2, ConditionMoves DEF SInv
  <2> QED BY <1>1, <2>2, <2>3 DEF SInv, SupervisorTyped
<1> QED BY <1>2, <1>3 DEF Others

LEMMA SInvStep ==
  ASSUME SInv, [Next]_vars
  PROVE  SInv'
<1>1. SchedulerInv'
  BY SchedulerInvStep DEF SInv
<1>2. CASE UNCHANGED vars
  <2>1. UNCHANGED <<sched, phase, child, supLock, faults>>
    BY <1>2 DEF vars, supervisor, schedulerVars
  <2>2. NothingRuns'
    <3>1. \A h \in Generations : Rests(h) /\ OnlyEnds(h)
      BY <2>1 DEF Rests, OnlyEnds
    <3> QED BY <3>1, <2>1, ConditionMoves DEF SInv
  <2> QED BY <1>1, <2>1, <2>2 DEF SInv, SupervisorTyped
<1>3. CASE SchedulerStep /\ UNCHANGED supervisor
  <2>1. UNCHANGED <<phase, child, supLock, faults>>
    BY <1>3 DEF supervisor
  <2>2. NothingRuns'
    <3>1. \A h \in Generations : Rests(h) /\ OnlyEnds(h)
      BY <1>3, <2>1, AllRest DEF SInv, OnlyEnds
    <3> QED BY <3>1, <1>3, <2>1, ConditionMoves DEF SInv
  <2> QED BY <1>1, <2>1, <2>2 DEF SInv, SupervisorTyped
<1>4. ASSUME NEW g \in Generations,
             \/ Acquire(g) \/ StartStep(g) \/ EndStep(g) \/ Interrupt(g) \/ Kill(g)
             \/ KillAlone(g) \/ \E n \in Names \ {"scheduler"} : ChildDies(g, n)
      PROVE  SupervisorTyped' /\ NothingRuns'
  BY <1>4, AcquireInv, StartStepInv, EndStepInv, FaultInv
<1>5. SupervisorTyped' /\ NothingRuns'
  BY <1>2, <1>3, <1>4 DEF SInv, Next
<1> QED BY <1>1, <1>5 DEF SInv

-----------------------------------------------------------------------------
LEMMA Initial ==
  ASSUME Init
  PROVE  SInv /\ StagesAwaited
<1>1. PICK q : q = NewProcess
  OBVIOUS
<1>2. /\ now = Start /\ file = NoRecords /\ lock = Nobody /\ stage = {}
      /\ sched = [g \in Generations |-> q]
  BY <1>1 DEF Init, SchedulerInit
<1>3. now \in Nat /\ 0 <= now /\ Len(Schedule) \in Nat /\ MaxFaults \in Nat
  BY <1>2, SchedulerAssumption, MaxFaultsAssumption
<1>4. q.pc = "none" /\ ProcessOK(q)
  BY <1>1, <1>3, EmptyState DEF ProcessOK, ProcessType, NewProcess, Pcs, Live, InRound, AtStage
<1>5. ProcessesOK
  <2>1. ASSUME NEW g \in Generations PROVE ProcessOK(sched[g])
    BY <1>2, <1>4
  <2> QED BY <1>2, <2>1 DEF ProcessesOK
<1>6. SchedulerInv
  BY <1>2, <1>3, <1>4, <1>5, EmptyState DEF SchedulerInv, TablesOK, Locked, StagesTyped, Live
<1>7. SupervisorTyped
  BY <1>3 DEF Init, SupervisorTyped, Phases, Others
<1>8. NothingRuns
  BY <1>2, <1>4 DEF Init, NothingRuns, Others
<1>9. StagesAwaited
  BY <1>2 DEF StagesAwaited
<1> QED BY <1>6, <1>7, <1>8, <1>9 DEF SInv

THEOREM Inductive == Spec => []SInv
BY Initial, SInvStep, PTL DEF Spec

THEOREM Awaited == TreeKill => (Spec => []StagesAwaited)
<1> SUFFICES ASSUME TreeKill PROVE Spec => []StagesAwaited
  OBVIOUS
<1>1. SInv /\ StagesAwaited /\ [Next]_vars => StagesAwaited'
  BY AwaitedStep DEF SInv
<1> QED BY <1>1, Initial, Inductive, PTL DEF Spec

(* Type correctness of the scheduler and its supervisor.                   *)
THEOREM TypeCorrect == Spec => []TypeOK
<1>1. SInv => TypeOK
  BY DEF SInv, SchedulerInv, TablesOK, ProcessesOK, ProcessOK, ProcessType, StagesTyped,
     SupervisorTyped, Phases, Others, Pcs, TypeOK, SchedulerTypeOK
<1> QED BY <1>1, Inductive, PTL

(* One scheduler works at a time and waits for the only stage it has       *)
(* running, where a stop reaches the stages.                               *)
THEOREM OneStageAtATimeAlways == TreeKill => (Spec => []OneStageAtATime)
<1>1. SInv /\ StagesAwaited => OneStageAtATime
  BY DEF SInv, SchedulerInv, Locked, StagesAwaited, CurrentKey, OneStageAtATime
<1> SUFFICES ASSUME TreeKill PROVE Spec => []OneStageAtATime
  OBVIOUS
<1> QED BY <1>1, Inductive, Awaited, PTL

(* A supervisor that ends by itself leaves nothing running, where a stop   *)
(* reaches the stages and nobody killed its scheduler.                     *)
THEOREM ChildrenReclaimedAlways == TreeKill => (Spec => []ChildrenReclaimed)
<1>1. SInv /\ StagesAwaited => ChildrenReclaimed
  <2> SUFFICES ASSUME SInv, StagesAwaited, NEW g \in Generations, phase[g] = "down"
               PROVE  Up(g) = {} /\ (sched[g].pc # "killed" => StagesOf(g) = {})
    BY DEF ChildrenReclaimed
  <2>1. sched[g].pc \notin Live /\ \A n \in Others : child[g][n] # "up"
    BY DEF SInv, NothingRuns
  <2>2. Up(g) = {}
    BY <2>1, NothingUp
  <2>3. ASSUME sched[g].pc # "killed", NEW e \in StagesOf(g) PROVE FALSE
    BY <2>1, <2>3 DEF StagesOf, StagesAwaited, Live
  <2> QED BY <2>2, <2>3
<1> SUFFICES ASSUME TreeKill PROVE Spec => []ChildrenReclaimed
  OBVIOUS
<1> QED BY <1>1, Inductive, Awaited, PTL

-----------------------------------------------------------------------------
(* The order of the end: nothing is stopped before the end begins, and then *)
(* the scheduler first.                                                     *)
Begun == Running \cup {"none"}

NothingStopped(g) == \A n \in Others : child[g][n] # "stopped"

Ordered ==
  \A g \in Generations : phase[g] \in Begun \/ sched[g].pc \in Live => NothingStopped(g)

OrderKept(h) ==
  /\ phase'[h] \in Begun => phase[h] \in Begun
  /\ phase[h] \in Begun \/ (sched'[h].pc \in Live => sched[h].pc \in Live)
  /\ \A n \in Others : child'[h][n] = "stopped" => child[h][n] = "stopped"

LEMMA OrderedKept ==
  ASSUME Ordered, NEW h \in Generations, OrderKept(h)
  PROVE  phase'[h] \in Begun \/ sched'[h].pc \in Live => NothingStopped(h)'
<1>1. phase'[h] \in Begun \/ sched'[h].pc \in Live => NothingStopped(h)
  BY DEF Ordered, OrderKept
<1> QED BY <1>1 DEF NothingStopped, OrderKept

LEMMA StopLastOrdered ==
  ASSUME SInv, Ordered, NEW g \in Generations, StopLast(g)
  PROVE  Ordered'
<1>1. PICK i \in Up(g) : (\A j \in Up(g) : j <= i) /\ Stop(g, i)
  BY DEF StopLast
<1>2. phase' = phase /\ phase[g] = "stopping"
  BY <1>1 DEF Stop
<1>3. i \in 1..4 /\ Services[i] \in Names
  BY NamesListed DEF Up, Names
<1>4. CASE Services[i] = "scheduler"
  <2>1. StopScheduler(g) /\ child' = child
    BY <1>1, <1>4 DEF Stop
  <2>2. \A h \in Generations : Rests(h)
    BY <2>1, AllRest DEF SInv
  <2>3. \A h \in Generations : OrderKept(h)
    BY <1>2, <2>1, <2>2 DEF OrderKept, Rests
  <2> QED BY <2>3, OrderedKept DEF Ordered
<1>5. CASE Services[i] # "scheduler"
  <2>1. PICK n \in Others : n = Services[i]
    BY <1>3, <1>5 DEF Others
  <2>2. child' = [child EXCEPT ![g][n] = "stopped"] /\ sched' = sched
    BY <1>1, <1>5, <2>1 DEF Stop, schedulerVars
  <2>3. 4 \notin Up(g)
    BY <1>1, <1>3, <1>5, NamesListed
  <2>4. sched[g].pc \notin Live
    BY <2>3, NamesListed DEF Up, ConditionOf, Live
  <2>5. \A h \in Generations \ {g} : child'[h] = child[h]
    BY <2>2, LaunchTyped DEF SInv
  <2>6. ASSUME NEW h \in Generations
        PROVE  phase'[h] \in Begun \/ sched'[h].pc \in Live => NothingStopped(h)'
    <3>1. CASE h = g
      BY <1>2, <2>2, <2>4, <3>1 DEF Begun, Running, Starting
    <3>2. CASE h # g
      <4>1. OrderKept(h)
        BY <1>2, <2>2, <2>5, <3>2 DEF OrderKept
      <4> QED BY <4>1, OrderedKept
    <3> QED BY <3>1, <3>2
  <2> QED BY <2>6 DEF Ordered
<1> QED BY <1>4, <1>5

LEMMA OrderedStep ==
  ASSUME SInv, Ordered, [Next]_vars
  PROVE  Ordered'
<1>1. CASE UNCHANGED vars \/ (SchedulerStep /\ UNCHANGED supervisor)
  <2>1. phase' = phase /\ child' = child /\ \A h \in Generations : Rests(h)
    BY <1>1, AllRest DEF vars, supervisor, SInv
  <2>2. \A h \in Generations : OrderKept(h)
    BY <2>1 DEF OrderKept, Rests
  <2> QED BY <2>2, OrderedKept DEF Ordered
<1>2. ASSUME NEW g \in Generations, Acquire(g) \/ StartStep(g) PROVE Ordered'
  <2>1. phase[g] \in Begun
    BY <1>2 DEF Acquire, StartStep, Probe, AwaitModel, Warmup, AwaitWeb, LaunchScheduler,
       Moves, Begun, Running, Starting
  <2>2. \A h \in Generations \ {g} : phase'[h] = phase[h] /\ sched'[h] = sched[h]
    BY <1>2 DEF Acquire, StartStep, Probe, AwaitModel, Warmup, AwaitWeb, LaunchScheduler,
       StartScheduler, Moves, Still, schedulerVars, SInv, SupervisorTyped, SchedulerInv, ProcessesOK
  <2>3. child' = child \/ \E n \in Others : Launch(g, n)
    <3>1. {"model", "web", "tunnel"} \subseteq Others
      BY NamesListed DEF Others
    <3> QED BY <1>2, <3>1 DEF Acquire, StartStep, Probe, AwaitModel, Warmup, AwaitWeb,
         LaunchScheduler
  <2>4. \A h \in Generations, m \in Others : child'[h][m] = "stopped" => child[h][m] = "stopped"
    BY <2>3, LaunchTyped DEF Launch, SInv
  <2>5. \A h \in Generations : OrderKept(h)
    BY <2>1, <2>2, <2>4 DEF OrderKept
  <2> QED BY <2>5, OrderedKept DEF Ordered
<1>3. ASSUME NEW g \in Generations,
             Poll(g) \/ StopRaises(g) \/ Finish(g) \/ Interrupt(g) \/ Kill(g)
      PROVE  Ordered'
  <2>1. PICK to \in {"stopping", "aborted", "down", "killed"} : phase' = [phase EXCEPT ![g] = to]
    BY <1>3 DEF Poll, StopRaises, Finish, Interrupt, Kill, Moves
  <2>2. sched' = sched /\ child' = child
    BY <1>3 DEF Poll, StopRaises, Finish, Interrupt, Kill, Still, schedulerVars
  <2>3. \A h \in Generations : OrderKept(h)
    BY <2>1, <2>2 DEF OrderKept, Begun, Running, Starting, SInv, SupervisorTyped
  <2> QED BY <2>3, OrderedKept DEF Ordered
<1>4. ASSUME NEW g \in Generations, KillAlone(g) PROVE Ordered'
  <2>1. phase' = phase /\ child' = child /\ KillScheduler(g)
    BY <1>4 DEF KillAlone
  <2>2. \A h \in Generations : Rests(h)
    BY <2>1, AllRest DEF SInv
  <2>3. \A h \in Generations : OrderKept(h)
    BY <2>1, <2>2 DEF OrderKept, Rests
  <2> QED BY <2>3, OrderedKept DEF Ordered
<1>5. ASSUME NEW g \in Generations, NEW n \in Others, ChildDies(g, n) PROVE Ordered'
  <2>1. phase' = phase /\ sched' = sched /\ child' = [child EXCEPT ![g][n] = "dead"]
    BY <1>5 DEF ChildDies, schedulerVars
  <2>2. \A h \in Generations, m \in Others : child'[h][m] = "stopped" => child[h][m] = "stopped"
    BY <2>1, LaunchTyped DEF SInv
  <2>3. \A h \in Generations : OrderKept(h)
    BY <2>1, <2>2 DEF OrderKept
  <2> QED BY <2>3, OrderedKept DEF Ordered
<1> QED BY <1>1, <1>2, <1>3, <1>4, <1>5, StopLastOrdered DEF Next, EndStep, Others

(* A supervisor stops no child while its scheduler works.                  *)
THEOREM ServicesOutliveSchedulerAlways == Spec => []ServicesOutliveScheduler
<1>1. Init => Ordered
  BY DEF Init, Ordered, NothingStopped, Others
<1>2. Ordered => ServicesOutliveScheduler
  BY DEF Ordered, NothingStopped, ServicesOutliveScheduler, Others
<1> QED BY <1>1, <1>2, OrderedStep, Inductive, PTL DEF Spec

-----------------------------------------------------------------------------
(* A stage is started only if the file does not show it completed.         *)
THEOREM NoStageRepeatedAlways == Spec => NoStageRepeated
<1> DEFINE Fresh == \A e \in stage' \ stage : e.key \in DOMAIN file => ~file[e.key].completed
<1>1. ASSUME SInv, [Next]_vars PROVE [Fresh]_stage
  <2>1. ASSUME NEW g \in Generations, StartStage(g) PROVE Fresh
    <3>1. PICK i \in 1..Len(Schedule) :
            /\ MayRun(Schedule[i], sched[g].at, file)
            /\ stage' = stage \cup {[by |-> g, key |-> KeyAt(Schedule[i], sched[g].at)]}
      BY <1>1, <2>1, StartedStage DEF SInv
    <3> QED BY <3>1 DEF MayRun
  <2>2. ASSUME NEW g \in Generations, BeginRound(g) \/ Checkpoint(g) \/ EndRound(g)
        PROVE  stage' = stage
    BY <2>2 DEF BeginRound, Checkpoint, EndRound
  <2>3. ASSUME NEW g \in Generations, NEW how, NEW taken, Ends(g, how, taken)
        PROVE  stage' \subseteq stage
    BY <2>3 DEF Ends
  <2>4. ASSUME NEW g \in Generations, StartScheduler(g) PROVE stage' = stage
    BY <2>4 DEF StartScheduler
  <2>5. ASSUME NEW e \in stage, NEW ok \in BOOLEAN, EndStage(e, ok)
        PROVE  stage' \subseteq stage
    BY <2>5 DEF EndStage
  <2>6. CASE Pass \/ UNCHANGED schedulerVars
    BY <2>6 DEF Pass, schedulerVars
  <2>7. Fresh \/ stage' \subseteq stage
    BY <1>1, <2>1, <2>2, <2>3, <2>4, <2>5, <2>6, SchedulerChanges
       DEF SchedulerStep, Round, Fail, StopScheduler, KillScheduler
  <2> QED BY <2>7
<1> QED BY <1>1, Inductive, PTL DEF Spec, NoStageRepeated

(* A completed record is kept as it is, or pruned when its date can not    *)
(* be due again.                                                           *)
THEOREM CompletedStaysCompletedAlways == Spec => CompletedStaysCompleted
<1> DEFINE Kept == \A k \in DOMAIN file : file[k].completed =>
                     \/ k \in DOMAIN file' /\ file'[k].completed
                     \/ k.day < DueDay(k.stage, now)
<1>1. ASSUME SInv, [Next]_vars PROVE [Kept]_file
  <2>1. ASSUME NEW g \in Generations, Checkpoint(g) PROVE Kept
    <3>1. PICK p : p = sched[g]
      OBVIOUS
    <3>2. p.pc = "ended" /\ file' = Recorded(p)
      BY <2>1, <3>1 DEF Checkpoint
    <3>3. ProcessOK(p) /\ p.mem = file
      BY <1>1, <3>1, <3>2 DEF SInv, SchedulerInv, ProcessesOK, ProcessOK, InRound
    <3> QED BY <3>2, <3>3, RecordedState
  <2>2. ASSUME NEW g \in Generations, EndRound(g) PROVE Kept
    <3>1. PICK p : p = sched[g]
      OBVIOUS
    <3>2. p.pc = "due" /\ file' = Pruned(p.mem, p.at)
      BY <2>2, <3>1 DEF EndRound
    <3>3. /\ p.mem = file /\ IsState(p.mem) /\ p.at \in Nat /\ p.at <= now
          /\ now \in Nat
      BY <1>1, <3>1, <3>2 DEF SInv, SchedulerInv, ProcessesOK, ProcessOK, ProcessType, InRound,
         TablesOK
    <3>4. ASSUME NEW k \in DOMAIN file
          PROVE  \/ k \in DOMAIN file' /\ file'[k] = file[k]
                 \/ k.day < DueDay(k.stage, now)
      <4>1. CASE k \in DOMAIN Pruned(p.mem, p.at)
        BY <3>2, <3>3, <4>1 DEF Pruned
      <4>2. CASE k \notin DOMAIN Pruned(p.mem, p.at)
        BY <3>3, <4>2, PrunedIsOld
      <4> QED BY <4>1, <4>2
    <3> QED BY <3>4
  <2>3. ASSUME NEW g \in Generations, BeginRound(g) \/ StartStage(g) \/ StartScheduler(g)
        PROVE  file' = file
    BY <2>3 DEF BeginRound, StartStage, StartScheduler
  <2>4. ASSUME NEW g \in Generations, NEW how, NEW taken, Ends(g, how, taken)
        PROVE  file' = file
    BY <2>4 DEF Ends
  <2>5. ASSUME NEW e \in stage, NEW ok \in BOOLEAN, EndStage(e, ok)
        PROVE  file' = file
    BY <2>5 DEF EndStage
  <2>6. CASE Pass \/ UNCHANGED schedulerVars
    BY <2>6 DEF Pass, schedulerVars
  <2>7. Kept \/ file' = file
    BY <1>1, <2>1, <2>2, <2>3, <2>4, <2>5, <2>6, SchedulerChanges
       DEF SchedulerStep, Round, Fail, StopScheduler, KillScheduler
  <2> QED BY <2>7
<1> QED BY <1>1, Inductive, PTL DEF Spec, CompletedStaysCompleted
=============================================================================
