------------------------- MODULE SchedulerTickProofs -------------------------
(***************************************************************************)
(* Proofs about the scheduler tick, for any calendar, any number of ticks  *)
(* that overlap and any order of their reads and writes.                   *)
(***************************************************************************)
EXTENDS SchedulerTick, TLAPS

(* What a declared row owes to the clock, whoever declared it.             *)
Timely(k, row) ==
  /\ k.scheduled <= row.created /\ row.created <= row.cutoff
  /\ row.status = "queued" /\ k.slot = Sentinel => row.created < row.cutoff
  /\ k.slot = Sentinel => OpensAt[k.target] > row.cutoff

Covered(r, observed, keys) ==
  FixedKeys(r, observed) \cup SentinelKeys(r, observed) \subseteq keys

TickType(t) ==
  \/ t = Idle
  \/ t \in [phase : {"observed"}, observed : Nat]
  \/ t \in [phase : {"bound"}, observed : Nat, revision : Revisions]
  \/ /\ t.phase = "planned" /\ t.observed \in Nat /\ t.revision \in Revisions
     /\ DOMAIN t.plan \subseteq Identity
     /\ \A k \in DOMAIN t.plan : t.plan[k] \in RunRow

SealedBefore(r, observed) == r \in DOMAIN calendar /\ calendar[r].sealed <= observed

(* The plan of a tick holds one timely row per missing identity, and with  *)
(* the runs on record leaves no gap.                                       *)
PlanOK(t) ==
  /\ Plannable(t.revision, t.observed)
  /\ Covered(t.revision, t.observed, DOMAIN t.plan \cup DOMAIN run)
  /\ \A k \in DOMAIN t.plan :
       /\ k.revision = t.revision /\ t.plan[k].created = t.observed
       /\ Timely(k, t.plan[k])

TickOK(t) ==
  /\ TickType(t)
  /\ t.phase \in {"observed", "bound", "planned"} => t.observed <= now
  /\ t.phase \in {"bound", "planned"} => SealedBefore(t.revision, t.observed)
  /\ t.phase = "planned" => PlanOK(t)

TablesTyped ==
  /\ now \in Nat
  /\ DOMAIN calendar \subseteq Revisions
  /\ \A r \in DOMAIN calendar : calendar[r] \in [available : Nat, sealed : Nat]
  /\ DOMAIN run \subseteq Identity /\ \A k \in DOMAIN run : run[k] \in RunRow
  /\ DOMAIN receipt \subseteq TickKey /\ \A k \in DOMAIN receipt : receipt[k] \subseteq Identity

TicksOK == DOMAIN tick = Ticks /\ \A p \in Ticks : TickOK(tick[p])

IInv == TablesTyped /\ TicksOK /\ ReceiptsMaterialized /\ PointInTime /\ NoGap

-----------------------------------------------------------------------------
(* Arithmetic of the quarters.                                             *)

LEMMA FloorBounds ==
  ASSUME NEW t \in Int
  PROVE  Floor(t) \in Int /\ Floor(t) <= t /\ t < Floor(t) + Quarter
<1>1. Quarter \in Nat /\ Quarter > 0
  BY ScheduleAssumption
<1>2. t % Quarter \in Int /\ 0 <= t % Quarter /\ t % Quarter < Quarter
  BY <1>1
<1> QED BY <1>1, <1>2 DEF Floor

LEMMA QuartersTyped ==
  ASSUME NEW o \in Nat, NEW q \in Quarters(o)
  PROVE  q \in Int /\ q <= o
<1>1. o - SentinelAudit \in Int
  BY ScheduleAssumption
<1>2. Floor(o - SentinelAudit) \in Int
  BY <1>1, FloorBounds
<1> QED BY <1>2 DEF Quarters

LEMMA FixedKey ==
  ASSUME NEW r \in Revisions, NEW o \in Nat, NEW k \in FixedKeys(r, o)
  PROVE  /\ k \in Identity /\ k.revision = r /\ k.slot # Sentinel
         /\ k.slot \in FixedSlots /\ k.scheduled <= o
<1>1. Listed[r] \subseteq Sessions
  BY ScheduleAssumption
<1>2. k \in [revision : {r}, target : Listed[r], slot : FixedSlots,
             scheduled : (o - FixedAudit)..o]
  BY DEF FixedKeys
<1>3. o - FixedAudit \in Int
  BY ScheduleAssumption
<1>4. k.slot \in FixedSlots /\ k.slot # Sentinel
  BY <1>2, ScheduleAssumption
<1> QED BY <1>1, <1>2, <1>3, <1>4 DEF Identity

LEMMA SentinelKey ==
  ASSUME NEW r \in Revisions, NEW o \in Nat, NEW k \in SentinelKeys(r, o)
  PROVE  /\ k \in Identity /\ k.revision = r /\ k.slot = Sentinel
         /\ k.scheduled <= o
         /\ k.target \in NextOpen(r, SentinelRow(k.scheduled, o).cutoff)
<1>1. Listed[r] \subseteq Sessions
  BY ScheduleAssumption
<1>2. k \in [revision : {r}, target : Listed[r], slot : {Sentinel}, scheduled : Quarters(o)]
  BY DEF SentinelKeys
<1>3. k.target \in NextOpen(r, SentinelRow(k.scheduled, o).cutoff)
  BY DEF SentinelKeys
<1>4. k.scheduled \in Int /\ k.scheduled <= o
  BY <1>2, QuartersTyped
<1> QED BY <1>1, <1>2, <1>3, <1>4 DEF Identity

(* A fixed run is declared before its deadline, caught up within a         *)
(* quarter, or skipped.                                                    *)
LEMMA FixedRowOK ==
  ASSUME NEW s \in Int, NEW due \in Int, NEW o \in Nat, s <= o
  PROVE  /\ FixedRow(s, due, o) \in RunRow /\ FixedRow(s, due, o).created = o
         /\ o <= FixedRow(s, due, o).cutoff
<1>1. Quarter \in Nat /\ CatchUp \in Nat
  BY ScheduleAssumption
<1>2. CASE o <= due
  BY <1>2 DEF FixedRow, Row, RunRow
<1>3. CASE ~(o <= due) /\ o - s <= CatchUp
  BY <1>1, <1>3 DEF FixedRow, Row, RunRow
<1>4. CASE ~(o <= due) /\ ~(o - s <= CatchUp)
  BY <1>4 DEF FixedRow, Row, RunRow
<1> QED BY <1>2, <1>3, <1>4

LEMMA SentinelRowOK ==
  ASSUME NEW q \in Int, NEW o \in Nat
  PROVE  /\ SentinelRow(q, o) \in RunRow /\ SentinelRow(q, o).created = o
         /\ o <= SentinelRow(q, o).cutoff
         /\ SentinelRow(q, o).status = "queued" => o < SentinelRow(q, o).cutoff
<1>1. Quarter \in Nat /\ Floor(o) \in Int /\ o < Floor(o) + Quarter
  BY FloorBounds, ScheduleAssumption
<1>2. CASE q = Floor(o)
  BY <1>1, <1>2 DEF SentinelRow, Row, RunRow
<1>3. CASE q # Floor(o)
  BY <1>3 DEF SentinelRow, Row, RunRow
<1> QED BY <1>2, <1>3

-----------------------------------------------------------------------------
(* The plan of build_due_run_declarations.                                 *)

LEMMA PlannedRow ==
  ASSUME NEW r \in Revisions, NEW o \in Nat,
         NEW k \in FixedKeys(r, o) \cup SentinelKeys(r, o)
  PROVE  /\ k \in Identity /\ k.revision = r
         /\ RowOf(k, o) \in RunRow /\ RowOf(k, o).created = o
         /\ Timely(k, RowOf(k, o))
<1>1. CASE k \in FixedKeys(r, o)
  <2>1. /\ k \in Identity /\ k.revision = r /\ k.slot # Sentinel
        /\ k.slot \in FixedSlots /\ k.scheduled <= o
    BY <1>1, FixedKey
  <2>2. k.scheduled \in Int /\ k.target \in Sessions
    BY <2>1 DEF Identity
  <2>3. DayStart[k.target] + Due[k.slot] \in Int
    BY <2>1, <2>2, ScheduleAssumption
  <2>4. RowOf(k, o) = FixedRow(k.scheduled, DayStart[k.target] + Due[k.slot], o)
    BY <2>1 DEF RowOf
  <2>5. /\ RowOf(k, o) \in RunRow /\ RowOf(k, o).created = o /\ o <= RowOf(k, o).cutoff
    BY <2>1, <2>2, <2>3, <2>4, FixedRowOK
  <2> QED BY <2>1, <2>5 DEF Timely
<1>2. CASE k \in SentinelKeys(r, o)
  <2>1. /\ k \in Identity /\ k.revision = r /\ k.slot = Sentinel
        /\ k.scheduled <= o
        /\ k.target \in NextOpen(r, SentinelRow(k.scheduled, o).cutoff)
    BY <1>2, SentinelKey
  <2>2. k.scheduled \in Int
    BY <2>1 DEF Identity
  <2>3. RowOf(k, o) = SentinelRow(k.scheduled, o)
    BY <2>1 DEF RowOf
  <2>4. /\ RowOf(k, o) \in RunRow /\ RowOf(k, o).created = o /\ o <= RowOf(k, o).cutoff
        /\ RowOf(k, o).status = "queued" => o < RowOf(k, o).cutoff
    BY <2>2, <2>3, SentinelRowOK
  <2>5. OpensAt[k.target] > RowOf(k, o).cutoff
    BY <2>1, <2>3 DEF NextOpen
  <2> QED BY <2>1, <2>4, <2>5 DEF Timely
<1> QED BY <1>1, <1>2

LEMMA PlanDeclares ==
  ASSUME NEW r \in Revisions, NEW o \in Nat, NEW existing
  PROVE  /\ Covered(r, o, DOMAIN Declared(r, o, existing) \cup existing)
         /\ \A k \in DOMAIN Declared(r, o, existing) :
              /\ k \in Identity /\ k.revision = r
              /\ Declared(r, o, existing)[k] \in RunRow
              /\ Declared(r, o, existing)[k].created = o
              /\ Timely(k, Declared(r, o, existing)[k])
<1>1. DOMAIN Declared(r, o, existing)
        = (FixedKeys(r, o) \cup SentinelKeys(r, o)) \ existing
  BY DEF Declared
<1>2. ASSUME NEW k \in DOMAIN Declared(r, o, existing)
      PROVE  Declared(r, o, existing)[k] = RowOf(k, o)
  BY <1>1, <1>2 DEF Declared
<1>3. ASSUME NEW k \in DOMAIN Declared(r, o, existing)
      PROVE  /\ k \in Identity /\ k.revision = r
             /\ RowOf(k, o) \in RunRow /\ RowOf(k, o).created = o
             /\ Timely(k, RowOf(k, o))
  BY <1>1, PlannedRow
<1> QED BY <1>1, <1>2, <1>3 DEF Covered

-----------------------------------------------------------------------------
(* What every step leaves standing.                                        *)

Grows ==
  /\ now \in Nat /\ now' \in Nat /\ now <= now'
  /\ \A r \in DOMAIN calendar : r \in DOMAIN calendar' /\ calendar'[r] = calendar[r]
  /\ DOMAIN run \subseteq DOMAIN run'

LEMMA TickStays ==
  ASSUME Grows, NEW t, TickOK(t)
  PROVE  TickOK(t)'
<1>1. TickType(t)'
  BY DEF TickOK, TickType
<1>2. t.phase \in {"observed", "bound", "planned"} => t.observed <= now'
  <2> SUFFICES ASSUME t.phase \in {"observed", "bound", "planned"} PROVE t.observed <= now'
    OBVIOUS
  <2>1. t.observed \in Nat
    BY DEF TickOK, TickType, Idle
  <2>2. t.observed <= now
    BY DEF TickOK
  <2> QED BY <2>1, <2>2 DEF Grows
<1>3. (t.phase \in {"bound", "planned"} => SealedBefore(t.revision, t.observed))'
  BY DEF TickOK, SealedBefore, Grows
<1>4. (t.phase = "planned" => PlanOK(t))'
  <2> SUFFICES ASSUME t.phase = "planned" PROVE PlanOK(t)'
    OBVIOUS
  <2>1. PlanOK(t)
    BY DEF TickOK
  <2>2. Covered(t.revision, t.observed, DOMAIN t.plan \cup DOMAIN run')
    BY <2>1 DEF PlanOK, Covered, Grows
  <2> QED BY <2>1, <2>2 DEF PlanOK
<1> QED BY <1>1, <1>2, <1>3, <1>4 DEF TickOK

LEMMA TicksStay ==
  ASSUME Grows, TicksOK, tick' = tick
  PROVE  TicksOK'
<1>1. ASSUME NEW p \in Ticks PROVE TickOK(tick[p])'
  <2>1. PICK t : t = tick[p]
    OBVIOUS
  <2>2. TickOK(t)'
    BY <2>1, TickStays DEF TicksOK
  <2> QED BY <2>1, <2>2 DEF TickOK, TickType, PlanOK, SealedBefore, Covered
<1> QED BY <1>1 DEF TicksOK

LEMMA TicksMove ==
  ASSUME Grows, TicksOK, NEW p \in Ticks, NEW t, TickOK(t)',
         tick' = [tick EXCEPT ![p] = t]
  PROVE  TicksOK'
<1>1. ASSUME NEW q \in Ticks PROVE TickOK(tick[q])'
  <2>1. PICK u : u = tick'[q]
    OBVIOUS
  <2>2. TickOK(u)'
    <3>1. CASE q = p
      BY <2>1, <3>1 DEF TicksOK
    <3>2. CASE q # p
      BY <2>1, <3>2, TickStays DEF TicksOK
    <3> QED BY <3>1, <3>2
  <2> QED BY <2>1, <2>2 DEF TickOK, TickType, PlanOK, SealedBefore, Covered
<1> QED BY <1>1 DEF TicksOK

LEMMA IdleOK ==
  TickOK(Idle)'
BY DEF TickOK, TickType, Idle

LEMMA TablesStay ==
  ASSUME IInv, UNCHANGED <<now, calendar, run, receipt>>
  PROVE  /\ Grows
         /\ TablesTyped' /\ ReceiptsMaterialized' /\ PointInTime' /\ NoGap'
BY DEF IInv, Grows, TablesTyped, ReceiptsMaterialized, PointInTime, NoGap

(* Each type of a tick, by its phase.                                      *)
LEMMA PhaseTypes ==
  ASSUME TicksOK, NEW p \in Ticks
  PROVE  /\ tick[p].phase = "observed" => tick[p].observed \in Nat
         /\ tick[p].phase \in {"bound", "planned"} =>
              tick[p].observed \in Nat /\ tick[p].revision \in Revisions
         /\ tick[p].phase = "planned" =>
              /\ DOMAIN tick[p].plan \subseteq Identity
              /\ \A k \in DOMAIN tick[p].plan : tick[p].plan[k] \in RunRow
BY DEF TicksOK, TickOK, TickType, Idle

-----------------------------------------------------------------------------
(* The steps of a tick.                                                    *)

LEMMA StartStep ==
  ASSUME IInv, NEW p \in Ticks, Start(p)
  PROVE  IInv'
<1>1. /\ Grows
      /\ TablesTyped' /\ ReceiptsMaterialized' /\ PointInTime' /\ NoGap'
  BY TablesStay DEF Start
<1>2. PICK t : t = [phase |-> "observed", observed |-> now]
  OBVIOUS
<1>3. TickOK(t)'
  BY <1>2 DEF TickOK, TickType, IInv, TablesTyped, Start
<1>4. TicksOK'
  BY <1>1, <1>2, <1>3, TicksMove DEF IInv, Start
<1> QED BY <1>1, <1>4 DEF IInv

LEMMA BindStep ==
  ASSUME IInv, NEW p \in Ticks, Bind(p)
  PROVE  IInv'
<1>1. /\ Grows
      /\ TablesTyped' /\ ReceiptsMaterialized' /\ PointInTime' /\ NoGap'
  BY TablesStay DEF Bind
<1>2. PICK o : o = tick[p].observed
  OBVIOUS
<1>3. o \in Nat /\ o <= now /\ tick[p].phase = "observed"
  BY <1>2, PhaseTypes DEF IInv, TicksOK, TickOK, Bind
<1>4. CASE tick' = [tick EXCEPT ![p] = Idle]
  BY <1>1, <1>4, IdleOK, TicksMove DEF IInv
<1>5. ASSUME NEW r \in DOMAIN calendar, IsLatest(r, o),
             tick' = [tick EXCEPT ![p] =
                        [phase |-> "bound", observed |-> o, revision |-> r]]
      PROVE  TicksOK'
  <2>1. SealedBefore(r, o)' /\ r \in Revisions
    BY <1>5, <1>1 DEF SealedBefore, IsLatest, Visible, IInv, TablesTyped, Bind
  <2>2. PICK t : t = [phase |-> "bound", observed |-> o, revision |-> r]
    OBVIOUS
  <2>3. TickOK(t)'
    BY <1>3, <2>1, <2>2 DEF TickOK, TickType, Bind
  <2> QED BY <1>1, <1>5, <2>2, <2>3, TicksMove DEF IInv
<1>6. CASE \E r \in DOMAIN calendar : IsLatest(r, o)
  <2>1. PICK r : r = CHOOSE x \in DOMAIN calendar : IsLatest(x, o)
    OBVIOUS
  <2>2. r \in DOMAIN calendar /\ IsLatest(r, o)
    BY <1>6, <2>1
  <2>3. \/ tick' = [tick EXCEPT ![p] = Idle]
        \/ tick' = [tick EXCEPT ![p] =
                      [phase |-> "bound", observed |-> o, revision |-> r]]
    BY <1>2, <1>6, <2>1 DEF Bind
  <2> QED BY <1>1, <1>4, <1>5, <2>2, <2>3 DEF IInv
<1>7. CASE ~\E r \in DOMAIN calendar : IsLatest(r, o)
  BY <1>2, <1>4, <1>7 DEF Bind
<1> QED BY <1>1, <1>4, <1>6, <1>7 DEF IInv

LEMMA ReadRunsStep ==
  ASSUME IInv, NEW p \in Ticks, ReadRuns(p)
  PROVE  IInv'
<1>1. /\ Grows
      /\ TablesTyped' /\ ReceiptsMaterialized' /\ PointInTime' /\ NoGap'
  BY TablesStay DEF ReadRuns
<1>2. PICK o, r : o = tick[p].observed /\ r = tick[p].revision
  OBVIOUS
<1>3. /\ o \in Nat /\ r \in Revisions /\ o <= now
      /\ SealedBefore(r, o)'
  BY <1>2, PhaseTypes DEF IInv, TicksOK, TickOK, ReadRuns, SealedBefore
<1>4. CASE ~Plannable(r, o)
  <2>1. tick' = [tick EXCEPT ![p] = Idle]
    BY <1>2, <1>4 DEF ReadRuns
  <2> QED BY <1>1, <2>1, IdleOK, TicksMove DEF IInv
<1>5. CASE Plannable(r, o)
  <2>1. PICK old : old = RunsBetween(o - FixedAudit, o)
    OBVIOUS
  <2>2. PICK t : t = [phase |-> "planned", observed |-> o, revision |-> r,
                      plan |-> Declared(r, o, old)]
    OBVIOUS
  <2>3. tick' = [tick EXCEPT ![p] = t]
    BY <1>2, <1>5, <2>1, <2>2 DEF ReadRuns
  <2>4. old \subseteq DOMAIN run'
    BY <2>1 DEF RunsBetween, ReadRuns
  <2>5. PlanOK(t)'
    BY <1>3, <1>5, <2>2, <2>4, PlanDeclares DEF PlanOK, Covered
  <2>6. TickType(t)'
    BY <1>3, <2>2, PlanDeclares DEF TickType
  <2>7. TickOK(t)'
    BY <1>3, <2>2, <2>5, <2>6 DEF TickOK, ReadRuns
  <2> QED BY <1>1, <2>3, <2>7, TicksMove DEF IInv
<1> QED BY <1>4, <1>5

(* A plan that agrees with the rows it finds is the rows it leaves.        *)
LEMMA PlanBecomesRows ==
  ASSUME NEW p \in Ticks, Materialize(p), NEW k \in DOMAIN tick[p].plan
  PROVE  k \in DOMAIN run' /\ run'[k] = tick[p].plan[k]
<1>1. run' = With(run, tick[p].plan)
  BY DEF Materialize
<1>2. k \in DOMAIN run => run[k] = tick[p].plan[k]
  BY DEF Materialize, Agrees, RunsAgree
<1> QED BY <1>1, <1>2 DEF With

LEMMA RowsKept ==
  ASSUME NEW p \in Ticks, Materialize(p)
  PROVE  /\ DOMAIN run' = DOMAIN run \cup DOMAIN tick[p].plan
         /\ \A k \in DOMAIN run : run'[k] = run[k]
         /\ DOMAIN receipt' = DOMAIN receipt \cup {KeyOf(p)}
         /\ \A key \in DOMAIN receipt : receipt'[key] = receipt[key]
         /\ receipt'[KeyOf(p)] = DOMAIN tick[p].plan
<1>1. run' = With(run, tick[p].plan)
  BY DEF Materialize
<1>2. receipt' = With(receipt, [x \in {KeyOf(p)} |-> DOMAIN tick[p].plan])
  BY DEF Materialize
<1>3. KeyOf(p) \in DOMAIN receipt => receipt[KeyOf(p)] = DOMAIN tick[p].plan
  BY DEF Materialize, Agrees, ReceiptAgrees
<1>4. DOMAIN run' = DOMAIN run \cup DOMAIN tick[p].plan /\ \A k \in DOMAIN run : run'[k] = run[k]
  BY <1>1 DEF With
<1>5. /\ DOMAIN receipt' = DOMAIN receipt \cup {KeyOf(p)}
      /\ \A key \in DOMAIN receipt : receipt'[key] = receipt[key]
  BY <1>2 DEF With
<1>6. receipt'[KeyOf(p)] = DOMAIN tick[p].plan
  BY <1>2, <1>3 DEF With
<1> QED BY <1>4, <1>5, <1>6

LEMMA MaterializeStep ==
  ASSUME IInv, NEW p \in Ticks, Materialize(p)
  PROVE  IInv'
<1> DEFINE plan == tick[p].plan
           key == KeyOf(p)
<1>1. /\ now' = now /\ calendar' = calendar /\ tick' = [tick EXCEPT ![p] = Idle]
      /\ tick[p].phase = "planned"
  BY DEF Materialize
<1>2. /\ tick[p].observed \in Nat /\ tick[p].revision \in Revisions
      /\ DOMAIN plan \subseteq Identity /\ \A k \in DOMAIN plan : plan[k] \in RunRow
  BY <1>1, PhaseTypes DEF IInv
<1>3. PlanOK(tick[p]) /\ SealedBefore(tick[p].revision, tick[p].observed)
  BY <1>1 DEF IInv, TicksOK, TickOK
<1>4. key = [observed |-> tick[p].observed, revision |-> tick[p].revision] /\ key \in TickKey
  BY <1>2 DEF KeyOf, TickKey
<1>5. Grows
  <2>1. DOMAIN run \subseteq DOMAIN run'
    BY RowsKept
  <2> QED BY <1>1, <2>1 DEF Grows, IInv, TablesTyped
<1>6. TablesTyped'
  <2>1. DOMAIN run' \subseteq Identity /\ \A k \in DOMAIN run' : run'[k] \in RunRow
    BY <1>2, RowsKept, PlanBecomesRows DEF IInv, TablesTyped
  <2>2. DOMAIN receipt' \subseteq TickKey
        /\ \A x \in DOMAIN receipt' : receipt'[x] \subseteq Identity
    BY <1>2, <1>4, RowsKept DEF IInv, TablesTyped
  <2> QED BY <1>1, <2>1, <2>2 DEF IInv, TablesTyped
<1>7. TicksOK'
  BY <1>1, <1>5, IdleOK, TicksMove DEF IInv
<1>8. ReceiptsMaterialized'
  <2>1. ASSUME NEW x \in DOMAIN receipt', NEW k \in receipt'[x]
        PROVE  k \in DOMAIN run' /\ run'[k].created = x.observed /\ k.revision = x.revision
    <3>1. CASE x \in DOMAIN receipt
      BY <2>1, <3>1, RowsKept DEF IInv, ReceiptsMaterialized
    <3>2. CASE x = key
      <4>1. k \in DOMAIN plan
        BY <2>1, <3>2, RowsKept
      <4>2. k \in DOMAIN run' /\ run'[k] = plan[k]
        BY <4>1, PlanBecomesRows
      <4>3. k.revision = tick[p].revision /\ plan[k].created = tick[p].observed
        BY <4>1, <1>3 DEF PlanOK
      <4> QED BY <3>2, <4>2, <4>3, <1>4
    <3> QED BY <2>1, <3>1, <3>2, RowsKept
  <2> QED BY <2>1 DEF ReceiptsMaterialized
<1>9. PointInTime'
  <2>1. ASSUME NEW k \in DOMAIN run'
        PROVE  /\ Timely(k, run'[k]) /\ k.revision \in DOMAIN calendar
               /\ calendar[k.revision].sealed <= run'[k].created
    <3>1. CASE k \in DOMAIN run
      <4>1. run'[k] = run[k]
        BY <3>1, RowsKept
      <4> QED BY <3>1, <4>1 DEF IInv, PointInTime, Timely
    <3>2. CASE k \in DOMAIN plan
      <4>1. run'[k] = plan[k]
        BY <3>2, PlanBecomesRows
      <4> QED BY <1>3, <3>2, <4>1 DEF PlanOK, SealedBefore
    <3> QED BY <3>1, <3>2, RowsKept
  <2> QED BY <1>1, <2>1 DEF PointInTime, Timely
<1>10. NoGap'
  <2>1. ASSUME NEW x \in DOMAIN receipt'
        PROVE  /\ \A q \in Quarters(x.observed) : \E k \in DOMAIN run' :
                    k.slot = Sentinel /\ k.scheduled = q /\ k.revision = x.revision
               /\ FixedKeys(x.revision, x.observed) \subseteq DOMAIN run'
    <3>1. CASE x \in DOMAIN receipt
      <4>1. DOMAIN run \subseteq DOMAIN run'
        BY RowsKept
      <4> QED BY <3>1, <4>1 DEF IInv, NoGap
    <3>2. CASE x = key
      <4>1. PICK o, r : o = tick[p].observed /\ r = tick[p].revision
        OBVIOUS
      <4>2. Covered(r, o, DOMAIN run') /\ Plannable(r, o)
        BY <1>3, <4>1, RowsKept DEF PlanOK, Covered
      <4>3. ASSUME NEW q \in Quarters(o)
            PROVE  \E k \in DOMAIN run' :
                     k.slot = Sentinel /\ k.scheduled = q /\ k.revision = r
        <5>1. PICK s : s \in NextOpen(r, SentinelRow(q, o).cutoff)
          BY <4>2 DEF Plannable
        <5>2. s \in Listed[r]
          BY <5>1 DEF NextOpen
        <5>3. PICK k : k = [revision |-> r, target |-> s, slot |-> Sentinel, scheduled |-> q]
          OBVIOUS
        <5>4. k \in SentinelKeys(r, o)
          BY <5>1, <5>2, <5>3 DEF SentinelKeys
        <5> QED BY <4>2, <5>3, <5>4 DEF Covered
      <4> QED BY <1>4, <3>2, <4>1, <4>2, <4>3 DEF Covered
    <3> QED BY <3>1, <3>2, RowsKept
  <2> QED BY <2>1 DEF NoGap
<1> QED BY <1>6, <1>7, <1>8, <1>9, <1>10 DEF IInv

-----------------------------------------------------------------------------
(* The other steps.                                                        *)

LEMMA TickStopsStep ==
  ASSUME IInv, NEW p \in Ticks, Refuse(p) \/ Die(p)
  PROVE  IInv'
<1>1. /\ UNCHANGED <<now, calendar, run, receipt>> /\ tick' = [tick EXCEPT ![p] = Idle]
  BY DEF Refuse, Die
<1>2. /\ Grows
      /\ TablesTyped' /\ ReceiptsMaterialized' /\ PointInTime' /\ NoGap'
  BY <1>1, TablesStay
<1> QED BY <1>1, <1>2, IdleOK, TicksMove DEF IInv

LEMMA SealCalendarStep ==
  ASSUME IInv, NEW r \in Revisions, NEW available \in 0..now, SealCalendar(r, available)
  PROVE  IInv'
<1> DEFINE row == [available |-> available, sealed |-> now]
<1>1. /\ UNCHANGED <<now, run, receipt, tick>>
      /\ r \notin DOMAIN calendar
  BY DEF SealCalendar
<1>2. /\ DOMAIN calendar' = DOMAIN calendar \cup {r} /\ calendar'[r] = row
      /\ \A x \in DOMAIN calendar : calendar'[x] = calendar[x]
  <2>1. calendar' = With(calendar, [x \in {r} |-> row])
    BY DEF SealCalendar
  <2> QED BY <1>1, <2>1 DEF With
<1>3. row \in [available : Nat, sealed : Nat]
  BY DEF IInv, TablesTyped
<1>4. TablesTyped'
  <2>1. \A x \in DOMAIN calendar' : calendar'[x] \in [available : Nat, sealed : Nat]
    BY <1>2, <1>3 DEF IInv, TablesTyped
  <2> QED BY <1>1, <1>2, <2>1 DEF IInv, TablesTyped
<1>5. Grows
  BY <1>1, <1>2 DEF Grows, IInv, TablesTyped
<1>6. PointInTime'
  BY <1>1, <1>2 DEF IInv, PointInTime
<1>7. TicksOK'
  BY <1>1, <1>5, TicksStay DEF IInv
<1> QED BY <1>1, <1>4, <1>6, <1>7 DEF IInv, ReceiptsMaterialized, NoGap

LEMMA WorkOnStep ==
  ASSUME IInv, NEW w \in DOMAIN run, WorkOn(w)
  PROVE  IInv'
<1>1. UNCHANGED <<now, calendar, receipt, tick>> /\ DOMAIN run' = DOMAIN run
  BY DEF WorkOn
<1>2. ASSUME NEW k \in DOMAIN run
      PROVE  /\ run'[k].created = run[k].created /\ run'[k].cutoff = run[k].cutoff
             /\ run'[k].status = run[k].status \/ run'[k].status = "worked"
             /\ run'[k] \in RunRow
  BY DEF WorkOn, IInv, TablesTyped, RunRow
<1>3. TablesTyped'
  BY <1>1, <1>2 DEF IInv, TablesTyped
<1>4. Grows
  BY <1>1 DEF Grows, IInv, TablesTyped
<1>5. TicksOK'
  BY <1>1, <1>4, TicksStay DEF IInv
<1>6. ReceiptsMaterialized'
  BY <1>1, <1>2 DEF IInv, ReceiptsMaterialized
<1>7. PointInTime'
  BY <1>1, <1>2 DEF IInv, PointInTime
<1>8. NoGap'
  BY <1>1 DEF IInv, NoGap
<1> QED BY <1>3, <1>5, <1>6, <1>7, <1>8 DEF IInv

LEMMA PassStep ==
  ASSUME IInv, Pass
  PROVE  IInv'
<1>1. UNCHANGED <<calendar, run, receipt, tick>> /\ now' = now + 1
  BY DEF Pass
<1>2. Grows
  BY <1>1 DEF Grows, IInv, TablesTyped
<1>3. TicksOK'
  BY <1>1, <1>2, TicksStay DEF IInv
<1> QED BY <1>1, <1>3 DEF IInv, TablesTyped, ReceiptsMaterialized, PointInTime, NoGap

LEMMA StutterStep ==
  ASSUME IInv, UNCHANGED vars
  PROVE  IInv'
<1>1. /\ Grows
      /\ TablesTyped' /\ ReceiptsMaterialized' /\ PointInTime' /\ NoGap'
  BY TablesStay DEF vars
<1>2. TicksOK'
  BY <1>1, TicksStay DEF IInv, vars
<1> QED BY <1>1, <1>2 DEF IInv

-----------------------------------------------------------------------------
LEMMA Initial ==
  ASSUME Init
  PROVE  IInv
<1>1. DOMAIN calendar = {} /\ DOMAIN run = {} /\ DOMAIN receipt = {}
  BY DEF Init, NoKeys
<1>2. TicksOK
  BY DEF Init, TicksOK, TickOK, TickType, Idle
<1> QED BY <1>1, <1>2
     DEF Init, IInv, TablesTyped, ReceiptsMaterialized, PointInTime, NoGap

THEOREM Inductive == Spec => []IInv
<1>1. ASSUME IInv, [Next]_vars
      PROVE  IInv'
  <2>1. CASE UNCHANGED vars
    BY <1>1, <2>1, StutterStep
  <2>2. ASSUME NEW r \in Revisions, NEW available \in 0..now, SealCalendar(r, available)
        PROVE  IInv'
    BY <1>1, <2>2, SealCalendarStep
  <2>3. ASSUME NEW p \in Ticks, TickStep(p) PROVE IInv'
    BY <1>1, <2>3, StartStep, BindStep, ReadRunsStep, MaterializeStep, TickStopsStep
       DEF TickStep
  <2>4. ASSUME NEW k \in DOMAIN run, WorkOn(k) PROVE IInv'
    BY <1>1, <2>4, WorkOnStep
  <2>5. CASE Pass
    BY <1>1, <2>5, PassStep
  <2> QED BY <1>1, <2>1, <2>2, <2>3, <2>4, <2>5 DEF Next
<1> QED BY <1>1, Initial, PTL DEF Spec

OvertakenOK == overtaken \subseteq Ticks

(* Type correctness.                                                       *)
THEOREM TypeCorrect == Spec => []TypeOK
<1>1. IInv /\ OvertakenOK => TypeOK
  <2> SUFFICES ASSUME IInv, OvertakenOK PROVE TypeOK
    OBVIOUS
  <2>1. ASSUME NEW p \in Ticks
        PROVE  \/ tick[p] = Idle
               \/ tick[p] \in [phase : {"observed"}, observed : Nat]
               \/ tick[p] \in [phase : {"bound"}, observed : Nat, revision : Revisions]
               \/ /\ tick[p].phase = "planned" /\ KeyOf(p) \in TickKey
                  /\ DOMAIN tick[p].plan \subseteq Identity
                  /\ \A k \in DOMAIN tick[p].plan : tick[p].plan[k] \in RunRow
    BY DEF IInv, TicksOK, TickOK, TickType, KeyOf, TickKey
  <2> QED BY <2>1 DEF IInv, TablesTyped, TypeOK, OvertakenOK
<1>2. Init => OvertakenOK
  BY DEF Init, OvertakenOK
<1>3. OvertakenOK /\ [Next]_vars => OvertakenOK'
  <2> SUFFICES ASSUME overtaken \subseteq Ticks, [Next]_vars PROVE overtaken' \subseteq Ticks
    BY DEF OvertakenOK
  <2>2. ASSUME NEW p \in Ticks, Start(p) \/ Materialize(p) \/ Refuse(p) \/ Die(p)
        PROVE  overtaken' \subseteq Ticks
    BY <2>2 DEF Start, Materialize, Refuse, Die
  <2>3. ASSUME NEW p \in Ticks, Bind(p) \/ ReadRuns(p) PROVE overtaken' = overtaken
    BY <2>3 DEF Bind, ReadRuns
  <2>1. ASSUME NEW k \in DOMAIN run, WorkOn(k) PROVE overtaken' = overtaken
    BY <2>1 DEF WorkOn
  <2>4. Pass \/ UNCHANGED vars => overtaken' = overtaken
    BY DEF Pass, vars
  <2>5. ASSUME NEW r \in Revisions, NEW available \in 0..now, SealCalendar(r, available)
        PROVE  overtaken' = overtaken
    BY <2>5 DEF SealCalendar
  <2> QED BY <2>1, <2>2, <2>3, <2>4, <2>5 DEF Next, TickStep
<1> QED BY <1>1, <1>2, <1>3, Inductive, PTL DEF Spec

(* Every run that a sealed tick receipt names exists, with the creation    *)
(* time of that tick, for any overlap of ticks planned from stale reads.   *)
THEOREM ReceiptsMaterializedAlways == Spec => []ReceiptsMaterialized
BY Inductive, PTL DEF IInv

(* No run is declared late for its own cutoff, early, or from a calendar   *)
(* revision that was not sealed yet.                                       *)
THEOREM PointInTimeAlways == Spec => []PointInTime
BY Inductive, PTL DEF IInv

(* A sealed tick leaves no quarter and no fixed slot of its audit window   *)
(* without a row.                                                          *)
THEOREM NoGapAlways == Spec => []NoGap
BY Inductive, PTL DEF IInv

-----------------------------------------------------------------------------
(* A tick that was not overtaken since it read: nothing of its plan is on   *)
(* record and its receipt is not written.                                   *)
Untouched(p) ==
  /\ Reading(p) => KeyOf(p) \notin DOMAIN receipt
  /\ tick[p].phase = "planned" => DOMAIN tick[p].plan \cap DOMAIN run = {}

StillAlone == \A p \in Ticks \ overtaken : Untouched(p)

(* A tick reads every run that its plan may declare: the fixed slots and    *)
(* the quarters of the audit, with the part of a quarter they begin before. *)
LEMMA ReadsWhatItDeclares ==
  ASSUME NEW r \in Revisions, NEW o \in Nat,
         NEW k \in FixedKeys(r, o) \cup SentinelKeys(r, o)
  PROVE  k.scheduled \in (o - FixedAudit)..o
<1>1. CASE k \in FixedKeys(r, o)
  BY <1>1 DEF FixedKeys
<1>2. CASE k \in SentinelKeys(r, o)
  <2>1. o - SentinelAudit \in Int /\ FixedAudit \in Nat /\ SentinelAudit \in Nat
    BY ScheduleAssumption
  <2>2. /\ Floor(o - SentinelAudit) \in Int
        /\ o - SentinelAudit < Floor(o - SentinelAudit) + Quarter
    BY <2>1, FloorBounds
  <2>3. k.scheduled \in Floor(o - SentinelAudit)..o
    BY <1>2 DEF SentinelKeys, Quarters
  <2>4. Quarter \in Nat /\ SentinelAudit + Quarter - 1 <= FixedAudit
    BY ScheduleAssumption
  <2>5. o - FixedAudit <= Floor(o - SentinelAudit)
    BY <2>1, <2>2, <2>4
  <2> QED BY <2>1, <2>2, <2>3, <2>5
<1> QED BY <1>1, <1>2

LEMMA AloneReads ==
  ASSUME IInv, StillAlone, NEW p \in Ticks, ReadRuns(p), p \notin overtaken
  PROVE  Untouched(p)'
<1>1. PICK o, r : o = tick[p].observed /\ r = tick[p].revision
  OBVIOUS
<1>2. o \in Nat /\ r \in Revisions /\ KeyOf(p) \notin DOMAIN receipt
  BY <1>1, PhaseTypes DEF IInv, ReadRuns, StillAlone, Untouched, Reading
<1>3. CASE tick' = [tick EXCEPT ![p] = Idle]
  BY <1>3 DEF Untouched, Reading, Idle, IInv, TicksOK
<1>4. CASE tick' = [tick EXCEPT ![p] =
                      [phase |-> "planned", observed |-> o, revision |-> r,
                       plan |-> Declared(r, o, RunsBetween(o - FixedAudit, o))]]
  <2>1. tick'[p] = [phase |-> "planned", observed |-> o, revision |-> r,
                    plan |-> Declared(r, o, RunsBetween(o - FixedAudit, o))]
    BY <1>4 DEF IInv, TicksOK
  <2>2. KeyOf(p)' = KeyOf(p) /\ UNCHANGED <<run, receipt>>
    BY <1>1, <2>1 DEF KeyOf, ReadRuns
  <2>3. ASSUME NEW k \in DOMAIN Declared(r, o, RunsBetween(o - FixedAudit, o))
        PROVE  k \notin DOMAIN run
    <3>1. /\ k \in FixedKeys(r, o) \cup SentinelKeys(r, o)
          /\ k \notin RunsBetween(o - FixedAudit, o)
      BY DEF Declared
    <3>2. k.scheduled \in (o - FixedAudit)..o
      BY <1>2, <3>1, ReadsWhatItDeclares
    <3> QED BY <3>1, <3>2 DEF RunsBetween
  <2> QED BY <1>2, <2>1, <2>2, <2>3 DEF Untouched
<1> QED BY <1>1, <1>3, <1>4 DEF ReadRuns

LEMMA AloneBinds ==
  ASSUME IInv, NEW p \in Ticks, Bind(p)
  PROVE  Untouched(p)'
<1>1. CASE tick' = [tick EXCEPT ![p] = Idle]
  BY <1>1 DEF Untouched, Reading, Idle, IInv, TicksOK
<1>2. ASSUME NEW r,
             [observed |-> tick[p].observed, revision |-> r] \notin DOMAIN receipt,
             tick' = [tick EXCEPT ![p] =
                        [phase |-> "bound", observed |-> tick[p].observed, revision |-> r]]
      PROVE  Untouched(p)'
  <2>1. tick'[p] = [phase |-> "bound", observed |-> tick[p].observed, revision |-> r]
    BY <1>2 DEF IInv, TicksOK
  <2>2. receipt' = receipt
    BY DEF Bind
  <2> QED BY <1>2, <2>1, <2>2 DEF Untouched, KeyOf
<1> QED BY <1>1, <1>2 DEF Bind

LEMMA AloneStep ==
  ASSUME IInv, StillAlone, [Next]_vars
  PROVE  StillAlone'
<1> SUFFICES ASSUME NEW q \in Ticks, q \notin overtaken' PROVE Untouched(q)'
  BY DEF StillAlone
<1>0. DOMAIN tick = Ticks
  BY DEF IInv, TicksOK
<1>1. ASSUME tick'[q] = Idle PROVE Untouched(q)'
  BY <1>1 DEF Untouched, Reading, Idle
<1>2. ASSUME q \notin overtaken, tick'[q] = tick[q], receipt' = receipt,
             DOMAIN run' = DOMAIN run
      PROVE  Untouched(q)'
  BY <1>2 DEF StillAlone, Untouched, Reading, KeyOf
<1>3. ASSUME NEW p \in Ticks, Start(p) PROVE Untouched(q)'
  <2>1. CASE q = p
    BY <1>0, <1>3, <2>1 DEF Start, Untouched, Reading
  <2>2. CASE q # p
    BY <1>0, <1>2, <1>3, <2>2 DEF Start
  <2> QED BY <2>1, <2>2
<1>4. ASSUME NEW p \in Ticks, Bind(p) \/ ReadRuns(p) PROVE Untouched(q)'
  <2>1. CASE q = p
    BY <1>4, <2>1, AloneBinds, AloneReads DEF ReadRuns
  <2>2. CASE q # p
    <3>1. tick'[q] = tick[q] /\ UNCHANGED <<run, receipt, overtaken>>
      BY <1>0, <1>4, <2>2 DEF Bind, ReadRuns
    <3> QED BY <1>2, <3>1
  <2> QED BY <2>1, <2>2
<1>5. ASSUME NEW p \in Ticks, Materialize(p) PROVE Untouched(q)'
  <2>1. CASE q = p
    BY <1>0, <1>1, <1>5, <2>1 DEF Materialize
  <2>2. CASE q # p
    <3>1. tick'[q] = tick[q] /\ ~Reading(q)
      BY <1>0, <1>5, <2>2 DEF Materialize
    <3> QED BY <3>1 DEF Untouched, Reading
  <2> QED BY <2>1, <2>2
<1>6. ASSUME NEW p \in Ticks, Refuse(p) \/ Die(p) PROVE Untouched(q)'
  <2>1. CASE q = p
    BY <1>0, <1>1, <1>6, <2>1 DEF Refuse, Die
  <2>2. CASE q # p
    BY <1>0, <1>2, <1>6, <2>2 DEF Refuse, Die
  <2> QED BY <2>1, <2>2
<1>7. CASE (\E k \in DOMAIN run : WorkOn(k)) \/ Pass \/ UNCHANGED vars
  BY <1>2, <1>7 DEF WorkOn, Pass, vars
<1>8. ASSUME NEW r \in Revisions, NEW available \in 0..now, SealCalendar(r, available)
      PROVE  Untouched(q)'
  BY <1>2, <1>8 DEF SealCalendar
<1> QED BY <1>3, <1>4, <1>5, <1>6, <1>7, <1>8 DEF Next, TickStep

(* A tick is refused only when another one was done between its reads and   *)
(* its savepoint, for any calendar and any history of ticks: its plan stays *)
(* within the window of runs it reads.                                      *)
THEOREM RefusedOnlyOvertakenAlways == Spec => []RefusedOnlyOvertaken
<1>1. Init => StillAlone
  BY DEF Init, StillAlone, Untouched, Reading, Idle
<1>2. IInv /\ StillAlone /\ [Next]_vars => StillAlone'
  BY AloneStep
<1>3. StillAlone => RefusedOnlyOvertaken
  BY DEF StillAlone, Untouched, Reading, RefusedOnlyOvertaken, Agrees, RunsAgree,
         ReceiptAgrees
<1> QED BY <1>1, <1>2, <1>3, Inductive, PTL DEF Spec
=============================================================================
