---------------------------- MODULE SchedulerTick ----------------------------
(***************************************************************************)
(* The Single-Track V3 scheduler tick: a short process, started every      *)
(* quarter of an hour and at boot, that declares the retrieval runs which  *)
(* have become due under the calendar revision it sees.  It reads the      *)
(* calendar, its own receipt and the runs of the window by statements of   *)
(* their own, plans, and inserts the missing runs and its receipt in one   *)
(* savepoint.  Ticks may overlap: a manual start beside the task's.        *)
(***************************************************************************)
EXTENDS Integers, FiniteSets

CONSTANTS
  Revisions,     \* calendar revisions
  Rank,          \* order of their names, the last tie-break
  Sessions,      \* trade dates
  Listed,        \* per revision, the sessions it lists in an open state
  DayStart,      \* midnight of a session's trade date
  OpensAt,       \* its scheduled_open_at
  FixedSlots,    \* evening_1800, evening_2100, preopen_0600, preopen_final_scan
  Offset,        \* scheduled time of a fixed slot, relative to the trade date
  Due,           \* its deadline, relative to the trade date
  Quarter,       \* 15 minutes
  FixedAudit,    \* fixed_audit_lookback_hours
  CatchUp,       \* fixed_catch_up_hours
  SentinelAudit, \* sentinel_audit_lookback_hours
  SealDelay,     \* bound on the time from availability to sealing of a revision
  Ticks,         \* processes running the scheduler script
  Horizon,       \* bound on the clock
  MaxWorked      \* bound on the runs the worker has taken up

Sentinel == "high_signal_sentinel_15m"

ASSUME ScheduleAssumption ==
  /\ Listed \in [Revisions -> SUBSET Sessions]
  /\ Rank \in [Revisions -> Nat]
  /\ DayStart \in [Sessions -> Nat] /\ OpensAt \in [Sessions -> Nat]
  /\ Offset \in [FixedSlots -> Int] /\ Due \in [FixedSlots -> Int]
  /\ Sentinel \notin FixedSlots
  /\ Quarter \in Nat \ {0} /\ SentinelAudit \in Nat
  /\ CatchUp \in Nat /\ FixedAudit \in Nat /\ CatchUp <= FixedAudit
  /\ SentinelAudit + Quarter - 1 <= FixedAudit  \* 24 hours and a quarter within 72
  /\ SealDelay \in Nat /\ Horizon \in Nat /\ MaxWorked \in Nat

VARIABLES
  now,      \* the clock
  calendar, \* sealed calendar revisions
  run,      \* news_retrieval_run, by the identity that makes idempotency_key
  receipt,  \* single_track_v3_scheduler_tick: the planned runs, by tick key
  tick,     \* what each process has read so far
  overtaken \* history: ticks between whose reads and savepoint another was done

vars == <<now, calendar, run, receipt, tick, overtaken>>

Identity == [revision : Revisions, target : Sessions,
             slot : FixedSlots \cup {Sentinel}, scheduled : Int]
RunRow == [status : {"queued", "skipped", "worked"}, cutoff : Int, created : Nat]
TickKey == [observed : Nat, revision : Revisions]
NoKeys == [k \in {} |-> {}]
Idle == [phase |-> "idle"]

KeyOf(p) == [observed |-> tick[p].observed, revision |-> tick[p].revision]

TypeOK ==
  /\ now \in Nat
  /\ DOMAIN calendar \subseteq Revisions
  /\ \A r \in DOMAIN calendar : calendar[r] \in [available : Nat, sealed : Nat]
  /\ DOMAIN run \subseteq Identity /\ \A k \in DOMAIN run : run[k] \in RunRow
  /\ DOMAIN receipt \subseteq TickKey /\ \A k \in DOMAIN receipt : receipt[k] \subseteq Identity
  /\ \A p \in Ticks :
       \/ tick[p] = Idle
       \/ tick[p] \in [phase : {"observed"}, observed : Nat]
       \/ tick[p] \in [phase : {"bound"}, observed : Nat, revision : Revisions]
       \/ /\ tick[p].phase = "planned" /\ KeyOf(p) \in TickKey
          /\ DOMAIN tick[p].plan \subseteq Identity
          /\ \A k \in DOMAIN tick[p].plan : tick[p].plan[k] \in RunRow
  /\ overtaken \subseteq Ticks

Init ==
  /\ now = 0
  /\ calendar = NoKeys /\ run = NoKeys /\ receipt = NoKeys
  /\ tick = [p \in Ticks |-> Idle]
  /\ overtaken = {}

(* f with the rows of g added; a row of f is never replaced.               *)
With(f, g) == [k \in DOMAIN f \cup DOMAIN g |-> IF k \in DOMAIN f THEN f[k] ELSE g[k]]

-----------------------------------------------------------------------------
(* The calendar.  A revision is immutable once sealed, and may be sealed   *)
(* later than it became available.                                         *)

SealCalendar(r, available) ==
  /\ r \notin DOMAIN calendar /\ Listed[r] # {}
  /\ calendar' = With(calendar, [x \in {r} |-> [available |-> available, sealed |-> now]])
  /\ UNCHANGED <<now, run, receipt, tick, overtaken>>

VisibleUnsealed(observed) == {r \in DOMAIN calendar : calendar[r].available <= observed}

Visible(observed) ==
  {r \in DOMAIN calendar : calendar[r].available <= observed /\ calendar[r].sealed <= observed}

Newer(q, r) ==
  LET a == calendar[q] b == calendar[r] IN
  \/ a.available > b.available
  \/ a.available = b.available /\ a.sealed > b.sealed
  \/ a.available = b.available /\ a.sealed = b.sealed /\ Rank[q] > Rank[r]

IsLatest(r, observed) ==
  r \in Visible(observed) /\ \A q \in Visible(observed) : ~Newer(q, r)

(* The first formally scheduled open after a cutoff.                       *)
NextOpen(r, cutoff) ==
  {s \in Listed[r] : /\ OpensAt[s] > cutoff
                     /\ \A x \in Listed[r] : OpensAt[x] > cutoff => OpensAt[s] <= OpensAt[x]}

-----------------------------------------------------------------------------
(* Planning: build_due_run_declarations, as a function from identities.    *)

Row(status, cutoff, observed) == [status |-> status, cutoff |-> cutoff, created |-> observed]

FixedRow(scheduled, due, observed) ==
  IF observed <= due THEN Row("queued", due, observed)
  ELSE IF observed - scheduled <= CatchUp THEN Row("queued", observed + Quarter, observed)
  ELSE Row("skipped", observed, observed)

FixedKeys(r, observed) ==
  {k \in [revision : {r}, target : Listed[r], slot : FixedSlots,
          scheduled : (observed - FixedAudit)..observed] :
     k.scheduled = DayStart[k.target] + Offset[k.slot]}

Floor(t) == t - (t % Quarter)

(* The quarters of the audit window, the current one included.             *)
Quarters(observed) ==
  {q \in Floor(observed - SentinelAudit)..observed : q % Quarter = 0}

SentinelRow(scheduled, observed) ==
  IF scheduled = Floor(observed) THEN Row("queued", scheduled + Quarter, observed)
  ELSE Row("skipped", observed, observed)

SentinelKeys(r, observed) ==
  {k \in [revision : {r}, target : Listed[r], slot : {Sentinel},
          scheduled : Quarters(observed)] :
     k.target \in NextOpen(r, SentinelRow(k.scheduled, observed).cutoff)}

(* The build raises when no session is left to target.                     *)
Plannable(r, observed) ==
  \A q \in Quarters(observed) : NextOpen(r, SentinelRow(q, observed).cutoff) # {}

RowOf(k, observed) ==
  IF k.slot = Sentinel THEN SentinelRow(k.scheduled, observed)
  ELSE FixedRow(k.scheduled, DayStart[k.target] + Due[k.slot], observed)

DeclaredOncePerSlot(r, observed, existing) ==
  [k \in {x \in FixedKeys(r, observed) \cup SentinelKeys(r, observed) :
            \A e \in existing : e.slot # x.slot \/ e.scheduled # x.scheduled} |->
     RowOf(k, observed)]

Declared(r, observed, existing) ==
  [k \in (FixedKeys(r, observed) \cup SentinelKeys(r, observed)) \ existing |->
     RowOf(k, observed)]

-----------------------------------------------------------------------------
(* One tick.                                                               *)

Start(p) ==
  /\ tick[p] = Idle
  /\ tick' = [tick EXCEPT ![p] = [phase |-> "observed", observed |-> now]]
  /\ overtaken' = overtaken \ {p}
  /\ UNCHANGED <<now, calendar, run, receipt>>

(* Without a visible revision the tick raises; a sealed receipt is a replay. *)
Bind(p) ==
  /\ tick[p].phase = "observed"
  /\ tick' = [tick EXCEPT ![p] =
       IF \E r \in DOMAIN calendar : IsLatest(r, tick[p].observed)
       THEN LET r == CHOOSE x \in DOMAIN calendar : IsLatest(x, tick[p].observed)
                key == [observed |-> tick[p].observed, revision |-> r]
            IN IF key \in DOMAIN receipt THEN Idle
               ELSE [phase |-> "bound", observed |-> key.observed, revision |-> r]
       ELSE Idle]
  /\ UNCHANGED <<now, calendar, run, receipt, overtaken>>

RunsBetweenExclusive(from, to) == {k \in DOMAIN run : from < k.scheduled /\ k.scheduled <= to}

RunsBetween(from, to) == {k \in DOMAIN run : k.scheduled \in from..to}

(* Only the runs of the last 72 hours are read; then the plan is made.     *)
ReadRuns(p) ==
  LET r == tick[p].revision o == tick[p].observed IN
  /\ tick[p].phase = "bound"
  /\ tick' = [tick EXCEPT ![p] =
       IF Plannable(r, o)
       THEN [phase |-> "planned", observed |-> o, revision |-> r,
             plan |-> Declared(r, o, RunsBetween(o - FixedAudit, o))]
       ELSE Idle]
  /\ UNCHANGED <<now, calendar, run, receipt, overtaken>>

(* ON CONFLICT DO NOTHING, then each row is read back and compared.        *)
RunsAgree(p) == \A k \in DOMAIN tick[p].plan \cap DOMAIN run : run[k] = tick[p].plan[k]

(* So is the receipt.                                                      *)
ReceiptAgrees(p) == KeyOf(p) \in DOMAIN receipt => receipt[KeyOf(p)] = DOMAIN tick[p].plan

AgreesUnread(p) == ReceiptAgrees(p)

Agrees(p) == RunsAgree(p) /\ ReceiptAgrees(p)

Reading(p) == tick[p].phase \in {"bound", "planned"}

Materialize(p) ==
  /\ tick[p].phase = "planned"
  /\ Agrees(p)
  /\ run' = With(run, tick[p].plan)
  /\ receipt' = With(receipt, [x \in {KeyOf(p)} |-> DOMAIN tick[p].plan])
  /\ tick' = [tick EXCEPT ![p] = Idle]
  /\ overtaken' = (overtaken \ {p}) \cup {q \in Ticks \ {p} : Reading(q)}
  /\ UNCHANGED <<now, calendar>>

(* A row that reads back differently rolls the whole savepoint back.       *)
Refuse(p) ==
  /\ tick[p].phase = "planned"
  /\ ~Agrees(p)
  /\ tick' = [tick EXCEPT ![p] = Idle]
  /\ overtaken' = overtaken \ {p}
  /\ UNCHANGED <<now, calendar, run, receipt>>

Die(p) ==
  /\ tick[p] # Idle
  /\ tick' = [tick EXCEPT ![p] = Idle]
  /\ overtaken' = overtaken \ {p}
  /\ UNCHANGED <<now, calendar, run, receipt>>

(* The retrieval worker moves the status of a queued run.                  *)
WorkOn(k) ==
  /\ run[k].status = "queued"
  /\ Cardinality({x \in DOMAIN run : run[x].status = "worked"}) < MaxWorked
  /\ run' = [run EXCEPT ![k].status = "worked"]
  /\ UNCHANGED <<now, calendar, receipt, tick, overtaken>>

Pass ==
  /\ now < Horizon
  /\ now' = now + 1
  /\ UNCHANGED <<calendar, run, receipt, tick, overtaken>>

TickStep(p) ==
  Start(p) \/ Bind(p) \/ ReadRuns(p) \/ Materialize(p) \/ Refuse(p) \/ Die(p)

Next ==
  \/ \E r \in Revisions : \E available \in {a \in 0..now : now <= a + SealDelay} : SealCalendar(r, available)
  \/ \E p \in Ticks : TickStep(p)
  \/ \E k \in DOMAIN run : WorkOn(k)
  \/ Pass

Spec == Init /\ [][Next]_vars

-----------------------------------------------------------------------------
(* A receipt stands for runs that exist: every run it planned is there,    *)
(* with the cutoff this tick gave it, although it was planned from reads   *)
(* that other ticks may have overtaken.                                    *)
ReceiptsMaterialized ==
  \A key \in DOMAIN receipt : \A k \in receipt[key] :
    /\ k \in DOMAIN run
    /\ run[k].created = key.observed /\ k.revision = key.revision

(* No run is given a cutoff that had passed when it was declared, none is  *)
(* declared before it is due, from a revision that was not yet visible, or *)
(* for a sentinel target that opens before its cutoff.                     *)
PointInTime ==
  \A k \in DOMAIN run :
    /\ k.scheduled <= run[k].created /\ run[k].created <= run[k].cutoff
    /\ run[k].status = "queued" /\ k.slot = Sentinel => run[k].created < run[k].cutoff
    /\ k.revision \in DOMAIN calendar /\ calendar[k.revision].sealed <= run[k].created
    /\ k.slot = Sentinel => OpensAt[k.target] > run[k].cutoff

(* A sealed tick leaves no gap: under its revision every quarter of the    *)
(* audit window and every fixed slot of it is on record, run or skipped,   *)
(* declared by this tick or by an earlier one.                             *)
NoGap ==
  \A key \in DOMAIN receipt :
    /\ \A q \in Quarters(key.observed) : \E k \in DOMAIN run :
         k.slot = Sentinel /\ k.scheduled = q /\ k.revision = key.revision
    /\ FixedKeys(key.revision, key.observed) \subseteq DOMAIN run

(* "Materialize one idempotent tick": a tick that no other one overtakes   *)
(* finds in the end what it read in the beginning, so that it is refused   *)
(* only when it is overtaken.  What ticks declared long before, for        *)
(* another revision or a slot whose hour has since passed, never stands in *)
(* its way: a tick that is refused for that would be refused for ever.     *)
RefusedOnlyOvertaken ==
  \A p \in Ticks : tick[p].phase = "planned" /\ p \notin overtaken => Agrees(p)
=============================================================================
