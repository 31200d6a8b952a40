--------------------------- MODULE EquityScheduler ---------------------------
(***************************************************************************)
(* The local market scheduler: one loop under a file lock that starts the  *)
(* stages which are due (market updates of a trading day, the latest news  *)
(* slot, weekly TDCC publications), waits for each, and records it in a    *)
(* state file that is replaced atomically.  A stage is a process tree of   *)
(* its own; a scheduler may end at any point and another one take over     *)
(* with nothing but the file.  A scheduler is named by the generation of   *)
(* the supervisor that starts it.                                          *)
(***************************************************************************)
EXTENDS Integers, Sequences

CONSTANTS
  Generations, \* starts of the supervisor
  Nobody,      \* holder of a free lock
  Schedule,    \* the stages in the order of the schedules dict
  News,        \* the news_* stages
  Weekly,      \* the tdcc_* stages
  Clock,       \* per stage, its time of day
  TradingDays, \* days on which the market is open
  DayLength,   \* length of a day
  WindowEnd,   \* EQUITY_WINDOW_END, a time of day
  Week,        \* days from one weekly publication to the next (7)
  PublishDay,  \* day number of the first publication (a Friday)
  Retry,       \* EQUITY_RETRY_SECONDS
  KeepDays,    \* days a record is kept (32)
  TreeKill,    \* stopping a process stops its descendants (taskkill /T)
  Start,       \* the time when the first supervisor may start
  Horizon      \* bound on the clock

Stages == {Schedule[i] : i \in DOMAIN Schedule}

ASSUME SchedulerAssumption ==
  /\ Nobody \notin Generations
  /\ Schedule \in Seq(STRING)
  /\ News \subseteq Stages /\ Weekly \subseteq Stages /\ News \cap Weekly = {}
  /\ \A s \in Stages : Clock[s] \in 0..(DayLength - 1)
  /\ TradingDays \subseteq Nat
  /\ DayLength \in Nat \ {0} /\ WindowEnd \in Nat
  /\ Week \in Nat \ {0} /\ PublishDay \in Nat
  /\ Retry \in Nat /\ KeepDays \in Nat /\ 2 * Week - 1 <= KeepDays
  /\ Start \in Nat /\ Horizon \in Nat
  /\ TreeKill \in BOOLEAN

VARIABLES
  now,   \* the wall clock
  file,  \* daily-state.json: a record per due date and stage
  lock,  \* holder of scheduler.lock
  sched, \* the scheduler process of each generation
  stage  \* stage processes that are running, with the scheduler that started them

schedulerVars == <<now, file, lock, sched, stage>>

Keys == [day : Int, stage : Stages]
Record == [completed : BOOLEAN, retry : Nat]
NoRecords == [k \in {} |-> {}]
Live == {"loop", "due", "wait", "ended"}
NewProcess == [pc |-> "none", mem |-> NoRecords, at |-> 0, pos |-> 0, ok |-> FALSE]

IsState(f) == DOMAIN f \subseteq Keys /\ \A k \in DOMAIN f : f[k] \in Record

SchedulerTypeOK ==
  /\ now \in Nat
  /\ IsState(file)
  /\ lock \in Generations \cup {Nobody}
  /\ DOMAIN sched = Generations
  /\ \A g \in Generations :
       /\ sched[g].pc \in Live \cup {"none", "dead", "killed"}
       /\ IsState(sched[g].mem)
       /\ sched[g].at \in Nat /\ sched[g].pos \in 0..Len(Schedule)
       /\ sched[g].ok \in BOOLEAN
  /\ stage \subseteq [by : Generations, key : Keys]

SchedulerInit ==
  /\ now = Start
  /\ file = NoRecords
  /\ lock = Nobody
  /\ sched = [g \in Generations |-> NewProcess]
  /\ stage = {}

-----------------------------------------------------------------------------
(* Which stages are due at time t, and under which date.                   *)

Day(t) == t \div DayLength
TimeOfDay(t) == t % DayLength

LatestNews(t) ==
  {s \in News : /\ Clock[s] <= TimeOfDay(t)
                /\ \A x \in News : Clock[x] <= TimeOfDay(t) => Clock[x] <= Clock[s]}

LastPublication(t) == Day(t) - ((Day(t) - PublishDay) % Week)

DueDay(s, t) ==
  IF s \notin Weekly THEN Day(t)
  ELSE IF LastPublication(t) * DayLength + Clock[s] > t THEN LastPublication(t) - Week
  ELSE LastPublication(t)

KeyAt(s, t) == [day |-> DueDay(s, t), stage |-> s]

IsDue(s, t) ==
  /\ TimeOfDay(t) <= WindowEnd
  /\ s \in News => s \in LatestNews(t)
  /\ s \notin News \cup Weekly => Day(t) \in TradingDays
  /\ DueDay(s, t) * DayLength + Clock[s] <= t

MayRunAgain(s, t, mem) ==
  IsDue(s, t) /\ (KeyAt(s, t) \in DOMAIN mem => mem[KeyAt(s, t)].retry <= t)

MayRun(s, t, mem) ==
  /\ IsDue(s, t)
  /\ KeyAt(s, t) \in DOMAIN mem =>
       ~mem[KeyAt(s, t)].completed /\ mem[KeyAt(s, t)].retry <= t

(* Positions after pos whose stage run_due would start.                    *)
Ahead(p) == {i \in (p.pos + 1)..Len(Schedule) : MayRun(Schedule[i], p.at, p.mem)}

-----------------------------------------------------------------------------
(* The scheduler process.                                                  *)

LockIgnored == TRUE
LockFree == lock = Nobody

(* A second scheduler raises and exits.                                    *)
StartScheduler(g) ==
  /\ sched[g].pc = "none"
  /\ IF LockFree
     THEN lock' = g /\ sched' = [sched EXCEPT ![g].pc = "loop"]
     ELSE sched' = [sched EXCEPT ![g].pc = "dead"] /\ UNCHANGED lock
  /\ UNCHANGED <<now, file, stage>>

(* One round: the state file and the clock are read once.                  *)
BeginRound(g) ==
  /\ sched[g].pc = "loop"
  /\ sched' = [sched EXCEPT ![g] = [pc |-> "due", mem |-> file, at |-> now, pos |-> 0,
                                    ok |-> FALSE]]
  /\ UNCHANGED <<now, file, lock, stage>>

StartStage(g) ==
  LET p == sched[g] IN
  /\ p.pc = "due"
  /\ \E i \in Ahead(p) :
       /\ \A j \in Ahead(p) : i <= j
       /\ stage' = stage \cup {[by |-> g, key |-> KeyAt(Schedule[i], p.at)]}
       /\ sched' = [sched EXCEPT ![g].pc = "wait", ![g].pos = i]
  /\ UNCHANGED <<now, file, lock>>

(* The process ends, or run_bounded ends it: any code but 0 is a failure.  *)
EndStage(e, ok) ==
  /\ e \in stage
  /\ stage' = stage \ {e}
  /\ sched' = IF sched[e.by].pc = "wait"
              THEN [sched EXCEPT ![e.by].pc = "ended", ![e.by].ok = ok] ELSE sched
  /\ UNCHANGED <<now, file, lock>>

Put(f, key, record) == [k \in DOMAIN f \cup {key} |-> IF k = key THEN record ELSE f[k]]

(* The time of the retry counts from the time the round began; of a stage  *)
(* that completed nothing reads it, and it is left out.                    *)
Recorded(p) ==
  Put(p.mem, KeyAt(Schedule[p.pos], p.at),
      [completed |-> p.ok, retry |-> IF p.ok THEN 0 ELSE p.at + Retry])

Checkpoint(g) ==
  /\ sched[g].pc = "ended"
  /\ file' = Recorded(sched[g])
  /\ sched' = [sched EXCEPT ![g].pc = "due", ![g].mem = Recorded(sched[g])]
  /\ UNCHANGED <<now, lock, stage>>

(* Outside the window run_due returns the state before it prunes it.       *)
Pruned(mem, t) ==
  LET kept == IF TimeOfDay(t) > WindowEnd THEN DOMAIN mem
              ELSE {k \in DOMAIN mem : k.day >= Day(t) - KeepDays}
  IN [k \in kept |-> mem[k]]

EndRound(g) ==
  /\ sched[g].pc = "due"
  /\ Ahead(sched[g]) = {}
  /\ file' = Pruned(sched[g].mem, sched[g].at)
  /\ sched' = [sched EXCEPT ![g] = [NewProcess EXCEPT !.pc = "loop"]]
  /\ UNCHANGED <<now, lock, stage>>

Unlocked(g) == IF lock = g THEN Nobody ELSE lock

(* The end of a scheduler, with the stages that end with it.               *)
Ends(g, how, taken) ==
  /\ sched[g].pc \in Live
  /\ sched' = [sched EXCEPT ![g] = [NewProcess EXCEPT !.pc = how]]
  /\ lock' = Unlocked(g)
  /\ stage' = stage \ taken
  /\ UNCHANGED <<now, file>>

StagesOf(g) == {e \in stage : e.by = g}

(* An exception: run_bounded stops the stage it waits for and reraises.    *)
Fail(g) == Ends(g, "dead", StagesOf(g))

(* A scheduler killed from outside, alone: the system frees its lock.      *)
KillScheduler(g) == Ends(g, "killed", {})

StopProcessOnly(g) == Ends(g, "dead", {})

(* The supervisor stops it.  taskkill /T takes its stage with it; a signal *)
(* reaches its process group only, which its stage, the leader of a        *)
(* session of its own, is not in.                                          *)
StopScheduler(g) == Ends(g, "dead", IF TreeKill THEN StagesOf(g) ELSE {})

Pass ==
  /\ now < Horizon
  /\ now' = now + 1
  /\ UNCHANGED <<file, lock, sched, stage>>

Round(g) == BeginRound(g) \/ StartStage(g) \/ Checkpoint(g) \/ EndRound(g)

SchedulerStep ==
  \/ \E g \in Generations : Round(g) \/ Fail(g)
  \/ \E e \in stage, ok \in BOOLEAN : EndStage(e, ok)
  \/ Pass

-----------------------------------------------------------------------------
(* Only one scheduler works at a time, also when a supervisor was killed   *)
(* and left its scheduler behind; and a stage that runs is the one which   *)
(* this scheduler waits for, unless its own scheduler was killed.  The     *)
(* second part holds on Windows only (TreeKill).                           *)
OneStageAtATime ==
  /\ \A g \in Generations : sched[g].pc \in Live => lock = g
  /\ \A e \in stage : sched[e.by].pc # "killed" =>
       /\ sched[e.by].pc = "wait"
       /\ e.key = KeyAt(Schedule[sched[e.by].pos], sched[e.by].at)

(* A completed stage stays completed in the file through restarts, retries *)
(* and pruning, for as long as it could be due again.                      *)
CompletedStaysCompleted ==
  [][\A k \in DOMAIN file : file[k].completed =>
       \/ k \in DOMAIN file' /\ file'[k].completed
       \/ k.day < DueDay(k.stage, now)]_file

(* No stage is started that the file shows completed.                      *)
NoStageRepeated ==
  [][\A e \in stage' \ stage : e.key \in DOMAIN file => ~file[e.key].completed]_stage
=============================================================================
