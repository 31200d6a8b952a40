--------------------------- MODULE EquitySupervisor ---------------------------
(***************************************************************************)
(* The supervisor and its children: under a lock of its own it starts the  *)
(* model runtime unless one answers already, preloads it, starts the web   *)
(* application, waits for its health check, then the tunnel and the        *)
(* scheduler, and polls them.  Any child that ends, any failure and an     *)
(* interrupt end everything, last child first.                             *)
(***************************************************************************)
EXTENDS EquityScheduler

CONSTANT MaxFaults  \* bound on the processes that die or are killed

Services == <<"model", "web", "tunnel", "scheduler">>
Names == {Services[i] : i \in DOMAIN Services}

VARIABLES
  phase,   \* where each generation of the supervisor stands
  child,   \* its children other than the scheduler: dead, or stopped by it
  supLock, \* holder of supervisor.lock
  faults    \* processes that died or were killed so far

supervisor == <<phase, child, supLock, faults>>
vars == <<schedulerVars, supervisor>>

ASSUME MaxFaultsAssumption == MaxFaults \in Nat

Starting == {"probe", "model", "warmup", "web", "schedule"}
Running == Starting \cup {"serving"}
Over == {"down", "aborted", "killed"}

TypeOK ==
  /\ SchedulerTypeOK
  /\ phase \in [Generations -> Running \cup Over \cup {"none", "stopping"}]
  /\ child \in [Generations -> [Names \ {"scheduler"} -> {"none", "up", "dead", "stopped"}]]
  /\ supLock \in Generations \cup {Nobody}
  /\ faults \in 0..MaxFaults

Init ==
  /\ SchedulerInit
  /\ phase = [g \in Generations |-> "none"]
  /\ child = [g \in Generations |-> [n \in Names \ {"scheduler"} |-> "none"]]
  /\ supLock = Nobody
  /\ faults = 0

ConditionOf(g, n) ==
  IF n # "scheduler" THEN child[g][n]
  ELSE IF sched[g].pc = "none" THEN "none"
  ELSE IF sched[g].pc \in Live THEN "up" ELSE "dead"

Moves(g, from, to) == phase[g] = from /\ phase' = [phase EXCEPT ![g] = to]
Launch(g, n) == child' = [child EXCEPT ![g][n] = "up"]
Still == UNCHANGED <<schedulerVars, supLock, faults>>

-----------------------------------------------------------------------------
(* Start, child by child: each phase ends with what it waits for and with  *)
(* the launch that follows at once.  endpoint_ready is an answer from      *)
(* outside.                                                                *)

Acquire(g) ==
  /\ IF supLock = Nobody THEN Moves(g, "none", "probe") /\ supLock' = g
     ELSE Moves(g, "none", "down") /\ UNCHANGED supLock
  /\ UNCHANGED <<schedulerVars, child, faults>>

Probe(g) ==
  /\ \/ Moves(g, "probe", "warmup") /\ UNCHANGED child
     \/ Moves(g, "probe", "model") /\ Launch(g, "model")
  /\ Still

(* The wait ends with an answer, an exit of the child or the deadline.     *)
AwaitModel(g) ==
  /\ Moves(g, "model", "warmup") \/ Moves(g, "model", "stopping")
  /\ Still /\ UNCHANGED child

Warmup(g) ==
  /\ \/ Moves(g, "warmup", "web") /\ Launch(g, "web")
     \/ Moves(g, "warmup", "stopping") /\ UNCHANGED child
  /\ Still

AwaitWeb(g) ==
  /\ \/ Moves(g, "web", "schedule") /\ Launch(g, "tunnel")
     \/ Moves(g, "web", "stopping") /\ UNCHANGED child
  /\ Still

LaunchScheduler(g) ==
  /\ Moves(g, "schedule", "serving")
  /\ StartScheduler(g)
  /\ UNCHANGED <<child, supLock, faults>>

-----------------------------------------------------------------------------
(* The end.                                                                *)

PollWeb(g) ==
  /\ ConditionOf(g, "web") = "dead"
  /\ Moves(g, "serving", "stopping")
  /\ Still /\ UNCHANGED child

Poll(g) ==
  /\ \E n \in Names : ConditionOf(g, n) = "dead"
  /\ Moves(g, "serving", "stopping")
  /\ Still /\ UNCHANGED child

Interrupt(g) ==
  /\ phase[g] \in Running
  /\ phase' = [phase EXCEPT ![g] = "stopping"]
  /\ Still /\ UNCHANGED child

Up(g) == {i \in DOMAIN Services : ConditionOf(g, Services[i]) = "up"}

Stop(g, i) ==
  /\ phase[g] = "stopping"
  /\ IF Services[i] = "scheduler" THEN StopScheduler(g) /\ UNCHANGED child
     ELSE /\ child' = [child EXCEPT ![g][Services[i]] = "stopped"]
          /\ UNCHANGED schedulerVars
  /\ UNCHANGED <<phase, supLock, faults>>

StopFirst(g) == \E i \in Up(g) : (\A j \in Up(g) : i <= j) /\ Stop(g, i)

(* reversed(children), one after the other.                                *)
StopLast(g) == \E i \in Up(g) : (\A j \in Up(g) : j <= i) /\ Stop(g, i)

(* stop raises when the child outlives the time it is given: the loop ends *)
(* there, and the children before it are not stopped.                      *)
StopRaises(g) ==
  /\ Up(g) # {}
  /\ Moves(g, "stopping", "aborted")
  /\ supLock' = Nobody
  /\ UNCHANGED <<schedulerVars, child, faults>>

Finish(g) ==
  /\ Up(g) = {}
  /\ Moves(g, "stopping", "down")
  /\ supLock' = Nobody
  /\ UNCHANGED <<schedulerVars, child, faults>>

(* A supervisor that is killed stops nothing.                              *)
Kill(g) ==
  /\ phase[g] \in Running \cup {"stopping"}
  /\ faults < MaxFaults
  /\ phase' = [phase EXCEPT ![g] = "killed"]
  /\ supLock' = Nobody
  /\ faults' = faults + 1
  /\ UNCHANGED <<schedulerVars, child>>

KillAlone(g) ==
  /\ faults < MaxFaults
  /\ faults' = faults + 1
  /\ KillScheduler(g)
  /\ UNCHANGED <<phase, child, supLock>>

ChildDies(g, n) ==
  /\ child[g][n] = "up"
  /\ faults < MaxFaults
  /\ faults' = faults + 1
  /\ child' = [child EXCEPT ![g][n] = "dead"]
  /\ UNCHANGED <<schedulerVars, phase, supLock>>

StartStep(g) ==
  \/ Probe(g) \/ AwaitModel(g) \/ Warmup(g) \/ AwaitWeb(g) \/ LaunchScheduler(g)

EndStep(g) == Poll(g) \/ StopLast(g) \/ StopRaises(g) \/ Finish(g)

Next ==
  \/ SchedulerStep /\ UNCHANGED supervisor
  \/ \E g \in Generations :
       \/ Acquire(g) \/ StartStep(g) \/ EndStep(g) \/ Interrupt(g) \/ Kill(g) \/ KillAlone(g)
       \/ \E n \in Names \ {"scheduler"} : ChildDies(g, n)

Spec == Init /\ [][Next]_vars

(* The waits of the supervisor are bounded by timeouts, and its loop polls *)
(* every second.                                                           *)
FairSpec == Spec /\ \A g \in Generations : WF_vars(StartStep(g) \/ EndStep(g))

-----------------------------------------------------------------------------
(* "On closing it reclaims the child processes it started": a supervisor   *)
(* that has ended by itself leaves no child behind, nor a stage of its     *)
(* scheduler, unless the scheduler had been killed before.  A stop that    *)
(* raises (phase "aborted") is outside it.  The Windows branch of stop     *)
(* keeps it (TreeKill), for a scheduler that ends at any point of a round; *)
(* the other branch does not, although the README promises it for Linux    *)
(* and macOS too: there the stage of a stopped scheduler works on.         *)
ChildrenReclaimed ==
  \A g \in Generations : phase[g] = "down" =>
    /\ Up(g) = {}
    /\ sched[g].pc # "killed" => StagesOf(g) = {}

(* The children are stopped in the reverse of the order in which they were *)
(* started: a scheduler that works still has its model, web application    *)
(* and tunnel, as far as they are the supervisor's to stop, at whatever    *)
(* phase of the start or of the end it was interrupted or a stop raised.   *)
ServicesOutliveScheduler ==
  \A g \in Generations : sched[g].pc \in Live =>
    \A n \in Names \ {"scheduler"} : child[g][n] # "stopped"

(* The system is up as a whole or ends as a whole: a child that ends, also *)
(* one that never came up, takes the supervisor and its other children     *)
(* with it.                                                                *)
EndsTogether ==
  \A g \in Generations :
    (phase[g] \in Running /\ \E n \in Names : ConditionOf(g, n) = "dead")
      ~> (\/ phase[g] \in {"aborted", "killed"}
          \/ phase[g] = "down" /\ Up(g) = {})
=============================================================================
