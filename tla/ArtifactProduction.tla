------------------------- MODULE ArtifactProduction -------------------------
(***************************************************************************)
(* The zero-GPU producer beside the assessments: ticks of the scheduler    *)
(* script turn pending outbox rows into artifacts.  A row is either the    *)
(* terminal cascade of a content or a sealed event delta that invalidates  *)
(* an analysis.  Each item of a batch is produced in a savepoint of its    *)
(* own, which commits when it is released; an item that fails is rolled    *)
(* back alone and stays pending.                                           *)
(***************************************************************************)
EXTENDS Assessment

CONSTANTS
  Producers, \* processes running the scheduler script
  Deltas,    \* event_delta_artifact identities
  Poison,    \* deltas whose production always raises: they have analyses to
             \* invalidate and no verified material event that is later
  Limit,     \* zero_gpu_limit, the size of a batch
  MaxMishaps \* bound on the ticks that are killed and the items that raise for once

Items == Contents \cup Deltas

ASSUME ProductionAssumption ==
  /\ Deltas \cap Jobs = {}
  /\ Poison \subseteq Deltas
  /\ Limit \in Nat \ {0}
  /\ MaxMishaps \in Nat

VARIABLES
  deltabox,   \* EVENT_DELTA_SEALED rows of the outbox
  deltaSince, \* their available_at
  artifact,   \* content_terminal_artifact rows
  superseded, \* deltas whose analyses are superseded
  receipt,    \* single_track_v3_artifact_production_receipt rows
  batch,      \* items each producer has still to process
  mishaps     \* ticks killed, and items that raised for once, so far

production == <<deltabox, deltaSince, artifact, superseded, receipt, batch, mishaps>>
allVars == <<vars, production>>

ProductionInit ==
  /\ Init
  /\ deltabox = [d \in Deltas |-> "absent"]
  /\ deltaSince = [d \in Deltas |-> 0]
  /\ artifact = {} /\ superseded = {} /\ receipt = {}
  /\ batch = [p \in Producers |-> {}]
  /\ mishaps = 0

BoxOf(i) == IF i \in Contents THEN outbox[i] ELSE deltabox[i]
SinceOf(i) == IF i \in Contents THEN since[i] ELSE deltaSince[i]

-----------------------------------------------------------------------------
(* A delta is sealed and its production enqueued in one savepoint.         *)
SealDelta(d) ==
  /\ deltabox[d] = "absent"
  /\ deltabox' = [deltabox EXCEPT ![d] = "pending"]
  /\ deltaSince' = [deltaSince EXCEPT ![d] = now]
  /\ UNCHANGED <<vars, artifact, superseded, receipt, batch, mishaps>>

PendingAt(observed) == {i \in Items : BoxOf(i) = "pending" /\ SinceOf(i) <= observed}

(* The oldest Limit rows.  The items of a batch are independent of each    *)
(* other, so the order inside it is left open.                             *)
Oldest(pending) ==
  {S \in SUBSET pending :
     /\ Cardinality(S) <= Limit
     /\ S # pending => Cardinality(S) = Limit
     /\ \A i \in S, k \in pending \ S : SinceOf(i) <= SinceOf(k)}

StartTick(p) ==
  /\ batch[p] = {}
  /\ \E S \in Oldest(PendingAt(now)) \ {{}} : batch' = [batch EXCEPT ![p] = S]
  /\ UNCHANGED <<vars, deltabox, deltaSince, artifact, superseded, receipt, mishaps>>

Leave(p, i) == batch' = [batch EXCEPT ![p] = @ \ {i}]

(* A payload is produced only while it agrees with the durable state.      *)
MayProduce(i) ==
  /\ BoxOf(i) = "pending"
  /\ i \notin receipt
  /\ i \in Contents => job[i].status = "failed_terminal"
  /\ i \notin Poison

(* An exception on a row that could be produced, counted as a mishap.      *)
Raises(i) ==
  IF MayProduce(i) THEN mishaps < MaxMishaps /\ mishaps' = mishaps + 1
  ELSE UNCHANGED mishaps

Produce(p, i) ==
  /\ i \in batch[p]
  /\ MayProduce(i)
  /\ receipt' = receipt \cup {i}
  /\ IF i \in Contents
     THEN /\ artifact' = artifact \cup {i}
          /\ outbox' = [outbox EXCEPT ![i] = "delivered"]
          /\ UNCHANGED <<deltabox, superseded>>
     ELSE /\ superseded' = superseded \cup {i}
          /\ deltabox' = [deltabox EXCEPT ![i] = "delivered"]
          /\ UNCHANGED <<outbox, artifact>>
  /\ Leave(p, i)
  /\ UNCHANGED <<now, records, reading, since, deltaSince, mishaps>>

PassOverForGood(p, i) ==
  /\ i \in batch[p]
  /\ Raises(i)
  /\ receipt' = receipt \cup {i}
  /\ Leave(p, i)
  /\ UNCHANGED <<vars, deltabox, deltaSince, artifact, superseded>>

PassOverTheRest(p, i) ==
  /\ i \in batch[p]
  /\ Raises(i)
  /\ batch' = [batch EXCEPT ![p] = {}]
  /\ UNCHANGED <<vars, deltabox, deltaSince, artifact, superseded, receipt>>

(* A replayed receipt, a lost compare-and-swap and an exception, of a row  *)
(* that can never be produced or of any row for once, leave the tables as  *)
(* they are; the loop goes on with the next item.                          *)
PassOver(p, i) ==
  /\ i \in batch[p]
  /\ Raises(i)
  /\ Leave(p, i)
  /\ UNCHANGED <<vars, deltabox, deltaSince, artifact, superseded, receipt>>

(* The task is ended by its time limit, or the machine goes down.          *)
KillTick(p) ==
  /\ batch[p] # {}
  /\ mishaps < MaxMishaps
  /\ batch' = [batch EXCEPT ![p] = {}]
  /\ mishaps' = mishaps + 1
  /\ UNCHANGED <<vars, deltabox, deltaSince, artifact, superseded, receipt>>

TickStep(p) == StartTick(p) \/ \E i \in Items : Produce(p, i) \/ PassOver(p, i)

ProductionNext ==
  \/ Next /\ UNCHANGED production
  \/ \E d \in Deltas : SealDelta(d)
  \/ \E p \in Producers : TickStep(p) \/ KillTick(p)

ProductionSpec == ProductionInit /\ [][ProductionNext]_allVars

(* The task is registered to run every fifteen minutes and at startup, and *)
(* a tick that gets to the production goes through its batch.  One whose   *)
(* preflight or schedule raises never gets there and rolls back: fairness  *)
(* is about installations where some ticks do, again and again.            *)
FairProduction == ProductionSpec /\ \A p \in Producers : WF_batch(TickStep(p))

-----------------------------------------------------------------------------
(* An outbox row is delivered together with its receipt and its product,   *)
(* once: neither a killed tick nor two ticks over one batch leave a        *)
(* product without a receipt, or a receipt of a row that is still pending; *)
(* and nothing is produced for a content that did not fail.                *)
DeliveredOnce ==
  /\ \A i \in Items : BoxOf(i) = "delivered" <=> i \in receipt
  /\ receipt = artifact \cup superseded
  /\ \A c \in artifact : job[c].status = "failed_terminal"

(* Every announced failure becomes an artifact, beside deltas whose        *)
(* production raises on every tick, as long as they do not fill a batch,   *)
(* and although its own production may raise before it succeeds.           *)
EveryCascadeProduced ==
  \A c \in Contents : outbox[c] = "pending" ~> outbox[c] = "delivered"
=============================================================================
