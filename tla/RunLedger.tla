------------------------------ MODULE RunLedger ------------------------------
(***************************************************************************)
(* What the retrieval worker promises to everyone who reads its tables: a  *)
(* run that was declared open gets one verdict, in one step, together with *)
(* one outbox announcement and one receipt that all say the same.  Leases, *)
(* heartbeats, retries and crashes are invisible at this level.            *)
(***************************************************************************)
CONSTANTS Runs,      \* the durable retrieval runs
          Verdicts   \* the statuses a worker may seal a run with

VARIABLES verdict,   \* per run: "open", "skipped" or a member of Verdicts
          announced, \* the terminal outbox rows, as <<run, status>>
          sealed     \* the terminal receipts, as <<run, status>>

ledgerVars == <<verdict, announced, sealed>>

Init ==
  /\ verdict \in [Runs -> {"open", "skipped"}]
  /\ announced = {}
  /\ sealed = {}

Seal(r, v) ==
  /\ verdict[r] = "open"
  /\ verdict' = [verdict EXCEPT ![r] = v]
  /\ announced' = announced \cup {<<r, v>>}
  /\ sealed' = sealed \cup {<<r, v>>}

Next == \E r \in Runs, v \in Verdicts : Seal(r, v)

Spec == Init /\ [][Next]_ledgerVars
=============================================================================
