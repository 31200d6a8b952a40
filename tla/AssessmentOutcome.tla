-------------------------- MODULE AssessmentOutcome --------------------------
(***************************************************************************)
(* What the assessment tables promise to their readers: every job gets at  *)
(* most one outcome; a target gets one of its own only after its content   *)
(* is complete; a failed content is announced in the very step that fails  *)
(* it.  Attempts, retries, deadlines and waiting are invisible here.       *)
(***************************************************************************)
CONSTANTS Contents,  \* content assessments
          Targets,   \* target-impact assessments
          ContentOf  \* the content each target depends on

VARIABLES outcome,   \* per job: "absent", "open", "complete", "failed" or "blocked"
          announced  \* the contents whose failure is announced

outcomeVars == <<outcome, announced>>

Jobs == Contents \cup Targets
OpenTargets(c) == {t \in Targets : ContentOf[t] = c /\ outcome[t] = "open"}

Init ==
  /\ outcome = [j \in Jobs |-> "absent"]
  /\ announced = {}

Open(j) ==
  /\ outcome[j] = "absent"
  /\ outcome' = [outcome EXCEPT ![j] = "open"]
  /\ UNCHANGED announced

(* A target that is created for a failed content is blocked from the start. *)
Block(S) ==
  /\ S # {}
  /\ \A t \in S : outcome[t] \in {"absent", "open"} /\ outcome[ContentOf[t]] = "failed"
  /\ outcome' = [j \in Jobs |-> IF j \in S THEN "blocked" ELSE outcome[j]]
  /\ UNCHANGED announced

Decide(j, verdict) ==
  /\ outcome[j] = "open"
  /\ j \in Targets => outcome[ContentOf[j]] = "complete"
  /\ outcome' = [outcome EXCEPT ![j] = verdict]
  /\ UNCHANGED announced

(* The cascade: the open targets of a failed content go with it.           *)
Cascade(c, S) ==
  /\ outcome[c] = "open"
  /\ S \subseteq OpenTargets(c)
  /\ outcome' = [j \in Jobs |-> IF j = c THEN "failed"
                                ELSE IF j \in S THEN "blocked" ELSE outcome[j]]
  /\ announced' = announced \cup {c}

Next ==
  \/ \E j \in Jobs : Open(j) \/ Decide(j, "complete")
  \/ \E t \in Targets : Decide(t, "failed")
  \/ \E S \in SUBSET Targets : Block(S)
  \/ \E c \in Contents, S \in SUBSET Targets : Cascade(c, S)

Spec == Init /\ [][Next]_outcomeVars
=============================================================================
