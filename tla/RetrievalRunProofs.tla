------------------------- MODULE RetrievalRunProofs -------------------------
(***************************************************************************)
(* Machine-checked proofs about RetrievalRun, for every number of workers, *)
(* runs, items and calls and every choice of cutoffs and durations.        *)
(***************************************************************************)
EXTENDS RetrievalRun, TLAPS

(* The placeholder an idle worker points at is a run.                      *)
LEMMA SomeRunIsRun == SomeRun \in Runs
BY RetrievalAssumption DEF SomeRun

(* A verdict is a terminal status, whatever the calls returned.            *)
LEMMA VerdictIsTerminal == \A w : VerdictOf(w) \in Verdicts
BY DEF VerdictOf, Verdicts

(* The locals of a call that returned are well typed.                      *)
LEMMA ReturnType ==
  ASSUME TypeOK, NEW w \in Workers, Return(w)
  PROVE  /\ pc' \in [Workers -> {"idle", "claiming"} \cup Working]
         /\ job' \in [Workers -> Runs]
         /\ token' \in [Workers -> Tokens \cup {NoToken}]
         /\ seen' \in [Workers -> Nat]
         /\ left' \in [Workers -> Nat]
         /\ tally' \in [Workers -> SUBSET {"ok", "failed"}]
         /\ found' \in [Workers -> [Items -> Nat \cup {NotFound}]]
<1>1. NothingFound \in [Items -> Nat \cup {NotFound}]
  BY DEF NothingFound
<1>2. QED
  BY <1>1, SomeRunIsRun DEF TypeOK, Return

(* The lease rows a worker writes are well typed.                          *)
LEMMA LeaseRowType ==
  ASSUME TypeOK, NEW w \in Workers
  PROVE  ActiveLease(w) \in LeaseRow /\ ReleasedLease(w) \in LeaseRow
BY RetrievalAssumption DEF TypeOK, ActiveLease, ReleasedLease, LeaseRow

(* The news items stay well typed through a merge and a prune.             *)
LEMMA SealedItemType ==
  ASSUME TypeOK, NEW w \in Workers, NEW i \in Items
  PROVE  Pruned(w, MergedItem(w, i)) \in ItemRow
<1>1. MergedItem(w, i) \in ItemRow
  BY DEF TypeOK, MergedItem, Candidates, NotFound, ItemRow
<1>2. QED
  BY <1>1 DEF Pruned, ItemRow, TypeOK

-----------------------------------------------------------------------------
(* Every step keeps the variables in their types.                          *)
LEMMA TypeStep == TypeOK /\ [Next]_vars => TypeOK'
<1> SUFFICES ASSUME TypeOK, [Next]_vars PROVE TypeOK'
  OBVIOUS
<1> USE RetrievalAssumption
<1>1. CASE Tick
  BY <1>1 DEF TypeOK, Tick, durable, local
<1>2. ASSUME NEW w \in Workers, NEW r \in Runs, Begin(w, r) PROVE TypeOK'
  <2>1. token' \in [Workers -> Tokens \cup {NoToken}]
    BY <1>2 DEF TypeOK, Begin, FreshTokens
  <2>2. QED
    BY <1>2, <2>1 DEF TypeOK, Begin, durable
<1>3. ASSUME NEW w \in Workers, ClaimRefused(w) PROVE TypeOK'
  BY <1>3, ReturnType DEF TypeOK, ClaimRefused, durable
<1>4. ASSUME NEW w \in Workers, ClaimTooLate(w) PROVE TypeOK'
  BY <1>4, ReturnType, LeaseRowType DEF TypeOK, ClaimTooLate
<1>5. ASSUME NEW w \in Workers, ClaimWon(w) PROVE TypeOK'
  <2>1. lease' \in [Runs -> LeaseRow]
    BY <1>5, LeaseRowType DEF TypeOK, ClaimWon
  <2>2. run' \in [Runs -> RunRow]
    <3>1. [status |-> "running", completed |-> run[job[w]].completed] \in RunRow
      BY DEF TypeOK, RunRow, OpenStates
    <3>2. QED
      BY <1>5, <3>1 DEF TypeOK, ClaimWon
  <2>3. /\ pc' \in [Workers -> {"idle", "claiming"} \cup Working]
        /\ left' \in [Workers -> Nat]
        /\ orphaned' \subseteq Runs
    BY <1>5 DEF TypeOK, ClaimWon, Working
  <2>4. QED
    BY <1>5, <2>1, <2>2, <2>3 DEF TypeOK, ClaimWon
<1>6. ASSUME NEW w \in Workers, ClaimRaises(w) PROVE TypeOK'
  BY <1>6, ReturnType DEF TypeOK, ClaimRaises, durable
<1>7. ASSUME NEW w \in Workers, Fetch(w) PROVE TypeOK'
  <2>1. /\ tally' \in [Workers -> SUBSET {"ok", "failed"}]
        /\ found' \in [Workers -> [Items -> Nat \cup {NotFound}]]
    <3>1. PICK outcome \in SUBSET {"ok", "failed"} \ {{}}, news \in SUBSET Items :
            /\ tally' = [tally EXCEPT ![w] = @ \cup outcome]
            /\ found' = [found EXCEPT ![w] =
                           [i \in Items |-> IF i \in news /\ @[i] = NotFound
                                            THEN now ELSE @[i]]]
      BY <1>7 DEF Fetch, AdapterResults
    <3>2. [i \in Items |-> IF i \in news /\ found[w][i] = NotFound
                           THEN now ELSE found[w][i]] \in [Items -> Nat \cup {NotFound}]
      BY DEF TypeOK
    <3>3. QED
      BY <3>1, <3>2 DEF TypeOK
  <2>2. /\ left[w] > 0 /\ left' = [left EXCEPT ![w] = @ - 1]
        /\ seen' = [seen EXCEPT ![w] = now]
        /\ pc' = [pc EXCEPT ![w] = "beating"]
        /\ UNCHANGED <<now, durable, job, token, orphaned>>
    BY <1>7 DEF Fetch
  <2>3. QED
    BY <2>1, <2>2 DEF TypeOK, Working, durable
<1>8. ASSUME NEW w \in Workers, Heartbeat(w) PROVE TypeOK'
  <2>1. ActiveLease(w) \in LeaseRow
    BY LeaseRowType
  <2>2. lease' = [lease EXCEPT ![job[w]] = ActiveLease(w)] \/ lease' = lease
    BY <1>8 DEF Heartbeat
  <2>3. lease' \in [Runs -> LeaseRow]
    BY <2>1, <2>2 DEF TypeOK
  <2>4. QED
    BY <1>8, <2>3 DEF TypeOK, Heartbeat, Working
<1>9. ASSUME NEW w \in Workers, Finish(w) PROVE TypeOK'
  BY <1>9 DEF TypeOK, Finish, Working, durable
<1>10. ASSUME NEW w \in Workers, Seal(w) PROVE TypeOK'
  <2>1. item' \in [Items -> ItemRow]
    BY <1>10, SealedItemType DEF Seal
  <2>2. link' \subseteq (Runs \X Items)
    BY <1>10 DEF TypeOK, Seal, Links, Candidates
  <2>3. /\ [status |-> VerdictOf(w), completed |-> seen[w]] \in RunRow
        /\ [run |-> job[w], status |-> VerdictOf(w)] \in OutboxRow
        /\ [run |-> job[w], status |-> VerdictOf(w),
            completed |-> seen[w], items |-> Candidates(w)] \in ReceiptRow
    BY VerdictIsTerminal DEF TypeOK, RunRow, OutboxRow, ReceiptRow, Candidates
  <2>4. /\ run' \in [Runs -> RunRow]
        /\ outbox' \subseteq OutboxRow
        /\ receipt' \subseteq ReceiptRow
    BY <1>10, <2>3 DEF TypeOK, Seal
  <2>5. lease' \in [Runs -> LeaseRow]
    BY <1>10, LeaseRowType DEF TypeOK, Seal
  <2>6. Return(w) /\ UNCHANGED <<now, orphaned>>
    BY <1>10 DEF Seal
  <2>7. QED
    BY <2>1, <2>2, <2>3, <2>4, <2>5, <2>6, ReturnType DEF TypeOK
<1>11. ASSUME NEW w \in Workers, Raise(w) PROVE TypeOK'
  BY <1>11 DEF TypeOK, Raise, Working, durable
<1>12. ASSUME NEW w \in Workers, Abort(w) PROVE TypeOK'
  <2>1. lease' \in [Runs -> LeaseRow]
    <3>1. [state |-> "released", token |-> token[w], expires |-> now] \in LeaseRow
      BY DEF TypeOK, LeaseRow
    <3>2. QED
      BY <1>12, <3>1 DEF TypeOK, Abort
  <2>2. Return(w) /\ UNCHANGED <<now, run, item, outbox, receipt, link, orphaned>>
    BY <1>12 DEF Abort
  <2>3. QED
    BY <2>1, <2>2, ReturnType DEF TypeOK
<1>13. ASSUME NEW w \in Workers, Die(w) PROVE TypeOK'
  BY <1>13, ReturnType DEF TypeOK, Die, durable
<1>14. CASE UNCHANGED vars
  BY <1>14 DEF TypeOK, vars, durable, local
<1>15. QED
  BY <1>1, <1>2, <1>3, <1>4, <1>5, <1>6, <1>7, <1>8, <1>9, <1>10, <1>11, <1>12,
     <1>13, <1>14 DEF Next, Step

(* The types of the variables, from the declared tables on.                *)
THEOREM TypeCorrect == Spec => []TypeOK
<1>1. Init => TypeOK
  <2> SUFFICES ASSUME Init PROVE TypeOK
    OBVIOUS
  <2>1. NothingFound \in [Items -> Nat \cup {NotFound}]
    BY DEF NothingFound
  <2>2. run \in [Runs -> RunRow]
    BY DEF Init, OpenStates, RunRow
  <2>3. QED
    BY <2>1, <2>2, SomeRunIsRun DEF Init, TypeOK, NoLease, UnknownItem, LeaseRow, ItemRow
<1>2. QED
  BY <1>1, TypeStep, PTL DEF Spec

-----------------------------------------------------------------------------
(* A seal is the only step that changes a verdict, the outbox, the         *)
(* receipts, the items or the links; a claim may start a queued run.       *)
LEMMA OnlySealWrites ==
  ASSUME TypeOK, [Next]_vars
  PROVE  \/ \E w \in Workers : Seal(w)
         \/ /\ UNCHANGED <<outbox, receipt, item, link>>
            /\ \A r \in Runs : \/ run'[r] = run[r]
                               \/ /\ run[r].status \in OpenStates
                                  /\ run'[r].status = "running"
<1>1. ASSUME NEW w \in Workers, ClaimWon(w)
      PROVE  \A r \in Runs : \/ run'[r] = run[r]
                             \/ /\ run[r].status \in OpenStates
                                /\ run'[r].status = "running"
  BY <1>1 DEF TypeOK, ClaimWon, StillOpen
<1>2. QED
  BY <1>1 DEF Next, Step, Tick, Begin, ClaimRefused, ClaimTooLate, ClaimWon, ClaimRaises,
     Fetch, Heartbeat, Finish, Raise, Abort, Die, vars, durable, local

(* What a committed terminal savepoint does to the run tables.             *)
LEMMA SealWrites ==
  ASSUME TypeOK, NEW w \in Workers, Seal(w)
  PROVE  /\ job[w] \in Runs
         /\ run[job[w]].status = "running"
         /\ run' = [run EXCEPT ![job[w]] = [status |-> VerdictOf(w), completed |-> seen[w]]]
         /\ outbox' = outbox \cup {[run |-> job[w], status |-> VerdictOf(w)]}
         /\ receipt' = receipt \cup {[run |-> job[w], status |-> VerdictOf(w),
                                      completed |-> seen[w], items |-> Candidates(w)]}
BY DEF TypeOK, Seal, MaySeal, Links

(* Open states and verdicts are different statuses.                        *)
LEMMA VerdictsAreNotOpen == \A v \in Verdicts : v \notin OpenStates /\ v # "skipped"
BY DEF Verdicts, OpenStates

(* SealedOnce is inductive once the types are known: a run sealed before   *)
(* is not "running", so the compare-and-swap of a second seal fails.       *)
LEMMA SealedOnceStep == TypeOK /\ SealedOnce /\ [Next]_vars => SealedOnce'
<1> SUFFICES ASSUME TypeOK, SealedOnce, [Next]_vars PROVE SealedOnce'
  OBVIOUS
<1>1. ASSUME NEW w \in Workers, Seal(w) PROVE SealedOnce'
  <2>1. PICK r0 \in Runs, v \in Verdicts, new \in ReceiptRow :
             /\ run[r0].status = "running"
             /\ new.run = r0 /\ new.status = v
             /\ run' = [run EXCEPT ![r0] = [status |-> v, completed |-> new.completed]]
             /\ outbox' = outbox \cup {[run |-> r0, status |-> v]}
             /\ receipt' = receipt \cup {new}
    <3> DEFINE rc0 == [run |-> job[w], status |-> VerdictOf(w),
                       completed |-> seen[w], items |-> Candidates(w)]
    <3>1. rc0.run = job[w] /\ rc0.status = VerdictOf(w) /\ rc0.completed = seen[w]
      OBVIOUS
    <3>2. /\ job[w] \in Runs /\ VerdictOf(w) \in Verdicts
          /\ run[job[w]].status = "running"
          /\ run' = [run EXCEPT ![job[w]] = [status |-> VerdictOf(w), completed |-> seen[w]]]
          /\ outbox' = outbox \cup {[run |-> job[w], status |-> VerdictOf(w)]}
          /\ receipt' = receipt \cup {rc0}
      BY <1>1, SealWrites, VerdictIsTerminal
    <3>3. rc0 \in ReceiptRow
      BY <3>2 DEF TypeOK, ReceiptRow, Candidates
    <3> HIDE DEF rc0
    <3>4. QED
      BY <3>1, <3>2, <3>3
  <2>2. \A rc \in receipt : rc.run \in Runs /\ rc.run # r0
    <3>1. "running" \notin Verdicts
      BY DEF Verdicts
    <3>2. QED
      BY <2>1, <3>1 DEF SealedOnce, TypeOK, ReceiptRow
  <2>3. \A r \in Runs : r # r0 => run'[r] = run[r]
    BY <2>1 DEF TypeOK
  <2>4. run'[r0] = [status |-> v, completed |-> new.completed]
    BY <2>1 DEF TypeOK
  <2>5. ASSUME NEW r \in Runs
        PROVE  run'[r].status \in Verdicts <=> \E rc \in receipt' : rc.run = r
    <3>1. CASE r = r0
      BY <3>1, <2>1, <2>4
    <3>2. CASE r # r0
      <4>1. run[r].status \in Verdicts <=> \E rc \in receipt : rc.run = r
        BY DEF SealedOnce
      <4>2. QED
        BY <3>2, <4>1, <2>1, <2>3
    <3>3. QED
      BY <3>1, <3>2
  <2>6. outbox' = {[run |-> rc.run, status |-> rc.status] : rc \in receipt'}
    <3>1. outbox = {[run |-> rc.run, status |-> rc.status] : rc \in receipt}
      BY DEF SealedOnce
    <3>2. QED
      BY <3>1, <2>1
  <2>7. ASSUME NEW rc \in receipt'
        PROVE  run'[rc.run] = [status |-> rc.status, completed |-> rc.completed]
    <3>1. CASE rc = new
      BY <3>1, <2>1, <2>4
    <3>2. CASE rc \in receipt
      <4>1. run[rc.run] = [status |-> rc.status, completed |-> rc.completed]
        BY <3>2 DEF SealedOnce
      <4>2. QED
        BY <3>2, <4>1, <2>2, <2>3
    <3>3. QED
      BY <3>1, <3>2, <2>1
  <2>8. ASSUME NEW rc1 \in receipt', NEW rc2 \in receipt', rc1.run = rc2.run
        PROVE  rc1 = rc2
    <3>1. \A a, b \in receipt : a.run = b.run => a = b
      BY DEF SealedOnce
    <3>2. QED
      BY <2>1, <2>2, <2>8, <3>1
  <2>9. QED
    BY <2>5, <2>6, <2>7, <2>8 DEF SealedOnce
<1>2. ASSUME UNCHANGED <<outbox, receipt, item, link>>,
             \A r \in Runs : \/ run'[r] = run[r]
                             \/ /\ run[r].status \in OpenStates
                                /\ run'[r].status = "running"
      PROVE  SealedOnce'
  <2>1. \A r \in Runs : run'[r].status \in Verdicts <=> run[r].status \in Verdicts
    BY <1>2, VerdictsAreNotOpen DEF OpenStates, Verdicts
  <2>2. \A rc \in receipt : rc.run \in Runs /\ run'[rc.run] = run[rc.run]
    BY <1>2, VerdictsAreNotOpen DEF SealedOnce, TypeOK, ReceiptRow
  <2>3. QED
    BY <1>2, <2>1, <2>2 DEF SealedOnce
<1>3. QED
  BY <1>1, <1>2, OnlySealWrites

(* Every run has at most one verdict, one outbox row and one receipt, they *)
(* agree, and they appear together, whatever crashes and takeovers happen. *)
THEOREM SealedOnceAlways == Spec => []SealedOnce
<1>1. Init => SealedOnce
  BY DEF Init, SealedOnce, Verdicts
<1>2. QED
  BY <1>1, TypeCorrect, SealedOnceStep, PTL DEF Spec

-----------------------------------------------------------------------------
(* How a step can touch a lease row: a free lease is claimed or returned   *)
(* by the claiming worker, or the holder renews or releases its own.       *)
LEMMA LeaseStep ==
  ASSUME TypeOK, [Next]_vars, NEW r \in Runs, lease'[r] # lease[r]
  PROVE  \E w \in Workers :
           /\ job[w] = r
           /\ \/ /\ MayAcquire(w, r)
                 /\ ClaimTooLate(w) \/ ClaimWon(w)
              \/ /\ HoldsLease(w, r)
                 /\ \/ Heartbeat(w) /\ lease'[r] = ActiveLease(w) /\ UNCHANGED run
                    \/ Seal(w) /\ lease'[r] = ReleasedLease(w)
                    \/ /\ Abort(w) /\ UNCHANGED run
                       /\ lease'[r] = [state |-> "released", token |-> token[w],
                                       expires |-> now]
<1>1. PICK w \in Workers : ClaimTooLate(w) \/ ClaimWon(w) \/ Heartbeat(w) \/ Seal(w) \/ Abort(w)
  BY DEF Next, Step, Tick, Begin, ClaimRefused, ClaimRaises, Fetch, Finish, Raise, Die,
     vars, durable, local
<1>2. CASE ClaimTooLate(w) \/ ClaimWon(w)
  BY <1>2 DEF TypeOK, ClaimTooLate, ClaimWon
<1>3. CASE Heartbeat(w)
  BY <1>3 DEF TypeOK, Heartbeat, MayRenew
<1>4. CASE Seal(w)
  BY <1>4 DEF TypeOK, Seal, MaySeal
<1>5. CASE Abort(w)
  BY <1>5 DEF TypeOK, Abort
<1>6. QED
  BY <1>1, <1>2, <1>3, <1>4, <1>5

(* A worker's clock reading is never ahead of the clock, and neither is    *)
(* the time at which it retrieved an item.                                 *)
ClockInv ==
  \A w \in Workers : /\ seen[w] <= now
                     /\ \A i \in Items : found[w][i] <= seen[w]

LEMMA ClockStep == TypeOK /\ ClockInv /\ [Next]_vars => ClockInv'
<1> SUFFICES ASSUME TypeOK, ClockInv, [Next]_vars PROVE ClockInv'
  OBVIOUS
<1>1. ASSUME NEW w \in Workers, Return(w), now' = now PROVE ClockInv'
  BY <1>1 DEF TypeOK, ClockInv, Return, NothingFound, NotFound
<1>2. ASSUME NEW w \in Workers, Fetch(w) PROVE ClockInv'
  <2>1. PICK outcome \in SUBSET {"ok", "failed"} \ {{}}, news \in SUBSET Items :
          found' = [found EXCEPT ![w] =
                      [i \in Items |-> IF i \in news /\ @[i] = NotFound
                                       THEN now ELSE @[i]]]
    BY <1>2 DEF Fetch, AdapterResults
  <2>2. ASSUME NEW i \in Items PROVE found'[w][i] <= now
    BY <2>1 DEF TypeOK, ClockInv, NotFound
  <2>3. seen' = [seen EXCEPT ![w] = now] /\ now' = now
    BY <1>2 DEF Fetch
  <2>4. \A v \in Workers : v # w => found'[v] = found[v] /\ seen'[v] = seen[v]
    BY <2>1, <2>3 DEF TypeOK
  <2>5. seen'[w] = now
    BY <2>3 DEF TypeOK
  <2>6. now <= now
    BY DEF TypeOK
  <2>7. QED
    BY <2>2, <2>3, <2>4, <2>5, <2>6 DEF ClockInv
<1>3. ASSUME NEW w \in Workers, seen' = [seen EXCEPT ![w] = now], UNCHANGED <<now, found>>
      PROVE  ClockInv'
  BY <1>3 DEF TypeOK, ClockInv, NotFound
<1>4. ASSUME now' = now \/ now' = now + 1, UNCHANGED <<seen, found>> PROVE ClockInv'
  BY <1>4 DEF TypeOK, ClockInv
<1>5. QED
  BY <1>1, <1>2, <1>3, <1>4
  DEF Next, Step, Tick, Begin, ClaimRefused, ClaimTooLate, ClaimWon, ClaimRaises,
      Heartbeat, Finish, Seal, Raise, Abort, Die, vars, durable, local

LEMMA ClockInit == Init => ClockInv
BY DEF Init, ClockInv, NothingFound, NotFound

(* A live lease is never given to another token.                           *)
THEOREM NoStolenLeaseAlways == Spec => NoStolenLease
<1>1. ASSUME TypeOK, ClockInv, [Next]_vars, NEW r \in Runs,
             lease[r].state = "active", lease[r].expires > now
      PROVE  lease'[r].token = lease[r].token
  <2>1. \A w \in Workers : ~MayAcquire(w, r)
    BY <1>1 DEF MayAcquire, ClockInv, TypeOK, LeaseRow
  <2>2. CASE lease'[r] # lease[r]
    <3>1. PICK w \in Workers :
            /\ HoldsLease(w, r)
            /\ \/ lease'[r] = ActiveLease(w)
               \/ lease'[r] = ReleasedLease(w)
               \/ lease'[r] = [state |-> "released", token |-> token[w], expires |-> now]
      BY <1>1, <2>1, <2>2, LeaseStep
    <3>2. lease'[r].token = token[w]
      BY <3>1 DEF ActiveLease, ReleasedLease
    <3>3. QED
      BY <3>1, <3>2 DEF HoldsLease
  <2>3. QED
    BY <2>2
<1>2. TypeOK /\ ClockInv /\ [Next]_vars =>
        [\A r \in Runs : lease[r].state = "active" /\ lease[r].expires > now
                         => lease'[r].token = lease[r].token]_vars
  BY <1>1
<1>3. QED
  BY <1>2, TypeCorrect, ClockInit, ClockStep, PTL DEF Spec, NoStolenLease

(* A worker that lost its lease changes none of the shared tables.         *)
THEOREM StaleWorkerWritesNothingAlways == Spec => StaleWorkerWritesNothing
<1>1. ASSUME TypeOK, [Next]_vars, NEW w \in Workers,
             pc[w] \in Working, pc'[w] # pc[w], ~HoldsLease(w, job[w])
      PROVE  UNCHANGED durable
  <2>1. \/ Fetch(w) \/ Heartbeat(w) \/ Finish(w) \/ Seal(w) \/ Raise(w) \/ Abort(w) \/ Die(w)
    <3>1. ASSUME NEW v \in Workers, Step(v) \/ Die(v) \/ \E r \in Runs : Begin(v, r)
          PROVE  v = w
      BY <1>1, <3>1 DEF TypeOK, Step, Begin, ClaimRefused, ClaimTooLate, ClaimWon, ClaimRaises,
         Fetch, Heartbeat, Finish, Seal, Raise, Abort, Die, Return
    <3>2. QED
      BY <1>1, <3>1 DEF Next, Step, Tick, Begin, ClaimRefused, ClaimTooLate, ClaimWon,
         ClaimRaises, Working, vars, local
  <2>2. QED
    BY <1>1, <2>1 DEF Fetch, Heartbeat, MayRenew, Finish, Seal, MaySeal, Raise, Abort, Die, durable
<1>2. TypeOK /\ [Next]_vars =>
        [\A w \in Workers : pc[w] \in Working /\ pc'[w] # pc[w] /\ ~HoldsLease(w, job[w])
                            => UNCHANGED durable]_vars
  BY <1>1
<1>3. QED
  BY <1>2, TypeCorrect, PTL DEF Spec, StaleWorkerWritesNothing

-----------------------------------------------------------------------------
LEMMA TerminalStep == TypeOK /\ TerminalRunIsFree /\ [Next]_vars => TerminalRunIsFree'
<1> SUFFICES ASSUME TypeOK, TerminalRunIsFree, [Next]_vars,
                    NEW r \in Runs, run'[r].status \notin OpenStates
             PROVE  lease'[r].state # "active"
  BY DEF TerminalRunIsFree
<1>1. CASE lease'[r] # lease[r]
  <2>1. PICK w \in Workers :
          /\ job[w] = r
          /\ \/ ClaimTooLate(w)
             \/ ClaimWon(w)
             \/ HoldsLease(w, r) /\ UNCHANGED run
             \/ lease'[r] = ReleasedLease(w)
             \/ lease'[r] = [state |-> "released", token |-> token[w], expires |-> now]
    BY <1>1, LeaseStep
  <2>2. CASE ClaimTooLate(w)
    BY <2>1, <2>2 DEF TypeOK, ClaimTooLate, ReleasedLease
  <2>3. CASE ClaimWon(w)
    BY <2>1, <2>3 DEF TypeOK, ClaimWon, OpenStates
  <2>4. CASE HoldsLease(w, r) /\ UNCHANGED run
    BY <2>4 DEF HoldsLease, TerminalRunIsFree
  <2>5. QED
    BY <2>1, <2>2, <2>3, <2>4 DEF ReleasedLease
<1>2. CASE lease'[r] = lease[r]
  <2>1. CASE run'[r] = run[r]
    BY <1>2, <2>1 DEF TerminalRunIsFree
  <2>2. CASE \E w \in Workers : Seal(w)
    <3>1. PICK w \in Workers : Seal(w)
      BY <2>2
    <3>2. CASE r = job[w]
      BY <3>1, <3>2 DEF TypeOK, Seal, ReleasedLease
    <3>3. CASE r # job[w]
      BY <3>1, <3>3, <1>2 DEF TypeOK, Seal, TerminalRunIsFree
    <3>4. QED
      BY <3>2, <3>3
  <2>3. QED
    BY <2>1, <2>2, OnlySealWrites DEF OpenStates
<1>3. QED
  BY <1>1, <1>2

(* The lease of a terminal run is never active.                            *)
THEOREM TerminalRunIsFreeAlways == Spec => []TerminalRunIsFree
<1>1. Init => TerminalRunIsFree
  BY DEF Init, TerminalRunIsFree, NoLease
<1>2. QED
  BY <1>1, TypeCorrect, TerminalStep, PTL DEF Spec

-----------------------------------------------------------------------------
(* Merging and pruning keep what is known of an item, and a seal records   *)
(* its candidates at the time this call retrieved them.                    *)
LEMMA SealKeepsKnownItem ==
  ASSUME TypeOK, NEW w \in Workers, Seal(w), NEW i \in Items, item[i].known
  PROVE  /\ item'[i].known
         /\ item'[i].first = item[i].first
         /\ item[i].pruned => item'[i].pruned
<1>1. item'[i] = Pruned(w, item[i])
  BY DEF Seal, MergedItem
<1>2. item'[i].known /\ item'[i].first = item[i].first
  BY <1>1 DEF Pruned
<1>3. ASSUME item[i].pruned PROVE item'[i].pruned
  <2>1. (item[i].pruned \/ (item[i].known /\ item[i].first + Retention <= seen[w])) = TRUE
    BY <1>3
  <2>2. item'[i] = [known |-> item[i].known, first |-> item[i].first, pruned |-> TRUE]
    BY <1>1, <2>1 DEF Pruned
  <2>3. QED
    BY <2>2
<1>4. QED
  BY <1>2, <1>3

LEMMA SealRecordsNewItem ==
  ASSUME TypeOK, NEW w \in Workers, Seal(w), NEW i \in Candidates(w), ~item[i].known
  PROVE  item'[i].known /\ item'[i].first = found[w][i]
<1>1. i \in Items
  BY DEF Candidates
<1>2. item'[i] = Pruned(w, [known |-> TRUE, first |-> found[w][i], pruned |-> FALSE])
  BY <1>1 DEF Seal, MergedItem
<1>3. QED
  BY <1>2 DEF Pruned

(* Pruned content stays pruned and a first retrieval never moves.          *)
THEOREM ContentNeverRestoredAlways == Spec => ContentNeverRestored
<1>1. ASSUME TypeOK, [Next]_vars, NEW i \in Items, item[i].known
      PROVE  /\ item'[i].known
             /\ item'[i].first = item[i].first
             /\ item[i].pruned => item'[i].pruned
  <2>1. CASE \E w \in Workers : Seal(w)
    BY <1>1, <2>1, SealKeepsKnownItem
  <2>2. CASE item' = item
    BY <1>1, <2>2
  <2>3. QED
    BY <1>1, <2>1, <2>2, OnlySealWrites
<1>2. TypeOK /\ [Next]_vars =>
        [\A i \in Items : item[i].known =>
           /\ item'[i].known
           /\ item'[i].first = item[i].first
           /\ item[i].pruned => item'[i].pruned]_vars
  BY <1>1
<1>3. QED
  BY <1>2, TypeCorrect, PTL DEF Spec, ContentNeverRestored

(* NoLookahead is inductive together with the clock invariant: a receipt   *)
(* cites candidates retrieved by its own completed_at, or known ones that  *)
(* Recordable dates no later; afterwards their first retrieval is fixed.   *)
LEMMA NoLookaheadStep == TypeOK /\ ClockInv /\ NoLookahead /\ [Next]_vars => NoLookahead'
<1> SUFFICES ASSUME TypeOK, ClockInv, NoLookahead, [Next]_vars,
                    NEW rc \in receipt', rc.status # "late", NEW i \in rc.items
             PROVE  item'[i].known /\ item'[i].first <= Cutoff[rc.run]
  BY DEF NoLookahead
<1>1. CASE rc \in receipt
  <2>1. i \in Items /\ item[i].known /\ item[i].first <= Cutoff[rc.run]
    BY <1>1 DEF NoLookahead, TypeOK, ReceiptRow
  <2>2. CASE \E w \in Workers : Seal(w)
    BY <2>1, <2>2, SealKeepsKnownItem
  <2>3. CASE item' = item
    BY <2>1, <2>3
  <2>4. QED
    BY <2>2, <2>3, OnlySealWrites
<1>2. CASE rc \notin receipt
  <2>1. PICK w \in Workers : Seal(w)
    BY <1>2, OnlySealWrites
  <2>2. rc = [run |-> job[w], status |-> VerdictOf(w),
              completed |-> seen[w], items |-> Candidates(w)]
    BY <1>2, <2>1, SealWrites
  <2>3. /\ rc.run = job[w] /\ rc.status = VerdictOf(w) /\ rc.items = Candidates(w)
    BY <2>2
  <2>4. i \in Items /\ i \in Candidates(w) /\ found[w][i] <= seen[w]
    BY <2>3 DEF Candidates, ClockInv
  <2>5. seen[w] <= Cutoff[job[w]]
    BY <2>3, RetrievalAssumption DEF VerdictOf, TypeOK
  <2>6. item[i].known => item[i].first <= seen[w]
    BY <2>1, <2>4 DEF Seal, Recordable
  <2>7. item'[i].known /\ item'[i].first <= seen[w]
    <3>1. CASE item[i].known
      BY <2>1, <2>4, <2>6, <3>1, SealKeepsKnownItem
    <3>2. CASE ~item[i].known
      BY <2>1, <2>4, <3>2, SealRecordsNewItem
    <3>3. QED
      BY <3>1, <3>2
  <2>8. item'[i].first \in Nat
    BY <2>4, TypeStep DEF TypeOK, ItemRow
  <2>9. seen[w] \in Nat /\ Cutoff[job[w]] \in Nat
    BY RetrievalAssumption DEF TypeOK
  <2>10. QED
    BY <2>3, <2>5, <2>7, <2>8, <2>9
<1>3. QED
  BY <1>1, <1>2

(* No on-time run ever cites an item first retrieved after its cutoff.     *)
THEOREM NoLookaheadAlways == Spec => []NoLookahead
<1>1. Init => NoLookahead
  BY DEF Init, NoLookahead
<1>2. QED
  BY <1>1, TypeCorrect, ClockInit, ClockStep, NoLookaheadStep, PTL DEF Spec

-----------------------------------------------------------------------------
(* The links and the receipt of a run are written by the same seal, from   *)
(* the same candidates, and no other step writes either.                   *)
LEMMA LinksStep == TypeOK /\ LinksMatchReceipts /\ [Next]_vars => LinksMatchReceipts'
<1> SUFFICES ASSUME TypeOK, LinksMatchReceipts, [Next]_vars PROVE LinksMatchReceipts'
  OBVIOUS
<1> DEFINE cited(rc) == {<<rc.run, i>> : i \in rc.items}
<1>1. ASSUME NEW w \in Workers, Seal(w) PROVE LinksMatchReceipts'
  <2>1. PICK rc0 : /\ rc0.run = job[w] /\ rc0.items = Candidates(w)
                   /\ receipt' = receipt \cup {rc0}
    <3> DEFINE rc1 == [run |-> job[w], status |-> VerdictOf(w),
                       completed |-> seen[w], items |-> Candidates(w)]
    <3>1. rc1.run = job[w] /\ rc1.items = Candidates(w) /\ receipt' = receipt \cup {rc1}
      BY <1>1, SealWrites
    <3> HIDE DEF rc1
    <3>2. QED
      BY <3>1
  <2>2. link' = link \cup cited(rc0)
    BY <1>1, <2>1 DEF Seal, Links
  <2>3. link = UNION {cited(rc) : rc \in receipt}
    BY DEF LinksMatchReceipts
  <2> HIDE DEF cited
  <2>4. link' = UNION {cited(rc) : rc \in receipt'}
    BY <2>1, <2>2, <2>3
  <2>5. QED
    BY <2>4 DEF cited, LinksMatchReceipts
<1>2. QED
  BY <1>1, OnlySealWrites DEF LinksMatchReceipts

(* A reader that joins a run to its evidence through the links sees the    *)
(* items the run's receipt lists, and no run without a receipt has links.  *)
THEOREM LinksMatchReceiptsAlways == Spec => []LinksMatchReceipts
<1>1. Init => LinksMatchReceipts
  BY DEF Init, LinksMatchReceipts
<1>2. QED
  BY <1>1, TypeCorrect, LinksStep, PTL DEF Spec

-----------------------------------------------------------------------------
LEMMA NoLeakStep == TypeOK /\ NoLeakedLease /\ [Next]_vars => NoLeakedLease'
<1> DEFINE Owned(r) == \E w \in Workers : pc[w] \in Working /\ job[w] = r /\ token[w] = lease[r].token
<1> SUFFICES ASSUME TypeOK, NoLeakedLease, [Next]_vars,
                    NEW r \in Runs, lease'[r].state = "active", r \notin orphaned'
             PROVE  Owned(r)'
  BY DEF NoLeakedLease
<1>1. CASE lease'[r] # lease[r]
  <2>1. PICK w \in Workers :
          /\ job[w] = r
          /\ \/ ClaimTooLate(w)
             \/ ClaimWon(w)
             \/ HoldsLease(w, r) /\ Heartbeat(w) /\ lease'[r] = ActiveLease(w)
             \/ lease'[r] = ReleasedLease(w)
             \/ lease'[r] = [state |-> "released", token |-> token[w], expires |-> now]
    BY <1>1, LeaseStep
  <2>2. CASE ClaimTooLate(w)
    BY <2>1, <2>2 DEF TypeOK, ClaimTooLate, ReleasedLease
  <2>3. CASE ClaimWon(w)
    BY <2>1, <2>3 DEF TypeOK, ClaimWon, ActiveLease, Working
  <2>4. CASE HoldsLease(w, r) /\ Heartbeat(w) /\ lease'[r] = ActiveLease(w)
    BY <2>1, <2>4 DEF TypeOK, Heartbeat, ActiveLease, Working
  <2>5. QED
    BY <2>1, <2>2, <2>3, <2>4 DEF ReleasedLease
<1>2. CASE lease'[r] = lease[r]
  <2>1. CASE r \notin orphaned
    <3>1. PICK w \in Workers : pc[w] \in Working /\ job[w] = r /\ token[w] = lease[r].token
      BY <1>2, <2>1 DEF NoLeakedLease
    <3>2. HoldsLease(w, r)
      BY <3>1, <1>2 DEF HoldsLease
    <3>3. CASE UNCHANGED <<pc, job, token>>
      BY <3>1, <3>3, <1>2
    <3>4. ASSUME NEW v \in Workers, v # w,
                 \/ Return(v)
                 \/ Step(v)
                 \/ \E q \in Runs : Begin(v, q)
          PROVE  pc'[w] = pc[w] /\ job'[w] = job[w] /\ token'[w] = token[w]
      BY <3>4 DEF TypeOK, Step, Begin, ClaimRefused, ClaimTooLate, ClaimWon, ClaimRaises,
         Fetch, Heartbeat, Finish, Seal, Raise, Abort, Return
    <3>5. CASE \E v \in Workers : v # w /\ (Die(v) \/ Step(v) \/ \E q \in Runs : Begin(v, q))
      BY <3>1, <3>4, <3>5, <1>2 DEF Die
    <3>6. CASE Fetch(w) \/ Heartbeat(w) \/ Finish(w) \/ Raise(w)
      BY <3>1, <3>6, <1>2 DEF TypeOK, Fetch, Heartbeat, Finish, Raise, Working
    <3>7. ~Seal(w) /\ ~Abort(w)
      BY <3>1, <3>2, <1>2 DEF TypeOK, Seal, Abort, ReleasedLease
    <3>8. ~Die(w)
      BY <3>1, <3>2 DEF Die
    <3>9. ~ClaimRefused(w) /\ ~ClaimTooLate(w) /\ ~ClaimWon(w) /\ ~ClaimRaises(w)
          /\ \A q \in Runs : ~Begin(w, q)
      BY <3>1 DEF ClaimRefused, ClaimTooLate, ClaimWon, ClaimRaises, Begin, Working
    <3>10. QED
      BY <3>3, <3>5, <3>6, <3>7, <3>8, <3>9 DEF Next, Step, Tick, vars, local
  <2>2. CASE r \in orphaned
    <3>1. PICK w \in Workers : job[w] = r /\ (ClaimTooLate(w) \/ ClaimWon(w))
      BY <2>2 DEF Next, Step, Tick, Begin, ClaimRefused, ClaimTooLate, ClaimWon, ClaimRaises,
         Fetch, Heartbeat, Finish, Seal, Raise, Abort, Die, vars
    <3>2. CASE ClaimTooLate(w)
      BY <3>1, <3>2 DEF TypeOK, ClaimTooLate, ReleasedLease
    <3>3. CASE ClaimWon(w)
      BY <3>1, <3>3 DEF TypeOK, ClaimWon, ActiveLease, Working
    <3>4. QED
      BY <3>1, <3>2, <3>3
  <2>3. QED
    BY <2>1, <2>2
<1>3. QED
  BY <1>1, <1>2

(* Every return path gives the lease back; only a death leaves one behind. *)
THEOREM NoLeakedLeaseAlways == Spec => []NoLeakedLease
<1>1. Init => NoLeakedLease
  BY DEF Init, NoLeakedLease, NoLease
<1>2. QED
  BY <1>1, TypeCorrect, NoLeakStep, PTL DEF Spec

-----------------------------------------------------------------------------
(* The step of the ledger that a terminal savepoint is.                    *)
LEMMA SealIsLedgerSeal ==
  ASSUME TypeOK, NEW w \in Workers, Seal(w)
  PROVE  \E r \in Runs, v \in Verdicts : Ledger!Seal(r, v)
<1> DEFINE shown(q) == IF run[q].status \in OpenStates THEN "open" ELSE run[q].status
<1>1. PICK r0 \in Runs, v \in Verdicts :
        /\ r0 = job[w] /\ v = VerdictOf(w) /\ v \notin OpenStates
        /\ run[r0].status = "running"
        /\ run' = [run EXCEPT ![r0] = [status |-> v, completed |-> seen[w]]]
        /\ outbox' = outbox \cup {[run |-> r0, status |-> v]}
        /\ receipt' = receipt \cup {[run |-> r0, status |-> v, completed |-> seen[w],
                                     items |-> Candidates(w)]}
  BY SealWrites, VerdictIsTerminal, VerdictsAreNotOpen
<1>2. [q \in Runs |-> shown(q)][r0] = "open"
  BY <1>1 DEF OpenStates
<1>3. [q \in Runs |-> shown(q)'] = [[q \in Runs |-> shown(q)] EXCEPT ![r0] = v]
  <2>1. shown(r0)' = v
    BY <1>1 DEF TypeOK
  <2>2. \A q \in Runs : q # r0 => shown(q)' = shown(q)
    BY <1>1 DEF TypeOK
  <2> HIDE DEF shown
  <2>3. QED
    BY <2>1, <2>2
<1>4. {<<row.run, row.status>> : row \in outbox'} =
        {<<row.run, row.status>> : row \in outbox} \cup {<<r0, v>>}
  <2>1. PICK row0 : row0.run = r0 /\ row0.status = v /\ outbox' = outbox \cup {row0}
    BY <1>1
  <2>2. QED
    BY <2>1
<1>5. {<<rc.run, rc.status>> : rc \in receipt'} =
        {<<rc.run, rc.status>> : rc \in receipt} \cup {<<r0, v>>}
  <2>1. PICK rc0 : rc0.run = r0 /\ rc0.status = v /\ receipt' = receipt \cup {rc0}
    <3> DEFINE rc1 == [run |-> r0, status |-> v, completed |-> seen[w], items |-> Candidates(w)]
    <3>1. rc1.run = r0 /\ rc1.status = v /\ receipt' = receipt \cup {rc1}
      BY <1>1
    <3> HIDE DEF rc1
    <3>2. QED
      BY <3>1
  <2>2. QED
    BY <2>1
<1>6. Ledger!Seal(r0, v)
  BY <1>2, <1>3, <1>4, <1>5 DEF Ledger!Seal
<1>7. QED
  BY <1>6

(* The worker protocol, with its leases, retries and crashes, implements   *)
(* the ledger: every run is decided once, in one step, everywhere at once. *)
THEOREM Refinement == Spec => ImplementsLedger
<1>1. Init => Ledger!Init
  <2> SUFFICES ASSUME Init PROVE Ledger!Init
    OBVIOUS
  <2>1. \A r \in Runs : run[r].status \in {"queued", "skipped"}
    BY DEF Init
  <2>2. [r \in Runs |-> IF run[r].status \in OpenStates THEN "open" ELSE run[r].status]
          \in [Runs -> {"open", "skipped"}]
    BY <2>1 DEF OpenStates
  <2>3. QED
    BY <2>2 DEF Init, Ledger!Init
<1>2. TypeOK /\ [Next]_vars => [Ledger!Next]_(Ledger!ledgerVars)
  <2> SUFFICES ASSUME TypeOK, [Next]_vars PROVE [Ledger!Next]_(Ledger!ledgerVars)
    OBVIOUS
  <2>1. CASE \E w \in Workers : Seal(w)
    BY <2>1, SealIsLedgerSeal DEF Ledger!Next
  <2>2. CASE /\ UNCHANGED <<outbox, receipt, item, link>>
             /\ \A r \in Runs : \/ run'[r] = run[r]
                                \/ /\ run[r].status \in OpenStates
                                   /\ run'[r].status = "running"
    <3>1. [r \in Runs |-> IF run'[r].status \in OpenStates THEN "open" ELSE run'[r].status] =
          [r \in Runs |-> IF run[r].status \in OpenStates THEN "open" ELSE run[r].status]
      BY <2>2 DEF OpenStates
    <3>2. QED
      BY <2>2, <3>1 DEF Ledger!ledgerVars
  <2>3. QED
    BY <2>1, <2>2, OnlySealWrites
<1>3. QED
  BY <1>1, <1>2, TypeCorrect, PTL DEF Spec, ImplementsLedger, Ledger!Spec
=============================================================================
