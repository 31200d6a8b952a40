---------------------------- MODULE RetrievalRun ----------------------------
(***************************************************************************)
(* The durable news-retrieval worker of Single-Track V3.  Several worker   *)
(* processes share one SQLite file.  A worker claims a run under a lease   *)
(* with a fresh token, calls the source adapters outside any transaction,  *)
(* renews the lease after each call, and seals the run in one savepoint    *)
(* that writes the attempts, the news items, the run's verdict, the outbox *)
(* row and the receipt and gives the lease back.  Every committed          *)
(* transaction is one action; clock readings are taken before the          *)
(* transaction that uses them and may be stale by then.                    *)
(***************************************************************************)
EXTENDS Integers, FiniteSets

CONSTANTS
  Workers,      \* worker processes
  Runs,         \* rows of news_retrieval_run
  Items,        \* identities of research_news_item
  Tokens,       \* lease tokens; uuid4 makes a fresh one for each claim
  NoToken,      \* the token of nobody
  Cutoff,       \* cutoff_at of each run
  Calls,        \* adapter calls of one attempt (sources times queries)
  LeaseSeconds, \* lease_seconds
  Retention,    \* time from first retrieval to content_expires_at
  Horizon       \* bound on the clock

ASSUME RetrievalAssumption ==
  /\ NoToken \notin Tokens
  /\ Runs # {}
  /\ Cutoff \in [Runs -> Nat]
  /\ Calls \in Nat \ {0}
  /\ LeaseSeconds \in Nat \ {0}
  /\ Retention \in Nat
  /\ Horizon \in Nat

VARIABLES
  now,       \* wall clock
  run,       \* news_retrieval_run: status and completed_at
  lease,     \* single_track_v3_job_lease, one row per run
  item,      \* research_news_item: known, first_retrieved_at, content_pruned_at set
  outbox,    \* single_track_v3_outbox rows, deduplicated per run
  receipt,   \* single_track_v3_retrieval_worker_receipt rows
  link,      \* single_track_v3_research_run_item rows
  pc,        \* where each worker is in run_retrieval_worker
  job,       \* the run each worker was called for
  token,     \* the lease token of the worker's current call
  seen,      \* the worker's latest clock reading
  left,      \* adapter calls still to make
  tally,     \* outcomes of the calls made so far
  found,     \* when this call first retrieved each item, or NotFound
  orphaned   \* history: runs whose lease was left behind by a dead worker

durable == <<run, lease, item, outbox, receipt, link>>
local == <<pc, job, token, seen, left, tally, found>>
vars == <<now, durable, local, orphaned>>

OpenStates == {"queued", "running"}
Verdicts == {"success", "partial", "failed", "late"}
Working == {"fetching", "beating", "sealing", "aborting"}
NotFound == -1
NothingFound == [i \in Items |-> NotFound]
NoLease == [state |-> "absent", token |-> NoToken, expires |-> 0]
SomeRun == CHOOSE r \in Runs : TRUE
UnknownItem == [known |-> FALSE, first |-> 0, pruned |-> FALSE]

RunRow == [status : OpenStates \cup Verdicts \cup {"skipped"}, completed : Nat]
LeaseRow == [state : {"absent", "active", "released"},
             token : Tokens \cup {NoToken}, expires : Nat]
ItemRow == [known : BOOLEAN, first : Nat, pruned : BOOLEAN]
OutboxRow == [run : Runs, status : Verdicts]
ReceiptRow == [run : Runs, status : Verdicts, completed : Nat, items : SUBSET Items]

TypeOK ==
  /\ now \in Nat
  /\ run \in [Runs -> RunRow]
  /\ lease \in [Runs -> LeaseRow]
  /\ item \in [Items -> ItemRow]
  /\ outbox \subseteq OutboxRow
  /\ receipt \subseteq ReceiptRow
  /\ link \subseteq (Runs \X Items)
  /\ pc \in [Workers -> {"idle", "claiming"} \cup Working]
  /\ job \in [Workers -> Runs]
  /\ token \in [Workers -> Tokens \cup {NoToken}]
  /\ seen \in [Workers -> Nat]
  /\ left \in [Workers -> Nat]
  /\ tally \in [Workers -> SUBSET {"ok", "failed"}]
  /\ found \in [Workers -> [Items -> Nat \cup {NotFound}]]
  /\ orphaned \subseteq Runs

-----------------------------------------------------------------------------
(* The tables start with the runs the scheduler declared and nothing else. *)

Init ==
  /\ now = 0
  /\ run \in [Runs -> [status : {"queued", "skipped"}, completed : {0}]]
  /\ lease = [r \in Runs |-> NoLease]
  /\ item = [i \in Items |-> UnknownItem]
  /\ outbox = {} /\ receipt = {} /\ link = {}
  /\ pc = [w \in Workers |-> "idle"]
  /\ job = [w \in Workers |-> SomeRun]
  /\ token = [w \in Workers |-> NoToken]
  /\ seen = [w \in Workers |-> 0]
  /\ left = [w \in Workers |-> 0]
  /\ tally = [w \in Workers |-> {}]
  /\ found = [w \in Workers |-> NothingFound]
  /\ orphaned = {}

MayAcquireEarly(w, r) ==
  \/ lease[r].state # "active"
  \/ lease[r].expires <= seen[w] + 1

(* acquire_scheduler_lease's WHERE clause, on the worker's own reading.    *)
MayAcquire(w, r) ==
  \/ lease[r].state # "active"
  \/ lease[r].expires <= seen[w]

(* The token predicate of the heartbeat and release statements.            *)
HoldsLease(w, r) ==
  /\ lease[r].state = "active"
  /\ lease[r].token = token[w]

MayRenewAnyones(w, r) ==
  /\ lease[r].state = "active"
  /\ lease[r].expires > seen[w]

(* record_scheduler_heartbeat renews only a lease that is still live.      *)
MayRenew(w, r) ==
  /\ HoldsLease(w, r)
  /\ lease[r].expires > seen[w]

(* The tokens nothing refers to any more: uuid4 never repeats one in use.  *)
FreshTokens ==
  Tokens \ ({token[w] : w \in Workers} \cup {lease[r].token : r \in Runs})

ActiveLease(w) ==
  [state |-> "active", token |-> token[w], expires |-> seen[w] + LeaseSeconds]

ReleasedLease(w) == [state |-> "released", token |-> token[w], expires |-> seen[w]]

(* The call returns or dies: its locals are gone.                          *)
Return(w) ==
  /\ pc' = [pc EXCEPT ![w] = "idle"]
  /\ token' = [token EXCEPT ![w] = NoToken]
  /\ seen' = [seen EXCEPT ![w] = 0]
  /\ left' = [left EXCEPT ![w] = 0]
  /\ tally' = [tally EXCEPT ![w] = {}]
  /\ found' = [found EXCEPT ![w] = NothingFound]
  /\ job' = [job EXCEPT ![w] = SomeRun]

-----------------------------------------------------------------------------
(* The entry checks: no receipt to replay, a run that is still open.       *)
Begin(w, r) ==
  /\ pc[w] = "idle"
  /\ ~\E rc \in receipt : rc.run = r
  /\ run[r].status \in OpenStates
  /\ \E t \in FreshTokens : token' = [token EXCEPT ![w] = t]
  /\ pc' = [pc EXCEPT ![w] = "claiming"]
  /\ job' = [job EXCEPT ![w] = r]
  /\ seen' = [seen EXCEPT ![w] = now]
  /\ UNCHANGED <<now, durable, left, tally, found, orphaned>>

OpenAtEntry(w) == TRUE

(* The run as the claim savepoint reads it again.                          *)
StillOpen(w) == run[job[w]].status \in OpenStates

(* The claim savepoint finds a live lease and is rolled back.              *)
ClaimRefused(w) ==
  /\ pc[w] = "claiming"
  /\ ~MayAcquire(w, job[w])
  /\ Return(w)
  /\ UNCHANGED <<now, durable, orphaned>>

(* The lease was free but the run became terminal since the entry check:   *)
(* the lease is taken and given back in the same transaction.              *)
ClaimTooLate(w) ==
  /\ pc[w] = "claiming"
  /\ MayAcquire(w, job[w])
  /\ ~StillOpen(w)
  /\ lease' = [lease EXCEPT ![job[w]] = ReleasedLease(w)]
  /\ orphaned' = orphaned \ {job[w]}
  /\ Return(w)
  /\ UNCHANGED <<now, run, item, outbox, receipt, link>>

(* The lease is acquired or taken over and a queued run starts running; a  *)
(* running one is resumed as it is.                                        *)
ClaimWon(w) ==
  /\ pc[w] = "claiming"
  /\ MayAcquire(w, job[w])
  /\ StillOpen(w)
  /\ lease' = [lease EXCEPT ![job[w]] = ActiveLease(w)]
  /\ run' = [run EXCEPT ![job[w]] = [status |-> "running", completed |-> @.completed]]
  /\ pc' = [pc EXCEPT ![w] = "fetching"]
  /\ left' = [left EXCEPT ![w] = Calls]
  /\ orphaned' = orphaned \ {job[w]}
  /\ UNCHANGED <<now, item, outbox, receipt, link, job, token, seen, tally, found>>

(* The claim transaction raises (the database stays locked): rolled back.  *)
ClaimRaises(w) ==
  /\ pc[w] = "claiming"
  /\ Return(w)
  /\ UNCHANGED <<now, durable, orphaned>>

(* What one adapter call comes to: attempts that succeeded or failed, also *)
(* both, and the items that could be normalized.  An exception, an invalid *)
(* payload or an invalid item is a failed attempt.                         *)
AdapterResults == [outcome : SUBSET {"ok", "failed"} \ {{}}, news : SUBSET Items]

(* One adapter call; the heartbeat's clock is read at its end.             *)
Fetch(w) ==
  /\ pc[w] = "fetching"
  /\ left[w] > 0
  /\ \E result \in AdapterResults :
       /\ tally' = [tally EXCEPT ![w] = @ \cup result.outcome]
       /\ found' = [found EXCEPT ![w] =
                      [i \in Items |-> IF i \in result.news /\ @[i] = NotFound
                                       THEN now ELSE @[i]]]
  /\ left' = [left EXCEPT ![w] = @ - 1]
  /\ seen' = [seen EXCEPT ![w] = now]
  /\ pc' = [pc EXCEPT ![w] = "beating"]
  /\ UNCHANGED <<now, durable, job, token, orphaned>>

(* The heartbeat transaction: renew, or find the lease lost and raise.     *)
Heartbeat(w) ==
  /\ pc[w] = "beating"
  /\ \/ /\ MayRenew(w, job[w])
        /\ lease' = [lease EXCEPT ![job[w]] = ActiveLease(w)]
        /\ pc' = [pc EXCEPT ![w] = "fetching"]
     \/ /\ ~MayRenew(w, job[w])
        /\ pc' = [pc EXCEPT ![w] = "aborting"]
        /\ UNCHANGED lease
  /\ UNCHANGED <<now, run, item, outbox, receipt, link,
                 job, token, seen, left, tally, found, orphaned>>

(* All calls are made; completed_at is read before the terminal savepoint. *)
Finish(w) ==
  /\ pc[w] = "fetching"
  /\ left[w] = 0
  /\ seen' = [seen EXCEPT ![w] = now]
  /\ pc' = [pc EXCEPT ![w] = "sealing"]
  /\ UNCHANGED <<now, durable, job, token, left, tally, found, orphaned>>

(* The terminal status of what the calls returned.                         *)
VerdictOf(w) ==
  IF seen[w] > Cutoff[job[w]] THEN "late"
  ELSE IF "failed" \notin tally[w] THEN "success"
  ELSE IF "ok" \in tally[w] THEN "partial" ELSE "failed"

Candidates(w) == {i \in Items : found[w][i] # NotFound}

RecordableAnyway(w) == TRUE

(* record_research_news_item refuses an update dated before the creation   *)
(* of the row it updates (created_at is the row's first retrieval).        *)
Recordable(w) ==
  \A i \in Candidates(w) : item[i].known => item[i].first <= seen[w]

OverwrittenItem(w, i) ==
  IF i \in Candidates(w)
  THEN [known |-> TRUE, first |-> found[w][i], pruned |-> FALSE] ELSE item[i]

(* _merge_existing_news_item: a known row keeps its first retrieval, its   *)
(* expiry and its pruned content; a new one starts with full content.      *)
MergedItem(w, i) ==
  IF i \notin Candidates(w) \/ item[i].known
  THEN item[i]
  ELSE [known |-> TRUE, first |-> found[w][i], pruned |-> FALSE]

(* prune_expired_research_content, at the worker's completed_at.           *)
Pruned(w, row) ==
  [known |-> row.known, first |-> row.first,
   pruned |-> row.pruned \/ (row.known /\ row.first + Retention <= seen[w])]

SealUnchecked(w) == TRUE

(* The compare-and-swap of the run row and the release by token, both of   *)
(* which raise when no row matches.                                        *)
MaySeal(w) == run[job[w]].status = "running" /\ HoldsLease(w, job[w])

LinksOfNewItems(w) == {<<job[w], i>> : i \in {c \in Candidates(w) : ~item[c].known}}

(* link_research_run_item for every item the calls returned.               *)
Links(w) == {<<job[w], i>> : i \in Candidates(w)}

(* The terminal savepoint commits as a whole.                              *)
Seal(w) ==
  /\ pc[w] = "sealing"
  /\ Recordable(w)
  /\ MaySeal(w)
  /\ item' = [i \in Items |-> Pruned(w, MergedItem(w, i))]
  /\ link' = link \cup Links(w)
  /\ run' = [run EXCEPT ![job[w]] = [status |-> VerdictOf(w), completed |-> seen[w]]]
  /\ outbox' = outbox \cup {[run |-> job[w], status |-> VerdictOf(w)]}
  /\ receipt' = receipt \cup {[run |-> job[w], status |-> VerdictOf(w),
                               completed |-> seen[w], items |-> Candidates(w)]}
  /\ lease' = [lease EXCEPT ![job[w]] = ReleasedLease(w)]
  /\ Return(w)
  /\ UNCHANGED <<now, orphaned>>

RaiseWithoutHandler(w) ==
  /\ pc[w] \in {"fetching", "beating", "sealing"}
  /\ Return(w)
  /\ UNCHANGED <<now, durable, orphaned>>

(* Anything raised after the claim: an unreadable adapter payload, a lost  *)
(* compare-and-swap, a lost lease, a refused item, a locked database.  The *)
(* open transaction is rolled back.                                        *)
Raise(w) ==
  /\ pc[w] \in {"fetching", "beating", "sealing"}
  /\ pc' = [pc EXCEPT ![w] = "aborting"]
  /\ UNCHANGED <<now, durable, job, token, seen, left, tally, found, orphaned>>

(* The outer handler gives the lease back if the token still holds it.     *)
Abort(w) ==
  /\ pc[w] = "aborting"
  /\ IF HoldsLease(w, job[w])
     THEN lease' = [lease EXCEPT ![job[w]] =
                      [state |-> "released", token |-> token[w], expires |-> now]]
     ELSE UNCHANGED lease
  /\ Return(w)
  /\ UNCHANGED <<now, run, item, outbox, receipt, link, orphaned>>

(* The process is killed, or the release itself fails on a locked database *)
(* and is swallowed: the lease stays behind until it expires.              *)
Die(w) ==
  /\ pc[w] # "idle"
  /\ orphaned' = IF HoldsLease(w, job[w]) THEN orphaned \cup {job[w]} ELSE orphaned
  /\ Return(w)
  /\ UNCHANGED <<now, durable>>

Tick ==
  /\ now < Horizon
  /\ now' = now + 1
  /\ UNCHANGED <<durable, local, orphaned>>

(* What a worker that keeps running does.                                  *)
Step(w) ==
  \/ ClaimRefused(w)
  \/ ClaimTooLate(w)
  \/ ClaimWon(w)
  \/ ClaimRaises(w)
  \/ Fetch(w)
  \/ Heartbeat(w)
  \/ Finish(w)
  \/ Seal(w)
  \/ Raise(w)
  \/ Abort(w)

Next ==
  \/ Tick
  \/ \E w \in Workers :
       \/ \E r \in Runs : Begin(w, r)
       \/ Step(w)
       \/ Die(w)

Spec == Init /\ [][Next]_vars

-----------------------------------------------------------------------------
(* A run carries a worker's verdict exactly when it has one outbox row and *)
(* one receipt, and the three agree: no crash, takeover or lost race can   *)
(* leave a run sealed without its announcement, or announce it twice.      *)
SealedOnce ==
  /\ \A r \in Runs : run[r].status \in Verdicts <=>
                       \E rc \in receipt : rc.run = r
  /\ outbox = {[run |-> rc.run, status |-> rc.status] : rc \in receipt}
  /\ \A rc \in receipt : run[rc.run] = [status |-> rc.status, completed |-> rc.completed]
  /\ \A rc1, rc2 \in receipt : rc1.run = rc2.run => rc1 = rc2

(* Nobody still holds the lease of a run that is terminal: whoever seals   *)
(* it is the holder, and a worker that finds it sealed gives it back.      *)
TerminalRunIsFree ==
  \A r \in Runs : run[r].status \notin OpenStates => lease[r].state # "active"

(* An active lease belongs to a call that is still working on the run, or  *)
(* was left behind by a worker that died: no return path leaks one.        *)
NoLeakedLease ==
  \A r \in Runs : lease[r].state = "active" =>
    \/ r \in orphaned
    \/ \E w \in Workers : pc[w] \in Working /\ job[w] = r /\ token[w] = lease[r].token

(* No look-ahead: a run that is not late cites only items first retrieved  *)
(* by its cutoff, also when another run recorded the item in between.      *)
NoLookahead ==
  \A rc \in receipt : rc.status # "late" =>
    \A i \in rc.items : item[i].known /\ item[i].first <= Cutoff[rc.run]

(* The links of a run are the items of its receipt, so a reader that joins *)
(* through either one sees the same evidence.                              *)
LinksMatchReceipts ==
  link = UNION {{<<rc.run, i>> : i \in rc.items} : rc \in receipt}

(* acquire_scheduler_lease: "without stealing a live lease".  While a      *)
(* lease is live by the real clock no step gives it to another token.      *)
NoStolenLease ==
  [][\A r \in Runs :
       lease[r].state = "active" /\ lease[r].expires > now
       => lease'[r].token = lease[r].token]_vars

(* A worker whose lease was taken over writes nothing durable any more.    *)
StaleWorkerWritesNothing ==
  [][\A w \in Workers :
       pc[w] \in Working /\ pc'[w] # pc[w] /\ ~HoldsLease(w, job[w])
       => UNCHANGED durable]_vars

(* Once pruned, an item's content never comes back, and its first          *)
(* retrieval never moves, however many runs retrieve it again.             *)
ContentNeverRestored ==
  [][\A i \in Items : item[i].known =>
       /\ item'[i].known
       /\ item'[i].first = item[i].first
       /\ item[i].pruned => item'[i].pruned]_vars

(* What readers of the tables see is the ledger of RunLedger.              *)
Ledger == INSTANCE RunLedger WITH
  verdict <- [r \in Runs |-> IF run[r].status \in OpenStates THEN "open"
                             ELSE run[r].status],
  announced <- {<<row.run, row.status>> : row \in outbox},
  sealed <- {<<rc.run, rc.status>> : rc \in receipt}

ImplementsLedger == Ledger!Spec
=============================================================================
