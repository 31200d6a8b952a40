----------------------------- MODULE LineMemory -----------------------------
(***************************************************************************)
(* The encrypted conversation memory of one LINE chat, and the threads     *)
(* that handle its webhook events in one or more gateway processes.  All   *)
(* of them share one SQLite file; every transaction is one action and a    *)
(* thread keeps what it read between two of them in its locals.            *)
(* A handler reserves the event, reads what the chat is about, answers,    *)
(* replies, marks the receipt, commits the exchange, folds old exchanges   *)
(* into rolling summaries under a lease, stores a projection of what the   *)
(* chat remembers, and keeps the questions in its process as well.         *)
(***************************************************************************)
EXTENDS Integers, FiniteSets, Sequences

CONSTANTS
  Events,      \* webhook events of the chat
  Stamp,       \* event_timestamp of the events, all different
  Topic,       \* the stock each exchange is about, or General
  Topics,      \* stock codes
  General,     \* stock_code = '': the rolling summary of the whole chat
  Followed,    \* the questions whose text is followed from context to context
  Users,       \* what a user may do besides asking: see user
  Handlers,    \* threads
  Process,     \* the process of each thread: its _owner_id
  NoOwner,     \* nobody
  NoEvent,     \* no event
  StaleAfter,  \* a processing receipt this old may be taken over (60 s)
  LeaseTime,   \* lease of a compaction (90 s)
  Trigger,     \* compaction_trigger
  BatchMax,    \* max(compaction_trigger, compaction_batch_size)
  Recent,      \* exchanges a projection looks back
  MaxRows,     \* bound on the exchanges ever committed
  Horizon      \* bound on the clock

ASSUME MemoryAssumption ==
  /\ Stamp \in [Events -> Nat \ {0}]
  /\ \A d, e \in Events : Stamp[d] = Stamp[e] => d = e
  /\ General \notin Topics
  /\ Topic \in [Events -> Topics \cup {General}]
  /\ Followed \subseteq Events
  /\ Users \subseteq [clears : SUBSET Events, unsends : SUBSET Events, unfollows : BOOLEAN]
  /\ NoOwner \notin {Process[h] : h \in Handlers}
  /\ NoEvent \notin Events
  /\ StaleAfter \in Nat \ {0} /\ LeaseTime \in Nat \ {0}
  /\ Trigger \in Nat \ {0} /\ BatchMax \in Nat /\ BatchMax >= Trigger
  /\ Recent \in Nat \ {0}
  /\ MaxRows \in Nat /\ Horizon \in Nat

VARIABLES
  now,         \* wall clock
  user,        \* events that are a command to clear the memory, events whose
               \* message may be taken back, whether the account may be unfollowed
  receipt,     \* line_memory_event_receipt: status and started_at
  subject,     \* the chat's line_memory_subject row exists
  rows,        \* line_memory_exchange rows; the exchange_id is the index
  session,     \* line_memory_session: the exchange that wrote it, or 0, and
               \* the questions it carries (recent_user_questions)
  summary,     \* per topic the active summary: cited exchanges and content
  projection,  \* exchanges the active projection was derived from
  lease,       \* line_memory_compaction_lease
  cached,      \* questions in _conversation_sessions of each process
  pc,          \* where each handler is
  job,         \* the event it handles
  asked,       \* the earlier questions in its conversation_context
  batch,       \* the exchanges it read for compaction
  base,        \* content of the summary it read before the model call
  todo,        \* summaries still to store
  view,        \* what it read for the projection
  held,        \* history: until when its reservation, later its compaction
               \* lease, keeps others out; 0 once another has ended it
  crowded      \* history: threads that compacted beside another one

tables == <<receipt, subject, rows, session, summary, projection, lease>>
compaction == <<batch, base, todo>>
history == <<held, crowded>>
locals == <<pc, job, asked, compaction, view>>
vars == <<now, user, tables, cached, locals, history>>

Owners == {Process[h] : h \in Handlers}
AllTopics == Topics \cup {General}
NoReceipt == [status |-> "none", started |-> 0]
NoLease == [owner |-> NoOwner, until |-> 0]
NoSession == [last |-> 0, asked |-> {}]
NoSummary == [sources |-> {}, content |-> {}]
Ids == DOMAIN rows

Answering == {"recalling", "loading", "answering", "clearing", "replying",
              "delivered", "undelivered"}
Compacting == {"reading", "basing", "storing", "releasing", "failing"}
Remembering == {"committing", "peeking", "claiming", "recent", "rolling", "saving"}
Places == {"idle", "caching"} \cup Answering \cup Compacting \cup Remembering

TypeOK ==
  /\ now \in Nat
  /\ user \in Users
  /\ receipt \in [Events -> [status : {"none", "processing", "delivered", "failed"},
                             started : Nat]]
  /\ subject \in BOOLEAN
  /\ rows \in Seq([event : Events, deleted : BOOLEAN, gone : BOOLEAN, summarized : BOOLEAN])
  /\ session \in [last : Ids \cup {0}, asked : SUBSET Events]
  /\ summary \in [AllTopics -> [sources : SUBSET Ids, content : SUBSET Ids]]
  /\ projection \subseteq Ids
  /\ lease \in [owner : Owners \cup {NoOwner}, until : Nat]
  /\ cached \in [Owners -> SUBSET Events]
  /\ pc \in [Handlers -> Places]
  /\ job \in [Handlers -> Events \cup {NoEvent}]
  /\ asked \in [Handlers -> SUBSET Events]
  /\ batch \in [Handlers -> SUBSET Ids]
  /\ base \in [Handlers -> SUBSET Ids]
  /\ todo \in [Handlers -> SUBSET AllTopics]
  /\ view \in [Handlers -> SUBSET Ids]
  /\ held \in [Handlers -> Nat]
  /\ crowded \subseteq Handlers

Init ==
  /\ now = 0
  /\ user \in Users
  /\ receipt = [e \in Events |-> NoReceipt]
  /\ subject = FALSE
  /\ rows = <<>>
  /\ session = NoSession
  /\ summary = [k \in AllTopics |-> NoSummary]
  /\ projection = {}
  /\ lease = NoLease
  /\ cached = [o \in Owners |-> {}]
  /\ pc = [h \in Handlers |-> "idle"]
  /\ job = [h \in Handlers |-> NoEvent]
  /\ asked = [h \in Handlers |-> {}]
  /\ batch = [h \in Handlers |-> {}]
  /\ base = [h \in Handlers |-> {}]
  /\ todo = [h \in Handlers |-> {}]
  /\ view = [h \in Handlers |-> {}]
  /\ held = [h \in Handlers |-> 0]
  /\ crowded = {}

-----------------------------------------------------------------------------
(* Rows that queries see, oldest event first.                              *)
Live(i) == ~rows[i].deleted /\ ~rows[i].gone
Older(i, j) == Stamp[rows[i].event] < Stamp[rows[j].event]

(* The first or last n of a set of rows, in timestamp order.               *)
Oldest(S, n) == {i \in S : Cardinality({j \in S : Older(j, i)}) < n}
Newest(S, n) == {i \in S : Cardinality({j \in S : Older(i, j)}) < n}

Unsummarized == {i \in Ids : Live(i) /\ ~rows[i].summarized}

Goto(h, place) == pc' = [pc EXCEPT ![h] = place]

(* A compaction, and with it what h held, ends.                            *)
EndCompaction(h) ==
  /\ batch' = [batch EXCEPT ![h] = {}]
  /\ base' = [base EXCEPT ![h] = {}]
  /\ todo' = [todo EXCEPT ![h] = {}]
  /\ crowded' = crowded \ {h}

(* The handler is done: its locals are gone.                               *)
Return(h) ==
  /\ Goto(h, "idle")
  /\ job' = [job EXCEPT ![h] = NoEvent]
  /\ asked' = [asked EXCEPT ![h] = {}]
  /\ view' = [view EXCEPT ![h] = {}]
  /\ EndCompaction(h)

(* commit_after_delivery returns, whatever it managed to store.            *)
Leave(h) ==
  /\ Goto(h, "caching")
  /\ view' = [view EXCEPT ![h] = {}]
  /\ EndCompaction(h)
  /\ UNCHANGED <<job, asked>>

(* Deleting the subject row cascades to everything but receipts and lease, *)
(* which the same transaction deletes by scope.                            *)
Forget ==
  /\ receipt' = [e \in Events |-> NoReceipt]
  /\ lease' = NoLease
  /\ subject' = FALSE
  /\ rows' = [i \in Ids |-> [rows[i] EXCEPT !.gone = TRUE]]
  /\ session' = NoSession
  /\ summary' = [k \in AllTopics |-> NoSummary]
  /\ projection' = {}
  /\ held' = [h \in Handlers |-> 0]

-----------------------------------------------------------------------------
MayReserveDelivered(e) ==
  receipt[e].status = "processing" => now - receipt[e].started >= StaleAfter
MayReserveInFlight(e) == receipt[e].status # "delivered"

(* reserve_event accepts what is new, failed, or stuck in processing.      *)
MayReserve(e) ==
  /\ receipt[e].status # "delivered"
  /\ receipt[e].status = "processing" => now - receipt[e].started >= StaleAfter

(* A webhook delivery, the first or a repeated one.  A refused one leaves  *)
(* no trace and is no step.                                                *)
Begin(h, e) ==
  /\ pc[h] = "idle"
  /\ MayReserve(e)
  /\ receipt' = [receipt EXCEPT ![e] = [status |-> "processing", started |-> now]]
  /\ job' = [job EXCEPT ![h] = e]
  /\ held' = [held EXCEPT ![h] = now + StaleAfter]
  /\ Goto(h, "recalling")
  /\ UNCHANGED <<now, user, subject, rows, session, summary, projection, lease, cached,
                 asked, compaction, view, crowded>>

(* _conversation_snapshot: what the process remembers, if that has not     *)
(* expired nor given way to other chats.                                   *)
Snapshot(h) ==
  /\ pc[h] = "recalling"
  /\ \E kept \in {cached[Process[h]], {}} :
       /\ cached' = [cached EXCEPT ![Process[h]] = kept]
       /\ asked' = [asked EXCEPT ![h] = kept]
  /\ Goto(h, "loading")
  /\ UNCHANGED <<now, user, tables, job, compaction, view, history>>

(* context_for_event: a stored session overrides the snapshot.             *)
LoadSession(h) ==
  /\ pc[h] = "loading"
  /\ asked' = [asked EXCEPT ![h] = IF session.last # 0 THEN session.asked ELSE @]
  /\ Goto(h, "answering")
  /\ UNCHANGED <<now, user, tables, cached, job, compaction, view, history>>

(* A clear command forgets the chat before it is answered: in the tables,  *)
(* then in its own process.                                                *)
ClearScope(h) ==
  /\ pc[h] = "answering"
  /\ job[h] \in user.clears
  /\ Forget
  /\ Goto(h, "clearing")
  /\ UNCHANGED <<now, user, cached, job, asked, compaction, view, crowded>>

ClearCached(h) ==
  /\ pc[h] = "clearing"
  /\ cached' = [cached EXCEPT ![Process[h]] = {}]
  /\ Goto(h, "replying")
  /\ UNCHANGED <<now, user, tables, job, asked, compaction, view, history>>

(* reply_text is accepted by LINE or raises.                               *)
Reply(h) ==
  /\ pc[h] = "replying" \/ (pc[h] = "answering" /\ job[h] \notin user.clears)
  /\ \E outcome \in {"delivered", "undelivered"} : Goto(h, outcome)
  /\ UNCHANGED <<now, user, tables, cached, job, asked, compaction, view, history>>

(* The statement updates the receipt by its key alone, whoever reserved it *)
(* last; it updates nothing when the receipt was cleared.                  *)
Finished(h) ==
  IF receipt[job[h]].status = "none" THEN receipt
  ELSE [receipt EXCEPT ![job[h]] =
          [status |-> IF pc[h] = "delivered" THEN "delivered" ELSE "failed",
           started |-> @.started]]

(* Attempts at the event of h, all of which lose the reservation to it.    *)
SameEvent(h) == {g \in Handlers : pc[g] \in Answering /\ job[g] = job[h]}

(* A receipt that cannot be written is logged and left as it is.  After a  *)
(* delivered answer that carries a context the exchange is kept.           *)
FinishEvent(h) ==
  /\ pc[h] \in {"delivered", "undelivered"}
  /\ \/ /\ receipt' = Finished(h)
        /\ held' = [g \in Handlers |-> IF g \in SameEvent(h) THEN 0 ELSE held[g]]
     \/ /\ UNCHANGED receipt
        /\ held' = [held EXCEPT ![h] = 0]
  /\ \/ /\ pc[h] = "delivered"
        /\ job[h] \notin user.clears
        /\ Goto(h, "committing")
        /\ UNCHANGED <<job, asked, compaction, view, crowded>>
     \/ Return(h)
  /\ UNCHANGED <<now, user, subject, rows, session, summary, projection, lease, cached>>

(* The handler's context with the new question.  (The newest are kept, at  *)
(* least two by LINE_CONVERSATION_MAX_TURNS; there are no more here.)      *)
Asking(h) == asked[h] \cup ({job[h]} \cap Followed)

RecordedLive(e) == \E i \in Ids : rows[i].event = e /\ Live(i)

(* event_key is UNIQUE, among suppressed rows as well.                     *)
Recorded(e) == \E i \in Ids : rows[i].event = e /\ ~rows[i].gone

(* commit_exchange inserts one row per event and replaces the session,     *)
(* unless a newer exchange already did.                                    *)
CommitExchange(h) ==
  /\ pc[h] = "committing"
  /\ ~Recorded(job[h])
  /\ Len(rows) < MaxRows
  /\ rows' = Append(rows, [event |-> job[h], deleted |-> FALSE,
                           gone |-> FALSE, summarized |-> FALSE])
  /\ subject' = TRUE
  /\ session' = IF session.last # 0 /\ Stamp[job[h]] < Stamp[rows[session.last].event]
                THEN session
                ELSE [last |-> Len(rows) + 1, asked |-> Asking(h)]
  /\ Goto(h, "peeking")
  /\ UNCHANGED <<now, user, receipt, summary, projection, lease, cached,
                 job, asked, compaction, view, history>>

(* The event is already recorded by another attempt: rolled back.          *)
CommitRefused(h) ==
  /\ pc[h] = "committing"
  /\ Recorded(job[h])
  /\ Leave(h)
  /\ UNCHANGED <<now, user, tables, cached, held>>

-----------------------------------------------------------------------------
(* Compaction.  Too few unsummarized exchanges: on to the projection.      *)
Peek(h) ==
  /\ pc[h] = "peeking"
  /\ Goto(h, IF Cardinality(Unsummarized) < Trigger THEN "recent" ELSE "claiming")
  /\ UNCHANGED <<now, user, tables, cached, job, asked, compaction, view, history>>

LeaseFreeEarly == lease.owner = NoOwner \/ lease.until <= now + 1

(* claim_compaction deletes expired leases and takes the scope's if free.  *)
LeaseFree == lease.owner = NoOwner \/ lease.until <= now

Compactors == {h \in Handlers : pc[h] \in Compacting}

Claim(h) ==
  /\ pc[h] = "claiming"
  /\ IF LeaseFree
     THEN /\ lease' = [owner |-> Process[h], until |-> now + LeaseTime]
          /\ held' = [held EXCEPT ![h] = now + LeaseTime]
          /\ crowded' = IF Compactors = {} THEN crowded ELSE Compactors \cup {h}
          /\ Goto(h, "reading")
     ELSE /\ Goto(h, "recent")
          /\ UNCHANGED <<lease, history>>
  /\ UNCHANGED <<now, user, receipt, subject, rows, session, summary, projection, cached,
                 job, asked, compaction, view>>

(* Under the lease the exchanges are read again.                           *)
ReadBatch(h) ==
  /\ pc[h] = "reading"
  /\ IF Cardinality(Unsummarized) < Trigger
     THEN /\ Goto(h, "releasing")
          /\ UNCHANGED batch
     ELSE /\ batch' = [batch EXCEPT ![h] = Oldest(Unsummarized, BatchMax)]
          /\ Goto(h, "basing")
  /\ UNCHANGED <<now, user, tables, cached, job, asked, base, todo, view, history>>

StocksOf(S) == {Topic[rows[i].event] : i \in S} \ {General}

(* The active rolling summary is read and the model is called with both;   *)
(* it answers with a rolling summary and with some of the stocks' own, or  *)
(* with nothing usable.                                                    *)
ReadBase(h) ==
  /\ pc[h] = "basing"
  /\ base' = [base EXCEPT ![h] = summary[General].content]
  /\ \/ \E stocks \in SUBSET StocksOf(batch[h]) :
          /\ todo' = [todo EXCEPT ![h] = {General} \cup stocks]
          /\ Goto(h, "storing")
     \/ /\ Goto(h, "releasing")
        /\ UNCHANGED todo
  /\ UNCHANGED <<now, user, tables, cached, job, asked, batch, view, history>>

AnySources(S) == TRUE

(* The foreign keys of summary and summary_source hold at the insert.      *)
SourcesExist(S) == subject /\ \A i \in S : ~rows[i].gone

SourcesFor(h, k) ==
  IF k = General THEN batch[h] ELSE {i \in batch[h] : Topic[rows[i].event] = k}

SummaryOfBatch(h, k) == [sources |-> SourcesFor(h, k), content |-> SourcesFor(h, k)]

(* A rolling summary is written from the one read before and the batch.    *)
NewSummary(h, k) ==
  [sources |-> SourcesFor(h, k),
   content |-> IF k = General THEN base[h] \cup batch[h] ELSE SourcesFor(h, k)]

NextTopic(h, k) == k \in todo[h] /\ (General \in todo[h] => k = General)

(* store_summary replaces the topic's active summary and marks its sources *)
(* summarized, or raises on a foreign key.                                 *)
StoreSummary(h) ==
  /\ pc[h] = "storing"
  /\ \E k \in AllTopics :
       /\ NextTopic(h, k)
       /\ IF SourcesExist(SourcesFor(h, k))
          THEN /\ summary' = [summary EXCEPT ![k] = NewSummary(h, k)]
               /\ rows' = [i \in Ids |-> [rows[i] EXCEPT
                             !.summarized = @ \/ i \in SourcesFor(h, k)]]
               /\ todo' = [todo EXCEPT ![h] = @ \ {k}]
               /\ Goto(h, IF todo[h] = {k} THEN "releasing" ELSE "storing")
          ELSE /\ Goto(h, "failing")
               /\ UNCHANGED <<summary, rows, todo>>
  /\ UNCHANGED <<now, user, receipt, subject, session, projection, lease, cached,
                 job, asked, batch, base, view, history>>

(* release_compaction deletes the scope's lease of this process, whichever *)
(* of its threads took it.                                                 *)
Release(h) ==
  /\ pc[h] \in {"releasing", "failing"}
  /\ lease' = IF lease.owner = Process[h] THEN NoLease ELSE lease
  /\ held' = [g \in Handlers |->
                IF g \in Compactors /\ Process[g] = Process[h] THEN 0 ELSE held[g]]
  /\ IF pc[h] = "failing" THEN Leave(h)
     ELSE Goto(h, "recent") /\ EndCompaction(h) /\ UNCHANGED <<job, asked, view>>
  /\ UNCHANGED <<now, user, receipt, subject, rows, session, summary, projection, cached>>

-----------------------------------------------------------------------------
(* The projection is derived from two reads and stored in a third          *)
(* transaction, which fails when the subject row is gone.                  *)
ReadRecent(h) ==
  /\ pc[h] = "recent"
  /\ view' = [view EXCEPT ![h] = Newest({i \in Ids : Live(i)}, Recent)]
  /\ Goto(h, "rolling")
  /\ UNCHANGED <<now, user, tables, cached, job, asked, compaction, history>>

ReadRolling(h) ==
  /\ pc[h] = "rolling"
  /\ view' = [view EXCEPT ![h] = @ \cup summary[General].content]
  /\ Goto(h, "saving")
  /\ UNCHANGED <<now, user, tables, cached, job, asked, compaction, history>>

StoreProjection(h) ==
  /\ pc[h] = "saving"
  /\ projection' = IF subject THEN view[h] ELSE projection
  /\ Leave(h)
  /\ UNCHANGED <<now, user, receipt, subject, rows, session, summary, lease, cached, held>>

(* _commit_conversation_context, also when nothing could be stored.        *)
CommitContext(h) ==
  /\ pc[h] = "caching"
  /\ cached' = [cached EXCEPT ![Process[h]] = Asking(h)]
  /\ Return(h)
  /\ UNCHANGED <<now, user, tables, held>>

-----------------------------------------------------------------------------
(* The user takes a message back: suppress_message.                        *)
Suppressed(e) == {i \in Ids : rows[i].event = e /\ Live(i)}

EndsSessionStrictly(e) ==
  session.last # 0 /\ Stamp[e] > Stamp[rows[session.last].event]

(* The session goes when it is not newer than what is taken back.  What    *)
(* the processes remember is left alone.                                   *)
EndsSession(e) ==
  session.last # 0 /\ Stamp[e] >= Stamp[rows[session.last].event]

Unsend(e) ==
  /\ Suppressed(e) # {}
  /\ rows' = [i \in Ids |-> [rows[i] EXCEPT !.deleted = @ \/ i \in Suppressed(e)]]
  /\ summary' = [k \in AllTopics |->
                   IF summary[k].sources \cap Suppressed(e) # {} THEN NoSummary
                   ELSE summary[k]]
  /\ session' = IF EndsSession(e) THEN NoSession ELSE session
  /\ projection' = {}
  /\ UNCHANGED <<now, user, receipt, subject, lease, cached, locals, history>>

(* The user unfollows the account: again the processes keep what they know.*)
Unfollow ==
  /\ user.unfollows
  /\ Forget
  /\ UNCHANGED <<now, user, cached, locals, crowded>>

(* The transaction of a clear command fails on a locked database and is    *)
(* rolled back: the handler gives up.                                      *)
ClearFails(h) ==
  /\ pc[h] = "answering"
  /\ job[h] \in user.clears
  /\ Return(h)
  /\ held' = [held EXCEPT ![h] = 0]

(* One of what follows a delivered answer does: commit_after_delivery ends,*)
(* through the release when it compacts.                                   *)
CommitFails(h) ==
  \/ /\ pc[h] \in Compacting \ {"releasing", "failing"}
     /\ Goto(h, "failing")
     /\ UNCHANGED <<job, asked, compaction, view, history>>
  \/ /\ pc[h] \in Remembering \cup {"releasing", "failing"}
     /\ Leave(h)
     /\ held' = [held EXCEPT ![h] = 0]

DatabaseFails(h) ==
  /\ ClearFails(h) \/ CommitFails(h)
  /\ UNCHANGED <<now, user, tables, cached>>

(* A process is killed: its threads stop where they are.                   *)
Crash(o) ==
  LET dead == {h \in Handlers : Process[h] = o /\ pc[h] # "idle"}
      After(local, none) == [h \in Handlers |-> IF h \in dead THEN none ELSE local[h]]
  IN /\ dead # {}
     /\ cached' = [cached EXCEPT ![o] = {}]
     /\ pc' = After(pc, "idle")
     /\ job' = After(job, NoEvent)
     /\ asked' = After(asked, {})
     /\ batch' = After(batch, {})
     /\ base' = After(base, {})
     /\ todo' = After(todo, {})
     /\ view' = After(view, {})
     /\ held' = After(held, 0)
     /\ crowded' = crowded \ dead
     /\ UNCHANGED <<now, user, tables>>

Tick ==
  /\ now < Horizon
  /\ now' = now + 1
  /\ UNCHANGED <<user, tables, cached, locals, history>>

HandlerStep(h) ==
  \/ Snapshot(h)
  \/ LoadSession(h)
  \/ ClearScope(h)
  \/ ClearCached(h)
  \/ Reply(h)
  \/ FinishEvent(h)
  \/ CommitExchange(h)
  \/ CommitRefused(h)
  \/ Peek(h)
  \/ Claim(h)
  \/ ReadBatch(h)
  \/ ReadBase(h)
  \/ StoreSummary(h)
  \/ Release(h)
  \/ ReadRecent(h)
  \/ ReadRolling(h)
  \/ StoreProjection(h)
  \/ CommitContext(h)
  \/ DatabaseFails(h)

Next ==
  \/ Tick
  \/ \E h \in Handlers : HandlerStep(h) \/ \E e \in Events : Begin(h, e)
  \/ \E e \in user.unsends : Unsend(e)
  \/ Unfollow
  \/ \E o \in Owners : Crash(o)

Spec == Init /\ [][Next]_vars

-----------------------------------------------------------------------------
(* What the chat cleared never comes back through a summary that was under *)
(* way: its sources are gone, and the foreign keys refuse it.              *)
NoSummaryOfForgotten ==
  \A k \in AllTopics : \A i \in summary[k].content : ~rows[i].gone

(* The last answer a stored session goes on from is not that of an exchange *)
(* that was unsent or cleared, also when exchanges arrive or are unsent out *)
(* of order.  (What it carries of earlier questions: UnsentNotInSession.)   *)
SessionAnswerLive == session.last # 0 => Live(session.last)

(* Two attempts at one event record one exchange.                          *)
OneRowPerEvent ==
  \A i, j \in Ids : rows[i].event = rows[j].event /\ ~rows[i].gone /\ ~rows[j].gone => i = j

(* Two threads answer one event at the same time only when one of them has *)
(* taken longer than the 60 seconds after which reserve_event takes an     *)
(* attempt for dead, or lost its receipt to a clear or to another attempt  *)
(* that finished.                                                          *)
OneAttempt ==
  \A g, h \in Handlers :
    (/\ pc[g] \in Answering /\ held[g] > now
     /\ pc[h] \in Answering /\ held[h] > now
     /\ job[g] = job[h]) => g = h

(* The cross-process lease: two threads compact the chat at the same time  *)
(* only when the lease of one has run out, or was deleted by a clear or by *)
(* the release of an earlier compaction of its own process.                *)
OneCompactor ==
  \A g, h \in Handlers :
    (/\ pc[g] \in Compacting /\ held[g] > now
     /\ pc[h] \in Compacting /\ held[h] > now) => g = h

(* An exchange that no compaction will read any more, but that the rolling *)
(* summary does not have.                                                  *)
Skipped(i) == Live(i) /\ rows[i].summarized /\ i \notin summary[General].content

(* "rolling summaries never skip history": an exchange comes to be skipped *)
(* only when a message is unsent, whose summary goes as a whole, or when   *)
(* one stores a summary that has compacted beside another thread.  Slow    *)
(* model calls, crashes, clears and failed stores alone skip nothing.      *)
HistoryNotSkipped ==
  [][\A i \in Ids : ~Skipped(i) /\ Skipped(i)' =>
       \/ \E j \in Ids : rows'[j].deleted /\ ~rows[j].deleted
       \/ \E h \in crowded : pc[h] = "storing" /\ todo'[h] # todo[h]]_vars


(* What is carried over of a question that was taken back, in the session  *)
(* that later answers are built from: "LINE unsend ... suppresses the      *)
(* message" (docs/LINE_BOT_DEPLOYMENT.md:195), it "is excluded from usable *)
(* memory" (docs/LINE_BOT_PRIVACY_NOTICE.md:20-21).                        *)
UnsentNotInSession ==
  \A i \in Ids : rows[i].deleted => rows[i].event \notin session.asked

(* "the receipt prevents duplicate answers": an event marked delivered is  *)
(* marked otherwise, and so answered again, only when the chat is cleared  *)
(* or by an attempt that failed after it had lost its reservation.         *)
DeliveredStaysDelivered ==
  [][\A e \in Events : receipt[e].status = "delivered" =>
       \/ receipt'[e].status \in {"delivered", "none"}
       \/ \E h \in Handlers : job[h] = e /\ pc[h] = "undelivered" /\ held[h] <= now]_vars
=============================================================================
