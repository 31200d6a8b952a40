-------------------------- MODULE LineMemoryProofs --------------------------
(* Safety of the conversation memory for any number of events, threads and  *)
(* processes, any user and any pace: nothing here assumes that a reply or a *)
(* compaction ends within its reservation or lease, or that a chat is never *)
(* cleared and no message unsent.                                           *)
EXTENDS LineMemory, FiniteSetTheorems, SequenceTheorems, WellFoundedInduction, TLAPS

Exchange == [event : Events, deleted : BOOLEAN, gone : BOOLEAN, summarized : BOOLEAN]

(* A handler that is not idle handles an event.                             *)
HasEvent == \A h \in Handlers : pc[h] # "idle" => job[h] \in Events

Typed == TypeOK /\ HasEvent

-----------------------------------------------------------------------------
(* A sequence whose elements are replaced in place.                         *)
LEMMA Replaced ==
  ASSUME NEW S, NEW s \in Seq(S), NEW f \in [DOMAIN s -> S]
  PROVE  f \in Seq(S) /\ DOMAIN f = DOMAIN s /\ Len(f) = Len(s)
<1>1. Len(s) \in Nat /\ DOMAIN s = 1..Len(s)
  BY LenProperties
<1>2. f \in Seq(S)
  BY <1>1, SeqDef
<1>3. DOMAIN f = DOMAIN s
  OBVIOUS
<1>4. Len(f) \in Nat /\ DOMAIN f = 1..Len(f)
  BY <1>2, LenProperties
<1>5. QED
  BY <1>1, <1>2, <1>3, <1>4

(* A compaction that ends leaves well typed locals behind.                  *)
LEMMA EndType ==
  ASSUME TypeOK, NEW h \in Handlers, EndCompaction(h), rows' = rows
  PROVE  /\ batch' \in [Handlers -> SUBSET Ids']
         /\ base' \in [Handlers -> SUBSET Ids']
         /\ todo' \in [Handlers -> SUBSET AllTopics]
         /\ crowded' \subseteq Handlers
BY DEF TypeOK, EndCompaction, Ids

(* So does a handler, whether its event or only its exchange is dealt with. *)
LEMMA ReturnType ==
  ASSUME Typed, NEW h \in Handlers, Return(h) \/ (Leave(h) /\ pc[h] # "idle"), rows' = rows
  PROVE  /\ pc' \in [Handlers -> Places]
         /\ job' \in [Handlers -> Events \cup {NoEvent}]
         /\ asked' \in [Handlers -> SUBSET Events]
         /\ batch' \in [Handlers -> SUBSET Ids']
         /\ base' \in [Handlers -> SUBSET Ids']
         /\ todo' \in [Handlers -> SUBSET AllTopics]
         /\ view' \in [Handlers -> SUBSET Ids']
         /\ crowded' \subseteq Handlers
         /\ HasEvent'
<1>1. EndCompaction(h)
  BY DEF Return, Leave
<1>2. HasEvent'
  BY DEF Typed, TypeOK, HasEvent, Return, Leave, Goto
<1>3. QED
  BY <1>1, <1>2, EndType DEF Typed, TypeOK, Return, Leave, Goto, Ids, Places

(* The questions a user may take back are events.                           *)
LEMMA UnsendsEvents ==
  ASSUME TypeOK
  PROVE  user.unsends \subseteq Events
BY MemoryAssumption DEF TypeOK

(* Forgetting the chat keeps the identities of its exchanges.               *)
LEMMA ForgetType ==
  ASSUME TypeOK, Forget
  PROVE  /\ rows' \in Seq(Exchange) /\ Ids' = Ids
         /\ \A i \in Ids : rows'[i].gone /\ rows'[i].event = rows[i].event
         /\ receipt' \in [Events -> [status : {"none", "processing", "delivered", "failed"},
                                     started : Nat]]
         /\ subject' \in BOOLEAN
         /\ session' = NoSession
         /\ held' \in [Handlers -> Nat]
         /\ summary' = [k \in AllTopics |-> NoSummary]
         /\ projection' = {}
         /\ lease' \in [owner : Owners \cup {NoOwner}, until : Nat]
<1>1. rows \in Seq(Exchange)
  BY DEF TypeOK, Exchange
<1>2. /\ rows' \in [DOMAIN rows -> Exchange]
      /\ \A i \in Ids : rows'[i].gone /\ rows'[i].event = rows[i].event
  <2>1. \A i \in Ids : rows[i] \in Exchange
    BY <1>1, ElementOfSeq, LenProperties DEF Ids
  <2>2. rows' = [i \in Ids |-> [rows[i] EXCEPT !.gone = TRUE]]
    BY DEF Forget
  <2>3. QED
    BY <2>1, <2>2 DEF Ids, Exchange
<1>3. rows' \in Seq(Exchange) /\ Ids' = Ids
  BY <1>1, <1>2, Replaced DEF Ids
<1>4. QED
  BY <1>2, <1>3 DEF Forget, NoReceipt, NoLease, TypeOK

(* One exchange more.                                                       *)
LEMMA CommitType ==
  ASSUME Typed, NEW h \in Handlers, CommitExchange(h)
  PROVE  /\ rows' \in Seq(Exchange) /\ Len(rows') = Len(rows) + 1
         /\ Ids' = Ids \cup {Len(rows) + 1}
         /\ \A i \in Ids : rows'[i] = rows[i]
         /\ rows'[Len(rows) + 1].event = job[h]
         /\ ~rows'[Len(rows) + 1].deleted /\ ~rows'[Len(rows) + 1].gone
         /\ job[h] \in Events
<1>1. rows \in Seq(Exchange) /\ Len(rows) \in Nat /\ Ids = 1..Len(rows)
  BY LenProperties DEF Typed, TypeOK, Exchange, Ids
<1>2. job[h] \in Events
  BY DEF CommitExchange, Typed, HasEvent
<1>3. QED
  BY <1>1, <1>2, AppendProperties, LenProperties DEF CommitExchange, Exchange, Ids

(* A summary is stored: its topic's row and the mark on its sources.        *)
LEMMA StoreType ==
  ASSUME TypeOK, NEW h \in Handlers, StoreSummary(h)
  PROVE  /\ rows' \in Seq(Exchange) /\ Ids' = Ids
         /\ summary' \in [AllTopics -> [sources : SUBSET Ids, content : SUBSET Ids]]
         /\ todo' \in [Handlers -> SUBSET AllTopics]
         /\ \A i \in Ids : /\ rows'[i].event = rows[i].event
                           /\ rows'[i].gone = rows[i].gone
                           /\ rows'[i].deleted = rows[i].deleted
<1>1. rows \in Seq(Exchange)
  BY DEF TypeOK, Exchange
<1>2. \A i \in Ids : rows[i] \in Exchange
  BY <1>1, ElementOfSeq, LenProperties DEF Ids
<1>3. CASE UNCHANGED <<summary, rows, todo>>
  BY <1>1, <1>3 DEF TypeOK, Ids
<1>4. ASSUME NEW k \in AllTopics,
             summary' = [summary EXCEPT ![k] = NewSummary(h, k)],
             rows' = [i \in Ids |-> [rows[i] EXCEPT
                        !.summarized = @ \/ i \in SourcesFor(h, k)]],
             todo' = [todo EXCEPT ![h] = @ \ {k}]
      PROVE  /\ rows' \in Seq(Exchange) /\ Ids' = Ids
             /\ summary' \in [AllTopics -> [sources : SUBSET Ids, content : SUBSET Ids]]
             /\ todo' \in [Handlers -> SUBSET AllTopics]
             /\ \A i \in Ids : /\ rows'[i].event = rows[i].event
                               /\ rows'[i].gone = rows[i].gone
                               /\ rows'[i].deleted = rows[i].deleted
  <2>1. rows' \in [DOMAIN rows -> Exchange]
    BY <1>2, <1>4 DEF Ids, Exchange
  <2>2. rows' \in Seq(Exchange) /\ Ids' = Ids
    BY <1>1, <2>1, Replaced DEF Ids
  <2>3. SourcesFor(h, k) \subseteq Ids /\ base[h] \subseteq Ids /\ batch[h] \subseteq Ids
    BY DEF TypeOK, SourcesFor
  <2>4. NewSummary(h, k) \in [sources : SUBSET Ids, content : SUBSET Ids]
    BY <2>3 DEF NewSummary
  <2>5. summary' \in [AllTopics -> [sources : SUBSET Ids, content : SUBSET Ids]]
    BY <1>4, <2>4 DEF TypeOK
  <2>6. todo' \in [Handlers -> SUBSET AllTopics]
    BY <1>4 DEF TypeOK
  <2>7. \A i \in Ids : /\ rows'[i].event = rows[i].event
                       /\ rows'[i].gone = rows[i].gone
                       /\ rows'[i].deleted = rows[i].deleted
    BY <1>2, <1>4 DEF Exchange
  <2>8. QED
    BY <2>2, <2>5, <2>6, <2>7
<1>5. QED
  BY <1>3, <1>4 DEF StoreSummary

(* A message is taken back: its exchange is marked deleted.                 *)
LEMMA UnsendType ==
  ASSUME TypeOK, NEW e \in Events, Unsend(e)
  PROVE  /\ rows' \in Seq(Exchange) /\ Ids' = Ids
         /\ summary' \in [AllTopics -> [sources : SUBSET Ids, content : SUBSET Ids]]
         /\ session' \in [last : Ids \cup {0}, asked : SUBSET Events]
         /\ projection' = {}
         /\ \A i \in Ids : /\ rows'[i].event = rows[i].event
                           /\ rows'[i].gone = rows[i].gone
                           /\ rows'[i].deleted <=> rows[i].deleted \/ i \in Suppressed(e)
         /\ \A k \in AllTopics : summary'[k] \in {summary[k], NoSummary}
<1>1. rows \in Seq(Exchange)
  BY DEF TypeOK, Exchange
<1>2. \A i \in Ids : rows[i] \in Exchange
  BY <1>1, ElementOfSeq, LenProperties DEF Ids
<1>3. rows' = [i \in Ids |-> [rows[i] EXCEPT !.deleted = @ \/ i \in Suppressed(e)]]
  BY DEF Unsend
<1>4. rows' \in [DOMAIN rows -> Exchange]
  BY <1>2, <1>3 DEF Ids, Exchange
<1>5. rows' \in Seq(Exchange) /\ Ids' = Ids
  BY <1>1, <1>4, Replaced DEF Ids
<1>6. \A i \in Ids : /\ rows'[i].event = rows[i].event
                     /\ rows'[i].gone = rows[i].gone
                     /\ rows'[i].deleted <=> rows[i].deleted \/ i \in Suppressed(e)
  BY <1>2, <1>3 DEF Exchange
<1>7. \A k \in AllTopics : summary'[k] \in {summary[k], NoSummary}
  BY DEF Unsend
<1>8. summary' \in [AllTopics -> [sources : SUBSET Ids, content : SUBSET Ids]]
  <2>1. NoSummary \in [sources : SUBSET Ids, content : SUBSET Ids]
    BY DEF NoSummary
  <2>2. QED
    BY <2>1 DEF TypeOK, Unsend
<1>9. session' \in [last : Ids \cup {0}, asked : SUBSET Events] /\ projection' = {}
  BY DEF TypeOK, Unsend, NoSession
<1>10. QED
  BY <1>5, <1>6, <1>7, <1>8, <1>9

-----------------------------------------------------------------------------
(* Every step keeps the types, and gives an event to who leaves "idle".     *)
LEMMA TypeStep == Typed /\ [Next]_vars => Typed'
<1> SUFFICES ASSUME Typed, [Next]_vars PROVE Typed'
  OBVIOUS
<1> USE MemoryAssumption DEF Typed
<1>1. CASE UNCHANGED vars
  BY <1>1 DEF TypeOK, HasEvent, vars, tables, locals, compaction, history, Ids
<1>2. CASE Tick
  BY <1>2 DEF TypeOK, HasEvent, Tick, tables, locals, compaction, history, Ids
<1>3. ASSUME NEW h \in Handlers, NEW p \in Places, Goto(h, p), pc[h] # "idle", job' = job
      PROVE  pc' \in [Handlers -> Places] /\ HasEvent'
  BY <1>3 DEF TypeOK, HasEvent, Goto
<1>4. ASSUME NEW h \in Handlers, NEW e \in Events, Begin(h, e) PROVE Typed'
  <2>1. held' \in [Handlers -> Nat]
    BY <1>4 DEF TypeOK, Begin
  <2>2. pc' \in [Handlers -> Places] /\ HasEvent'
    BY <1>4 DEF TypeOK, HasEvent, Begin, Goto, Places, Answering
  <2>3. QED
    BY <1>4, <2>1, <2>2 DEF TypeOK, Begin, compaction, Ids
<1>5. ASSUME NEW h \in Handlers, Snapshot(h) PROVE Typed'
  <2>1. PICK kept \in {cached[Process[h]], {}} :
          /\ cached' = [cached EXCEPT ![Process[h]] = kept]
          /\ asked' = [asked EXCEPT ![h] = kept]
    BY <1>5 DEF Snapshot
  <2>2. kept \subseteq Events
    <3>1. Process[h] \in Owners
      BY DEF Owners
    <3>2. cached[Process[h]] \subseteq Events
      BY <3>1 DEF TypeOK
    <3>3. QED
      BY <2>1, <3>2
  <2>3. cached' \in [Owners -> SUBSET Events] /\ asked' \in [Handlers -> SUBSET Events]
    BY <2>1, <2>2 DEF TypeOK
  <2>4. pc' \in [Handlers -> Places] /\ HasEvent'
    BY <1>3, <1>5 DEF Snapshot, Places, Answering
  <2>5. QED
    BY <1>5, <2>3, <2>4 DEF TypeOK, Snapshot, tables, compaction, history, Ids
<1>6. ASSUME NEW h \in Handlers, LoadSession(h) PROVE Typed'
  <2>1. pc' \in [Handlers -> Places] /\ HasEvent'
    BY <1>3, <1>6 DEF LoadSession, Places, Answering
  <2>2. asked' \in [Handlers -> SUBSET Events]
    BY <1>6 DEF TypeOK, LoadSession
  <2>3. QED
    BY <1>6, <2>1, <2>2 DEF TypeOK, LoadSession, tables, compaction, history, Ids
<1>7. ASSUME NEW h \in Handlers, ClearScope(h) PROVE Typed'
  <2>1. pc' \in [Handlers -> Places] /\ HasEvent'
    BY <1>3, <1>7 DEF ClearScope, Places, Answering
  <2>2. QED
    BY <1>7, <2>1, ForgetType DEF TypeOK, ClearScope, compaction, Exchange, NoSummary, NoSession
<1>8. ASSUME NEW h \in Handlers, ClearCached(h) PROVE Typed'
  <2>1. pc' \in [Handlers -> Places] /\ HasEvent'
    BY <1>3, <1>8 DEF ClearCached, Places, Answering
  <2>2. QED
    BY <1>8, <2>1 DEF TypeOK, ClearCached, tables, compaction, history, Ids
<1>9. ASSUME NEW h \in Handlers, Reply(h) PROVE Typed'
  <2>1. pc' \in [Handlers -> Places] /\ HasEvent'
    BY <1>3, <1>9 DEF Reply, Places, Answering
  <2>2. QED
    BY <1>9, <2>1 DEF TypeOK, Reply, tables, compaction, history, Ids
<1>10. ASSUME NEW h \in Handlers, FinishEvent(h) PROVE Typed'
  <2>1. receipt' \in [Events -> [status : {"none", "processing", "delivered", "failed"},
                                 started : Nat]]
    <3>1. job[h] \in Events
      BY <1>10 DEF HasEvent, FinishEvent
    <3>2. receipt[job[h]].started \in Nat
      BY <3>1 DEF TypeOK
    <3>3. \A s \in {"delivered", "failed"} :
            [receipt EXCEPT ![job[h]] = [status |-> s, started |-> receipt[job[h]].started]]
              \in [Events -> [status : {"none", "processing", "delivered", "failed"},
                             started : Nat]]
      BY <3>1, <3>2 DEF TypeOK
    <3>4. Finished(h) \in [Events -> [status : {"none", "processing", "delivered", "failed"},
                                     started : Nat]]
      BY <3>3 DEF TypeOK, Finished
    <3>5. QED
      BY <1>10, <3>4 DEF TypeOK, FinishEvent
  <2>2. held' \in [Handlers -> Nat]
    <3>1. CASE held' = [g \in Handlers |-> IF g \in SameEvent(h) THEN 0 ELSE held[g]]
      BY <3>1 DEF TypeOK
    <3>2. CASE held' = [held EXCEPT ![h] = 0]
      BY <3>2 DEF TypeOK
    <3>3. QED
      BY <1>10, <3>1, <3>2 DEF FinishEvent
  <2>3. /\ rows' = rows
        /\ UNCHANGED <<now, user, subject, session, summary, projection, lease, cached>>
    BY <1>10 DEF FinishEvent
  <2>4. CASE Return(h)
    <3>1. /\ pc' \in [Handlers -> Places]
          /\ job' \in [Handlers -> Events \cup {NoEvent}]
          /\ asked' \in [Handlers -> SUBSET Events]
          /\ batch' \in [Handlers -> SUBSET Ids']
          /\ base' \in [Handlers -> SUBSET Ids']
          /\ todo' \in [Handlers -> SUBSET AllTopics]
          /\ view' \in [Handlers -> SUBSET Ids']
          /\ crowded' \subseteq Handlers
          /\ HasEvent'
      BY <2>3, <2>4, ReturnType
    <3>2. QED
      BY <2>1, <2>2, <2>3, <3>1 DEF TypeOK, Ids
  <2>5. CASE /\ Goto(h, "committing")
             /\ UNCHANGED <<job, asked, compaction, view, crowded>>
    <3>1. pc' \in [Handlers -> Places] /\ HasEvent'
      BY <1>3, <1>10, <2>5 DEF FinishEvent, Places, Remembering
    <3>2. QED
      BY <2>1, <2>2, <2>3, <2>5, <3>1 DEF TypeOK, compaction, Ids
  <2>6. QED
    BY <1>10, <2>4, <2>5 DEF FinishEvent
<1>11. ASSUME NEW h \in Handlers, CommitExchange(h) PROVE Typed'
  <2>1. /\ rows' \in Seq(Exchange) /\ Ids \subseteq Ids'
        /\ Len(rows) + 1 \in Ids'
    BY <1>11, CommitType
  <2>2. session' \in [last : Ids' \cup {0}, asked : SUBSET Events]
    <3>1. Asking(h) \subseteq Events
      BY DEF TypeOK, Asking
    <3>2. [last |-> Len(rows) + 1, asked |-> Asking(h)]
            \in [last : Ids' \cup {0}, asked : SUBSET Events]
      BY <2>1, <3>1
    <3>3. session \in [last : Ids' \cup {0}, asked : SUBSET Events]
      BY <2>1 DEF TypeOK
    <3>4. QED
      BY <1>11, <3>2, <3>3 DEF CommitExchange
  <2>3. summary' \in [AllTopics -> [sources : SUBSET Ids', content : SUBSET Ids']]
    <3>1. \A k \in AllTopics : summary[k] \in [sources : SUBSET Ids', content : SUBSET Ids']
      BY <2>1 DEF TypeOK
    <3>2. QED
      BY <1>11, <3>1 DEF TypeOK, CommitExchange
  <2>4. /\ batch' \in [Handlers -> SUBSET Ids'] /\ base' \in [Handlers -> SUBSET Ids']
        /\ view' \in [Handlers -> SUBSET Ids'] /\ projection' \subseteq Ids'
    BY <1>11, <2>1 DEF TypeOK, CommitExchange, compaction
  <2>5. pc' \in [Handlers -> Places] /\ HasEvent'
    BY <1>3, <1>11 DEF CommitExchange, Places, Remembering
  <2>6. QED
    BY <1>11, <2>1, <2>2, <2>3, <2>4, <2>5
    DEF TypeOK, CommitExchange, compaction, history, Exchange
<1>12. ASSUME NEW h \in Handlers, CommitRefused(h) PROVE Typed'
  BY <1>12, ReturnType DEF TypeOK, CommitRefused, Leave, tables, Ids
<1>13. ASSUME NEW h \in Handlers, Peek(h) PROVE Typed'
  <2>1. pc' \in [Handlers -> Places] /\ HasEvent'
    BY <1>3, <1>13 DEF Peek, Places, Remembering
  <2>2. QED
    BY <1>13, <2>1 DEF TypeOK, Peek, tables, compaction, history, Ids
<1>14. ASSUME NEW h \in Handlers, Claim(h) PROVE Typed'
  <2>1. now + LeaseTime \in Nat /\ Process[h] \in Owners
    BY DEF TypeOK, Owners
  <2>2. /\ lease' \in [owner : Owners \cup {NoOwner}, until : Nat]
        /\ held' \in [Handlers -> Nat]
        /\ crowded' \subseteq Handlers
    <3>1. CASE UNCHANGED <<lease, held, crowded>>
      BY <3>1 DEF TypeOK
    <3>2. CASE /\ lease' = [owner |-> Process[h], until |-> now + LeaseTime]
               /\ held' = [held EXCEPT ![h] = now + LeaseTime]
               /\ crowded' = IF Compactors = {} THEN crowded ELSE Compactors \cup {h}
      BY <2>1, <3>2 DEF TypeOK, Compactors
    <3>3. QED
      BY <1>14, <3>1, <3>2 DEF Claim, history
  <2>3. pc' \in [Handlers -> Places] /\ HasEvent'
    BY <1>3, <1>14 DEF Claim, Places, Remembering, Compacting
  <2>4. QED
    BY <1>14, <2>2, <2>3 DEF TypeOK, Claim, compaction, Ids
<1>15. ASSUME NEW h \in Handlers, ReadBatch(h) PROVE Typed'
  <2>1. Oldest(Unsummarized, BatchMax) \subseteq Ids
    BY DEF Oldest, Unsummarized
  <2>2. batch' \in [Handlers -> SUBSET Ids]
    BY <1>15, <2>1 DEF TypeOK, ReadBatch
  <2>3. pc' \in [Handlers -> Places] /\ HasEvent'
    BY <1>3, <1>15 DEF ReadBatch, Places, Compacting
  <2>4. UNCHANGED <<now, user, tables, cached, job, asked, base, todo, view, history>>
    BY <1>15 DEF ReadBatch
  <2>5. QED
    BY <2>2, <2>3, <2>4 DEF TypeOK, tables, history, Ids
<1>16. ASSUME NEW h \in Handlers, ReadBase(h) PROVE Typed'
  <2>1. StocksOf(batch[h]) \subseteq AllTopics /\ General \in AllTopics
    <3>1. \A i \in Ids : rows[i].event \in Events
      <4>1. rows \in Seq(Exchange)
        BY DEF TypeOK, Exchange
      <4>2. \A i \in Ids : rows[i] \in Exchange
        BY <4>1, LenProperties, ElementOfSeq DEF Ids
      <4>3. QED
        BY <4>2 DEF Exchange
    <3>2. QED
      BY <3>1, MemoryAssumption DEF TypeOK, StocksOf, AllTopics
  <2>2. base' \in [Handlers -> SUBSET Ids]
    BY <1>16, <2>1 DEF TypeOK, ReadBase
  <2>3. todo' \in [Handlers -> SUBSET AllTopics]
    <3>1. PICK T \in SUBSET AllTopics : todo' = [todo EXCEPT ![h] = T] \/ todo' = todo
      BY <1>16, <2>1 DEF ReadBase
    <3>2. QED
      BY <3>1 DEF TypeOK
  <2>4. pc' \in [Handlers -> Places] /\ HasEvent'
    BY <1>3, <1>16 DEF ReadBase, Places, Compacting
  <2>5. UNCHANGED <<now, user, tables, cached, job, asked, batch, view, history>>
    BY <1>16 DEF ReadBase
  <2>6. QED
    BY <2>2, <2>3, <2>4, <2>5 DEF TypeOK, tables, history, Ids
<1>17. ASSUME NEW h \in Handlers, StoreSummary(h) PROVE Typed'
  <2>1. \E p \in {"releasing", "storing", "failing"} : Goto(h, p)
    BY <1>17 DEF StoreSummary
  <2>2. pc[h] # "idle" /\ job' = job
    BY <1>17 DEF StoreSummary
  <2>3. pc' \in [Handlers -> Places] /\ HasEvent'
    BY <1>3, <2>1, <2>2 DEF Places, Compacting
  <2>4. QED
    BY <1>17, <2>3, StoreType DEF TypeOK, StoreSummary, history, Exchange
<1>18. ASSUME NEW h \in Handlers, Release(h) PROVE Typed'
  <2>1. lease' \in [owner : Owners \cup {NoOwner}, until : Nat]
    BY <1>18 DEF TypeOK, Release, NoLease
  <2>2. held' \in [Handlers -> Nat]
    BY <1>18 DEF TypeOK, Release
  <2>3. /\ rows' = rows /\ pc[h] # "idle"
        /\ UNCHANGED <<now, user, receipt, subject, session, summary, projection, cached>>
    BY <1>18 DEF Release
  <2>4. CASE Leave(h)
    BY <2>1, <2>2, <2>3, <2>4, ReturnType DEF TypeOK, Ids
  <2>5. CASE Goto(h, "recent") /\ EndCompaction(h) /\ UNCHANGED <<job, asked, view>>
    <3>1. pc' \in [Handlers -> Places] /\ HasEvent'
      BY <1>3, <2>3, <2>5 DEF Places, Remembering
    <3>2. QED
      BY <2>1, <2>2, <2>3, <2>5, <3>1, EndType DEF TypeOK, Ids
  <2>6. QED
    BY <1>18, <2>4, <2>5 DEF Release
<1>19. ASSUME NEW h \in Handlers, ReadRecent(h) PROVE Typed'
  <2>1. Newest({i \in Ids : Live(i)}, Recent) \subseteq Ids
    BY DEF Newest
  <2>2. pc' \in [Handlers -> Places] /\ HasEvent'
    BY <1>3, <1>19 DEF ReadRecent, Places, Remembering
  <2>3. view' \in [Handlers -> SUBSET Ids]
    BY <1>19, <2>1 DEF TypeOK, ReadRecent
  <2>4. QED
    BY <1>19, <2>2, <2>3 DEF TypeOK, ReadRecent, tables, compaction, history, Ids
<1>20. ASSUME NEW h \in Handlers, ReadRolling(h) PROVE Typed'
  <2>1. summary[General].content \subseteq Ids
    BY DEF TypeOK, AllTopics
  <2>2. pc' \in [Handlers -> Places] /\ HasEvent'
    BY <1>3, <1>20 DEF ReadRolling, Places, Remembering
  <2>3. view' \in [Handlers -> SUBSET Ids]
    BY <1>20, <2>1 DEF TypeOK, ReadRolling
  <2>4. QED
    BY <1>20, <2>2, <2>3 DEF TypeOK, ReadRolling, tables, compaction, history, Ids
<1>21. ASSUME NEW h \in Handlers, StoreProjection(h) PROVE Typed'
  <2>1. projection' \subseteq Ids
    BY <1>21 DEF TypeOK, StoreProjection
  <2>2. QED
    BY <1>21, <2>1, ReturnType DEF TypeOK, StoreProjection, Ids
<1>22. ASSUME NEW h \in Handlers, CommitContext(h) PROVE Typed'
  <2>1. Asking(h) \subseteq Events
    BY DEF TypeOK, Asking
  <2>2. cached' \in [Owners -> SUBSET Events]
    BY <1>22, <2>1 DEF TypeOK, CommitContext
  <2>3. rows' = rows
    BY <1>22 DEF CommitContext, tables
  <2>4. QED
    BY <1>22, <2>2, <2>3, ReturnType DEF TypeOK, CommitContext, tables, Ids
<1>23. ASSUME NEW h \in Handlers, DatabaseFails(h) PROVE Typed'
  <2>1. rows' = rows /\ UNCHANGED <<now, user, tables, cached>>
    BY <1>23 DEF DatabaseFails, tables
  <2>2. CASE ClearFails(h)
    BY <2>1, <2>2, ReturnType DEF TypeOK, ClearFails, tables, Ids
  <2>3. CASE Leave(h) /\ pc[h] # "idle" /\ held' = [held EXCEPT ![h] = 0]
    BY <2>1, <2>3, ReturnType DEF TypeOK, tables, Ids
  <2>4. CASE /\ pc[h] \in Compacting \ {"releasing", "failing"}
             /\ Goto(h, "failing")
             /\ UNCHANGED <<job, asked, compaction, view, history>>
    <3>1. pc' \in [Handlers -> Places] /\ HasEvent'
      BY <1>3, <2>4 DEF Places, Compacting
    <3>2. QED
      BY <2>1, <2>4, <3>1 DEF TypeOK, tables, compaction, history, Ids
  <2>5. QED
    BY <1>23, <2>2, <2>3, <2>4 DEF DatabaseFails, CommitFails, Compacting, Remembering
<1>24. ASSUME NEW e \in user.unsends, Unsend(e) PROVE Typed'
  <2>1. e \in Events
    BY UnsendsEvents
  <2>2. QED
    BY <1>24, <2>1, UnsendType
    DEF TypeOK, HasEvent, Unsend, Exchange, locals, compaction, history
<1>25. CASE Unfollow
  BY <1>25, ForgetType
  DEF TypeOK, HasEvent, Unfollow, Exchange, NoSummary, NoSession, locals, compaction
<1>26. ASSUME NEW o \in Owners, Crash(o) PROVE Typed'
  BY <1>26 DEF TypeOK, HasEvent, Crash, tables, Ids, Places
<1>27. QED
  BY <1>1, <1>2, <1>4, <1>5, <1>6, <1>7, <1>8, <1>9, <1>10, <1>11, <1>12, <1>13, <1>14,
     <1>15, <1>16, <1>17, <1>18, <1>19, <1>20, <1>21, <1>22, <1>23, <1>24, <1>25, <1>26
  DEF Next, HandlerStep

(* Nothing is remembered and nobody works at first.                         *)
LEMMA TypeInit == Init => Typed
<1> SUFFICES ASSUME Init PROVE Typed
  OBVIOUS
<1>1. rows \in Seq(Exchange)
  BY EmptySeq DEF Init
<1>2. QED
  BY <1>1 DEF Init, Typed, TypeOK, HasEvent, NoReceipt, NoSummary, NoSession, NoLease, Ids,
              Exchange, Places

LEMMA TypedAlways == Spec => []Typed
<1>1. QED
  BY TypeInit, TypeStep, PTL DEF Spec

(* The tables and the locals of every thread are well typed in every        *)
(* reachable state: what a thread read before a clear still names rows.     *)
THEOREM TypeCorrect == Spec => []TypeOK
<1>1. Typed => TypeOK
  BY DEF Typed
<1>2. QED
  BY <1>1, TypedAlways, PTL

-----------------------------------------------------------------------------
(* The steps that write exchanges, the session or summaries.                *)
LEMMA TableSteps ==
  ASSUME [Next]_vars
  PROVE  \/ UNCHANGED <<rows, session, summary>>
         \/ Forget /\ UNCHANGED compaction
         \/ \E h \in Handlers : CommitExchange(h)
         \/ \E h \in Handlers : StoreSummary(h)
         \/ \E e \in user.unsends : Unsend(e)
<1>1. CASE UNCHANGED vars \/ Tick \/ \E o \in Owners : Crash(o)
  BY <1>1 DEF vars, tables, Tick, Crash
<1>2. ASSUME NEW h \in Handlers, NEW e \in Events, Begin(h, e)
      PROVE  UNCHANGED <<rows, session, summary>>
  BY <1>2 DEF Begin
<1>3. CASE Unfollow
  BY <1>3 DEF Unfollow, locals
<1>4. ASSUME NEW h \in Handlers, ClearScope(h) PROVE Forget /\ UNCHANGED compaction
  BY <1>4 DEF ClearScope
<1>5. ASSUME NEW h \in Handlers,
             \/ Snapshot(h) \/ LoadSession(h) \/ ClearCached(h) \/ Reply(h) \/ CommitRefused(h)
             \/ Peek(h) \/ ReadBatch(h) \/ ReadBase(h) \/ ReadRecent(h) \/ ReadRolling(h)
             \/ CommitContext(h) \/ DatabaseFails(h)
      PROVE  UNCHANGED tables
  BY <1>5 DEF Snapshot, LoadSession, ClearCached, Reply, CommitRefused, Peek, ReadBatch,
              ReadBase, ReadRecent, ReadRolling, CommitContext, DatabaseFails
<1>6. ASSUME NEW h \in Handlers,
             FinishEvent(h) \/ Claim(h) \/ Release(h) \/ StoreProjection(h)
      PROVE  UNCHANGED <<rows, session, summary>>
  BY <1>6 DEF FinishEvent, Claim, Release, StoreProjection
<1>7. QED
  BY <1>1, <1>2, <1>3, <1>4, <1>5, <1>6 DEF Next, HandlerStep, tables

(* How a step moves one thread: into its answer only by taking the event,   *)
(* into a compaction only by claiming the lease, and what it holds, reads   *)
(* and has still to do changes only by its own actions.                     *)
Moved(g) ==
  /\ pc'[g] \in Answering =>
       \/ pc[g] \in Answering /\ job'[g] = job[g] /\ held'[g] \in {held[g], 0}
       \/ \E e \in Events : Begin(g, e)
  /\ pc'[g] \in Compacting =>
       \/ /\ pc[g] \in Compacting /\ held'[g] \in {held[g], 0}
          /\ g \in crowded => g \in crowded'
       \/ Claim(g)
  /\ pc'[g] = "basing" =>
       \/ pc[g] = "basing" /\ batch'[g] = batch[g]
       \/ ReadBatch(g)
  /\ pc'[g] = "storing" =>
       /\ batch'[g] = batch[g]
       /\ \/ pc[g] = "storing" /\ base'[g] = base[g] /\ todo'[g] = todo[g]
          \/ StoreSummary(g)
          \/ ReadBase(g)

LEMMA ThreadStep ==
  ASSUME Typed, [Next]_vars, NEW g \in Handlers
  PROVE  Moved(g)
<1> USE DEF Typed
<1>1. ASSUME UNCHANGED <<pc, job, compaction, crowded>>, held'[g] \in {held[g], 0}
      PROVE  Moved(g)
  BY <1>1 DEF Moved, compaction, Answering, Compacting
<1>2. ASSUME NEW h \in Handlers, NEW p, Goto(h, p), UNCHANGED <<job, compaction, crowded>>,
             held'[g] \in {held[g], 0},
             \/ p \notin Answering \cup Compacting
             \/ p \in Answering /\ pc[h] \in Answering
             \/ p \in {"releasing", "failing"} /\ pc[h] \in Compacting
      PROVE  Moved(g)
  <2>1. CASE g = h
    <3>1. pc'[g] = p
      BY <1>2, <2>1 DEF TypeOK, Goto
    <3>2. QED
      BY <1>2, <2>1, <3>1 DEF Moved, compaction, Answering, Compacting
  <2>2. CASE g # h
    <3>1. pc'[g] = pc[g]
      BY <1>2, <2>2 DEF TypeOK, Goto
    <3>2. QED
      BY <1>2, <3>1 DEF Moved, compaction, Answering, Compacting
  <2>3. QED
    BY <2>1, <2>2
<1>3. ASSUME NEW h \in Handlers, NEW p, Goto(h, p), p \notin Answering \cup Compacting,
             EndCompaction(h), g # h => job'[g] = job[g], held'[g] \in {held[g], 0}
      PROVE  Moved(g)
  <2>1. CASE g = h
    <3>1. pc'[g] = p
      BY <1>3, <2>1 DEF TypeOK, Goto
    <3>2. QED
      BY <1>3, <3>1 DEF Moved, Compacting
  <2>2. CASE g # h
    <3>1. /\ pc'[g] = pc[g] /\ job'[g] = job[g]
          /\ UNCHANGED <<batch[g], base[g], todo[g]>>
          /\ g \in crowded => g \in crowded'
      BY <1>3, <2>2 DEF TypeOK, Goto, EndCompaction
    <3>2. QED
      BY <1>3, <3>1 DEF Moved
  <2>3. QED
    BY <2>1, <2>2
<1>4. ASSUME NEW h \in Handlers, Return(h) \/ Leave(h), held'[g] \in {held[g], 0}
      PROVE  Moved(g)
  <2>1. g # h => job'[g] = job[g]
    BY <1>4 DEF Return, Leave, TypeOK
  <2>2. EndCompaction(h) /\ \E p \in {"idle", "caching"} : Goto(h, p)
    BY <1>4 DEF Return, Leave
  <2>3. QED
    BY <1>3, <1>4, <2>1, <2>2 DEF Answering, Compacting
<1>5. ASSUME NEW h \in Handlers, NEW e \in Events, Begin(h, e) PROVE Moved(g)
  <2>1. CASE g = h
    BY <1>5, <2>1 DEF Moved, Begin, Goto, TypeOK, Answering, Compacting
  <2>2. CASE g # h
    <3>1. /\ pc'[g] = pc[g] /\ job'[g] = job[g] /\ held'[g] = held[g]
          /\ UNCHANGED <<batch, base, todo, crowded>>
      BY <1>5, <2>2 DEF Begin, Goto, TypeOK, compaction
    <3>2. QED
      BY <3>1 DEF Moved
  <2>3. QED
    BY <2>1, <2>2
<1>6. ASSUME NEW h \in Handlers,
             \/ Snapshot(h) \/ LoadSession(h) \/ ClearScope(h) \/ ClearCached(h) \/ Reply(h)
      PROVE  Moved(g)
  <2>1. held'[g] \in {held[g], 0} /\ UNCHANGED <<job, compaction, crowded>>
    BY <1>6 DEF Snapshot, LoadSession, ClearScope, ClearCached, Reply, Forget, history
  <2>2. /\ pc[h] \in Answering
        /\ \E p \in {"loading", "answering", "clearing", "replying", "delivered",
                     "undelivered"} : Goto(h, p)
    BY <1>6 DEF Snapshot, LoadSession, ClearScope, ClearCached, Reply, Answering
  <2>3. QED
    BY <1>2, <2>1, <2>2 DEF Answering
<1>7. ASSUME NEW h \in Handlers, FinishEvent(h) PROVE Moved(g)
  <2>1. held'[g] \in {held[g], 0}
    <3>1. CASE held' = [f \in Handlers |-> IF f \in SameEvent(h) THEN 0 ELSE held[f]]
      BY <3>1 DEF TypeOK
    <3>2. CASE held' = [held EXCEPT ![h] = 0]
      BY <3>2 DEF TypeOK
    <3>3. QED
      BY <1>7, <3>1, <3>2 DEF FinishEvent
  <2>2. CASE Return(h)
    BY <1>4, <2>1, <2>2
  <2>3. CASE Goto(h, "committing") /\ UNCHANGED <<job, asked, compaction, view, crowded>>
    BY <1>2, <2>1, <2>3 DEF Answering, Compacting
  <2>4. QED
    BY <1>7, <2>2, <2>3 DEF FinishEvent
<1>8. ASSUME NEW h \in Handlers,
             \/ CommitExchange(h) \/ Peek(h) \/ ReadRecent(h) \/ ReadRolling(h)
      PROVE  Moved(g)
  <2>1. /\ UNCHANGED <<job, compaction, crowded, held>>
        /\ \E p \in {"peeking", "recent", "claiming", "rolling", "saving"} : Goto(h, p)
    BY <1>8 DEF CommitExchange, Peek, ReadRecent, ReadRolling, history
  <2>2. QED
    BY <1>2, <2>1 DEF Answering, Compacting
<1>9. ASSUME NEW h \in Handlers, CommitRefused(h) \/ StoreProjection(h) \/ CommitContext(h)
      PROVE  Moved(g)
  BY <1>4, <1>9 DEF CommitRefused, StoreProjection, CommitContext
<1>10. ASSUME NEW h \in Handlers, Claim(h) PROVE Moved(g)
  <2>1. CASE Goto(h, "recent") /\ UNCHANGED <<lease, history>>
    BY <1>2, <1>10, <2>1 DEF Claim, Answering, Compacting, history
  <2>2. CASE /\ Goto(h, "reading")
             /\ held' = [held EXCEPT ![h] = now + LeaseTime]
             /\ crowded' = IF Compactors = {} THEN crowded ELSE Compactors \cup {h}
    <3>1. UNCHANGED <<job, batch, base, todo>>
      BY <1>10 DEF Claim, compaction
    <3>2. CASE g = h
      <4>1. pc'[g] = "reading"
        BY <2>2, <3>2 DEF Goto, TypeOK
      <4>2. QED
        BY <1>10, <3>2, <4>1 DEF Moved, Answering
    <3>3. CASE g # h
      <4>1. pc'[g] = pc[g] /\ held'[g] = held[g]
        BY <2>2, <3>3 DEF Goto, TypeOK
      <4>2. pc[g] \in Compacting /\ g \in crowded => g \in crowded'
        BY <2>2 DEF Compactors
      <4>3. QED
        BY <3>1, <4>1, <4>2 DEF Moved
    <3>4. QED
      BY <3>2, <3>3
  <2>3. QED
    BY <1>10, <2>1, <2>2 DEF Claim
<1>11. ASSUME NEW h \in Handlers, ReadBatch(h) PROVE Moved(g)
  <2>1. /\ UNCHANGED <<job, base, todo, held, crowded>> /\ pc[h] = "reading"
        /\ \E p \in {"releasing", "basing"} : Goto(h, p)
        /\ g # h => batch'[g] = batch[g]
    BY <1>11 DEF ReadBatch, history, TypeOK
  <2>2. CASE g = h
    <3>1. pc'[g] \in {"releasing", "basing"}
      BY <2>1, <2>2 DEF Goto, TypeOK
    <3>2. QED
      BY <1>11, <2>1, <2>2, <3>1 DEF Moved, Answering, Compacting
  <2>3. CASE g # h
    <3>1. pc'[g] = pc[g]
      BY <2>1, <2>3 DEF Goto, TypeOK
    <3>2. QED
      BY <2>1, <2>3, <3>1 DEF Moved
  <2>4. QED
    BY <2>2, <2>3
<1>12. ASSUME NEW h \in Handlers, ReadBase(h) PROVE Moved(g)
  <2>1. /\ UNCHANGED <<job, batch, held, crowded>> /\ pc[h] = "basing"
        /\ \E p \in {"releasing", "storing"} : Goto(h, p)
        /\ g # h => UNCHANGED <<base[g], todo[g]>>
    BY <1>12 DEF ReadBase, history, TypeOK
  <2>2. CASE g = h
    <3>1. pc'[g] \in {"releasing", "storing"}
      BY <2>1, <2>2 DEF Goto, TypeOK
    <3>2. QED
      BY <1>12, <2>1, <2>2, <3>1 DEF Moved, Answering, Compacting
  <2>3. CASE g # h
    <3>1. pc'[g] = pc[g]
      BY <2>1, <2>3 DEF Goto, TypeOK
    <3>2. QED
      BY <2>1, <2>3, <3>1 DEF Moved
  <2>4. QED
    BY <2>2, <2>3
<1>13. ASSUME NEW h \in Handlers, StoreSummary(h) PROVE Moved(g)
  <2>1. /\ UNCHANGED <<job, batch, base, held, crowded>> /\ pc[h] = "storing"
        /\ \E p \in {"releasing", "storing", "failing"} : Goto(h, p)
        /\ g # h => todo'[g] = todo[g]
    BY <1>13 DEF StoreSummary, history, TypeOK
  <2>2. CASE g = h
    <3>1. pc'[g] \in {"releasing", "storing", "failing"}
      BY <2>1, <2>2 DEF Goto, TypeOK
    <3>2. QED
      BY <1>13, <2>1, <2>2, <3>1 DEF Moved, Answering, Compacting
  <2>3. CASE g # h
    <3>1. pc'[g] = pc[g]
      BY <2>1, <2>3 DEF Goto, TypeOK
    <3>2. QED
      BY <2>1, <2>3, <3>1 DEF Moved
  <2>4. QED
    BY <2>2, <2>3
<1>14. ASSUME NEW h \in Handlers, Release(h) PROVE Moved(g)
  <2>1. held'[g] \in {held[g], 0}
    BY <1>14 DEF Release
  <2>2. CASE Leave(h)
    BY <1>4, <2>1, <2>2
  <2>3. CASE Goto(h, "recent") /\ EndCompaction(h) /\ UNCHANGED <<job, asked, view>>
    BY <1>3, <2>1, <2>3 DEF Answering, Compacting
  <2>4. QED
    BY <1>14, <2>2, <2>3 DEF Release
<1>15. ASSUME NEW h \in Handlers, DatabaseFails(h) PROVE Moved(g)
  <2>1. CASE (Return(h) \/ Leave(h)) /\ held' = [held EXCEPT ![h] = 0]
    BY <1>4, <2>1 DEF TypeOK
  <2>2. CASE /\ pc[h] \in Compacting \ {"releasing", "failing"}
             /\ Goto(h, "failing")
             /\ UNCHANGED <<job, asked, compaction, view, history>>
    BY <1>2, <2>2 DEF history
  <2>3. QED
    BY <1>15, <2>1, <2>2 DEF DatabaseFails, ClearFails, CommitFails
<1>16. ASSUME NEW o \in Owners, Crash(o) PROVE Moved(g)
  <2>1. CASE Process[g] = o /\ pc[g] # "idle"
    <3>1. pc'[g] = "idle"
      BY <1>16, <2>1 DEF Crash
    <3>2. QED
      BY <3>1 DEF Moved, Answering, Compacting
  <2>2. CASE ~(Process[g] = o /\ pc[g] # "idle")
    <3>1. /\ UNCHANGED <<pc[g], job[g], batch[g], base[g], todo[g], held[g]>>
          /\ g \in crowded => g \in crowded'
      BY <1>16, <2>2 DEF Crash
    <3>2. QED
      BY <3>1 DEF Moved
  <2>3. QED
    BY <2>1, <2>2
<1>17. CASE Unfollow
  BY <1>1, <1>17 DEF Unfollow, Forget, locals
<1>18. QED
  BY <1>1, <1>5, <1>6, <1>7, <1>8, <1>9, <1>10, <1>11, <1>12, <1>13, <1>14, <1>15, <1>16,
     <1>17 DEF Next, HandlerStep, vars, locals, history, Tick, Unsend

-----------------------------------------------------------------------------
(* Only a commit adds an exchange; no step changes the event of one, or     *)
(* brings one back that was forgotten.                                      *)
LEMMA RowsKept ==
  ASSUME Typed, [Next]_vars
  PROVE  \/ \E h \in Handlers : CommitExchange(h)
         \/ /\ Ids' = Ids
            /\ \A i \in Ids : /\ rows'[i].event = rows[i].event
                              /\ rows[i].gone => rows'[i].gone
<1> USE DEF Typed
<1>1. CASE rows' = rows
  BY <1>1 DEF Ids
<1>2. CASE Forget
  BY <1>2, ForgetType
<1>3. ASSUME NEW h \in Handlers, StoreSummary(h)
      PROVE  /\ Ids' = Ids
             /\ \A i \in Ids : /\ rows'[i].event = rows[i].event
                               /\ rows[i].gone => rows'[i].gone
  BY <1>3, StoreType
<1>4. ASSUME NEW e \in user.unsends, Unsend(e)
      PROVE  /\ Ids' = Ids
             /\ \A i \in Ids : /\ rows'[i].event = rows[i].event
                               /\ rows[i].gone => rows'[i].gone
  BY <1>4, UnsendType, UnsendsEvents
<1>5. QED
  BY <1>1, <1>2, <1>3, <1>4, TableSteps

LEMMA OneRowStep == Typed /\ OneRowPerEvent /\ [Next]_vars => OneRowPerEvent'
<1> SUFFICES ASSUME Typed, OneRowPerEvent, [Next]_vars PROVE OneRowPerEvent'
  OBVIOUS
<1>1. ASSUME NEW h \in Handlers, CommitExchange(h) PROVE OneRowPerEvent'
  <2>1. \A i \in Ids : rows[i].event = job[h] => rows[i].gone
    BY <1>1 DEF CommitExchange, Recorded
  <2>2. /\ Ids' = Ids \cup {Len(rows) + 1}
        /\ \A i \in Ids : rows'[i] = rows[i]
        /\ rows'[Len(rows) + 1].event = job[h]
    BY <1>1, CommitType
  <2>3. QED
    BY <2>1, <2>2 DEF OneRowPerEvent
<1>2. CASE /\ Ids' = Ids
           /\ \A i \in Ids : /\ rows'[i].event = rows[i].event
                             /\ rows[i].gone => rows'[i].gone
  BY <1>2 DEF OneRowPerEvent
<1>3. QED
  BY <1>1, <1>2, RowsKept

(* An event leaves at most one exchange, however often it is delivered and  *)
(* however long its attempts overlap: commit_exchange looks for the event   *)
(* among suppressed exchanges too.                                          *)
THEOREM OneRowPerEventAlways == Spec => []OneRowPerEvent
<1>1. Init => OneRowPerEvent
  BY DEF Init, OneRowPerEvent, Ids
<1>2. QED
  BY <1>1, OneRowStep, TypedAlways, PTL DEF Spec

-----------------------------------------------------------------------------
LEMMA SessionStep == Typed /\ SessionAnswerLive /\ [Next]_vars => SessionAnswerLive'
<1> SUFFICES ASSUME Typed, SessionAnswerLive, [Next]_vars PROVE SessionAnswerLive'
  OBVIOUS
<1> USE DEF Typed
<1>1. CASE UNCHANGED <<rows, session>>
  BY <1>1 DEF SessionAnswerLive, Live
<1>2. CASE Forget
  BY <1>2 DEF Forget, SessionAnswerLive, NoSession
<1>3. ASSUME NEW h \in Handlers, CommitExchange(h) PROVE SessionAnswerLive'
  <2>1. /\ \A i \in Ids : rows'[i] = rows[i]
        /\ ~rows'[Len(rows) + 1].deleted /\ ~rows'[Len(rows) + 1].gone
    BY <1>3, CommitType
  <2>2. CASE session' = [last |-> Len(rows) + 1, asked |-> Asking(h)]
    BY <2>1, <2>2 DEF SessionAnswerLive, Live
  <2>3. CASE session' = session /\ session.last # 0
    BY <2>1, <2>3 DEF SessionAnswerLive, Live, TypeOK
  <2>4. QED
    BY <1>3, <2>2, <2>3 DEF CommitExchange
<1>4. ASSUME NEW h \in Handlers, StoreSummary(h) PROVE SessionAnswerLive'
  <2>1. session' = session
    BY <1>4 DEF StoreSummary
  <2>2. \A i \in Ids : rows'[i].gone = rows[i].gone /\ rows'[i].deleted = rows[i].deleted
    BY <1>4, StoreType
  <2>3. QED
    BY <2>1, <2>2 DEF SessionAnswerLive, Live, TypeOK
<1>5. ASSUME NEW e \in user.unsends, Unsend(e) PROVE SessionAnswerLive'
  <2>1. e \in Events
    BY UnsendsEvents
  <2>2. CASE session' = NoSession
    BY <2>2 DEF SessionAnswerLive, NoSession
  <2>3. CASE session.last # 0 /\ session' = session /\ ~EndsSession(e)
    <3>1. session.last \in Ids /\ Live(session.last)
      BY <2>3 DEF TypeOK, SessionAnswerLive
    <3>2. rows[session.last].event # e
      BY <2>1, <2>3, MemoryAssumption DEF EndsSession
    <3>3. session.last \notin Suppressed(e)
      BY <3>2 DEF Suppressed
    <3>4. /\ rows'[session.last].gone = rows[session.last].gone
          /\ rows'[session.last].deleted
               <=> rows[session.last].deleted \/ session.last \in Suppressed(e)
      BY <1>5, <2>1, <3>1, UnsendType
    <3>5. QED
      BY <2>3, <3>1, <3>3, <3>4 DEF SessionAnswerLive, Live
  <2>4. CASE session.last = 0 /\ session' = session
    BY <2>4 DEF SessionAnswerLive
  <2>5. QED
    BY <1>5, <2>2, <2>3, <2>4 DEF Unsend
<1>6. QED
  BY <1>1, <1>2, <1>3, <1>4, <1>5, TableSteps

(* The answer a stored session goes on from is never one that was taken     *)
(* back or cleared, in whatever order exchanges are committed and unsent.   *)
THEOREM SessionAnswerLiveAlways == Spec => []SessionAnswerLive
<1>1. Init => SessionAnswerLive
  BY DEF Init, SessionAnswerLive, NoSession
<1>2. QED
  BY <1>1, SessionStep, TypedAlways, PTL DEF Spec

-----------------------------------------------------------------------------
(* Among exchanges there is an oldest one, and Oldest finds it.             *)
LEMMA OldestIsThere ==
  ASSUME Typed, NEW S \in SUBSET Ids, S # {}
  PROVE  Oldest(S, BatchMax) # {}
<1> DEFINE Times == {Stamp[rows[i].event] : i \in S}
<1>1. Times \subseteq Nat /\ Times # {}
  <2>1. rows \in Seq(Exchange)
    BY DEF Typed, TypeOK, Exchange
  <2>2. \A i \in Ids : rows[i] \in Exchange
    BY <2>1, ElementOfSeq, LenProperties DEF Ids
  <2>3. \A i \in S : Stamp[rows[i].event] \in Nat
    BY <2>2, MemoryAssumption DEF Exchange
  <2>4. QED
    BY <2>3
<1>2. PICK t \in Times : \A u \in Times : ~(u < t)
  <2> DEFINE R == OpToRel(<, Nat)
  <2>1. IsWellFoundedOn(R, Nat)
    BY NatLessThanWellFounded, Zenon
  <2>2. \A u, t \in Nat : u < t => <<u, t>> \in R
    BY DEF OpToRel
  <2> HIDE DEF R
  <2>3. \E t \in Times : \A u \in Times : ~(<<u, t>> \in R)
    BY <1>1, <2>1, WFMin, Zenon
  <2>4. QED
    BY <1>1, <2>2, <2>3
<1>3. PICK i \in S : t = Stamp[rows[i].event]
  OBVIOUS
<1>4. {j \in S : Older(j, i)} = {}
  BY <1>2, <1>3 DEF Older
<1>5. Cardinality({j \in S : Older(j, i)}) < BatchMax
  <2>1. BatchMax \in Nat /\ 0 < BatchMax
    BY MemoryAssumption
  <2>2. Cardinality({}) = 0
    BY FS_EmptySet
  <2>3. QED
    BY <1>4, <2>1, <2>2, Zenon
<1>6. QED
  BY <1>5 DEF Oldest

(* A compaction that has read its batch read something.                     *)
BatchIsRead == \A h \in Handlers : pc[h] \in {"basing", "storing"} => batch[h] # {}

(* While one exchange of the batch is there, the chat was not cleared since *)
(* the batch was read, and so what the base holds is there too.             *)
BaseOutlivesBatch ==
  \A h \in Handlers :
    pc[h] = "storing" /\ (\E i \in batch[h] : ~rows[i].gone)
    => \A j \in base[h] : ~rows[j].gone

SummaryInv == NoSummaryOfForgotten /\ BatchIsRead /\ BaseOutlivesBatch

LEMMA BatchStep == Typed /\ BatchIsRead /\ [Next]_vars => BatchIsRead'
<1> SUFFICES ASSUME Typed, BatchIsRead, [Next]_vars,
                    NEW g \in Handlers, pc'[g] \in {"basing", "storing"}
             PROVE  batch'[g] # {}
  BY DEF BatchIsRead
<1>1. CASE ReadBatch(g) /\ pc'[g] = "basing"
  <2>1. Goto(g, "releasing") => pc'[g] = "releasing"
    BY DEF Typed, TypeOK, Goto
  <2>2. /\ ~(Cardinality(Unsummarized) < Trigger)
        /\ batch' = [batch EXCEPT ![g] = Oldest(Unsummarized, BatchMax)]
    BY <1>1, <2>1 DEF ReadBatch
  <2>3. Unsummarized # {}
    <3>1. 0 < Trigger
      BY MemoryAssumption
    <3>2. Cardinality({}) = 0
      BY FS_EmptySet
    <3>3. QED
      BY <2>2, <3>1, <3>2, Zenon
  <2>4. Oldest(Unsummarized, BatchMax) # {}
    <3>1. Unsummarized \in SUBSET Ids
      BY DEF Unsummarized
    <3>2. QED
      BY <2>3, <3>1, OldestIsThere
  <2>5. QED
    BY <2>2, <2>4 DEF Typed, TypeOK
<1>2. CASE batch'[g] = batch[g] /\ pc[g] \in {"basing", "storing"}
  BY <1>2 DEF BatchIsRead
<1>3. QED
  BY <1>1, <1>2, ThreadStep DEF Moved, ReadBase, StoreSummary

(* Only a clear or an unfollow forgets exchanges, and then all of them.     *)
LEMMA GoneStep ==
  ASSUME Typed, [Next]_vars
  PROVE  \/ Forget
         \/ \A i \in Ids : rows'[i].gone <=> rows[i].gone
<1> USE DEF Typed
<1>1. CASE rows' = rows
  BY <1>1
<1>2. ASSUME NEW h \in Handlers, CommitExchange(h)
      PROVE  \A i \in Ids : rows'[i].gone <=> rows[i].gone
  BY <1>2, CommitType
<1>3. ASSUME NEW h \in Handlers, StoreSummary(h)
      PROVE  \A i \in Ids : rows'[i].gone <=> rows[i].gone
  BY <1>3, StoreType
<1>4. ASSUME NEW e \in user.unsends, Unsend(e)
      PROVE  \A i \in Ids : rows'[i].gone <=> rows[i].gone
  BY <1>4, UnsendType, UnsendsEvents
<1>5. QED
  BY <1>1, <1>2, <1>3, <1>4, TableSteps

LEMMA BaseStep == Typed /\ SummaryInv /\ [Next]_vars => BaseOutlivesBatch'
<1> SUFFICES ASSUME Typed, SummaryInv, [Next]_vars,
                    NEW g \in Handlers, pc'[g] = "storing",
                    NEW i \in batch'[g], ~rows'[i].gone,
                    NEW j \in base'[g]
             PROVE  ~rows'[j].gone
  BY DEF BaseOutlivesBatch
<1>1. /\ batch'[g] = batch[g] /\ i \in batch[g] /\ i \in Ids
      /\ \/ pc[g] = "storing" /\ base'[g] = base[g]
         \/ base'[g] = summary[General].content
  <2>1. batch[g] \subseteq Ids
    BY DEF Typed, TypeOK
  <2>2. ReadBase(g) => base'[g] = summary[General].content
    BY DEF ReadBase, Typed, TypeOK
  <2>3. StoreSummary(g) => pc[g] = "storing" /\ base' = base
    BY DEF StoreSummary
  <2>4. QED
    BY <2>1, <2>2, <2>3, ThreadStep DEF Moved
<1>2. \A n \in Ids : rows'[n].gone <=> rows[n].gone
  BY <1>1, ForgetType, GoneStep DEF Typed
<1>3. j \in Ids /\ ~rows[j].gone
  <2>1. General \in AllTopics
    BY DEF AllTopics
  <2>2. base[g] \subseteq Ids /\ summary[General].content \subseteq Ids
    BY <2>1 DEF Typed, TypeOK
  <2>3. CASE pc[g] = "storing" /\ base'[g] = base[g]
    BY <1>1, <1>2, <2>2, <2>3 DEF SummaryInv, BaseOutlivesBatch
  <2>4. CASE base'[g] = summary[General].content
    BY <2>1, <2>2, <2>4 DEF SummaryInv, NoSummaryOfForgotten
  <2>5. QED
    BY <1>1, <2>3, <2>4
<1>4. QED
  BY <1>2, <1>3

LEMMA ForgottenStep == Typed /\ SummaryInv /\ [Next]_vars => NoSummaryOfForgotten'
<1> SUFFICES ASSUME Typed, SummaryInv, [Next]_vars PROVE NoSummaryOfForgotten'
  OBVIOUS
<1> USE DEF Typed
<1>1. \A k \in AllTopics : summary[k].content \subseteq Ids
  BY DEF TypeOK
<1>2. CASE Forget
  BY <1>2, ForgetType DEF NoSummaryOfForgotten, NoSummary
<1>3. ASSUME \A n \in Ids : rows'[n].gone <=> rows[n].gone,
             \A k \in AllTopics : summary'[k] \in {summary[k], NoSummary}
      PROVE  NoSummaryOfForgotten'
  BY <1>1, <1>3 DEF SummaryInv, NoSummaryOfForgotten, NoSummary
<1>4. ASSUME NEW h \in Handlers, StoreSummary(h),
             \A n \in Ids : rows'[n].gone <=> rows[n].gone
      PROVE  NoSummaryOfForgotten'
  <2>1. CASE UNCHANGED summary
    BY <1>3, <1>4, <2>1
  <2>2. ASSUME NEW k \in AllTopics, SourcesExist(SourcesFor(h, k)),
               summary' = [summary EXCEPT ![k] = NewSummary(h, k)]
        PROVE  NoSummaryOfForgotten'
    <3>1. /\ batch[h] \subseteq Ids /\ base[h] \subseteq Ids /\ pc[h] = "storing"
      BY <1>4 DEF TypeOK, StoreSummary
    <3>2. \A n \in SourcesFor(h, k) : n \in Ids /\ ~rows[n].gone
      BY <2>2, <3>1 DEF SourcesExist, SourcesFor
    <3>3. \A n \in NewSummary(h, k).content : n \in Ids /\ ~rows[n].gone
      <4>1. CASE k = General
        <5>1. SourcesFor(h, k) = batch[h] /\ batch[h] # {}
          BY <3>1, <4>1 DEF SourcesFor, SummaryInv, BatchIsRead
        <5>2. \A n \in base[h] : ~rows[n].gone
          BY <3>1, <3>2, <5>1 DEF SummaryInv, BaseOutlivesBatch
        <5>3. NewSummary(h, k).content = base[h] \cup batch[h]
          BY <4>1 DEF NewSummary
        <5>4. QED
          BY <3>1, <3>2, <5>1, <5>2, <5>3
      <4>2. CASE k # General
        BY <3>2, <4>2 DEF NewSummary
      <4>3. QED
        BY <4>1, <4>2
    <3>4. \A t \in AllTopics : summary'[t] = IF t = k THEN NewSummary(h, k) ELSE summary[t]
      BY <2>2 DEF TypeOK
    <3>5. \A t \in AllTopics : \A n \in summary'[t].content : n \in Ids /\ ~rows[n].gone
      BY <1>1, <3>3, <3>4 DEF SummaryInv, NoSummaryOfForgotten
    <3>6. QED
      BY <1>4, <3>5 DEF NoSummaryOfForgotten
  <2>3. QED
    BY <1>4, <2>1, <2>2 DEF StoreSummary
<1>5. \/ Forget \/ \A n \in Ids : rows'[n].gone <=> rows[n].gone
  BY GoneStep
<1>6. ASSUME NEW e \in user.unsends, Unsend(e)
      PROVE  \A k \in AllTopics : summary'[k] \in {summary[k], NoSummary}
  BY <1>6, UnsendType, UnsendsEvents
<1>7. ASSUME NEW h \in Handlers, CommitExchange(h) PROVE summary' = summary
  BY <1>7 DEF CommitExchange
<1>8. QED
  BY <1>2, <1>3, <1>4, <1>5, <1>6, <1>7, TableSteps

(* What a chat cleared never comes back through a summary that was being    *)
(* written, although the base it was written from is not cited: the foreign *)
(* keys of the batch stand for the base, because a clear takes both.        *)
THEOREM NoSummaryOfForgottenAlways == Spec => []NoSummaryOfForgotten
<1>1. Init => SummaryInv
  BY DEF Init, SummaryInv, NoSummaryOfForgotten, BatchIsRead, BaseOutlivesBatch, NoSummary
<1>2. Typed /\ SummaryInv /\ [Next]_vars => SummaryInv'
  BY BatchStep, BaseStep, ForgottenStep DEF SummaryInv
<1>3. SummaryInv => NoSummaryOfForgotten
  BY DEF SummaryInv
<1>4. QED
  BY <1>1, <1>2, <1>3, TypedAlways, PTL DEF Spec

-----------------------------------------------------------------------------
(* The clock does not go back.                                              *)
LEMMA ClockStep ==
  ASSUME Typed, [Next]_vars
  PROVE  now \in Nat /\ now' \in Nat /\ now <= now'
<1>1. now' = now \/ (Tick /\ now' = now + 1)
  BY DEF Next, HandlerStep, vars, Tick, Begin, Snapshot, LoadSession, ClearScope, ClearCached,
         Reply, FinishEvent, CommitExchange, CommitRefused, Peek, Claim, ReadBatch, ReadBase,
         StoreSummary, Release, ReadRecent, ReadRolling, StoreProjection, CommitContext,
         DatabaseFails, Unsend, Unfollow, Crash
<1>2. QED
  BY <1>1 DEF Typed, TypeOK

(* The receipts are written by a reservation, by the outcome of a reply, or *)
(* by a clear, which ends every reservation.                                *)
LEMMA ReceiptSteps ==
  ASSUME [Next]_vars
  PROVE  \/ UNCHANGED receipt
         \/ Forget
         \/ \E h \in Handlers : \E e \in Events : Begin(h, e)
         \/ \E h \in Handlers : FinishEvent(h) /\ ~UNCHANGED receipt
<1>1. CASE UNCHANGED vars \/ Tick \/ \E o \in Owners : Crash(o)
  BY <1>1 DEF vars, tables, Tick, Crash
<1>2. CASE Unfollow \/ \E e \in user.unsends : Unsend(e)
  BY <1>2 DEF Unfollow, Unsend
<1>3. ASSUME NEW h \in Handlers,
             \/ Snapshot(h) \/ LoadSession(h) \/ ClearCached(h) \/ Reply(h) \/ CommitRefused(h)
             \/ Peek(h) \/ ReadBatch(h) \/ ReadBase(h) \/ ReadRecent(h) \/ ReadRolling(h)
             \/ CommitContext(h) \/ DatabaseFails(h)
      PROVE  UNCHANGED tables
  BY <1>3 DEF Snapshot, LoadSession, ClearCached, Reply, CommitRefused, Peek, ReadBatch,
              ReadBase, ReadRecent, ReadRolling, CommitContext, DatabaseFails
<1>4. ASSUME NEW h \in Handlers,
             \/ CommitExchange(h) \/ Claim(h) \/ StoreSummary(h) \/ Release(h)
             \/ StoreProjection(h)
      PROVE  UNCHANGED receipt
  BY <1>4 DEF CommitExchange, Claim, StoreSummary, Release, StoreProjection
<1>5. ASSUME NEW h \in Handlers, ClearScope(h) PROVE Forget
  BY <1>5 DEF ClearScope
<1>6. QED
  BY <1>1, <1>2, <1>3, <1>4, <1>5 DEF Next, HandlerStep, tables

(* An attempt that keeps others out holds the receipt of its event: it is   *)
(* in processing and turns stale at the very moment the attempt loses it.   *)
Reserved ==
  \A h \in Handlers :
    pc[h] \in Answering /\ held[h] > now =>
      /\ receipt[job[h]].status = "processing"
      /\ receipt[job[h]].started + StaleAfter = held[h]

(* A new attempt finds nobody who still holds the event.                    *)
LEMMA BeginAlone ==
  ASSUME Typed, Reserved, NEW h \in Handlers, NEW e \in Events, Begin(h, e),
         NEW g \in Handlers, pc[g] \in Answering, held[g] > now
  PROVE  job[g] # e
<1> SUFFICES ASSUME job[g] = e PROVE FALSE
  OBVIOUS
<1>1. receipt[e].status = "processing" /\ receipt[e].started + StaleAfter = held[g]
  BY DEF Reserved
<1>2. now - receipt[e].started >= StaleAfter
  BY <1>1 DEF Begin, MayReserve
<1>3. /\ now \in Nat /\ held[g] \in Nat /\ StaleAfter \in Nat
      /\ receipt[e].started \in Nat
  BY MemoryAssumption DEF Typed, TypeOK
<1>4. QED
  BY <1>1, <1>2, <1>3

(* Who holds its event after a step held the same one before, or took it.   *)
LEMMA HeldBefore ==
  ASSUME Typed, [Next]_vars, NEW g \in Handlers, pc'[g] \in Answering, held'[g] > now'
  PROVE  \/ /\ pc[g] \in Answering /\ held[g] > now
            /\ job'[g] = job[g] /\ held'[g] = held[g]
         \/ \E e \in Events : Begin(g, e)
<1>1. now \in Nat /\ now' \in Nat /\ now <= now' /\ held[g] \in Nat
  BY ClockStep DEF Typed, TypeOK
<1>2. CASE pc[g] \in Answering /\ job'[g] = job[g] /\ held'[g] \in {held[g], 0}
  BY <1>1, <1>2
<1>3. QED
  BY <1>2, ThreadStep DEF Moved

LEMMA ReservedStep == Typed /\ Reserved /\ [Next]_vars => Reserved'
<1> SUFFICES ASSUME Typed, Reserved, [Next]_vars,
                    NEW g \in Handlers, pc'[g] \in Answering, held'[g] > now'
             PROVE  /\ receipt'[job'[g]].status = "processing"
                    /\ receipt'[job'[g]].started + StaleAfter = held'[g]
  BY DEF Reserved
<1> USE DEF Typed
<1>1. ASSUME NEW e \in Events, Begin(g, e)
      PROVE  /\ receipt'[job'[g]].status = "processing"
             /\ receipt'[job'[g]].started + StaleAfter = held'[g]
  BY <1>1 DEF Begin, TypeOK
<1>2. CASE /\ pc[g] \in Answering /\ held[g] > now
           /\ job'[g] = job[g] /\ held'[g] = held[g]
  <2>1. /\ receipt[job[g]].status = "processing"
        /\ receipt[job[g]].started + StaleAfter = held[g]
        /\ job[g] \in Events
    BY <1>2 DEF Reserved, HasEvent, Answering
  <2>2. CASE UNCHANGED receipt
    BY <1>2, <2>1, <2>2
  <2>3. CASE Forget
    <3>1. held'[g] = 0
      BY <2>3 DEF Forget
    <3>2. QED
      BY <3>1, ClockStep
  <2>4. ASSUME NEW h \in Handlers, NEW e \in Events, Begin(h, e)
        PROVE  receipt'[job[g]] = receipt[job[g]]
    <3>1. job[g] # e
      BY <1>2, <2>4, BeginAlone
    <3>2. QED
      BY <2>1, <2>4, <3>1 DEF Begin, TypeOK
  <2>5. ASSUME NEW h \in Handlers, FinishEvent(h), ~UNCHANGED receipt
        PROVE  receipt'[job[g]] = receipt[job[g]]
    <3>1. /\ receipt' = Finished(h)
          /\ held' = [f \in Handlers |-> IF f \in SameEvent(h) THEN 0 ELSE held[f]]
      BY <2>5 DEF FinishEvent
    <3>2. g \notin SameEvent(h)
      <4>1. g \in SameEvent(h) => held'[g] = 0
        BY <3>1
      <4>2. QED
        BY <4>1, ClockStep
    <3>3. job[g] # job[h]
      BY <1>2, <3>2 DEF SameEvent
    <3>4. QED
      BY <2>1, <3>1, <3>3 DEF Finished, TypeOK
  <2>6. QED
    BY <1>2, <2>1, <2>2, <2>3, <2>4, <2>5, ReceiptSteps
<1>3. QED
  BY <1>1, <1>2, HeldBefore

LEMMA OneAttemptStep == Typed /\ Reserved /\ OneAttempt /\ [Next]_vars => OneAttempt'
<1> SUFFICES ASSUME Typed, Reserved, OneAttempt, [Next]_vars,
                    NEW g \in Handlers, pc'[g] \in Answering, held'[g] > now',
                    NEW h \in Handlers, pc'[h] \in Answering, held'[h] > now',
                    job'[g] = job'[h]
             PROVE  g = h
  BY DEF OneAttempt
<1>1. ASSUME NEW a \in Handlers, NEW b \in Handlers, NEW e \in Events, Begin(a, e), a # b,
             pc'[b] \in Answering, held'[b] > now'
      PROVE  job'[b] # job'[a]
  <2>1. job'[a] = e /\ pc'[b] = pc[b] /\ job'[b] = job[b] /\ held'[b] = held[b] /\ now' = now
    BY <1>1 DEF Begin, Goto, Typed, TypeOK
  <2>2. QED
    BY <1>1, <2>1, BeginAlone
<1>2. CASE \E e \in Events : Begin(g, e)
  BY <1>1, <1>2
<1>3. CASE \E e \in Events : Begin(h, e)
  BY <1>1, <1>3
<1>4. QED
  BY <1>2, <1>3, HeldBefore DEF OneAttempt

LEMMA AnsweringAlways == Spec => [](Reserved /\ OneAttempt)
<1>1. Init => Reserved /\ OneAttempt
  BY DEF Init, Reserved, OneAttempt, Answering
<1>2. Typed /\ Reserved /\ OneAttempt /\ [Next]_vars => Reserved' /\ OneAttempt'
  BY ReservedStep, OneAttemptStep
<1>3. QED
  BY <1>1, <1>2, TypedAlways, PTL DEF Spec

(* An event that LINE delivers again while it is being answered is not      *)
(* answered twice, however slow the answers and whoever clears the chat:    *)
(* reserve_event refuses it for exactly as long as the first attempt has    *)
(* its receipt.                                                             *)
THEOREM OneAttemptAlways == Spec => []OneAttempt
<1>1. QED
  BY AnsweringAlways, PTL

LEMMA DeliveredStep ==
  ASSUME Typed, Reserved, [Next]_vars, NEW e \in Events, receipt[e].status = "delivered"
  PROVE  \/ receipt'[e].status \in {"delivered", "none"}
         \/ \E h \in Handlers : job[h] = e /\ pc[h] = "undelivered" /\ held[h] <= now
<1> USE DEF Typed
<1>1. CASE UNCHANGED receipt
  BY <1>1
<1>2. CASE Forget
  BY <1>2 DEF Forget, NoReceipt
<1>3. ASSUME NEW h \in Handlers, NEW d \in Events, Begin(h, d)
      PROVE  receipt'[e] = receipt[e]
  BY <1>3 DEF Begin, MayReserve, TypeOK
<1>4. ASSUME NEW h \in Handlers, FinishEvent(h), ~UNCHANGED receipt,
             receipt'[e].status \notin {"delivered", "none"}
      PROVE  job[h] = e /\ pc[h] = "undelivered" /\ held[h] <= now
  <2>1. receipt' = Finished(h) /\ pc[h] \in {"delivered", "undelivered"}
    BY <1>4 DEF FinishEvent
  <2>2. job[h] = e
    BY <1>4, <2>1 DEF Finished, TypeOK
  <2>3. pc[h] = "undelivered"
    BY <1>4, <2>1, <2>2 DEF Finished, TypeOK
  <2>4. ~(held[h] > now)
    BY <2>2, <2>3 DEF Reserved, Answering
  <2>5. QED
    BY <2>2, <2>3, <2>4 DEF TypeOK
<1>5. QED
  BY <1>1, <1>2, <1>3, <1>4, ReceiptSteps

(* A delivered event stays delivered: finish_event writes by the event's    *)
(* key alone, but an attempt that still holds its reservation has found no  *)
(* delivered receipt.  Only one that was overtaken can take the mark away.  *)
THEOREM DeliveredStaysDeliveredAlways == Spec => DeliveredStaysDelivered
<1>1. Typed /\ Reserved /\ [Next]_vars =>
        [\A e \in Events : receipt[e].status = "delivered" =>
           \/ receipt'[e].status \in {"delivered", "none"}
           \/ \E h \in Handlers : job[h] = e /\ pc[h] = "undelivered" /\ held[h] <= now]_vars
  BY DeliveredStep
<1>2. QED
  BY <1>1, AnsweringAlways, TypedAlways, PTL DEF Spec, DeliveredStaysDelivered

-----------------------------------------------------------------------------
(* The lease is written by a claim and a release, and deleted by a clear.   *)
LEMMA LeaseSteps ==
  ASSUME [Next]_vars
  PROVE  \/ UNCHANGED lease
         \/ Forget
         \/ \E h \in Handlers : Claim(h) /\ ~UNCHANGED lease
         \/ \E h \in Handlers : Release(h)
<1>1. CASE UNCHANGED vars \/ Tick \/ \E o \in Owners : Crash(o)
  BY <1>1 DEF vars, tables, Tick, Crash
<1>2. CASE Unfollow \/ \E e \in user.unsends : Unsend(e)
  BY <1>2 DEF Unfollow, Unsend
<1>3. ASSUME NEW h \in Handlers,
             \/ Snapshot(h) \/ LoadSession(h) \/ ClearCached(h) \/ Reply(h) \/ CommitRefused(h)
             \/ Peek(h) \/ ReadBatch(h) \/ ReadBase(h) \/ ReadRecent(h) \/ ReadRolling(h)
             \/ CommitContext(h) \/ DatabaseFails(h)
      PROVE  UNCHANGED tables
  BY <1>3 DEF Snapshot, LoadSession, ClearCached, Reply, CommitRefused, Peek, ReadBatch,
              ReadBase, ReadRecent, ReadRolling, CommitContext, DatabaseFails
<1>4. ASSUME NEW h \in Handlers,
             \/ CommitExchange(h) \/ FinishEvent(h) \/ StoreSummary(h) \/ StoreProjection(h)
             \/ \E e \in Events : Begin(h, e)
      PROVE  UNCHANGED lease
  BY <1>4 DEF CommitExchange, FinishEvent, StoreSummary, StoreProjection, Begin
<1>5. ASSUME NEW h \in Handlers, ClearScope(h) PROVE Forget
  BY <1>5 DEF ClearScope
<1>6. QED
  BY <1>1, <1>2, <1>3, <1>4, <1>5 DEF Next, HandlerStep, tables

(* A compaction that keeps others out has the lease in its process's name.  *)
Leased ==
  \A h \in Handlers :
    pc[h] \in Compacting /\ held[h] > now =>
      lease = [owner |-> Process[h], until |-> held[h]]

(* A claim finds nobody who still has the lease.                            *)
LEMMA ClaimAlone ==
  ASSUME Typed, Leased, LeaseFree,
         NEW g \in Handlers, pc[g] \in Compacting
  PROVE  ~(held[g] > now)
<1> SUFFICES ASSUME held[g] > now PROVE FALSE
  OBVIOUS
<1>1. lease.owner = Process[g] /\ lease.until = held[g]
  BY DEF Leased
<1>2. Process[g] # NoOwner
  BY MemoryAssumption
<1>3. now \in Nat /\ held[g] \in Nat
  BY DEF Typed, TypeOK
<1>4. QED
  BY <1>1, <1>2, <1>3 DEF LeaseFree

(* Who keeps others out after a step did so before, or has just claimed.    *)
LEMMA CompactsBefore ==
  ASSUME Typed, [Next]_vars, NEW g \in Handlers, pc'[g] \in Compacting, held'[g] > now'
  PROVE  \/ pc[g] \in Compacting /\ held[g] > now /\ held'[g] = held[g]
         \/ Claim(g) /\ LeaseFree
<1>1. now \in Nat /\ now' \in Nat /\ now <= now' /\ held[g] \in Nat
  BY ClockStep DEF Typed, TypeOK
<1>2. CASE pc[g] \in Compacting /\ held'[g] \in {held[g], 0}
  BY <1>1, <1>2
<1>3. CASE Claim(g)
  <2>1. ~Goto(g, "recent")
    BY DEF Typed, TypeOK, Goto, Compacting
  <2>2. QED
    BY <1>3, <2>1 DEF Claim
<1>4. QED
  BY <1>2, <1>3, ThreadStep DEF Moved

LEMMA LeasedStep == Typed /\ Leased /\ [Next]_vars => Leased'
<1> SUFFICES ASSUME Typed, Leased, [Next]_vars,
                    NEW g \in Handlers, pc'[g] \in Compacting, held'[g] > now'
             PROVE  lease' = [owner |-> Process[g], until |-> held'[g]]
  BY DEF Leased
<1>1. CASE Claim(g) /\ LeaseFree
  BY <1>1 DEF Claim, Typed, TypeOK
<1>2. CASE pc[g] \in Compacting /\ held[g] > now /\ held'[g] = held[g]
  <2>1. lease = [owner |-> Process[g], until |-> held[g]]
    BY <1>2 DEF Leased
  <2>2. held'[g] # 0
    BY ClockStep
  <2>3. ~Forget
    BY <2>2 DEF Forget
  <2>4. ASSUME NEW h \in Handlers, Claim(h) PROVE UNCHANGED lease
    BY <1>2, <2>4, ClaimAlone DEF Claim
  <2>5. ASSUME NEW h \in Handlers, Release(h) PROVE UNCHANGED lease
    <3>1. Process[g] # Process[h]
      BY <1>2, <2>2, <2>5 DEF Release, Compactors
    <3>2. QED
      BY <2>1, <2>5, <3>1 DEF Release
  <2>6. QED
    BY <1>2, <2>1, <2>3, <2>4, <2>5, LeaseSteps
<1>3. QED
  BY <1>1, <1>2, CompactsBefore

LEMMA OneCompactorStep == Typed /\ Leased /\ OneCompactor /\ [Next]_vars => OneCompactor'
<1> SUFFICES ASSUME Typed, Leased, OneCompactor, [Next]_vars,
                    NEW g \in Handlers, pc'[g] \in Compacting, held'[g] > now',
                    NEW h \in Handlers, pc'[h] \in Compacting, held'[h] > now'
             PROVE  g = h
  BY DEF OneCompactor
<1>1. ASSUME NEW a \in Handlers, NEW b \in Handlers, Claim(a), LeaseFree, a # b,
             pc'[b] \in Compacting, held'[b] > now'
      PROVE  FALSE
  <2>1. pc'[b] = pc[b]
    BY <1>1 DEF Claim, Goto, Typed, TypeOK
  <2>2. ~Claim(b)
    BY <1>1, <2>1 DEF Claim, Compacting
  <2>3. QED
    BY <1>1, <2>2, CompactsBefore, ClaimAlone
<1>2. QED
  BY <1>1, CompactsBefore DEF OneCompactor

LEMMA CompactingAlways == Spec => [](Leased /\ OneCompactor)
<1>1. Init => Leased /\ OneCompactor
  BY DEF Init, Leased, OneCompactor, Compacting
<1>2. Typed /\ Leased /\ OneCompactor /\ [Next]_vars => Leased' /\ OneCompactor'
  BY LeasedStep, OneCompactorStep
<1>3. QED
  BY <1>1, <1>2, TypedAlways, PTL DEF Spec

(* One thread at a time compacts the chat for as long as it has its lease,  *)
(* across processes and within one, however slow the model is: although     *)
(* release_compaction deletes whatever lease is its process's, and a clear  *)
(* whatever there is, neither takes one from a thread that still counts on  *)
(* it.                                                                      *)
THEOREM OneCompactorAlways == Spec => []OneCompactor
<1>1. QED
  BY CompactingAlways, PTL

-----------------------------------------------------------------------------
(* Threads that compact at the same time know of it.                        *)
Crowding ==
  \A g, h \in Handlers :
    pc[g] \in Compacting /\ pc[h] \in Compacting /\ g # h => g \in crowded

LEMMA CrowdingStep == Typed /\ Crowding /\ [Next]_vars => Crowding'
<1> SUFFICES ASSUME Typed, Crowding, [Next]_vars,
                    NEW g \in Handlers, pc'[g] \in Compacting,
                    NEW h \in Handlers, pc'[h] \in Compacting, g # h
             PROVE  g \in crowded'
  BY DEF Crowding
<1>1. ASSUME NEW a \in Handlers, NEW b \in Handlers, a # b, Claim(a),
             pc'[a] \in Compacting, pc'[b] \in Compacting
      PROVE  {a, b} \subseteq crowded'
  <2>1. pc'[b] = pc[b]
    BY <1>1 DEF Claim, Goto, Typed, TypeOK
  <2>2. b \in Compactors
    BY <1>1, <2>1 DEF Compactors
  <2>3. ~Goto(a, "recent")
    BY <1>1 DEF Typed, TypeOK, Goto, Compacting
  <2>4. QED
    BY <1>1, <2>2, <2>3 DEF Claim
<1>2. CASE Claim(g)
  BY <1>1, <1>2
<1>3. CASE Claim(h)
  BY <1>1, <1>3
<1>4. CASE ~Claim(g) /\ ~Claim(h)
  <2>1. pc[g] \in Compacting /\ pc[h] \in Compacting /\ (g \in crowded => g \in crowded')
    BY <1>4, ThreadStep DEF Moved
  <2>2. QED
    BY <2>1 DEF Crowding
<1>5. QED
  BY <1>2, <1>3, <1>4

(* The rolling summary has what a thread read of it, as long as no other    *)
(* compacts beside it and it has not stored its own.                        *)
BaseIsFresh ==
  \A h \in Handlers :
    pc[h] = "storing" /\ h \notin crowded /\ General \in todo[h]
    => summary[General].content \subseteq base[h]

(* Once it has, its batch is marked.                                        *)
BatchIsMarked ==
  \A h \in Handlers :
    pc[h] = "storing" /\ General \notin todo[h]
    => \A i \in batch[h] : rows[i].summarized

HistoryInv == Crowding /\ BaseIsFresh /\ BatchIsMarked

(* What a store does, or else that it raises.                               *)
LEMMA StoreEffect ==
  ASSUME Typed, NEW h \in Handlers, StoreSummary(h)
  PROVE  \/ UNCHANGED <<summary, rows, todo>>
         \/ \E k \in todo[h] :
              /\ General \in todo[h] => k = General
              /\ todo'[h] = todo[h] \ {k} /\ todo' # todo
              /\ \A g \in Handlers : g # h => todo'[g] = todo[g]
              /\ summary'[k] = NewSummary(h, k)
              /\ \A t \in AllTopics : t # k => summary'[t] = summary[t]
              /\ \A i \in Ids : rows'[i].summarized
                                  <=> rows[i].summarized \/ i \in SourcesFor(h, k)
<1>1. rows \in Seq(Exchange)
  BY DEF Typed, TypeOK, Exchange
<1>2. \A i \in Ids : rows[i] \in Exchange
  BY <1>1, ElementOfSeq, LenProperties DEF Ids
<1>3. ASSUME NEW k \in AllTopics, NextTopic(h, k),
             summary' = [summary EXCEPT ![k] = NewSummary(h, k)],
             rows' = [i \in Ids |-> [rows[i] EXCEPT
                        !.summarized = @ \/ i \in SourcesFor(h, k)]],
             todo' = [todo EXCEPT ![h] = @ \ {k}]
      PROVE  /\ k \in todo[h]
             /\ General \in todo[h] => k = General
             /\ todo'[h] = todo[h] \ {k} /\ todo' # todo
             /\ \A g \in Handlers : g # h => todo'[g] = todo[g]
             /\ summary'[k] = NewSummary(h, k)
             /\ \A t \in AllTopics : t # k => summary'[t] = summary[t]
             /\ \A i \in Ids : rows'[i].summarized
                                 <=> rows[i].summarized \/ i \in SourcesFor(h, k)
  <2>1. k \in todo[h] /\ (General \in todo[h] => k = General)
    BY <1>3 DEF NextTopic
  <2>2. /\ todo'[h] = todo[h] \ {k}
        /\ \A g \in Handlers : g # h => todo'[g] = todo[g]
    BY <1>3 DEF Typed, TypeOK
  <2>3. /\ summary'[k] = NewSummary(h, k)
        /\ \A t \in AllTopics : t # k => summary'[t] = summary[t]
    BY <1>3 DEF Typed, TypeOK
  <2>4. \A i \in Ids : rows'[i].summarized
                         <=> rows[i].summarized \/ i \in SourcesFor(h, k)
    BY <1>2, <1>3 DEF Exchange
  <2>5. todo' # todo
    BY <2>1, <2>2
  <2>6. QED
    BY <2>1, <2>2, <2>3, <2>4, <2>5
<1>4. QED
  BY <1>3 DEF StoreSummary

(* Apart from a store, a step takes from the rolling summary or leaves it,  *)
(* and marks no exchange and unmarks none.                                  *)
LEMMA SummaryKept ==
  ASSUME Typed, [Next]_vars, \A h \in Handlers : ~StoreSummary(h)
  PROVE  /\ summary'[General].content \subseteq summary[General].content
         /\ \A i \in Ids : rows'[i].summarized <=> rows[i].summarized
<1> USE DEF Typed
<1>0. General \in AllTopics
  BY DEF AllTopics
<1>1. \A i \in Ids : rows[i] \in Exchange
  <2>1. rows \in Seq(Exchange)
    BY DEF TypeOK, Exchange
  <2>2. QED
    BY <2>1, ElementOfSeq, LenProperties DEF Ids
<1>2. CASE Forget
  BY <1>0, <1>1, <1>2 DEF Forget, Exchange, NoSummary
<1>3. ASSUME NEW h \in Handlers, CommitExchange(h)
      PROVE  UNCHANGED summary /\ \A i \in Ids : rows'[i] = rows[i]
  BY <1>3, CommitType DEF CommitExchange
<1>4. ASSUME NEW e \in user.unsends, Unsend(e)
      PROVE  /\ summary'[General].content \subseteq summary[General].content
             /\ \A i \in Ids : rows'[i].summarized <=> rows[i].summarized
  BY <1>0, <1>1, <1>4 DEF Unsend, Exchange, NoSummary
<1>5. QED
  BY <1>2, <1>3, <1>4, TableSteps

LEMMA FreshStep == Typed /\ HistoryInv /\ [Next]_vars => BaseIsFresh'
<1> SUFFICES ASSUME Typed, HistoryInv, [Next]_vars,
                    NEW g \in Handlers, pc'[g] = "storing", g \notin crowded',
                    General \in todo'[g]
             PROVE  summary'[General].content \subseteq base'[g]
  BY DEF BaseIsFresh
<1> USE DEF Typed
<1>1. CASE ReadBase(g)
  BY <1>1 DEF ReadBase, tables, TypeOK
<1>2. CASE StoreSummary(g)
  <2>1. General \in todo[g] => UNCHANGED <<summary, rows, todo>>
    BY <1>2, StoreEffect
  <2>2. General \in todo[g]
    BY <1>2, StoreEffect
  <2>3. /\ pc[g] = "storing" /\ base' = base /\ crowded' = crowded
    BY <1>2 DEF StoreSummary, history
  <2>4. QED
    BY <2>1, <2>2, <2>3 DEF HistoryInv, BaseIsFresh
<1>3. CASE pc[g] = "storing" /\ base'[g] = base[g] /\ todo'[g] = todo[g]
  <2>1. g \notin crowded
    <3>1. ~Claim(g)
      BY <1>3 DEF Claim
    <3>2. QED
      BY <3>1, ThreadStep DEF Moved, Compacting
  <2>2. summary[General].content \subseteq base[g]
    BY <1>3, <2>1 DEF HistoryInv, BaseIsFresh
  <2>3. ASSUME NEW h \in Handlers, StoreSummary(h) PROVE summary' = summary
    <3>1. CASE h = g
      BY <1>3, <2>3, <3>1, StoreEffect
    <3>2. CASE h # g
      <4>1. g \in crowded
        BY <1>3, <2>3, <3>2 DEF HistoryInv, Crowding, StoreSummary, Compacting
      <4>2. QED
        BY <2>1, <4>1
    <3>3. QED
      BY <3>1, <3>2
  <2>4. QED
    BY <1>3, <2>2, <2>3, SummaryKept
<1>4. QED
  BY <1>1, <1>2, <1>3, ThreadStep DEF Moved

LEMMA MarkedStep == Typed /\ HistoryInv /\ [Next]_vars => BatchIsMarked'
<1> SUFFICES ASSUME Typed, HistoryInv, [Next]_vars,
                    NEW g \in Handlers, pc'[g] = "storing", General \notin todo'[g],
                    NEW i \in batch'[g]
             PROVE  rows'[i].summarized
  BY DEF BatchIsMarked
<1> USE DEF Typed
<1>1. batch'[g] = batch[g] /\ i \in batch[g] /\ i \in Ids
  <2>1. batch'[g] = batch[g]
    BY ThreadStep DEF Moved
  <2>2. QED
    BY <2>1 DEF TypeOK
<1>2. rows[i].summarized => rows'[i].summarized
  <2>1. ASSUME NEW h \in Handlers, StoreSummary(h)
        PROVE  rows[i].summarized => rows'[i].summarized
    BY <1>1, <2>1, StoreEffect
  <2>2. QED
    BY <1>1, <2>1, SummaryKept
<1>3. CASE ReadBase(g)
  <2>1. Goto(g, "releasing") => pc'[g] = "releasing"
    BY DEF TypeOK, Goto
  <2>2. PICK stocks \in SUBSET StocksOf(batch[g]) :
          todo' = [todo EXCEPT ![g] = {General} \cup stocks]
    BY <1>3, <2>1 DEF ReadBase
  <2>3. QED
    BY <2>2 DEF TypeOK
<1>4. CASE StoreSummary(g)
  <2>1. CASE General \notin todo[g]
    BY <1>1, <1>2, <1>4, <2>1 DEF HistoryInv, BatchIsMarked, StoreSummary
  <2>2. CASE General \in todo[g]
    <3>1. SourcesFor(g, General) = batch[g]
      BY DEF SourcesFor
    <3>2. QED
      BY <1>1, <1>4, <2>2, <3>1, StoreEffect
  <2>3. QED
    BY <2>1, <2>2
<1>5. CASE pc[g] = "storing" /\ base'[g] = base[g] /\ todo'[g] = todo[g]
  BY <1>1, <1>2, <1>5 DEF HistoryInv, BatchIsMarked
<1>6. QED
  BY <1>3, <1>4, <1>5, ThreadStep DEF Moved

LEMMA HistoryAlways == Spec => []HistoryInv
<1>1. Init => HistoryInv
  BY DEF Init, HistoryInv, Crowding, BaseIsFresh, BatchIsMarked, Compacting
<1>2. Typed /\ HistoryInv /\ [Next]_vars => HistoryInv'
  BY CrowdingStep, FreshStep, MarkedStep DEF HistoryInv
<1>3. QED
  BY <1>1, <1>2, TypedAlways, PTL DEF Spec

LEMMA SkipStep ==
  ASSUME Typed, HistoryInv, [Next]_vars, NEW i \in Ids, ~Skipped(i), Skipped(i)'
  PROVE  \/ \E j \in Ids : rows'[j].deleted /\ ~rows[j].deleted
         \/ \E h \in crowded : pc[h] = "storing" /\ todo'[h] # todo[h]
<1> USE DEF Typed
<1>1. CASE Forget
  BY <1>1, ForgetType DEF Skipped, Live
<1>2. ASSUME NEW e \in user.unsends, Unsend(e)
      PROVE  \E j \in Ids : rows'[j].deleted /\ ~rows[j].deleted
  <2>1. e \in Events
    BY UnsendsEvents
  <2>2. PICK j \in Ids : j \in Suppressed(e)
    BY <1>2 DEF Unsend, Suppressed
  <2>3. ~rows[j].deleted
    BY <2>2 DEF Suppressed, Live
  <2>4. rows'[j].deleted
    BY <1>2, <2>1, <2>2, UnsendType
  <2>5. QED
    BY <2>3, <2>4
<1>3. ASSUME NEW h \in Handlers, StoreSummary(h) PROVE h \in crowded /\ todo'[h] # todo[h]
  <2>1. Live(i)
    BY <1>3, StoreType DEF Skipped, Live
  <2>2. ~UNCHANGED <<summary, rows, todo>>
    BY DEF Skipped, Live
  <2>3. PICK k \in todo[h] :
          /\ General \in todo[h] => k = General
          /\ todo'[h] = todo[h] \ {k}
          /\ summary'[k] = NewSummary(h, k)
          /\ \A t \in AllTopics : t # k => summary'[t] = summary[t]
          /\ \A j \in Ids : rows'[j].summarized
                              <=> rows[j].summarized \/ j \in SourcesFor(h, k)
    BY <1>3, <2>2, StoreEffect
  <2>4. pc[h] = "storing" /\ General \in AllTopics
    BY <1>3 DEF StoreSummary, AllTopics
  <2>5. CASE k # General
    <3>1. summary'[General] = summary[General]
      BY <2>3, <2>4, <2>5
    <3>2. ~rows[i].summarized /\ i \in SourcesFor(h, k)
      BY <2>1, <2>3, <3>1 DEF Skipped
    <3>3. i \in batch[h] /\ General \notin todo[h]
      BY <2>3, <2>5, <3>2 DEF SourcesFor
    <3>4. QED
      BY <2>4, <3>2, <3>3 DEF HistoryInv, BatchIsMarked
  <2>6. CASE k = General
    <3>1. summary'[General].content = base[h] \cup batch[h] /\ SourcesFor(h, k) = batch[h]
      BY <2>3, <2>6 DEF NewSummary, SourcesFor
    <3>2. i \notin base[h] \cup batch[h]
      BY <3>1 DEF Skipped
    <3>3. rows[i].summarized
      BY <2>3, <3>1, <3>2 DEF Skipped
    <3>4. i \in summary[General].content
      BY <2>1, <3>3 DEF Skipped
    <3>5. h \in crowded
      BY <2>3, <2>4, <2>6, <3>2, <3>4 DEF HistoryInv, BaseIsFresh
    <3>6. todo'[h] # todo[h]
      BY <2>3
    <3>7. QED
      BY <3>5, <3>6
  <2>7. QED
    BY <2>5, <2>6
<1>4. ASSUME NEW h \in Handlers, CommitExchange(h) PROVE FALSE
  <2>1. rows'[i] = rows[i] /\ summary' = summary
    BY <1>4, CommitType DEF CommitExchange
  <2>2. QED
    BY <2>1 DEF Skipped, Live
<1>5. CASE UNCHANGED <<rows, session, summary>>
  BY <1>5 DEF Skipped, Live
<1>6. \A h \in Handlers : StoreSummary(h) => pc[h] = "storing"
  BY DEF StoreSummary
<1>7. QED
  BY <1>1, <1>2, <1>3, <1>4, <1>5, <1>6, TableSteps

(* The rolling summary skips no exchange while compactions do not overlap,  *)
(* whatever is slow, fails, crashes or is cleared: the base is read under   *)
(* the same lease as the batch.  An overlap and an unsend are the only ways *)
(* to lose one.                                                             *)
THEOREM HistoryNotSkippedAlways == Spec => HistoryNotSkipped
<1>1. Typed /\ HistoryInv /\ [Next]_vars =>
        [\A i \in Ids : ~Skipped(i) /\ Skipped(i)' =>
           \/ \E j \in Ids : rows'[j].deleted /\ ~rows[j].deleted
           \/ \E h \in crowded : pc[h] = "storing" /\ todo'[h] # todo[h]]_vars
  BY SkipStep
<1>2. QED
  BY <1>1, HistoryAlways, TypedAlways, PTL DEF Spec, HistoryNotSkipped
=============================================================================
