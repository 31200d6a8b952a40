--------------------------- MODULE EventReconciler ---------------------------
(***************************************************************************)
(* reconcile_research_events: turns the news items that retrieval left     *)
(* into event clusters and a chain of sealed revisions per cluster.  A     *)
(* call reads the items visible at its cutoff, and only then opens the     *)
(* savepoint in which it writes all clusters, revisions and links, so      *)
(* other calls, retrieval and retention may come in between.  A cluster    *)
(* is named by its dedup key: the entities and the normalized title.  The  *)
(* entities are those of the run that retrieved the item last, so that an  *)
(* item which is retrieved for another stock changes its key.  Its content *)
(* hash covers its source, publisher, URL and title: no two items share    *)
(* one, and an item stands for its own source reference.                   *)
(***************************************************************************)
EXTENDS Integers, Sequences, FiniteSets

CONSTANTS
  Items,      \* news_item_id values
  Keys,       \* dedup_cluster values
  KeysOf,     \* the dedup_cluster values that retrievals may give an item
  Identified, \* keys with at least one entity
  Title,      \* title of an item; within a key, titles differ in punctuation only
  Class,      \* source class of an item: "official", "licensed" or "radar"
  Available,  \* available_at of an item
  Retention,  \* content_retention_days
  Calls,      \* calls of reconcile_research_events that may overlap
  Limit,      \* the limit argument
  Unlinked,   \* event_cluster_id and event_revision_id are NULL
  Horizon     \* bound on the clock

ASSUME ReconcilerAssumption ==
  /\ KeysOf \in [Items -> (SUBSET Keys) \ {{}}] /\ Identified \subseteq Keys
  /\ DOMAIN Title = Items
  /\ Class \in [Items -> {"official", "licensed", "radar"}]
  /\ Available \in [Items -> Nat]
  /\ Retention \in Nat /\ Limit \in Nat /\ Horizon \in Nat
  /\ Unlinked \notin [key : Keys, no : Nat]

VARIABLES
  now,      \* the wall clock
  item,     \* research_news_item: standing, content_expires_at, dedup_cluster
  link,     \* event_cluster_id and event_revision_id of an item
  cluster,  \* keys that have an event_cluster row
  revision, \* event_revision rows of a key, by revision_no
  call      \* locals of each call: cutoff and the groups of pending items it read

vars == <<now, item, link, cluster, revision, call>>

Standings == {"absent", "radar", "qualified", "pruned"}
Idle == [pc |-> "idle", cutoff |-> 0, group |-> [i \in {} |-> {}], vouched |-> {}]
NewItem(i) == [standing |-> "absent", expires |-> 0, key |-> CHOOSE k \in KeysOf[i] : TRUE]

(* A revision holds the items it refers to, those of them that carried a   *)
(* verification when they were read, and its key points.                   *)
Revisions == [refs : SUBSET Items, vouched : SUBSET Items,
              points : SUBSET {Title[i] : i \in Items}, cutoff : Nat]

(* The key of each pending item as it was read.                            *)
Groups == UNION {[S -> Keys] : S \in SUBSET Items}

TypeOK ==
  /\ now \in Nat
  /\ item \in [Items -> [standing : Standings, expires : Nat, key : Keys]]
  /\ link \in [Items -> [key : Keys, no : Nat] \cup {Unlinked}]
  /\ cluster \subseteq Keys
  /\ revision \in [Keys -> Seq(Revisions)]
  /\ call \in [Calls -> [pc : {"idle", "read"}, cutoff : Nat, group : Groups,
                         vouched : SUBSET Items]]

Init ==
  /\ now = 0
  /\ item = [i \in Items |-> NewItem(i)]
  /\ link = [i \in Items |-> Unlinked]
  /\ cluster = {}
  /\ revision = [k \in Keys |-> <<>>]
  /\ call = [c \in Calls |-> Idle]

-----------------------------------------------------------------------------
(* Retrieval and retention, which run beside the reconciler.               *)

Tick ==
  /\ now < Horizon
  /\ now' = now + 1
  /\ UNCHANGED <<item, link, cluster, revision, call>>

(* What the adapter may say of an item's verification, each time anew.     *)
StandingsOf(i) ==
  CASE Class[i] = "official" -> {"qualified"}
    [] Class[i] = "licensed" -> {"qualified", "radar"}
    [] OTHER -> {"radar"}

(* The row keeps its expiry, its link and a tombstone; the standing and    *)
(* the key are those of this retrieval.                                    *)
Retrieve(i) ==
  /\ now >= Available[i]
  /\ \E s \in StandingsOf(i), k \in KeysOf[i] :
       item' = [item EXCEPT ![i] =
         [standing |-> IF @.standing = "pruned" THEN "pruned" ELSE s,
          expires |-> IF @.standing = "absent" THEN now + Retention ELSE @.expires,
          key |-> k]]
  /\ UNCHANGED <<now, link, cluster, revision, call>>

Prune ==
  /\ item' = [i \in Items |->
       IF item[i].standing # "absent" /\ item[i].expires <= now
         THEN [item[i] EXCEPT !.standing = "pruned"] ELSE item[i]]
  /\ UNCHANGED <<now, link, cluster, revision, call>>

-----------------------------------------------------------------------------
(* A call: the read before the savepoint.  A call that finds nothing, or   *)
(* more than its limit, returns or raises here and changes nothing.        *)

VisibleUndated(i, cutoff) ==
  item[i].standing \in {"radar", "qualified"} /\ cutoff <= item[i].expires
Visible(i, cutoff) ==
  /\ item[i].standing \in {"radar", "qualified"}
  /\ Available[i] <= cutoff /\ cutoff <= item[i].expires

Pending(cutoff) == {i \in Items : Visible(i, cutoff) /\ link[i] = Unlinked}

Read(c, cutoff) ==
  /\ call[c].pc = "idle" /\ cutoff <= now
  /\ Pending(cutoff) # {} /\ Cardinality(Pending(cutoff)) <= Limit
  /\ call' = [call EXCEPT ![c] =
       [pc |-> "read", cutoff |-> cutoff,
        group |-> [i \in Pending(cutoff) |-> item[i].key],
        vouched |-> {i \in Pending(cutoff) : item[i].standing = "qualified"}]]
  /\ UNCHANGED <<now, item, link, cluster, revision>>

-----------------------------------------------------------------------------
(* The savepoint.  Its operators describe what call c does with key k.     *)

Members(c, k) == {i \in DOMAIN call[c].group : call[c].group[i] = k}
Latest(k) == revision[k][Len(revision[k])]

OldRefs(k) == IF revision[k] = <<>> THEN {} ELSE Latest(k).refs
OldVouched(k) == IF revision[k] = <<>> THEN {} ELSE Latest(k).vouched

QualifyingInChain(c, k) == (Members(c, k) \cap call[c].vouched) \cup OldVouched(k)
Qualifying(c, k) == Members(c, k) \cap call[c].vouched

RefsOfBatch(c, k) == Members(c, k)
Refs(c, k) == OldRefs(k) \cup Members(c, k)

(* Radar alone neither founds a cluster nor makes a revision of one.       *)
Resolved(c, k) ==
  /\ k \in Identified /\ Members(c, k) # {}
  /\ Qualifying(c, k) # {} \/ (k \in cluster /\ revision[k] # <<>>)

NewRevision(c, k) ==
  [refs |-> Refs(c, k),
   vouched |-> (OldVouched(k) \ Members(c, k)) \cup Qualifying(c, k),
   points |-> {Title[i] : i \in Members(c, k)},
   cutoff |-> call[c].cutoff]

(* classify_event_revision: with one content hash per item the only        *)
(* relation that makes no revision is "exact_duplicate".                   *)
ExactDuplicate(c, k) ==
  /\ revision[k] # <<>>
  /\ Latest(k).refs = Refs(c, k) /\ Latest(k).points = NewRevision(c, k).points

Promotes(c, k) == Qualifying(c, k) # {} /\ ~ExactDuplicate(c, k)

(* The number of the revision that the members are linked to.              *)
LatestNumber(c, k) == Len(revision[k])
LinkedNumber(c, k) == Len(revision[k]) + (IF Promotes(c, k) THEN 1 ELSE 0)

MayLinkInCluster(c, k) ==
  \A i \in Members(c, k) : link[i] # Unlinked => link[i].key = k
MayLink(c, k) ==
  \A i \in Members(c, k) : link[i] \in {Unlinked, [key |-> k, no |-> LinkedNumber(c, k)]}

(* UNIQUE(event_cluster_id, revision_digest).                              *)
DigestIsNew(c, k) ==
  \A n \in 1..Len(revision[k]) :
    [revision[k][n] EXCEPT !.cutoff = call[c].cutoff] # NewRevision(c, k)

Commit(c) ==
  /\ call[c].pc = "read"
  /\ \A k \in Keys : Resolved(c, k) =>
       MayLink(c, k) /\ (Promotes(c, k) => DigestIsNew(c, k))
  /\ cluster' = cluster \cup {k \in Keys : Resolved(c, k)}
  /\ revision' = [k \in Keys |->
       IF Resolved(c, k) /\ Promotes(c, k)
         THEN Append(revision[k], NewRevision(c, k)) ELSE revision[k]]
  /\ link' = [i \in Items |->
       IF \E k \in Keys : i \in Members(c, k) /\ Resolved(c, k)
         THEN [key |-> call[c].group[i], no |-> LinkedNumber(c, call[c].group[i])]
         ELSE link[i]]
  /\ call' = [call EXCEPT ![c] = Idle]
  /\ UNCHANGED <<now, item>>

(* The savepoint is rolled back, or the process dies before it commits.    *)
Abandon(c) ==
  /\ call[c].pc = "read"
  /\ call' = [call EXCEPT ![c] = Idle]
  /\ UNCHANGED <<now, item, link, cluster, revision>>

Next ==
  \/ Tick
  \/ \E i \in Items : Retrieve(i)
  \/ Prune
  \/ \E c \in Calls : \/ \E cutoff \in 0..Horizon : Read(c, cutoff)
                      \/ Commit(c)
                      \/ Abandon(c)

Spec == Init /\ [][Next]_vars

-----------------------------------------------------------------------------
(* Properties.                                                             *)

(* Each revision cites everything that the one it supersedes cites, and    *)
(* something new: no evidence is lost, and no revision repeats another,    *)
(* when calls overlap or come with cutoffs out of order.                   *)
EvidenceGrows ==
  \A k \in Keys : \A n \in 1..(Len(revision[k]) - 1) :
    revision[k][n].refs \subseteq revision[k][n + 1].refs
      /\ revision[k][n].refs # revision[k][n + 1].refs

FirstCited(k, n, i) ==
  i \in revision[k][n].refs /\ (n > 1 => i \notin revision[k][n - 1].refs)

(* An item carries the number of the revision that cites it first: the     *)
(* links written by link_research_items_to_event_revision and the source   *)
(* references of the chain tell one story.                                 *)
CitedAreLinked ==
  \A k \in Keys : \A n \in 1..Len(revision[k]) : \A i \in Items :
    FirstCited(k, n, i) => link[i] = [key |-> k, no |-> n]

(* Every revision rests on a verified item that no earlier revision of     *)
(* the cluster had, a cluster exists only with a revision, and an item is  *)
(* linked only to a revision that exists: radar is attached to events but  *)
(* never makes or revises one, and an item that meanwhile moved to another *)
(* key brings neither the old event nor the new one a revision by itself.  *)
RadarNeverPromotes ==
  /\ \A k \in Keys : \A n \in 1..Len(revision[k]) :
       \E i \in revision[k][n].vouched : FirstCited(k, n, i)
  /\ \A k \in Keys : k \in cluster <=> revision[k] # <<>>
  /\ \A i \in Items : link[i] # Unlinked => link[i].no \in 1..Len(revision[link[i].key])

(* An item enters the evidence with a revision at whose cutoff it was      *)
(* public and not yet expired, whatever cutoffs the other calls had.       *)
PointInTime ==
  \A k \in Keys : \A n \in 1..Len(revision[k]) : \A i \in Items :
    FirstCited(k, n, i) =>
      Available[i] <= revision[k][n].cutoff /\ revision[k][n].cutoff <= item[i].expires

(* A link is final and revisions are only appended.                        *)
SealedForGood ==
  [][/\ \A i \in Items : link[i] # Unlinked => link'[i] = link[i]
     /\ \A k \in Keys : /\ Len(revision'[k]) >= Len(revision[k])
                        /\ \A n \in 1..Len(revision[k]) : revision'[k][n] = revision[k][n]]_vars
=============================================================================
