------------------------ MODULE EventReconcilerProofs ------------------------
(***************************************************************************)
(* The properties of EventReconciler for any items, keys, number of        *)
(* overlapping calls and order of cutoffs.                                 *)
(***************************************************************************)
EXTENDS EventReconciler, TLAPS

(* What a call has read was visible at its cutoff.                         *)
ReadsVisible ==
  \A c \in Calls :
    /\ call[c].vouched \subseteq DOMAIN call[c].group
    /\ \A i \in DOMAIN call[c].group :
         /\ item[i].standing # "absent"
         /\ Available[i] <= call[c].cutoff
         /\ call[c].cutoff <= item[i].expires

(* A cited item is linked, to a revision no later than the one citing it.  *)
CitedEarlier ==
  \A k \in Keys : \A n \in 1..Len(revision[k]) : \A i \in revision[k][n].refs :
    link[i] # Unlinked

LinksExist ==
  \A i \in Items : link[i] # Unlinked =>
    /\ link[i].no \in 1..Len(revision[link[i].key])
    /\ item[i].standing # "absent"

IInv ==
  /\ TypeOK
  /\ ReadsVisible
  /\ CitedEarlier
  /\ LinksExist
  /\ EvidenceGrows
  /\ CitedAreLinked
  /\ RadarNeverPromotes
  /\ PointInTime

-----------------------------------------------------------------------------
(* What a commit does to one key.                                          *)

LEMMA GroupTyped ==
  ASSUME TypeOK, NEW c \in Calls
  PROVE  /\ DOMAIN call[c].group \subseteq Items
         /\ \A i \in DOMAIN call[c].group : call[c].group[i] \in Keys
BY DEF TypeOK, Groups

LEMMA IdleTyped ==
  Idle \in [pc : {"idle", "read"}, cutoff : Nat, group : Groups, vouched : SUBSET Items]
<1>1. PICK group : group = [i \in {} |-> {}]
  OBVIOUS
<1>2. group \in [{} -> Keys]
  BY <1>1
<1>3. group \in Groups
  BY <1>2 DEF Groups
<1> QED BY <1>1, <1>3 DEF Idle

LEMMA NewItemTyped ==
  ASSUME ReconcilerAssumption, NEW i \in Items
  PROVE  NewItem(i) \in [standing : Standings, expires : Nat, key : Keys]
<1>1. PICK S : S = KeysOf[i]
  OBVIOUS
<1>2. S \subseteq Keys /\ \E k \in S : TRUE
  <2>1. S \in (SUBSET Keys) \ {{}}
    BY <1>1 DEF ReconcilerAssumption
  <2>2. S \subseteq Keys /\ S # {}
    BY <2>1
  <2>3. \E k \in S : TRUE
    BY <2>2, Zenon
  <2> QED BY <2>2, <2>3
<1>3. (CHOOSE k \in S : TRUE) \in Keys
  BY <1>2
<1> QED BY <1>1, <1>3 DEF NewItem, Standings

LEMMA AppendTyped ==
  ASSUME NEW S, NEW s \in Seq(S), NEW e \in S
  PROVE  Append(s, e) \in Seq(S)
  OBVIOUS

LEMMA NewRevisionType ==
  ASSUME TypeOK, NEW c \in Calls, NEW k \in Keys
  PROVE  NewRevision(c, k) \in Revisions
<1>1. OldRefs(k) \in SUBSET Items /\ OldVouched(k) \in SUBSET Items
  <2>1. CASE revision[k] = <<>>
    BY <2>1 DEF OldRefs, OldVouched
  <2>2. CASE revision[k] # <<>>
    <3>1. revision[k] \in Seq(Revisions)
      BY DEF TypeOK
    <3>2. Latest(k) \in Revisions
      BY <2>2, <3>1 DEF Latest
    <3> QED BY <2>2, <3>2 DEF OldRefs, OldVouched, Revisions
  <2> QED BY <2>1, <2>2
<1>2. Members(c, k) \in SUBSET Items /\ Qualifying(c, k) \in SUBSET Items /\ call[c].cutoff \in Nat
  BY GroupTyped DEF TypeOK, Members, Qualifying
<1>3. {Title[i] : i \in Members(c, k)} \in SUBSET {Title[i] : i \in Items}
  BY <1>2
<1>4. Refs(c, k) \in SUBSET Items
      /\ (OldVouched(k) \ Members(c, k)) \cup Qualifying(c, k) \in SUBSET Items
  BY <1>1, <1>2 DEF Refs
<1> QED BY <1>2, <1>3, <1>4 DEF NewRevision, Revisions

Founds(c, k) ==
  /\ revision'[k] = Append(revision[k], NewRevision(c, k))
  /\ Qualifying(c, k) # {}
  /\ \A i \in Members(c, k) :
       link[i] = Unlinked /\ link'[i] = [key |-> k, no |-> Len(revision[k]) + 1]

LEMMA CommitRevises ==
  ASSUME ReconcilerAssumption, TypeOK, LinksExist,
         NEW c \in Calls, Commit(c), NEW k \in Keys
  PROVE  revision'[k] = revision[k] \/ Founds(c, k)
<1> SUFFICES ASSUME Resolved(c, k), Promotes(c, k) PROVE Founds(c, k)
  BY DEF Commit, TypeOK
<1>1. revision'[k] = Append(revision[k], NewRevision(c, k)) /\ Qualifying(c, k) # {}
  BY DEF Commit, Promotes, TypeOK
<1>2. LinkedNumber(c, k) = Len(revision[k]) + 1 /\ Len(revision[k]) \in Nat
  BY DEF LinkedNumber, TypeOK
<1>3. ASSUME NEW i \in Members(c, k) 
      PROVE  link[i] = Unlinked /\ link'[i] = [key |-> k, no |-> Len(revision[k]) + 1]
  <2>1. i \in Items /\ i \in DOMAIN call[c].group /\ call[c].group[i] = k
    BY <1>3, GroupTyped DEF Members
  <2>2. link[i] \in {Unlinked, [key |-> k, no |-> Len(revision[k]) + 1]}
    BY <1>2, <1>3 DEF Commit, MayLink
  <2>3. link[i] # [key |-> k, no |-> Len(revision[k]) + 1]
    BY <1>2, <2>1 DEF LinksExist, ReconcilerAssumption
  <2>4. link'[i] = [key |-> k, no |-> Len(revision[k]) + 1]
    BY <1>2, <1>3, <2>1 DEF Commit
  <2> QED BY <2>2, <2>3, <2>4
<1> QED BY <1>1, <1>3 DEF Founds

LEMMA CommitLinks ==
  ASSUME ReconcilerAssumption, TypeOK, LinksExist,
         NEW c \in Calls, Commit(c), NEW i \in Items
  PROVE  \/ link'[i] = link[i]
         \/ \E k \in Keys :
              /\ link[i] = Unlinked /\ i \in DOMAIN call[c].group
              /\ link'[i] = [key |-> k, no |-> LinkedNumber(c, k)]
              /\ Resolved(c, k)
<1>1. ASSUME NEW k \in Keys, i \in Members(c, k), Resolved(c, k)
      PROVE  \/ link'[i] = link[i]
             \/ /\ link[i] = Unlinked /\ i \in DOMAIN call[c].group
                /\ link'[i] = [key |-> k, no |-> LinkedNumber(c, k)]
  <2>1. link[i] \in {Unlinked, [key |-> k, no |-> LinkedNumber(c, k)]}
    BY <1>1 DEF Commit, MayLink
  <2>2. i \in DOMAIN call[c].group /\ call[c].group[i] = k
    BY <1>1 DEF Members
  <2>3. link'[i] = [key |-> k, no |-> LinkedNumber(c, k)]
    BY <1>1, <2>2 DEF Commit
  <2> QED BY <2>1, <2>2, <2>3
<1>2. CASE ~\E k \in Keys : i \in Members(c, k) /\ Resolved(c, k)
  BY <1>2 DEF Commit
<1> QED BY <1>1, <1>2

(* The chain of a key is kept, and extended by at most one revision.       *)
LEMMA ChainKept ==
  ASSUME ReconcilerAssumption, TypeOK, LinksExist,
         NEW c \in Calls, Commit(c), NEW k \in Keys
  PROVE  /\ Len(revision[k]) \in Nat /\ Len(revision'[k]) \in Nat
         /\ Len(revision'[k]) >= Len(revision[k])
         /\ \A n \in 1..Len(revision[k]) : revision'[k][n] = revision[k][n]
         /\ \A n \in 1..Len(revision'[k]) : n \notin 1..Len(revision[k]) =>
              /\ n = Len(revision[k]) + 1
              /\ Founds(c, k)
              /\ revision'[k][n] = NewRevision(c, k)
<1>1. revision[k] \in Seq(Revisions) /\ Len(revision[k]) \in Nat
  BY DEF TypeOK
<1>2. CASE revision'[k] = revision[k]
  BY <1>1, <1>2
<1>3. CASE Founds(c, k)
  <2>1. revision'[k] = Append(revision[k], NewRevision(c, k))
    BY <1>3 DEF Founds
  <2>2. NewRevision(c, k) \in Revisions
    BY NewRevisionType
  <2> HIDE DEF NewRevision
  <2>3. /\ Len(revision'[k]) = Len(revision[k]) + 1
        /\ revision'[k][Len(revision[k]) + 1] = NewRevision(c, k)
        /\ \A n \in 1..Len(revision[k]) : revision'[k][n] = revision[k][n]
    BY <1>1, <2>1, <2>2
  <2> QED BY <1>1, <1>3, <2>3
<1> QED BY <1>2, <1>3, CommitRevises

-----------------------------------------------------------------------------
(* The steps, one conjunct of IInv at a time.                              *)

LEMMA CommitType ==
  ASSUME ReconcilerAssumption, TypeOK, LinksExist, NEW c \in Calls, Commit(c)
  PROVE  TypeOK'
<1>1. now' \in Nat /\ item' = item /\ now' = now
  BY DEF Commit, TypeOK
<1>2. link' \in [Items -> [key : Keys, no : Nat] \cup {Unlinked}]
  <2>1. \A i \in Items : link'[i] \in [key : Keys, no : Nat] \cup {Unlinked}
    <3> SUFFICES ASSUME NEW i \in Items
                 PROVE  link'[i] \in [key : Keys, no : Nat] \cup {Unlinked}
      OBVIOUS
    <3>1. \A k \in Keys : LinkedNumber(c, k) \in Nat
      BY DEF LinkedNumber, TypeOK
    <3>2. link[i] \in [key : Keys, no : Nat] \cup {Unlinked}
      BY DEF TypeOK
    <3>3. CASE link'[i] = link[i]
      BY <3>2, <3>3
    <3>4. ASSUME NEW k \in Keys, link'[i] = [key |-> k, no |-> LinkedNumber(c, k)]
          PROVE  link'[i] \in [key : Keys, no : Nat] \cup {Unlinked}
      BY <3>1, <3>4
    <3> QED BY <3>3, <3>4, CommitLinks
  <2> QED BY <2>1 DEF Commit
<1>3. cluster' \subseteq Keys
  BY DEF Commit, TypeOK
<1>4. revision' \in [Keys -> Seq(Revisions)]
  <2>1. \A k \in Keys : revision'[k] \in Seq(Revisions)
    <3> SUFFICES ASSUME NEW k \in Keys PROVE revision'[k] \in Seq(Revisions)
      OBVIOUS
    <3>1. revision[k] \in Seq(Revisions) /\ NewRevision(c, k) \in Revisions
      BY NewRevisionType DEF TypeOK
    <3>2. \/ revision'[k] = revision[k]
          \/ revision'[k] = Append(revision[k], NewRevision(c, k))
      BY CommitRevises DEF Founds
    <3>3. Append(revision[k], NewRevision(c, k)) \in Seq(Revisions)
      BY <3>1, AppendTyped
    <3> QED BY <3>1, <3>2, <3>3
  <2> QED BY <2>1 DEF Commit
<1>5. call' = [call EXCEPT ![c] = Idle]
  BY DEF Commit
<1>6. call' \in [Calls -> [pc : {"idle", "read"}, cutoff : Nat, group : Groups,
                          vouched : SUBSET Items]]
  BY <1>5, IdleTyped DEF TypeOK
<1> QED BY <1>1, <1>2, <1>3, <1>4, <1>6 DEF TypeOK

LEMMA TypeStep ==
  ASSUME ReconcilerAssumption, TypeOK, LinksExist, [Next]_vars
  PROVE  TypeOK'
<1> USE DEF TypeOK
<1>1. CASE Tick
  BY <1>1 DEF Tick
<1>2. ASSUME NEW i \in Items, Retrieve(i) PROVE TypeOK'
  <2>1. PICK s \in StandingsOf(i), k \in KeysOf[i] :
          item' = [item EXCEPT ![i] =
            [standing |-> IF @.standing = "pruned" THEN "pruned" ELSE s,
             expires |-> IF @.standing = "absent" THEN now + Retention ELSE @.expires,
             key |-> k]]
    BY <1>2 DEF Retrieve
  <2>2. s \in Standings /\ "pruned" \in Standings /\ k \in Keys
    BY <2>1 DEF StandingsOf, Standings, ReconcilerAssumption
  <2>3. item[i].expires \in Nat /\ now + Retention \in Nat
    BY DEF ReconcilerAssumption
  <2>4. item' \in [Items -> [standing : Standings, expires : Nat, key : Keys]]
    BY <2>1, <2>2, <2>3
  <2> QED BY <1>2, <2>4 DEF Retrieve
<1>3. CASE Prune
  <2>1. ASSUME NEW i \in Items
        PROVE  [item[i] EXCEPT !.standing = "pruned"] \in [standing : Standings, expires : Nat, key : Keys]
    <3>1. item[i] \in [standing : Standings, expires : Nat, key : Keys] /\ "pruned" \in Standings
      BY DEF Standings
    <3> QED BY <3>1
  <2>2. item' \in [Items -> [standing : Standings, expires : Nat, key : Keys]]
    BY <1>3, <2>1 DEF Prune
  <2> QED BY <1>3, <2>2 DEF Prune
<1>4. ASSUME NEW c \in Calls, NEW cutoff \in 0..Horizon, Read(c, cutoff) PROVE TypeOK'
  <2>1. Pending(cutoff) \subseteq Items /\ cutoff \in Nat
    BY DEF Pending, ReconcilerAssumption
  <2>2. PICK group : group = [i \in Pending(cutoff) |-> item[i].key]
    OBVIOUS
  <2>3. group \in [Pending(cutoff) -> Keys]
    BY <2>1, <2>2
  <2>4. group \in Groups
    BY <2>1, <2>3 DEF Groups
  <2>5. PICK vouched : vouched = {i \in Pending(cutoff) : item[i].standing = "qualified"}
    OBVIOUS
  <2>6. vouched \in SUBSET Items
    BY <2>1, <2>5
  <2>7. call' = [call EXCEPT ![c] =
          [pc |-> "read", cutoff |-> cutoff, group |-> group, vouched |-> vouched]]
    BY <1>4, <2>2, <2>5 DEF Read
  <2>8. call' \in [Calls -> [pc : {"idle", "read"}, cutoff : Nat, group : Groups,
                            vouched : SUBSET Items]]
    BY <2>1, <2>4, <2>6, <2>7
  <2> QED BY <1>4, <2>8 DEF Read
<1>5. ASSUME NEW c \in Calls, Commit(c) PROVE TypeOK'
  BY <1>5, CommitType
<1>6. ASSUME NEW c \in Calls, Abandon(c) PROVE TypeOK'
  BY <1>6, IdleTyped DEF Abandon
<1>7. CASE UNCHANGED vars
  BY <1>7 DEF vars
<1> QED BY <1>1, <1>2, <1>3, <1>4, <1>5, <1>6, <1>7 DEF Next

(* Once retrieved, an item stays on record and keeps its expiry.           *)
LEMMA ItemsStay ==
  ASSUME TypeOK, [Next]_vars
  PROVE  \A i \in Items : item[i].standing # "absent" =>
           item'[i].standing # "absent" /\ item'[i].expires = item[i].expires
<1>1. ASSUME NEW j \in Items, Retrieve(j), NEW i \in Items, item[i].standing # "absent"
      PROVE  item'[i].standing # "absent" /\ item'[i].expires = item[i].expires
  BY <1>1 DEF Retrieve, StandingsOf, TypeOK
<1>2. CASE Prune
  BY <1>2 DEF Prune, TypeOK
<1>3. CASE item' = item
  BY <1>3
<1> QED BY <1>1, <1>2, <1>3 DEF Next, Tick, Read, Commit, Abandon, vars

LEMMA ReadsStep ==
  ASSUME ReconcilerAssumption, IInv, [Next]_vars
  PROVE  ReadsVisible'
<1> USE DEF IInv
<1>1. SUFFICES ASSUME NEW c \in Calls
      PROVE  /\ call'[c].vouched \subseteq DOMAIN call'[c].group
             /\ \A i \in DOMAIN call'[c].group :
                  /\ item'[i].standing # "absent"
                  /\ Available[i] <= call'[c].cutoff
                  /\ call'[c].cutoff <= item'[i].expires
  BY DEF ReadsVisible
<1>2. DOMAIN call[c].group \subseteq Items
  BY GroupTyped
<1>3. CASE call'[c] = call[c]
  BY <1>2, <1>3, ItemsStay DEF ReadsVisible
<1>4. CASE call'[c] = Idle
  BY <1>4 DEF Idle
<1>5. ASSUME NEW cutoff \in 0..Horizon, Read(c, cutoff)
      PROVE  /\ call'[c].vouched \subseteq DOMAIN call'[c].group
             /\ \A i \in DOMAIN call'[c].group :
                  /\ item'[i].standing # "absent"
                  /\ Available[i] <= call'[c].cutoff
                  /\ call'[c].cutoff <= item'[i].expires
  <2>1. call'[c] = [pc |-> "read", cutoff |-> cutoff,
          group |-> [i \in Pending(cutoff) |-> item[i].key],
          vouched |-> {i \in Pending(cutoff) : item[i].standing = "qualified"}]
        /\ item' = item
    BY <1>5 DEF Read, TypeOK
  <2> QED BY <2>1 DEF Pending, Visible
<1>6. call'[c] = call[c] \/ call'[c] = Idle \/ \E cutoff \in 0..Horizon : Read(c, cutoff)
  BY DEF Next, Tick, Retrieve, Prune, Read, Commit, Abandon, vars, TypeOK
<1> QED BY <1>3, <1>4, <1>5, <1>6

(* A commit keeps every link that was set, and the links agree with the    *)
(* chains it leaves.                                                       *)
LEMMA LinksFinal ==
  ASSUME ReconcilerAssumption, TypeOK, LinksExist, NEW c \in Calls, Commit(c),
         NEW i \in Items, link[i] # Unlinked
  PROVE  link'[i] = link[i]
  BY CommitLinks

LEMMA CommitLinksExist ==
  ASSUME ReconcilerAssumption, IInv, NEW c \in Calls, Commit(c)
  PROVE  LinksExist'
<1> USE DEF IInv
<1> SUFFICES ASSUME NEW i \in Items, link'[i] # Unlinked
             PROVE  /\ link'[i].no \in 1..Len(revision'[link'[i].key])
                    /\ item'[i].standing # "absent"
  BY DEF LinksExist
<1>1. item' = item
  BY DEF Commit
<1>2. CASE link'[i] = link[i]
  <2>1. PICK k \in Keys : k = link[i].key
    BY <1>2 DEF TypeOK
  <2>2. link[i].no \in 1..Len(revision[k]) /\ item[i].standing # "absent"
    BY <1>2, <2>1 DEF LinksExist
  <2>3. /\ Len(revision[k]) \in Nat /\ Len(revision'[k]) \in Nat
        /\ Len(revision'[k]) >= Len(revision[k])
    BY ChainKept
  <2> QED BY <1>1, <1>2, <2>1, <2>2, <2>3
<1>3. ASSUME NEW k \in Keys, i \in DOMAIN call[c].group, Resolved(c, k),
             link'[i] = [key |-> k, no |-> LinkedNumber(c, k)]
      PROVE  /\ link'[i].no \in 1..Len(revision'[k])
             /\ item'[i].standing # "absent"
  <2>1. item'[i].standing # "absent"
    BY <1>1, <1>3 DEF ReadsVisible
  <2>2. Len(revision[k]) \in Nat /\ Len(revision'[k]) \in Nat
        /\ Len(revision'[k]) >= Len(revision[k])
    BY ChainKept
  <2>3. CASE Promotes(c, k)
    <3>1. revision'[k] = Append(revision[k], NewRevision(c, k))
      BY <1>3, <2>3 DEF Commit
    <3>2. Len(revision'[k]) = Len(revision[k]) + 1
      BY <3>1, NewRevisionType DEF TypeOK
    <3> QED BY <1>3, <2>1, <2>2, <2>3, <3>2 DEF LinkedNumber
  <2>4. CASE ~Promotes(c, k)
    <3>1. revision[k] # <<>>
      BY <1>3, <2>4 DEF Resolved, Promotes, ExactDuplicate
    <3>2. Len(revision[k]) > 0
      BY <3>1 DEF TypeOK
    <3> QED BY <1>3, <2>1, <2>2, <2>4, <3>2 DEF LinkedNumber
  <2> QED BY <2>3, <2>4
<1>4. ASSUME NEW k \in Keys, i \in DOMAIN call[c].group, Resolved(c, k),
             link'[i] = [key |-> k, no |-> LinkedNumber(c, k)]
      PROVE  link'[i].no \in 1..Len(revision'[link'[i].key]) /\ item'[i].standing # "absent"
  BY <1>3, <1>4
<1> QED BY <1>2, <1>4, CommitLinks

(* The new revision of a key keeps what the last one cites and adds the    *)
(* members, none of which was cited before.                                *)
LEMMA NewEvidence ==
  ASSUME ReconcilerAssumption, IInv, NEW c \in Calls, Commit(c), NEW k \in Keys, Founds(c, k)
  PROVE  /\ NewRevision(c, k).refs = OldRefs(k) \cup Members(c, k)
         /\ OldRefs(k) \cap Members(c, k) = {}
         /\ Qualifying(c, k) \subseteq NewRevision(c, k).vouched
         /\ NewRevision(c, k).cutoff = call[c].cutoff
         /\ Len(revision[k]) > 0 => OldRefs(k) = revision[k][Len(revision[k])].refs
         /\ OldRefs(k) \subseteq {i \in Items : link[i] # Unlinked}
<1> USE DEF IInv
<1>1. Len(revision[k]) \in Nat /\ (Len(revision[k]) > 0 <=> revision[k] # <<>>)
  BY DEF TypeOK
<1>2. Len(revision[k]) > 0 => OldRefs(k) = revision[k][Len(revision[k])].refs
  BY <1>1 DEF OldRefs, Latest
<1>3. ASSUME NEW i \in OldRefs(k) PROVE i \in Items /\ link[i] # Unlinked
  <2>1. Len(revision[k]) > 0 /\ i \in revision[k][Len(revision[k])].refs
    BY <1>1, <1>2, <1>3 DEF OldRefs
  <2>2. revision[k][Len(revision[k])] \in Revisions
    BY <1>1, <2>1 DEF TypeOK
  <2> QED BY <1>1, <2>1, <2>2 DEF CitedEarlier, Revisions
<1>4. OldRefs(k) \cap Members(c, k) = {}
  BY <1>3 DEF Founds
<1> QED BY <1>2, <1>3, <1>4 DEF NewRevision, Refs

LEMMA CommitChains ==
  ASSUME ReconcilerAssumption, IInv, NEW c \in Calls, Commit(c)
  PROVE  CitedEarlier' /\ EvidenceGrows'
<1> USE DEF IInv
<1>1. ASSUME NEW k \in Keys, NEW n \in 1..Len(revision'[k]), NEW i \in revision'[k][n].refs
      PROVE  link'[i] # Unlinked
  <2>1. CASE n \in 1..Len(revision[k])
    <3>1. i \in revision[k][n].refs
      BY <1>1, <2>1, ChainKept
    <3>2. revision[k][n] \in Revisions
      BY <2>1 DEF TypeOK
    <3> QED BY <2>1, <3>1, <3>2, LinksFinal DEF CitedEarlier, Revisions
  <2>2. CASE n \notin 1..Len(revision[k])
    <3>1. Founds(c, k) /\ revision'[k][n] = NewRevision(c, k)
      BY <2>2, ChainKept
    <3>2. CASE i \in OldRefs(k)
      BY <3>1, <3>2, NewEvidence, LinksFinal
    <3>3. CASE i \in Members(c, k)
      <4>1. link'[i] = [key |-> k, no |-> Len(revision[k]) + 1]
        BY <3>1, <3>3 DEF Founds
      <4>2. Len(revision[k]) + 1 \in Nat
        BY DEF TypeOK
      <4> QED BY <4>1, <4>2 DEF ReconcilerAssumption
    <3> QED BY <1>1, <3>1, <3>2, <3>3, NewEvidence
  <2> QED BY <2>1, <2>2
<1>2. ASSUME NEW k \in Keys, NEW n \in 1..(Len(revision'[k]) - 1)
      PROVE  revision'[k][n].refs \subseteq revision'[k][n + 1].refs
               /\ revision'[k][n].refs # revision'[k][n + 1].refs
  <2>1. /\ Len(revision[k]) \in Nat /\ Len(revision'[k]) \in Nat
        /\ Len(revision'[k]) >= Len(revision[k])
    BY ChainKept
  <2>2. CASE n + 1 \in 1..Len(revision[k])
    <3>1. n \in 1..(Len(revision[k]) - 1) /\ n \in 1..Len(revision[k])
      BY <2>1, <2>2
    <3>2. revision'[k][n] = revision[k][n] /\ revision'[k][n + 1] = revision[k][n + 1]
      BY <2>2, <3>1, ChainKept
    <3> QED BY <3>1, <3>2 DEF EvidenceGrows
  <2>3. CASE n + 1 \notin 1..Len(revision[k])
    <3>1. n + 1 \in 1..Len(revision'[k])
      BY <2>1
    <3>2. n + 1 = Len(revision[k]) + 1 /\ Founds(c, k) /\ revision'[k][n + 1] = NewRevision(c, k)
      BY <2>3, <3>1, ChainKept
    <3>3. n = Len(revision[k]) /\ n \in 1..Len(revision[k])
      BY <2>1, <3>2
    <3>4. revision'[k][n].refs = OldRefs(k)
      <4>1. Len(revision[k]) > 0 => OldRefs(k) = revision[k][Len(revision[k])].refs
        BY <3>2, NewEvidence
      <4>2. revision'[k][n] = revision[k][n]
        BY <3>3, ChainKept
      <4> QED BY <2>1, <3>3, <4>1, <4>2
    <3>5. PICK j \in Qualifying(c, k) : TRUE
      BY <3>2 DEF Founds
    <3>6. j \in Members(c, k)
      BY <3>5 DEF Qualifying
    <3> QED BY <3>2, <3>4, <3>6, NewEvidence
  <2> QED BY <2>2, <2>3
<1> QED BY <1>1, <1>2 DEF CitedEarlier, EvidenceGrows

(* After a commit, the items a revision cites first are those it cited     *)
(* first before, or for the new revision the members of the batch.         *)
LEMMA FirstCitedAfter ==
  ASSUME ReconcilerAssumption, IInv, NEW c \in Calls, Commit(c), NEW k \in Keys,
         NEW n \in 1..Len(revision'[k]), NEW i
  PROVE  /\ n \in 1..Len(revision[k]) =>
              (FirstCited(k, n, i)' <=> FirstCited(k, n, i)) /\ revision'[k][n] = revision[k][n]
         /\ n \notin 1..Len(revision[k]) =>
              /\ FirstCited(k, n, i)' <=> i \in Members(c, k)
              /\ Founds(c, k) /\ n = Len(revision[k]) + 1
              /\ revision'[k][n] = NewRevision(c, k)
<1> USE DEF IInv
<1>1. Len(revision[k]) \in Nat
  BY ChainKept
<1>2. ASSUME n \in 1..Len(revision[k])
      PROVE  (FirstCited(k, n, i)' <=> FirstCited(k, n, i)) /\ revision'[k][n] = revision[k][n]
  <2>1. revision'[k][n] = revision[k][n]
    BY <1>2, ChainKept
  <2>2. n > 1 => n - 1 \in 1..Len(revision[k])
    BY <1>1, <1>2
  <2>3. n > 1 => revision'[k][n - 1] = revision[k][n - 1]
    BY <2>2, ChainKept
  <2> QED BY <2>1, <2>3 DEF FirstCited
<1>3. ASSUME n \notin 1..Len(revision[k])
      PROVE  /\ FirstCited(k, n, i)' <=> i \in Members(c, k)
             /\ Founds(c, k) /\ n = Len(revision[k]) + 1
             /\ revision'[k][n] = NewRevision(c, k)
  <2>1. Founds(c, k) /\ n = Len(revision[k]) + 1 /\ revision'[k][n] = NewRevision(c, k)
    BY <1>3, ChainKept
  <2>2. revision'[k][n].refs = OldRefs(k) \cup Members(c, k) /\ OldRefs(k) \cap Members(c, k) = {}
    BY <2>1, NewEvidence
  <2>3. CASE n > 1
    <3>1. n - 1 = Len(revision[k]) /\ Len(revision[k]) > 0 /\ n - 1 \in 1..Len(revision[k])
      BY <1>1, <2>1, <2>3
    <3>2. revision'[k][n - 1] = revision[k][Len(revision[k])]
      BY <3>1, ChainKept
    <3>3. revision'[k][n - 1].refs = OldRefs(k)
      BY <2>1, <3>1, <3>2, NewEvidence
    <3> QED BY <2>1, <2>2, <2>3, <3>3 DEF FirstCited
  <2>4. CASE n = 1
    <3>1. revision[k] = <<>>
      BY <1>1, <2>1, <2>4 DEF TypeOK
    <3> QED BY <2>1, <2>2, <2>4, <3>1 DEF FirstCited, OldRefs
  <2> QED BY <1>1, <2>1, <2>3, <2>4
<1> QED BY <1>2, <1>3

LEMMA CommitCited ==
  ASSUME ReconcilerAssumption, IInv, NEW c \in Calls, Commit(c)
  PROVE  CitedAreLinked' /\ PointInTime'
<1> USE DEF IInv
<1> SUFFICES ASSUME NEW k \in Keys, NEW n \in 1..Len(revision'[k]), NEW i \in Items,
                    FirstCited(k, n, i)'
             PROVE  /\ link'[i] = [key |-> k, no |-> n]
                    /\ Available[i] <= revision'[k][n].cutoff
                    /\ revision'[k][n].cutoff <= item'[i].expires
  BY DEF CitedAreLinked, PointInTime
<1>1. item' = item
  BY DEF Commit
<1>2. CASE n \in 1..Len(revision[k])
  <2>1. FirstCited(k, n, i) /\ revision'[k][n] = revision[k][n]
    BY <1>2, FirstCitedAfter
  <2>2. i \in revision[k][n].refs
    BY <2>1 DEF FirstCited
  <2>3. link[i] # Unlinked
    BY <1>2, <2>2 DEF CitedEarlier
  <2>4. link'[i] = link[i]
    BY <2>3, LinksFinal
  <2> QED BY <1>1, <1>2, <2>1, <2>4 DEF CitedAreLinked, PointInTime
<1>3. CASE n \notin 1..Len(revision[k])
  <2>1. /\ i \in Members(c, k) /\ Founds(c, k)
        /\ n = Len(revision[k]) + 1 /\ revision'[k][n] = NewRevision(c, k)
    BY <1>3, FirstCitedAfter
  <2>2. link'[i] = [key |-> k, no |-> n]
    BY <2>1 DEF Founds
  <2>3. i \in DOMAIN call[c].group
    BY <2>1 DEF Members
  <2>4. revision'[k][n].cutoff = call[c].cutoff
    BY <2>1, NewEvidence
  <2> QED BY <1>1, <2>2, <2>3, <2>4 DEF ReadsVisible
<1> QED BY <1>2, <1>3

LEMMA CommitRadar ==
  ASSUME ReconcilerAssumption, IInv, NEW c \in Calls, Commit(c)
  PROVE  RadarNeverPromotes'
<1> USE DEF IInv
<1>1. ASSUME NEW k \in Keys, NEW n \in 1..Len(revision'[k])
      PROVE  \E i \in revision'[k][n].vouched : FirstCited(k, n, i)'
  <2>1. CASE n \in 1..Len(revision[k])
    <3>1. PICK i \in revision[k][n].vouched : FirstCited(k, n, i)
      BY <2>1 DEF RadarNeverPromotes
    <3> QED BY <2>1, <3>1, FirstCitedAfter
  <2>2. CASE n \notin 1..Len(revision[k])
    <3>1. Founds(c, k) /\ revision'[k][n] = NewRevision(c, k)
      BY <2>2, ChainKept
    <3>2. PICK i \in Qualifying(c, k) : TRUE
      BY <3>1 DEF Founds
    <3>3. i \in Members(c, k)
      BY <3>2 DEF Qualifying
    <3>4. i \in revision'[k][n].vouched
      BY <3>1, <3>2, NewEvidence
    <3> QED BY <2>2, <3>3, <3>4, FirstCitedAfter
  <2> QED BY <2>1, <2>2
<1>2. ASSUME NEW k \in Keys PROVE k \in cluster' <=> revision'[k] # <<>>
  <2>1. k \in cluster <=> revision[k] # <<>>
    BY DEF RadarNeverPromotes
  <2>2. k \in cluster' <=> k \in cluster \/ Resolved(c, k)
    BY DEF Commit
  <2>3. revision'[k] = (IF Resolved(c, k) /\ Promotes(c, k)
                          THEN Append(revision[k], NewRevision(c, k)) ELSE revision[k])
    BY DEF Commit
  <2>4. Append(revision[k], NewRevision(c, k)) # <<>>
    <3>1. revision[k] \in Seq(Revisions) /\ Len(revision[k]) \in Nat
      BY DEF TypeOK
    <3>2. Len(Append(revision[k], NewRevision(c, k))) = Len(revision[k]) + 1
      BY <3>1, NewRevisionType
    <3> QED BY <3>1, <3>2
  <2>5. Resolved(c, k) /\ ~Promotes(c, k) => revision[k] # <<>>
    BY DEF Resolved, Promotes, ExactDuplicate
  <2> QED BY <2>1, <2>2, <2>3, <2>4, <2>5
<1>3. LinksExist'
  BY CommitLinksExist
<1> QED BY <1>1, <1>2, <1>3 DEF RadarNeverPromotes, LinksExist

-----------------------------------------------------------------------------

LEMMA InvInit == ReconcilerAssumption /\ Init => IInv
<1> SUFFICES ASSUME ReconcilerAssumption, Init PROVE IInv
  OBVIOUS
<1>1. TypeOK
  BY IdleTyped, NewItemTyped DEF Init, TypeOK
<1>2. \A k \in Keys : revision[k] = <<>> /\ Len(revision[k]) = 0
  BY DEF Init
<1>3. ReadsVisible
  BY DEF Init, ReadsVisible, Idle
<1>4. LinksExist
  BY DEF Init, LinksExist
<1>5. CitedEarlier /\ EvidenceGrows /\ CitedAreLinked /\ PointInTime
  BY <1>2 DEF CitedEarlier, EvidenceGrows, CitedAreLinked, PointInTime
<1>6. RadarNeverPromotes
  BY <1>2 DEF Init, RadarNeverPromotes
<1> QED BY <1>1, <1>3, <1>4, <1>5, <1>6 DEF IInv

(* Every other step leaves chains and links alone.                         *)
LEMMA TablesKept ==
  ASSUME IInv, [Next]_vars, UNCHANGED <<link, cluster, revision>>
  PROVE  /\ CitedEarlier' /\ LinksExist' /\ EvidenceGrows'
         /\ CitedAreLinked' /\ RadarNeverPromotes' /\ PointInTime'
<1> USE DEF IInv
<1>1. CitedEarlier' /\ EvidenceGrows' /\ CitedAreLinked' /\ RadarNeverPromotes'
  BY DEF CitedEarlier, EvidenceGrows, CitedAreLinked, RadarNeverPromotes, FirstCited
<1>2. LinksExist'
  BY ItemsStay DEF LinksExist
<1>3. PointInTime'
  <2> SUFFICES ASSUME NEW k \in Keys, NEW n \in 1..Len(revision[k]), NEW i \in Items,
                      FirstCited(k, n, i)
               PROVE  Available[i] <= revision[k][n].cutoff
                        /\ revision[k][n].cutoff <= item'[i].expires
    BY DEF PointInTime, FirstCited
  <2>1. link[i] # Unlinked
    BY DEF CitedEarlier, FirstCited
  <2>2. item'[i].expires = item[i].expires
    BY <2>1, ItemsStay DEF LinksExist
  <2> QED BY <2>2 DEF PointInTime
<1> QED BY <1>1, <1>2, <1>3

LEMMA InvStep == ReconcilerAssumption /\ IInv /\ [Next]_vars => IInv'
<1> SUFFICES ASSUME ReconcilerAssumption, IInv, [Next]_vars PROVE IInv'
  OBVIOUS
<1>1. TypeOK' /\ ReadsVisible'
  BY TypeStep, ReadsStep DEF IInv
<1>2. CASE UNCHANGED <<link, cluster, revision>>
  BY <1>1, <1>2, TablesKept DEF IInv
<1>3. ASSUME NEW c \in Calls, Commit(c) PROVE IInv'
  BY <1>1, <1>3, CommitLinksExist, CommitChains, CommitCited, CommitRadar DEF IInv
<1> QED BY <1>2, <1>3 DEF Next, Tick, Retrieve, Prune, Read, Abandon, vars

(* The invariant behind the theorems below, which are its parts.           *)
THEOREM Inductive == Spec => []IInv
  BY ReconcilerAssumption, InvInit, InvStep, PTL DEF Spec

(* The tables of the reconciler and the locals of its calls are well       *)
(* typed.                                                                  *)
THEOREM TypeCorrect == Spec => []TypeOK
  BY Inductive, PTL DEF IInv

(* A revision cites all that the one before it cites, and more.            *)
THEOREM EvidenceGrowsAlways == Spec => []EvidenceGrows
  BY Inductive, PTL DEF IInv

(* An item carries the number of the revision that cites it first.         *)
THEOREM CitedAreLinkedAlways == Spec => []CitedAreLinked
  BY Inductive, PTL DEF IInv

(* No revision without newly cited verified evidence, no cluster without a *)
(* revision, no link into the void.                                        *)
THEOREM RadarNeverPromotesAlways == Spec => []RadarNeverPromotes
  BY Inductive, PTL DEF IInv

(* Evidence was public and unexpired at the cutoff it entered with.        *)
THEOREM PointInTimeAlways == Spec => []PointInTime
  BY Inductive, PTL DEF IInv

(* Links are final and chains only grow, however calls overlap.            *)
THEOREM SealedForGoodAlways == Spec => SealedForGood
<1> DEFINE Final == /\ \A i \in Items : link[i] # Unlinked => link'[i] = link[i]
                    /\ \A k \in Keys : /\ Len(revision'[k]) >= Len(revision[k])
                                       /\ \A n \in 1..Len(revision[k]) :
                                            revision'[k][n] = revision[k][n]
<1>1. ASSUME IInv, [Next]_vars PROVE [Final]_vars
  <2>1. CASE UNCHANGED <<link, cluster, revision>>
    <3>1. \A k \in Keys : Len(revision[k]) \in Nat
      BY <1>1 DEF IInv, TypeOK
    <3> QED BY <2>1, <3>1
  <2>2. ASSUME NEW c \in Calls, Commit(c) PROVE Final
    BY <1>1, <2>2, ReconcilerAssumption, LinksFinal, ChainKept DEF IInv
  <2> HIDE DEF Final
  <2> QED BY <1>1, <2>1, <2>2 DEF Next, Tick, Retrieve, Prune, Read, Abandon, vars
<1> QED BY <1>1, Inductive, PTL DEF Spec, SealedForGood
=============================================================================
