------------------------- MODULE SourceLedgerProofs -------------------------
(***************************************************************************)
(* What the ledger of works and identifiers keeps, for any snapshots, any  *)
(* policy versions and any order of writes.                                *)
(***************************************************************************)
EXTENDS SourceLedger, TLAPS

LedgerType ==
  /\ identOf \in [Ids -> Works \cup {None}]
  /\ canon \in [Works -> Ids \cup {None}]
  /\ recWork \in [Raws -> Works \cup {None}]
  /\ state \in [Events -> Revisions \cup {None}]

(***************************************************************************)
(* Why records converge: a work that has no key yet is named by nothing,   *)
(* so that a new record founds a work of its own or joins the one that all *)
(* its known identifiers name.                                             *)
(***************************************************************************)
NamedWorksExist == \A i \in Ids : identOf[i] # None => canon[identOf[i]] # None

OnlyUpsertsAreRecorded == \A r \in Raws : recWork[r] # None => IsUpsert(r)

RevisionsOfTheirEvents == \A e \in Events : state[e] # None => Event(state[e].raw) = e

LInv ==
  /\ LedgerType
  /\ NamedWorksExist
  /\ OnlyUpsertsAreRecorded
  /\ RevisionsOfTheirEvents
  /\ RecordsConverge
  /\ CanonicalKeyIsStrongest

\* The identifiers of a record are identifiers.
LEMMA IdsOfRecords ==
  ASSUME NEW r \in Raws, IsUpsert(r)
  PROVE  AllIds(r) \subseteq Ids /\ Identity(r) \in AllIds(r) /\ Identity(r) \in Ids
BY SnapshotsAssumption DEF SnapshotsAssumption, AllIds, Identity, IsUpsert

\* Events and ranks have their types.
LEMMA SnapshotTypes ==
  ASSUME NEW r \in Raws
  PROVE  Event(r) \in Events /\ Rank(r) \in Nat
BY SnapshotsAssumption DEF SnapshotsAssumption, Event, Rank

\* Ids, works, raws are never None.
LEMMA NoneIsApart == None \notin Ids \cup Works \cup Versions \cup Raws \cup Revisions
BY SnapshotsAssumption DEF SnapshotsAssumption

\* What an offered revision leaves: one of the same event, not older.
LEMMA OfferKeeps ==
  ASSUME LedgerType, RevisionsOfTheirEvents,
         NEW new \in Revisions,
         Offer(new)
  PROVE  /\ state' \in [Events -> Revisions \cup {None}]
         /\ RevisionsOfTheirEvents'
         /\ \A e \in Events : state[e] # None =>
              /\ state'[e] # None
              /\ Rank(state'[e].raw) >= Rank(state[e].raw)
              /\ state[e].work # None => state'[e].work # None
<1> DEFINE d == Event(new.raw)
<1>1. d \in Events /\ new.raw \in Raws
  BY SnapshotTypes DEF Revisions
<1>2. /\ Newest(new) \in Revisions
      /\ Event(Newest(new).raw) = d
      /\ state[d] # None =>
           /\ Rank(Newest(new).raw) >= Rank(state[d].raw)
           /\ state[d].work # None => Newest(new).work # None
  <2>1. CASE state[d] = None
    BY <2>1 DEF Newest
  <2>2. CASE state[d] # None
    <3>1. state[d] \in Revisions /\ Rank(state[d].raw) \in Nat /\ Rank(new.raw) \in Nat
      BY <1>1, <2>2, SnapshotTypes DEF LedgerType, Revisions
    <3>2. Event(state[d].raw) = d
      BY <1>1, <2>2 DEF RevisionsOfTheirEvents
    <3>3. CASE Rank(new.raw) < Rank(state[d].raw)
      BY <2>2, <3>1, <3>2, <3>3 DEF Newest
    <3>4. CASE ~(Rank(new.raw) < Rank(state[d].raw))
      <4>1. Newest(new) = [new EXCEPT !.work = IF new.work = None THEN state[d].work
                                                                   ELSE new.work]
        BY <2>2, <3>4 DEF Newest
      <4> QED BY <3>1, <3>4, <4>1 DEF Revisions, Event
    <3> QED BY <3>3, <3>4
  <2> QED BY <2>1, <2>2
<1>3. Newest(new) # None
  BY <1>2, NoneIsApart
<1>4. state' = [state EXCEPT ![d] = Newest(new)]
  BY DEF Offer
<1>5. /\ state'[d] = Newest(new)
      /\ \A e \in Events \ {d} : state'[e] = state[e]
      /\ state' \in [Events -> Revisions \cup {None}]
  BY <1>1, <1>2, <1>4 DEF LedgerType
<1>6. ASSUME NEW e \in Events, state[e] # None
      PROVE  Rank(state[e].raw) >= Rank(state[e].raw)
  <2>1. Rank(state[e].raw) \in Nat
    BY <1>6, SnapshotTypes DEF LedgerType, Revisions
  <2> QED BY <2>1
<1>7. ASSUME NEW e \in Events, state'[e] # None PROVE Event(state'[e].raw) = e
  BY <1>2, <1>5, <1>7 DEF RevisionsOfTheirEvents
<1>8. ASSUME NEW e \in Events, state[e] # None
      PROVE  /\ state'[e] # None
             /\ Rank(state'[e].raw) >= Rank(state[e].raw)
             /\ state[e].work # None => state'[e].work # None
  BY <1>2, <1>3, <1>5, <1>6, <1>8
<1> QED BY <1>5, <1>7, <1>8 DEF RevisionsOfTheirEvents, Event

(***************************************************************************)
(* Each write keeps the invariant.                                         *)
(***************************************************************************)
\* A row of the kinds the writes offer.
LEMMA RowsAreRevisions ==
  ASSUME NEW r \in Raws, NEW v \in Versions, NEW x \in Works \cup {None}
  PROVE  /\ Included(r, v, x) \in Revisions
         /\ Excluded(r, v) \in Revisions
         /\ Deleted(r, v, x) \in Revisions
<1>1. Verdict[v][r] \in Scopes
  BY SnapshotsAssumption DEF SnapshotsAssumption
<1> QED BY <1>1 DEF Included, Excluded, Deleted, Revisions, Scopes

\* A record is filed under one work, which is the one its identifiers name or
\* is named by none.
LEMMA RecordKeeps ==
  ASSUME LInv, NEW r \in Raws, NEW v \in Versions, Record(r, v)
  PROVE  /\ LInv'
         /\ \A i \in Ids : identOf[i] # None => identOf'[i] = identOf[i]
         /\ \A s \in Raws : recWork[s] # None => recWork'[s] = recWork[s]
         /\ \A y \in Works : canon[y] # None => canon'[y] # None
<1> USE DEF LInv
<1>1. PICK x \in Works :
        /\ {identOf[i] : i \in AllIds(r)} \ {None} = {x}
           \/ ({identOf[i] : i \in AllIds(r)} \ {None} = {} /\ canon[x] = None)
        /\ identOf' = [i \in Ids |-> IF i \in AllIds(r) THEN x ELSE identOf[i]]
        /\ \E key \in {canon[x], Identity(r)} \ {None} :
             /\ \A other \in {canon[x], Identity(r)} \ {None} :
                  Priority[key] <= Priority[other]
             /\ canon' = [canon EXCEPT ![x] = key]
        /\ recWork' = [recWork EXCEPT ![r] = x]
        /\ Offer(Included(r, v, x))
  BY DEF Record
<1>2. PICK key \in {canon[x], Identity(r)} \ {None} :
        /\ \A other \in {canon[x], Identity(r)} \ {None} : Priority[key] <= Priority[other]
        /\ canon' = [canon EXCEPT ![x] = key]
  BY <1>1
<1>3. /\ AllIds(r) \subseteq Ids /\ Identity(r) \in AllIds(r) /\ IsUpsert(r)
      /\ Identity(r) \in Ids /\ Identity(r) # None /\ x # None
  BY IdsOfRecords, NoneIsApart DEF Record
<1>4. key \in Ids /\ key # None /\ Priority[key] \in Nat
  BY <1>2, <1>3, SnapshotsAssumption DEF LedgerType, SnapshotsAssumption
<1>5. \A i \in AllIds(r) : identOf[i] = None \/ identOf[i] = x
  BY <1>1
<1>6. \A i \in Ids : identOf[i] = x => canon[x] # None
  BY <1>3 DEF NamedWorksExist
<1>7. \A i \in Ids : identOf[i] # None => identOf'[i] = identOf[i]
  BY <1>1, <1>5
<1>8. recWork[r] # None => recWork[r] = x
  BY <1>3, <1>5 DEF RecordsConverge
<1>9. \A s \in Raws : recWork[s] # None => recWork'[s] = recWork[s]
  BY <1>1, <1>8 DEF LedgerType
<1>10. \A y \in Works : canon[y] # None => canon'[y] # None
  BY <1>2, <1>4 DEF LedgerType
<1>11. /\ LedgerType' /\ RevisionsOfTheirEvents'
  <2>1. Included(r, v, x) \in Revisions
    BY RowsAreRevisions
  <2>2. /\ state' \in [Events -> Revisions \cup {None}] /\ RevisionsOfTheirEvents'
    BY <1>1, <2>1, OfferKeeps
  <2> QED BY <1>1, <1>2, <1>4, <2>2 DEF LedgerType
<1>12. OnlyUpsertsAreRecorded'
  BY <1>1, <1>3 DEF OnlyUpsertsAreRecorded, LedgerType, IsUpsert
<1>13. NamedWorksExist'
  <2>1. canon'[x] # None
    BY <1>2, <1>4 DEF LedgerType
  <2>2. ASSUME NEW i \in Ids, identOf'[i] # None PROVE canon'[identOf'[i]] # None
    <3>1. CASE identOf'[i] = x
      BY <2>1, <3>1
    <3>2. CASE identOf'[i] # x
      <4>1. identOf'[i] = identOf[i] /\ identOf[i] \in Works
        BY <1>1, <2>2, <3>2 DEF LedgerType
      <4> QED BY <1>10, <2>2, <4>1 DEF NamedWorksExist
    <3> QED BY <3>1, <3>2
  <2> QED BY <2>2 DEF NamedWorksExist
<1>14. RecordsConverge'
  <2>1. ASSUME NEW s \in Raws, recWork'[s] # None, NEW i \in AllIds(s)
        PROVE  identOf'[i] = recWork'[s]
    <3>1. CASE s = r
      BY <1>1, <1>3, <2>1, <3>1 DEF LedgerType
    <3>2. CASE s # r
      <4>1. recWork'[s] = recWork[s] /\ recWork[s] # None
        BY <1>1, <2>1, <3>2 DEF LedgerType
      <4>2. i \in Ids /\ identOf[i] = recWork[s]
        BY <2>1, <4>1, IdsOfRecords DEF OnlyUpsertsAreRecorded, RecordsConverge
      <4> QED BY <1>7, <4>1, <4>2
    <3> QED BY <3>1, <3>2
  <2> QED BY <2>1 DEF RecordsConverge, AllIds, Identity
<1>15. CanonicalKeyIsStrongest'
  <2>1. canon'[x] = key /\ \A y \in Works \ {x} : canon'[y] = canon[y]
    BY <1>2 DEF LedgerType
  <2>2. ASSUME NEW y \in Works, canon'[y] # None PROVE identOf'[canon'[y]] = y
    <3>1. CASE y # x
      <4>1. canon[y] \in Ids /\ identOf[canon[y]] = y /\ y # None
        BY <2>1, <2>2, <3>1, NoneIsApart DEF CanonicalKeyIsStrongest, LedgerType
      <4> QED BY <1>7, <2>1, <3>1, <4>1
    <3>2. CASE y = x /\ key = Identity(r)
      BY <1>1, <1>3, <2>1, <3>2
    <3>3. CASE y = x /\ key = canon[x]
      <4>1. identOf[key] = x
        BY <1>4, <3>3 DEF CanonicalKeyIsStrongest
      <4> QED BY <1>3, <1>4, <1>7, <2>1, <3>3, <4>1
    <3> QED BY <1>2, <3>1, <3>2, <3>3
  <2>3. /\ Priority[key] <= Priority[Identity(r)]
        /\ canon[x] # None => Priority[key] <= Priority[canon[x]]
    BY <1>2, <1>3
  <2>4. ASSUME NEW s \in Raws, recWork'[s] # None
        PROVE  /\ canon'[recWork'[s]] # None
               /\ Priority[canon'[recWork'[s]]] <= Priority[Identity(s)]
    <3>1. CASE s = r
      BY <1>1, <1>4, <2>1, <2>3, <3>1 DEF LedgerType
    <3>2. CASE s # r
      <4>1. /\ recWork'[s] = recWork[s] /\ recWork[s] # None /\ recWork[s] \in Works
            /\ canon[recWork[s]] # None /\ canon[recWork[s]] \in Ids
            /\ Priority[canon[recWork[s]]] <= Priority[Identity(s)]
        BY <1>1, <2>4, <3>2 DEF LedgerType, CanonicalKeyIsStrongest
      <4>2. Identity(s) \in Ids
        BY <4>1, IdsOfRecords DEF OnlyUpsertsAreRecorded
      <4>3. Priority[Identity(s)] \in Nat /\ Priority[canon[recWork[s]]] \in Nat
        BY <4>1, <4>2, SnapshotsAssumption DEF SnapshotsAssumption
      <4>4. CASE recWork[s] = x
        BY <1>4, <2>1, <2>3, <4>1, <4>3, <4>4
      <4>5. CASE recWork[s] # x
        BY <2>1, <4>1, <4>5
      <4> QED BY <4>4, <4>5
    <3> QED BY <3>1, <3>2
  <2> QED BY <2>2, <2>4 DEF CanonicalKeyIsStrongest, Identity
<1> QED BY <1>7, <1>9, <1>10, <1>11, <1>12, <1>13, <1>14, <1>15

\* An exclusion or a deletion offers a revision and moves no link.
LEMMA OfferOnlyKeeps ==
  ASSUME LInv, NEW new \in Revisions, Offer(new), UNCHANGED <<identOf, canon, recWork>>
  PROVE  LInv'
<1>1. /\ state' \in [Events -> Revisions \cup {None}] /\ RevisionsOfTheirEvents'
  BY OfferKeeps DEF LInv
<1> QED BY <1>1 DEF LInv, LedgerType, NamedWorksExist, OnlyUpsertsAreRecorded,
           RecordsConverge, CanonicalKeyIsStrongest, AllIds, Identity, IsUpsert

LEMMA LInit == Init => LInv
BY NoneIsApart DEF Init, LInv, LedgerType, NamedWorksExist, OnlyUpsertsAreRecorded,
   RevisionsOfTheirEvents, RecordsConverge, CanonicalKeyIsStrongest

LEMMA LStep == LInv /\ [Next]_ledgerVars => LInv'
<1> SUFFICES ASSUME LInv, [Next]_ledgerVars PROVE LInv'
  OBVIOUS
<1>1. ASSUME NEW r \in Raws, NEW v \in Versions, Record(r, v) PROVE LInv'
  BY <1>1, RecordKeeps
<1>2. ASSUME NEW r \in Raws, NEW v \in Versions, Exclude(r, v) PROVE LInv'
  BY <1>2, OfferOnlyKeeps, RowsAreRevisions DEF Exclude
<1>3. ASSUME NEW r \in Raws, NEW v \in Versions, Delete(r, v) PROVE LInv'
  BY <1>3, OfferOnlyKeeps, RowsAreRevisions DEF Delete
<1>4. CASE UNCHANGED ledgerVars
  BY <1>4 DEF ledgerVars, LInv, LedgerType, NamedWorksExist, OnlyUpsertsAreRecorded,
     RevisionsOfTheirEvents, RecordsConverge, CanonicalKeyIsStrongest, AllIds,
     Identity, IsUpsert, Event
<1> QED BY <1>1, <1>2, <1>3, <1>4 DEF Next

LEMMA LInvHolds == Spec => []LInv
BY LInit, LStep, PTL DEF Spec

(***************************************************************************)
(* Theorems.                                                               *)
(***************************************************************************)
\* Sources that share an identifier share the work (postgres_repository.go,
\* resolveWork).
THEOREM Converge == Spec => []RecordsConverge
<1>1. LInv => RecordsConverge
  BY DEF LInv
<1> QED BY <1>1, LInvHolds, PTL

\* A work is known by the strongest identity any of its records offered, and
\* that key is its own (rekeyWork).
THEOREM StrongestKey == Spec => []CanonicalKeyIsStrongest
<1>1. LInv => CanonicalKeyIsStrongest
  BY DEF LInv
<1> QED BY <1>1, LInvHolds, PTL

\* Identifiers and records never move to another work, and works keep a key.
THEOREM LinksStay == Spec => LinksAreImmutable
<1> DEFINE Stay == /\ \A i \in Ids : identOf[i] # None => identOf'[i] = identOf[i]
                   /\ \A r \in Raws : recWork[r] # None => recWork'[r] = recWork[r]
                   /\ \A x \in Works : canon[x] # None => canon'[x] # None
<1>1. ASSUME LInv, [Next]_ledgerVars PROVE [Stay]_ledgerVars
  <2>1. ASSUME NEW r \in Raws, NEW v \in Versions, Record(r, v) PROVE Stay
    BY <1>1, <2>1, RecordKeeps
  <2>2. ASSUME UNCHANGED <<identOf, canon, recWork>> PROVE Stay
    BY <2>2
  <2>3. ASSUME NEW r \in Raws, NEW v \in Versions, Exclude(r, v) \/ Delete(r, v) PROVE Stay
    BY <2>2, <2>3 DEF Exclude, Delete
  <2> QED BY <1>1, <2>1, <2>3 DEF Next
<1> QED BY <1>1, LInvHolds, PTL DEF Spec, LinksAreImmutable

\* Snapshots may arrive in any order and again: the current revision of an
\* event only advances, and keeps the work (upsertSourceState).
THEOREM NewestRevisionStands == Spec => RevisionsAdvance
<1> DEFINE Advance == \A e \in Events : state[e] # None =>
                        /\ state'[e] # None
                        /\ Rank(state'[e].raw) >= Rank(state[e].raw)
                        /\ state[e].work # None => state'[e].work # None
<1>1. ASSUME LInv, [Next]_ledgerVars PROVE [Advance]_ledgerVars
  <2>1. ASSUME NEW new \in Revisions, Offer(new) PROVE Advance
    BY <1>1, <2>1, OfferKeeps DEF LInv
  <2>2. ASSUME NEW r \in Raws, NEW v \in Versions, Record(r, v) PROVE Advance
    BY <2>1, <2>2, RowsAreRevisions DEF Record
  <2>3. ASSUME NEW r \in Raws, NEW v \in Versions, Exclude(r, v) PROVE Advance
    BY <2>1, <2>3, RowsAreRevisions DEF Exclude
  <2>4. ASSUME NEW r \in Raws, NEW v \in Versions, Delete(r, v) PROVE Advance
    BY <2>1, <2>4, RowsAreRevisions DEF Delete
  <2> QED BY <1>1, <2>2, <2>3, <2>4 DEF Next
<1> QED BY <1>1, LInvHolds, PTL DEF Spec, RevisionsAdvance
=============================================================================
