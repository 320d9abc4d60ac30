------------------------- MODULE PublicCatalogProofs -------------------------
(***************************************************************************)
(* What publishers may do to the catalog, for any number of them, any      *)
(* states of the sources and any bounds: every publication is one          *)
(* committed state of all sources, although it is put together by many     *)
(* queries, and no publication goes back in time.                          *)
(***************************************************************************)
EXTENDS PublicCatalog, FiniteSetTheorems, TLAPS

(***************************************************************************)
(* Types of what the publishers use.                                       *)
(***************************************************************************)
PubRecords == [pc : PubPcs, formula : Formulas \cup {None}, sources : Nat,
               generations : Nat, todo : SUBSET Keys, papers : SUBSET Rows]

CatalogType ==
  /\ history \in Seq(Sources) /\ history # <<>>
  /\ published \in Seq([revision : Revisions, sources : Nat])
  /\ publisherLock \in Publishers \cup {None}
  /\ pub \in [Publishers -> PubRecords]

(***************************************************************************)
(* Why it holds: a publisher that is under way has a snapshot of the       *)
(* sources at least as late as that of every publication in its snapshot   *)
(* of the catalog; from the lock on it is alone; the papers it has built   *)
(* are those of its snapshot, of all works but those it has to do; and     *)
(* what it commits, it commits only if its snapshot of the catalog shows   *)
(* all publications.                                                       *)
(***************************************************************************)
PublishedFromHistory ==
  \A i \in 1..Len(published) : published[i].sources \in 1..Len(history)

SnapshotsAreLate ==
  \A p \in Publishers : pub[p].pc # "idle" =>
    /\ pub[p].formula \in Formulas
    /\ pub[p].sources \in 1..Len(history)
    /\ pub[p].generations \in 0..Len(published)
    /\ \A i \in 1..pub[p].generations : published[i].sources <= pub[p].sources

LockIsHeld ==
  \A p \in Publishers :
    pub[p].pc \in {"load", "build", "write", "commit"} => publisherLock = p

\* The papers of the works of s that are not left in todo.
PapersBut(s, todo) == {Paper(k, s[k]) : k \in Visible(s) \ todo}

\* Before the source states are loaded there is no paper; then the works to do
\* and the papers make up the snapshot, and at the end nothing is to do.
BuiltSoFar(f, s) ==
  /\ f.pc \in {"lock", "load"} => f.papers = {}
  /\ f.pc \in {"build", "write", "commit"} =>
       ~NotReady(s) /\ f.papers = PapersBut(s, f.todo)
  /\ f.pc \in {"write", "commit"} => f.todo = {}

BuiltFromSnapshot ==
  \A p \in Publishers : BuiltSoFar(pub[p], history[pub[p].sources])

CommitsAreCurrent ==
  \A p \in Publishers : pub[p].pc = "commit" => pub[p].generations = Len(published)

IInv ==
  /\ CatalogType
  /\ PublishedFromHistory
  /\ SnapshotsAreLate
  /\ LockIsHeld
  /\ BuiltFromSnapshot
  /\ CommitsAreCurrent
  /\ PublicationsAreMonotone
  /\ PublicationsAreTrue

(***************************************************************************)
(* Every frame of PublishCurrent is a record of its type.                  *)
(***************************************************************************)
LEMMA FrameTypes ==
  ASSUME NEW f \in PubRecords
  PROVE  /\ \A pc \in PubPcs : [f EXCEPT !.pc = pc] \in PubRecords
         /\ \A pc \in PubPcs, todo \in SUBSET Keys :
              [f EXCEPT !.pc = pc, !.todo = todo] \in PubRecords
         /\ \A pc \in PubPcs, todo \in SUBSET Keys, papers \in SUBSET Rows :
              [f EXCEPT !.pc = pc, !.todo = todo, !.papers = papers] \in PubRecords
BY DEF PubRecords

LEMMA NoPubType == NoPub \in PubRecords
BY DEF NoPub, PubRecords, PubPcs

LEMMA PaperType ==
  ASSUME CatalogAssumption, NEW s \in Sources, NEW k \in Visible(s)
  PROVE  k \in Keys /\ Paper(k, s[k]) \in Rows
BY DEF CatalogAssumption, Visible, Paper, Rows, Sources

LEMMA RevisionType ==
  ASSUME NEW formula \in Formulas, NEW papers \in SUBSET Rows
  PROVE  Revision(formula, papers) \in Revisions
BY DEF Revision, Revisions

LEMMA UnlockedType ==
  ASSUME CatalogType, NEW p \in Publishers
  PROVE  Unlocked(p) \in Publishers \cup {None}
BY DEF CatalogType, Unlocked
(***************************************************************************)
(* Steps of one publisher that commit nothing.                             *)
(***************************************************************************)
SoundFrame(p, f, lock) ==
  /\ f \in PubRecords
  /\ f.pc # "idle" =>
       /\ f.formula \in Formulas
       /\ f.sources \in 1..Len(history)
       /\ f.generations \in 0..Len(published)
       /\ \A i \in 1..f.generations : published[i].sources <= f.sources
  /\ f.pc \in {"load", "build", "write", "commit"} => lock = p
  /\ BuiltSoFar(f, history[f.sources])
  /\ f.pc = "commit" => f.generations = Len(published)
  /\ lock \in Publishers \cup {None}
  /\ \A q \in Publishers \ {p} : publisherLock = q => lock = q

LEMMA FrameStep ==
  ASSUME IInv, NEW p \in Publishers, NEW f, NEW lock,
         SoundFrame(p, f, lock),
         pub' = [pub EXCEPT ![p] = f],
         publisherLock' = lock,
         UNCHANGED <<history, published>>
  PROVE  IInv'
<1> DEFINE Changed(q) == IF q = p THEN f ELSE pub[q]
<1>1. \A q \in Publishers : pub'[q] = Changed(q)
  BY DEF IInv, CatalogType
<1> HIDE DEF Changed
<1>2. CatalogType'
  BY DEF IInv, CatalogType, SoundFrame
<1>3. SnapshotsAreLate'
  BY <1>1 DEF IInv, SnapshotsAreLate, SoundFrame, Changed
<1>4. LockIsHeld'
  BY <1>1 DEF IInv, LockIsHeld, SoundFrame, Changed
<1>5. BuiltFromSnapshot'
  BY <1>1 DEF IInv, BuiltFromSnapshot, SoundFrame, Changed
<1>6. CommitsAreCurrent'
  BY <1>1 DEF IInv, CommitsAreCurrent, SoundFrame, Changed
<1>7. (PublishedFromHistory /\ PublicationsAreMonotone /\ PublicationsAreTrue)'
  BY DEF IInv, PublishedFromHistory, PublicationsAreMonotone, PublicationsAreTrue
<1> QED BY <1>2, <1>3, <1>4, <1>5, <1>6, <1>7 DEF IInv

LEMMA BeginInv ==
  ASSUME IInv, NEW p \in Publishers, NEW formula \in Formulas, Begin(p, formula)
  PROVE  IInv'
<1> DEFINE f == [NoPub EXCEPT !.pc = "lock", !.formula = formula,
                              !.sources = Len(history),
                              !.generations = Len(published)]
<1>1. Len(history) \in Nat /\ Len(history) >= 1 /\ Len(published) \in Nat
  BY DEF IInv, CatalogType
<1>2. \A i \in 1..Len(published) : published[i].sources <= Len(history)
  BY <1>1 DEF IInv, PublishedFromHistory
<1>3. f \in PubRecords
  BY <1>1 DEF NoPub, PubRecords, PubPcs
<1>4. /\ f.pc = "lock" /\ f.formula = formula /\ f.sources = Len(history)
      /\ f.generations = Len(published) /\ f.papers = {}
  BY DEF NoPub
<1> HIDE DEF f
<1>5. publisherLock \in Publishers \cup {None}
  BY DEF IInv, CatalogType
<1>6. SoundFrame(p, f, publisherLock)
  BY <1>1, <1>2, <1>3, <1>4, <1>5 DEF SoundFrame, BuiltSoFar
<1>7. pub' = [pub EXCEPT ![p] = f] /\ UNCHANGED <<history, published, publisherLock>>
  BY DEF Begin, f
<1> QED BY <1>6, <1>7, FrameStep

LEMMA LockInv ==
  ASSUME IInv, NEW p \in Publishers, Lock(p) PROVE IInv'
<1> DEFINE f == [pub[p] EXCEPT !.pc = "load"]
<1>1. pub[p] \in PubRecords
  BY DEF IInv, CatalogType
<1>2. f \in PubRecords
  BY <1>1, FrameTypes DEF PubPcs
<1>3. /\ f.pc = "load" /\ f.formula = pub[p].formula /\ f.papers = pub[p].papers
      /\ f.sources = pub[p].sources /\ f.generations = pub[p].generations
  BY <1>1 DEF PubRecords
<1> HIDE DEF f
<1>4. SoundFrame(p, f, p)
  BY <1>2, <1>3, CatalogAssumption
     DEF Lock, SoundFrame, IInv, SnapshotsAreLate, BuiltFromSnapshot, BuiltSoFar
<1>5. pub' = [pub EXCEPT ![p] = f] /\ publisherLock' = p /\ UNCHANGED <<history, published>>
  BY DEF Lock, f
<1> QED BY <1>4, <1>5, FrameStep

LEMMA RollbackInv ==
  ASSUME IInv, NEW p \in Publishers, Rollback(p) PROVE IInv'
<1> DEFINE f == NoPub
<1>1. f \in PubRecords /\ f.pc = "idle"
  BY NoPubType DEF NoPub, PubRecords
<1> HIDE DEF f
<1>2. Unlocked(p) \in Publishers \cup {None}
  BY UnlockedType DEF IInv
<1>3. SoundFrame(p, f, Unlocked(p))
  BY <1>1, <1>2 DEF SoundFrame, Unlocked, BuiltSoFar
<1>4. pub' = [pub EXCEPT ![p] = f] /\ publisherLock' = Unlocked(p)
      /\ UNCHANGED <<history, published>>
  BY DEF Rollback, f
<1> QED BY <1>3, <1>4, FrameStep

\* A publisher that is past its lock sees a state of its own, ready or not.
LEMMA SeenType ==
  ASSUME IInv, NEW p \in Publishers, pub[p].pc # "idle"
  PROVE  /\ pub[p] \in PubRecords
         /\ Seen(p) = history[pub[p].sources] /\ Seen(p) \in Sources
         /\ Visible(Seen(p)) \in SUBSET Keys
<1>1. pub[p].sources \in 1..Len(history) /\ history \in Seq(Sources)
  BY DEF IInv, CatalogType, SnapshotsAreLate
<1>2. history[pub[p].sources] \in Sources
  BY <1>1
<1> QED BY <1>2 DEF IInv, CatalogType, Seen, Visible

LEMMA LoadStatesInv ==
  ASSUME IInv, NEW p \in Publishers, LoadStates(p) PROVE IInv'
<1> DEFINE s == Seen(p)
           f == [pub[p] EXCEPT !.pc = "build", !.todo = Visible(s)]
<1>1. pub[p].pc = "load" /\ ~NotReady(s)
  BY DEF LoadStates
<1>2. /\ pub[p] \in PubRecords /\ s = history[pub[p].sources]
      /\ Visible(s) \in SUBSET Keys
  BY <1>1, SeenType
<1>3. f \in PubRecords
  BY <1>2, FrameTypes DEF PubPcs
<1>4. /\ f.pc = "build" /\ f.formula = pub[p].formula /\ f.todo = Visible(s)
      /\ f.papers = pub[p].papers
      /\ f.sources = pub[p].sources /\ f.generations = pub[p].generations
  BY <1>2 DEF PubRecords
<1>5. pub' = [pub EXCEPT ![p] = f] /\ UNCHANGED <<history, published, publisherLock>>
  BY DEF LoadStates
<1> HIDE DEF f, s
<1>6. publisherLock = p /\ pub[p].papers = {}
  BY <1>1 DEF IInv, LockIsHeld, BuiltFromSnapshot, BuiltSoFar
<1>7. PapersBut(s, Visible(s)) = {}
  BY DEF PapersBut
<1>8. BuiltSoFar(f, s)
  BY <1>1, <1>4, <1>6, <1>7 DEF BuiltSoFar
<1>9. SoundFrame(p, f, p)
  BY <1>1, <1>2, <1>3, <1>4, <1>6, <1>8 DEF SoundFrame, IInv, SnapshotsAreLate
<1> QED BY <1>5, <1>6, <1>9, FrameStep

LEMMA BuildPaperInv ==
  ASSUME IInv, NEW p \in Publishers, BuildPaper(p) PROVE IInv'
<1> DEFINE s == Seen(p)
           todo == pub[p].todo
<1>1. pub[p].pc = "build" /\ UNCHANGED <<history, published, publisherLock>>
  BY DEF BuildPaper
<1> PICK k \in todo \cap Visible(s) :
       pub' = [pub EXCEPT ![p].pc = IF todo = {k} THEN "write" ELSE "build",
                          ![p].todo = @ \ {k},
                          ![p].papers = @ \cup {Paper(k, s[k])}]
  BY DEF BuildPaper
<1> DEFINE pc == IF todo = {k} THEN "write" ELSE "build"
           papers == pub[p].papers \cup {Paper(k, s[k])}
           f == [pub[p] EXCEPT !.pc = pc, !.todo = todo \ {k}, !.papers = papers]
<1>2. pub[p] \in PubRecords /\ s = history[pub[p].sources] /\ s \in Sources
  BY <1>1, SeenType
<1>3. pc \in PubPcs /\ todo \ {k} \in SUBSET Keys /\ papers \in SUBSET Rows
  <2> HIDE DEF s
  <2>1. Paper(k, s[k]) \in Rows
    BY <1>2, PaperType, CatalogAssumption
  <2> QED BY <1>2, <2>1 DEF PubRecords, PubPcs
<1>4. f \in PubRecords
  <2> HIDE DEF pc, papers, s
  <2> QED BY <1>2, <1>3, FrameTypes
<1>5. pub' = [pub EXCEPT ![p] = f]
  BY DEF IInv, CatalogType
<1>6. /\ f.pc = pc /\ f.formula = pub[p].formula /\ f.todo = todo \ {k}
      /\ f.papers = papers
      /\ f.sources = pub[p].sources /\ f.generations = pub[p].generations
  BY <1>2 DEF PubRecords
<1> HIDE DEF f, s
<1>7. publisherLock = p /\ ~NotReady(s) /\ pub[p].papers = PapersBut(s, todo)
  BY <1>1, <1>2 DEF IInv, LockIsHeld, BuiltFromSnapshot, BuiltSoFar
<1>8. papers = PapersBut(s, todo \ {k})
  <2>1. Visible(s) \ (todo \ {k}) = (Visible(s) \ todo) \cup {k}
    OBVIOUS
  <2> QED BY <1>7, <2>1 DEF PapersBut
<1>9. BuiltSoFar(f, s)
  BY <1>6, <1>7, <1>8 DEF BuiltSoFar
<1>10. SoundFrame(p, f, p)
  BY <1>1, <1>2, <1>4, <1>6, <1>7, <1>9 DEF SoundFrame, IInv, SnapshotsAreLate
<1> QED BY <1>1, <1>5, <1>7, <1>10, FrameStep

LEMMA WriteInv ==
  ASSUME IInv, NEW p \in Publishers, Write(p) PROVE IInv'
<1> DEFINE f == [pub[p] EXCEPT !.pc = "commit"]
<1>1. pub[p] \in PubRecords /\ pub[p].pc = "write"
  BY DEF IInv, CatalogType, Write
<1>2. f \in PubRecords
  BY <1>1, FrameTypes DEF PubPcs
<1>3. /\ f.pc = "commit" /\ f.formula = pub[p].formula
      /\ f.todo = pub[p].todo /\ f.papers = pub[p].papers
      /\ f.sources = pub[p].sources /\ f.generations = pub[p].generations
  BY <1>1 DEF PubRecords
<1>4. pub' = [pub EXCEPT ![p] = f] /\ UNCHANGED <<history, published, publisherLock>>
  BY DEF Write
<1> HIDE DEF f
<1>5. publisherLock = p
  BY <1>1 DEF IInv, LockIsHeld
<1>6. pub[p].generations = Len(published)
  BY DEF Write, Writable
<1>7. SoundFrame(p, f, p)
  BY <1>1, <1>2, <1>3, <1>5, <1>6
     DEF SoundFrame, IInv, SnapshotsAreLate, BuiltFromSnapshot, BuiltSoFar
<1> QED BY <1>4, <1>5, <1>7, FrameStep

(***************************************************************************)
(* The two steps that lengthen a log.                                      *)
(***************************************************************************)
LEMMA ChangeInv ==
  ASSUME IInv, NEW s \in States, Change(s) PROVE IInv'
<1>1. s \in Sources
  BY CatalogAssumption
<1>2. /\ history' = Append(history, s)
      /\ UNCHANGED <<published, publisherLock, pub>>
  BY DEF Change
<1>3. /\ history' \in Seq(Sources) /\ Len(history') = Len(history) + 1
      /\ Len(history) \in Nat
      /\ \A i \in 1..Len(history) : history'[i] = history[i]
  BY <1>1, <1>2 DEF IInv, CatalogType
<1>4. CatalogType'
  BY <1>2, <1>3 DEF IInv, CatalogType
<1>5. PublishedFromHistory'
  BY <1>2, <1>3 DEF IInv, PublishedFromHistory
<1>6. SnapshotsAreLate'
  BY <1>2, <1>3 DEF IInv, SnapshotsAreLate
<1>7. BuiltFromSnapshot'
  <2> SUFFICES ASSUME NEW p \in Publishers
               PROVE  BuiltSoFar(pub[p], history'[pub[p].sources])
    BY <1>2 DEF BuiltFromSnapshot, BuiltSoFar
  <2>1. CASE pub[p].pc = "idle"
    BY <2>1 DEF BuiltSoFar
  <2>2. CASE pub[p].pc # "idle"
    <3>1. pub[p].sources \in 1..Len(history)
      BY <2>2 DEF IInv, SnapshotsAreLate
    <3> QED BY <1>3, <3>1 DEF IInv, BuiltFromSnapshot
  <2> QED BY <2>1, <2>2
<1>8. PublicationsAreTrue'
  <2> SUFFICES ASSUME NEW i \in 1..Len(published)
               PROVE  \E n \in published[i].sources..Len(history') :
                        /\ ~NotReady(history'[n])
                        /\ published[i].revision.papers = Papers(history'[n])
    BY <1>2 DEF PublicationsAreTrue, NotReady, Papers, Visible
  <2>1. PICK n \in published[i].sources..Len(history) :
               /\ ~NotReady(history[n])
               /\ published[i].revision.papers = Papers(history[n])
    BY DEF IInv, PublicationsAreTrue
  <2>2. published[i].sources \in 1..Len(history)
    BY DEF IInv, PublishedFromHistory
  <2>3. n \in 1..Len(history) /\ n \in published[i].sources..Len(history')
    BY <1>3, <2>2
  <2>4. history'[n] = history[n]
    BY <1>3, <2>3
  <2> QED BY <2>1, <2>3, <2>4
<1> QED BY <1>2, <1>4, <1>5, <1>6, <1>7, <1>8
        DEF IInv, LockIsHeld, CommitsAreCurrent, PublicationsAreMonotone

LEMMA CommitInv ==
  ASSUME IInv, NEW p \in Publishers, Commit(p) PROVE IInv'
<1> DEFINE e == [revision |-> Built(p), sources |-> pub[p].sources]
           s == history[pub[p].sources]
           f == NoPub
<1>1. pub[p] \in PubRecords /\ pub[p].pc = "commit"
  BY DEF IInv, CatalogType, Commit
<1>2. /\ pub[p].formula \in Formulas
      /\ pub[p].sources \in 1..Len(history)
      /\ pub[p].generations = Len(published)
      /\ publisherLock = p
      /\ ~NotReady(s)
      /\ pub[p].papers = PapersBut(s, {})
      /\ \A i \in 1..Len(published) : published[i].sources <= pub[p].sources
  BY <1>1 DEF IInv, SnapshotsAreLate, CommitsAreCurrent, LockIsHeld, BuiltFromSnapshot,
              BuiltSoFar
<1>3. Built(p) \in Revisions /\ Built(p).papers = Papers(s)
  <2>1. pub[p].papers \in SUBSET Rows
    BY <1>1 DEF PubRecords
  <2>2. Built(p) \in Revisions
    BY <1>2, <2>1, RevisionType DEF Built
  <2>3. PapersBut(s, {}) = Papers(s)
    BY DEF PapersBut, Papers
  <2> QED BY <1>2, <2>2, <2>3 DEF Built, Revision
<1>4. e \in [revision : Revisions, sources : Nat]
  BY <1>2, <1>3
<1>5. f \in PubRecords /\ f.pc = "idle"
  BY NoPubType DEF NoPub
<1>6. /\ published' = Append(published, e)
      /\ publisherLock' = None
      /\ pub' = [pub EXCEPT ![p] = f]
      /\ UNCHANGED history
  BY <1>2 DEF Commit, Unlocked
<1> HIDE DEF f
<1>7. /\ published' \in Seq([revision : Revisions, sources : Nat])
      /\ Len(published) \in Nat /\ Len(published') = Len(published) + 1
      /\ published'[Len(published')] = e
      /\ \A i \in 1..Len(published) : published'[i] = published[i]
  BY <1>4, <1>6 DEF IInv, CatalogType
<1>8. \A q \in Publishers : pub'[q] = IF q = p THEN f ELSE pub[q]
  BY <1>6 DEF IInv, CatalogType
<1>9. \A q \in Publishers : pub'[q].pc \notin {"load", "build", "write", "commit"}
  BY <1>2, <1>5, <1>8 DEF IInv, LockIsHeld
<1>10. CatalogType'
  BY <1>5, <1>6, <1>7, CatalogAssumption DEF IInv, CatalogType
<1>11. PublishedFromHistory'
  BY <1>2, <1>6, <1>7 DEF IInv, PublishedFromHistory
<1>12. SnapshotsAreLate'
  BY <1>5, <1>6, <1>7, <1>8 DEF IInv, SnapshotsAreLate
<1>13. (LockIsHeld /\ CommitsAreCurrent)'
  BY <1>9 DEF LockIsHeld, CommitsAreCurrent
<1>16. BuiltFromSnapshot'
  BY <1>5, <1>6, <1>8 DEF IInv, BuiltFromSnapshot, BuiltSoFar
<1>14. PublicationsAreMonotone'
  <2> SUFFICES ASSUME NEW i \in 1..Len(published'), NEW j \in 1..Len(published'), i < j
               PROVE  published'[i].sources <= published'[j].sources
    BY DEF PublicationsAreMonotone
  <2>0. Len(published) \in Nat /\ Len(published') = Len(published) + 1
    BY <1>7
  <2>1. i \in 1..Len(published)
    BY <2>0
  <2>4. j \in 1..Len(published) \/ j = Len(published')
    BY <2>0
  <2>2. CASE j \in 1..Len(published)
    BY <1>7, <2>1, <2>2 DEF IInv, PublicationsAreMonotone
  <2>3. CASE j = Len(published')
    <3>1. published'[j].sources = pub[p].sources
      BY <1>7, <2>3
    <3>2. published'[i].sources = published[i].sources
      BY <1>7, <2>1
    <3>3. published[i].sources <= pub[p].sources
      BY <1>2, <2>1
    <3> QED BY <3>1, <3>2, <3>3
  <2> QED BY <2>2, <2>3, <2>4
<1>15. PublicationsAreTrue'
  <2> SUFFICES ASSUME NEW i \in 1..Len(published')
               PROVE  \E n \in published'[i].sources..Len(history) :
                        /\ ~NotReady(history[n])
                        /\ published'[i].revision.papers = Papers(history[n])
    BY <1>6 DEF PublicationsAreTrue, NotReady, Papers, Visible, Paper
  <2>1. CASE i \in 1..Len(published)
    BY <1>7, <2>1 DEF IInv, PublicationsAreTrue
  <2>2. CASE i = Len(published')
    <3>1. /\ published'[i].sources = pub[p].sources
          /\ published'[i].revision.papers = Papers(s)
      BY <1>3, <1>7, <2>2
    <3>2. pub[p].sources \in pub[p].sources..Len(history)
      BY <1>2
    <3> QED BY <1>2, <3>1, <3>2
  <2> QED BY <1>7, <2>1, <2>2
<1> QED BY <1>10, <1>11, <1>12, <1>13, <1>14, <1>15, <1>16 DEF IInv

LEMMA UnchangedInv ==
  ASSUME IInv, UNCHANGED <<history, published, publisherLock, pub>> PROVE IInv'
<1>1. (CatalogType /\ PublishedFromHistory /\ SnapshotsAreLate /\ LockIsHeld)'
  BY DEF IInv, CatalogType, PublishedFromHistory, SnapshotsAreLate, LockIsHeld
<1>2. BuiltFromSnapshot'
  BY DEF IInv, BuiltFromSnapshot, BuiltSoFar
<1>3. (CommitsAreCurrent /\ PublicationsAreMonotone)'
  BY DEF IInv, CommitsAreCurrent, PublicationsAreMonotone
<1>4. PublicationsAreTrue'
  BY DEF IInv, PublicationsAreTrue, NotReady, Papers, Visible, Paper
<1> QED BY <1>1, <1>2, <1>3, <1>4 DEF IInv

LEMMA InitInv == ASSUME Init PROVE IInv
<1>1. PICK s \in States : history = <<s>>
  BY DEF Init
<1>2. s \in Sources
  BY CatalogAssumption
<1>3. /\ published = <<>> /\ publisherLock = None
      /\ \A p \in Publishers : pub[p] = NoPub
      /\ pub \in [Publishers -> PubRecords]
  BY NoPubType DEF Init
<1>4. NoPub.pc = "idle"
  BY DEF NoPub
<1>5. CatalogType
  <2>1. history \in Seq(Sources) /\ history # <<>>
    BY <1>1, <1>2
  <2>2. published \in Seq([revision : Revisions, sources : Nat])
    BY <1>3
  <2>3. publisherLock \in Publishers \cup {None}
    BY <1>3
  <2> QED BY <1>3, <2>1, <2>2, <2>3 DEF CatalogType
<1> QED BY <1>3, <1>4, <1>5 DEF IInv, PublishedFromHistory, SnapshotsAreLate,
          LockIsHeld, BuiltFromSnapshot, BuiltSoFar, CommitsAreCurrent,
          PublicationsAreMonotone, PublicationsAreTrue

LEMMA StepInv == ASSUME IInv, [Next]_vars PROVE IInv'
<1>1. CASE \E s \in States : Change(s)
  BY <1>1, ChangeInv
<1>2. CASE \E p \in Publishers : Publish(p)
  <2> PICK p \in Publishers : Publish(p)
    BY <1>2
  <2> QED BY BeginInv, LockInv, LoadStatesInv, BuildPaperInv, WriteInv, CommitInv, RollbackInv DEF Publish
<1>3. CASE \E r \in Readers : Read(r)
  <2>1. UNCHANGED <<history, published, publisherLock, pub>>
    BY <1>3 DEF Read, ReadFirst, ReadNext
  <2> QED BY <2>1, UnchangedInv
<1>4. CASE UNCHANGED vars
  BY <1>4, UnchangedInv DEF vars
<1> QED BY <1>1, <1>2, <1>3, <1>4 DEF Next

(* The inductive invariant holds in every reachable state. *)
THEOREM Invariant == Spec => []IInv
BY InitInv, StepInv, PTL DEF Spec

(* A publisher never takes the catalog back to an older state of the       *)
(* sources, although its snapshot is older than its lock.                   *)
THEOREM NeverBack == Spec => []PublicationsAreMonotone
<1>1. IInv => PublicationsAreMonotone
  BY DEF IInv
<1> QED BY <1>1, Invariant, PTL

(* Every generation is one committed state of all sources, all of it ready  *)
(* and no older than the transaction that published it: commits of workers  *)
(* between the queries of buildCurrentSnapshot do not tear it.              *)
THEOREM NeverTorn == Spec => []PublicationsAreTrue
<1>1. IInv => PublicationsAreTrue
  BY DEF IInv
<1> QED BY <1>1, Invariant, PTL

(***************************************************************************)
(* A finite set under a total order has a last element: a smallest subset  *)
(* without one cannot exist.  An order is a set of pairs here, so that it  *)
(* can be turned round.                                                    *)
(***************************************************************************)
IsOrder(R, S) ==
  /\ \A x, y \in S : x = y \/ <<x, y>> \in R \/ <<y, x>> \in R
  /\ \A x, y, z \in S : <<x, y>> \in R /\ <<y, z>> \in R => <<x, z>> \in R

HasLast(R, T) == \E m \in T : \A x \in T : x = m \/ <<x, m>> \in R

LEMMA FiniteHasLast ==
  ASSUME NEW S, IsFiniteSet(S), S # {}, NEW R, IsOrder(R, S)
  PROVE  HasLast(R, S)
<1> DEFINE F == {T \in SUBSET S : T # {} /\ ~HasLast(R, T)}
<1> SUFFICES ASSUME F # {} PROVE FALSE
  OBVIOUS
<1>1. IsWellFoundedOn(StrictSubsetOrdering(S), FiniteSubsetsOf(S))
  BY FS_StrictSubsetOrderingWellFounded
<1>2. F \subseteq FiniteSubsetsOf(S)
  BY FS_FiniteSubsetsOfFinite
<1>3. PICK T \in F : \A U \in F : ~(<<U, T>> \in StrictSubsetOrdering(S))
  <2> HIDE DEF F
  <2> QED BY <1>1, <1>2, WFMin
<1>4. T \subseteq S /\ T # {} /\ ~HasLast(R, T)
  OBVIOUS
<1>5. PICK x \in T : TRUE
  BY <1>4
<1> DEFINE U == T \ {x}
<1>6. U \notin F
  BY <1>3, <1>4, <1>5 DEF StrictSubsetOrdering
<1>7. U \subseteq S
  BY <1>4
<1>8. CASE U = {}
  BY <1>4, <1>5, <1>8 DEF HasLast
<1>9. CASE HasLast(R, U)
  <2> PICK m \in U : \A y \in U : y = m \/ <<y, m>> \in R
    BY <1>9 DEF HasLast
  <2>1. m \in S /\ x \in S /\ m # x /\ m \in T
    BY <1>4, <1>5
  <2>2. CASE <<x, m>> \in R
    BY <1>4, <2>1, <2>2 DEF HasLast
  <2>3. CASE <<m, x>> \in R
    <3>1. \A y \in T : y = x \/ <<y, x>> \in R
      BY <1>4, <2>1, <2>3 DEF IsOrder
    <3> QED BY <1>4, <1>5, <3>1 DEF HasLast
  <2> QED BY <2>1, <2>2, <2>3 DEF IsOrder
<1> QED BY <1>6, <1>7, <1>8, <1>9

(***************************************************************************)
(* The listing order and the cursor.                                       *)
(***************************************************************************)
\* The rows the publisher writes: only a known value counts.
Listables == {p \in Rows : p.state # "known" => p.value = 0}

LEMMA Ranks ==
  ASSUME NEW p \in Rows
  PROVE  /\ StateRank(p.state) \in 0..2
         /\ StateRank(p.state) = 0 <=> p.state = "known"
         /\ StateRank(p.state) = 1 <=> p.state = "unknown"
         /\ StateRank(p.state) = 2 <=> p.state = "missing"
BY DEF Rows, StateRank

LEMMA SameRow ==
  ASSUME NEW p \in Rows, NEW q \in Rows, p.state = q.state, p.value = q.value, p.key = q.key
  PROVE  p = q
<1>1. /\ p = [key |-> p.key, state |-> p.state, value |-> p.value]
      /\ q = [key |-> q.key, state |-> q.state, value |-> q.value]
  BY DEF Rows
<1> QED BY <1>1

\* The order of the listing is a strict total one on rows.
LEMMA PrecedesOrder ==
  ASSUME CatalogAssumption
  PROVE  /\ \A p \in Rows : ~Precedes(p, p)
         /\ \A p, q \in Rows : p = q \/ Precedes(p, q) \/ Precedes(q, p)
         /\ \A p, q, s \in Rows : Precedes(p, q) /\ Precedes(q, s) => Precedes(p, s)
<1>1. \A p \in Rows : p.key \in Nat /\ p.value \in Nat /\ StateRank(p.state) \in Nat
  <2>1. ASSUME NEW p \in Rows
        PROVE  p.key \in Nat /\ p.value \in Nat /\ StateRank(p.state) \in 0..2
    BY Ranks DEF Rows, CatalogAssumption
  <2> QED BY <2>1
<1>2. \A p, q \in Rows : StateRank(p.state) = StateRank(q.state) <=> p.state = q.state
  BY Ranks DEF Rows
<1>3. ASSUME NEW p \in Rows, NEW q \in Rows PROVE p = q \/ Precedes(p, q) \/ Precedes(q, p)
  BY <1>1, <1>2, SameRow DEF Precedes
<1>4. ASSUME NEW p \in Rows, NEW q \in Rows, NEW s \in Rows,
             Precedes(p, q), Precedes(q, s)
      PROVE  Precedes(p, s)
  BY <1>1, <1>2, <1>4 DEF Precedes
<1>5. \A p \in Rows : ~Precedes(p, p)
  BY <1>1 DEF Precedes
<1> QED BY <1>3, <1>4, <1>5

\* What follows the cursor is what the order puts after its row.
LEMMA CursorIsOrder ==
  ASSUME CatalogAssumption, NEW c \in Listables, NEW p \in Listables
  PROVE  AfterCursor(c, p) <=> Precedes(c, p)
<1>1. /\ p.key \in Nat /\ p.value \in Nat /\ c.key \in Nat /\ c.value \in Nat
      /\ p \in Rows /\ c \in Rows
  BY DEF Listables, Rows, CatalogAssumption
<1>2. /\ StateRank(p.state) \in Nat /\ StateRank(c.state) \in Nat
      /\ StateRank(p.state) = StateRank(c.state) <=> p.state = c.state
      /\ StateRank(c.state) = 0 <=> c.state = "known"
  BY <1>1, Ranks DEF Rows
<1>3. CASE c.state = "known"
  BY <1>1, <1>2, <1>3 DEF AfterCursor, Precedes
<1>4. CASE c.state # "known"
  <2>1. p.state = c.state => p.value = 0 /\ c.value = 0
    BY <1>4 DEF Listables
  <2> QED BY <1>1, <1>2, <1>4, <2>1 DEF AfterCursor, Precedes
<1> QED BY <1>3, <1>4

\* Of some rows, the last and, turned round, the first.
LEMMA EndsExist ==
  ASSUME CatalogAssumption, NEW S \in SUBSET Rows, IsFiniteSet(S), S # {}
  PROVE  /\ \E m \in S : \A q \in S : q = m \/ Precedes(q, m)
         /\ \E m \in S : \A q \in S : q = m \/ Precedes(m, q)
<1> DEFINE Up == {e \in S \X S : Precedes(e[1], e[2])}
           Down == {e \in S \X S : Precedes(e[2], e[1])}
<1>1. \A x, y \in S : /\ <<x, y>> \in Up <=> Precedes(x, y)
                      /\ <<x, y>> \in Down <=> Precedes(y, x)
  OBVIOUS
<1> HIDE DEF Up, Down
<1>2. IsOrder(Up, S) /\ IsOrder(Down, S)
  <2>1. IsOrder(Up, S)
    BY <1>1, PrecedesOrder DEF IsOrder
  <2>2. IsOrder(Down, S)
    BY <1>1, PrecedesOrder DEF IsOrder
  <2> QED BY <2>1, <2>2
<1>3. HasLast(Up, S) /\ HasLast(Down, S)
  BY <1>2, FiniteHasLast
<1> QED BY <1>1, <1>3 DEF HasLast

LEMMA FinalIsLast ==
  ASSUME CatalogAssumption, NEW S \in SUBSET Rows, IsFiniteSet(S), S # {}
  PROVE  Final(S) \in S /\ \A q \in S : q = Final(S) \/ Precedes(q, Final(S))
BY EndsExist DEF Final

\* A page is an initial segment of the rows it is taken from, and it is not
\* empty unless they are.
LEMMA PageIsInitial ==
  ASSUME CatalogAssumption, NEW S \in SUBSET Rows, IsFiniteSet(S), NEW n \in Nat \ {0}
  PROVE  /\ First(S, n) \subseteq S
         /\ \A p \in First(S, n), q \in S : Precedes(q, p) => q \in First(S, n)
         /\ S # {} => First(S, n) # {}
<1> DEFINE Before(p) == {q \in S : Precedes(q, p)}
<1>1. First(S, n) = {p \in S : Cardinality(Before(p)) < n}
  BY DEF First
<1>2. ASSUME NEW p \in First(S, n), NEW q \in S, Precedes(q, p) PROVE q \in First(S, n)
  <2>1. Before(q) \subseteq Before(p)
    BY <1>1, <1>2, PrecedesOrder
  <2>2. IsFiniteSet(Before(p)) /\ IsFiniteSet(Before(q))
    BY FS_Subset
  <2>3. Cardinality(Before(q)) <= Cardinality(Before(p))
    <3> HIDE DEF Before
    <3> QED BY <2>1, <2>2, FS_Subset
  <2>4. Cardinality(Before(q)) \in Nat /\ Cardinality(Before(p)) \in Nat
    <3> HIDE DEF Before
    <3> QED BY <2>2, FS_CardinalityType
  <2>5. Cardinality(Before(p)) < n
    BY <1>1
  <2> HIDE DEF Before
  <2> QED BY <1>1, <2>3, <2>4, <2>5
<1>3. ASSUME S # {} PROVE First(S, n) # {}
  <2> PICK m \in S : \A q \in S : q = m \/ Precedes(m, q)
    BY <1>3, EndsExist
  <2>1. Before(m) = {}
    BY PrecedesOrder
  <2>2. Cardinality(Before(m)) = 0
    BY <2>1, FS_EmptySet
  <2> HIDE DEF Before
  <2> QED BY <1>1, <2>2
<1> QED BY <1>1, <1>2, <1>3

(***************************************************************************)
(* The listings: what a client holds is an initial segment of one          *)
(* generation, and its cursor is the last row of what it has seen.         *)
(***************************************************************************)
ReaderRecords ==
  [status : {"idle", "more", "end", "conflict", "failed"},
   revision : Revisions \cup {None}, filter : SUBSET Keys, cursor : Rows \cup {None},
   seen : SUBSET Rows, delivered : Nat, total : Nat]

HistoryIsReal == \A i \in 1..Len(history) : history[i] \in States

Listable(revision) == revision.papers \subseteq Listables /\ IsFiniteSet(revision.papers)

\* Rows read so far: an initial segment of the listing, counted.
Prefix(listed, seen, delivered) ==
  /\ seen \subseteq listed
  /\ \A p \in listed, q \in seen : Precedes(p, q) => p \in seen
  /\ delivered = Cardinality(seen)

\* The cursor is the last row read.
CursorIsLast(read) ==
  /\ read.cursor \in read.seen
  /\ \A p \in read.seen : p = read.cursor \/ Precedes(p, read.cursor)

ListingHolds(read) ==
  LET listed == Listed(read.revision, read.filter) IN
  read.status # "idle" =>
    /\ read.revision # None
    /\ Listable(read.revision)
    /\ Prefix(listed, read.seen, read.delivered)
    /\ read.total = Cardinality(listed)
    /\ read.status = "more" => CursorIsLast(read)
    /\ read.status = "end" => read.seen = listed

ListingInv ==
  /\ reader \in [Readers -> ReaderRecords]
  /\ HistoryIsReal
  /\ \A r \in Readers : ListingHolds(reader[r])

LEMMA PapersAreFinite ==
  ASSUME NEW s \in States PROVE IsFiniteSet(Papers(s))
<1> DEFINE K == {k \in Keys : s[k] # Hidden}
           D == Visible(s)
           row == [k \in D |-> Paper(k, s[k])]
<1>1. Hidden \notin Drafts
  BY CatalogAssumption DEF CatalogAssumption, Hidden
<1>2. IsFiniteSet(K)
  BY TablesAreFinite DEF TablesAreFinite
<1>3. D \subseteq K
  BY <1>1 DEF Visible
<1>4. IsFiniteSet(D)
  <2> HIDE DEF D, K
  <2> QED BY <1>2, <1>3, FS_Subset
<1>5. Papers(s) = {row[k] : k \in D}
  BY DEF Papers
<1>6. row \in Surjection(D, Papers(s))
  <2>1. row \in [D -> Papers(s)]
    BY <1>5
  <2>2. \A p \in Papers(s) : \E k \in D : row[k] = p
    BY <1>5
  <2> QED BY <2>1, <2>2 DEF Surjection
<1> HIDE DEF row, D
<1> QED BY <1>4, <1>6, FS_Surjection

LEMMA PapersAreListable ==
  ASSUME NEW s \in States, NEW formula PROVE Listable(Revision(formula, Papers(s)))
<1>1. Papers(s) \subseteq Listables
  <2> SUFFICES ASSUME NEW k \in Keys, s[k] \in Drafts
               PROVE  Paper(k, s[k]) \in Listables
    BY DEF Papers, Visible
  <2> DEFINE p == [key |-> k, state |-> s[k].state, value |-> s[k].value]
  <2>1. /\ s[k].state \in {"known", "unknown", "missing"} /\ s[k].value \in Nat
        /\ s[k].state # "known" => s[k].value = 0
    BY CatalogAssumption DEF CatalogAssumption
  <2>2. p \in Rows
    BY <2>1 DEF Rows
  <2> QED BY <2>1, <2>2 DEF Listables, Paper
<1> QED BY <1>1, PapersAreFinite DEF Listable, Revision

\* Every published generation, the current one among them, can be listed.
LEMMA CurrentIsListable ==
  ASSUME IInv, HistoryIsReal, Current # None
  PROVE  Listable(Current) /\ Current \in Revisions
<1> DEFINE n == Len(published)
<1>1. published # <<>> /\ Current = published[n].revision
  BY DEF Current
<1>2. n \in 1..Len(published) /\ published[n] \in [revision : Revisions, sources : Nat]
  <2> DEFINE R == [revision : Revisions, sources : Nat]
  <2>1. published \in Seq(R)
    BY DEF IInv, CatalogType
  <2> HIDE DEF R
  <2>2. n \in 1..Len(published) /\ published[n] \in R
    BY <1>1, <2>1
  <2> QED BY <2>2 DEF R
<1>3. PICK m \in published[n].sources..Len(history) :
             published[n].revision.papers = Papers(history[m])
  BY <1>2 DEF IInv, PublicationsAreTrue
<1>4. history[m] \in States
  <2>1. published[n].sources \in 1..Len(history) /\ history \in Seq(Sources)
    BY <1>2 DEF IInv, CatalogType, PublishedFromHistory
  <2>2. m \in 1..Len(history)
    BY <2>1
  <2> QED BY <2>2 DEF HistoryIsReal
<1>5. Listable(Revision(None, Papers(history[m])))
  BY <1>4, PapersAreListable
<1> QED BY <1>1, <1>2, <1>3, <1>5 DEF Listable, Revision

LEMMA ListedIsFinite ==
  ASSUME NEW v, NEW filter, Listable(v)
  PROVE  Listed(v, filter) \in SUBSET Listables /\ IsFiniteSet(Listed(v, filter))
BY FS_Subset DEF Listable, Listed

(***************************************************************************)
(* One page: from a prefix and the rows after it, the longer prefix.       *)
(***************************************************************************)
LEMMA PageHolds ==
  ASSUME CatalogAssumption, ListingInv,
         Current \in Revisions, Listable(Current),
         NEW r \in Readers, NEW filter \in Filters,
         NEW seen, NEW delivered, NEW rows,
         Prefix(Listed(Current, filter), seen, delivered),
         rows = Listed(Current, filter) \ seen,
         \A p \in seen, q \in rows : Precedes(p, q),
         Page(r, filter, rows, seen, delivered)
  PROVE  /\ reader' \in [Readers -> ReaderRecords]
         /\ \A u \in Readers : u # r => reader'[u] = reader[u]
         /\ reader'[r].revision = Current
         /\ reader'[r].filter = filter
         /\ reader'[r].total = Cardinality(Listed(Current, filter))
         /\ reader'[r].status \in {"more", "end"}
         /\ Prefix(Listed(Current, filter), reader'[r].seen, reader'[r].delivered)
         /\ reader'[r].status = "more" => CursorIsLast(reader'[r])
         /\ reader'[r].status = "end" => reader'[r].seen = Listed(Current, filter)
<1> DEFINE listed == Listed(Current, filter)
           page == First(rows, Limit)
           more == rows # page
           f == [status |-> IF more THEN "more" ELSE "end",
                 revision |-> Current,
                 filter |-> filter,
                 cursor |-> IF more THEN NextCursor(page) ELSE None,
                 seen |-> seen \cup page,
                 delivered |-> delivered + Cardinality(page),
                 total |-> Cardinality(listed)]
<1>1. reader' = [reader EXCEPT ![r] = f]
  BY DEF Page
<1>2. /\ listed \subseteq Rows /\ IsFiniteSet(listed)
      /\ seen \subseteq listed /\ rows \subseteq listed
      /\ \A p \in listed, q \in seen : Precedes(p, q) => p \in seen
      /\ delivered = Cardinality(seen)
  BY ListedIsFinite DEF Listables, Prefix
<1>3. IsFiniteSet(seen) /\ IsFiniteSet(rows) /\ rows \in SUBSET Rows
  <2> HIDE DEF listed
  <2> QED BY <1>2, FS_Subset
<1>4. Limit \in Nat \ {0}
  BY DEF CatalogAssumption
<1>5. /\ page \subseteq rows
      /\ \A p \in page, q \in rows : Precedes(q, p) => q \in page
      /\ rows # {} => page # {}
  BY <1>3, <1>4, PageIsInitial
<1> HIDE DEF page, listed
<1>6. IsFiniteSet(page) /\ seen \cap page = {}
  BY <1>3, <1>5, FS_Subset DEF listed
<1>7. /\ Cardinality(seen \cup page) = Cardinality(seen) + Cardinality(page)
      /\ Cardinality(seen) \in Nat /\ Cardinality(page) \in Nat
      /\ Cardinality(listed) \in Nat
  <2>1. /\ Cardinality(seen) \in Nat /\ Cardinality(page) \in Nat
        /\ Cardinality(listed) \in Nat
    BY <1>2, <1>3, <1>6, FS_CardinalityType
  <2>2. Cardinality(seen \cup page)
          = Cardinality(seen) + Cardinality(page) - Cardinality(seen \cap page)
    BY <1>3, <1>6, FS_Union
  <2>3. Cardinality(seen \cap page) = 0
    BY <1>6, FS_EmptySet
  <2> QED BY <2>1, <2>2, <2>3
<1>8. Prefix(listed, seen \cup page, delivered + Cardinality(page))
  <2>1. ASSUME NEW p \in listed, NEW q \in seen \cup page, Precedes(p, q)
        PROVE  p \in seen \cup page
    BY <1>2, <1>5, <2>1 DEF listed
  <2> QED BY <1>2, <1>5, <1>7, <2>1 DEF Prefix
<1>9. ASSUME more
      PROVE  /\ NextCursor(page) \in page
             /\ \A p \in seen \cup page :
                  p = NextCursor(page) \/ Precedes(p, NextCursor(page))
  <2>1. page # {} /\ page \in SUBSET Rows
    BY <1>3, <1>5, <1>9
  <2>2. /\ Final(page) \in page
        /\ \A q \in page : q = Final(page) \/ Precedes(q, Final(page))
    BY <1>6, <2>1, FinalIsLast
  <2>3. Final(page) \in Rows
    BY <2>1, <2>2
  <2>4. NextCursor(page) = Final(page)
    BY <2>3 DEF NextCursor, Rows
  <2> QED BY <1>5, <2>2, <2>4
<1>10. f \in ReaderRecords
  <2>1. NextCursor(page) \in Rows \cup {None} \/ ~more
    BY <1>3, <1>5, <1>9
  <2>2. filter \in SUBSET Keys
    BY DEF CatalogAssumption
  <2>3. seen \cup page \in SUBSET Rows
    BY <1>2, <1>3, <1>5
  <2>4. delivered + Cardinality(page) \in Nat
    BY <1>2, <1>7
  <2> HIDE DEF more
  <2> QED BY <1>7, <2>1, <2>2, <2>3, <2>4 DEF ReaderRecords
<1>11. ~more => seen \cup page = listed
  BY <1>2 DEF listed
<1>12. /\ f.status \in {"more", "end"} /\ (f.status = "more" <=> more)
       /\ f.revision = Current /\ f.filter = filter /\ f.total = Cardinality(listed)
       /\ f.seen = seen \cup page /\ f.delivered = delivered + Cardinality(page)
       /\ more => f.cursor = NextCursor(page)
  OBVIOUS
<1> HIDE DEF f, more
<1>13. /\ reader'[r] = f /\ reader' \in [Readers -> ReaderRecords]
       /\ \A u \in Readers : u # r => reader'[u] = reader[u]
  BY <1>1, <1>10 DEF ListingInv
<1> QED BY <1>8, <1>9, <1>11, <1>12, <1>13 DEF CursorIsLast, listed

LEMMA ReadFirstHolds ==
  ASSUME IInv, ListingInv, NEW r \in Readers, NEW filter \in Filters,
         ReadFirst(r, filter)
  PROVE  ListingInv'
<1> DEFINE listed == Listed(Current, filter)
<1>1. /\ Current # None /\ UNCHANGED <<history, published>>
      /\ Page(r, filter, listed, {}, 0)
  BY DEF ReadFirst
<1>2. Listable(Current) /\ Current \in Revisions
  BY <1>1, CurrentIsListable DEF ListingInv
<1>3. Prefix(listed, {}, 0)
  BY FS_EmptySet DEF Prefix
<1>4. listed = listed \ {}
  OBVIOUS
<1> HIDE DEF listed
<1>5. /\ reader' \in [Readers -> ReaderRecords]
      /\ \A u \in Readers : u # r => reader'[u] = reader[u]
      /\ reader'[r].revision = Current
      /\ reader'[r].filter = filter
      /\ reader'[r].total = Cardinality(listed)
      /\ reader'[r].status \in {"more", "end"}
      /\ Prefix(listed, reader'[r].seen, reader'[r].delivered)
      /\ reader'[r].status = "more" => CursorIsLast(reader'[r])
      /\ reader'[r].status = "end" => reader'[r].seen = listed
  BY <1>1, <1>2, <1>3, <1>4, PageHolds, CatalogAssumption DEF listed
<1>6. ListingHolds(reader'[r])
  BY <1>1, <1>2, <1>5 DEF ListingHolds, listed
<1> QED BY <1>1, <1>5, <1>6 DEF ListingInv, HistoryIsReal

\* A following page: the cursor splits the listing into what was seen and what
\* was not, because it is the last row seen.
LEMMA ReadNextHolds ==
  ASSUME IInv, ListingInv, NEW r \in Readers, NEW filter \in Filters,
         ReadNext(r, filter)
  PROVE  ListingInv'
<1> DEFINE read == reader[r]
           listed == Listed(Current, filter)
           rows == {p \in listed : AfterCursor(read.cursor, p)}
<1>1. /\ read \in ReaderRecords /\ ListingHolds(read) /\ read.status = "more"
      /\ reader \in [Readers -> ReaderRecords]
      /\ UNCHANGED <<history, published>>
  BY DEF ReadNext, ListingInv
<1>2. ASSUME NEW status \in {"conflict", "failed"},
             reader' = [reader EXCEPT ![r].status = status]
      PROVE  ListingInv'
  <2>1. /\ reader'[r] = [read EXCEPT !.status = status]
        /\ \A u \in Readers : u # r => reader'[u] = reader[u]
    BY <1>1, <1>2
  <2>2. /\ reader'[r].status = status /\ reader'[r].revision = read.revision
        /\ reader'[r].filter = read.filter /\ reader'[r].seen = read.seen
        /\ reader'[r].delivered = read.delivered /\ reader'[r].total = read.total
        /\ reader'[r] \in ReaderRecords
    BY <1>1, <2>1 DEF ReaderRecords
  <2>3. ListingHolds(reader'[r])
    BY <1>1, <2>2 DEF ListingHolds
  <2>4. reader' \in [Readers -> ReaderRecords]
    BY <1>1, <1>2, <2>1, <2>2
  <2> QED BY <1>1, <2>1, <2>3, <2>4 DEF ListingInv, HistoryIsReal
<1>3. ASSUME Bound(r, filter), Page(r, filter, rows, read.seen, read.delivered)
      PROVE  ListingInv'
  <2>1. /\ Current = read.revision /\ filter = read.filter /\ Listable(Current)
        /\ Prefix(listed, read.seen, read.delivered)
        /\ CursorIsLast(read)
    BY <1>1, <1>3 DEF Bound, ListingHolds
  <2>2. Current # None /\ Current \in Revisions
    BY <1>1, <2>1, CurrentIsListable DEF ListingInv, ListingHolds
  <2>3. listed \subseteq Listables /\ Listables \subseteq Rows
    BY <2>1, ListedIsFinite DEF Listables
  <2>4. read.seen \subseteq listed
    BY <2>1 DEF Prefix
  <2>5. ASSUME NEW p \in listed
        PROVE  AfterCursor(read.cursor, p) <=> p \notin read.seen
    <3>1. read.cursor \in read.seen /\ read.cursor \in Listables /\ p \in Listables
      BY <2>1, <2>3, <2>4, <2>5 DEF CursorIsLast
    <3>2. AfterCursor(read.cursor, p) <=> Precedes(read.cursor, p)
      BY <3>1, CursorIsOrder, CatalogAssumption
    <3>3. read.cursor \in Rows /\ p \in Rows
      BY <2>3, <3>1
    <3>4. ASSUME p \in read.seen PROVE ~Precedes(read.cursor, p)
      <4>1. p = read.cursor \/ Precedes(p, read.cursor)
        BY <2>1, <3>4 DEF CursorIsLast
      <4> QED BY <3>3, <4>1, PrecedesOrder, CatalogAssumption
    <3>5. ASSUME p \notin read.seen PROVE Precedes(read.cursor, p)
      <4>1. ~Precedes(p, read.cursor) /\ p # read.cursor
        BY <2>1, <2>5, <3>1, <3>5 DEF Prefix
      <4> QED BY <3>3, <4>1, PrecedesOrder, CatalogAssumption
    <3> QED BY <3>2, <3>4, <3>5
  <2>6. rows = listed \ read.seen
    BY <2>5
  <2>7. ASSUME NEW p \in read.seen, NEW q \in rows PROVE Precedes(p, q)
    <3>1. q \in listed /\ q \notin read.seen
      BY <2>5
    <3>2. p \in listed /\ p # q /\ ~Precedes(q, p)
      BY <2>1, <2>4, <2>7, <3>1 DEF Prefix
    <3>3. p \in Rows /\ q \in Rows
      BY <2>3, <3>1, <3>2
    <3> QED BY <3>2, <3>3, PrecedesOrder, CatalogAssumption
  <2> HIDE DEF rows, listed
  <2>8. /\ reader' \in [Readers -> ReaderRecords]
        /\ \A u \in Readers : u # r => reader'[u] = reader[u]
        /\ reader'[r].revision = Current
        /\ reader'[r].filter = filter
        /\ reader'[r].total = Cardinality(listed)
        /\ reader'[r].status \in {"more", "end"}
        /\ Prefix(listed, reader'[r].seen, reader'[r].delivered)
        /\ reader'[r].status = "more" => CursorIsLast(reader'[r])
        /\ reader'[r].status = "end" => reader'[r].seen = listed
    BY <1>3, <2>1, <2>2, <2>6, <2>7, PageHolds, CatalogAssumption DEF listed
  <2>9. ListingHolds(reader'[r])
    BY <2>1, <2>2, <2>8 DEF ListingHolds, listed
  <2> QED BY <1>1, <2>8, <2>9 DEF ListingInv, HistoryIsReal
<1> QED BY <1>2, <1>3 DEF ReadNext

LEMMA InitListing == ASSUME Init PROVE ListingInv
<1> DEFINE idle == [status |-> "idle", revision |-> None, filter |-> {},
                    cursor |-> None, seen |-> {}, delivered |-> 0, total |-> 0]
<1>1. idle \in ReaderRecords /\ idle.status = "idle"
  BY DEF ReaderRecords
<1>2. reader = [r \in Readers |-> idle]
  BY DEF Init
<1> HIDE DEF idle
<1>3. HistoryIsReal
  BY DEF Init, HistoryIsReal
<1> QED BY <1>1, <1>2, <1>3 DEF ListingInv, ListingHolds

LEMMA StepListing == ASSUME IInv, ListingInv, [Next]_vars PROVE ListingInv'
<1>1. CASE \E s \in States : Change(s)
  <2> PICK s \in States : Change(s)
    BY <1>1
  <2>1. history' = Append(history, s) /\ UNCHANGED reader
    BY DEF Change
  <2>2. history \in Seq(Sources)
    BY DEF IInv, CatalogType
  <2>3. HistoryIsReal'
    <3>1. /\ Len(history) \in Nat /\ Len(history') = Len(history) + 1
          /\ history'[Len(history) + 1] = s
          /\ \A i \in 1..Len(history) : history'[i] = history[i]
      BY <2>1, <2>2
    <3>2. \A i \in 1..Len(history') : i \in 1..Len(history) \/ i = Len(history) + 1
      BY <3>1
    <3> QED BY <3>1, <3>2 DEF ListingInv, HistoryIsReal
  <2> QED BY <2>1, <2>3 DEF ListingInv
<1>2. CASE \E p \in Publishers : Publish(p)
  <2> PICK p \in Publishers : Publish(p)
    BY <1>2
  <2>1. UNCHANGED <<history, reader>>
    <3>1. CASE Commit(p)
      BY <3>1 DEF Commit
    <3> QED BY <3>1 DEF Publish, Begin, Lock, LoadStates, BuildPaper, Write, Rollback
  <2> QED BY <2>1 DEF ListingInv, HistoryIsReal
<1>3. CASE \E r \in Readers : Read(r)
  BY <1>3, ReadFirstHolds, ReadNextHolds DEF Read
<1>4. CASE UNCHANGED vars
  BY <1>4 DEF vars, ListingInv, HistoryIsReal
<1> QED BY <1>1, <1>2, <1>3, <1>4 DEF Next

(* The pages a client reads by following cursors are an initial segment of  *)
(* one generation under one filter, each row once, and the last of them     *)
(* ends the listing with as many rows as the total says: for every set of   *)
(* works, every page size and every publication between two pages.          *)
THEOREM ListingsExact == Spec => []ListingsAreExact
<1>1. Init => ListingInv
  BY InitListing
<1>2. IInv /\ ListingInv /\ [Next]_vars => ListingInv'
  BY StepListing
<1>3. ListingInv => ListingsAreExact
  <2> SUFFICES ASSUME ListingInv, NEW r \in Readers, reader[r].status # "idle"
               PROVE  LET read == reader[r]  listed == Listed(read.revision, read.filter) IN
                      /\ read.seen \subseteq listed
                      /\ \A p \in listed, q \in read.seen : Precedes(p, q) => p \in read.seen
                      /\ read.delivered = Cardinality(read.seen)
                      /\ read.status = "end" => /\ read.seen = listed
                                                /\ read.delivered = read.total
    BY DEF ListingsAreExact
  <2>1. ListingHolds(reader[r])
    BY DEF ListingInv
  <2> QED BY <2>1 DEF ListingHolds, Prefix
<1> QED BY <1>1, <1>2, <1>3, Invariant, PTL DEF Spec
==============================================================================
