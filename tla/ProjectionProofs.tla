-------------------------- MODULE ProjectionProofs --------------------------
(***************************************************************************)
(* Projection implements SourceLedger, for any workers, snapshots, policy  *)
(* versions and identifiers: whatever the interleaving of the write        *)
(* transactions, each commit is one step of the ledger and everything else *)
(* leaves the ledger alone.                                                *)
(***************************************************************************)
EXTENDS Projection, WellFoundedInduction, TLAPS

(***************************************************************************)
(* Types.  What a handler plans for the projection of its work does not    *)
(* matter to the ledger: any set of plans will do.                         *)
(***************************************************************************)
Pcs == {"idle", "rejected", "normalize", "exclude", "begin", "lock", "select", "commit"}

Frames(plans) ==
  [pc : Pcs, raw : Raws \cup {None}, ver : Versions \cup {None}, held : SUBSET Ids,
   work : Works \cup {None}, row : BOOLEAN, changed : BOOLEAN, plan : plans]

TxType == tx \in [Workers -> Frames({tx[w].plan : w \in Workers})]

DbType ==
  /\ identOf \in [Ids -> Works \cup {None}]
  /\ canon \in [Works -> Ids \cup {None}]
  /\ state \in [Events -> Revisions \cup {None}]

(***************************************************************************)
(* The invariant.  From the moment a transaction has chosen its work, its  *)
(* locks keep what it chose by: the works its identifiers name, the key of *)
(* its work and the revision of its event.                                 *)
(***************************************************************************)
Started(f) == f.pc \in {"lock", "select", "commit"}
Writes(f) == f.pc \in {"select", "commit"}
Projects(f) == Writes(f) /\ IsUpsert(f.raw)

\* A handler under way has a snapshot, of the kind its step is for.
Sound(f) ==
  /\ f.pc \notin {"idle", "rejected"} => f.raw \in Raws /\ f.ver \in Versions
  /\ f.pc \in {"normalize", "exclude", "lock"} => IsUpsert(f.raw)
  /\ ~Started(f) => f.held = {}
  /\ ~Writes(f) => f.work = None
  /\ Writes(f) => f.row
  /\ Projects(f) => f.held = ControlledIds(f.raw) /\ f.work \in Works

\* Identifiers, events and the works of projections are locked exclusively.
Apart(f, g) ==
  /\ f.held \cap g.held = {}
  /\ Started(f) /\ Started(g) => Event(f.raw) # Event(g.raw)
  /\ Projects(f) /\ Projects(g) => f.work # g.work

\* The identifiers of a record that is being projected name its work, or
\* nothing names it yet.
Chosen(f) ==
  Projects(f) =>
    /\ \A i \in ControlledIds(f.raw) : identOf[i] \in {None, f.work}
    /\ (\E i \in ControlledIds(f.raw) : identOf[i] = f.work) \/ canon[f.work] = None

\* What a transaction decided about the revision of its event still holds.
RowOf(f) ==
  IF IsUpsert(f.raw) THEN Included(f.raw, f.ver, f.work) ELSE Deleted(f.raw, f.ver, f.work)

KnownBy(old) == IF old = None THEN None ELSE old.work

\* Replaces, of the revision the event had.
Supersedes(old, new) ==
  \/ old = None
  \/ Rank(new.raw) > Rank(old.raw)
  \/ new.raw = old.raw /\ (IF old = None \/ new.work # None THEN new
                            ELSE [new EXCEPT !.work = old.work]) # old

Settled(f, old) ==
  Writes(f) =>
    /\ f.changed = Supersedes(old, RowOf(f))
    /\ ~IsUpsert(f.raw) => f.work = KnownBy(old)

Decided(f) == Settled(f, state[Event(f.raw)])

\* No identifier names a work that has no row.
NamedWorksExist == \A i \in Ids : identOf[i] # None => canon[identOf[i]] # None

PInv ==
  /\ TxType
  /\ DbType
  /\ \A w \in Workers : Sound(tx[w]) /\ Chosen(tx[w]) /\ Decided(tx[w])
  /\ \A v, w \in Workers : v # w => Apart(tx[v], tx[w])
  /\ NamedWorksExist

(***************************************************************************)
(* Facts about the constants.                                              *)
(***************************************************************************)
LEMMA SnapshotTypes ==
  ASSUME NEW r \in Raws
  PROVE  Event(r) \in Events /\ Rank(r) \in Nat
BY SnapshotsAssumption DEF SnapshotsAssumption, Event, Rank

LEMMA RecordIds ==
  ASSUME NEW r \in Raws, IsUpsert(r)
  PROVE  ControlledIds(r) \subseteq Ids /\ Identity(r) \in ControlledIds(r)
         /\ Identity(r) \in Ids
BY SnapshotsAssumption DEF SnapshotsAssumption, ControlledIds, Identity, IsUpsert

LEMMA NoneIsApart ==
  None \notin Ids \cup Works \cup Versions \cup Raws \cup Revisions \cup Shown
BY SnapshotsAssumption DEF SnapshotsAssumption

LEMMA RowsAreRevisions ==
  ASSUME NEW r \in Raws, NEW v \in Versions, NEW x \in Works \cup {None}
  PROVE  /\ Included(r, v, x) \in Revisions /\ Included(r, v, x).raw = r
         /\ Excluded(r, v) \in Revisions /\ Excluded(r, v).raw = r
         /\ Deleted(r, v, x) \in Revisions /\ Deleted(r, v, x).raw = r
<1>1. Verdict[v][r] \in Scopes
  BY SnapshotsAssumption DEF SnapshotsAssumption
<1> QED BY <1>1 DEF Included, Excluded, Deleted, Revisions, Scopes

LEMMA RowOfRaw == \A f : RowOf(f).raw = f.raw
BY DEF RowOf, Included, Deleted

LEMMA ReplacesIs ==
  ASSUME NEW new
  PROVE  Replaces(new) = Supersedes(state[Event(new.raw)], new)
BY DEF Replaces, Supersedes, Coalesced

(***************************************************************************)
(* Steps of one handler.                                                   *)
(***************************************************************************)
LEMMA OneFrame ==
  ASSUME TxType, NEW w \in Workers, NEW plans, NEW f \in Frames(plans),
         tx' = [tx EXCEPT ![w] = f]
  PROVE  /\ tx'[w] = f
         /\ \A v \in Workers \ {w} : tx'[v] = tx[v]
         /\ TxType'
<1>1. tx'[w] = f /\ \A v \in Workers \ {w} : tx'[v] = tx[v]
  BY DEF TxType
<1>2. \A v \in Workers : tx'[v] \in Frames({tx'[u].plan : u \in Workers})
  <2> TAKE v \in Workers
  <2>1. CASE v = w
    BY <1>1, <2>1 DEF Frames
  <2>2. CASE v # w
    BY <1>1, <2>2 DEF Frames, TxType
  <2> QED BY <2>1, <2>2
<1>3. tx' = [v \in Workers |-> tx'[v]]
  BY DEF TxType
<1> QED BY <1>1, <1>2, <1>3 DEF TxType

\* A handler moves on and the ledger stays: its new frame has to be sound, and
\* apart from the others.
LEMMA FrameKeeps ==
  ASSUME PInv, NEW w \in Workers, NEW plans, NEW f \in Frames(plans),
         tx' = [tx EXCEPT ![w] = f], UNCHANGED <<identOf, canon, state>>,
         Sound(f), Chosen(f), Decided(f),
         \A v \in Workers \ {w} : Apart(f, tx[v])
  PROVE  PInv'
<1>1. /\ tx'[w] = f /\ TxType'
      /\ \A v \in Workers \ {w} : tx'[v] = tx[v]
  BY OneFrame DEF PInv
<1>2. ASSUME NEW v \in Workers
      PROVE  Sound(tx'[v]) /\ Chosen(tx[v])' /\ Decided(tx[v])'
  <2>1. Sound(tx'[v]) /\ Chosen(tx'[v]) /\ Decided(tx'[v])
    BY <1>1 DEF PInv
  <2>2. Chosen(tx[v])'
    BY <2>1 DEF Chosen, Projects, Writes, IsUpsert, ControlledIds, Identity
  <2>3. Decided(tx[v])'
    BY <2>1 DEF Decided, Event
  <2> QED BY <2>1, <2>2, <2>3
<1>3. ASSUME NEW u \in Workers, NEW v \in Workers, u # v
      PROVE  Apart(tx'[u], tx'[v])
  BY <1>1, <1>3 DEF PInv, Apart
<1>4. DbType' /\ NamedWorksExist'
  BY DEF PInv, DbType, NamedWorksExist
<1> QED BY <1>1, <1>2, <1>3, <1>4 DEF PInv, Sound, Apart, Started, Writes, Projects

\* A commit resets its handler.  What it writes leaves what others locked.
LEMMA CommitKeeps ==
  ASSUME PInv, NEW w \in Workers, tx' = [tx EXCEPT ![w] = Idle],
         DbType', NamedWorksExist',
         \A v \in Workers \ {w} : Projects(tx[v]) =>
           /\ \A i \in ControlledIds(tx[v].raw) : identOf'[i] = identOf[i]
           /\ canon'[tx[v].work] = canon[tx[v].work],
         \A v \in Workers \ {w} : Writes(tx[v]) =>
           state'[Event(tx[v].raw)] = state[Event(tx[v].raw)]
  PROVE  PInv'
<1>1. Idle \in Frames({Keep}) /\ Idle.pc = "idle" /\ Idle.held = {} /\ Idle.work = None
  BY DEF Idle, Handler, Frames, Pcs
<1>2. /\ tx'[w] = Idle /\ TxType'
      /\ \A v \in Workers \ {w} : tx'[v] = tx[v]
  <2> DEFINE f == Idle
             plans == {Keep}
  <2>1. TxType /\ f \in Frames(plans) /\ tx' = [tx EXCEPT ![w] = f]
    BY <1>1 DEF PInv
  <2> HIDE DEF f, plans
  <2>2. tx'[w] = f /\ TxType' /\ \A v \in Workers \ {w} : tx'[v] = tx[v]
    BY ONLY <2>1, w \in Workers, OneFrame
  <2> QED BY <2>2 DEF f
<1>3. ASSUME NEW v \in Workers
      PROVE  Sound(tx'[v]) /\ Chosen(tx[v])' /\ Decided(tx[v])'
  <2>1. CASE v = w
    <3>1. tx'[v] = Idle
      BY <1>2, <2>1
    <3> QED BY <1>1, <3>1 DEF Sound, Chosen, Decided, Settled, Started, Writes, Projects
  <2>2. CASE v # w
    <3>1. tx'[v] = tx[v] /\ Sound(tx[v]) /\ Chosen(tx[v]) /\ Decided(tx[v])
      BY <1>2, <2>2 DEF PInv
    <3>2. Chosen(tx[v])'
      BY <2>2, <3>1 DEF Chosen, Projects, Writes, IsUpsert, ControlledIds, Identity
    <3>3. Decided(tx[v])'
      <4>1. CASE ~Writes(tx[v])
        BY <3>1, <4>1 DEF Decided, Settled
      <4>2. CASE Writes(tx[v])
        BY <2>2, <3>1, <4>2 DEF Decided, Event
      <4> QED BY <4>1, <4>2
    <3> QED BY <3>1, <3>2, <3>3
  <2> QED BY <2>1, <2>2
<1>4. ASSUME NEW u \in Workers, NEW v \in Workers, u # v
      PROVE  Apart(tx'[u], tx'[v])
  BY <1>1, <1>2, <1>4 DEF PInv, Apart, Started, Writes, Projects
<1> QED BY <1>2, <1>3, <1>4 DEF PInv, Sound, Apart, Started, Writes, Projects

(***************************************************************************)
(* The handlers, one by one.                                               *)
(***************************************************************************)
LEMMA FreshFrame ==
  ASSUME NEW pc \in Pcs, NEW r \in Raws \cup {None}, NEW v \in Versions \cup {None}
  PROVE  /\ Handler(pc, r, v) \in Frames({Keep})
         /\ Handler(pc, r, v).pc = pc /\ Handler(pc, r, v).raw = r
         /\ Handler(pc, r, v).ver = v /\ Handler(pc, r, v).held = {}
         /\ Handler(pc, r, v).work = None
BY DEF Handler, Frames

\* A handler that holds nothing disturbs nobody.
LEMMA FreshKeeps ==
  ASSUME PInv, NEW w \in Workers, NEW pc \in Pcs \ {"lock", "select", "commit"},
         NEW r \in Raws \cup {None}, NEW v \in Versions \cup {None},
         pc \notin {"idle", "rejected"} => r \in Raws /\ v \in Versions,
         pc \in {"normalize", "exclude"} => IsUpsert(r),
         tx' = [tx EXCEPT ![w] = Handler(pc, r, v)], UNCHANGED <<identOf, canon, state>>
  PROVE  PInv'
<1> DEFINE f == Handler(pc, r, v)
<1>1. /\ f \in Frames({Keep}) /\ f.pc = pc /\ f.raw = r /\ f.ver = v /\ f.held = {}
      /\ f.work = None
  BY DEF Handler, Frames
<1> HIDE DEF f
<1>2. Sound(f) /\ Chosen(f) /\ Decided(f)
  BY <1>1 DEF Sound, Chosen, Decided, Settled, Started, Writes, Projects
<1>3. \A u \in Workers \ {w} : Apart(f, tx[u])
  BY <1>1 DEF Apart, Started, Writes, Projects
<1> QED BY <1>1, <1>2, <1>3, FrameKeeps DEF f

LEMMA DeliverKeeps ==
  ASSUME PInv, NEW w \in Workers, Deliver(w)
  PROVE  PInv'
<1>1. PICK r \in Raws, v \in Versions :
        tx' = [tx EXCEPT ![w] = Handler(IF IsUpsert(r) THEN "normalize" ELSE "begin", r, v)]
  BY DEF Deliver
<1>2. UNCHANGED <<identOf, canon, state>>
  BY DEF Deliver, dbVars
<1>3. CASE IsUpsert(r)
  BY <1>1, <1>2, <1>3, FreshKeeps DEF Pcs
<1>4. CASE ~IsUpsert(r)
  BY <1>1, <1>2, <1>4, FreshKeeps DEF Pcs
<1> QED BY <1>3, <1>4

LEMMA AbortKeeps ==
  ASSUME PInv, NEW w \in Workers, UNCHANGED <<identOf, canon, state>>,
         tx' = [tx EXCEPT ![w] = Idle] \/ tx' = [tx EXCEPT ![w] = Rejected]
  PROVE  PInv'
<1>1. "idle" \in Pcs /\ "rejected" \in Pcs
  BY DEF Pcs
<1> QED BY <1>1, FreshKeeps DEF Idle, Rejected

\* A step from before the transaction that only changes pc.
LEMMA NormalizeKeeps ==
  ASSUME PInv, NEW w \in Workers, Normalize(w)
  PROVE  PInv'
<1> DEFINE next == IF Verdict[tx[w].ver][tx[w].raw] = "excluded" THEN "exclude" ELSE "begin"
           f == [tx[w] EXCEPT !.pc = next]
<1>1. UNCHANGED <<identOf, canon, state>>
  BY DEF Normalize
<1>2. CASE tx' = [tx EXCEPT ![w] = Rejected]
  BY <1>1, <1>2, AbortKeeps
<1>3. CASE tx' = [tx EXCEPT ![w].pc = next]
  <2>1. tx[w] \in Frames({tx[u].plan : u \in Workers}) /\ tx[w].pc = "normalize"
    BY DEF PInv, TxType, Normalize
  <2>2. /\ f \in Frames({tx[u].plan : u \in Workers})
        /\ f.pc = next /\ f.raw = tx[w].raw /\ f.ver = tx[w].ver
        /\ f.held = tx[w].held /\ f.work = tx[w].work
    BY <2>1 DEF Frames, Pcs
  <2>3. tx' = [tx EXCEPT ![w] = f]
    BY <1>3
  <2>4. Sound(tx[w]) /\ \A v \in Workers \ {w} : Apart(tx[w], tx[v])
    BY DEF PInv
  <2> HIDE DEF f
  <2>5. Sound(f) /\ Chosen(f) /\ Decided(f)
    BY <2>1, <2>2, <2>4 DEF Sound, Chosen, Decided, Settled, Started, Writes, Projects
  <2>6. \A v \in Workers \ {w} : Apart(f, tx[v])
    BY <2>1, <2>2, <2>4 DEF Sound, Apart, Started, Writes, Projects
  <2> QED BY <1>1, <2>2, <2>3, <2>5, <2>6, FrameKeeps
<1> QED BY <1>2, <1>3 DEF Normalize

LEMMA BeginProjectKeeps ==
  ASSUME PInv, NEW w \in Workers, BeginProject(w)
  PROVE  PInv'
<1> DEFINE e == Event(tx[w].raw)
           f == [tx[w] EXCEPT !.pc = "lock", !.row = state[e] # None]
<1>1. tx[w] \in Frames({tx[u].plan : u \in Workers}) /\ tx[w].pc = "begin"
  BY DEF PInv, TxType, BeginProject
<1>2. /\ f \in Frames({tx[u].plan : u \in Workers})
      /\ f.pc = "lock" /\ f.raw = tx[w].raw /\ f.ver = tx[w].ver
      /\ f.held = tx[w].held /\ f.work = tx[w].work
  BY <1>1 DEF Frames, Pcs
<1>3. tx' = [tx EXCEPT ![w] = f] /\ UNCHANGED <<identOf, canon, state>>
  BY DEF BeginProject, dbVars
<1>4. Sound(tx[w]) /\ \A v \in Workers \ {w} : Apart(tx[w], tx[v])
  BY DEF PInv
<1>5. \A v \in Workers \ {w} : Started(tx[v]) => Event(tx[v].raw) # e
  BY DEF BeginProject, EventLocked, InTransaction, Started
<1> HIDE DEF f
<1>6. Sound(f) /\ Chosen(f) /\ Decided(f)
  BY <1>1, <1>2, <1>4 DEF Sound, Chosen, Decided, Settled, Started, Writes, Projects, BeginProject
<1>7. \A v \in Workers \ {w} : Apart(f, tx[v])
  BY <1>2, <1>4, <1>5 DEF Apart, Writes, Projects
<1> QED BY <1>2, <1>3, <1>6, <1>7, FrameKeeps

LEMMA LockIdentifierKeeps ==
  ASSUME PInv, NEW w \in Workers, LockIdentifier(w)
  PROVE  PInv'
<1>1. PICK i \in NextId(w) :
        /\ ~IdLocked(w, i)
        /\ tx' = [tx EXCEPT ![w].held = @ \cup {i}]
  BY DEF LockIdentifier
<1> DEFINE f == [tx[w] EXCEPT !.held = tx[w].held \cup {i}]
<1>2. /\ tx[w] \in Frames({tx[u].plan : u \in Workers}) /\ tx[w].pc = "lock"
      /\ Sound(tx[w]) /\ \A v \in Workers \ {w} : Apart(tx[w], tx[v])
  BY DEF PInv, TxType, LockIdentifier
<1>3. tx[w].raw \in Raws /\ IsUpsert(tx[w].raw)
  BY <1>2 DEF Sound
<1>4. i \in Ids
  BY <1>3, RecordIds DEF NextId
<1>5. /\ f \in Frames({tx[u].plan : u \in Workers})
      /\ f.pc = "lock" /\ f.raw = tx[w].raw /\ f.ver = tx[w].ver
      /\ f.held = tx[w].held \cup {i} /\ f.work = tx[w].work
  BY <1>2, <1>4 DEF Frames, Pcs
<1>6. tx' = [tx EXCEPT ![w] = f] /\ UNCHANGED <<identOf, canon, state>>
  BY <1>1 DEF LockIdentifier, dbVars
<1>7. \A v \in Workers \ {w} : i \notin tx[v].held
  BY <1>1 DEF IdLocked
<1> HIDE DEF f
<1>8. Sound(f) /\ Chosen(f) /\ Decided(f)
  BY <1>2, <1>5 DEF Sound, Chosen, Decided, Settled, Started, Writes, Projects
<1>9. \A v \in Workers \ {w} : Apart(f, tx[v])
  BY <1>2, <1>5, <1>7 DEF Apart, Started, Writes, Projects
<1> QED BY <1>5, <1>6, <1>8, <1>9, FrameKeeps

\* The work is named by the identifiers, all locked, or new: no other
\* transaction is about to write a record of it.
LEMMA ResolveWorkKeeps ==
  ASSUME PInv, NEW w \in Workers, ResolveWork(w)
  PROVE  PInv'
<1> DEFINE t == tx[w]
<1>1. UNCHANGED <<identOf, canon, state>> /\ t.pc = "lock" /\ t.held = ControlledIds(t.raw)
  BY DEF ResolveWork, dbVars
<1>2. PICK x \in Joinable(w) :
        tx' = [tx EXCEPT ![w] =
                 IF Conflicting(t.raw, t.ver, x) THEN Idle
                 ELSE [t EXCEPT !.pc = IF Replaces(Included(t.raw, t.ver, x))
                                       THEN "select" ELSE "commit",
                                !.work = x, !.row = TRUE,
                                !.changed = Replaces(Included(t.raw, t.ver, x))]]
  BY DEF ResolveWork
<1>3. /\ t \in Frames({tx[u].plan : u \in Workers})
      /\ Sound(t) /\ \A v \in Workers \ {w} : Apart(t, tx[v])
  BY DEF PInv, TxType
<1>4. t.raw \in Raws /\ t.ver \in Versions /\ IsUpsert(t.raw)
      /\ ControlledIds(t.raw) \subseteq Ids
  BY <1>1, <1>3, RecordIds DEF Sound
<1>5. CASE Conflicting(t.raw, t.ver, x)
  BY <1>1, <1>2, <1>5, AbortKeeps
<1>6. CASE ~Conflicting(t.raw, t.ver, x)
  <2> DEFINE changed == Replaces(Included(t.raw, t.ver, x))
             f == [t EXCEPT !.pc = IF changed THEN "select" ELSE "commit",
                            !.work = x, !.row = TRUE, !.changed = changed]
  <2>1. x \in Works
    <3>1. Named(t.raw) \subseteq Works
      BY <1>4 DEF Named, PInv, DbType
    <3> QED BY <1>2, <3>1 DEF Joinable, FreshWorks
  <2>2. changed \in BOOLEAN
    BY DEF Replaces
  <2>3. /\ f \in Frames({tx[u].plan : u \in Workers})
        /\ f.pc \in {"select", "commit"} /\ f.raw = t.raw /\ f.ver = t.ver
        /\ f.held = t.held /\ f.work = x /\ f.row = TRUE /\ f.changed = changed
    BY <1>3, <2>1, <2>2 DEF Frames, Pcs
  <2>4. tx' = [tx EXCEPT ![w] = f]
    BY <1>2, <1>6
  <2> HIDE DEF f
  <2>5. \A v \in Workers \ {w} : Projects(tx[v]) => tx[v].work # x
    <3>1. CASE x \in FreshWorks(w)
      BY <3>1 DEF FreshWorks
    <3>2. CASE ~WorkLocked(w, x)
      BY <3>2 DEF WorkLocked, InTransaction, Projects, Writes
    <3> QED BY <1>2, <3>1, <3>2 DEF Joinable
  <2>6. Chosen(f)
    <3>1. CASE Named(t.raw) = {}
      <4>1. canon[x] = None
        BY <1>2, <3>1 DEF Joinable, FreshWorks
      <4> QED BY <2>3, <3>1, <4>1 DEF Chosen, Named
    <3>2. CASE Named(t.raw) # {}
      <4>1. x \in Named(t.raw)
        BY <1>2, <3>2 DEF Joinable
      <4>2. Named(t.raw) \subseteq {x}
        BY <1>6 DEF Conflicting
      <4> QED BY <2>3, <4>1, <4>2 DEF Chosen, Named
    <3> QED BY <3>1, <3>2
  <2>7. Sound(f) /\ Decided(f)
    <3>1. Sound(f)
      BY <1>1, <1>4, <2>1, <2>3 DEF Sound, Started, Writes, Projects
    <3>2. RowOf(f) = Included(t.raw, t.ver, x)
      BY <1>4, <2>3 DEF RowOf
    <3>3. changed = Supersedes(state[Event(t.raw)], RowOf(f))
      BY <2>3, <3>2, ReplacesIs, RowOfRaw
    <3> QED BY <1>4, <2>3, <3>1, <3>3 DEF Decided, Settled
  <2>8. \A v \in Workers \ {w} : Apart(f, tx[v])
    BY <1>1, <1>3, <2>3, <2>5 DEF Apart, Started, Writes, Projects
  <2> QED BY <1>1, <2>3, <2>4, <2>6, <2>7, <2>8, FrameKeeps
<1> QED BY <1>5, <1>6

LEMMA BeginDeletionKeeps ==
  ASSUME PInv, NEW w \in Workers, BeginDeletion(w)
  PROVE  PInv'
<1> DEFINE t == tx[w]
           x == KnownBy(state[Event(t.raw)])
           changed == Replaces(Deleted(t.raw, t.ver, x))
           f == [t EXCEPT !.pc = IF changed /\ x # None THEN "select" ELSE "commit",
                          !.work = x, !.row = TRUE, !.changed = changed]
<1>1. /\ t \in Frames({tx[u].plan : u \in Workers}) /\ t.pc = "begin" /\ ~IsUpsert(t.raw)
      /\ Sound(t) /\ \A v \in Workers \ {w} : Apart(t, tx[v])
  BY DEF PInv, TxType, BeginDeletion
<1>2. t.raw \in Raws /\ t.ver \in Versions /\ t.held = {}
  BY <1>1 DEF Sound, Started
<1>3. x \in Works \cup {None} /\ changed \in BOOLEAN
  BY <1>2, SnapshotTypes DEF KnownBy, PInv, DbType, Revisions, Replaces
<1>4. tx' = [tx EXCEPT ![w] = f] /\ UNCHANGED <<identOf, canon, state>>
  BY DEF BeginDeletion, dbVars, KnownBy
<1>5. /\ f \in Frames({tx[u].plan : u \in Workers})
      /\ f.pc \in {"select", "commit"} /\ f.raw = t.raw /\ f.ver = t.ver
      /\ f.held = t.held /\ f.work = x /\ f.row = TRUE /\ f.changed = changed
  BY <1>1, <1>3 DEF Frames, Pcs
<1>6. \A v \in Workers \ {w} : Started(tx[v]) => Event(tx[v].raw) # Event(t.raw)
  BY DEF BeginDeletion, EventLocked, InTransaction, Started
<1> HIDE DEF f
<1>7. Sound(f) /\ Chosen(f) /\ Decided(f)
  <2>1. Sound(f) /\ Chosen(f)
    BY <1>1, <1>2, <1>5 DEF Sound, Chosen, Started, Writes, Projects
  <2>2. RowOf(f) = Deleted(t.raw, t.ver, x)
    BY <1>1, <1>5 DEF RowOf
  <2>3. changed = Supersedes(state[Event(t.raw)], RowOf(f))
    BY <1>5, <2>2, ReplacesIs, RowOfRaw
  <2> QED BY <1>5, <2>1, <2>3 DEF Decided, Settled
<1>8. \A v \in Workers \ {w} : Apart(f, tx[v])
  BY <1>1, <1>2, <1>5, <1>6 DEF Apart, Projects
<1> QED BY <1>4, <1>5, <1>7, <1>8, FrameKeeps

LEMMA SelectWinnerKeeps ==
  ASSUME PInv, NEW w \in Workers, SelectWinner(w)
  PROVE  PInv'
<1> DEFINE t == tx[w]
           plan == Plan(t.work, SeenState(w), SeenAsserted(w))
           f == [t EXCEPT !.pc = "commit", !.plan = plan]
           plans == {tx[u].plan : u \in Workers} \cup {plan}
<1>1. /\ t \in Frames({tx[u].plan : u \in Workers}) /\ t.pc = "select"
      /\ Sound(t) /\ Chosen(t) /\ Decided(t) /\ \A v \in Workers \ {w} : Apart(t, tx[v])
  BY DEF PInv, TxType, SelectWinner
<1>2. tx' = [tx EXCEPT ![w] = f] /\ UNCHANGED <<identOf, canon, state>>
  BY DEF SelectWinner, dbVars
<1> HIDE DEF plan
<1>3. /\ f \in Frames(plans)
      /\ f.pc = "commit" /\ f.raw = t.raw /\ f.ver = t.ver /\ f.held = t.held
      /\ f.work = t.work /\ f.row = t.row /\ f.changed = t.changed
  BY <1>1 DEF Frames, Pcs
<1> HIDE DEF f, plans
<1>4. Sound(f) /\ Chosen(f) /\ Decided(f)
  BY <1>1, <1>3 DEF Sound, Chosen, Decided, Settled, Started, Writes, Projects, RowOf
<1>5. \A v \in Workers \ {w} : Apart(f, tx[v])
  BY <1>1, <1>3 DEF Apart, Started, Writes, Projects
<1> QED BY <1>2, <1>3, <1>4, <1>5, FrameKeeps

(***************************************************************************)
(* What a commit writes is what the ledger writes.                         *)
(***************************************************************************)
\* The WHERE clause and the COALESCE of upsertSourceState leave the revision
\* the ledger leaves.
LEMMA WriteIsOffer ==
  ASSUME DbType, NEW new \in Revisions
  PROVE  /\ Coalesced(new) \in Revisions
         /\ [state EXCEPT ![Event(new.raw)] = Ledger!Newest(new)]
              = IF Replaces(new) THEN [state EXCEPT ![Event(new.raw)] = Coalesced(new)]
                ELSE state
<1> DEFINE e == Event(new.raw)
           old == state[e]
<1>1. e \in Events /\ new.raw \in Raws /\ Rank(new.raw) \in Nat
  BY SnapshotTypes DEF Revisions
<1>2. old = None \/ (old \in Revisions /\ old # None /\ Rank(old.raw) \in Nat)
  BY <1>1, SnapshotTypes, NoneIsApart DEF DbType, Revisions
<1>3. Coalesced(new) \in Revisions
  BY <1>2 DEF Coalesced, Revisions
<1>4. CASE old = None
  BY <1>3, <1>4 DEF Ledger!Newest, Ledger!Event, Ledger!Rank, Replaces, Coalesced, Event
<1>5. CASE old # None
  <2>1. Coalesced(new) = [new EXCEPT !.work = IF new.work = None THEN old.work
                                              ELSE new.work]
    BY <1>2, <1>5 DEF Coalesced, Revisions
  <2>2. Ledger!Newest(new) = IF Rank(new.raw) < Rank(old.raw) THEN old ELSE Coalesced(new)
    BY <1>5, <2>1 DEF Ledger!Newest, Ledger!Event, Ledger!Rank, Rank, Event
  <2>3. Rank(new.raw) = Rank(old.raw) => new.raw = old.raw
    BY <1>1, <1>2, <1>5, SnapshotsAssumption DEF SnapshotsAssumption, Rank, Revisions
  <2>4. IF Replaces(new) THEN Ledger!Newest(new) = Coalesced(new)
                         ELSE Ledger!Newest(new) = old
    <3>1. Replaces(new) <=> \/ Rank(new.raw) > Rank(old.raw)
                            \/ new.raw = old.raw /\ Coalesced(new) # old
      BY <1>5 DEF Replaces
    <3> QED BY <1>1, <1>2, <1>5, <2>2, <2>3, <3>1
  <2> QED BY <1>1, <1>3, <2>4 DEF DbType
<1> QED BY <1>3, <1>4, <1>5

LEMMA DeletedKeeps ==
  ASSUME NEW r, NEW v, NEW x, NEW y
  PROVE  [Deleted(r, v, x) EXCEPT !.work = y] = Deleted(r, v, y)
<1> DEFINE rows == [raw : {r}, work : {x, y}, scope : {"excluded"}, ver : {v}, deleted : {TRUE}]
<1>1. Deleted(r, v, x) \in rows /\ Deleted(r, v, y) \in rows /\ Deleted(r, v, y).work = y
  BY DEF Deleted
<1>2. [Deleted(r, v, x) EXCEPT !.work = y] \in rows
  BY <1>1
<1>3. [Deleted(r, v, x) EXCEPT !.work = y].work = y
  BY <1>1
<1>4. ASSUME NEW a \in rows PROVE a = Deleted(r, v, a.work)
  BY <1>4 DEF Deleted
<1> QED BY <1>2, <1>3, <1>4

\* A deletion that names the work its event is known by is one that names none.
LEMMA DeletionIsOffer ==
  ASSUME DbType, NEW r \in Raws, NEW v \in Versions
  PROVE  Ledger!Newest(Deleted(r, v, KnownBy(state[Event(r)]))) = Ledger!Newest(Deleted(r, v, None))
<1>1. Event(r) \in Events
  BY SnapshotTypes
<1>2. CASE state[Event(r)] = None
  BY <1>2 DEF KnownBy
<1>3. CASE state[Event(r)] # None
  <2> DEFINE old == state[Event(r)]
  <2>1. /\ [Deleted(r, v, None) EXCEPT !.work = old.work] = Deleted(r, v, old.work)
        /\ [Deleted(r, v, old.work) EXCEPT !.work = old.work] = Deleted(r, v, old.work)
    BY DeletedKeeps
  <2>2. /\ Deleted(r, v, None).raw = r /\ Deleted(r, v, None).work = None
        /\ Deleted(r, v, old.work).raw = r /\ Deleted(r, v, old.work).work = old.work
    BY DEF Deleted
  <2>3. KnownBy(state[Event(r)]) = old.work
    BY <1>3 DEF KnownBy
  <2>4. Ledger!Newest(Deleted(r, v, None))
          = IF Ledger!Rank(r) < Ledger!Rank(old.raw) THEN old ELSE Deleted(r, v, old.work)
    BY <1>3, <2>1, <2>2 DEF Ledger!Newest, Ledger!Event, Event
  <2>5. Ledger!Newest(Deleted(r, v, old.work))
          = IF Ledger!Rank(r) < Ledger!Rank(old.raw) THEN old ELSE Deleted(r, v, old.work)
    BY <1>3, <2>1, <2>2 DEF Ledger!Newest, Ledger!Event, Event
  <2> QED BY <2>3, <2>4, <2>5
<1> QED BY <1>2, <1>3

LEMMA ExcludeKeeps ==
  ASSUME PInv, NEW w \in Workers, Exclude(w)
  PROVE  PInv' /\ Ledger!Next
<1> DEFINE r == tx[w].raw
           v == tx[w].ver
           new == Excluded(r, v)
<1>1. r \in Raws /\ v \in Versions /\ IsUpsert(r)
  BY DEF PInv, Sound, Exclude
<1>2. new \in Revisions /\ new.raw = r /\ Event(r) \in Events
  BY <1>1, RowsAreRevisions, SnapshotTypes
<1> HIDE DEF new
<1>3. state' = [state EXCEPT ![Event(r)] = Ledger!Newest(new)]
  BY <1>2, WriteIsOffer DEF Exclude, PInv, new
<1>4. /\ tx' = [tx EXCEPT ![w] = Idle] /\ UNCHANGED <<identOf, canon, recWork>>
      /\ \A u \in Workers \ {w} : Writes(tx[u]) => Event(tx[u].raw) # Event(r)
  BY DEF Exclude, RowLocked, InTransaction, PInv, Sound, Writes
<1>5. Ledger!Exclude(r, v)
  BY <1>1, <1>2, <1>3, <1>4 DEF Ledger!Exclude, Ledger!Offer, Ledger!Excluded, Excluded, new,
     Ledger!IsUpsert, IsUpsert, Ledger!Event, Event
<1>6. DbType' /\ NamedWorksExist'
  <2>1. state' = IF Replaces(new) THEN [state EXCEPT ![Event(r)] = Coalesced(new)] ELSE state
    BY DEF Exclude, new
  <2>2. Coalesced(new) \in Revisions
    BY <1>2, WriteIsOffer DEF PInv
  <2> QED BY <1>2, <1>4, <2>1, <2>2 DEF PInv, DbType, NamedWorksExist
<1>7. \A u \in Workers \ {w} : Writes(tx[u]) =>
        state'[Event(tx[u].raw)] = state[Event(tx[u].raw)]
  BY <1>3, <1>4, SnapshotTypes DEF PInv, DbType, Sound, Writes
<1> QED BY <1>1, <1>4, <1>5, <1>6, <1>7, CommitKeeps DEF Ledger!Next

\* What Stored writes.
LEMMA StoredIsOffer ==
  ASSUME PInv, NEW w \in Workers, Writes(tx[w]), Stored(w)
  PROVE  /\ state' \in [Events -> Revisions \cup {None}]
         /\ state' = [state EXCEPT ![Event(tx[w].raw)] = Ledger!Newest(RowOf(tx[w]))]
         /\ \A u \in Workers \ {w} : Writes(tx[u]) =>
              state'[Event(tx[u].raw)] = state[Event(tx[u].raw)]
<1> DEFINE t == tx[w]
           new == RowOf(t)
<1>1. t.raw \in Raws /\ t.ver \in Versions /\ Decided(t)
  BY DEF PInv, Sound, Writes
<1>2. t.work \in Works \cup {None}
  BY DEF PInv, TxType, Frames
<1>3. new \in Revisions /\ new.raw = t.raw /\ Event(t.raw) \in Events
  BY <1>1, <1>2, RowsAreRevisions, SnapshotTypes DEF RowOf
<1>4. Proposed(w) = new
  BY DEF Proposed, RowOf
<1>5. state' = IF Replaces(new) THEN [state EXCEPT ![Event(t.raw)] = Coalesced(new)] ELSE state
  BY <1>1, <1>3, <1>4, ReplacesIs DEF Stored, Decided, Settled
<1> HIDE DEF new
<1>6. /\ Coalesced(new) \in Revisions
      /\ state' = [state EXCEPT ![Event(t.raw)] = Ledger!Newest(new)]
  BY <1>3, <1>5, WriteIsOffer DEF PInv
<1>7. \A u \in Workers \ {w} : Writes(tx[u]) =>
        Event(tx[u].raw) \in Events /\ Event(tx[u].raw) # Event(t.raw)
  BY SnapshotTypes DEF PInv, Apart, Sound, Started, Writes
<1>8. state' \in [Events -> Revisions \cup {None}]
  BY <1>3, <1>5, <1>6 DEF PInv, DbType
<1>9. \A u \in Workers \ {w} : Writes(tx[u]) =>
        state'[Event(tx[u].raw)] = state[Event(tx[u].raw)]
  BY <1>6, <1>7 DEF PInv, DbType
<1> QED BY <1>6, <1>8, <1>9 DEF new

LEMMA CommitDeletionKeeps ==
  ASSUME PInv, NEW w \in Workers, CommitDeletion(w)
  PROVE  PInv' /\ Ledger!Next
<1> DEFINE t == tx[w]
<1>1. t.raw \in Raws /\ t.ver \in Versions /\ ~IsUpsert(t.raw) /\ Writes(t)
      /\ t.work = KnownBy(state[Event(t.raw)])
  BY DEF PInv, Sound, Decided, Settled, CommitDeletion, Writes
<1>2. /\ tx' = [tx EXCEPT ![w] = Idle] /\ UNCHANGED <<identOf, canon, recWork>> /\ Stored(w)
  BY DEF CommitDeletion
<1>3. RowOf(t) = Deleted(t.raw, t.ver, KnownBy(state[Event(t.raw)]))
  BY <1>1 DEF RowOf
<1>4. state' = [state EXCEPT ![Event(t.raw)] = Ledger!Newest(Deleted(t.raw, t.ver, None))]
  BY <1>1, <1>2, <1>3, StoredIsOffer, DeletionIsOffer DEF PInv
<1>5. Ledger!Delete(t.raw, t.ver)
  BY <1>1, <1>2, <1>4 DEF Ledger!Delete, Ledger!Offer, Ledger!Deleted, Deleted,
     Ledger!IsUpsert, IsUpsert, Ledger!Event, Event
<1>6. DbType' /\ NamedWorksExist'
  BY <1>1, <1>2, StoredIsOffer DEF PInv, DbType, NamedWorksExist
<1>7. \A u \in Workers \ {w} : Writes(tx[u]) =>
        state'[Event(tx[u].raw)] = state[Event(tx[u].raw)]
  BY <1>1, <1>2, StoredIsOffer
<1> QED BY <1>1, <1>2, <1>5, <1>6, <1>7, CommitKeeps DEF Ledger!Next

\* The commit of a projection is the step Record of the ledger.
LEMMA CommitProjectKeeps ==
  ASSUME PInv, NEW w \in Workers, CommitProject(w)
  PROVE  PInv' /\ Ledger!Next
<1> DEFINE t == tx[w]
           r == tx[w].raw
           x == tx[w].work
           key == KeyOf(x, Identity(r))
<1>1. r \in Raws /\ t.ver \in Versions /\ IsUpsert(r) /\ Writes(t) /\ Projects(t)
      /\ x \in Works /\ t.held = ControlledIds(r) /\ Chosen(t)
  BY DEF PInv, Sound, CommitProject, Writes, Projects
<1>2. /\ tx' = [tx EXCEPT ![w] = Idle] /\ Stored(w)
      /\ canon' = [canon EXCEPT ![x] = key]
      /\ identOf' = [i \in Ids |->
                       IF i \in ControlledIds(r) /\ identOf[i] = None THEN x ELSE identOf[i]]
      /\ recWork' = [recWork EXCEPT ![r] = x]
  BY DEF CommitProject, Associated
<1>3. /\ ControlledIds(r) \subseteq Ids /\ Identity(r) \in Ids
      /\ x # None /\ Identity(r) # None
  BY <1>1, RecordIds, NoneIsApart
<1>4. canon[x] \in Ids \cup {None} /\ (canon[x] \in Ids => Priority[canon[x]] \in Nat)
      /\ Priority[Identity(r)] \in Nat
  BY <1>1, <1>3, SnapshotsAssumption DEF SnapshotsAssumption, PInv, DbType
<1>5. /\ key \in {canon[x], Identity(r)} \ {None} /\ key \in Ids
      /\ \A other \in {canon[x], Identity(r)} \ {None} : Priority[key] <= Priority[other]
  BY <1>3, <1>4 DEF KeyOf
<1> HIDE DEF key
<1>6. \A i \in ControlledIds(r) : identOf[i] \in {None, x}
  BY <1>1 DEF Chosen
<1>7. identOf' = [i \in Ids |-> IF i \in ControlledIds(r) THEN x ELSE identOf[i]]
  BY <1>2, <1>6
<1>8. LET named == {identOf[i] : i \in ControlledIds(r)} \ {None}
      IN  named = {x} \/ (named = {} /\ canon[x] = None)
  BY <1>1, <1>3, <1>6 DEF Chosen
<1>9. state' = [state EXCEPT ![Event(r)] = Ledger!Newest(Included(r, t.ver, x))]
  BY <1>1, <1>2, StoredIsOffer DEF RowOf
<1>10. Ledger!AllIds(r) = ControlledIds(r)
  BY DEF Ledger!AllIds, ControlledIds, Ledger!Identity, Identity
<1>11. Ledger!Offer(Included(r, t.ver, x)) /\ Ledger!IsUpsert(r)
  BY <1>1, <1>9 DEF Ledger!Offer, Included, Ledger!IsUpsert, IsUpsert, Ledger!Event, Event
<1>12. Ledger!Record(r, t.ver)
  <2>1. Ledger!Offer(Ledger!Included(r, t.ver, x))
    BY <1>11 DEF Ledger!Included, Included
  <2>2. Ledger!Identity(r) = Identity(r)
    BY DEF Ledger!Identity, Identity
  <2>3. \E k \in {canon[x], Ledger!Identity(r)} \ {None} :
          /\ \A other \in {canon[x], Ledger!Identity(r)} \ {None} : Priority[k] <= Priority[other]
          /\ canon' = [canon EXCEPT ![x] = k]
    BY <1>2, <1>5, <2>2
  <2>4. identOf' = [i \in Ids |-> IF i \in Ledger!AllIds(r) THEN x ELSE identOf[i]]
    BY <1>7, <1>10
  <2>5. LET named == {identOf[i] : i \in Ledger!AllIds(r)} \ {None}
        IN  named = {x} \/ (named = {} /\ canon[x] = None)
    BY <1>8, <1>10
  <2> QED BY <1>1, <1>2, <1>11, <2>1, <2>3, <2>4, <2>5 DEF Ledger!Record
<1>13. DbType'
  BY <1>1, <1>2, <1>5, <1>7, StoredIsOffer DEF PInv, DbType
<1>14. NamedWorksExist'
  <2>1. canon'[x] # None /\ \A y \in Works \ {x} : canon'[y] = canon[y]
    BY <1>1, <1>2, <1>5, NoneIsApart DEF PInv, DbType
  <2>2. ASSUME NEW i \in Ids, identOf'[i] # None PROVE canon'[identOf'[i]] # None
    <3>1. CASE identOf'[i] = x
      BY <2>1, <3>1
    <3>2. CASE identOf'[i] # x
      <4>1. identOf'[i] = identOf[i] /\ identOf[i] \in Works /\ identOf[i] # None
        BY <1>7, <2>2, <3>2 DEF PInv, DbType
      <4> QED BY <2>1, <3>2, <4>1 DEF PInv, NamedWorksExist
    <3> QED BY <3>1, <3>2
  <2> QED BY <2>2 DEF NamedWorksExist
<1>15. ASSUME NEW u \in Workers \ {w}, Projects(tx[u])
       PROVE  /\ \A i \in ControlledIds(tx[u].raw) : identOf'[i] = identOf[i]
              /\ canon'[tx[u].work] = canon[tx[u].work]
  <2>1. /\ tx[u].held = ControlledIds(tx[u].raw) /\ tx[u].work \in Works
        /\ tx[u].raw \in Raws /\ IsUpsert(tx[u].raw) /\ Apart(t, tx[u])
    BY <1>15 DEF PInv, Sound, Projects, Writes
  <2>2. tx[u].work # x /\ ControlledIds(tx[u].raw) \cap ControlledIds(r) = {}
    BY <1>1, <1>15, <2>1 DEF Apart
  <2> QED BY <1>2, <1>7, <2>1, <2>2, RecordIds DEF PInv, DbType
<1>16. \A u \in Workers \ {w} : Writes(tx[u]) =>
         state'[Event(tx[u].raw)] = state[Event(tx[u].raw)]
  BY <1>1, <1>2, StoredIsOffer
<1> QED BY <1>1, <1>2, <1>12, <1>13, <1>14, <1>15, <1>16, CommitKeeps DEF Ledger!Next

(***************************************************************************)
(* The refinement.                                                         *)
(***************************************************************************)
LEMMA PInit == Init => PInv /\ Ledger!Init
<1> SUFFICES ASSUME Init PROVE PInv /\ Ledger!Init
  OBVIOUS
<1>1. \A w \in Workers : tx[w] = Idle /\ Idle \in Frames({tx[u].plan : u \in Workers})
  BY DEF Init, Idle, Handler, Frames, Pcs
<1>2. Idle.pc = "idle" /\ Idle.held = {} /\ Idle.work = None
  BY DEF Idle, Handler
<1>3. TxType
  BY <1>1 DEF Init, TxType
<1>4. \A w \in Workers : Sound(tx[w]) /\ Chosen(tx[w]) /\ Decided(tx[w])
  BY <1>1, <1>2 DEF Sound, Chosen, Decided, Settled, Started, Writes, Projects
<1>5. \A v, w \in Workers : Apart(tx[v], tx[w])
  BY <1>1, <1>2 DEF Apart, Started, Writes, Projects
<1>6. DbType /\ NamedWorksExist
  BY DEF Init, DbType, NamedWorksExist
<1> QED BY <1>3, <1>4, <1>5, <1>6 DEF PInv, Init, Ledger!Init

LEMMA PStep ==
  ASSUME PInv, [Next]_vars
  PROVE  PInv' /\ [Ledger!Next]_(Ledger!ledgerVars)
<1>1. ASSUME NEW w \in Workers,
             Deliver(w) \/ Normalize(w) \/ BeginProject(w) \/ LockIdentifier(w)
             \/ ResolveWork(w) \/ BeginDeletion(w) \/ SelectWinner(w) \/ Abort(w)
      PROVE  PInv' /\ UNCHANGED Ledger!ledgerVars
  <2>1. UNCHANGED <<identOf, canon, recWork, state>>
    BY <1>1 DEF Deliver, Normalize, BeginProject, LockIdentifier, ResolveWork,
       BeginDeletion, SelectWinner, Abort, dbVars
  <2>2. ASSUME Abort(w)
        PROVE  PInv'
    BY <2>1, <2>2, AbortKeeps DEF Abort
  <2>3. PInv'
    BY <1>1, <2>2, DeliverKeeps, NormalizeKeeps, BeginProjectKeeps, LockIdentifierKeeps,
       ResolveWorkKeeps, BeginDeletionKeeps, SelectWinnerKeeps
  <2> QED BY <2>1, <2>3 DEF Ledger!ledgerVars
<1>2. ASSUME NEW w \in Workers, Exclude(w) \/ CommitProject(w) \/ CommitDeletion(w)
      PROVE  PInv' /\ Ledger!Next
  BY <1>2, ExcludeKeeps, CommitProjectKeeps, CommitDeletionKeeps
<1>3. CASE UNCHANGED vars
  <2>1. UNCHANGED <<tx, identOf, canon, recWork, state>>
    BY <1>3 DEF vars
  <2>2. TxType' /\ DbType' /\ NamedWorksExist'
    BY <2>1 DEF PInv, TxType, DbType, NamedWorksExist
  <2>3. ASSUME NEW w \in Workers PROVE Sound(tx[w])' /\ Chosen(tx[w])'
    BY <2>1 DEF PInv, Sound, Chosen, Started, Writes, Projects, IsUpsert, ControlledIds, Identity
  <2>4. ASSUME NEW w \in Workers PROVE Decided(tx[w])'
    BY <2>1 DEF PInv, Decided, Event
  <2>5. ASSUME NEW v \in Workers, NEW w \in Workers, v # w PROVE Apart(tx[v], tx[w])'
    BY <2>1, <2>5 DEF PInv, Apart, Started, Writes, Projects, IsUpsert, Event
  <2> QED BY <2>1, <2>2, <2>3, <2>4, <2>5 DEF PInv, Ledger!ledgerVars
<1> QED BY <1>1, <1>2, <1>3 DEF Next, Step, Waiting

\* From the choice of its work to its commit a transaction's locks keep what it
\* chose by (postgres_repository.go, Project and ApplyDeletion).
THEOREM LocksProtect == Spec => []PInv
<1>1. Init => PInv
  BY PInit
<1>2. PInv /\ [Next]_vars => PInv'
  BY PStep
<1> QED BY <1>1, <1>2, PTL DEF Spec

\* The interleaved transactions implement the ledger (ImplementsLedger).
THEOREM ProjectionImplementsLedger == Spec => ImplementsLedger
<1>1. Init => Ledger!Init
  BY PInit
<1>2. PInv /\ [Next]_vars => [Ledger!Next]_(Ledger!ledgerVars)
  BY PStep
<1> QED BY <1>1, <1>2, LocksProtect, PTL DEF Spec, ImplementsLedger, Ledger!Spec

(***************************************************************************)
(* Completeness.  A current included revision is backed by its other rows: *)
(* they are written before it or with it, and a transaction that would     *)
(* write another work into them is refused when it chooses its work.       *)
(***************************************************************************)
RowsType ==
  /\ normal \in [Raws -> Versions \cup {None}]
  /\ recWork \in [Raws -> Works \cup {None}]
  /\ asserted \in [Raws -> [Versions -> Works \cup {None}]]

RowsOfEvents == \A e \in Events : state[e] # None => Event(state[e].raw) = e

Associable(f) ==
  Projects(f) => /\ recWork[f.raw] \in {None, f.work}
                 /\ asserted[f.raw][f.ver] \in {None, f.work}

Normalized(f) ==
  f.pc \in {"begin", "lock", "select", "commit"} /\ IsUpsert(f.raw) => normal[f.raw] # None

BInv ==
  /\ PInv
  /\ RowsType
  /\ RowsOfEvents
  /\ \A w \in Workers : Associable(tx[w]) /\ Normalized(tx[w])
  /\ IncludedIsBacked

\* A handler moves on, and normalized records may be added.
LEMMA FrameBacks ==
  ASSUME BInv, PInv', NEW w \in Workers, NEW f, tx' = [tx EXCEPT ![w] = f],
         UNCHANGED <<recWork, asserted, state>>,
         normal' \in [Raws -> Versions \cup {None}],
         \A r \in Raws : normal[r] # None => normal'[r] # None,
         Associable(f),
         f.pc \in {"begin", "lock", "select", "commit"} /\ IsUpsert(f.raw)
           => normal'[f.raw] # None
  PROVE  BInv'
<1>1. tx'[w] = f /\ \A v \in Workers \ {w} : tx'[v] = tx[v]
  BY DEF BInv, PInv, TxType
<1>2. RowsType' /\ RowsOfEvents'
  BY DEF BInv, RowsType, RowsOfEvents, Event
<1>3. ASSUME NEW v \in Workers PROVE Associable(tx[v])' /\ Normalized(tx[v])'
  <2>1. CASE v = w
    BY <1>1, <2>1 DEF Associable, Normalized, Projects, Writes, IsUpsert
  <2>2. CASE v # w
    BY <1>1, <2>2 DEF BInv, PInv, Sound, Associable, Normalized, Projects, Writes, IsUpsert
  <2> QED BY <2>1, <2>2
<1>4. IncludedIsBacked'
  <2>1. ASSUME NEW e \in Events, state[e] # None PROVE state[e].raw \in Raws
    BY <2>1 DEF BInv, PInv, DbType, Revisions
  <2> QED BY <2>1 DEF BInv, IncludedIsBacked
<1> QED BY <1>2, <1>3, <1>4 DEF BInv

\* A revision that is not included takes the place of another.
LEMMA ExclusionBacks ==
  ASSUME BInv, PInv', NEW w \in Workers, tx' = [tx EXCEPT ![w] = Idle],
         UNCHANGED <<normal, recWork, asserted>>,
         NEW new, new.scope # "included",
         state' = state \/ state' = [state EXCEPT ![Event(new.raw)] = new]
  PROVE  BInv'
<1>1. tx'[w] = Idle /\ \A v \in Workers \ {w} : tx'[v] = tx[v]
  BY DEF BInv, PInv, TxType
<1>2. Idle.pc = "idle"
  BY DEF Idle, Handler
<1>3. RowsType' /\ RowsOfEvents'
  BY DEF BInv, PInv, DbType, RowsType, RowsOfEvents, Event
<1>4. ASSUME NEW v \in Workers PROVE Associable(tx[v])' /\ Normalized(tx[v])'
  BY <1>1, <1>2 DEF BInv, Associable, Normalized, Projects, Writes, IsUpsert
<1>5. IncludedIsBacked'
  <2>1. ASSUME NEW e \in Events PROVE state'[e] = state[e] \/ state'[e] = new
    BY DEF BInv, PInv, DbType
  <2> QED BY <2>1 DEF BInv, IncludedIsBacked
<1> QED BY <1>3, <1>4, <1>5 DEF BInv

LEMMA BeforeCommitBacks ==
  ASSUME BInv, PInv', NEW w \in Workers,
         Deliver(w) \/ Normalize(w) \/ BeginProject(w) \/ LockIdentifier(w)
         \/ ResolveWork(w) \/ BeginDeletion(w) \/ SelectWinner(w) \/ Abort(w)
  PROVE  BInv'
<1> DEFINE t == tx[w]
<1>1. /\ Sound(t) /\ Associable(t) /\ Normalized(t) /\ RowsType
      /\ t \in Frames({tx[u].plan : u \in Workers})
  BY DEF BInv, PInv, TxType
<1>2. Idle.pc = "idle" /\ Rejected.pc = "rejected"
  BY DEF Idle, Rejected, Handler
<1>3. Associable(Idle) /\ Associable(Rejected)
  BY <1>2 DEF Associable, Projects, Writes
<1>4. CASE Deliver(w)
  <2>1. PICK r \in Raws, v \in Versions :
          tx' = [tx EXCEPT ![w] = Handler(IF IsUpsert(r) THEN "normalize" ELSE "begin", r, v)]
    BY <1>4 DEF Deliver
  <2> DEFINE f == Handler(IF IsUpsert(r) THEN "normalize" ELSE "begin", r, v)
  <2>2. f.pc = (IF IsUpsert(r) THEN "normalize" ELSE "begin") /\ f.raw = r
    BY DEF Handler
  <2>3. UNCHANGED <<normal, recWork, asserted, state>>
    BY <1>4 DEF Deliver, dbVars
  <2> HIDE DEF f
  <2>4. Associable(f) /\ Normalized(f)
    BY <2>2 DEF Associable, Normalized, Projects, Writes
  <2> QED BY <1>1, <2>1, <2>3, <2>4, FrameBacks DEF f, Normalized, RowsType
<1>5. CASE Normalize(w)
  <2>1. t.raw \in Raws /\ t.ver \in Versions /\ t.ver # None
    BY <1>1, <1>5, NoneIsApart DEF Normalize, Sound
  <2>2. UNCHANGED <<recWork, asserted, state>>
    BY <1>5 DEF Normalize
  <2>3. CASE tx' = [tx EXCEPT ![w] = Rejected] /\ UNCHANGED normal
    BY <1>1, <1>2, <1>3, <2>2, <2>3, FrameBacks DEF RowsType
  <2>4. CASE ~(tx' = [tx EXCEPT ![w] = Rejected] /\ UNCHANGED normal)
    <3> DEFINE next == IF Verdict[t.ver][t.raw] = "excluded" THEN "exclude" ELSE "begin"
               f == [t EXCEPT !.pc = next]
    <3>1. tx' = [tx EXCEPT ![w] = f] /\ normal' = [normal EXCEPT ![t.raw] = t.ver]
      BY <1>5, <2>4 DEF Normalize
    <3>2. f.pc = next /\ f.raw = t.raw
      BY <1>1 DEF Frames
    <3> HIDE DEF f
    <3>3. Associable(f)
      BY <3>2 DEF Associable, Projects, Writes
    <3>4. /\ normal' \in [Raws -> Versions \cup {None}] /\ normal'[t.raw] # None
          /\ \A r \in Raws : normal[r] # None => normal'[r] # None
      BY <1>1, <2>1, <3>1 DEF RowsType
    <3> QED BY <2>2, <3>1, <3>2, <3>3, <3>4, FrameBacks
  <2> QED BY <2>3, <2>4
<1>6. CASE BeginProject(w) \/ LockIdentifier(w) \/ BeginDeletion(w)
  <2>1. PICK f : /\ tx' = [tx EXCEPT ![w] = f] /\ f.raw = t.raw
                 /\ f.pc \in {"lock", "select", "commit"} /\ (Projects(f) => FALSE)
                 /\ t.pc \in {"begin", "lock"}
    <3>1. CASE BeginProject(w)
      <4> DEFINE f == [t EXCEPT !.pc = "lock", !.row = state[Event(t.raw)] # None]
      <4>1. tx' = [tx EXCEPT ![w] = f] /\ t.pc = "begin"
        BY <3>1 DEF BeginProject
      <4>2. f.raw = t.raw /\ f.pc = "lock"
        BY <1>1 DEF Frames
      <4> HIDE DEF f
      <4> QED BY <4>1, <4>2 DEF Projects, Writes
    <3>2. CASE LockIdentifier(w)
      <4>1. PICK i \in NextId(w) : tx' = [tx EXCEPT ![w].held = @ \cup {i}]
        BY <3>2 DEF LockIdentifier
      <4> DEFINE f == [t EXCEPT !.held = t.held \cup {i}]
      <4>2. tx' = [tx EXCEPT ![w] = f] /\ t.pc = "lock"
        BY <3>2, <4>1 DEF LockIdentifier
      <4>3. f.raw = t.raw /\ f.pc = "lock"
        BY <1>1, <4>2 DEF Frames
      <4> HIDE DEF f
      <4> QED BY <4>2, <4>3 DEF Projects, Writes
    <3>3. CASE BeginDeletion(w)
      <4> DEFINE x == IF state[Event(t.raw)] = None THEN None ELSE state[Event(t.raw)].work
                 changed == Replaces(Deleted(t.raw, t.ver, x))
                 f == [t EXCEPT !.pc = IF changed /\ x # None THEN "select" ELSE "commit",
                                !.work = x, !.row = TRUE, !.changed = changed]
      <4>1. tx' = [tx EXCEPT ![w] = f] /\ t.pc = "begin" /\ ~IsUpsert(t.raw)
        BY <3>3 DEF BeginDeletion
      <4> HIDE DEF changed, x
      <4>2. f.raw = t.raw /\ f.pc \in {"select", "commit"}
        BY <1>1 DEF Frames
      <4> HIDE DEF f
      <4> QED BY <4>1, <4>2 DEF Projects
    <3> QED BY <1>6, <3>1, <3>2, <3>3
  <2>2. UNCHANGED <<normal, recWork, asserted, state>>
    BY <1>6 DEF BeginProject, LockIdentifier, BeginDeletion, dbVars
  <2>3. Associable(f)
    BY <2>1 DEF Associable
  <2> QED BY <1>1, <2>1, <2>2, <2>3, FrameBacks DEF Normalized, RowsType
<1>7. CASE ResolveWork(w)
  <2>1. PICK x \in Joinable(w) :
          tx' = [tx EXCEPT ![w] =
                   IF Conflicting(t.raw, t.ver, x) THEN Idle
                   ELSE [t EXCEPT !.pc = IF Replaces(Included(t.raw, t.ver, x))
                                         THEN "select" ELSE "commit",
                                  !.work = x, !.row = TRUE,
                                  !.changed = Replaces(Included(t.raw, t.ver, x))]]
    BY <1>7 DEF ResolveWork
  <2>2. UNCHANGED <<normal, recWork, asserted, state>> /\ t.pc = "lock"
    BY <1>7 DEF ResolveWork, dbVars
  <2>3. CASE Conflicting(t.raw, t.ver, x)
    BY <1>1, <1>2, <1>3, <2>1, <2>2, <2>3, FrameBacks DEF RowsType
  <2>4. CASE ~Conflicting(t.raw, t.ver, x)
    <3> DEFINE changed == Replaces(Included(t.raw, t.ver, x))
               f == [t EXCEPT !.pc = IF changed THEN "select" ELSE "commit",
                              !.work = x, !.row = TRUE, !.changed = changed]
    <3>1. tx' = [tx EXCEPT ![w] = f]
      BY <2>1, <2>4
    <3> HIDE DEF changed
    <3>2. f.raw = t.raw /\ f.ver = t.ver /\ f.work = x
      BY <1>1 DEF Frames
    <3> HIDE DEF f
    <3>3. Associable(f)
      BY <2>4, <3>2 DEF Associable, Conflicting
    <3> QED BY <1>1, <2>2, <3>1, <3>2, <3>3, FrameBacks DEF Normalized, RowsType
  <2> QED BY <2>3, <2>4
<1>8. CASE SelectWinner(w)
  <2> DEFINE plan == Plan(t.work, SeenState(w), SeenAsserted(w))
             f == [t EXCEPT !.pc = "commit", !.plan = plan]
  <2>1. tx' = [tx EXCEPT ![w] = f] /\ t.pc = "select"
        /\ UNCHANGED <<normal, recWork, asserted, state>>
    BY <1>8 DEF SelectWinner, dbVars
  <2> HIDE DEF plan
  <2>2. f.raw = t.raw /\ f.ver = t.ver /\ f.work = t.work
    BY <1>1 DEF Frames
  <2> HIDE DEF f
  <2>3. Associable(f)
    BY <1>1, <2>1, <2>2 DEF Associable, Projects, Writes
  <2> QED BY <1>1, <2>1, <2>2, <2>3, FrameBacks DEF Normalized, RowsType
<1>9. CASE Abort(w)
  BY <1>1, <1>2, <1>3, <1>9, FrameBacks DEF Abort, dbVars, RowsType
<1> QED BY <1>4, <1>5, <1>6, <1>7, <1>8, <1>9

LEMMA CommitProjectBacks ==
  ASSUME BInv, PInv', NEW w \in Workers, CommitProject(w)
  PROVE  BInv'
<1> DEFINE t == tx[w]
           r == tx[w].raw
           v == tx[w].ver
           x == tx[w].work
           new == Included(r, v, x)
<1>1. /\ r \in Raws /\ v \in Versions /\ IsUpsert(r) /\ x \in Works /\ x # None
      /\ Writes(t) /\ recWork[r] \in {None, x} /\ asserted[r][v] \in {None, x}
      /\ normal[r] # None
  BY NoneIsApart DEF BInv, PInv, Sound, CommitProject, Writes, Projects, Associable, Normalized
<1>2. /\ tx' = [tx EXCEPT ![w] = Idle] /\ UNCHANGED normal
      /\ recWork' = [recWork EXCEPT ![r] = x]
      /\ asserted' = [asserted EXCEPT ![r][v] = x]
  BY DEF CommitProject, Associated
<1>3. tx'[w] = Idle /\ \A u \in Workers \ {w} : tx'[u] = tx[u]
  BY <1>2 DEF BInv, PInv, TxType
<1>4. Idle.pc = "idle"
  BY DEF Idle, Handler
<1>5. RowsType' /\ recWork'[r] = x /\ asserted'[r][v] = x
  BY <1>1, <1>2 DEF BInv, RowsType
<1>6. \A s \in Raws :
        /\ recWork[s] # None => recWork'[s] = recWork[s]
        /\ \A u \in Versions : asserted[s][u] # None => asserted'[s][u] = asserted[s][u]
  BY <1>1, <1>2 DEF BInv, RowsType
<1>7. new.raw = r /\ new.work = x /\ new.ver = v
  BY DEF Included
<1>8. state' = state \/ state' = [state EXCEPT ![Event(r)] = new]
  <2>1. Proposed(w) = new
    BY <1>1 DEF Proposed
  <2>2. Coalesced(new) = new
    BY <1>1, <1>7 DEF Coalesced
  <2> QED BY <2>1, <2>2 DEF CommitProject, Stored
<1> HIDE DEF new
<1>9. ASSUME NEW e \in Events
      PROVE  state'[e] = state[e] \/ (e = Event(r) /\ state'[e] = new)
  BY <1>8 DEF BInv, PInv, DbType
<1>10. RowsOfEvents'
  BY <1>7, <1>9 DEF BInv, RowsOfEvents, Event
<1>11. ASSUME NEW u \in Workers PROVE Associable(tx[u])' /\ Normalized(tx[u])'
  <2>1. CASE u = w
    BY <1>3, <1>4, <2>1 DEF Associable, Normalized, Projects, Writes
  <2>2. CASE u # w
    <3>1. tx'[u] = tx[u] /\ Associable(tx[u]) /\ Normalized(tx[u])
      BY <1>3, <2>2 DEF BInv
    <3>2. Projects(tx[u]) => tx[u].raw \in Raws /\ tx[u].ver \in Versions /\ tx[u].raw # r
      BY <1>1, <2>2 DEF BInv, PInv, Apart, Sound, Started, Projects, Writes
    <3>3. Projects(tx[u]) => /\ recWork'[tx[u].raw] = recWork[tx[u].raw]
                             /\ asserted'[tx[u].raw] = asserted[tx[u].raw]
      BY <1>2, <3>2 DEF BInv, RowsType
    <3> QED BY <1>2, <3>1, <3>3 DEF Associable, Normalized, Projects, Writes, IsUpsert
  <2> QED BY <2>1, <2>2
<1>12. ASSUME NEW e \in Events, state'[e] # None, state'[e].scope = "included"
       PROVE  /\ normal'[state'[e].raw] # None
              /\ state'[e].work # None
              /\ recWork'[state'[e].raw] = state'[e].work
              /\ asserted'[state'[e].raw][state'[e].ver] = state'[e].work
  <2>1. CASE state'[e] = new
    BY <1>1, <1>2, <1>5, <1>7, <2>1
  <2>2. CASE state'[e] = state[e]
    <3>1. state[e].raw \in Raws /\ state[e].ver \in Versions
      BY <1>12, <2>2 DEF BInv, PInv, DbType, Revisions
    <3>2. /\ normal[state[e].raw] # None
          /\ state[e].work # None
          /\ recWork[state[e].raw] = state[e].work
          /\ asserted[state[e].raw][state[e].ver] = state[e].work
      BY <1>12, <2>2 DEF BInv, IncludedIsBacked
    <3> QED BY <1>2, <1>6, <2>2, <3>1, <3>2
  <2> QED BY <1>9, <2>1, <2>2
<1>13. IncludedIsBacked'
  BY <1>12 DEF IncludedIsBacked
<1> QED BY <1>5, <1>10, <1>11, <1>13 DEF BInv

LEMMA ExcludesBack ==
  ASSUME BInv, PInv', NEW w \in Workers, Exclude(w) \/ CommitDeletion(w)
  PROVE  BInv'
<1> DEFINE t == tx[w]
<1>1. tx' = [tx EXCEPT ![w] = Idle] /\ UNCHANGED <<normal, recWork, asserted>>
  BY DEF Exclude, CommitDeletion
<1>2. ASSUME NEW row, row.scope = "excluded", row.raw = t.raw
      PROVE  Coalesced(row).scope # "included" /\ Coalesced(row).raw = t.raw
  BY <1>2 DEF Coalesced
<1>3. CASE Exclude(w)
  <2> DEFINE row == Excluded(t.raw, t.ver)
  <2>1. row.scope = "excluded" /\ row.raw = t.raw
    BY DEF Excluded
  <2>2. state' = state \/ state' = [state EXCEPT ![Event(t.raw)] = Coalesced(row)]
    BY <1>3 DEF Exclude
  <2> HIDE DEF row
  <2> QED BY <1>1, <1>2, <2>1, <2>2, ExclusionBacks
<1>4. CASE CommitDeletion(w)
  <2> DEFINE row == Deleted(t.raw, t.ver, t.work)
  <2>1. row.scope = "excluded" /\ row.raw = t.raw
    BY DEF Deleted
  <2>2. state' = state \/ state' = [state EXCEPT ![Event(t.raw)] = Coalesced(row)]
    BY <1>4 DEF CommitDeletion, Stored, Proposed
  <2> HIDE DEF row
  <2> QED BY <1>1, <1>2, <2>1, <2>2, ExclusionBacks
<1> QED BY <1>3, <1>4

LEMMA InitBacks == Init => BInv
<1>1. ASSUME Init PROVE \A w \in Workers : tx[w].pc = "idle"
  BY <1>1 DEF Init, Idle, Handler
<1> QED BY <1>1, PInit DEF Init, BInv, RowsType, RowsOfEvents, Associable, Normalized,
           Projects, Writes, IncludedIsBacked

LEMMA StepBacks == BInv /\ [Next]_vars => BInv'
<1> SUFFICES ASSUME BInv, [Next]_vars PROVE BInv'
  OBVIOUS
<1>1. PInv'
  BY PStep DEF BInv
<1>2. CASE UNCHANGED vars
  <2>1. UNCHANGED <<tx, normal, recWork, asserted, state>>
    BY <1>2 DEF vars
  <2> QED BY <1>1, <2>1 DEF BInv, RowsType, RowsOfEvents, Associable, Normalized, Projects,
             Writes, IsUpsert, Event, IncludedIsBacked
<1>3. CASE Next
  BY <1>1, <1>3, BeforeCommitBacks, CommitProjectBacks, ExcludesBack
  DEF Next, Step, Waiting
<1> QED BY <1>2, <1>3

\* A current included revision is complete, as the publisher requires
\* (IncludedIsBacked).
THEOREM IncludedRevisionsAreComplete == Spec => []IncludedIsBacked
<1>1. BInv => IncludedIsBacked
  BY DEF BInv
<1> QED BY <1>1, InitBacks, StepBacks, PTL DEF Spec

(***************************************************************************)
(* What the works show.  While a transaction holds the row of its work, no *)
(* other one can bring a revision of the work back: so if the work is      *)
(* settled when the transaction commits, nothing has touched the works     *)
(* revisions since the transaction chose the winner.                       *)
(***************************************************************************)
\* The revisions of events in E that may win the projection of work x.
RevsIn(x, E, st) ==
  {st[e] : e \in {f \in E : /\ st[f] # None
                            /\ st[f].work = x
                            /\ st[f].scope = "included"
                            /\ ~st[f].deleted}}

\* Every record of work x, of an event in E, belongs to an event that still
\* names x and is neither excluded nor deleted.
Settles(x, E, st, rec) ==
  \A r \in Raws : (rec[r] = x /\ Event(r) \in E) =>
    st[Event(r)].work = x /\ st[Event(r)].scope # "excluded"

Newest(win, revs) == win \in revs /\ \A rev \in revs : Rank(win.raw) >= Rank(rev.raw)

ShownRow(win) == [raw |-> win.raw, ver |-> win.ver]

Shows(shown, revs) ==
  \/ revs = {} /\ shown = None
  \/ \E win : Newest(win, revs) /\ shown = ShownRow(win)

\* Carrying out the plan makes the work show the newest of revs.
Right(shown, plan, revs) ==
  \/ revs = {} /\ plan = Clear
  \/ \E win : /\ Newest(win, revs)
              /\ \/ plan = Keep /\ shown = ShownRow(win)
                 \/ plan = Write(win)

Plans == {Keep, Clear} \cup {Write(win) : win \in Revisions}

\* Only a transaction that changes the revision of its event has a plan.
Planned(f) ==
  /\ f.plan \in Plans
  /\ f.pc = "select" => f.changed /\ f.work # None
  /\ f.pc # "commit" \/ ~f.changed \/ f.work = None => f.plan = Keep

\* The revisions of the work once projection f has committed.
OwnRevs(f) == {rev \in {Included(f.raw, f.ver, f.work)} : rev.scope = "included"}
OtherEvents(f) == Events \ {Event(f.raw)}
RevsWith(f, st) == RevsIn(f.work, OtherEvents(f), st) \cup OwnRevs(f)

Fits(f, st, rec, pr) ==
  (Projects(f) /\ f.pc = "commit" /\ f.changed /\ Settles(f.work, OtherEvents(f), st, rec))
    => Right(pr[f.work], f.plan, RevsWith(f, st))

StatesAreBacked(st, rec) ==
  \A e \in Events : (st[e] # None /\ st[e].work # None) =>
    \E r \in Raws : Event(r) = e /\ rec[r] = st[e].work

RecordsHaveWorks(rec, can) == \A r \in Raws : rec[r] # None => can[rec[r]] # None

ContentIsShown(pr, con, can) ==
  \A x \in Works : pr[x] # None => con[x] = pr[x].raw /\ can[x] # None

RanksAreBounded(st) ==
  \E n \in Nat : \A e \in Events : st[e] # None => Rank(st[e].raw) <= n

WInv ==
  /\ BInv
  /\ proj \in [Works -> Shown \cup {None}]
  /\ content \in [Works -> Raws \cup {None}]
  /\ RanksAreBounded(state)
  /\ StatesAreBacked(state, recWork)
  /\ RecordsHaveWorks(recWork, canon)
  /\ ContentIsShown(proj, content, canon)
  /\ \A w \in Workers : Planned(tx[w]) /\ Fits(tx[w], state, recWork, proj)
  /\ \A x \in Works : Settles(x, Events, state, recWork) => Shows(proj[x], RevsIn(x, Events, state))

\* One of the revisions with a bounded rank is the newest.
LEMMA NewestExists ==
  ASSUME NEW revs \in SUBSET Revisions, revs # {}, NEW n \in Nat,
         \A rev \in revs : Rank(rev.raw) <= n
  PROVE  \E win : Newest(win, revs)
<1> DEFINE T == {n - Rank(rev.raw) : rev \in revs}
           R == OpToRel(<, Nat)
<1>1. \A rev \in revs : Rank(rev.raw) \in Nat /\ n - Rank(rev.raw) \in Nat
  <2> SUFFICES ASSUME NEW rev \in revs
               PROVE  Rank(rev.raw) \in Nat /\ n - Rank(rev.raw) \in Nat
    OBVIOUS
  <2>1. rev.raw \in Raws
    BY DEF Revisions
  <2>2. Rank(rev.raw) \in Nat /\ Rank(rev.raw) <= n
    BY <2>1, SnapshotTypes
  <2> QED BY <2>2
<1>2. T \subseteq Nat /\ T # {}
  BY <1>1
<1>3. IsWellFoundedOn(R, Nat)
  BY ONLY NatLessThanWellFounded
<1>4. \A x, y \in Nat : <<x, y>> \in R <=> x < y
  BY DEF OpToRel
<1> HIDE DEF R, T
<1>5. PICK x \in T : \A y \in T : ~(<<y, x>> \in R)
  BY <1>2, <1>3, WFMin
<1>6. PICK win \in revs : x = n - Rank(win.raw)
  BY <1>5 DEF T
<1>7. ASSUME NEW rev \in revs PROVE Rank(win.raw) >= Rank(rev.raw)
  <2>1. n - Rank(rev.raw) \in T /\ n - Rank(rev.raw) \in Nat /\ x \in Nat
    BY <1>1, <1>2, <1>5 DEF T
  <2>2. ~(n - Rank(rev.raw) < n - Rank(win.raw))
    BY <1>4, <1>5, <1>6, <2>1
  <2>3. Rank(rev.raw) \in Nat /\ Rank(win.raw) \in Nat
    BY <1>1
  <2> QED BY <2>2, <2>3
<1> QED BY <1>6, <1>7 DEF Newest

\* What applyWinningProjection decides for a bounded set of revisions.
LEMMA PlanIsRight ==
  ASSUME NEW x, NEW st, NEW as, NEW n \in Nat,
         Candidates(x, st, as) \subseteq Revisions,
         \A rev \in Candidates(x, st, as) : Rank(rev.raw) <= n
  PROVE  /\ Right(proj[x], Plan(x, st, as), Candidates(x, st, as))
         /\ Plan(x, st, as) \in Plans
<1> DEFINE revs == Candidates(x, st, as)
           win == NewestOf(revs)
<1>1. Plan(x, st, as) = IF revs = {} THEN Clear
                        ELSE IF proj[x] = ShownRow(win) THEN Keep ELSE Write(win)
  BY DEF Plan, ShownRow
<1>2. revs # {} => Newest(win, revs)
  <2> HIDE DEF revs
  <2>1. revs # {} => \E m : Newest(m, revs)
    BY NewestExists DEF revs
  <2> QED BY <2>1 DEF Newest, NewestOf
<1>3. revs \subseteq Revisions
  OBVIOUS
<1> HIDE DEF revs, win
<1>4. revs # {} => win \in Revisions
  BY <1>2, <1>3 DEF Newest
<1>5. CASE revs = {}
  BY <1>1, <1>5 DEF Right, Plans, revs
<1>6. CASE revs # {}
  BY <1>1, <1>2, <1>4, <1>6 DEF Right, Plans, revs
<1> QED BY <1>5, <1>6

\* A withdrawn or moved revision was no revision of a work that is settled.
LEMMA Undisturbed ==
  ASSUME NEW x, x # None, NEW E \in SUBSET Events, NEW e \in Events,
         NEW st, NEW rec, NEW newSt, NEW newRec, StatesAreBacked(st, rec),
         \A f \in Events \ {e} : newSt[f] = st[f],
         e \in E => newSt[e] = st[e] \/ newSt[e].work # x \/ newSt[e].scope = "excluded",
         \A r \in Raws : rec[r] = x => newRec[r] = x,
         Settles(x, E, newSt, newRec)
  PROVE  Settles(x, E, st, rec) /\ RevsIn(x, E, newSt) = RevsIn(x, E, st)
<1>1. CASE e \notin E \/ newSt[e] = st[e]
  <2>1. \A f \in E : newSt[f] = st[f]
    BY <1>1
  <2>2. Settles(x, E, st, rec)
    BY <2>1 DEF Settles
  <2>3. RevsIn(x, E, newSt) = RevsIn(x, E, st)
    BY <2>1 DEF RevsIn
  <2> QED BY <2>2, <2>3
<1>2. CASE e \in E /\ newSt[e] # st[e]
  <2>1. \A r \in Raws : rec[r] = x => Event(r) # e
    BY <1>2 DEF Settles
  <2>2. st[e] = None \/ st[e].work # x
    BY <2>1 DEF StatesAreBacked
  <2>3. Settles(x, E, st, rec)
    <3> SUFFICES ASSUME NEW r \in Raws, rec[r] = x, Event(r) \in E
                 PROVE  st[Event(r)].work = x /\ st[Event(r)].scope # "excluded"
      BY DEF Settles
    <3>1. Event(r) \in Events \ {e}
      BY <2>1
    <3> QED BY <3>1 DEF Settles
  <2>4. {f \in E : newSt[f] # None /\ newSt[f].work = x /\ newSt[f].scope = "included" /\ ~newSt[f].deleted}
        = {f \in E : st[f] # None /\ st[f].work = x /\ st[f].scope = "included" /\ ~st[f].deleted}
    BY <1>2, <2>2
  <2>5. \A f \in E : (st[f] # None /\ st[f].work = x) => newSt[f] = st[f]
    BY <2>2
  <2> QED BY <2>3, <2>4, <2>5 DEF RevsIn
<1> QED BY <1>1, <1>2

\* The work of a revision that is withdrawn is not settled.
LEMMA Unsettled ==
  ASSUME NEW E \in SUBSET Events, NEW e \in E, NEW st, NEW rec, NEW newSt, NEW x,
         x # None, StatesAreBacked(st, rec), st[e] # None, st[e].work = x,
         newSt[e].scope = "excluded"
  PROVE  ~Settles(x, E, newSt, rec)
<1>1. PICK r \in Raws : Event(r) = e /\ rec[r] = x
  BY DEF StatesAreBacked
<1> QED BY <1>1 DEF Settles

LEMMA IdleFits ==
  ASSUME NEW f, f \in {Idle, Rejected}, NEW st, NEW rec, NEW pr
  PROVE  Planned(f) /\ Fits(f, st, rec, pr)
<1>1. f.pc \in {"idle", "rejected"} /\ f.plan = Keep
  BY DEF Idle, Rejected, Handler
<1> QED BY <1>1 DEF Planned, Plans, Fits, Projects, Writes

\* A handler moves on and the tables stay.
LEMMA FrameShows ==
  ASSUME WInv, BInv', NEW w \in Workers, NEW f, tx' = [tx EXCEPT ![w] = f],
         UNCHANGED <<canon, recWork, state, proj, content>>,
         Planned(f), Fits(f, state, recWork, proj)
  PROVE  WInv'
<1>1. tx'[w] = f /\ \A v \in Workers \ {w} : tx'[v] = tx[v]
  BY DEF WInv, BInv, PInv, TxType
<1>2. \A v \in Workers : Planned(tx'[v]) /\ Fits(tx'[v], state, recWork, proj)
  BY <1>1 DEF WInv
<1> QED BY <1>2 DEF WInv

\* The revisions a projection sees when it chooses the winner.
LEMMA SeenRevs ==
  ASSUME BInv, NEW w \in Workers, Projects(tx[w])
  PROVE  tx[w].changed => Candidates(tx[w].work, SeenState(w), SeenAsserted(w)) = RevsWith(tx[w], state)
<1> DEFINE t == tx[w]
           g == Event(t.raw)
           new == Included(t.raw, t.ver, t.work)
<1> SUFFICES ASSUME t.changed
             PROVE  Candidates(t.work, SeenState(w), SeenAsserted(w)) = RevsWith(t, state)
  OBVIOUS
<1>1. /\ t.raw \in Raws /\ t.ver \in Versions /\ IsUpsert(t.raw)
      /\ t.work \in Works /\ t.work # None
  BY NoneIsApart DEF BInv, PInv, Sound, Projects, Writes
<1>2. g \in Events
  BY <1>1, SnapshotTypes
<1>3. new.raw = t.raw /\ new.work = t.work /\ new.ver = t.ver /\ ~new.deleted /\ new # None
  BY <1>1, RowsAreRevisions, NoneIsApart DEF Included
<1>4. SeenState(w) = [state EXCEPT ![g] = new]
  <2>1. Proposed(w) = new
    BY <1>1 DEF Proposed
  <2> HIDE DEF new
  <2>2. Coalesced(new) = new
    BY <1>1, <1>3 DEF Coalesced
  <2> QED BY <2>1, <2>2 DEF SeenState
<1>5. SeenAsserted(w) = [asserted EXCEPT ![t.raw][t.ver] = t.work]
  BY <1>1 DEF SeenAsserted
<1> DEFINE st == SeenState(w)
           as == SeenAsserted(w)
<1>6. st[g] = new /\ \A e \in Events \ {g} : st[e] = state[e]
  BY <1>2, <1>4 DEF BInv, PInv, DbType
<1>7. as[t.raw][t.ver] = t.work /\ \A r \in Raws \ {t.raw} : as[r] = asserted[r]
  BY <1>1, <1>5 DEF BInv, RowsType
<1>8. ASSUME NEW e \in Events \ {g}, state[e] # None, state[e].work = t.work,
             state[e].scope = "included"
      PROVE  as[state[e].raw][state[e].ver] = t.work
  <2>1. state[e].raw \in Raws /\ Event(state[e].raw) = e
    BY <1>8 DEF BInv, PInv, DbType, Revisions, RowsOfEvents
  <2>2. state[e].raw # t.raw
    BY <2>1
  <2>3. asserted[state[e].raw][state[e].ver] = state[e].work
    BY <1>8 DEF BInv, IncludedIsBacked
  <2> QED BY <1>7, <1>8, <2>1, <2>2, <2>3
<1> HIDE DEF st, as, new, g
<1> DEFINE Wins(e) == /\ st[e] # None /\ st[e].work = t.work /\ st[e].scope = "included"
                      /\ ~st[e].deleted /\ as[st[e].raw][st[e].ver] = t.work
           Had(e) == /\ state[e] # None /\ state[e].work = t.work
                     /\ state[e].scope = "included" /\ ~state[e].deleted
<1>9. Wins(g) <=> new.scope = "included"
  BY <1>3, <1>6, <1>7
<1>10. \A e \in Events \ {g} : Wins(e) <=> Had(e)
  BY <1>6, <1>8
<1>11. {st[e] : e \in {f \in Events : Wins(f)}}
       = {state[e] : e \in {f \in Events \ {g} : Had(f)}} \cup {rev \in {new} : rev.scope = "included"}
  <2> HIDE DEF Wins, Had
  <2>1. ASSUME NEW rev, rev \in {st[e] : e \in {f \in Events : Wins(f)}}
        PROVE  rev \in {state[e] : e \in {f \in Events \ {g} : Had(f)}}
                 \cup {s \in {new} : s.scope = "included"}
    <3>1. PICK e \in Events : Wins(e) /\ rev = st[e]
      BY <2>1
    <3>2. CASE e = g
      BY <1>6, <1>9, <3>1, <3>2
    <3>3. CASE e # g
      BY <1>6, <1>10, <3>1, <3>3
    <3> QED BY <3>2, <3>3
  <2>2. ASSUME NEW rev, rev \in {state[e] : e \in {f \in Events \ {g} : Had(f)}}
        PROVE  rev \in {st[e] : e \in {f \in Events : Wins(f)}}
    <3>1. PICK e \in Events \ {g} : Had(e) /\ rev = state[e]
      BY <2>2
    <3> QED BY <1>6, <1>10, <3>1
  <2>3. ASSUME NEW rev, rev \in {s \in {new} : s.scope = "included"}
        PROVE  rev \in {st[e] : e \in {f \in Events : Wins(f)}}
    BY <1>2, <1>6, <1>9, <2>3 DEF g
  <2> QED BY <2>1, <2>2, <2>3
<1> QED BY <1>11 DEF Candidates, RevsWith, RevsIn, OtherEvents, OwnRevs, st, as, new, g

\* A row that joins the table is one more rank to bound.
LEMMA BoundedWith ==
  ASSUME NEW st \in [Events -> Revisions \cup {None}], RanksAreBounded(st),
         NEW e \in Events, NEW newSt,
         \A f \in Events \ {e} : newSt[f] = st[f],
         newSt[e] = st[e] \/ newSt[e].raw \in Raws
  PROVE  RanksAreBounded(newSt)
<1>1. PICK n \in Nat : \A f \in Events : st[f] # None => Rank(st[f].raw) <= n
  BY DEF RanksAreBounded
<1>2. CASE newSt[e] = st[e]
  BY <1>1, <1>2 DEF RanksAreBounded
<1>3. CASE newSt[e].raw \in Raws
  <2>1. Rank(newSt[e].raw) \in Nat
    BY <1>3, SnapshotTypes
  <2> DEFINE m == n + Rank(newSt[e].raw)
  <2>2. m \in Nat /\ n <= m /\ Rank(newSt[e].raw) <= m
    BY <2>1
  <2> HIDE DEF m
  <2>3. ASSUME NEW f \in Events, newSt[f] # None PROVE Rank(newSt[f].raw) <= m
    <3>1. CASE f = e
      BY <2>2, <3>1
    <3>2. CASE f # e
      <4>1. newSt[f] = st[f] /\ Rank(st[f].raw) <= n
        BY <1>1, <2>3, <3>2
      <4>2. st[f].raw \in Raws
        BY <2>3, <4>1 DEF Revisions
      <4>3. Rank(st[f].raw) \in Nat
        BY <4>2, SnapshotTypes
      <4> QED BY <2>2, <4>1, <4>3
    <3> QED BY <3>1, <3>2
  <2> QED BY <2>2, <2>3 DEF RanksAreBounded
<1> QED BY <1>2, <1>3

LEMMA SelectWinnerShows ==
  ASSUME WInv, BInv', NEW w \in Workers, SelectWinner(w)
  PROVE  WInv'
<1> DEFINE t == tx[w]
           g == Event(t.raw)
           new == Coalesced(Proposed(w))
           st == SeenState(w)
           as == SeenAsserted(w)
           plan == Plan(t.work, st, as)
           f == [t EXCEPT !.pc = "commit", !.plan = plan]
<1>1. /\ t \in Frames({tx[u].plan : u \in Workers}) /\ t.pc = "select"
      /\ t.raw \in Raws /\ t.ver \in Versions /\ t.changed /\ t.work # None
      /\ Sound(t)
  BY DEF WInv, BInv, PInv, TxType, SelectWinner, Sound, Planned
<1>2. t.work \in Works /\ g \in Events
  BY <1>1, SnapshotTypes DEF Frames
<1>3. /\ tx' = [tx EXCEPT ![w] = f]
      /\ UNCHANGED <<canon, recWork, state, proj, content>>
  BY DEF SelectWinner, dbVars
<1>4. new \in Revisions /\ new.raw = t.raw
  <2>1. Proposed(w) \in Revisions /\ Proposed(w).raw = t.raw
    BY <1>1, <1>2, RowsAreRevisions DEF Proposed
  <2>2. state[g] \in Revisions \cup {None}
    BY <1>2 DEF WInv, BInv, PInv, DbType
  <2> QED BY <2>1, <2>2 DEF Coalesced, Revisions
<1>5. st = [state EXCEPT ![g] = new]
  BY <1>1 DEF SeenState
<1> HIDE DEF new
<1>6. /\ st \in [Events -> Revisions \cup {None}] /\ st[g] = new
      /\ \A e \in Events \ {g} : st[e] = state[e]
  BY <1>2, <1>4, <1>5 DEF WInv, BInv, PInv, DbType
<1> HIDE DEF st, as
<1>7. PICK n \in Nat : \A e \in Events : st[e] # None => Rank(st[e].raw) <= n
  <2>1. RanksAreBounded(st)
    BY <1>1, <1>2, <1>4, <1>6, BoundedWith DEF WInv, BInv, PInv, DbType
  <2> QED BY <2>1 DEF RanksAreBounded
<1>8. /\ Candidates(t.work, st, as) \subseteq Revisions
      /\ \A rev \in Candidates(t.work, st, as) : Rank(rev.raw) <= n
  BY <1>6, <1>7 DEF Candidates
<1>9. Right(proj[t.work], plan, Candidates(t.work, st, as)) /\ plan \in Plans
  BY <1>8, PlanIsRight
<1> HIDE DEF plan
<1>10. /\ f.pc = "commit" /\ f.plan = plan /\ f.raw = t.raw /\ f.ver = t.ver
       /\ f.work = t.work /\ f.changed
  BY <1>1 DEF Frames
<1> HIDE DEF f
<1>11. Planned(f)
  BY <1>1, <1>9, <1>10 DEF Planned
<1>12. Fits(f, state, recWork, proj)
  <2>1. SUFFICES ASSUME Projects(f) PROVE Right(proj[f.work], f.plan, RevsWith(f, state))
    BY DEF Fits
  <2>2. Projects(t)
    BY <1>1, <1>10, <2>1 DEF Projects, Writes
  <2>3. Candidates(t.work, st, as) = RevsWith(t, state)
    BY <1>1, <2>2, SeenRevs DEF WInv, st, as
  <2>4. RevsWith(f, state) = RevsWith(t, state)
    BY <1>10 DEF RevsWith, OtherEvents, OwnRevs
  <2> QED BY <1>9, <1>10, <2>3, <2>4
<1> QED BY <1>3, <1>11, <1>12, FrameShows

\* The other steps before a commit plan nothing.
LEMMA BeforeCommitShows ==
  ASSUME WInv, BInv', NEW w \in Workers,
         Deliver(w) \/ Normalize(w) \/ BeginProject(w) \/ LockIdentifier(w)
         \/ ResolveWork(w) \/ BeginDeletion(w) \/ Abort(w)
  PROVE  WInv'
<1> DEFINE t == tx[w]
<1>1. /\ Sound(t) /\ Planned(t) /\ t \in Frames({tx[u].plan : u \in Workers})
  BY DEF WInv, BInv, PInv, TxType
<1>2. UNCHANGED <<canon, recWork, state, proj, content>>
  BY DEF Deliver, Normalize, BeginProject, LockIdentifier, ResolveWork, BeginDeletion, Abort,
         dbVars
<1>3. ASSUME NEW f, tx' = [tx EXCEPT ![w] = f], f.plan = Keep,
             f.pc = "select" => f.changed /\ f.work # None, f.pc = "commit" /\ Projects(f) => ~f.changed
      PROVE  WInv'
  <2>1. Planned(f)
    BY <1>3 DEF Planned, Plans
  <2>2. Fits(f, state, recWork, proj)
    BY <1>3 DEF Fits
  <2> QED BY <1>2, <1>3, <2>1, <2>2, FrameShows
<1>4. CASE tx' = [tx EXCEPT ![w] = Idle] \/ tx' = [tx EXCEPT ![w] = Rejected]
  BY <1>2, <1>4, IdleFits, FrameShows
<1>5. CASE Deliver(w)
  <2>1. PICK r \in Raws, v \in Versions :
          tx' = [tx EXCEPT ![w] = Handler(IF IsUpsert(r) THEN "normalize" ELSE "begin", r, v)]
    BY <1>5 DEF Deliver
  <2> DEFINE f == Handler(IF IsUpsert(r) THEN "normalize" ELSE "begin", r, v)
  <2>2. f.pc \in {"normalize", "begin"} /\ f.plan = Keep
    BY DEF Handler
  <2> HIDE DEF f
  <2>3. tx' = [tx EXCEPT ![w] = f]
    BY <2>1 DEF f
  <2> QED BY <1>3, <2>2, <2>3
<1>6. CASE Normalize(w)
  <2> DEFINE f == [t EXCEPT !.pc = IF Verdict[t.ver][t.raw] = "excluded" THEN "exclude" ELSE "begin"]
  <2>1. CASE tx' = [tx EXCEPT ![w] = f]
    <3>1. f.pc \in {"exclude", "begin"} /\ f.plan = t.plan /\ t.plan = Keep
      BY <1>1, <1>6 DEF Frames, Normalize, Planned
    <3> HIDE DEF f
    <3> QED BY <1>3, <2>1, <3>1
  <2> QED BY <1>4, <1>6, <2>1 DEF Normalize
<1>7. CASE BeginProject(w)
  <2> DEFINE f == [t EXCEPT !.pc = "lock", !.row = state[Event(t.raw)] # None]
  <2>1. f.pc = "lock" /\ f.plan = t.plan /\ t.plan = Keep
    BY <1>1, <1>7 DEF Frames, BeginProject, Planned
  <2>2. tx' = [tx EXCEPT ![w] = f]
    BY <1>7 DEF BeginProject
  <2> HIDE DEF f
  <2> QED BY <1>3, <2>1, <2>2
<1>8. CASE LockIdentifier(w)
  <2>1. PICK i \in NextId(w) : tx' = [tx EXCEPT ![w].held = @ \cup {i}]
    BY <1>8 DEF LockIdentifier
  <2> DEFINE f == [t EXCEPT !.held = t.held \cup {i}]
  <2>2. f.pc = "lock" /\ f.plan = t.plan /\ t.plan = Keep
    BY <1>1, <1>8 DEF Frames, LockIdentifier, Planned
  <2>3. tx' = [tx EXCEPT ![w] = f]
    BY <2>1
  <2> HIDE DEF f
  <2> QED BY <1>3, <2>2, <2>3
<1>9. CASE ResolveWork(w)
  <2>1. PICK x \in Joinable(w) :
          tx' = [tx EXCEPT ![w] =
                   IF Conflicting(t.raw, t.ver, x) THEN Idle
                   ELSE [t EXCEPT !.pc = IF Replaces(Included(t.raw, t.ver, x))
                                         THEN "select" ELSE "commit",
                                  !.work = x, !.row = TRUE,
                                  !.changed = Replaces(Included(t.raw, t.ver, x))]]
    BY <1>9 DEF ResolveWork
  <2>2. t.pc = "lock" /\ t.raw \in Raws /\ IsUpsert(t.raw)
    BY <1>1, <1>9 DEF ResolveWork, Sound
  <2>3. x \in Works /\ x # None
    <3>1. Named(t.raw) \subseteq Works
      BY <2>2, RecordIds DEF Named, WInv, BInv, PInv, DbType
    <3> QED BY <2>1, <3>1, NoneIsApart DEF Joinable, FreshWorks
  <2>4. CASE ~Conflicting(t.raw, t.ver, x)
    <3> DEFINE changed == Replaces(Included(t.raw, t.ver, x))
               f == [t EXCEPT !.pc = IF changed THEN "select" ELSE "commit",
                              !.work = x, !.row = TRUE, !.changed = changed]
    <3>1. tx' = [tx EXCEPT ![w] = f]
      BY <2>1, <2>4
    <3>2. changed \in BOOLEAN
      BY DEF Replaces
    <3> HIDE DEF changed
    <3>3. /\ f.pc = (IF changed THEN "select" ELSE "commit") /\ f.work = x
          /\ f.changed = changed /\ f.plan = t.plan /\ t.plan = Keep
      BY <1>1, <2>2 DEF Frames, Planned
    <3> HIDE DEF f
    <3> QED BY <1>3, <2>3, <3>1, <3>2, <3>3
  <2> QED BY <1>4, <2>1, <2>4
<1>10. CASE BeginDeletion(w)
  <2> DEFINE x == IF state[Event(t.raw)] = None THEN None ELSE state[Event(t.raw)].work
             changed == Replaces(Deleted(t.raw, t.ver, x))
             f == [t EXCEPT !.pc = IF changed /\ x # None THEN "select" ELSE "commit",
                            !.work = x, !.row = TRUE, !.changed = changed]
  <2>1. tx' = [tx EXCEPT ![w] = f] /\ t.pc = "begin" /\ ~IsUpsert(t.raw)
    BY <1>10 DEF BeginDeletion
  <2> HIDE DEF changed, x
  <2>2. /\ f.raw = t.raw /\ f.pc = (IF changed /\ x # None THEN "select" ELSE "commit")
        /\ f.work = x /\ f.changed = changed /\ f.plan = t.plan /\ t.plan = Keep
    BY <1>1, <2>1 DEF Frames, Planned
  <2> HIDE DEF f
  <2>3. ~Projects(f)
    BY <2>1, <2>2 DEF Projects
  <2> QED BY <1>3, <2>1, <2>2, <2>3
<1> QED BY <1>4, <1>5, <1>6, <1>7, <1>8, <1>9, <1>10 DEF Abort

LEMMA AppliedTypes ==
  ASSUME WInv, NEW x, NEW plan \in Plans, NEW shown \in [Works -> Raws \cup {None}],
         \A y \in Works \ {x} : shown[y] = content[y],
         Applied(x, plan, shown), plan = Keep \/ x \in Works
  PROVE  /\ proj' \in [Works -> Shown \cup {None}]
         /\ content' \in [Works -> Raws \cup {None}]
         /\ \A y \in Works : y # x \/ plan = Keep => proj'[y] = proj[y] /\ content'[y] = shown[y]
         /\ plan = Keep => proj' = proj /\ content' = shown
         /\ plan = Clear => proj'[x] = None
         /\ \A win : plan = Write(win) => proj'[x] = ShownRow(win) /\ content'[x] = win.raw
<1>1. proj \in [Works -> Shown \cup {None}]
  BY DEF WInv
<1>2. CASE plan = Keep
  <2>1. proj' = proj /\ content' = shown
    BY <1>2 DEF Applied, Keep
  <2>2. Keep # Clear /\ \A win : Keep # Write(win)
    BY DEF Keep, Clear, Write
  <2> QED BY <1>1, <1>2, <2>1, <2>2
<1>3. CASE plan = Clear
  <2>1. proj' = [proj EXCEPT ![x] = None] /\ content' = shown /\ x \in Works
    BY <1>3 DEF Applied, Keep, Clear
  <2>2. Keep # Clear /\ \A win : Clear # Write(win)
    BY DEF Keep, Clear, Write
  <2> QED BY <1>1, <1>3, <2>1, <2>2
<1>4. CASE plan \notin {Keep, Clear}
  <2>1. PICK rev \in Revisions : plan = Write(rev)
    BY <1>4 DEF Plans
  <2>2. plan.do = "write" /\ plan.raw = rev.raw /\ plan.ver = rev.ver
    BY <2>1 DEF Write
  <2>3. /\ proj' = [proj EXCEPT ![x] = ShownRow(rev)]
        /\ content' = [content EXCEPT ![x] = rev.raw] /\ x \in Works
    BY <1>4, <2>2 DEF Applied, ShownRow
  <2>4. rev.raw \in Raws /\ ShownRow(rev) \in Shown
    BY DEF ShownRow, Revisions, Shown
  <2>5. \A win : plan = Write(win) => win.raw = rev.raw /\ win.ver = rev.ver
    BY <2>1 DEF Write
  <2>6. \A win : plan = Write(win) => ShownRow(win) = ShownRow(rev) /\ win.raw = rev.raw
    BY <2>5 DEF ShownRow
  <2>7. content \in [Works -> Raws \cup {None}]
    BY DEF WInv
  <2> QED BY <1>1, <1>4, <2>3, <2>4, <2>6, <2>7
<1> QED BY <1>2, <1>3, <1>4

\* The revision of event e is withdrawn, and the work it named may be told to
\* show another one.
LEMMA WithdrawalShows ==
  ASSUME WInv, BInv', NEW w \in Workers, tx' = [tx EXCEPT ![w] = Idle],
         UNCHANGED <<canon, recWork>>, NEW e \in Events,
         \A v \in Workers \ {w} : Projects(tx[v]) => Event(tx[v].raw) # e,
         NEW new, new.scope = "excluded", new.raw \in Raws, new.work = KnownBy(state[e]),
         NEW plan \in Plans, NEW y, Applied(y, plan, content),
         \/ state' = state /\ plan = Keep
         \/ state' = [state EXCEPT ![e] = new] /\ (plan = Keep \/ (y \in Works /\ y = KnownBy(state[e])))
  PROVE  WInv'
<1>1. tx'[w] = Idle /\ \A v \in Workers \ {w} : tx'[v] = tx[v]
  BY DEF WInv, BInv, PInv, TxType
<1>2. state \in [Events -> Revisions \cup {None}] /\ content \in [Works -> Raws \cup {None}]
  BY DEF WInv, BInv, PInv, DbType
<1>3. /\ \A f \in Events \ {e} : state'[f] = state[f]
      /\ state' = state \/ state'[e] = new
  BY <1>2
<1>4. /\ proj' \in [Works -> Shown \cup {None}]
      /\ content' \in [Works -> Raws \cup {None}]
      /\ \A x \in Works : x # y \/ plan = Keep => proj'[x] = proj[x] /\ content'[x] = content[x]
      /\ plan = Keep => proj' = proj /\ content' = content
      /\ plan = Clear => proj'[y] = None
      /\ \A win : plan = Write(win) => proj'[y] = ShownRow(win) /\ content'[y] = win.raw
  BY <1>2, AppliedTypes
<1>5. RanksAreBounded(state')
  BY <1>2, <1>3, BoundedWith DEF WInv
<1>6. StatesAreBacked(state', recWork')
  <2> SUFFICES ASSUME NEW f \in Events, state'[f] # None, state'[f].work # None
               PROVE  \E r \in Raws : Event(r) = f /\ recWork[r] = state'[f].work
    BY DEF StatesAreBacked
  <2>1. CASE state'[f] = state[f]
    BY <2>1 DEF WInv, StatesAreBacked
  <2>2. CASE state'[f] # state[f]
    <3>1. f = e /\ state'[f] = new /\ KnownBy(state[e]) # None
      BY <1>3, <2>2
    <3>2. state[e] # None /\ state[e].work = new.work
      BY <3>1 DEF KnownBy
    <3> QED BY <3>1, <3>2 DEF WInv, StatesAreBacked
  <2> QED BY <2>1, <2>2
<1>7. plan # Keep => /\ y \in Works /\ y # None /\ state[e] # None /\ state[e].work = y
                     /\ state'[e] = new
  BY <1>2, NoneIsApart DEF KnownBy
<1>8. ContentIsShown(proj', content', canon')
  <2> SUFFICES ASSUME NEW x \in Works, proj'[x] # None
               PROVE  content'[x] = proj'[x].raw /\ canon[x] # None
    BY DEF ContentIsShown
  <2>1. CASE x # y \/ plan = Keep
    BY <1>4, <2>1 DEF WInv, ContentIsShown
  <2>2. CASE x = y /\ plan # Keep
    <3>1. PICK win : plan = Write(win)
      BY <1>4, <2>2 DEF Plans
    <3>2. content'[x] = proj'[x].raw
      BY <1>4, <2>2, <3>1 DEF ShownRow
    <3>3. PICK r \in Raws : recWork[r] = x
      BY <1>7, <2>2 DEF WInv, StatesAreBacked
    <3>4. canon[x] # None
      BY <1>7, <2>2, <3>3 DEF WInv, RecordsHaveWorks
    <3> QED BY <3>2, <3>4
  <2> QED BY <2>1, <2>2
\* What is settled afterwards is as it was.
<1>9. ASSUME NEW x \in Works, NEW E \in SUBSET Events, Settles(x, E, state', recWork'),
             e \notin E => x # y \/ plan = Keep
      PROVE  /\ Settles(x, E, state, recWork)
             /\ RevsIn(x, E, state') = RevsIn(x, E, state)
             /\ proj'[x] = proj[x]
  <2>1. x # None
    BY NoneIsApart
  <2>2. Settles(x, E, state, recWork) /\ RevsIn(x, E, state') = RevsIn(x, E, state)
    <3>1. state'[e] = state[e] \/ state'[e].work # x \/ state'[e].scope = "excluded"
      BY <1>3
    <3>2. StatesAreBacked(state, recWork) /\ \A r \in Raws : recWork[r] = x => recWork'[r] = x
      BY DEF WInv
    <3> QED BY <1>3, <1>9, <2>1, <3>1, <3>2, Undisturbed
  <2>3. x # y \/ plan = Keep
    <3> SUFFICES ASSUME e \in E, x = y, plan # Keep PROVE FALSE
      BY <1>9
    <3>1. state[e] # None /\ state[e].work = x /\ state'[e].scope = "excluded"
      BY <1>7
    <3>2. StatesAreBacked(state, recWork)
      BY DEF WInv
    <3>3. ~Settles(x, E, state', recWork)
      BY <2>1, <3>1, <3>2, Unsettled
    <3> QED BY <1>9, <3>3
  <2> QED BY <1>4, <2>2, <2>3
<1>10. ASSUME NEW v \in Workers PROVE Planned(tx'[v]) /\ Fits(tx'[v], state', recWork', proj')
  <2>1. CASE v = w
    BY <1>1, <2>1, IdleFits
  <2>2. CASE v # w
    <3> DEFINE f == tx[v]
    <3>1. tx'[v] = f /\ Planned(f) /\ Fits(f, state, recWork, proj)
      BY <1>1, <2>2 DEF WInv
    <3>2. Fits(f, state', recWork', proj')
      <4> SUFFICES ASSUME Projects(f), f.pc = "commit", f.changed,
                          Settles(f.work, OtherEvents(f), state', recWork')
                   PROVE  Right(proj'[f.work], f.plan, RevsWith(f, state'))
        BY DEF Fits
      <4>1. f.work \in Works /\ Event(f.raw) # e
        BY <2>2 DEF WInv, BInv, PInv, Sound
      <4>2. OtherEvents(f) \in SUBSET Events /\ e \in OtherEvents(f)
        BY <4>1 DEF OtherEvents
      <4> HIDE DEF f
      <4>3. /\ Settles(f.work, OtherEvents(f), state, recWork)
            /\ RevsIn(f.work, OtherEvents(f), state') = RevsIn(f.work, OtherEvents(f), state)
            /\ proj'[f.work] = proj[f.work]
        BY <1>9, <4>1, <4>2
      <4> QED BY <3>1, <4>3 DEF Fits, RevsWith
    <3> QED BY <3>1, <3>2
  <2> QED BY <2>1, <2>2
<1>11. ASSUME NEW x \in Works, Settles(x, Events, state', recWork')
       PROVE  Shows(proj'[x], RevsIn(x, Events, state'))
  BY <1>9, <1>11 DEF WInv
<1>12. RecordsHaveWorks(recWork', canon')
  BY DEF WInv
<1> QED BY <1>4, <1>5, <1>6, <1>8, <1>10, <1>11, <1>12 DEF WInv

LEMMA ExcludeShows ==
  ASSUME WInv, BInv', NEW w \in Workers, Exclude(w)
  PROVE  WInv'
<1> DEFINE t == tx[w]
           e == Event(t.raw)
           row == Excluded(t.raw, t.ver)
<1>1. t.raw \in Raws /\ t.ver \in Versions /\ e \in Events
  BY SnapshotTypes DEF WInv, BInv, PInv, Sound, Exclude
<1>2. /\ tx' = [tx EXCEPT ![w] = Idle]
      /\ state' = state \/ state' = [state EXCEPT ![e] = Coalesced(row)]
      /\ UNCHANGED <<canon, recWork, proj, content>>
  BY DEF Exclude
<1>3. \A v \in Workers \ {w} : Projects(tx[v]) => Event(tx[v].raw) # e
  BY DEF Exclude, RowLocked, InTransaction, Projects, Writes, WInv, BInv, PInv, Sound
<1>4. /\ Coalesced(row).scope = "excluded" /\ Coalesced(row).raw \in Raws
      /\ Coalesced(row).work = KnownBy(state[e])
  <2>1. row \in Revisions /\ row.raw = t.raw /\ row.scope = "excluded" /\ row.work = None
    BY <1>1, RowsAreRevisions DEF Excluded
  <2> HIDE DEF row
  <2> QED BY <1>1, <2>1 DEF Coalesced, KnownBy, Revisions
<1>5. Applied(None, Keep, content) /\ Keep \in Plans
  BY <1>2 DEF Applied, Keep, Plans
<1> HIDE DEF row, e
<1> QED BY <1>1, <1>2, <1>3, <1>4, <1>5, WithdrawalShows

LEMMA CommitDeletionShows ==
  ASSUME WInv, BInv', NEW w \in Workers, CommitDeletion(w)
  PROVE  WInv'
<1> DEFINE t == tx[w]
           e == Event(t.raw)
           row == Deleted(t.raw, t.ver, t.work)
<1>1. /\ t.raw \in Raws /\ t.ver \in Versions /\ e \in Events /\ Writes(t) /\ t.pc = "commit"
      /\ t.work \in Works \cup {None} /\ Planned(t) /\ ~IsUpsert(t.raw)
  BY SnapshotTypes DEF WInv, BInv, PInv, TxType, Frames, Sound, CommitDeletion, Writes
<1>2. /\ tx' = [tx EXCEPT ![w] = Idle]
      /\ state' = (IF t.changed THEN [state EXCEPT ![e] = Coalesced(row)] ELSE state)
      /\ Applied(t.work, t.plan, content)
      /\ UNCHANGED <<canon, recWork>>
  BY <1>1 DEF CommitDeletion, Stored, Proposed
<1>3. \A v \in Workers \ {w} : Projects(tx[v]) => Event(tx[v].raw) # e
  BY <1>1 DEF WInv, BInv, PInv, Apart, Started, Writes, Projects
<1>4. t.work = KnownBy(state[e])
  BY <1>1 DEF WInv, BInv, PInv, Decided, Settled
<1>5. /\ Coalesced(row).scope = "excluded" /\ Coalesced(row).raw \in Raws
      /\ Coalesced(row).work = KnownBy(state[e])
  <2>1. row \in Revisions /\ row.raw = t.raw /\ row.scope = "excluded" /\ row.work = t.work
    BY <1>1, RowsAreRevisions DEF Deleted
  <2> HIDE DEF row
  <2> QED BY <1>1, <1>4, <2>1 DEF Coalesced, KnownBy, Revisions
<1>6. t.plan \in Plans /\ (t.plan # Keep => t.changed /\ t.work # None)
  BY <1>1 DEF Planned
<1> HIDE DEF row, e
<1> QED BY <1>1, <1>2, <1>3, <1>4, <1>5, <1>6, WithdrawalShows

\* A projection: the row of its work was locked since it chose the work.
LEMMA CommitProjectShows ==
  ASSUME WInv, BInv', NEW w \in Workers, CommitProject(w)
  PROVE  WInv'
<1> DEFINE t == tx[w]
           r == tx[w].raw
           v == tx[w].ver
           x == tx[w].work
           e == Event(r)
           new == Included(r, v, x)
           shown == IF canon[x] = None THEN [content EXCEPT ![x] = r] ELSE content
<1>1. /\ r \in Raws /\ v \in Versions /\ IsUpsert(r) /\ x \in Works /\ x # None /\ e \in Events
      /\ t.pc = "commit" /\ Projects(t) /\ recWork[r] \in {None, x} /\ Planned(t)
      /\ Fits(t, state, recWork, proj)
  BY SnapshotTypes, NoneIsApart
  DEF WInv, BInv, PInv, Sound, CommitProject, Writes, Projects, Associable
<1>2. /\ tx' = [tx EXCEPT ![w] = Idle]
      /\ recWork' = [recWork EXCEPT ![r] = x]
      /\ canon' = [canon EXCEPT ![x] = KeyOf(x, Identity(r))]
      /\ Applied(x, t.plan, shown)
  BY DEF CommitProject, Associated
<1>3. tx'[w] = Idle /\ \A u \in Workers \ {w} : tx'[u] = tx[u]
  BY <1>2 DEF WInv, BInv, PInv, TxType
<1>4. /\ state \in [Events -> Revisions \cup {None}] /\ content \in [Works -> Raws \cup {None}]
      /\ recWork \in [Raws -> Works \cup {None}] /\ canon \in [Works -> Ids \cup {None}]
  BY DEF WInv, BInv, PInv, DbType, RowsType
<1>5. new.raw = r /\ new.work = x /\ new.ver = v /\ ~new.deleted /\ new # None
      /\ new.scope = Verdict[v][r]
  BY <1>1, RowsAreRevisions, NoneIsApart DEF Included
<1>6. state' = IF t.changed THEN [state EXCEPT ![e] = new] ELSE state
  <2>1. Proposed(w) = new
    BY <1>1 DEF Proposed
  <2>2. Coalesced(new) = new
    BY <1>1, <1>5 DEF Coalesced
  <2> QED BY <2>1, <2>2 DEF CommitProject, Stored
<1> HIDE DEF new
<1>7. /\ \A f \in Events \ {e} : state'[f] = state[f]
      /\ t.changed => state'[e] = new
      /\ ~t.changed => state' = state
  BY <1>1, <1>4, <1>6
<1>8. /\ recWork'[r] = x /\ \A s \in Raws \ {r} : recWork'[s] = recWork[s]
      /\ \A s \in Raws : recWork[s] # None => recWork'[s] = recWork[s]
  BY <1>1, <1>2, <1>4
<1>9. canon'[x] # None /\ \A y \in Works \ {x} : canon'[y] = canon[y]
  <2>1. KeyOf(x, Identity(r)) # None
    BY <1>1, RecordIds, NoneIsApart DEF KeyOf
  <2> QED BY <1>1, <1>2, <1>4, <2>1
<1>10. t.plan \in Plans /\ (t.plan # Keep => t.changed)
  BY <1>1 DEF Planned
<1>11. /\ shown \in [Works -> Raws \cup {None}]
       /\ \A y \in Works \ {x} : shown[y] = content[y]
       /\ canon[x] # None => shown = content
  BY <1>1, <1>4
<1> HIDE DEF shown
<1>12. /\ proj' \in [Works -> Shown \cup {None}]
       /\ content' \in [Works -> Raws \cup {None}]
       /\ \A y \in Works : y # x \/ t.plan = Keep => proj'[y] = proj[y] /\ content'[y] = shown[y]
       /\ t.plan = Clear => proj'[x] = None
       /\ \A win : t.plan = Write(win) => proj'[x] = ShownRow(win) /\ content'[x] = win.raw
  <2> DEFINE plan == t.plan
  <2>1. plan \in Plans /\ Applied(x, plan, shown) /\ x \in Works
    BY <1>1, <1>2, <1>10
  <2> HIDE DEF plan, x
  <2>2. /\ proj' \in [Works -> Shown \cup {None}]
        /\ content' \in [Works -> Raws \cup {None}]
        /\ \A y \in Works : y # x \/ plan = Keep => proj'[y] = proj[y] /\ content'[y] = shown[y]
        /\ plan = Clear => proj'[x] = None
        /\ \A win : plan = Write(win) => proj'[x] = ShownRow(win) /\ content'[x] = win.raw
    BY <1>11, <2>1, AppliedTypes
  <2> QED BY <2>2 DEF plan, x
<1>13. RanksAreBounded(state')
  BY <1>1, <1>4, <1>5, <1>7, BoundedWith DEF WInv
<1>14. StatesAreBacked(state', recWork')
  <2> SUFFICES ASSUME NEW f \in Events, state'[f] # None, state'[f].work # None
               PROVE  \E s \in Raws : Event(s) = f /\ recWork'[s] = state'[f].work
    BY DEF StatesAreBacked
  <2>1. CASE state'[f] = state[f]
    <3>1. PICK s \in Raws : Event(s) = f /\ recWork[s] = state[f].work
      BY <2>1 DEF WInv, StatesAreBacked
    <3> QED BY <1>8, <2>1, <3>1
  <2>2. CASE state'[f] # state[f]
    <3>1. f = e /\ state'[f] = new
      BY <1>7, <2>2
    <3> QED BY <1>1, <1>5, <1>8, <3>1
  <2> QED BY <2>1, <2>2
<1>15. RecordsHaveWorks(recWork', canon')
  <2> SUFFICES ASSUME NEW s \in Raws, recWork'[s] # None PROVE canon'[recWork'[s]] # None
    BY DEF RecordsHaveWorks
  <2>1. CASE recWork'[s] = x
    BY <1>9, <2>1
  <2>2. CASE recWork'[s] # x
    <3>1. recWork'[s] = recWork[s] /\ recWork[s] \in Works \ {x}
      BY <1>4, <1>8, <2>2
    <3> QED BY <1>9, <3>1 DEF WInv, RecordsHaveWorks
  <2> QED BY <2>1, <2>2
<1>16. ContentIsShown(proj', content', canon')
  <2> SUFFICES ASSUME NEW y \in Works, proj'[y] # None
               PROVE  content'[y] = proj'[y].raw /\ canon'[y] # None
    BY DEF ContentIsShown
  <2>1. CASE y # x
    BY <1>9, <1>11, <1>12, <2>1 DEF WInv, ContentIsShown
  <2>2. CASE y = x /\ t.plan = Keep
    <3>1. proj[x] # None
      BY <1>12, <2>2
    <3>2. content[x] = proj[x].raw /\ canon[x] # None
      BY <1>1, <3>1 DEF WInv, ContentIsShown
    <3> QED BY <1>9, <1>11, <1>12, <2>2, <3>2
  <2>3. CASE y = x /\ t.plan # Keep
    <3>1. PICK win : t.plan = Write(win)
      BY <1>10, <1>12, <2>3 DEF Plans
    <3>2. proj'[x] = ShownRow(win) /\ content'[x] = win.raw
      BY <1>12, <3>1
    <3>3. proj'[x].raw = win.raw
      BY <3>2 DEF ShownRow
    <3> QED BY <1>9, <2>3, <3>2, <3>3
  <2> QED BY <2>1, <2>2, <2>3
\* What is settled afterwards is as it was, but for the row of the projection.
<1>17. ASSUME NEW y \in Works, NEW E \in SUBSET Events, Settles(y, E, state', recWork'),
              e \notin E \/ y # x \/ ~t.changed
       PROVE  /\ Settles(y, E, state, recWork)
              /\ RevsIn(y, E, state') = RevsIn(y, E, state)
  <2>1. y # None
    BY NoneIsApart
  <2>2. e \in E => state'[e] = state[e] \/ state'[e].work # y \/ state'[e].scope = "excluded"
    BY <1>5, <1>7, <1>17
  <2>3. StatesAreBacked(state, recWork) /\ \A s \in Raws : recWork[s] = y => recWork'[s] = y
    BY <1>8, <2>1 DEF WInv
  <2> QED BY <1>1, <1>7, <1>17, <2>1, <2>2, <2>3, Undisturbed
<1>18. ASSUME NEW u \in Workers PROVE Planned(tx'[u]) /\ Fits(tx'[u], state', recWork', proj')
  <2>1. CASE u = w
    BY <1>3, <2>1, IdleFits
  <2>2. CASE u # w
    <3> DEFINE f == tx[u]
    <3>1. tx'[u] = f /\ Planned(f) /\ Fits(f, state, recWork, proj)
      BY <1>3, <2>2 DEF WInv
    <3>2. Fits(f, state', recWork', proj')
      <4> SUFFICES ASSUME Projects(f), f.pc = "commit", f.changed,
                          Settles(f.work, OtherEvents(f), state', recWork')
                   PROVE  Right(proj'[f.work], f.plan, RevsWith(f, state'))
        BY DEF Fits
      <4>1. f.work \in Works /\ f.work # x
        BY <1>1, <2>2 DEF WInv, BInv, PInv, Sound, Apart
      <4>2. OtherEvents(f) \in SUBSET Events
        BY DEF OtherEvents
      <4> HIDE DEF f
      <4>3. /\ Settles(f.work, OtherEvents(f), state, recWork)
            /\ RevsIn(f.work, OtherEvents(f), state') = RevsIn(f.work, OtherEvents(f), state)
        BY <1>17, <4>1, <4>2
      <4>4. proj'[f.work] = proj[f.work]
        BY <1>12, <4>1
      <4> QED BY <3>1, <4>3, <4>4 DEF Fits, RevsWith
    <3> QED BY <3>1, <3>2
  <2> QED BY <2>1, <2>2
<1>19. ASSUME NEW y \in Works, Settles(y, Events, state', recWork')
       PROVE  Shows(proj'[y], RevsIn(y, Events, state'))
  <2>1. CASE y # x \/ ~t.changed
    <3>1. /\ Settles(y, Events, state, recWork)
          /\ RevsIn(y, Events, state') = RevsIn(y, Events, state)
      BY <1>17, <1>19, <2>1
    <3>2. proj'[y] = proj[y]
      BY <1>10, <1>12, <2>1
    <3> QED BY <3>1, <3>2 DEF WInv
  <2>2. CASE y = x /\ t.changed
    <3>1. OtherEvents(t) \in SUBSET Events /\ e \notin OtherEvents(t)
      BY DEF OtherEvents
    <3>2. Settles(x, OtherEvents(t), state', recWork')
      BY <1>19, <2>2, <3>1 DEF Settles
    <3>3. /\ Settles(x, OtherEvents(t), state, recWork)
          /\ RevsIn(x, OtherEvents(t), state') = RevsIn(x, OtherEvents(t), state)
      BY <1>1, <1>17, <3>1, <3>2
    <3>4. Right(proj[x], t.plan, RevsWith(t, state))
      BY <1>1, <2>2, <3>3 DEF Fits
    <3>5. RevsIn(x, Events, state') = RevsWith(t, state)
      <4>1. OtherEvents(t) = Events \ {e}
        BY DEF OtherEvents
      <4>2. OwnRevs(t) = {rev \in {new} : rev.scope = "included"}
        BY DEF OwnRevs, new
      <4>3. state'[e] = new /\ e \in Events
        BY <1>1, <1>7, <2>2
      <4>4. RevsIn(x, Events, state') = RevsIn(x, Events \ {e}, state') \cup {rev \in {new} : rev.scope = "included"}
        <5> HIDE DEF e, x, r
        <5> QED BY <1>5, <4>3 DEF RevsIn
      <4> QED BY <3>3, <4>1, <4>2, <4>4 DEF RevsWith
    <3>6. Right(proj[x], t.plan, RevsWith(t, state)) => Shows(proj'[x], RevsWith(t, state))
      <4> DEFINE revs == RevsWith(t, state)
      <4> HIDE DEF revs
      <4>1. CASE revs = {} /\ t.plan = Clear
        BY <1>12, <4>1 DEF Shows, revs
      <4>2. ASSUME NEW win, Newest(win, revs), t.plan = Keep, proj[x] = ShownRow(win)
            PROVE  Shows(proj'[x], revs)
        BY <1>1, <1>12, <4>2 DEF Shows
      <4>3. ASSUME NEW win, Newest(win, revs), t.plan = Write(win)
            PROVE  Shows(proj'[x], revs)
        BY <1>12, <4>3 DEF Shows
      <4> QED BY <4>1, <4>2, <4>3 DEF Right, revs
    <3> QED BY <2>2, <3>4, <3>5, <3>6
  <2> QED BY <2>1, <2>2
<1> QED BY <1>12, <1>13, <1>14, <1>15, <1>16, <1>18, <1>19 DEF WInv

LEMMA InitShows == ASSUME Init, BInv PROVE WInv
<1>1. \A w \in Workers : tx[w] = Idle
  BY DEF Init
<1>2. \A w \in Workers : Planned(tx[w]) /\ Fits(tx[w], state, recWork, proj)
  BY <1>1, IdleFits
<1>3. /\ \A e \in Events : state[e] = None
      /\ \A r \in Raws : recWork[r] = None
      /\ \A x \in Works : proj[x] = None
  BY DEF Init
<1>4. RanksAreBounded(state) /\ 0 \in Nat
  BY <1>3 DEF RanksAreBounded
<1>5. \A x \in Works : Shows(proj[x], RevsIn(x, Events, state))
  BY <1>3 DEF Shows, RevsIn
<1>6. /\ StatesAreBacked(state, recWork) /\ RecordsHaveWorks(recWork, canon)
      /\ ContentIsShown(proj, content, canon)
  BY <1>3 DEF StatesAreBacked, RecordsHaveWorks, ContentIsShown
<1>7. proj \in [Works -> Shown \cup {None}] /\ content \in [Works -> Raws \cup {None}]
  BY DEF Init
<1> QED BY <1>2, <1>4, <1>5, <1>6, <1>7 DEF WInv

\* What WInv says of the works that are settled.
LEMMA SettledIsCurrent ==
  ASSUME WInv, NEW x \in Works, Settles(x, Events, state, recWork)
  PROVE  Current(x)
<1> DEFINE revs == Candidates(x, state, asserted)
<1>1. revs = RevsIn(x, Events, state)
  <2>1. \A e \in Events : (state[e] # None /\ state[e].work = x /\ state[e].scope = "included")
          => asserted[state[e].raw][state[e].ver] = x
    BY DEF WInv, BInv, IncludedIsBacked
  <2>2. {f \in Events : state[f] # None /\ state[f].work = x /\ state[f].scope = "included"
                        /\ ~state[f].deleted /\ asserted[state[f].raw][state[f].ver] = x}
        = {f \in Events : state[f] # None /\ state[f].work = x /\ state[f].scope = "included"
                          /\ ~state[f].deleted}
    BY <2>1
  <2> QED BY <2>2 DEF Candidates, RevsIn
<1> HIDE DEF revs
<1>2. Shows(proj[x], revs)
  BY <1>1 DEF WInv
<1>3. CASE revs = {} /\ proj[x] = None
  BY <1>3 DEF Current, revs
<1>4. ASSUME NEW win, Newest(win, revs), proj[x] = ShownRow(win) PROVE Current(x)
  <2>1. win \in Revisions
    BY <1>1, <1>4 DEF Newest, RevsIn, WInv, BInv, PInv, DbType
  <2>2. proj[x] \in Shown /\ proj[x].raw = win.raw
    BY <1>4, <2>1 DEF ShownRow, Shown, Revisions
  <2>3. content[x] = win.raw
    <3>1. proj[x] # None
      BY ONLY <2>2, NoneIsApart
    <3> QED BY <2>2, <3>1 DEF WInv, ContentIsShown
  <2> QED BY <1>4, <2>3 DEF Newest, ShownRow, Current, revs
<1> QED BY <1>2, <1>3, <1>4 DEF Shows

\* Whatever transactions run side by side, and whatever was withdrawn before,
\* a work whose records all belong to events that still name it and are neither
\* excluded nor deleted shows its newest included revision
\* (IncludedWorksAreCurrent), even while transactions are open.
THEOREM SettledWorksAreCurrent == Spec => []IncludedWorksAreCurrent
<1>1. Init => BInv
  BY InitBacks
<1>2. BInv /\ [Next]_vars => BInv'
  BY StepBacks
<1>3. Init => WInv
  BY <1>1, InitShows
<1>4. WInv /\ [Next]_vars => WInv'
  <2> SUFFICES ASSUME WInv, [Next]_vars PROVE WInv'
    OBVIOUS
  <2>1. BInv'
    BY <1>2 DEF WInv
  <2>2. CASE UNCHANGED vars
    <3>1. UNCHANGED <<tx, canon, recWork, state, proj, content>>
      BY <2>2 DEF vars
    <3> QED BY <2>1, <3>1 DEF WInv
  <2>3. CASE Next
    BY <2>1, <2>3, BeforeCommitShows, SelectWinnerShows, ExcludeShows, CommitDeletionShows,
       CommitProjectShows DEF Next, Step, Waiting
  <2> QED BY <2>2, <2>3
<1>5. WInv => IncludedWorksAreCurrent
  <2> SUFFICES ASSUME WInv, NEW x \in Works,
                      \A r \in Raws : recWork[r] = x =>
                        state[Event(r)].work = x /\ state[Event(r)].scope # "excluded"
               PROVE  Current(x)
    BY DEF IncludedWorksAreCurrent
  <2>1. Settles(x, Events, state, recWork)
    BY DEF Settles
  <2> QED BY <2>1, SettledIsCurrent
<1> QED BY <1>3, <1>4, <1>5, PTL DEF Spec
=============================================================================
