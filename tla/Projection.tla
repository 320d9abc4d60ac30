----------------------------- MODULE Projection -----------------------------
(***************************************************************************)
(* The write transactions of PostgresRepository: Normalize, Exclude,       *)
(* Project and ApplyDeletion, run by several workers under READ COMMITTED. *)
(*                                                                         *)
(* A transaction is a record tx[w]: the locks it holds, what it read and   *)
(* what it will write.  Its writes become visible in one step, Commit; an  *)
(* aborted transaction (cancelled, crashed, refused) leaves no trace.  The *)
(* locks are advisory locks on the event and on each identifier, and row   *)
(* locks on the event's source state and on the work.                      *)
(***************************************************************************)
EXTENDS SourceSnapshots

CONSTANT Workers

VARIABLES
  tx,          \* per worker: its current handler
  normal,      \* ingestion_normalized_records: snapshot -> policy version
  identOf,     \* external_identifiers: identifier -> work
  canon,       \* works.canonical_key: None while there is no such work
  recWork,     \* source_record_works: snapshot -> work
  asserted,    \* ingestion_projection_assertions: (snapshot, version) -> work
  state,       \* ingestion_source_states: event -> current revision
  proj,        \* work_projection_states: work -> [raw, ver]
  content      \* snapshot whose fields the row of the work shows

dbVars == <<normal, identOf, canon, recWork, asserted, state, proj, content>>
vars == <<tx, normal, identOf, canon, recWork, asserted, state, proj, content>>

\* What applyWinningProjection decided: nothing to do, delete the row, write it.
Keep == [do |-> "keep", raw |-> None, ver |-> None]
Clear == [do |-> "clear", raw |-> None, ver |-> None]
Write(win) == [do |-> "write", raw |-> win.raw, ver |-> win.ver]

Handler(pc, r, v) ==
  [pc |-> pc, raw |-> r, ver |-> v, held |-> {}, work |-> None,
   row |-> FALSE, changed |-> FALSE, plan |-> Keep]

Idle == Handler("idle", None, None)
Rejected == Handler("rejected", None, None)

Busy(w) == tx[w].pc \notin {"idle", "rejected"}

(***************************************************************************)
(* Locks.                                                                  *)
(***************************************************************************)
InTransaction(w) == tx[w].pc \in {"lock", "select", "commit"}

\* Another transaction holds the advisory lock of event e.
EventLocked(w, e) ==
  \E v \in Workers \ {w} : InTransaction(v) /\ Event(tx[v].raw) = e

\* Another transaction holds the source state row of event e.
RowLocked(w, e) ==
  \E v \in Workers \ {w} : InTransaction(v) /\ Event(tx[v].raw) = e /\ tx[v].row

IdLocked(w, i) == \E v \in Workers \ {w} : i \in tx[v].held

\* Only Project locks the row of a work before it is about to write it.
WorkLocked(w, x) ==
  \E v \in Workers \ {w} : InTransaction(v) /\ IsUpsert(tx[v].raw) /\ tx[v].work = x

(***************************************************************************)
(* Operators of the SQL.                                                   *)
(***************************************************************************)
\* controlledIdentifiers: the record's identifiers and its identity.
ControlledIds(r) == Snapshot[r].ids \cup {Identity(r)}

\* COALESCE(EXCLUDED.work_id, work_id).
Coalesced(new) ==
  LET old == state[Event(new.raw)] IN
  IF old = None \/ new.work # None THEN new ELSE [new EXCEPT !.work = old.work]

\* The WHERE clause of upsertSourceState.
\* Slip: the newest write wins, not the newest revision.
LastWriteReplaces(new) == state[Event(new.raw)] # new
Replaces(new) ==
  LET old == state[Event(new.raw)] IN
  \/ old = None
  \/ Rank(new.raw) > Rank(old.raw)
  \/ new.raw = old.raw /\ Coalesced(new) # old

\* The row worker w proposes for its event.
Proposed(w) ==
  LET r == tx[w].raw IN
  IF IsUpsert(r) THEN Included(r, tx[w].ver, tx[w].work)
                 ELSE Deleted(r, tx[w].ver, tx[w].work)

\* The states and assertions transaction w sees: committed ones and its own.
SeenState(w) ==
  IF tx[w].changed
  THEN [state EXCEPT ![Event(tx[w].raw)] = Coalesced(Proposed(w))]
  ELSE state

SeenAsserted(w) ==
  IF IsUpsert(tx[w].raw)
  THEN [asserted EXCEPT ![tx[w].raw][tx[w].ver] = tx[w].work]
  ELSE asserted

\* The revisions that may win the projection of work x.
Candidates(x, st, as) ==
  {st[e] : e \in {f \in Events :
     /\ st[f] # None
     /\ st[f].work = x
     /\ st[f].scope = "included"
     /\ ~st[f].deleted
     /\ as[st[f].raw][st[f].ver] = x}}

\* ORDER BY source_time, tie_break_key, position, raw_event_id DESC LIMIT 1.
NewestOf(revs) == CHOOSE n \in revs : \A m \in revs : Rank(n.raw) >= Rank(m.raw)

Plan(x, st, as) ==
  LET revs == Candidates(x, st, as)
      win == NewestOf(revs)
  IN IF revs = {} THEN Clear
     ELSE IF proj[x] = [raw |-> win.raw, ver |-> win.ver] THEN Keep
     ELSE Write(win)

(***************************************************************************)
(* Handlers.                                                               *)
(***************************************************************************)
\* A job hands a snapshot to its worker: any snapshot, at any time, again.
Deliver(w) ==
  /\ ~Busy(w)
  /\ \E r \in Raws, v \in Versions :
       tx' = [tx EXCEPT ![w] = Handler(IF IsUpsert(r) THEN "normalize" ELSE "begin", r, v)]
  /\ UNCHANGED dbVars

\* One transaction; the service passes the scope policy version as the
\* normalization policy version.
Normalize(w) ==
  LET r == tx[w].raw  v == tx[w].ver IN
  /\ tx[w].pc = "normalize"
  /\ \/ /\ normal[r] \in {None, v}
        /\ normal' = [normal EXCEPT ![r] = v]
        /\ tx' = [tx EXCEPT ![w].pc =
                    IF Verdict[v][r] = "excluded" THEN "exclude" ELSE "begin"]
     \/ /\ normal[r] \notin {None, v}
        /\ tx' = [tx EXCEPT ![w] = Rejected]
        /\ UNCHANGED normal
  /\ UNCHANGED <<identOf, canon, recWork, asserted, state, proj, content>>

\* One transaction that takes only the row lock of the source state.
Exclude(w) ==
  LET new == Excluded(tx[w].raw, tx[w].ver)  e == Event(tx[w].raw) IN
  /\ tx[w].pc = "exclude"
  /\ ~RowLocked(w, e)
  /\ state' = IF Replaces(new) THEN [state EXCEPT ![e] = Coalesced(new)] ELSE state
  /\ tx' = [tx EXCEPT ![w] = Idle]
  /\ UNCHANGED <<normal, identOf, canon, recWork, asserted, proj, content>>

\* lockSourceState of Project: the advisory lock, and the row if there is one.
BeginProject(w) ==
  LET e == Event(tx[w].raw) IN
  /\ tx[w].pc = "begin"
  /\ IsUpsert(tx[w].raw)
  /\ ~EventLocked(w, e)
  /\ tx' = [tx EXCEPT ![w].pc = "lock", ![w].row = state[e] # None]
  /\ UNCHANGED dbVars

\* The identifiers are locked one by one, in sorted order.
\* Slip: in map order.
NextIds(w) == ControlledIds(tx[w].raw) \ tx[w].held
NextId(w) ==
  {i \in ControlledIds(tx[w].raw) \ tx[w].held :
     \A j \in ControlledIds(tx[w].raw) \ tx[w].held : Order[i] <= Order[j]}

LockIdentifier(w) ==
  /\ tx[w].pc = "lock"
  /\ \E i \in NextId(w) :
       /\ ~IdLocked(w, i)
       /\ tx' = [tx EXCEPT ![w].held = @ \cup {i}]
  /\ UNCHANGED dbVars

\* The works that already own an identifier of snapshot r.
Named(r) == {identOf[i] : i \in ControlledIds(r)} \ {None}

\* Ids of works neither used nor taken by an open transaction.
FreshWorks(w) ==
  {x \in Works : canon[x] = None /\ \A v \in Workers \ {w} : tx[v].work # x}

\* Works the snapshot may join: the one its identifiers name, once its row is
\* locked, or a new one.
\* Slip: the row of the work is read without FOR UPDATE.
JoinableUnlocked(w) ==
  IF Named(tx[w].raw) = {} THEN FreshWorks(w) ELSE Named(tx[w].raw)
Joinable(w) ==
  IF Named(tx[w].raw) = {} THEN FreshWorks(w)
  ELSE {x \in Named(tx[w].raw) : ~WorkLocked(w, x)}

\* A snapshot that names two works, or that is on record with another one.
Conflicting(r, v, x) ==
  \/ Named(r) \ {x} # {}
  \/ recWork[r] \notin {None, x}
  \/ asserted[r][v] \notin {None, x}

\* resolveWork to upsertSourceState: nothing is visible yet, but the row of
\* the source state is locked from here on.
ResolveWork(w) ==
  LET r == tx[w].raw  v == tx[w].ver IN
  /\ tx[w].pc = "lock"
  /\ tx[w].held = ControlledIds(r)
  /\ \E x \in Joinable(w) :
       tx' = [tx EXCEPT ![w] =
                IF Conflicting(r, v, x) THEN Idle
                ELSE LET changed == Replaces(Included(r, v, x)) IN
                     [@ EXCEPT !.pc = IF changed THEN "select" ELSE "commit",
                               !.work = x, !.row = TRUE, !.changed = changed]]
  /\ UNCHANGED dbVars

\* lockSourceState and upsertSourceState of ApplyDeletion.
BeginDeletion(w) ==
  LET r == tx[w].raw
      e == Event(r)
      x == IF state[e] = None THEN None ELSE state[e].work
      changed == Replaces(Deleted(r, tx[w].ver, x))
  IN
  /\ tx[w].pc = "begin"
  /\ ~IsUpsert(r)
  /\ ~EventLocked(w, e)
  /\ tx' = [tx EXCEPT ![w].pc = IF changed /\ x # None THEN "select" ELSE "commit",
                      ![w].work = x, ![w].row = TRUE, ![w].changed = changed]
  /\ UNCHANGED dbVars

\* The two SELECTs of applyWinningProjection.
SelectWinner(w) ==
  /\ tx[w].pc = "select"
  /\ tx' = [tx EXCEPT ![w].pc = "commit",
                      ![w].plan = Plan(tx[w].work, SeenState(w), SeenAsserted(w))]
  /\ UNCHANGED dbVars

\* The rest of applyWinningProjection: work_projection_states and the work.
Applied(x, plan, shown) ==
  /\ proj' = CASE plan.do = "keep"  -> proj
               [] plan.do = "clear" -> [proj EXCEPT ![x] = None]
               [] plan.do = "write" ->
                    [proj EXCEPT ![x] = [raw |-> plan.raw, ver |-> plan.ver]]
  /\ content' = IF plan.do = "write" THEN [content EXCEPT ![x] = plan.raw] ELSE shown

Stored(w) ==
  state' = IF tx[w].changed
           THEN [state EXCEPT ![Event(tx[w].raw)] = Coalesced(Proposed(w))]
           ELSE state

\* resolveWork: a new work takes the identity, an old one a stronger identity.
KeyOf(x, i) ==
  IF canon[x] = None \/ Priority[i] < Priority[canon[x]] THEN i ELSE canon[x]

\* associateSourceRecord and the projection assertion.
\* Slip: a record is associated only when its work is new.
AssociatedWhenNew(r, v, x) ==
  /\ recWork' = IF canon[x] = None THEN [recWork EXCEPT ![r] = x] ELSE recWork
  /\ asserted' = [asserted EXCEPT ![r][v] = x]
Associated(r, v, x) ==
  /\ recWork' = [recWork EXCEPT ![r] = x]
  /\ asserted' = [asserted EXCEPT ![r][v] = x]

CommitProject(w) ==
  LET r == tx[w].raw  x == tx[w].work IN
  /\ tx[w].pc = "commit"
  /\ IsUpsert(r)
  /\ canon' = [canon EXCEPT ![x] = KeyOf(x, Identity(r))]
  /\ identOf' = [i \in Ids |->
                   IF i \in ControlledIds(r) /\ identOf[i] = None THEN x ELSE identOf[i]]
  /\ Associated(r, tx[w].ver, x)
  /\ Stored(w)
  /\ Applied(x, tx[w].plan,
             IF canon[x] = None THEN [content EXCEPT ![x] = r] ELSE content)
  /\ tx' = [tx EXCEPT ![w] = Idle]
  /\ UNCHANGED normal

\* A fallback winner is written to the row of the work: that waits for the
\* projection that has locked it, and then goes on with the winner it chose.
CommitDeletion(w) ==
  LET r == tx[w].raw  x == tx[w].work IN
  /\ tx[w].pc = "commit"
  /\ ~IsUpsert(r)
  /\ tx[w].plan.do = "write" => ~WorkLocked(w, x)
  /\ Stored(w)
  /\ Applied(x, tx[w].plan, content)
  /\ tx' = [tx EXCEPT ![w] = Idle]
  /\ UNCHANGED <<normal, identOf, canon, recWork, asserted>>

\* A cancelled context, a crash or a database error rolls everything back.
Abort(w) ==
  /\ Busy(w)
  /\ tx' = [tx EXCEPT ![w] = Idle]
  /\ UNCHANGED dbVars

(***************************************************************************)
(* The specification.                                                      *)
(***************************************************************************)
Init ==
  /\ tx = [w \in Workers |-> Idle]
  /\ normal = [r \in Raws |-> None]
  /\ identOf = [i \in Ids |-> None]
  /\ canon = [x \in Works |-> None]
  /\ recWork = [r \in Raws |-> None]
  /\ asserted = [r \in Raws |-> [v \in Versions |-> None]]
  /\ state = [e \in Events |-> None]
  /\ proj = [x \in Works |-> None]
  /\ content = [x \in Works |-> None]

\* The steps that may have to wait for a lock.
Waiting(w) ==
  \/ Exclude(w) \/ BeginProject(w) \/ LockIdentifier(w) \/ ResolveWork(w)
  \/ BeginDeletion(w) \/ CommitDeletion(w)

Step(w) == Normalize(w) \/ SelectWinner(w) \/ CommitProject(w) \/ Waiting(w)

Next == \E w \in Workers : Deliver(w) \/ Step(w) \/ Abort(w)

Spec == Init /\ [][Next]_vars

\* Handlers run on; PostgreSQL serves the waiters of a lock in turn.
Fairness ==
  \A w \in Workers :
    /\ WF_vars(Step(w))
    /\ SF_vars(Waiting(w))

FairSpec == Spec /\ Fairness

(***************************************************************************)
(* Safety.                                                                 *)
(***************************************************************************)
\* A current included revision is complete: normalized, associated with its
\* work and asserted under its policy version, as the publisher requires.
IncludedIsBacked ==
  \A e \in Events :
    (state[e] # None /\ state[e].scope = "included") =>
      /\ normal[state[e].raw] # None
      /\ state[e].work # None
      /\ recWork[state[e].raw] = state[e].work
      /\ asserted[state[e].raw][state[e].ver] = state[e].work

\* The projection of work x is the newest included revision of all logical
\* sources, and the work shows it.
Current(x) ==
  LET revs == Candidates(x, state, asserted) IN
  IF revs = {} THEN proj[x] = None
  ELSE \E win \in revs :
         /\ \A rev \in revs : Rank(win.raw) >= Rank(rev.raw)
         /\ proj[x] = [raw |-> win.raw, ver |-> win.ver]
         /\ content[x] = win.raw

Quiet == \A w \in Workers : ~InTransaction(w)

\* Whenever no write transaction is open, every work shows its newest included
\* revision.
WinnerIsCurrent == Quiet => \A x \in Works : Current(x)

\* The same for the works whose records belong to events that still name the
\* work and are neither excluded nor deleted, whatever was before: concurrent
\* projections never regress one another, and a record that comes back after
\* its deletion repairs what the deletion left.
IncludedWorksAreCurrent ==
  Quiet => \A x \in Works :
    (\A r \in Raws : recWork[r] = x =>
       state[Event(r)].work = x /\ state[Event(r)].scope # "excluded")
      => Current(x)

(***************************************************************************)
(* Refinement.                                                             *)
(***************************************************************************)
\* The interleaved transactions do what transactions run one by one would do
\* to identifiers, works, records and current revisions.
Ledger == INSTANCE SourceLedger
            WITH identOf <- identOf, canon <- canon, recWork <- recWork, state <- state
ImplementsLedger == Ledger!Spec

(***************************************************************************)
(* Liveness, under Fairness.                                               *)
(***************************************************************************)
\* No handler waits for a lock for ever: event, identifiers and works are
\* locked in one global order.
HandlersEnd == \A w \in Workers : Busy(w) ~> ~Busy(w)
=============================================================================
