---------------------------- MODULE SourceLedger ----------------------------
(***************************************************************************)
(* What the projection transactions promise, as if each ran alone: every   *)
(* event has one current revision, its newest; every controlled identifier *)
(* names at most one work, for ever; a work is known by the strongest      *)
(* identity any of its records offered.  Module Projection implements it   *)
(* with interleaved transactions under READ COMMITTED.                     *)
(***************************************************************************)
EXTENDS SourceSnapshots

VARIABLES
  identOf,     \* external_identifiers: identifier -> work
  canon,       \* works.canonical_key: None while there is no such work
  recWork,     \* source_record_works: snapshot -> work
  state        \* ingestion_source_states: event -> current revision

ledgerVars == <<identOf, canon, recWork, state>>

AllIds(r) == Snapshot[r].ids \cup {Identity(r)}

\* The revision that stands after new is offered for its event.
Newest(new) ==
  LET old == state[Event(new.raw)] IN
  IF old = None THEN new
  ELSE IF Rank(new.raw) < Rank(old.raw) THEN old
  ELSE [new EXCEPT !.work = IF new.work = None THEN old.work ELSE new.work]

Offer(new) == state' = [state EXCEPT ![Event(new.raw)] = Newest(new)]

\* A record joins the one work its identifiers name, or founds a new one.
Record(r, v) ==
  /\ IsUpsert(r)
  /\ \E x \in Works :
       LET named == {identOf[i] : i \in AllIds(r)} \ {None} IN
       /\ named = {x} \/ (named = {} /\ canon[x] = None)
       /\ identOf' = [i \in Ids |-> IF i \in AllIds(r) THEN x ELSE identOf[i]]
       /\ \E key \in {canon[x], Identity(r)} \ {None} :
            /\ \A other \in {canon[x], Identity(r)} \ {None} :
                 Priority[key] <= Priority[other]
            /\ canon' = [canon EXCEPT ![x] = key]
       /\ recWork' = [recWork EXCEPT ![r] = x]
       /\ Offer(Included(r, v, x))

Exclude(r, v) ==
  /\ IsUpsert(r)
  /\ Offer(Excluded(r, v))
  /\ UNCHANGED <<identOf, canon, recWork>>

\* A deletion keeps the work its event was last known by.
Delete(r, v) ==
  /\ ~IsUpsert(r)
  /\ Offer(Deleted(r, v, None))
  /\ UNCHANGED <<identOf, canon, recWork>>

Init ==
  /\ identOf = [i \in Ids |-> None]
  /\ canon = [x \in Works |-> None]
  /\ recWork = [r \in Raws |-> None]
  /\ state = [e \in Events |-> None]

Next == \E r \in Raws, v \in Versions : Record(r, v) \/ Exclude(r, v) \/ Delete(r, v)

Spec == Init /\ [][Next]_ledgerVars

(***************************************************************************)
(* What follows from it (SourceLedgerProofs), for Projection as well.      *)
(***************************************************************************)
\* Records converge: every identifier of an associated record, its identity
\* included, names the record's work, so sources that share one identifier
\* share the work (resolveWork, persistExternalIdentifiers).
RecordsConverge ==
  \A r \in Raws : recWork[r] # None => \A i \in AllIds(r) : identOf[i] = recWork[r]

\* The canonical key of a work is one of its own identifiers, so no two works
\* claim one key, and no record of the work offered a stronger identity.
CanonicalKeyIsStrongest ==
  /\ \A x \in Works : canon[x] # None => identOf[canon[x]] = x
  /\ \A r \in Raws : recWork[r] # None =>
       /\ canon[recWork[r]] # None
       /\ Priority[canon[recWork[r]]] <= Priority[Identity(r)]

\* What other rows refer to never moves: the work of an identifier and of a
\* record, and no work loses its key.
LinksAreImmutable ==
  [][/\ \A i \in Ids : identOf[i] # None => identOf'[i] = identOf[i]
     /\ \A r \in Raws : recWork[r] # None => recWork'[r] = recWork[r]
     /\ \A x \in Works : canon[x] # None => canon'[x] # None]_ledgerVars

\* The revision of an event only gets newer and its work is never forgotten,
\* in whatever order snapshots arrive (the WHERE clause and the COALESCE of
\* upsertSourceState).
RevisionsAdvance ==
  [][\A e \in Events : state[e] # None =>
       /\ state'[e] # None
       /\ Rank(state'[e].raw) >= Rank(state[e].raw)
       /\ state[e].work # None => state'[e].work # None]_ledgerVars
=============================================================================
