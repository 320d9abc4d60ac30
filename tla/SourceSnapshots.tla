-------------------------- MODULE SourceSnapshots --------------------------
(***************************************************************************)
(* The immutable inputs of ingestion, shared by the modules about what an  *)
(* event writes: raw snapshots of source events (internal/ingestion        *)
(* envelope.go), the controlled identifiers they carry, and the verdicts   *)
(* of the scope policy.                                                    *)
(***************************************************************************)
EXTENDS Naturals, FiniteSets

CONSTANTS
  Raws,        \* raw snapshots, one per (source, event key, kind, hash)
  Events,      \* (logical source, event key) pairs
  Ids,         \* controlled identifiers "scheme:value"
  Works,       \* ids a row of works may get
  Versions,    \* policy versions a job may run under
  Snapshot,    \* Raws -> [event, rank, kind, ids, identity]
  Verdict,     \* Versions -> [Raws -> scope status]
  Priority,    \* Ids -> identityPriority of the scheme
  Order,       \* Ids -> place in the order identifiers are sorted by
  None

\* Scope statuses of a decision.
Scopes == {"included", "pending", "excluded"}

\* A row of ingestion_source_states: the current revision of one event.
Revisions == [raw : Raws, work : Works \cup {None}, scope : Scopes,
              ver : Versions, deleted : BOOLEAN]

\* A row of work_projection_states: the revision a work shows.
Shown == [raw : Raws, ver : Versions]

\* The tuple (source time, tie-break key, position, raw id) orders snapshots
\* totally: here its place in that order.
SnapshotsAssumption ==
  /\ Snapshot \in [Raws -> [event : Events, rank : Nat, kind : {"upsert", "delete"},
                            ids : SUBSET Ids, identity : Ids \cup {None}]]
  /\ Verdict \in [Versions -> [Raws -> Scopes]]
  /\ Priority \in [Ids -> Nat]
  /\ Order \in [Ids -> Nat]
  /\ \A i, j \in Ids : Order[i] = Order[j] => i = j
  /\ \A r, s \in Raws : Snapshot[r].rank = Snapshot[s].rank => r = s
  /\ \A r \in Raws : Snapshot[r].kind = "upsert" => Snapshot[r].identity \in Ids
  /\ None \notin Ids \cup Works \cup Versions \cup Raws \cup Revisions \cup Shown

ASSUME SnapshotsAssumption

Event(r) == Snapshot[r].event
Rank(r) == Snapshot[r].rank
IsUpsert(r) == Snapshot[r].kind = "upsert"
Identity(r) == Snapshot[r].identity

\* The row an upsert under version v proposes.
Included(r, v, x) ==
  [raw |-> r, work |-> x, scope |-> Verdict[v][r], ver |-> v, deleted |-> FALSE]

\* Exclude proposes no work, ApplyDeletion the work it found (x, maybe None).
Excluded(r, v) ==
  [raw |-> r, work |-> None, scope |-> "excluded", ver |-> v, deleted |-> FALSE]

Deleted(r, v, x) ==
  [raw |-> r, work |-> x, scope |-> "excluded", ver |-> v, deleted |-> TRUE]
=============================================================================
