---------------------------- MODULE PublicCatalog ----------------------------
(***************************************************************************)
(* Publication of catalog generations and keyset paging through them:      *)
(* internal/catalog/publisher.go, repository.go, papers.go and             *)
(* migrations/000007_public_catalog.sql.                                   *)
(*                                                                         *)
(* PostgreSQL's snapshots are lengths of two logs: `history`, the states   *)
(* of the source tables committed by the workers, and `published`, the     *)
(* commits of publishers. A transaction sees a prefix of each.             *)
(***************************************************************************)
EXTENDS Naturals, Sequences, FiniteSets

CONSTANTS
  Publishers,      \* processes that run the publish command
  Readers,         \* clients of the paper listing
  Keys,            \* canonical keys, a set of naturals ordered as the texts are
  Drafts,          \* what the visible records of a work may say of its sort column
  States,          \* states of the source tables the workers may commit
  Formulas,        \* values of PublishInput.FormulaVersion
  Filters,         \* filter contexts: each the set of keys it lets through
  Limit,           \* page size
  MaxChanges,      \* bound: states of the source tables
  MaxPublications, \* bound: committed publications
  None

(***************************************************************************)
(* The source tables as the publisher reads them: of each work nothing     *)
(* visible (deleted or excluded), something that is not ready, or a draft. *)
(***************************************************************************)
Hidden == [state |-> "hidden", value |-> 0]
Pending == [state |-> "pending", value |-> 0]       \* scope status pending
Incomplete == [state |-> "incomplete", value |-> 0] \* no normalized provenance

Sources == [Keys -> Drafts \cup {Hidden, Pending, Incomplete}]

ASSUME CatalogAssumption ==
  /\ Keys \subseteq Nat
  /\ Drafts \subseteq [state : {"known", "unknown", "missing"}, value : Nat]
  /\ \A d \in Drafts : d.state # "known" => d.value = 0
  /\ States \subseteq Sources
  /\ Filters \subseteq SUBSET Keys
  /\ Limit \in Nat \ {0} /\ MaxChanges \in Nat /\ MaxPublications \in Nat
  /\ None \notin Publishers

\* A table holds finitely many rows.
ASSUME TablesAreFinite ==
  \A s \in States : IsFiniteSet({k \in Keys : s[k] # Hidden})

VARIABLES
  history,         \* states of the source tables, oldest first
  published,       \* publications, oldest first; the last is the current one
  publisherLock,   \* holder of pg_advisory_xact_lock(publicCatalogPublisherLockID)
  pub,             \* PublishCurrent of each publisher
  reader           \* the listing each client is paging through

vars == <<history, published, publisherLock, pub, reader>>

NotReady(s) == \E k \in Keys : s[k] \in {Pending, Incomplete}
EmptyDomain(s) == \A k \in Keys : s[k] = Hidden

Visible(s) == {k \in Keys : s[k] \in Drafts}
Paper(k, draft) == [key |-> k, state |-> draft.state, value |-> draft.value]

\* The hash of snapshotRevision stands for what it is computed from.
Revision(formula, papers) == [formula |-> formula, papers |-> papers]

Generations(n) == {published[i].revision : i \in 1..n}
Current == IF published = <<>> THEN None ELSE published[Len(published)].revision

(***************************************************************************)
(* The listing order: known values descending, then unknown, then missing, *)
(* ties by canonical key.                                                  *)
(***************************************************************************)
StateRank(state) ==
  CASE state = "known" -> 0 [] state = "unknown" -> 1 [] OTHER -> 2

Listed(revision, filter) == {p \in revision.papers : p.key \in filter}

\* The row that comes first of two rows of the listing.
Precedes(p, q) ==
  \/ StateRank(p.state) < StateRank(q.state)
  \/ /\ p.state = q.state
     /\ \/ p.value > q.value
        \/ p.value = q.value /\ p.key < q.key

\* Slip: the cursor predicate compares values in every block.
AfterCursorByValue(cursor, p) ==
  \/ StateRank(p.state) > StateRank(cursor.state)
  \/ /\ p.state = cursor.state
     /\ p.value < cursor.value

\* The predicate numericCursorWhere adds to the WHERE clause.
AfterCursor(cursor, p) ==
  \/ StateRank(p.state) > StateRank(cursor.state)
  \/ /\ StateRank(p.state) = StateRank(cursor.state)
     /\ \/ /\ StateRank(cursor.state) = 0
           /\ \/ p.value < cursor.value
              \/ p.value = cursor.value /\ p.key > cursor.key
        \/ StateRank(cursor.state) # 0 /\ p.key > cursor.key

\* ORDER BY and LIMIT: the first n of a set of rows.
First(rows, n) ==
  {p \in rows : Cardinality({q \in rows : Precedes(q, p)}) < n}
Final(rows) == CHOOSE p \in rows : \A q \in rows : q = p \/ Precedes(q, p)

(***************************************************************************)
(* PublishCurrent.                                                         *)
(***************************************************************************)
\* sources and generations: what the snapshot shows of the logs; todo and papers:
\* the visible works without a paper so far, and the papers of the others.
NoPub == [pc |-> "idle", formula |-> None, sources |-> 0, generations |-> 0,
          todo |-> {}, papers |-> {}]

Init ==
  /\ history \in {<<s>> : s \in States}
  /\ published = <<>>
  /\ publisherLock = None
  /\ pub = [p \in Publishers |-> NoPub]
  /\ reader = [r \in Readers |->
                 [status |-> "idle", revision |-> None, filter |-> {},
                  cursor |-> None, seen |-> {}, delivered |-> 0, total |-> 0]]

\* A worker commits a change.
Change(s) ==
  /\ Len(history) < MaxChanges
  /\ s # history[Len(history)]
  /\ history' = Append(history, s)
  /\ UNCHANGED <<published, publisherLock, pub, reader>>

\* BeginTx; the SELECT of verifyPublisherTransaction takes the snapshot.
Begin(p, formula) ==
  /\ pub[p].pc = "idle"
  /\ Len(published) < MaxPublications
  /\ pub' = [pub EXCEPT ![p] = [NoPub EXCEPT !.pc = "lock",
                                             !.formula = formula,
                                             !.sources = Len(history),
                                             !.generations = Len(published)]]
  /\ UNCHANGED <<history, published, publisherLock, reader>>

Lock(p) ==
  /\ pub[p].pc = "lock"
  /\ publisherLock = None
  /\ publisherLock' = p
  /\ pub' = [pub EXCEPT ![p].pc = "load"]
  /\ UNCHANGED <<history, published, reader>>

Unlocked(p) == IF publisherLock = p THEN None ELSE publisherLock

\* Any error, a cancelled context or a crash: the transaction is rolled back.
Rollback(p) ==
  /\ pub[p].pc # "idle"
  /\ publisherLock' = Unlocked(p)
  /\ pub' = [pub EXCEPT ![p] = NoPub]
  /\ UNCHANGED <<history, published, reader>>

\* Slip: READ COMMITTED, where each query sees what is committed by then.
SeenCommitted(p) == history[Len(history)]

\* The state of the sources a query of the transaction sees.
Seen(p) == history[pub[p].sources]

\* buildCurrentSnapshot queries the source states and then, work by work, what
\* its paper is made of; workers commit in between.  Its errors are a Rollback.
LoadStates(p) ==
  /\ pub[p].pc = "load"
  /\ ~NotReady(Seen(p)) /\ ~EmptyDomain(Seen(p))
  /\ pub' = [pub EXCEPT ![p].pc = "build", ![p].todo = Visible(Seen(p))]
  /\ UNCHANGED <<history, published, publisherLock, reader>>

BuildPaper(p) ==
  /\ pub[p].pc = "build"
  /\ \E k \in pub[p].todo \cap Visible(Seen(p)) :
       pub' = [pub EXCEPT ![p].pc = IF pub[p].todo = {k} THEN "write" ELSE "build",
                          ![p].todo = @ \ {k},
                          ![p].papers = @ \cup {Paper(k, Seen(p)[k])}]
  /\ UNCHANGED <<history, published, publisherLock, reader>>

Built(p) == Revision(pub[p].formula, pub[p].papers)

\* Slip: what READ COMMITTED would let through.
WritableCommitted(p) == TRUE

\* A generation the snapshot shows is reused, else one is inserted, which the
\* unique source revision refuses when a later commit has it. The upsert of the
\* singleton fails when a later commit has written it (SQLSTATE 40001).
Writable(p) ==
  /\ \/ Built(p) \in Generations(pub[p].generations)
     \/ Built(p) \notin Generations(Len(published))
  /\ pub[p].generations = Len(published)

Write(p) ==
  /\ pub[p].pc = "write"
  /\ Writable(p)
  /\ pub' = [pub EXCEPT ![p].pc = "commit"]
  /\ UNCHANGED <<history, published, publisherLock, reader>>

\* The commit is applied; whether its answer arrives changes nothing here.
Commit(p) ==
  /\ pub[p].pc = "commit"
  /\ published' = Append(published, [revision |-> Built(p),
                                     sources |-> pub[p].sources])
  /\ publisherLock' = Unlocked(p)
  /\ pub' = [pub EXCEPT ![p] = NoPub]
  /\ UNCHANGED <<history, reader>>

(***************************************************************************)
(* Repository.Papers: one read-only snapshot transaction per page.         *)
(***************************************************************************)
NextCursor(page) ==
  LET last == Final(page) IN
  [state |-> last.state, value |-> last.value, key |-> last.key]

\* The limit + 1 rows of the query tell whether there is another page.
Page(r, filter, rows, seen, delivered) ==
  LET page == First(rows, Limit)
      more == rows # page
  IN reader' = [reader EXCEPT ![r] =
       [status |-> IF more THEN "more" ELSE "end",
        revision |-> Current,
        filter |-> filter,
        cursor |-> IF more THEN NextCursor(page) ELSE None,
        seen |-> seen \cup page,
        delivered |-> delivered + Cardinality(page),
        total |-> Cardinality(Listed(Current, filter))]]

\* A listing from its start; without a publication the answer is a 503.
ReadFirst(r, filter) ==
  /\ Current # None
  /\ Page(r, filter, Listed(Current, filter), {}, 0)
  /\ UNCHANGED <<history, published, publisherLock, pub>>

\* The check of boundCursor.
Bound(r, filter) ==
  /\ reader[r].revision = Current
  /\ reader[r].filter = filter

\* PostgreSQL casts the cursor's value to the type of the sort column
\* whatever block of the listing the cursor is in; '' is no number or time.
Castable(cursor) == cursor.state = "known"

ReadNext(r, filter) ==
  /\ reader[r].status = "more"
  /\ IF ~Bound(r, filter)
       THEN reader' = [reader EXCEPT ![r].status = "conflict"]
       ELSE IF ~Castable(reader[r].cursor)
       THEN reader' = [reader EXCEPT ![r].status = "failed"]
       ELSE Page(r, filter,
                 {p \in Listed(Current, filter) : AfterCursor(reader[r].cursor, p)},
                 reader[r].seen, reader[r].delivered)
  /\ UNCHANGED <<history, published, publisherLock, pub>>

Publish(p) ==
  \/ \E formula \in Formulas : Begin(p, formula)
  \/ Lock(p)
  \/ LoadStates(p)
  \/ BuildPaper(p)
  \/ Write(p)
  \/ Commit(p)
  \/ Rollback(p)

Read(r) == \E filter \in Filters : ReadFirst(r, filter) \/ ReadNext(r, filter)

Next ==
  \/ \E s \in States : Change(s)
  \/ \E p \in Publishers : Publish(p)
  \/ \E r \in Readers : Read(r)

Spec == Init /\ [][Next]_vars

(***************************************************************************)
(* Properties.                                                             *)
(***************************************************************************)
Rows == [key : Keys, state : {"known", "unknown", "missing"}, value : Nat]
Revisions == [formula : Formulas, papers : SUBSET Rows]
PubPcs == {"idle", "lock", "load", "build", "write", "commit"}

\* What is to be published of a state of the sources.
Papers(s) == {Paper(k, s[k]) : k \in Visible(s)}

(* The publisher must build from a state of the sources no older than what  *)
(* the current generation shows: publishers queue at the advisory lock with *)
(* a snapshot taken before they got there (publisher.go:195-200).           *)
PublicationsAreMonotone ==
  \A i, j \in 1..Len(published) :
    i < j => published[i].sources <= published[j].sources

(* What is published is one committed state of all source tables, none of   *)
(* it pending or without provenance and none older than the transaction,    *)
(* although workers commit between the queries of buildCurrentSnapshot: no  *)
(* publication mixes papers from before and after a change.                 *)
PublicationsAreTrue ==
  \A i \in 1..Len(published) :
    \E n \in published[i].sources..Len(history) :
      ~NotReady(history[n]) /\ published[i].revision.papers = Papers(history[n])

(* The pages a client has read by following cursors are an initial segment  *)
(* of the listing of one generation and one filter, each row once, whatever *)
(* was published between the pages (repository.go boundCursor).  A listing  *)
(* whose last page has no cursor has shown all rows, as many as the total   *)
(* of its pages says (papers.go: list and total are two queries).           *)
ListingsAreExact ==
  \A r \in Readers :
    LET read == reader[r]  listed == Listed(read.revision, read.filter) IN
    /\ read.status # "idle" =>
         /\ read.seen \subseteq listed
         /\ \A p \in listed, q \in read.seen : Precedes(p, q) => p \in read.seen
         /\ read.delivered = Cardinality(read.seen)
    /\ read.status = "end" => read.seen = listed /\ read.delivered = read.total

(* The next_cursor of a page is a cursor for the next page                  *)
(* (contracts/openapi.yaml:1309): followed in the same generation and       *)
(* filter, it brings rows the client has not got yet, whatever block of the *)
(* listing the page ended in.                                               *)
NextCursorsAreServed ==
  [][\A r \in Readers, filter \in Filters :
       (ReadNext(r, filter) /\ Bound(r, filter)) =>
         reader'[r].delivered > reader[r].delivered]_vars
==============================================================================
