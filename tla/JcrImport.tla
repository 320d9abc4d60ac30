----------------------------- MODULE JcrImport -----------------------------
(***************************************************************************)
(* The import of JCR metric files, internal/venue: JCRImporter.Import of   *)
(* jcr_import.go and PersistJCRImport of postgres_store.go, one process    *)
(* per importer against one database under READ COMMITTED.                 *)
(*                                                                         *)
(* A file is a sequence of rows after trimming; a JIF is its value (module *)
(* JournalRules has the decimals).  A transaction's own inserts are in its *)
(* record until it commits.  A stored row is never changed, so the INSERT  *)
(* that meets one and the SELECT that reads it back are one step, and the  *)
(* "no row is visible" and "counts are inconsistent" errors have no step:  *)
(* each line is counted once, which JcrLedger's receipts say too.          *)
(***************************************************************************)
EXTENDS Naturals, Sequences, FiniteSets

CONSTANTS
  Importers,   \* processes that run the import command
  Files,       \* files, by SHA-256
  Content,     \* file -> its rows
  Licenses,    \* process -> what its JCR_SOURCE_LICENSE may be
  Venues,
  ISSNs,
  VenueISSNs,  \* venue -> its ISSNs, of any role
  Metrics,     \* year and category
  Titles,
  Sources,
  KeyRank,     \* the order of MetricKey.String
  AliasLock,   \* the 32-bit advisory key of an alias; two aliases may share one
  MaxRows,     \* JCRImportLimits
  MaxRuns,     \* bound: imports of each process
  MaxFaults,   \* bound: crashes, cancellations, lost connections and answers
  None

Keys == Venues \X Metrics
Aliases == Venues \X Titles \X Sources
Quartiles == {"Q1", "Q2", "Q3", "Q4"}

Rows == [issns : SUBSET ISSNs, metric : Metrics, status : STRING, jif : Nat \cup {None},
         quartile : STRING \cup {None}, source : Sources, title : Titles \cup {None}]

\* venue_metric_snapshots: what a file says of a key under a licence, and the
\* file that said it first.
Facts == [status : STRING, jif : Nat \cup {None}, quartile : STRING \cup {None},
          source : Sources, license : STRING]
StoredRows == [fact : Facts, file : Files]

\* jcr_import_receipts with the links of each line to its row.
Receipts == [links : UNION {[DOMAIN Content[f] -> Keys] : f \in Files},
             aliases : SUBSET Aliases, input : Nat, inserted : Nat, unchanged : Nat]

\* What an import returns: the receipt, or an error.
Outcomes == {"stored", "conflict", "invalid", "no_match", "ambiguous", "failed"}

\* KeyRank is an order of the keys; None is NULL, and no value of a column.
ASSUME JcrAssumption ==
  /\ Content \in [Files -> Seq(Rows)]
  /\ Licenses \in [Importers -> SUBSET STRING]
  /\ KeyRank \in [Keys -> Nat]
  /\ \A k, m \in Keys : KeyRank[k] = KeyRank[m] => k = m
  /\ AliasLock \in [Aliases -> Nat]
  /\ MaxRows \in Nat /\ MaxRuns \in [Importers -> Nat] /\ MaxFaults \in Nat
  /\ VenueISSNs \in [Venues -> SUBSET ISSNs]
  /\ None \notin Files \cup Nat \cup Facts \cup StoredRows \cup Receipts \cup Outcomes

VARIABLES
  registered,  \* the venues there are
  metrics,     \* venue_metric_snapshots: key -> None or fact and creating file
  receipts,    \* jcr_import_receipts and their links: file -> None or record
  aliases,     \* venue_aliases
  run,         \* the import each process is in
  budget       \* runs left to each process, and faults left

tables == <<metrics, receipts, aliases>>
vars == <<registered, tables, run, budget>>

Lines(f) == DOMAIN Content[f]

(***************************************************************************)
(* Import: reading the file.                                               *)
(***************************************************************************)
\* parseJCRRow: a known metric has both values, an unknown one has neither.
RowParses(row) ==
  /\ row.issns # {}
  /\ \/ row.status = "known" /\ row.jif # None /\ row.quartile \in Quartiles
     \/ row.status = "unknown" /\ row.jif = None /\ row.quartile = None

\* parseJCRCSV and the single source of Import.
Parses(f) ==
  /\ Lines(f) # {}
  /\ Len(Content[f]) <= MaxRows
  /\ \A l \in Lines(f) : RowParses(Content[f][l])

OneSource(f) == \A l \in Lines(f) : Content[f][l].source = Content[f][1].source

\* FindVenuesByISSNs: any role of the row against any role of the venue.
Matches(row) == {v \in registered : VenueISSNs[v] \cap row.issns # {}}

(***************************************************************************)
(* The batch that the lines of f make with the venues found for them.      *)
(***************************************************************************)
MetricKey(f, venues, l) == <<venues[l], Content[f][l].metric>>

MetricSnapshot(f, l, license) ==
  LET row == Content[f][l] IN
  [status |-> row.status, jif |-> row.jif, quartile |-> row.quartile,
   source |-> row.source, license |-> license]

AliasEvidence(f, venues) ==
  {<<venues[l], Content[f][l].title, Content[f][l].source>> :
     l \in {m \in Lines(f) : Content[f][m].title # None}}

NoRun ==
  [pc |-> "idle", file |-> None, license |-> None, venues |-> <<>>, todo |-> {}, held |-> {},
   mine |-> [k \in Keys |-> None], inserted |-> 0, unchanged |-> 0,
   made |-> {}, receipt |-> None, outcome |-> None]

Init ==
  /\ registered = {}
  /\ metrics = [k \in Keys |-> None]
  /\ receipts = [f \in Files |-> None]
  /\ aliases = {}
  /\ run = [i \in Importers |-> NoRun]
  /\ budget = [runs |-> MaxRuns, faults |-> MaxFaults]

At(i, pc) == run[i].pc = pc

Sets(i, record) == run' = [run EXCEPT ![i] = record]

\* The import returns; a transaction that has not committed is rolled back.
Ends(i, outcome, receipt) ==
  Sets(i, [NoRun EXCEPT !.pc = "done", !.file = run[i].file, !.license = run[i].license,
                        !.venues = run[i].venues, !.outcome = outcome, !.receipt = receipt])

Fails(i, outcome) == Ends(i, outcome, None)

\* The command is run with a file.
Open(i, f, license) ==
  /\ run[i].pc \in {"idle", "done"}
  /\ budget.runs[i] > 0
  /\ budget' = [budget EXCEPT !.runs[i] = @ - 1]
  /\ Sets(i, [NoRun EXCEPT !.pc = "parse", !.file = f, !.license = license])
  /\ UNCHANGED <<registered, tables>>

Parse(i) ==
  /\ At(i, "parse")
  /\ IF Parses(run[i].file) /\ OneSource(run[i].file)
     THEN Sets(i, [run[i] EXCEPT !.pc = "resolve"])
     ELSE Fails(i, "invalid")
  /\ UNCHANGED <<registered, tables, budget>>

\* One row after the other, each by a query of its own; then the batch is built.
Resolve(i) ==
  /\ At(i, "resolve")
  /\ LET l == Len(run[i].venues) + 1
         f == run[i].file
         found == Matches(Content[f][l])
     IN  \/ found = {} /\ Fails(i, "no_match")
         \/ \E v, w \in found : v # w /\ Fails(i, "ambiguous")
         \/ \E v \in found :
              /\ found = {v}
              /\ Sets(i, [run[i] EXCEPT !.venues = Append(@, v),
                            !.pc = IF l = Len(Content[f]) THEN "lock_file" ELSE "resolve"])
  /\ UNCHANGED <<registered, tables, budget>>

(***************************************************************************)
(* PersistJCRImport, one transaction.                                      *)
(***************************************************************************)
InTransaction == {"lock_aliases", "find", "validate", "insert", "receipt", "alias", "commit"}

BatchAliases(i) == AliasEvidence(run[i].file, run[i].venues)

\* Slip: no lock on the file.
LockFileIgnored(i) ==
  /\ At(i, "lock_file")
  /\ Sets(i, [run[i] EXCEPT !.pc = "lock_aliases"])
  /\ UNCHANGED <<registered, tables, budget>>

\* The file's advisory lock is held to the end of the transaction.
LockFile(i) ==
  /\ At(i, "lock_file")
  /\ \A j \in Importers : ~(run[j].pc \in InTransaction /\ run[j].file = run[i].file)
  /\ Sets(i, [run[i] EXCEPT !.pc = "lock_aliases"])
  /\ UNCHANGED <<registered, tables, budget>>

\* The advisory locks still to take for the aliases, smallest first.
LocksLeft(i) == {AliasLock[a] : a \in BatchAliases(i)} \ run[i].held

\* Slip: in the order of the file.
NextLockUnsorted(i, n) == n \in LocksLeft(i)

NextLock(i, n) == n \in LocksLeft(i) /\ \A m \in LocksLeft(i) : n <= m

LockAlias(i) ==
  /\ At(i, "lock_aliases")
  /\ \/ \E n \in LocksLeft(i) :
          /\ NextLock(i, n)
          /\ \A j \in Importers \ {i} : n \notin run[j].held
          /\ Sets(i, [run[i] EXCEPT !.held = @ \cup {n}])
     \/ LocksLeft(i) = {} /\ Sets(i, [run[i] EXCEPT !.pc = "find"])
  /\ UNCHANGED <<registered, tables, budget>>

FindImport(i) ==
  /\ At(i, "find")
  /\ Sets(i, [run[i] EXCEPT !.todo = Lines(run[i].file),
                !.pc = IF receipts[run[i].file] = None THEN "insert" ELSE "validate"])
  /\ UNCHANGED <<registered, tables, budget>>

KeyAt(i, l) == MetricKey(run[i].file, run[i].venues, l)

FactAt(i, l) == MetricSnapshot(run[i].file, l, run[i].license)

\* Rows are taken by their key; rows of one key in any order.
NextRow(i, l) ==
  l \in run[i].todo /\ \A m \in run[i].todo : KeyRank[KeyAt(i, l)] <= KeyRank[KeyAt(i, m)]

\* Slip: only the rows the file itself brought count as imported.
ValidateOwnRow(i) ==
  /\ At(i, "validate")
  /\ \E l \in run[i].todo :
       /\ NextRow(i, l)
       /\ LET stored == metrics[KeyAt(i, l)] IN
          IF stored # None /\ stored = [fact |-> FactAt(i, l), file |-> run[i].file]
          THEN Sets(i, [run[i] EXCEPT !.todo = @ \ {l}])
          ELSE Fails(i, "conflict")
  /\ UNCHANGED <<registered, tables, budget>>

\* validateExistingPostgresImport.  The file's receipt has the file's source
\* and number of rows, so only the rows can differ.
ValidateRow(i) ==
  /\ At(i, "validate")
  /\ \E l \in run[i].todo :
       /\ NextRow(i, l)
       /\ LET stored == metrics[KeyAt(i, l)] IN
          IF stored # None /\ stored.fact = FactAt(i, l)
          THEN Sets(i, [run[i] EXCEPT !.todo = @ \ {l}])
          ELSE Fails(i, "conflict")
  /\ UNCHANGED <<registered, tables, budget>>

ReturnExisting(i) ==
  /\ At(i, "validate")
  /\ run[i].todo = {}
  /\ Ends(i, "stored", receipts[run[i].file])
  /\ UNCHANGED <<registered, tables, budget>>

\* INSERT ... ON CONFLICT DO NOTHING waits for another transaction's insert of
\* the key.
FreeKey(i, k) == \A j \in Importers \ {i} : run[j].mine[k] = None

\* What the transaction sees under a key: None, or the row's fact.
SeenFact(i, k) == IF metrics[k] = None THEN run[i].mine[k] ELSE metrics[k].fact

\* Slip: any row under the key will do.
InsertRowIfAbsent(i) ==
  /\ At(i, "insert")
  /\ \E l \in run[i].todo :
       /\ NextRow(i, l)
       /\ FreeKey(i, KeyAt(i, l))
       /\ IF SeenFact(i, KeyAt(i, l)) = None
          THEN Sets(i, [run[i] EXCEPT !.todo = @ \ {l}, !.inserted = @ + 1,
                                      !.mine[KeyAt(i, l)] = FactAt(i, l)])
          ELSE Sets(i, [run[i] EXCEPT !.todo = @ \ {l}, !.unchanged = @ + 1])
  /\ UNCHANGED <<registered, tables, budget>>

InsertRow(i) ==
  /\ At(i, "insert")
  /\ \E l \in run[i].todo :
       /\ NextRow(i, l)
       /\ FreeKey(i, KeyAt(i, l))
       /\ \/ /\ SeenFact(i, KeyAt(i, l)) = None
             /\ Sets(i, [run[i] EXCEPT !.todo = @ \ {l}, !.inserted = @ + 1,
                                       !.mine[KeyAt(i, l)] = FactAt(i, l)])
          \/ /\ SeenFact(i, KeyAt(i, l)) = FactAt(i, l)
             /\ Sets(i, [run[i] EXCEPT !.todo = @ \ {l}, !.unchanged = @ + 1])
          \/ /\ SeenFact(i, KeyAt(i, l)) \notin {None, FactAt(i, l)}
             /\ Fails(i, "conflict")
  /\ UNCHANGED <<registered, tables, budget>>

RowsDone(i) ==
  /\ At(i, "insert")
  /\ run[i].todo = {}
  /\ Sets(i, [run[i] EXCEPT !.pc = "receipt"])
  /\ UNCHANGED <<registered, tables, budget>>

\* The receipt and its links to every row, stored or found, once per line.
WriteReceipt(i) ==
  /\ At(i, "receipt")
  /\ Sets(i, [run[i] EXCEPT !.pc = "alias",
       !.receipt = [links |-> [l \in Lines(run[i].file) |-> KeyAt(i, l)],
                    aliases |-> BatchAliases(i),
                    input |-> Len(Content[run[i].file]),
                    inserted |-> run[i].inserted,
                    unchanged |-> run[i].unchanged]])
  /\ UNCHANGED <<registered, tables, budget>>

\* persistPostgresAlias waits for another transaction's insert of the alias.
PersistAlias(i) ==
  /\ At(i, "alias")
  /\ \/ \E a \in BatchAliases(i) \ run[i].made :
          /\ \A b \in BatchAliases(i) \ run[i].made : AliasLock[a] <= AliasLock[b]
          /\ \A j \in Importers \ {i} : a \notin run[j].made
          /\ Sets(i, [run[i] EXCEPT !.made = @ \cup {a}])
     \/ BatchAliases(i) \subseteq run[i].made /\ Sets(i, [run[i] EXCEPT !.pc = "commit"])
  /\ UNCHANGED <<registered, tables, budget>>

Publish(i) ==
  LET f == run[i].file IN
  /\ metrics' = [k \in Keys |-> IF run[i].mine[k] = None THEN metrics[k]
                                ELSE [fact |-> run[i].mine[k], file |-> f]]
  /\ receipts' = [receipts EXCEPT ![f] = run[i].receipt]
  /\ aliases' = aliases \cup run[i].made

Commit(i) ==
  /\ At(i, "commit")
  /\ Publish(i)
  /\ Ends(i, "stored", run[i].receipt)
  /\ UNCHANGED <<registered, budget>>

(***************************************************************************)
(* Faults and the venues that ingestion registers meanwhile.               *)
(***************************************************************************)
Faulty(i) ==
  /\ budget.faults > 0
  /\ budget' = [budget EXCEPT !.faults = @ - 1]
  /\ Fails(i, "failed")
  /\ UNCHANGED registered

\* A crash, a cancellation or a lost connection rolls back.
Abort(i) ==
  /\ run[i].pc \in InTransaction \cup {"parse", "resolve", "lock_file"}
  /\ Faulty(i)
  /\ UNCHANGED tables

\* The commit is durable, its answer is lost.
CommitUnanswered(i) ==
  /\ At(i, "commit")
  /\ Publish(i)
  /\ Faulty(i)

\* resolveVenue of ingestion makes a venue when no other has one of its ISSNs.
RegisterVenue(v) ==
  /\ v \notin registered
  /\ \A w \in registered : VenueISSNs[v] \cap VenueISSNs[w] = {}
  /\ registered' = registered \cup {v}
  /\ UNCHANGED <<tables, run, budget>>

\* What an import does by itself, once started.
Progress(i) ==
  \/ Parse(i) \/ Resolve(i) \/ LockFile(i) \/ LockAlias(i) \/ FindImport(i)
  \/ ValidateRow(i) \/ ReturnExisting(i) \/ InsertRow(i) \/ RowsDone(i)
  \/ WriteReceipt(i) \/ PersistAlias(i) \/ Commit(i)

Next ==
  \/ \E i \in Importers :
       \/ \E f \in Files, license \in Licenses[i] : Open(i, f, license)
       \/ Progress(i)
       \/ Abort(i)
       \/ CommitUnanswered(i)
  \/ \E v \in Venues : RegisterVenue(v)

Fairness == \A i \in Importers : WF_vars(Progress(i))

Spec == Init /\ [][Next]_vars /\ Fairness

(***************************************************************************)
(* Invariants.                                                             *)
(***************************************************************************)
\* An import that reports success returns the one receipt of its file, and the
\* tables hold every row as its file and licence gave it and every alias.
SuccessMeansStored ==
  \A i \in Importers :
    run[i].outcome = "stored" =>
      /\ run[i].receipt = receipts[run[i].file]
      /\ \A l \in Lines(run[i].file) :
           /\ metrics[KeyAt(i, l)] # None
           /\ metrics[KeyAt(i, l)].fact = FactAt(i, l)
      /\ receipts[run[i].file].aliases \subseteq aliases

\* An import refused as conflicting met a row committed with another value,
\* named one key with two values itself, or repeats an imported file whose
\* rows now name venues without its rows: never a row that was rolled back.
ConflictIsReal ==
  \A i \in Importers :
    run[i].outcome = "conflict" =>
      \E l \in Lines(run[i].file) :
        \/ metrics[KeyAt(i, l)] # None /\ metrics[KeyAt(i, l)].fact # FactAt(i, l)
        \/ \E m \in Lines(run[i].file) :
             KeyAt(i, m) = KeyAt(i, l) /\ FactAt(i, m) # FactAt(i, l)
        \/ receipts[run[i].file] # None /\ receipts[run[i].file].links[l] # KeyAt(i, l)

(***************************************************************************)
(* The interleaved imports do what imports run one at a time would do.     *)
(***************************************************************************)
Batch(f, venues, license) ==
  [rows |-> [l \in Lines(f) |-> [key |-> MetricKey(f, venues, l),
                                 fact |-> MetricSnapshot(f, l, license)]],
   aliases |-> AliasEvidence(f, venues)]

BatchesOf ==
  [f \in Files |-> {Batch(f, venues, license) :
     venues \in [Lines(f) -> Venues], license \in UNION {Licenses[i] : i \in Importers}}]

Ledger == INSTANCE JcrLedger
            WITH Batches <- BatchesOf, metrics <- metrics, receipts <- receipts,
                 aliases <- aliases, Keys <- Keys, Files <- Files, None <- None

ImportsAreAtomic == Ledger!Spec

(***************************************************************************)
(* Liveness, under Fairness.                                               *)
(***************************************************************************)
\* Every import returns: files, aliases and rows are each locked in one order,
\* so that no two imports wait for each other.
ImportsEnd == \A i \in Importers : (run[i].pc # "idle") ~> (run[i].pc = "done")
=============================================================================
