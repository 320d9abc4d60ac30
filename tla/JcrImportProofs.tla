-------------------------- MODULE JcrImportProofs --------------------------
(***************************************************************************)
(* What JcrImport promises, for any importers, files, venues and licences: *)
(* an import that reports success has stored its file, one that reports a  *)
(* conflict met one, and interleaved imports implement JcrLedger.          *)
(***************************************************************************)
EXTENDS JcrImport, FiniteSetTheorems, SequenceTheorems, TLAPS

(***************************************************************************)
(* Types.                                                                  *)
(***************************************************************************)
Pcs == {"idle", "done", "parse", "resolve", "lock_file"} \cup InTransaction

Runs ==
  [pc : Pcs, file : Files \cup {None}, license : STRING \cup {None}, venues : Seq(Venues),
   todo : SUBSET Nat, held : SUBSET Nat, mine : [Keys -> Facts \cup {None}],
   inserted : Nat, unchanged : Nat, made : SUBSET Aliases,
   receipt : Receipts \cup {None}, outcome : Outcomes \cup {None}]

TypeOK ==
  /\ registered \subseteq Venues
  /\ metrics \in [Keys -> StoredRows \cup {None}]
  /\ receipts \in [Files -> Receipts \cup {None}]
  /\ run \in [Importers -> Runs]

(***************************************************************************)
(* What is known of one import, r, given the tables: m, c and a.           *)
(***************************************************************************)
Key(r, l) == MetricKey(r.file, r.venues, l)
Fact(r, l) == MetricSnapshot(r.file, l, r.license)
Evidence(r) == AliasEvidence(r.file, r.venues)
Seen(r, m, k) == IF m[k] = None THEN r.mine[k] ELSE m[k].fact
Own(r) == {k \in Keys : r.mine[k] # None}

Writing(r) == r.pc \in {"insert", "receipt", "alias", "commit"}

\* A file is open until the import returns; a result is about a file.
Opened(i, r) ==
  r.pc \notin {"idle", "done"} \/ r.outcome \in {"stored", "conflict"} =>
    r.file \in Files /\ r.license \in Licenses[i]

\* The lines have their venues once the transaction begins.
Resolved(r) ==
  /\ r.pc = "parse" => r.venues = <<>>
  /\ r.pc = "resolve" => Len(r.venues) < Len(Content[r.file])
  /\ r.pc \in InTransaction \cup {"lock_file"} \/ r.outcome \in {"stored", "conflict"} =>
       Len(r.venues) = Len(Content[r.file])

Unwritten(r) ==
  ~Writing(r) => /\ r.mine = [k \in Keys |-> None]
                 /\ r.made = {} /\ r.inserted = 0 /\ r.unchanged = 0

\* The lines that were taken are seen as the file has them, and a row of the
\* transaction is of one of them and new.
Inserting(r, m, c) ==
  Writing(r) =>
    /\ c[r.file] = None
    /\ r.todo \subseteq Lines(r.file)
    /\ \A l \in Lines(r.file) \ r.todo : Seen(r, m, Key(r, l)) = Fact(r, l)
    /\ \A k \in Own(r) : /\ m[k] = None
                         /\ \E l \in Lines(r.file) \ r.todo : Key(r, l) = k
    /\ r.pc # "insert" => r.todo = {}
    /\ r.made \subseteq Evidence(r)

\* Each line is counted once.
Counted(r) ==
  Writing(r) =>
    /\ IsFiniteSet(Own(r))
    /\ r.inserted = Cardinality(Own(r))
    /\ r.inserted + r.unchanged + Cardinality(r.todo) = Len(Content[r.file])

ReceiptOf(r) ==
  [links |-> [l \in Lines(r.file) |-> Key(r, l)], aliases |-> Evidence(r),
   input |-> Len(Content[r.file]), inserted |-> r.inserted, unchanged |-> r.unchanged]

Receipted(r) ==
  /\ r.pc \in {"alias", "commit"} => r.receipt = ReceiptOf(r)
  /\ r.pc = "commit" => Evidence(r) \subseteq r.made

Validating(r, m, c) ==
  r.pc = "validate" =>
    /\ c[r.file] # None
    /\ r.todo \subseteq Lines(r.file)
    /\ \A l \in Lines(r.file) \ r.todo :
         m[Key(r, l)] # None /\ m[Key(r, l)].fact = Fact(r, l)

\* The properties, of one import.
Succeeded(r, m, c, a) ==
  r.outcome = "stored" =>
    /\ c[r.file] # None
    /\ r.receipt = c[r.file]
    /\ \A l \in Lines(r.file) : m[Key(r, l)] # None /\ m[Key(r, l)].fact = Fact(r, l)
    /\ c[r.file].aliases \subseteq a

Refused(r, m, c) ==
  r.outcome = "conflict" =>
    \E l \in Lines(r.file) :
      \/ m[Key(r, l)] # None /\ m[Key(r, l)].fact # Fact(r, l)
      \/ \E n \in Lines(r.file) : Key(r, n) = Key(r, l) /\ Fact(r, n) # Fact(r, l)
      \/ c[r.file] # None /\ c[r.file].links[l] # Key(r, l)

Good(i, r, m, c, a) ==
  /\ Opened(i, r) /\ Resolved(r) /\ Unwritten(r)
  /\ Inserting(r, m, c) /\ Counted(r) /\ Receipted(r) /\ Validating(r, m, c)
  /\ Succeeded(r, m, c, a) /\ Refused(r, m, c)
  /\ r.outcome # None => r.pc = "done"

\* Files and new rows are locked exclusively.
Apart(r, s) ==
  /\ r.pc \in InTransaction /\ s.pc \in InTransaction => r.file # s.file
  /\ Own(r) \cap Own(s) = {}

\* A receipt's rows and aliases are there.
ReceiptsHold ==
  \A f \in Files : receipts[f] # None =>
    /\ \A l \in Lines(f) : receipts[f].links[l] \in Keys /\ metrics[receipts[f].links[l]] # None
    /\ receipts[f].aliases \subseteq aliases

JInv ==
  /\ TypeOK
  /\ ReceiptsHold
  /\ \A i \in Importers : Good(i, run[i], metrics, receipts, aliases)
  /\ \A i, j \in Importers : i # j => Apart(run[i], run[j])

(***************************************************************************)
(* Facts about the constants and about one import.                         *)
(***************************************************************************)
LEMMA NoneIsNoRow ==
  /\ None \notin Outcomes /\ None \notin Files /\ None \notin Facts /\ None \notin StoredRows /\ None \notin Receipts
  /\ \A i \in Importers : Licenses[i] \subseteq STRING
BY JcrAssumption DEF JcrAssumption

LEMMA LinesOf ==
  ASSUME NEW f \in Files
  PROVE  /\ Len(Content[f]) \in Nat /\ Lines(f) = 1..Len(Content[f]) /\ Lines(f) \subseteq Nat
         /\ Content[f] \in Seq(Rows) /\ \A l \in Lines(f) : Content[f][l] \in Rows
BY JcrAssumption DEF JcrAssumption, Lines

LEMMA KeyOf ==
  ASSUME NEW r \in Runs, r.file \in Files, Len(r.venues) = Len(Content[r.file]),
         NEW l \in Lines(r.file)
  PROVE  Key(r, l) \in Keys
<1>1. r.venues[l] \in Venues
  BY LinesOf DEF Runs
<1>2. Content[r.file][l].metric \in Metrics
  BY LinesOf DEF Rows
<1> QED BY <1>1, <1>2 DEF Key, MetricKey, Keys

LEMMA FactOf ==
  ASSUME NEW r, r.file \in Files, r.license \in STRING, NEW l \in Lines(r.file)
  PROVE  Fact(r, l) \in Facts /\ Fact(r, l) # None
<1>1. Content[r.file][l] \in Rows
  BY LinesOf
<1>2. Fact(r, l) \in Facts
  BY <1>1 DEF Fact, MetricSnapshot, Facts, Rows
<1> QED BY <1>2, NoneIsNoRow

LEMMA EvidenceOf ==
  ASSUME NEW r \in Runs, r.file \in Files, Len(r.venues) = Len(Content[r.file])
  PROVE  Evidence(r) \subseteq Aliases
<1> SUFFICES ASSUME NEW l \in Lines(r.file), Content[r.file][l].title # None
             PROVE  <<r.venues[l], Content[r.file][l].title, Content[r.file][l].source>> \in Aliases
  BY DEF Evidence, AliasEvidence
<1>1. r.venues[l] \in Venues
  BY LinesOf DEF Runs
<1>2. Content[r.file][l].title \in Titles /\ Content[r.file][l].source \in Sources
  BY LinesOf DEF Rows
<1> QED BY <1>1, <1>2 DEF Aliases

LEMMA NoRunIs ==
  /\ NoRun \in Runs
  /\ NoRun.pc = "idle" /\ NoRun.outcome = None /\ NoRun.venues = <<>> /\ NoRun.made = {}
  /\ NoRun.mine = [k \in Keys |-> None]
  /\ NoRun.inserted = 0 /\ NoRun.unchanged = 0 /\ Own(NoRun) = {}
BY DEF NoRun, Runs, Pcs, Own

\* Two imports with the same file, venues and licence are about the same rows.
LEMMA SameBatch ==
  ASSUME NEW r, NEW s, r.file = s.file, r.venues = s.venues, r.license = s.license
  PROVE  /\ Evidence(r) = Evidence(s)
         /\ \A l : Key(r, l) = Key(s, l) /\ Fact(r, l) = Fact(s, l)
BY DEF Evidence, Key, Fact, AliasEvidence, MetricKey, MetricSnapshot

(***************************************************************************)
(* Steps of one import that leave the tables alone.                        *)
(***************************************************************************)
LEMMA ApartIsSymmetric ==
  ASSUME NEW r, NEW s, Apart(r, s)
  PROVE  Apart(s, r)
BY DEF Apart

LEMMA QuietKeeps ==
  ASSUME JInv, NEW i \in Importers, NEW r \in Runs, run' = [run EXCEPT ![i] = r],
         UNCHANGED <<registered, metrics, receipts, aliases>>,
         Good(i, r, metrics, receipts, aliases),
         \A j \in Importers \ {i} : Apart(r, run[j])
  PROVE  JInv'
<1>1. run'[i] = r /\ \A j \in Importers \ {i} : run'[j] = run[j]
  BY DEF JInv, TypeOK
<1>2. TypeOK'
  BY DEF JInv, TypeOK
<1>3. ReceiptsHold'
  BY DEF JInv, ReceiptsHold, Lines
<1>4. ASSUME NEW j \in Importers
      PROVE  Good(j, run[j], metrics, receipts, aliases)'
  BY <1>1 DEF JInv
<1>5. ASSUME NEW j \in Importers, NEW k \in Importers, j # k
      PROVE  Apart(run[j], run[k])'
  BY <1>1, <1>5, ApartIsSymmetric DEF JInv
<1> QED BY <1>2, <1>3, <1>4, <1>5 DEF JInv

\* The record of an import that has returned.
LEMMA EndedIs ==
  ASSUME NEW r \in Runs, NEW outcome \in Outcomes, NEW receipt \in Receipts \cup {None},
         NEW e, e = [NoRun EXCEPT !.pc = "done", !.file = r.file, !.license = r.license,
                                  !.venues = r.venues, !.outcome = outcome,
                                  !.receipt = receipt]
  PROVE  /\ e \in Runs /\ e.pc = "done" /\ e.file = r.file /\ e.license = r.license
         /\ e.venues = r.venues /\ e.outcome = outcome /\ e.receipt = receipt
         /\ e.made = {} /\ e.mine = [k \in Keys |-> None] /\ e.inserted = 0
         /\ e.unchanged = 0 /\ Own(e) = {}
<1>1. NoRun \in Runs /\ NoRun.made = {} /\ NoRun.mine = [k \in Keys |-> None]
      /\ NoRun.inserted = 0 /\ NoRun.unchanged = 0
  BY NoRunIs
<1>2. /\ e \in Runs /\ e.pc = "done" /\ e.file = r.file /\ e.license = r.license
      /\ e.venues = r.venues /\ e.outcome = outcome /\ e.receipt = receipt
      /\ e.made = {} /\ e.mine = [k \in Keys |-> None] /\ e.inserted = 0 /\ e.unchanged = 0
  BY <1>1 DEF Runs, Pcs
<1>3. Own(e) = {}
  BY <1>2 DEF Own
<1> QED BY <1>2, <1>3

\* What a finished import has to answer for.
LEMMA EndedIsGood ==
  ASSUME NEW i \in Importers, NEW r \in Runs, NEW m, NEW c, NEW a, NEW e \in Runs,
         e.pc = "done", e.file = r.file, e.license = r.license, e.venues = r.venues,
         e.mine = [k \in Keys |-> None], e.made = {}, e.inserted = 0, e.unchanged = 0,
         e.outcome \in {"stored", "conflict"} =>
           /\ r.file \in Files /\ r.license \in Licenses[i]
           /\ Len(r.venues) = Len(Content[r.file]),
         Succeeded(e, m, c, a), Refused(e, m, c)
  PROVE  Good(i, e, m, c, a)
BY DEF Good, Opened, Resolved, Unwritten, Inserting, Counted, Receipted, Validating, Writing,
   InTransaction

LEMMA EndedIsApart ==
  ASSUME NEW e, NEW s, e.pc = "done", Own(e) = {}
  PROVE  Apart(e, s)
BY DEF Apart, InTransaction

\* An import returns without having written.
LEMMA EndKeeps ==
  ASSUME JInv, NEW i \in Importers, NEW outcome \in Outcomes,
         NEW receipt \in Receipts \cup {None}, Ends(i, outcome, receipt),
         UNCHANGED <<registered, metrics, receipts, aliases>>,
         outcome \in {"stored", "conflict"} =>
           /\ run[i].file \in Files /\ run[i].license \in Licenses[i]
           /\ Len(run[i].venues) = Len(Content[run[i].file]),
         \A e : /\ e.file = run[i].file /\ e.license = run[i].license
                /\ e.venues = run[i].venues /\ e.outcome = outcome /\ e.receipt = receipt
                => Succeeded(e, metrics, receipts, aliases) /\ Refused(e, metrics, receipts)
  PROVE  JInv'
<1> DEFINE e == [NoRun EXCEPT !.pc = "done", !.file = run[i].file,
                   !.license = run[i].license, !.venues = run[i].venues,
                   !.outcome = outcome, !.receipt = receipt]
<1>1. run[i] \in Runs /\ run' = [run EXCEPT ![i] = e]
  BY DEF JInv, TypeOK, Ends, Sets
<1>2. /\ e \in Runs /\ e.pc = "done" /\ e.file = run[i].file /\ e.license = run[i].license
      /\ e.venues = run[i].venues /\ e.outcome = outcome /\ e.receipt = receipt
      /\ e.made = {} /\ e.mine = [k \in Keys |-> None] /\ e.inserted = 0
      /\ e.unchanged = 0 /\ Own(e) = {}
  BY <1>1, EndedIs
<1> HIDE DEF e
<1>3. Succeeded(e, metrics, receipts, aliases) /\ Refused(e, metrics, receipts)
  BY <1>2
<1>4. Good(i, e, metrics, receipts, aliases)
  BY <1>1, <1>2, <1>3, EndedIsGood
<1>5. \A j \in Importers \ {i} : Apart(e, run[j])
  BY <1>2, EndedIsApart
<1> QED BY <1>1, <1>2, <1>4, <1>5, QuietKeeps

\* It returns an error that says nothing of the tables.
LEMMA FailureKeeps ==
  ASSUME JInv, NEW i \in Importers, NEW outcome \in {"invalid", "no_match", "ambiguous", "failed"},
         Fails(i, outcome), UNCHANGED <<registered, metrics, receipts, aliases>>
  PROVE  JInv'
<1>1. \A e : e.outcome = outcome =>
        Succeeded(e, metrics, receipts, aliases) /\ Refused(e, metrics, receipts)
  BY DEF Succeeded, Refused
<1>2. Ends(i, outcome, None)
  BY DEF Fails
<1>3. outcome \in Outcomes /\ outcome \notin {"stored", "conflict"}
  BY DEF Outcomes
<1> QED BY <1>1, <1>2, <1>3, EndKeeps

\* It goes on, with the same file and the same rows of its own.
LEMMA MoveKeeps ==
  ASSUME JInv, NEW i \in Importers, NEW r \in Runs, run' = [run EXCEPT ![i] = r],
         UNCHANGED <<registered, metrics, receipts, aliases>>,
         run[i].pc \notin {"idle", "done"}, r.pc \notin {"idle", "done"},
         r.file = run[i].file, r.license = run[i].license, r.outcome = None,
         r.pc \in InTransaction => run[i].pc \in InTransaction, Own(r) = Own(run[i]),
         Resolved(r), Unwritten(r), Inserting(r, metrics, receipts), Counted(r),
         Receipted(r), Validating(r, metrics, receipts)
  PROVE  JInv'
<1>1. Good(i, run[i], metrics, receipts, aliases)
  BY DEF JInv
<1>2. Opened(i, r)
  BY <1>1 DEF Good, Opened
<1>3. Succeeded(r, metrics, receipts, aliases) /\ Refused(r, metrics, receipts)
  BY NoneIsNoRow DEF Succeeded, Refused, Outcomes
<1>4. Good(i, r, metrics, receipts, aliases)
  BY <1>2, <1>3 DEF Good
<1>5. \A j \in Importers \ {i} : Apart(r, run[j])
  BY DEF JInv, Apart
<1> QED BY <1>4, <1>5, QuietKeeps

\* Of the import at work.
LEMMA AtWork ==
  ASSUME JInv, NEW i \in Importers
  PROVE  /\ run[i] \in Runs /\ run \in [Importers -> Runs]
         /\ Good(i, run[i], metrics, receipts, aliases)
         /\ run[i].pc \notin {"idle", "done"} =>
              /\ run[i].file \in Files /\ run[i].license \in STRING
              /\ run[i].license \in Licenses[i] /\ run[i].outcome = None
BY NoneIsNoRow DEF JInv, TypeOK, Good, Opened

LEMMA OpenKeeps ==
  ASSUME JInv, NEW i \in Importers, NEW f \in Files, NEW license \in Licenses[i],
         Open(i, f, license)
  PROVE  JInv'
<1> DEFINE r == [NoRun EXCEPT !.pc = "parse", !.file = f, !.license = license]
<1>1. run' = [run EXCEPT ![i] = r] /\ UNCHANGED <<registered, metrics, receipts, aliases>>
  BY DEF Open, Sets, tables
<1>2. /\ r \in Runs /\ r.pc = "parse" /\ r.file = f /\ r.license = license /\ r.venues = <<>>
      /\ r.mine = [k \in Keys |-> None] /\ r.made = {} /\ r.inserted = 0 /\ r.unchanged = 0
      /\ r.outcome = None
  <2>1. license \in STRING
    BY NoneIsNoRow
  <2> QED BY <2>1, NoRunIs DEF Runs, Pcs
<1>3. Own(r) = {}
  BY <1>2 DEF Own
<1> HIDE DEF r
<1>4. Good(i, r, metrics, receipts, aliases)
  <2>1. Len(r.venues) = 0
    BY <1>2
  <2> QED BY <1>2, <2>1, NoneIsNoRow DEF Good, Opened, Resolved, Unwritten, Inserting, Counted,
             Receipted, Validating, Writing, InTransaction, Succeeded, Refused, Outcomes
<1>5. \A j \in Importers \ {i} : Apart(r, run[j])
  BY <1>2, <1>3 DEF Apart, InTransaction
<1> QED BY <1>1, <1>2, <1>4, <1>5, QuietKeeps

LEMMA ParseKeeps ==
  ASSUME JInv, NEW i \in Importers, Parse(i)
  PROVE  JInv'
<1>1. At(i, "parse") /\ UNCHANGED <<registered, metrics, receipts, aliases>>
  BY DEF Parse, tables
<1>2. CASE Fails(i, "invalid")
  BY <1>1, <1>2, FailureKeeps
<1>3. CASE Parses(run[i].file) /\ Sets(i, [run[i] EXCEPT !.pc = "resolve"])
  <2> DEFINE r == [run[i] EXCEPT !.pc = "resolve"]
  <2>1. /\ r \in Runs /\ r.pc = "resolve" /\ r.file = run[i].file /\ r.venues = run[i].venues
        /\ r.license = run[i].license /\ r.outcome = run[i].outcome /\ r.mine = run[i].mine
        /\ r.made = run[i].made /\ r.inserted = run[i].inserted /\ r.unchanged = run[i].unchanged
    BY AtWork DEF Runs, Pcs
  <2>2. run' = [run EXCEPT ![i] = r] /\ Own(r) = Own(run[i])
    BY <1>3, <2>1 DEF Sets, Own
  <2> HIDE DEF r
  <2>3. Resolved(r)
    <3>1. Len(Content[r.file]) > 0
      BY <1>1, <1>3, <2>1, AtWork, LinesOf DEF At, Parses
    <3> QED BY <1>1, <2>1, <3>1, AtWork, NoneIsNoRow DEF Good, Resolved, At, InTransaction
  <2>4. Unwritten(r)
    BY <1>1, <2>1, AtWork DEF Good, Unwritten, Writing, At
  <2>5. Inserting(r, metrics, receipts) /\ Counted(r) /\ Receipted(r)
        /\ Validating(r, metrics, receipts)
    BY <2>1 DEF Inserting, Counted, Receipted, Validating, Writing
  <2> QED BY <1>1, <2>1, <2>2, <2>3, <2>4, <2>5, AtWork, MoveKeeps DEF At, InTransaction
<1> QED BY <1>2, <1>3 DEF Parse

LEMMA ResolveKeeps ==
  ASSUME JInv, NEW i \in Importers, Resolve(i)
  PROVE  JInv'
<1> DEFINE f == run[i].file
           l == Len(run[i].venues) + 1
<1>1. At(i, "resolve") /\ UNCHANGED <<registered, metrics, receipts, aliases>>
  BY DEF Resolve, tables
<1>2. CASE Fails(i, "no_match") \/ Fails(i, "ambiguous")
  BY <1>1, <1>2, FailureKeeps
<1>3. CASE ~(Fails(i, "no_match") \/ Fails(i, "ambiguous"))
  <2>1. PICK v \in Matches(Content[f][l]) :
          Sets(i, [run[i] EXCEPT !.venues = Append(@, v),
                     !.pc = IF l = Len(Content[f]) THEN "lock_file" ELSE "resolve"])
    BY <1>3 DEF Resolve
  <2>2. v \in Venues
    BY DEF Matches, JInv, TypeOK
  <2> DEFINE r == [run[i] EXCEPT !.venues = Append(run[i].venues, v),
                     !.pc = IF l = Len(Content[f]) THEN "lock_file" ELSE "resolve"]
  <2>3. /\ r \in Runs /\ r.pc = (IF l = Len(Content[f]) THEN "lock_file" ELSE "resolve")
        /\ r.file = f /\ r.venues = Append(run[i].venues, v)
        /\ r.license = run[i].license /\ r.outcome = run[i].outcome /\ r.mine = run[i].mine
        /\ r.made = run[i].made /\ r.inserted = run[i].inserted /\ r.unchanged = run[i].unchanged
    <3>1. Append(run[i].venues, v) \in Seq(Venues)
      BY <2>2, AtWork DEF Runs
    <3> QED BY <3>1, AtWork DEF Runs, Pcs
  <2>4. run' = [run EXCEPT ![i] = r] /\ Own(r) = Own(run[i])
    BY <2>1, <2>3 DEF Sets, Own
  <2>5. run[i].venues \in Seq(Venues)
    BY AtWork DEF Runs
  <2> HIDE DEF r
  <2>6. Resolved(r)
    <3>1. Len(run[i].venues) < Len(Content[f]) /\ Len(Content[f]) \in Nat
      BY <1>1, AtWork, LinesOf DEF Good, Resolved, At
    <3>2. Len(r.venues) = l
      BY <2>2, <2>3, <2>5
    <3> QED BY <1>1, <2>3, <2>5, <3>1, <3>2, AtWork, NoneIsNoRow DEF At, Resolved, InTransaction, Outcomes
  <2>7. Unwritten(r)
    BY <1>1, <2>3, AtWork DEF Good, Unwritten, Writing, At
  <2>8. Inserting(r, metrics, receipts) /\ Counted(r) /\ Receipted(r)
        /\ Validating(r, metrics, receipts)
    BY <2>3 DEF Inserting, Counted, Receipted, Validating, Writing
  <2> QED BY <1>1, <2>3, <2>4, <2>6, <2>7, <2>8, AtWork, MoveKeeps DEF At, InTransaction
<1> QED BY <1>2, <1>3

LEMMA LockFileKeeps ==
  ASSUME JInv, NEW i \in Importers, LockFile(i)
  PROVE  JInv'
<1> DEFINE r == [run[i] EXCEPT !.pc = "lock_aliases"]
<1>1. run[i].pc = "lock_file" /\ UNCHANGED <<registered, metrics, receipts, aliases>>
  BY DEF LockFile, tables, At
<1>2. /\ r \in Runs /\ r.pc = "lock_aliases" /\ r.file = run[i].file
      /\ r.venues = run[i].venues /\ r.license = run[i].license
      /\ r.outcome = run[i].outcome /\ r.mine = run[i].mine /\ r.made = run[i].made
      /\ r.inserted = run[i].inserted /\ r.unchanged = run[i].unchanged
  BY AtWork DEF Runs, Pcs, InTransaction
<1>3. run' = [run EXCEPT ![i] = r] /\ Own(r) = Own(run[i])
  BY <1>2 DEF LockFile, Sets, Own
<1>4. \A j \in Importers : run[j].pc \in InTransaction => run[j].file # run[i].file
  BY DEF LockFile
<1> HIDE DEF r
<1>5. Good(i, r, metrics, receipts, aliases)
  <2>1. Opened(i, r) /\ Resolved(r) /\ Unwritten(r)
    BY <1>1, <1>2, AtWork DEF Good, Opened, Resolved, Unwritten, Writing, InTransaction
  <2>2. Inserting(r, metrics, receipts) /\ Counted(r) /\ Receipted(r)
        /\ Validating(r, metrics, receipts)
    BY <1>2 DEF Inserting, Counted, Receipted, Validating, Writing
  <2>3. r.outcome = None
    BY <1>1, <1>2, AtWork
  <2>4. Succeeded(r, metrics, receipts, aliases) /\ Refused(r, metrics, receipts)
    BY <2>3, NoneIsNoRow DEF Succeeded, Refused, Outcomes
  <2> QED BY <2>1, <2>2, <2>3, <2>4 DEF Good
<1>6. \A j \in Importers \ {i} : Apart(r, run[j])
  BY <1>1, <1>2, <1>3, <1>4 DEF JInv, Apart
<1> QED BY <1>1, <1>2, <1>3, <1>5, <1>6, QuietKeeps

LEMMA LockAliasKeeps ==
  ASSUME JInv, NEW i \in Importers, LockAlias(i)
  PROVE  JInv'
<1> DEFINE t == run[i]
<1>1. t.pc = "lock_aliases" /\ UNCHANGED <<registered, metrics, receipts, aliases>>
  BY DEF LockAlias, tables, At
<1>2. /\ t \in Runs /\ t.file \in Files /\ t.outcome = None /\ Resolved(t) /\ Unwritten(t)
      /\ Len(t.venues) = Len(Content[t.file])
  BY <1>1, AtWork DEF Good, Resolved, InTransaction
<1>3. ASSUME NEW r \in Runs, run' = [run EXCEPT ![i] = r], r.pc \in {"lock_aliases", "find"},
             r.file = t.file, r.venues = t.venues, r.license = t.license,
             r.outcome = t.outcome, r.mine = t.mine, r.made = t.made,
             r.inserted = t.inserted, r.unchanged = t.unchanged
      PROVE  JInv'
  <2>1. Resolved(r) /\ Unwritten(r) /\ Own(r) = Own(t)
    BY <1>1, <1>2, <1>3 DEF Resolved, Unwritten, Writing, InTransaction, Own
  <2>2. Inserting(r, metrics, receipts) /\ Counted(r) /\ Receipted(r)
        /\ Validating(r, metrics, receipts)
    BY <1>3 DEF Inserting, Counted, Receipted, Validating, Writing
  <2> QED BY <1>1, <1>2, <1>3, <2>1, <2>2, MoveKeeps DEF InTransaction
<1>4. CASE LocksLeft(i) = {} /\ Sets(i, [t EXCEPT !.pc = "find"])
  <2> DEFINE r == [t EXCEPT !.pc = "find"]
  <2>1. /\ r \in Runs /\ r.pc = "find" /\ r.file = t.file /\ r.venues = t.venues
        /\ r.license = t.license /\ r.outcome = t.outcome /\ r.mine = t.mine
        /\ r.made = t.made /\ r.inserted = t.inserted /\ r.unchanged = t.unchanged
    BY <1>2 DEF Runs, Pcs, InTransaction
  <2>2. run' = [run EXCEPT ![i] = r]
    BY <1>4 DEF Sets
  <2> HIDE DEF r
  <2> QED BY <1>3, <2>1, <2>2
<1>5. CASE ~(LocksLeft(i) = {} /\ Sets(i, [t EXCEPT !.pc = "find"]))
  <2>1. PICK n \in LocksLeft(i) : Sets(i, [t EXCEPT !.held = @ \cup {n}])
    BY <1>5 DEF LockAlias
  <2>2. n \in Nat
    <3>1. PICK a \in Evidence(t) : n = AliasLock[a]
      BY DEF LocksLeft, BatchAliases, Evidence
    <3> QED BY <1>2, <3>1, EvidenceOf, JcrAssumption DEF JcrAssumption
  <2> DEFINE r == [t EXCEPT !.held = t.held \cup {n}]
  <2>3. /\ r \in Runs /\ r.pc = t.pc /\ r.file = t.file /\ r.venues = t.venues
        /\ r.license = t.license /\ r.outcome = t.outcome /\ r.mine = t.mine
        /\ r.made = t.made /\ r.inserted = t.inserted /\ r.unchanged = t.unchanged
    BY <1>2, <2>2 DEF Runs
  <2>4. run' = [run EXCEPT ![i] = r]
    BY <2>1 DEF Sets
  <2> HIDE DEF r
  <2> QED BY <1>1, <1>3, <2>3, <2>4
<1> QED BY <1>4, <1>5

LEMMA FindImportKeeps ==
  ASSUME JInv, NEW i \in Importers, FindImport(i)
  PROVE  JInv'
<1> DEFINE t == run[i]
           next == IF receipts[t.file] = None THEN "insert" ELSE "validate"
           r == [t EXCEPT !.todo = Lines(t.file), !.pc = next]
<1>1. t.pc = "find" /\ UNCHANGED <<registered, metrics, receipts, aliases>>
  BY DEF FindImport, tables, At
<1>2. /\ t \in Runs /\ t.file \in Files /\ t.outcome = None /\ Resolved(t) /\ Unwritten(t)
      /\ Len(t.venues) = Len(Content[t.file])
  BY <1>1, AtWork DEF Good, Resolved, InTransaction
<1>3. /\ r \in Runs /\ r.pc = next /\ r.file = t.file /\ r.venues = t.venues
      /\ r.license = t.license /\ r.outcome = t.outcome /\ r.mine = t.mine
      /\ r.made = t.made /\ r.inserted = t.inserted /\ r.unchanged = t.unchanged
      /\ r.todo = Lines(t.file)
  <2>1. next \in Pcs
    BY DEF Pcs, InTransaction
  <2>2. Lines(t.file) \subseteq Nat
    BY <1>2, LinesOf
  <2> HIDE DEF next
  <2> QED BY <1>2, <2>1, <2>2 DEF Runs
<1>4. run' = [run EXCEPT ![i] = r] /\ Own(r) = Own(t)
  BY <1>3 DEF FindImport, Sets, Own
<1> HIDE DEF r
<1>5. /\ r.mine = [k \in Keys |-> None] /\ r.made = {} /\ r.inserted = 0 /\ r.unchanged = 0
      /\ Own(r) = {}
  BY <1>1, <1>2, <1>3 DEF Unwritten, Writing, Own
<1>6. Resolved(r) /\ Unwritten(r)
  BY <1>1, <1>2, <1>3, <1>5 DEF Resolved, Unwritten, Writing, InTransaction
<1>7. Inserting(r, metrics, receipts) /\ Validating(r, metrics, receipts) /\ Receipted(r)
  BY <1>3, <1>5 DEF Inserting, Validating, Receipted, Writing
<1>8. Counted(r)
  <2>1. IsFiniteSet({}) /\ Cardinality({}) = 0
    BY FS_EmptySet
  <2>2. Cardinality(Lines(t.file)) = Len(Content[t.file]) /\ Len(Content[t.file]) \in Nat
    BY <1>2, LinesOf, FS_Interval
  <2> QED BY <1>3, <1>5, <2>1, <2>2 DEF Counted
<1> QED BY <1>1, <1>2, <1>3, <1>4, <1>6, <1>7, <1>8, MoveKeeps DEF InTransaction

LEMMA ValidateRowKeeps ==
  ASSUME JInv, NEW i \in Importers, ValidateRow(i)
  PROVE  JInv'
<1> DEFINE t == run[i]
<1>1. t.pc = "validate" /\ UNCHANGED <<registered, metrics, receipts, aliases>>
  BY DEF ValidateRow, tables, At
<1>2. /\ t \in Runs /\ t.file \in Files /\ t.license \in Licenses[i] /\ t.outcome = None
      /\ Resolved(t) /\ Unwritten(t) /\ Validating(t, metrics, receipts)
      /\ Len(t.venues) = Len(Content[t.file])
  BY <1>1, AtWork DEF Good, Resolved, InTransaction
<1>3. PICK l \in t.todo :
        /\ NextRow(i, l)
        /\ IF metrics[KeyAt(i, l)] # None /\ metrics[KeyAt(i, l)].fact = FactAt(i, l)
           THEN Sets(i, [t EXCEPT !.todo = @ \ {l}])
           ELSE Fails(i, "conflict")
  BY DEF ValidateRow
<1>4. KeyAt(i, l) = Key(t, l) /\ FactAt(i, l) = Fact(t, l)
  BY DEF KeyAt, FactAt, Key, Fact
<1>5. CASE metrics[Key(t, l)] # None /\ metrics[Key(t, l)].fact = Fact(t, l)
  <2> DEFINE r == [t EXCEPT !.todo = t.todo \ {l}]
  <2>1. /\ r \in Runs /\ r.pc = t.pc /\ r.file = t.file /\ r.venues = t.venues
        /\ r.license = t.license /\ r.outcome = t.outcome /\ r.mine = t.mine
        /\ r.made = t.made /\ r.inserted = t.inserted /\ r.unchanged = t.unchanged
        /\ r.todo = t.todo \ {l}
    BY <1>2 DEF Runs
  <2>2. run' = [run EXCEPT ![i] = r] /\ Own(r) = Own(t)
    BY <1>3, <1>4, <1>5, <2>1 DEF Sets, Own
  <2> HIDE DEF r
  <2>3. Resolved(r) /\ Unwritten(r) /\ Counted(r) /\ Receipted(r)
        /\ Inserting(r, metrics, receipts)
    BY <1>1, <1>2, <2>1 DEF Resolved, Unwritten, Counted, Receipted, Inserting, Writing,
       InTransaction
  <2>4. \A n : Key(r, n) = Key(t, n) /\ Fact(r, n) = Fact(t, n)
    BY <2>1, SameBatch
  <2>5. Validating(r, metrics, receipts)
    BY <1>1, <1>2, <1>5, <2>1, <2>4 DEF Validating
  <2> QED BY <1>1, <1>2, <2>1, <2>2, <2>3, <2>5, MoveKeeps DEF InTransaction
<1>6. CASE ~(metrics[Key(t, l)] # None /\ metrics[Key(t, l)].fact = Fact(t, l))
  <2>1. Ends(i, "conflict", None)
    BY <1>3, <1>4, <1>6 DEF Fails
  <2>2. l \in Lines(t.file)
    BY <1>1, <1>2 DEF Validating
  <2>3. receipts[t.file] # None
    BY <1>1, <1>2 DEF Validating
  <2>4. metrics[receipts[t.file].links[l]] # None
    BY <1>2, <2>2, <2>3 DEF JInv, ReceiptsHold
  <2>5. \/ metrics[Key(t, l)] # None /\ metrics[Key(t, l)].fact # Fact(t, l)
        \/ receipts[t.file].links[l] # Key(t, l)
    BY <1>6, <2>4
  <2>6. \A e : /\ e.file = t.file /\ e.license = t.license
               /\ e.venues = t.venues /\ e.outcome = "conflict" /\ e.receipt = None
               => Succeeded(e, metrics, receipts, aliases) /\ Refused(e, metrics, receipts)
    BY <2>2, <2>3, <2>5, SameBatch DEF Succeeded, Refused
  <2> QED BY <1>1, <1>2, <2>1, <2>6, EndKeeps DEF Outcomes
<1> QED BY <1>5, <1>6

LEMMA ReturnExistingKeeps ==
  ASSUME JInv, NEW i \in Importers, ReturnExisting(i)
  PROVE  JInv'
<1> DEFINE t == run[i]
<1>1. t.pc = "validate" /\ t.todo = {} /\ UNCHANGED <<registered, metrics, receipts, aliases>>
      /\ Ends(i, "stored", receipts[t.file])
  BY DEF ReturnExisting, tables, At
<1>2. /\ t \in Runs /\ t.file \in Files /\ t.license \in Licenses[i]
      /\ Validating(t, metrics, receipts) /\ Len(t.venues) = Len(Content[t.file])
  BY <1>1, AtWork DEF Good, Resolved, InTransaction
<1>3. receipts[t.file] \in Receipts \cup {None} /\ receipts[t.file] # None
      /\ receipts[t.file].aliases \subseteq aliases
  BY <1>1, <1>2 DEF Validating, JInv, TypeOK, ReceiptsHold
<1>4. \A l \in Lines(t.file) : metrics[Key(t, l)] # None /\ metrics[Key(t, l)].fact = Fact(t, l)
  BY <1>1, <1>2 DEF Validating
<1>5. \A e : /\ e.file = t.file /\ e.license = t.license
             /\ e.venues = t.venues /\ e.outcome = "stored" /\ e.receipt = receipts[t.file]
             => Succeeded(e, metrics, receipts, aliases) /\ Refused(e, metrics, receipts)
  BY <1>3, <1>4, SameBatch DEF Succeeded, Refused
<1> QED BY <1>1, <1>2, <1>3, <1>5, EndKeeps DEF Outcomes

(***************************************************************************)
(* Steps that write rows of the transaction.                               *)
(***************************************************************************)
\* Of the import that is writing.
LEMMA AtWriting ==
  ASSUME JInv, NEW i \in Importers, Writing(run[i])
  PROVE  /\ run[i] \in Runs /\ run[i].file \in Files /\ run[i].license \in Licenses[i]
         /\ run[i].license \in STRING
         /\ run[i].outcome = None /\ Resolved(run[i])
         /\ Len(run[i].venues) = Len(Content[run[i].file])
         /\ Inserting(run[i], metrics, receipts) /\ Counted(run[i]) /\ Receipted(run[i])
         /\ run[i].pc \notin {"idle", "done", "resolve", "parse"} /\ run[i].pc \in InTransaction
<1>1. run[i].pc \notin {"idle", "done", "resolve", "parse"} /\ run[i].pc \in InTransaction
  BY DEF Writing, InTransaction
<1> QED BY <1>1, AtWork DEF Good, Resolved

\* It goes on writing, with the same rows of its own.
LEMMA WritingKeeps ==
  ASSUME JInv, NEW i \in Importers, Writing(run[i]), NEW r \in Runs, Writing(r),
         run' = [run EXCEPT ![i] = r], UNCHANGED <<registered, metrics, receipts, aliases>>,
         r.file = run[i].file, r.license = run[i].license, r.venues = run[i].venues,
         r.outcome = run[i].outcome, Own(r) = Own(run[i]),
         Inserting(r, metrics, receipts), Counted(r), Receipted(r)
  PROVE  JInv'
<1>1. r.pc \notin {"idle", "done", "resolve", "parse", "validate"}
      /\ run[i].pc \notin {"idle", "done"} /\ run[i].pc \in InTransaction
  BY DEF Writing, InTransaction
<1>2. Resolved(r) /\ Unwritten(r) /\ Validating(r, metrics, receipts)
  BY <1>1, AtWriting DEF Resolved, Unwritten, Validating
<1> QED BY <1>1, <1>2, AtWriting, MoveKeeps

\* Taking part in the same rows, one import knows of them what another does.
LEMMA SameRows ==
  ASSUME NEW t, NEW r, NEW m, NEW c, Writing(t), Inserting(t, m, c),
         r.file = t.file, r.venues = t.venues, r.license = t.license, r.mine = t.mine,
         r.todo = t.todo, r.made \subseteq Evidence(t), r.pc # "insert" => t.todo = {}
  PROVE  Inserting(r, m, c)
<1>1. Own(r) = Own(t) /\ Evidence(r) = Evidence(t)
      /\ (\A n : Key(r, n) = Key(t, n) /\ Fact(r, n) = Fact(t, n))
      /\ (\A k : Seen(r, m, k) = Seen(t, m, k))
  BY SameBatch DEF Own, Seen
<1>2. c[r.file] = None /\ r.todo \subseteq Lines(r.file)
  BY DEF Inserting
<1>3. ASSUME NEW l \in Lines(r.file) \ r.todo
      PROVE  Seen(r, m, Key(r, l)) = Fact(r, l)
  <2>1. Seen(t, m, Key(t, l)) = Fact(t, l)
    BY <1>3 DEF Inserting
  <2>2. Key(r, l) = Key(t, l) /\ Fact(r, l) = Fact(t, l)
    BY <1>1
  <2> QED BY <2>1, <2>2, <1>1
<1>4. ASSUME NEW k \in Own(r)
      PROVE  m[k] = None /\ \E l \in Lines(r.file) \ r.todo : Key(r, l) = k
  <2>1. m[k] = None /\ \E l \in Lines(t.file) \ t.todo : Key(t, l) = k
    BY <1>1, <1>4 DEF Inserting
  <2> QED BY <2>1, <1>1
<1> QED BY <1>1, <1>2, <1>3, <1>4 DEF Inserting

LEMMA RowsDoneKeeps ==
  ASSUME JInv, NEW i \in Importers, RowsDone(i)
  PROVE  JInv'
<1> DEFINE t == run[i]
           r == [t EXCEPT !.pc = "receipt"]
<1>1. t.pc = "insert" /\ t.todo = {} /\ UNCHANGED <<registered, metrics, receipts, aliases>>
      /\ run' = [run EXCEPT ![i] = r] /\ Writing(t)
  BY DEF RowsDone, tables, At, Sets, Writing
<1>2. /\ r \in Runs /\ r.pc = "receipt" /\ r.file = t.file /\ r.venues = t.venues
      /\ r.license = t.license /\ r.outcome = t.outcome /\ r.mine = t.mine
      /\ r.made = t.made /\ r.inserted = t.inserted /\ r.unchanged = t.unchanged
      /\ r.todo = t.todo
  BY <1>1, AtWriting DEF Runs, Pcs, InTransaction
<1> HIDE DEF r
<1>3. Own(r) = Own(t) /\ Writing(r) /\ Evidence(r) = Evidence(t)
      /\ (\A n : Key(r, n) = Key(t, n) /\ Fact(r, n) = Fact(t, n))
      /\ (\A k : Seen(r, metrics, k) = Seen(t, metrics, k))
  BY <1>2, SameBatch DEF Own, Writing, Seen
<1>4. Inserting(r, metrics, receipts)
  <2>1. t.made \subseteq Evidence(t) /\ Inserting(t, metrics, receipts)
    BY <1>1, AtWriting DEF Inserting
  <2> QED BY <1>1, <1>2, <2>1, SameRows
<1>5. Counted(r)
  BY <1>1, <1>2, <1>3, AtWriting DEF Counted
<1>6. Receipted(r)
  BY <1>2 DEF Receipted
<1> QED BY <1>1, <1>2, <1>3, <1>4, <1>5, <1>6, WritingKeeps

LEMMA WriteReceiptKeeps ==
  ASSUME JInv, NEW i \in Importers, WriteReceipt(i)
  PROVE  JInv'
<1> DEFINE t == run[i]
           r == [t EXCEPT !.pc = "alias", !.receipt = ReceiptOf(t)]
<1>1. t.pc = "receipt" /\ UNCHANGED <<registered, metrics, receipts, aliases>> /\ Writing(t)
  BY DEF WriteReceipt, tables, At, Writing
<1>2. run' = [run EXCEPT ![i] = r]
  BY DEF WriteReceipt, Sets, ReceiptOf, KeyAt, BatchAliases, Key, Evidence
<1>3. ReceiptOf(t) \in Receipts
  <2>1. [l \in Lines(t.file) |-> Key(t, l)] \in [Lines(t.file) -> Keys]
    BY <1>1, AtWriting, KeyOf
  <2>2. [l \in Lines(t.file) |-> Key(t, l)] \in UNION {[DOMAIN Content[f] -> Keys] : f \in Files}
    BY <1>1, <2>1, AtWriting DEF Lines
  <2>3. Evidence(t) \subseteq Aliases
    BY <1>1, AtWriting, EvidenceOf
  <2>4. Len(Content[t.file]) \in Nat /\ t.inserted \in Nat /\ t.unchanged \in Nat
    BY <1>1, AtWriting, LinesOf DEF Runs
  <2> QED BY <2>2, <2>3, <2>4 DEF ReceiptOf, Receipts
<1>4. /\ r \in Runs /\ r.pc = "alias" /\ r.file = t.file /\ r.venues = t.venues
      /\ r.license = t.license /\ r.outcome = t.outcome /\ r.mine = t.mine
      /\ r.made = t.made /\ r.inserted = t.inserted /\ r.unchanged = t.unchanged
      /\ r.todo = t.todo /\ r.receipt = ReceiptOf(t)
  BY <1>1, <1>3, AtWriting DEF Runs, Pcs, InTransaction
<1> HIDE DEF r
<1>5. Own(r) = Own(t) /\ Writing(r) /\ Evidence(r) = Evidence(t)
      /\ (\A n : Key(r, n) = Key(t, n) /\ Fact(r, n) = Fact(t, n))
      /\ (\A k : Seen(r, metrics, k) = Seen(t, metrics, k))
  BY <1>4, SameBatch DEF Own, Writing, Seen
<1>6. Inserting(r, metrics, receipts)
  <2>1. t.made \subseteq Evidence(t) /\ t.todo = {} /\ Inserting(t, metrics, receipts)
    BY <1>1, AtWriting DEF Inserting
  <2> QED BY <1>1, <1>4, <2>1, SameRows
<1>7. Counted(r)
  BY <1>1, <1>4, <1>5, AtWriting DEF Counted
<1>8. Receipted(r)
  <2>1. ReceiptOf(r) = ReceiptOf(t)
    BY <1>4, <1>5 DEF ReceiptOf
  <2> QED BY <1>4, <2>1 DEF Receipted
<1> QED BY <1>1, <1>2, <1>4, <1>5, <1>6, <1>7, <1>8, WritingKeeps

LEMMA PersistAliasKeeps ==
  ASSUME JInv, NEW i \in Importers, PersistAlias(i)
  PROVE  JInv'
<1> DEFINE t == run[i]
<1>1. t.pc = "alias" /\ UNCHANGED <<registered, metrics, receipts, aliases>> /\ Writing(t)
  BY DEF PersistAlias, tables, At, Writing
<1>2. t.made \subseteq Evidence(t) /\ Evidence(t) \subseteq Aliases
  BY <1>1, AtWriting, EvidenceOf DEF Inserting
<1>3. ASSUME NEW r \in Runs, run' = [run EXCEPT ![i] = r], r.pc \in {"alias", "commit"},
             r.file = t.file, r.venues = t.venues, r.license = t.license,
             r.outcome = t.outcome, r.mine = t.mine, r.made \subseteq Evidence(t),
             r.inserted = t.inserted, r.unchanged = t.unchanged, r.todo = t.todo,
             r.receipt = t.receipt, r.pc = "commit" => Evidence(t) \subseteq r.made
      PROVE  JInv'
  <2>1. Own(r) = Own(t) /\ Writing(r) /\ Evidence(r) = Evidence(t)
        /\ (\A n : Key(r, n) = Key(t, n) /\ Fact(r, n) = Fact(t, n))
        /\ (\A k : Seen(r, metrics, k) = Seen(t, metrics, k))
    BY <1>3, SameBatch DEF Own, Writing, Seen
  <2>2. Inserting(r, metrics, receipts)
    <3>1. t.todo = {} /\ Inserting(t, metrics, receipts)
      BY <1>1, AtWriting DEF Inserting
    <3> QED BY <1>1, <1>3, <3>1, SameRows
  <2>3. Counted(r)
    BY <1>1, <1>3, <2>1, AtWriting DEF Counted
  <2>4. Receipted(r)
    <3>1. ReceiptOf(r) = ReceiptOf(t)
      BY <1>3, <2>1 DEF ReceiptOf
    <3> QED BY <1>1, <1>3, <2>1, <3>1, AtWriting DEF Receipted
  <2> QED BY <1>1, <1>3, <2>1, <2>2, <2>3, <2>4, WritingKeeps
<1>4. CASE Evidence(t) \subseteq t.made /\ Sets(i, [t EXCEPT !.pc = "commit"])
  <2> DEFINE r == [t EXCEPT !.pc = "commit"]
  <2>1. /\ r \in Runs /\ r.pc = "commit" /\ r.file = t.file /\ r.venues = t.venues
        /\ r.license = t.license /\ r.outcome = t.outcome /\ r.mine = t.mine
        /\ r.made = t.made /\ r.inserted = t.inserted /\ r.unchanged = t.unchanged
        /\ r.todo = t.todo /\ r.receipt = t.receipt
    BY <1>1, AtWriting DEF Runs, Pcs, InTransaction
  <2>2. run' = [run EXCEPT ![i] = r]
    BY <1>4 DEF Sets
  <2> HIDE DEF r
  <2> QED BY <1>2, <1>3, <1>4, <2>1, <2>2
<1>5. CASE ~(Evidence(t) \subseteq t.made /\ Sets(i, [t EXCEPT !.pc = "commit"]))
  <2>1. PICK a \in Evidence(t) : Sets(i, [t EXCEPT !.made = @ \cup {a}])
    BY <1>5 DEF PersistAlias, BatchAliases, Evidence
  <2> DEFINE r == [t EXCEPT !.made = t.made \cup {a}]
  <2>2. t.made \cup {a} \subseteq Evidence(t) /\ t.made \cup {a} \in SUBSET Aliases
    BY <1>2
  <2>3. /\ r \in Runs /\ r.pc = t.pc /\ r.file = t.file /\ r.venues = t.venues
        /\ r.license = t.license /\ r.outcome = t.outcome /\ r.mine = t.mine
        /\ r.made = t.made \cup {a} /\ r.inserted = t.inserted /\ r.unchanged = t.unchanged
        /\ r.todo = t.todo /\ r.receipt = t.receipt
    BY <1>1, <2>2, AtWriting DEF Runs
  <2>4. run' = [run EXCEPT ![i] = r]
    BY <2>1 DEF Sets
  <2> HIDE DEF r
  <2> QED BY <1>1, <1>3, <2>2, <2>3, <2>4
<1> QED BY <1>4, <1>5

\* A row that is met or made is not the one of another line.
LEMMA InsertRowKeeps ==
  ASSUME JInv, NEW i \in Importers, InsertRow(i)
  PROVE  JInv'
<1> DEFINE t == run[i]
<1>1. t.pc = "insert" /\ UNCHANGED <<registered, metrics, receipts, aliases>> /\ Writing(t)
  BY DEF InsertRow, tables, At, Writing
<1>2. PICK l \in t.todo :
        /\ FreeKey(i, KeyAt(i, l))
        /\ \/ /\ SeenFact(i, KeyAt(i, l)) = None
              /\ Sets(i, [t EXCEPT !.todo = @ \ {l}, !.inserted = @ + 1,
                                   !.mine[KeyAt(i, l)] = FactAt(i, l)])
           \/ /\ SeenFact(i, KeyAt(i, l)) = FactAt(i, l)
              /\ Sets(i, [t EXCEPT !.todo = @ \ {l}, !.unchanged = @ + 1])
           \/ /\ SeenFact(i, KeyAt(i, l)) \notin {None, FactAt(i, l)}
              /\ Fails(i, "conflict")
  BY DEF InsertRow
<1> DEFINE k == Key(t, l)
<1>3. KeyAt(i, l) = k /\ FactAt(i, l) = Fact(t, l) /\ SeenFact(i, k) = Seen(t, metrics, k)
  BY DEF KeyAt, FactAt, Key, Fact, SeenFact, Seen
<1>4. /\ t \in Runs /\ t.file \in Files /\ t.license \in STRING /\ t.license \in Licenses[i]
      /\ Inserting(t, metrics, receipts) /\ Counted(t) /\ l \in Lines(t.file)
      /\ Len(t.venues) = Len(Content[t.file])
      /\ t.made \subseteq Evidence(t) /\ t.todo \subseteq Lines(t.file)
  BY <1>1, AtWriting DEF Inserting
<1>5. k \in Keys /\ Fact(t, l) \in Facts /\ Fact(t, l) # None
  BY <1>4, KeyOf, FactOf
<1>6. /\ t.mine \in [Keys -> Facts \cup {None}] /\ t.inserted \in Nat /\ t.unchanged \in Nat
      /\ Len(Content[t.file]) \in Nat /\ Lines(t.file) \subseteq Nat /\ l \in Nat
  BY <1>4, LinesOf DEF Runs
<1>7. metrics[k] # None => metrics[k].fact # None
  <2>1. metrics[k] # None => metrics[k] \in StoredRows
    BY <1>5 DEF JInv, TypeOK
  <2> QED BY <2>1, NoneIsNoRow DEF StoredRows
<1>8. /\ IsFiniteSet(t.todo) /\ Cardinality(t.todo) \in Nat
      /\ Cardinality(t.todo \ {l}) = Cardinality(t.todo) - 1
  <2>1. IsFiniteSet(Lines(t.file))
    <3> DEFINE n == Len(Content[t.file])
    <3>1. IsFiniteSet(1..n)
      <4>1. n \in Nat
        BY <1>6
      <4> HIDE DEF n
      <4> QED BY <4>1, FS_Interval
    <3> QED BY <1>4, <3>1, LinesOf
  <2>2. IsFiniteSet(t.todo)
    BY <1>4, <2>1, FS_Subset
  <2> QED BY <2>2, FS_CardinalityType, FS_RemoveElement
<1>9. CASE /\ Seen(t, metrics, k) = None
           /\ Sets(i, [t EXCEPT !.todo = @ \ {l}, !.inserted = @ + 1,
                                !.mine[k] = Fact(t, l)])
  <2> DEFINE mine == [t.mine EXCEPT ![k] = Fact(t, l)]
             todo == t.todo \ {l}
             inserted == t.inserted + 1
             r == [t EXCEPT !.todo = todo, !.inserted = inserted, !.mine = mine]
  <2>1. metrics[k] = None /\ t.mine[k] = None
    BY <1>7, <1>9 DEF Seen
  <2>2. mine \in [Keys -> Facts \cup {None}] /\ mine[k] = Fact(t, l)
        /\ \A q \in Keys \ {k} : mine[q] = t.mine[q]
    BY <1>5, <1>6
  <2>3. run' = [run EXCEPT ![i] = r]
    BY <1>9 DEF Sets
  <2> HIDE DEF mine
  <2>4. /\ r \in Runs /\ r.pc = "insert" /\ r.file = t.file /\ r.venues = t.venues
        /\ r.license = t.license /\ r.outcome = t.outcome /\ r.mine = mine
        /\ r.made = t.made /\ r.inserted = inserted /\ r.unchanged = t.unchanged
        /\ r.todo = todo
    <3>1. inserted \in Nat /\ todo \in SUBSET Nat
      BY <1>4, <1>6
    <3> HIDE DEF inserted, todo
    <3> QED BY <1>1, <1>4, <2>2, <3>1 DEF Runs
  <2> HIDE DEF r
  <2>5. Own(r) = Own(t) \cup {k} /\ k \notin Own(t)
    BY <1>5, <2>1, <2>2, <2>4 DEF Own
  <2>6. Evidence(r) = Evidence(t) /\ \A n : Key(r, n) = Key(t, n) /\ Fact(r, n) = Fact(t, n)
    BY <2>4, SameBatch
  <2>7. Lines(r.file) \ r.todo = (Lines(t.file) \ t.todo) \cup {l}
    BY <1>4, <2>4
  <2>8. ASSUME NEW n \in Lines(r.file) \ r.todo
        PROVE  Seen(r, metrics, Key(r, n)) = Fact(r, n)
    <3>1. CASE n = l
      BY <2>1, <2>2, <2>4, <2>6, <3>1 DEF Seen
    <3>2. CASE n # l
      <4>1. n \in Lines(t.file) \ t.todo
        BY <2>7, <2>8, <3>2
      <4>2. Seen(t, metrics, Key(t, n)) = Fact(t, n) /\ Fact(t, n) # None
        BY <1>1, <1>4, <4>1, FactOf DEF Inserting
      <4>3. Key(t, n) # k /\ Key(t, n) \in Keys
        BY <1>4, <1>9, <4>1, <4>2, KeyOf
      <4>4. Seen(r, metrics, Key(t, n)) = Seen(t, metrics, Key(t, n))
        BY <2>2, <2>4, <4>3 DEF Seen
      <4> QED BY <2>6, <4>2, <4>4
    <3> QED BY <3>1, <3>2
  <2>9. ASSUME NEW q \in Own(r)
        PROVE  metrics[q] = None /\ \E n \in Lines(r.file) \ r.todo : Key(r, n) = q
    <3>1. CASE q = k
      BY <2>1, <2>6, <2>7, <3>1
    <3>2. CASE q # k
      <4>1. q \in Own(t)
        BY <2>5, <2>9, <3>2
      <4>2. metrics[q] = None /\ \E n \in Lines(t.file) \ t.todo : Key(t, n) = q
        BY <1>1, <1>4, <4>1 DEF Inserting
      <4> QED BY <2>6, <2>7, <4>2
    <3> QED BY <3>1, <3>2
  <2>10. Inserting(r, metrics, receipts)
    <3>1. receipts[r.file] = None /\ r.todo \subseteq Lines(r.file) /\ r.made \subseteq Evidence(r)
      BY <1>1, <1>4, <2>4, <2>6 DEF Inserting
    <3> QED BY <2>4, <2>8, <2>9, <3>1 DEF Inserting
  <2>11. Counted(r)
    <3>1. /\ IsFiniteSet(Own(t)) /\ t.inserted = Cardinality(Own(t))
          /\ t.inserted + t.unchanged + Cardinality(t.todo) = Len(Content[t.file])
      BY <1>1, <1>4 DEF Counted
    <3>2. IsFiniteSet(Own(r)) /\ Cardinality(Own(r)) = Cardinality(Own(t)) + 1
      BY <2>5, <3>1, FS_AddElement
    <3> QED BY <1>6, <1>8, <2>4, <3>1, <3>2 DEF Counted
  <2>12. \A j \in Importers \ {i} : Apart(r, run[j])
    <3> SUFFICES ASSUME NEW j \in Importers \ {i}
                 PROVE  Apart(r, run[j])
      OBVIOUS
    <3>1. run[j].mine[k] = None /\ Apart(t, run[j])
      BY <1>2, <1>3 DEF FreeKey, JInv
    <3>2. k \notin Own(run[j])
      BY <3>1 DEF Own
    <3> QED BY <1>1, <2>4, <2>5, <3>1, <3>2 DEF Apart
  <2>13. Good(i, r, metrics, receipts, aliases)
    <3>1. r.outcome = None /\ r.pc = "insert" /\ Writing(r)
      BY <1>1, <2>4, AtWriting DEF Writing
    <3>2. Opened(i, r) /\ Unwritten(r) /\ Receipted(r) /\ Validating(r, metrics, receipts)
      BY <1>4, <2>4, <3>1 DEF Opened, Unwritten, Receipted, Validating
    <3>3. Resolved(r)
      BY <1>4, <2>4 DEF Resolved
    <3>4. Succeeded(r, metrics, receipts, aliases) /\ Refused(r, metrics, receipts)
      BY <3>1, NoneIsNoRow DEF Succeeded, Refused, Outcomes
    <3> QED BY <2>10, <2>11, <3>1, <3>2, <3>3, <3>4 DEF Good
  <2> QED BY <1>1, <2>3, <2>4, <2>12, <2>13, QuietKeeps
<1>10. CASE /\ Seen(t, metrics, k) = Fact(t, l)
            /\ Sets(i, [t EXCEPT !.todo = @ \ {l}, !.unchanged = @ + 1])
  <2> DEFINE todo == t.todo \ {l}
             unchanged == t.unchanged + 1
             r == [t EXCEPT !.todo = todo, !.unchanged = unchanged]
  <2>1. /\ r \in Runs /\ r.pc = "insert" /\ r.file = t.file /\ r.venues = t.venues
        /\ r.license = t.license /\ r.outcome = t.outcome /\ r.mine = t.mine
        /\ r.made = t.made /\ r.inserted = t.inserted /\ r.unchanged = unchanged
        /\ r.todo = todo
    <3>1. unchanged \in Nat /\ todo \in SUBSET Nat
      BY <1>4, <1>6
    <3> HIDE DEF unchanged, todo
    <3> QED BY <1>1, <1>4, <3>1 DEF Runs
  <2>2. run' = [run EXCEPT ![i] = r]
    BY <1>10 DEF Sets
  <2> HIDE DEF r
  <2>3. /\ Own(r) = Own(t) /\ Evidence(r) = Evidence(t) /\ Writing(r)
        /\ (\A n : Key(r, n) = Key(t, n) /\ Fact(r, n) = Fact(t, n))
        /\ (\A q : Seen(r, metrics, q) = Seen(t, metrics, q))
    <3>1. \A q : Seen(r, metrics, q) = Seen(t, metrics, q)
      BY <2>1 DEF Seen
    <3>2. Own(r) = Own(t) /\ Writing(r)
      BY <2>1 DEF Own, Writing
    <3> QED BY <2>1, <3>1, <3>2, SameBatch
  <2>4. Lines(r.file) \ r.todo = (Lines(t.file) \ t.todo) \cup {l}
    BY <1>4, <2>1
  <2>5. ASSUME NEW n \in Lines(r.file) \ r.todo
        PROVE  Seen(r, metrics, Key(r, n)) = Fact(r, n)
    <3>1. Seen(t, metrics, Key(t, n)) = Fact(t, n)
      BY <1>1, <1>4, <1>10, <2>4, <2>5 DEF Inserting
    <3> QED BY <2>3, <3>1
  <2>6. Inserting(r, metrics, receipts)
    <3>1. receipts[r.file] = None /\ r.todo \subseteq Lines(r.file) /\ r.made \subseteq Evidence(r)
      BY <1>1, <1>4, <2>1, <2>3 DEF Inserting
    <3>2. ASSUME NEW q \in Own(r)
          PROVE  metrics[q] = None /\ \E n \in Lines(r.file) \ r.todo : Key(r, n) = q
      <4>1. metrics[q] = None /\ \E n \in Lines(t.file) \ t.todo : Key(t, n) = q
        BY <1>1, <1>4, <2>3, <3>2 DEF Inserting
      <4> QED BY <2>3, <2>4, <4>1
    <3> QED BY <2>1, <2>5, <3>1, <3>2 DEF Inserting
  <2>7. Counted(r)
    <3>1. /\ IsFiniteSet(Own(t)) /\ t.inserted = Cardinality(Own(t))
          /\ t.inserted + t.unchanged + Cardinality(t.todo) = Len(Content[t.file])
      BY <1>1, <1>4 DEF Counted
    <3> QED BY <1>6, <1>8, <2>1, <2>3, <3>1 DEF Counted
  <2>8. Receipted(r)
    BY <2>1 DEF Receipted
  <2> QED BY <1>1, <2>1, <2>2, <2>3, <2>6, <2>7, <2>8, WritingKeeps
<1>11. CASE Seen(t, metrics, k) \notin {None, Fact(t, l)} /\ Fails(i, "conflict")
  <2>1. \/ metrics[k] # None /\ metrics[k].fact # Fact(t, l)
        \/ \E n \in Lines(t.file) : Key(t, n) = k /\ Fact(t, n) # Fact(t, l)
    <3>1. CASE metrics[k] # None
      BY <1>11, <3>1 DEF Seen
    <3>2. CASE metrics[k] = None
      <4>1. k \in Own(t)
        BY <1>5, <1>11, <3>2 DEF Seen, Own
      <4>2. PICK n \in Lines(t.file) \ t.todo : Key(t, n) = k
        BY <1>1, <1>4, <4>1 DEF Inserting
      <4>3. Fact(t, n) = Seen(t, metrics, k)
        BY <1>1, <1>4, <4>2 DEF Inserting
      <4> QED BY <1>11, <4>2, <4>3
    <3> QED BY <3>1, <3>2
  <2>2. \A e : /\ e.file = t.file /\ e.license = t.license
               /\ e.venues = t.venues /\ e.outcome = "conflict" /\ e.receipt = None
               => Succeeded(e, metrics, receipts, aliases) /\ Refused(e, metrics, receipts)
    BY <1>4, <2>1, SameBatch DEF Succeeded, Refused
  <2> QED BY <1>1, <1>4, <1>11, <2>2, EndKeeps DEF Fails, Outcomes
<1> QED BY <1>2, <1>3, <1>9, <1>10, <1>11

(***************************************************************************)
(* The commit.                                                             *)
(***************************************************************************)
\* What a commit does to the tables.
LEMMA PublishIs ==
  ASSUME JInv, NEW i \in Importers, At(i, "commit"), Publish(i)
  PROVE  /\ metrics' \in [Keys -> StoredRows \cup {None}]
         /\ receipts' \in [Files -> Receipts \cup {None}]
         /\ \A k \in Keys \ Own(run[i]) : metrics'[k] = metrics[k]
         /\ \A k \in Own(run[i]) :
              /\ metrics[k] = None /\ metrics'[k] # None
              /\ metrics'[k] = [fact |-> run[i].mine[k], file |-> run[i].file]
         /\ receipts[run[i].file] = None
         /\ receipts'[run[i].file] = ReceiptOf(run[i]) /\ ReceiptOf(run[i]) \in Receipts
         /\ \A f \in Files \ {run[i].file} : receipts'[f] = receipts[f]
         /\ aliases' = aliases \cup Evidence(run[i])
<1> DEFINE t == run[i]
<1>1. Writing(t) /\ t.pc = "commit"
  BY DEF At, Writing
<1>2. /\ t \in Runs /\ t.file \in Files /\ t.receipt = ReceiptOf(t) /\ t.made = Evidence(t)
      /\ receipts[t.file] = None /\ \A k \in Own(t) : metrics[k] = None
      /\ t.mine \in [Keys -> Facts \cup {None}]
  BY <1>1, AtWriting DEF Receipted, Inserting, Runs
<1>3. t.receipt \in Receipts
  <2>1. t.receipt \in Receipts \cup {None}
    BY <1>2 DEF Runs
  <2>2. ReceiptOf(t) \in Receipts
    <3>1. [l \in Lines(t.file) |-> Key(t, l)] \in [Lines(t.file) -> Keys]
      BY <1>1, AtWriting, KeyOf
    <3>2. [l \in Lines(t.file) |-> Key(t, l)] \in UNION {[DOMAIN Content[f] -> Keys] : f \in Files}
      BY <1>2, <3>1 DEF Lines
    <3>3. Evidence(t) \subseteq Aliases
      BY <1>1, AtWriting, EvidenceOf
    <3>4. Len(Content[t.file]) \in Nat /\ t.inserted \in Nat /\ t.unchanged \in Nat
      BY <1>2, LinesOf DEF Runs
    <3> QED BY <3>2, <3>3, <3>4 DEF ReceiptOf, Receipts
  <2> QED BY <1>2, <2>2
<1>4. metrics' = [k \in Keys |-> IF t.mine[k] = None THEN metrics[k]
                                 ELSE [fact |-> t.mine[k], file |-> t.file]]
  BY DEF Publish
<1>5. \A k \in Own(t) : /\ [fact |-> t.mine[k], file |-> t.file] \in StoredRows
                        /\ [fact |-> t.mine[k], file |-> t.file] # None
  BY <1>2, NoneIsNoRow DEF Own, StoredRows
<1>6. \A k \in Keys \ Own(t) : metrics'[k] = metrics[k]
  BY <1>4 DEF Own
<1>7. \A k \in Own(t) : metrics'[k] = [fact |-> t.mine[k], file |-> t.file]
  BY <1>4 DEF Own
<1>8. metrics' \in [Keys -> StoredRows \cup {None}]
  <2>1. \A k \in Keys : metrics'[k] \in StoredRows \cup {None}
    BY <1>5, <1>6, <1>7 DEF JInv, TypeOK
  <2> QED BY <1>4, <2>1
<1>9. /\ receipts' \in [Files -> Receipts \cup {None}] /\ receipts'[t.file] = ReceiptOf(t)
      /\ \A f \in Files \ {t.file} : receipts'[f] = receipts[f]
  BY <1>2, <1>3 DEF Publish, JInv, TypeOK
<1>10. aliases' = aliases \cup Evidence(t)
  BY <1>2 DEF Publish
<1> QED BY <1>2, <1>3, <1>5, <1>6, <1>7, <1>8, <1>9, <1>10

\* The rows of the file are then there as the file has them.
LEMMA PublishedRows ==
  ASSUME JInv, NEW i \in Importers, At(i, "commit"), Publish(i), NEW l \in Lines(run[i].file)
  PROVE  /\ metrics'[Key(run[i], l)] # None
         /\ metrics'[Key(run[i], l)].fact = Fact(run[i], l)
<1> DEFINE t == run[i]
           k == Key(t, l)
<1>1. Writing(t) /\ t.pc = "commit"
  BY DEF At, Writing
<1>2. Seen(t, metrics, k) = Fact(t, l) /\ k \in Keys /\ Fact(t, l) # None
  <2>1. /\ t \in Runs /\ t.file \in Files /\ t.license \in STRING /\ t.todo = {}
        /\ Len(t.venues) = Len(Content[t.file]) /\ Inserting(t, metrics, receipts)
    BY <1>1, AtWriting DEF Inserting
  <2>2. Seen(t, metrics, k) = Fact(t, l)
    BY <1>1, <2>1 DEF Inserting
  <2>3. k \in Keys
    BY <2>1, KeyOf
  <2>4. Fact(t, l) # None
    BY <2>1, FactOf
  <2> QED BY <2>2, <2>3, <2>4
<1>3. CASE k \in Own(t)
  <2>1. /\ metrics[k] = None /\ metrics'[k] # None
        /\ metrics'[k] = [fact |-> t.mine[k], file |-> t.file]
    BY <1>3, PublishIs
  <2>2. t.mine[k] = Fact(t, l)
    BY <1>2, <2>1 DEF Seen
  <2> QED BY <2>1, <2>2
<1>4. CASE k \notin Own(t)
  BY <1>2, <1>4, PublishIs DEF Seen, Own
<1> QED BY <1>3, <1>4

\* Of another import, s, the commit of t disturbs nothing.
LEMMA OthersKeep ==
  ASSUME NEW j \in Importers, NEW s \in Runs, NEW t,
         NEW m, NEW c, NEW a, NEW m2, NEW c2, NEW a2,
         Good(j, s, m, c, a), Apart(t, s), t.pc \in InTransaction, c[t.file] = None,
         \A k \in Keys \ Own(t) : m2[k] = m[k], \A k \in Own(t) : m[k] = None,
         \A f \in Files \ {t.file} : c2[f] = c[f], a \subseteq a2
  PROVE  Good(j, s, m2, c2, a2)
<1>1. \A k \in Keys : m[k] # None => m2[k] = m[k]
  OBVIOUS
<1>2. /\ Opened(j, s) /\ Resolved(s) /\ Unwritten(s) /\ Counted(s) /\ Receipted(s)
      /\ s.outcome # None => s.pc = "done"
  BY DEF Good
<1>3. s.pc \in InTransaction => s.pc \notin {"idle", "done"}
  BY DEF InTransaction
<1>4. s.pc \in InTransaction =>
        /\ s.file \in Files /\ s.license \in STRING /\ c2[s.file] = c[s.file]
        /\ Len(s.venues) = Len(Content[s.file])
  BY <1>2, <1>3, NoneIsNoRow DEF Opened, Resolved, Apart
<1>5. s.outcome \in {"stored", "conflict"} =>
        s.file \in Files /\ Len(s.venues) = Len(Content[s.file])
  BY <1>2 DEF Opened, Resolved
<1>6. Inserting(s, m2, c2)
  <2> SUFFICES ASSUME Writing(s)
               PROVE  Inserting(s, m2, c2)
    BY DEF Inserting
  <2>1. s.pc \in InTransaction /\ Inserting(s, m, c)
    BY DEF Good, Writing, InTransaction
  <2>2. ASSUME NEW l \in Lines(s.file) \ s.todo
        PROVE  Seen(s, m2, Key(s, l)) = Fact(s, l)
    <3>1. /\ Seen(s, m, Key(s, l)) = Fact(s, l) /\ Key(s, l) \in Keys /\ Fact(s, l) # None
      BY <1>4, <2>1, KeyOf, FactOf DEF Inserting
    <3>2. Key(s, l) \notin Own(t)
      BY <3>1 DEF Apart, Seen, Own
    <3> QED BY <3>1, <3>2 DEF Seen
  <2>3. ASSUME NEW k \in Own(s)
        PROVE  m2[k] = None
    BY <2>1 DEF Inserting, Apart, Own
  <2> QED BY <1>4, <2>1, <2>2, <2>3 DEF Inserting
<1>7. Validating(s, m2, c2)
  <2> SUFFICES ASSUME s.pc = "validate"
               PROVE  Validating(s, m2, c2)
    BY DEF Validating
  <2>1. s.pc \in InTransaction /\ Validating(s, m, c)
    BY DEF Good, InTransaction
  <2> QED BY <1>1, <1>4, <2>1, KeyOf DEF Validating
<1>8. Succeeded(s, m2, c2, a2)
  <2> SUFFICES ASSUME s.outcome = "stored"
               PROVE  Succeeded(s, m2, c2, a2)
    BY DEF Succeeded
  <2>1. Succeeded(s, m, c, a) /\ s.file \in Files
    BY <1>5 DEF Good
  <2>2. c2[s.file] = c[s.file]
    BY <2>1 DEF Succeeded
  <2> QED BY <1>1, <1>5, <2>1, <2>2, KeyOf DEF Succeeded
<1>9. Refused(s, m2, c2)
  <2> SUFFICES ASSUME s.outcome = "conflict"
               PROVE  Refused(s, m2, c2)
    BY DEF Refused
  <2>1. PICK l \in Lines(s.file) :
          \/ m[Key(s, l)] # None /\ m[Key(s, l)].fact # Fact(s, l)
          \/ \E n \in Lines(s.file) : Key(s, n) = Key(s, l) /\ Fact(s, n) # Fact(s, l)
          \/ c[s.file] # None /\ c[s.file].links[l] # Key(s, l)
    BY DEF Good, Refused
  <2>2. Key(s, l) \in Keys
    BY <1>5, KeyOf
  <2>3. c[s.file] # None => c2[s.file] = c[s.file]
    BY <1>5
  <2> QED BY <1>1, <2>1, <2>2, <2>3 DEF Refused
<1> QED BY <1>2, <1>6, <1>7, <1>8, <1>9 DEF Good

\* The import returns, answered or not.
LEMMA CommitKeeps ==
  ASSUME JInv, NEW i \in Importers, At(i, "commit"), Publish(i), UNCHANGED registered,
         NEW outcome \in {"stored", "failed"}, NEW receipt \in Receipts \cup {None},
         outcome = "stored" => receipt = run[i].receipt,
         Ends(i, outcome, receipt)
  PROVE  JInv'
<1> DEFINE t == run[i]
           e == [NoRun EXCEPT !.pc = "done", !.file = t.file, !.license = t.license,
                   !.venues = t.venues, !.outcome = outcome, !.receipt = receipt]
<1>1. /\ Writing(t) /\ t.pc \in InTransaction /\ t.receipt = ReceiptOf(t)
      /\ t \in Runs /\ t.file \in Files /\ t.license \in Licenses[i]
      /\ Len(t.venues) = Len(Content[t.file])
  <2>1. Writing(t)
    BY DEF At, Writing
  <2> QED BY <2>1, AtWriting DEF Receipted, At
<1>2. run' = [run EXCEPT ![i] = e]
  BY DEF Ends, Sets
<1>3. /\ e \in Runs /\ e.pc = "done" /\ e.file = t.file /\ e.license = t.license
      /\ e.venues = t.venues /\ e.outcome = outcome /\ e.receipt = receipt
      /\ e.made = {} /\ e.mine = [k \in Keys |-> None] /\ e.inserted = 0
      /\ e.unchanged = 0 /\ Own(e) = {}
  <2>1. outcome \in Outcomes
    BY DEF Outcomes
  <2>2. t \in Runs
    BY <1>1
  <2> HIDE DEF t
  <2> QED BY <2>1, <2>2, EndedIs
<1> HIDE DEF e
<1>4. run'[i] = e /\ (\A j \in Importers \ {i} : run'[j] = run[j]) /\ run' \in [Importers -> Runs]
  BY <1>2, <1>3 DEF JInv, TypeOK
<1>5. TypeOK'
  BY <1>4, PublishIs DEF JInv, TypeOK
<1>6. /\ ReceiptOf(t).aliases = Evidence(t)
      /\ \A l \in Lines(t.file) : ReceiptOf(t).links[l] = Key(t, l)
  BY DEF ReceiptOf
<1>7. ReceiptsHold'
  <2> SUFFICES ASSUME NEW f \in Files, receipts'[f] # None
               PROVE  /\ \A l \in Lines(f) : /\ receipts'[f].links[l] \in Keys
                                             /\ metrics'[receipts'[f].links[l]] # None
                      /\ receipts'[f].aliases \subseteq aliases'
    BY DEF ReceiptsHold, Lines
  <2>1. CASE f = t.file
    <3>1. receipts'[f] = ReceiptOf(t) /\ Evidence(t) \subseteq aliases'
      BY <2>1, PublishIs
    <3>2. ASSUME NEW l \in Lines(f)
          PROVE  /\ receipts'[f].links[l] \in Keys
                 /\ metrics'[receipts'[f].links[l]] # None
      <4>1. receipts'[f].links[l] = Key(t, l)
        BY <1>6, <2>1, <3>1
      <4>2. Key(t, l) \in Keys
        BY <1>1, <2>1, KeyOf
      <4>3. metrics'[Key(t, l)] # None
        BY <2>1, PublishedRows
      <4> QED BY <4>1, <4>2, <4>3
    <3> QED BY <1>6, <3>1, <3>2
  <2>2. CASE f # t.file
    <3>1. receipts'[f] = receipts[f] /\ receipts[f].aliases \subseteq aliases
          /\ \A l \in Lines(f) : /\ receipts[f].links[l] \in Keys
                                 /\ metrics[receipts[f].links[l]] # None
      BY <2>2, PublishIs DEF JInv, ReceiptsHold
    <3>2. \A k \in Keys : metrics[k] # None => metrics'[k] # None
      BY PublishIs
    <3>3. aliases \subseteq aliases'
      BY PublishIs
    <3> QED BY <3>1, <3>2, <3>3
  <2> QED BY <2>1, <2>2
<1>8. Good(i, e, metrics', receipts', aliases')
  <2>1. \A n : Key(e, n) = Key(t, n) /\ Fact(e, n) = Fact(t, n)
    BY <1>3, SameBatch
  <2>2. Succeeded(e, metrics', receipts', aliases')
    <3> SUFFICES ASSUME outcome = "stored"
                 PROVE  Succeeded(e, metrics', receipts', aliases')
      BY <1>3 DEF Succeeded
    <3>1. receipts'[t.file] = ReceiptOf(t) /\ ReceiptOf(t) # None
          /\ Evidence(t) \subseteq aliases'
      BY PublishIs, NoneIsNoRow
    <3>2. \A l \in Lines(t.file) : metrics'[Key(t, l)] # None
                                   /\ metrics'[Key(t, l)].fact = Fact(t, l)
      BY PublishedRows
    <3> QED BY <1>1, <1>3, <1>6, <2>1, <3>1, <3>2 DEF Succeeded
  <2>3. Refused(e, metrics', receipts')
    BY <1>3 DEF Refused
  <2> QED BY <1>1, <1>3, <2>2, <2>3, EndedIsGood
<1>9. ASSUME NEW j \in Importers \ {i}
      PROVE  Good(j, run[j], metrics', receipts', aliases')
  <2>1. run[j] \in Runs /\ Good(j, run[j], metrics, receipts, aliases) /\ Apart(t, run[j])
    BY DEF JInv, TypeOK
  <2>2. /\ receipts[t.file] = None /\ aliases \subseteq aliases'
        /\ \A k \in Keys \ Own(t) : metrics'[k] = metrics[k]
        /\ \A k \in Own(t) : metrics[k] = None
        /\ \A f \in Files \ {t.file} : receipts'[f] = receipts[f]
    BY PublishIs
  <2> QED BY <1>1, <2>1, <2>2, OthersKeep
<1>10. ASSUME NEW j \in Importers
       PROVE  Good(j, run[j], metrics, receipts, aliases)'
  <2>1. Good(j, run'[j], metrics', receipts', aliases')
    BY <1>4, <1>8, <1>9
  <2> QED BY <2>1
<1>11. ASSUME NEW j \in Importers, NEW k \in Importers, j # k
       PROVE  Apart(run[j], run[k])'
  <2>1. Apart(run'[j], run'[k])
    BY <1>3, <1>4, <1>11, EndedIsApart, ApartIsSymmetric DEF JInv
  <2> QED BY <2>1
<1> QED BY <1>5, <1>7, <1>10, <1>11 DEF JInv

(***************************************************************************)
(* The invariant.                                                          *)
(***************************************************************************)
LEMMA RegisterVenueKeeps ==
  ASSUME JInv, NEW v \in Venues, RegisterVenue(v)
  PROVE  JInv'
<1>1. UNCHANGED <<metrics, receipts, aliases, run>> /\ registered' \subseteq Venues
  BY DEF RegisterVenue, tables, JInv, TypeOK
<1>2. TypeOK' /\ ReceiptsHold'
  BY <1>1 DEF JInv, TypeOK, ReceiptsHold, Lines
<1>3. ASSUME NEW i \in Importers
      PROVE  Good(i, run[i], metrics, receipts, aliases)'
  BY <1>1 DEF JInv
<1>4. ASSUME NEW i \in Importers, NEW j \in Importers, i # j
      PROVE  Apart(run[i], run[j])'
  BY <1>1, <1>4 DEF JInv
<1> QED BY <1>2, <1>3, <1>4 DEF JInv

LEMMA InitIsGood ==
  ASSUME Init
  PROVE  JInv
<1>1. TypeOK
  BY NoRunIs DEF Init, TypeOK
<1>2. ReceiptsHold
  BY DEF Init, ReceiptsHold
<1>3. ASSUME NEW i \in Importers
      PROVE  Good(i, run[i], metrics, receipts, aliases)
  BY NoRunIs, NoneIsNoRow DEF Init, Good, Opened, Resolved, Unwritten, Inserting, Counted,
     Receipted, Validating, Writing, InTransaction, Succeeded, Refused, Outcomes
<1>4. ASSUME NEW i \in Importers, NEW j \in Importers
      PROVE  Apart(run[i], run[j])
  BY NoRunIs DEF Init, Apart, InTransaction
<1> QED BY <1>1, <1>2, <1>3, <1>4 DEF JInv

LEMMA CommitOf ==
  ASSUME JInv, NEW i \in Importers, Commit(i) \/ CommitUnanswered(i)
  PROVE  JInv'
<1>1. CASE Commit(i)
  <2>1. run[i].receipt \in Receipts \cup {None}
    BY AtWork DEF Runs
  <2>2. At(i, "commit") /\ Publish(i) /\ Ends(i, "stored", run[i].receipt) /\ UNCHANGED registered
    BY <1>1 DEF Commit
  <2> QED BY <2>1, <2>2, CommitKeeps
<1>2. CASE CommitUnanswered(i)
  <2>1. At(i, "commit") /\ Publish(i) /\ Ends(i, "failed", None) /\ UNCHANGED registered
    BY <1>2 DEF CommitUnanswered, Faulty, Fails
  <2> QED BY <2>1, CommitKeeps
<1> QED BY <1>1, <1>2

LEMMA JInvStep ==
  ASSUME JInv, [Next]_vars
  PROVE  JInv'
<1>1. CASE UNCHANGED vars
  <2>1. UNCHANGED <<registered, metrics, receipts, aliases, run>>
    BY <1>1 DEF vars, tables
  <2>2. TypeOK' /\ ReceiptsHold'
    BY <2>1 DEF JInv, TypeOK, ReceiptsHold, Lines
  <2>3. ASSUME NEW i \in Importers
        PROVE  Good(i, run[i], metrics, receipts, aliases)'
    BY <2>1 DEF JInv
  <2>4. ASSUME NEW i \in Importers, NEW j \in Importers, i # j
        PROVE  Apart(run[i], run[j])'
    BY <2>1, <2>4 DEF JInv
  <2> QED BY <2>2, <2>3, <2>4 DEF JInv
<1>2. CASE \E v \in Venues : RegisterVenue(v)
  BY <1>2, RegisterVenueKeeps
<1>3. ASSUME NEW i \in Importers, NEW f \in Files, NEW license \in Licenses[i],
             Open(i, f, license)
      PROVE  JInv'
  BY <1>3, OpenKeeps
<1>4. ASSUME NEW i \in Importers, Abort(i)
      PROVE  JInv'
  <2>1. Fails(i, "failed") /\ UNCHANGED <<registered, metrics, receipts, aliases>>
    BY <1>4 DEF Abort, Faulty, tables
  <2> QED BY <2>1, FailureKeeps
<1>5. ASSUME NEW i \in Importers, Progress(i) \/ CommitUnanswered(i)
      PROVE  JInv'
  BY <1>5, ParseKeeps, ResolveKeeps, LockFileKeeps, LockAliasKeeps, FindImportKeeps,
     ValidateRowKeeps, ReturnExistingKeeps, InsertRowKeeps, RowsDoneKeeps, WriteReceiptKeeps,
     PersistAliasKeeps, CommitOf DEF Progress
<1> QED BY <1>1, <1>2, <1>3, <1>4, <1>5 DEF Next

\* Whatever the imports do, JInv holds of every one of them and any two.
THEOREM ImportsInvariant == Spec => []JInv
<1>1. Init => JInv
  BY InitIsGood
<1>2. JInv /\ [Next]_vars => JInv'
  BY JInvStep
<1> QED BY <1>1, <1>2, PTL DEF Spec

\* SuccessMeansStored: an import that reports success returns the one receipt
\* of its file, and the tables hold its rows and its aliases, whatever the
\* others imported meanwhile and since.
THEOREM SuccessIsStored == Spec => []SuccessMeansStored
<1>1. JInv => SuccessMeansStored
  <2> SUFFICES ASSUME JInv, NEW i \in Importers, run[i].outcome = "stored"
               PROVE  /\ run[i].receipt = receipts[run[i].file]
                      /\ \A l \in Lines(run[i].file) :
                           /\ metrics[KeyAt(i, l)] # None
                           /\ metrics[KeyAt(i, l)].fact = FactAt(i, l)
                      /\ receipts[run[i].file].aliases \subseteq aliases
    BY DEF SuccessMeansStored
  <2>1. Succeeded(run[i], metrics, receipts, aliases)
    BY DEF JInv, Good
  <2> QED BY <2>1 DEF Succeeded, KeyAt, FactAt, Key, Fact
<1> QED BY <1>1, ImportsInvariant, PTL

\* ConflictIsReal: an import refused as conflicting met a stored row of another
\* value, names one key with two values, or repeats a file whose rows now name
\* other venues; a row that was rolled back never makes one.
THEOREM ConflictsAreReal == Spec => []ConflictIsReal
<1>1. JInv => ConflictIsReal
  <2> SUFFICES ASSUME JInv, NEW i \in Importers, run[i].outcome = "conflict"
               PROVE  \E l \in Lines(run[i].file) :
                        \/ /\ metrics[KeyAt(i, l)] # None
                           /\ metrics[KeyAt(i, l)].fact # FactAt(i, l)
                        \/ \E m \in Lines(run[i].file) :
                             KeyAt(i, m) = KeyAt(i, l) /\ FactAt(i, m) # FactAt(i, l)
                        \/ /\ receipts[run[i].file] # None
                           /\ receipts[run[i].file].links[l] # KeyAt(i, l)
    BY DEF ConflictIsReal
  <2>1. Refused(run[i], metrics, receipts)
    BY DEF JInv, Good
  <2> QED BY <2>1 DEF Refused, KeyAt, FactAt, Key, Fact
<1> QED BY <1>1, ImportsInvariant, PTL

(***************************************************************************)
(* The refinement: a commit is an import of the ledger, and every other    *)
(* step leaves the tables alone.                                           *)
(***************************************************************************)
\* The batch of a committing import is one its file may have.
LEMMA BatchIs ==
  ASSUME JInv, NEW i \in Importers, At(i, "commit"), NEW t, t = run[i],
         NEW b, b = Batch(t.file, t.venues, t.license)
  PROVE  /\ b \in BatchesOf[t.file]
         /\ DOMAIN b.rows = Lines(t.file) /\ Len(b.rows) = Len(Content[t.file])
         /\ \A l \in Lines(t.file) : b.rows[l].key = Key(t, l) /\ b.rows[l].fact = Fact(t, l)
         /\ b.aliases = Evidence(t)
<1>1. /\ t \in Runs /\ t.file \in Files /\ t.license \in Licenses[i]
      /\ Len(t.venues) = Len(Content[t.file])
  <2>1. Writing(run[i])
    BY DEF At, Writing
  <2> QED BY <2>1, AtWriting
<1>2. Len(Content[t.file]) \in Nat /\ Lines(t.file) = 1..Len(Content[t.file])
  BY <1>1, LinesOf
<1>3. t.venues \in [Lines(t.file) -> Venues]
  <2>1. t.venues \in Seq(Venues)
    BY <1>1 DEF Runs
  <2>2. t.venues \in [1..Len(t.venues) -> Venues]
    BY <2>1, LenProperties
  <2> QED BY <1>1, <1>2, <2>2
<1>4. b \in BatchesOf[t.file]
  BY <1>1, <1>3 DEF BatchesOf
<1>5. /\ b.rows = [l \in Lines(t.file) |-> [key |-> Key(t, l), fact |-> Fact(t, l)]]
      /\ b.aliases = Evidence(t)
  BY DEF Batch, Key, Fact, Evidence
<1>6. Len(b.rows) = Len(Content[t.file])
  <2> DEFINE n == Len(Content[t.file])
             S == {[key |-> Key(t, l), fact |-> Fact(t, l)] : l \in Lines(t.file)}
  <2>1. n \in Nat /\ b.rows \in [1..n -> S] /\ DOMAIN b.rows = 1..n
    BY <1>2, <1>5
  <2> HIDE DEF S, n
  <2>2. b.rows \in Seq(S)
    BY <2>1
  <2>3. Len(b.rows) \in Nat /\ DOMAIN b.rows = 1..Len(b.rows)
    BY <2>2, LenProperties
  <2>4. 1..n = 1..Len(b.rows) => n = Len(b.rows)
    BY <2>1, <2>3
  <2>5. n = Len(b.rows)
    BY <2>1, <2>3, <2>4
  <2> QED BY <2>5 DEF n
<1> QED BY <1>4, <1>5, <1>6

LEMMA LedgerCounts ==
  ASSUME NEW S
  PROVE  Ledger!Cardinality(S) = Cardinality(S)
BY DEF Cardinality, Ledger!Cardinality

LEMMA CommitImports ==
  ASSUME JInv, NEW i \in Importers, At(i, "commit"), Publish(i)
  PROVE  Ledger!Next
<1> DEFINE t == run[i]
           b == Batch(t.file, t.venues, t.license)
           rows == b.rows
<1>1. /\ b \in BatchesOf[t.file]
      /\ DOMAIN rows = Lines(t.file) /\ Len(rows) = Len(Content[t.file])
      /\ \A l \in Lines(t.file) : rows[l].key = Key(t, l) /\ rows[l].fact = Fact(t, l)
      /\ b.aliases = Evidence(t)
  BY BatchIs
<1> HIDE DEF b
<1>2. Writing(t) /\ t.pc = "commit"
  BY DEF At, Writing
<1>3. /\ t \in Runs /\ t.file \in Files /\ t.license \in STRING /\ t.todo = {}
      /\ Len(t.venues) = Len(Content[t.file]) /\ Inserting(t, metrics, receipts) /\ Counted(t)
  BY <1>2, AtWriting DEF Inserting
<1>4. \A l \in Lines(t.file) :
        /\ Seen(t, metrics, Key(t, l)) = Fact(t, l)
        /\ Key(t, l) \in Keys /\ Fact(t, l) # None
  <2> SUFFICES ASSUME NEW l \in Lines(t.file)
               PROVE  /\ Seen(t, metrics, Key(t, l)) = Fact(t, l)
                      /\ Key(t, l) \in Keys /\ Fact(t, l) # None
    OBVIOUS
  <2>1. Seen(t, metrics, Key(t, l)) = Fact(t, l)
    BY <1>2, <1>3 DEF Inserting
  <2>2. Key(t, l) \in Keys
    BY <1>3, KeyOf
  <2>3. Fact(t, l) # None
    BY <1>3, FactOf
  <2> QED BY <2>1, <2>2, <2>3
<1>5. Ledger!Fits(rows)
  <2>1. ASSUME NEW l \in DOMAIN rows, metrics[rows[l].key] # None
        PROVE  metrics[rows[l].key].fact = rows[l].fact
    BY <1>1, <1>4, <2>1 DEF Seen
  <2>2. ASSUME NEW l \in DOMAIN rows, NEW m \in DOMAIN rows, rows[m].key = rows[l].key
        PROVE  rows[m].fact = rows[l].fact
    BY <1>1, <1>4, <2>2
  <2> QED BY <2>1, <2>2 DEF Ledger!Fits
<1>6. Ledger!New(rows) = Own(t)
  <2>1. ASSUME NEW k \in Keys, metrics[k] = None, NEW l \in DOMAIN rows, rows[l].key = k
        PROVE  k \in Own(t)
    BY <1>1, <1>4, <2>1 DEF Seen, Own
  <2>2. ASSUME NEW k \in Own(t)
        PROVE  k \in Keys /\ metrics[k] = None /\ \E l \in DOMAIN rows : rows[l].key = k
    BY <1>1, <1>2, <1>3, <2>2 DEF Inserting, Own
  <2> QED BY <2>1, <2>2 DEF Ledger!New
<1>7. ASSUME NEW k \in Own(t)
      PROVE  Ledger!FactOf(rows, k) = t.mine[k]
  <2> DEFINE l == CHOOSE n \in DOMAIN rows : rows[n].key = k
  <2>1. \E n \in DOMAIN rows : rows[n].key = k
    BY <1>6, <1>7 DEF Ledger!New
  <2>2. l \in DOMAIN rows /\ rows[l].key = k
    BY <2>1
  <2>3. Ledger!FactOf(rows, k) = rows[l].fact
    BY DEF Ledger!FactOf
  <2> HIDE DEF l
  <2>4. rows[l].fact = Seen(t, metrics, k)
    BY <1>1, <1>4, <2>2
  <2>5. metrics[k] = None
    BY <1>7, PublishIs
  <2> QED BY <2>3, <2>4, <2>5 DEF Seen
<1>8. metrics' = [k \in Keys |-> IF k \in Own(t)
                                 THEN [fact |-> Ledger!FactOf(rows, k), file |-> t.file]
                                 ELSE metrics[k]]
  <2>1. \A k \in Keys : (t.mine[k] = None) <=> k \notin Own(t)
    BY DEF Own
  <2> QED BY <1>7, <2>1 DEF Publish
<1>9. aliases' = aliases \cup b.aliases
  BY <1>1, PublishIs
<1>10. ReceiptOf(t) = [links |-> [l \in DOMAIN rows |-> rows[l].key],
                       aliases |-> b.aliases,
                       input |-> Len(rows),
                       inserted |-> Cardinality(Own(t)),
                       unchanged |-> Len(rows) - Cardinality(Own(t))]
  <2>1. [l \in DOMAIN rows |-> rows[l].key] = [l \in Lines(t.file) |-> Key(t, l)]
    BY <1>1
  <2>2. /\ t.inserted = Cardinality(Own(t))
        /\ t.unchanged = Len(rows) - Cardinality(Own(t))
    <3>1. /\ t.inserted = Cardinality(Own(t))
          /\ t.inserted + t.unchanged + Cardinality({}) = Len(Content[t.file])
      BY <1>2, <1>3 DEF Counted
    <3>2. t.inserted \in Nat /\ t.unchanged \in Nat /\ Cardinality({}) = 0
      BY <1>3, FS_EmptySet DEF Runs
    <3> QED BY <1>1, <3>1, <3>2
  <2> QED BY <1>1, <2>1, <2>2 DEF ReceiptOf
<1>11. receipts' = [receipts EXCEPT ![t.file] = ReceiptOf(t)]
  BY <1>2, AtWriting DEF Publish, Receipted
<1>12. Ledger!Import(t.file, b)
  <2> DEFINE fresh == Ledger!New(rows)
  <2>1. metrics' = [k \in Keys |-> IF k \in fresh
                                   THEN [fact |-> Ledger!FactOf(rows, k), file |-> t.file]
                                   ELSE metrics[k]]
    BY <1>6, <1>8
  <2>2. receipts' = [receipts EXCEPT ![t.file] =
          [links |-> [l \in DOMAIN rows |-> rows[l].key],
           aliases |-> b.aliases,
           input |-> Len(rows),
           inserted |-> Cardinality(fresh),
           unchanged |-> Len(rows) - Cardinality(fresh)]]
    BY <1>6, <1>10, <1>11
  <2> QED BY <1>5, <1>9, <2>1, <2>2, LedgerCounts DEF Ledger!Import
<1>13. receipts[t.file] = None /\ receipts'[t.file] # None
  BY PublishIs, NoneIsNoRow
<1> QED BY <1>1, <1>3, <1>12, <1>13 DEF Ledger!Next

LEMMA LedgerStep ==
  ASSUME JInv, [Next]_vars
  PROVE  [Ledger!Next]_(Ledger!ledgerVars)
<1>1. CASE UNCHANGED tables
  BY <1>1 DEF tables, Ledger!ledgerVars
<1>2. ASSUME NEW i \in Importers, Commit(i) \/ CommitUnanswered(i)
      PROVE  Ledger!Next
  BY <1>2, CommitImports DEF Commit, CommitUnanswered
<1>3. ASSUME NEW i \in Importers, Progress(i), ~Commit(i)
      PROVE  UNCHANGED tables
  BY <1>3 DEF Progress, Parse, Resolve, LockFile, LockAlias, FindImport, ValidateRow,
     ReturnExisting, InsertRow, RowsDone, WriteReceipt, PersistAlias
<1>4. CASE UNCHANGED vars \/ \E v \in Venues : RegisterVenue(v)
  BY <1>1, <1>4 DEF vars, RegisterVenue
<1>5. CASE \E i \in Importers : Abort(i) \/ \E f \in Files, license \in Licenses[i] :
                                              Open(i, f, license)
  BY <1>1, <1>5 DEF Abort, Open
<1> QED BY <1>1, <1>2, <1>3, <1>4, <1>5 DEF Next

\* The interleaved imports implement the ledger (ImportsAreAtomic): one commit
\* is one import of it, of a file not yet imported, and nothing else shows.
THEOREM ImportsImplementLedger == Spec => ImportsAreAtomic
<1>1. Init => Ledger!Init
  BY DEF Init, Ledger!Init
<1>2. JInv /\ [Next]_vars => [Ledger!Next]_(Ledger!ledgerVars)
  BY LedgerStep
<1> QED BY <1>1, <1>2, ImportsInvariant, PTL DEF Spec, ImportsAreAtomic, Ledger!Spec

=============================================================================
