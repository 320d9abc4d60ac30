--------------------------- MODULE PubMedBulkProofs ---------------------------
(***************************************************************************)
(* What any number of importers of one job do to its files, for any lists  *)
(* of files, any contents and any stops: every file is applied once and in *)
(* sequence, the checkpoint is the last of them, and an import that        *)
(* reports success has applied its list.                                   *)
(***************************************************************************)
EXTENDS PubMedBulk, WellFoundedInduction, TLAPS

(***************************************************************************)
(* Types of what the argument needs: the contents of citations and of      *)
(* transactions do not matter to it.                                       *)
(***************************************************************************)
ImportPcs == {"idle", "files", "stage", "commit", "done", "failed"}
StagedEvents == Seq([kind : {"upsert", "delete"}, pmid : Citations, by : Hashes])

Imports == [pc : ImportPcs, request : Requests \cup {None},
            loaded : Progresses \cup {None}, progress : Progresses \cup {None},
            index : Nat \ {0}, bytes : Hashes \cup {None}, staged : StagedEvents]

BulkType ==
  /\ checkpoint \in Progresses \cup {None}
  /\ applied \in Seq(Files)
  /\ imp \in [Importers -> Imports]

(***************************************************************************)
(* Why it holds. The revision of a progress is a position in the log of    *)
(* applied files, so the comparison at the commit tells that no other file *)
(* came in between; and the file an importer is at is the one after its    *)
(* progress, or one that its progress covers.                              *)
(***************************************************************************)
\* The progress of a call is a moment of the log.
FromLog(progress, log) ==
  progress # None =>
    /\ progress.sequence = progress.file.sequence
    /\ progress.revision \in DOMAIN log
    /\ log[progress.revision] = progress.file

\* The next file is at most one ahead, and exactly one after a commit.
Adjacent(f) ==
  f.index <= Len(f.request.files) =>
    /\ f.progress # None =>
         f.request.files[f.index].sequence <= f.progress.sequence + 1
    /\ f.progress # f.loaded =>
         /\ f.progress # None
         /\ f.request.files[f.index].sequence = f.progress.sequence + 1

\* File n of a list was applied or skipped unseen.
Settled(f, n, log) ==
  \/ \E m \in DOMAIN log : log[m] = f.request.files[n]
  \/ f.loaded # None /\ f.request.files[n].sequence < f.loaded.sequence

Uncovered(f) ==
  /\ f.index <= Len(f.request.files)
  /\ f.progress # None => ~(f.request.files[f.index].sequence <= f.progress.sequence)

SoundImport(f, log) ==
  /\ f.pc \in {"files", "stage", "commit", "done"} =>
       /\ f.request \in Requests
       /\ Consecutive(f.request.files)
       /\ f.index \in 1..(Len(f.request.files) + 1)
       /\ FromLog(f.progress, log)
       /\ Adjacent(f)
       /\ \A n \in 1..(f.index - 1) : Settled(f, n, log)
  /\ f.pc \in {"stage", "commit"} => Uncovered(f) /\ f.bytes \in Hashes
  /\ f.pc = "done" => f.index = Len(f.request.files) + 1

IInv ==
  /\ BulkType
  /\ AppliedWithoutGaps
  /\ CheckpointIsLastApplied
  /\ \A i \in Importers : SoundImport(imp[i], applied)

(***************************************************************************)
(* Types.                                                                  *)
(***************************************************************************)
LEMMA RequestFiles ==
  ASSUME BulkAssumption, NEW request \in Requests
  PROVE  request.files \in Seq(Files)
BY DEF BulkAssumption

LEMMA FileSequence ==
  ASSUME BulkAssumption, NEW file \in Files
  PROVE  file.sequence \in Nat /\ file.sequence \in 1..MaxSequence
BY DEF BulkAssumption, Files

LEMMA ProgressFields ==
  ASSUME BulkAssumption, NEW progress \in Progresses
  PROVE  /\ progress # None
         /\ progress.sequence \in Nat
         /\ progress.revision \in Nat
         /\ progress.file \in Files
BY DEF BulkAssumption, Progresses

LEMMA NextProgressType ==
  ASSUME BulkAssumption, NEW file \in Files, NEW progress \in Progresses \cup {None}
  PROVE  NextProgress(progress, file) \in Progresses
<1>1. Expectation(progress).revision \in Nat
  BY ProgressFields DEF Expectation
<1> QED BY <1>1, FileSequence DEF NextProgress, Progresses

LEMMA RecordTypes ==
  ASSUME NEW f \in Imports
  PROVE  /\ \A pc \in ImportPcs : [f EXCEPT !.pc = pc] \in Imports
         /\ \A pc \in ImportPcs, bytes \in Hashes :
              [f EXCEPT !.pc = pc, !.bytes = bytes] \in Imports
         /\ \A pc \in ImportPcs : [f EXCEPT !.pc = pc, !.staged = <<>>] \in Imports
         /\ \A n \in Nat \ {0} : [f EXCEPT !.index = n] \in Imports
         /\ \A staged \in StagedEvents : [f EXCEPT !.staged = staged] \in Imports
         /\ \A p \in Progresses, n \in Nat \ {0} :
              [f EXCEPT !.pc = "files", !.progress = p, !.index = n,
                        !.bytes = None, !.staged = <<>>] \in Imports
<1>1. <<>> \in StagedEvents
  BY DEF StagedEvents
<1>2. /\ \A pc \in ImportPcs : [f EXCEPT !.pc = pc] \in Imports
      /\ \A pc \in ImportPcs, bytes \in Hashes :
           [f EXCEPT !.pc = pc, !.bytes = bytes] \in Imports
      /\ \A n \in Nat \ {0} : [f EXCEPT !.index = n] \in Imports
      /\ \A staged \in StagedEvents : [f EXCEPT !.staged = staged] \in Imports
  BY DEF Imports
<1>3. \A pc \in ImportPcs : [f EXCEPT !.pc = pc, !.staged = <<>>] \in Imports
  BY <1>1 DEF Imports
<1>4. \A p \in Progresses, n \in Nat \ {0} :
        [f EXCEPT !.pc = "files", !.progress = p, !.index = n,
                  !.bytes = None, !.staged = <<>>] \in Imports
  BY <1>1 DEF Imports, ImportPcs
<1> QED BY <1>2, <1>3, <1>4

(***************************************************************************)
(* Steps of one importer that commit nothing.                              *)
(***************************************************************************)
LEMMA ImportStep ==
  ASSUME IInv, NEW i \in Importers, NEW f \in Imports, SoundImport(f, applied),
         imp' = [imp EXCEPT ![i] = f],
         UNCHANGED <<checkpoint, applied>>
  PROVE  IInv'
<1>1. \A k \in Importers : imp'[k] = IF k = i THEN f ELSE imp[k]
  BY DEF IInv, BulkType
<1>2. BulkType'
  BY DEF IInv, BulkType
<1>3. \A k \in Importers : SoundImport(imp'[k], applied')
  BY <1>1 DEF IInv
<1>4. (AppliedWithoutGaps /\ CheckpointIsLastApplied)'
  BY DEF IInv, AppliedWithoutGaps, CheckpointIsLastApplied
<1> QED BY <1>2, <1>3, <1>4 DEF IInv

\* A call that failed owes nothing.
LEMMA EndedInv ==
  ASSUME IInv, NEW i \in Importers, imp' = Ended("failed", i),
         UNCHANGED <<checkpoint, applied>>
  PROVE  IInv'
<1> DEFINE f == [imp[i] EXCEPT !.pc = "failed", !.staged = <<>>]
<1>1. imp[i] \in Imports
  BY DEF IInv, BulkType
<1>2. f \in Imports /\ f.pc = "failed"
  <2>1. "failed" \in ImportPcs
    BY DEF ImportPcs
  <2>2. f \in Imports
    BY <1>1, <2>1, RecordTypes
  <2> QED BY <1>1, <2>2 DEF Imports
<1>3. imp' = [imp EXCEPT ![i] = f]
  BY DEF Ended
<1> HIDE DEF f
<1> QED BY <1>2, <1>3, ImportStep DEF SoundImport

LEMMA StartInv ==
  ASSUME BulkAssumption, IInv, NEW i \in Importers, NEW request \in Requests,
         Start(i, request)
  PROVE  IInv'
<1> DEFINE pc == IF Accepted(request, checkpoint) THEN "files" ELSE "failed"
           f == [NoImport EXCEPT !.pc = pc, !.request = request,
                                 !.loaded = checkpoint, !.progress = checkpoint]
<1>1. imp' = [imp EXCEPT ![i] = f] /\ UNCHANGED <<checkpoint, applied>>
  BY DEF Start
<1>2. checkpoint \in Progresses \cup {None} /\ applied \in Seq(Files)
  BY DEF IInv, BulkType
<1>3. /\ f.pc = pc /\ f.request = request /\ f.index = 1
      /\ f.loaded = checkpoint /\ f.progress = checkpoint
  BY DEF NoImport
<1>4. f \in Imports
  <2>1. <<>> \in StagedEvents /\ 1 \in Nat \ {0} /\ pc \in ImportPcs
    BY DEF StagedEvents, ImportPcs
  <2> QED BY <1>2, <2>1 DEF NoImport, Imports
<1>5. ASSUME pc = "files"
      PROVE  SoundImport(f, applied)
  <2>1. Accepted(request, checkpoint)
    BY <1>5
  <2>2. request.files \in Seq(Files) /\ Len(request.files) >= 1
    BY <2>1, RequestFiles DEF Accepted
  <2>3. FromLog(checkpoint, applied)
    <3>1. CASE applied = <<>>
      BY <3>1 DEF IInv, CheckpointIsLastApplied, FromLog
    <3>2. CASE applied # <<>>
      <4>1. Len(applied) \in DOMAIN applied
        BY <1>2, <3>2
      <4> QED BY <3>2, <4>1 DEF IInv, CheckpointIsLastApplied, FromLog
    <3> QED BY <3>1, <3>2
  <2>4. checkpoint # None => request.files[1].sequence <= checkpoint.sequence + 1
    <3> SUFFICES ASSUME checkpoint # None
                 PROVE  request.files[1].sequence <= checkpoint.sequence + 1
      OBVIOUS
    <3>1. checkpoint \in Progresses /\ checkpoint.sequence \in 1..MaxSequence
      BY <1>2 DEF Progresses
    <3>2. MaxSequence \in Nat /\ request.previous \in Nat
      BY DEF BulkAssumption
    <3>3. request.files[1].sequence \in {1, checkpoint.sequence + 1}
      BY <2>1 DEF Accepted, MayStart, BulkAssumption
    <3> QED BY <3>1, <3>2, <3>3
  <2>5. Adjacent(f)
    BY <1>3, <2>4 DEF Adjacent
  <2>6. Consecutive(f.request.files)
    BY <1>3, <2>1 DEF Accepted
  <2>7. f.index \in 1..(Len(f.request.files) + 1) /\ 1..(f.index - 1) = {}
    BY <1>3, <2>2
  <2> HIDE DEF f
  <2> QED BY <1>3, <1>5, <2>3, <2>5, <2>6, <2>7 DEF SoundImport
<1>6. ASSUME pc = "failed"
      PROVE  SoundImport(f, applied)
  BY <1>3, <1>6 DEF SoundImport
<1> HIDE DEF f
<1> QED BY <1>1, <1>4, <1>5, <1>6, ImportStep

\* What is known of a call under way.
LEMMA Underway ==
  ASSUME BulkAssumption, IInv, NEW i \in Importers,
         imp[i].pc \in {"files", "stage", "commit"}
  PROVE  /\ imp[i] \in Imports
         /\ applied \in Seq(Files)
         /\ imp[i].request.files \in Seq(Files)
         /\ Len(imp[i].request.files) \in Nat
         /\ imp[i].index \in Nat \ {0}
         /\ imp[i].progress \in Progresses \cup {None}
         /\ \A n \in DOMAIN imp[i].request.files :
              imp[i].request.files[n].sequence \in Nat
         /\ imp[i].progress # None => imp[i].progress.sequence \in Nat
<1>1. imp[i] \in Imports /\ applied \in Seq(Files)
  BY DEF IInv, BulkType
<1>2. imp[i].request \in Requests
  BY DEF IInv, SoundImport
<1>3. imp[i].request.files \in Seq(Files)
  BY <1>2, RequestFiles
<1>4. /\ imp[i].index \in Nat \ {0}
      /\ imp[i].progress \in Progresses \cup {None}
  BY <1>1 DEF Imports
<1>5. Len(imp[i].request.files) \in Nat
  BY <1>3
<1>6. \A n \in DOMAIN imp[i].request.files :
        imp[i].request.files[n].sequence \in Nat
  BY <1>3, FileSequence
<1>7. imp[i].progress # None => imp[i].progress.sequence \in Nat
  BY <1>4, ProgressFields
<1> QED BY <1>1, <1>3, <1>4, <1>5, <1>6, <1>7

LEMMA AllFilesDoneInv ==
  ASSUME BulkAssumption, IInv, NEW i \in Importers, AllFilesDone(i)
  PROVE  IInv'
<1> DEFINE f == [imp[i] EXCEPT !.pc = "done", !.staged = <<>>]
<1>1. /\ imp[i].pc = "files"
      /\ imp[i].index > Len(imp[i].request.files)
      /\ imp' = [imp EXCEPT ![i] = f]
      /\ UNCHANGED <<checkpoint, applied>>
  BY DEF AllFilesDone, Ended
<1>2. imp[i] \in Imports /\ "done" \in ImportPcs
  BY <1>1, Underway DEF ImportPcs
<1>3. f \in Imports
  BY <1>2, RecordTypes
<1>4. /\ f.pc = "done" /\ f.request = imp[i].request /\ f.index = imp[i].index
      /\ f.loaded = imp[i].loaded /\ f.progress = imp[i].progress
  BY <1>2 DEF Imports
<1> HIDE DEF f
<1>5. f.index = Len(f.request.files) + 1
  <2>1. imp[i].index \in 1..(Len(imp[i].request.files) + 1)
    BY <1>1 DEF IInv, SoundImport
  <2>2. Len(imp[i].request.files) \in Nat
    BY <1>1, Underway
  <2>3. imp[i].index > Len(imp[i].request.files)
    BY <1>1
  <2>4. \A a, b \in Nat : a \in 1..(b + 1) /\ a > b => a = b + 1
    OBVIOUS
  <2>5. imp[i].index \in Nat
    BY <1>1, Underway
  <2> QED BY <1>4, <2>1, <2>2, <2>3, <2>4, <2>5
<1>6. SoundImport(f, applied)
  BY <1>1, <1>4, <1>5 DEF IInv, SoundImport, Adjacent, Settled
<1> QED BY <1>1, <1>3, <1>6, ImportStep

LEMMA SkipFileInv ==
  ASSUME BulkAssumption, IInv, NEW i \in Importers, SkipFile(i)
  PROVE  IInv'
<1> DEFINE f == [imp[i] EXCEPT !.index = imp[i].index + 1]
           progress == imp[i].progress
           files == imp[i].request.files
           n == imp[i].index
<1>1. /\ imp[i].pc = "files" /\ n <= Len(files) /\ Covered(i)
      /\ UNCHANGED <<checkpoint, applied>>
  BY DEF SkipFile
<1>2. CASE imp' = Ended("failed", i)
  BY <1>1, <1>2, EndedInv
<1>3. CASE /\ ~(File(i).sequence = progress.sequence /\ ~SameFile(i))
           /\ imp' = [imp EXCEPT ![i] = f]
  <2>1. /\ imp[i] \in Imports /\ files \in Seq(Files) /\ Len(files) \in Nat
        /\ n \in Nat \ {0} /\ n \in 1..Len(files)
        /\ progress \in Progresses \cup {None}
    BY <1>1, Underway
  <2>2. progress # None /\ files[n].sequence <= progress.sequence
    BY <1>1 DEF Covered, File
  <2>3. files[n].sequence \in Nat /\ progress.sequence \in Nat
    BY <1>1, <2>1, <2>2, Underway
  <2>4. FromLog(progress, applied) /\ Adjacent(imp[i]) /\ Consecutive(files)
    BY <1>1 DEF IInv, SoundImport
  <2>5. progress = imp[i].loaded
    BY <2>1, <2>2, <2>3, <2>4 DEF Adjacent
  <2>6. f \in Imports
    <3>1. n + 1 \in Nat \ {0}
      BY <2>1
    <3> QED BY <2>1, <3>1, RecordTypes
  <2>7. /\ f.pc = "files" /\ f.request = imp[i].request /\ f.index = n + 1
        /\ f.loaded = imp[i].loaded /\ f.progress = progress
    BY <1>1, <2>1 DEF Imports
  <2>8. Settled(f, n, applied)
    <3>1. CASE files[n].sequence = progress.sequence
      <4>1. progress.file = files[n]
        BY <1>3, <3>1 DEF SameFile, File
      <4> QED BY <2>2, <2>4, <2>7, <4>1 DEF Settled, FromLog
    <3>2. CASE files[n].sequence < progress.sequence
      BY <2>2, <2>5, <2>7, <3>2 DEF Settled
    <3> QED BY <2>2, <2>3, <3>1, <3>2
  <2>9. Adjacent(f)
    <3>1. n + 1 <= Len(files) => files[n + 1].sequence = files[n].sequence + 1
      <4>1. n + 1 <= Len(files) => n \in 1..(Len(files) - 1)
        BY <2>1
      <4> QED BY <2>4, <4>1 DEF Consecutive
    <3> HIDE DEF f
    <3>2. f.index = n + 1 /\ f.request.files = files
      BY <2>7
    <3>3. f.index <= Len(f.request.files) =>
            f.request.files[f.index].sequence <= progress.sequence + 1
      <4> SUFFICES ASSUME n + 1 <= Len(files)
                   PROVE  files[n + 1].sequence <= progress.sequence + 1
        BY <3>2
      <4>1. files[n + 1].sequence = files[n].sequence + 1
        BY <3>1
      <4>2. \A a, b \in Nat : a <= b => a + 1 <= b + 1
        OBVIOUS
      <4> QED BY <2>2, <2>3, <4>1, <4>2
    <3> QED BY <2>5, <2>7, <3>3 DEF Adjacent
  <2> HIDE DEF f
  <2>10. \A k \in 1..(f.index - 1) : Settled(f, k, applied)
    <3>1. \A k \in 1..(n - 1) : Settled(f, k, applied)
      BY <1>1, <2>7 DEF IInv, SoundImport, Settled
    <3>2. \A k \in 1..(f.index - 1) : k \in 1..(n - 1) \/ k = n
      BY <2>1, <2>7
    <3> QED BY <2>8, <3>1, <3>2
  <2>11. f.index \in 1..(Len(f.request.files) + 1)
    BY <2>1, <2>7
  <2>12. f.request \in Requests
    BY <1>1, <2>7 DEF IInv, SoundImport
  <2>13. SoundImport(f, applied)
    BY <2>4, <2>7, <2>9, <2>10, <2>11, <2>12 DEF SoundImport
  <2> QED BY <1>1, <1>3, <2>6, <2>13, ImportStep
<1> QED BY <1>2, <1>3 DEF SkipFile

LEMMA SpoolInv ==
  ASSUME BulkAssumption, IInv, NEW i \in Importers, NEW bytes \in Hashes,
         Spool(i, bytes)
  PROVE  IInv'
<1> DEFINE f == [imp[i] EXCEPT !.pc = "stage", !.bytes = bytes]
<1>1. /\ imp[i].pc = "files" /\ imp[i].index <= Len(imp[i].request.files)
      /\ ~Covered(i)
      /\ UNCHANGED <<checkpoint, applied>>
  BY DEF Spool
<1>2. CASE imp' = Ended("failed", i)
  BY <1>1, <1>2, EndedInv
<1>3. CASE imp' = [imp EXCEPT ![i] = f]
  <2>1. imp[i] \in Imports /\ "stage" \in ImportPcs
    BY <1>1, Underway DEF ImportPcs
  <2>2. f \in Imports
    BY <2>1, RecordTypes
  <2>3. /\ f.pc = "stage" /\ f.request = imp[i].request /\ f.index = imp[i].index
        /\ f.loaded = imp[i].loaded /\ f.progress = imp[i].progress
        /\ f.bytes = bytes
    BY <2>1 DEF Imports
  <2> HIDE DEF f
  <2>4. Uncovered(f)
    BY <1>1, <2>3 DEF Uncovered, Covered, File
  <2>5. SoundImport(f, applied)
    BY <1>1, <2>3, <2>4 DEF IInv, SoundImport, Adjacent, Settled
  <2> QED BY <1>1, <1>3, <2>2, <2>5, ImportStep
<1> QED BY <1>2, <1>3 DEF Spool

LEMMA StageInv ==
  ASSUME BulkAssumption, IInv, NEW i \in Importers, Stage(i)
  PROVE  IInv'
<1> DEFINE n == Len(imp[i].staged) + 1
           e == [kind |-> Content[imp[i].bytes][n].kind,
                 pmid |-> Content[imp[i].bytes][n].pmid, by |-> imp[i].bytes]
           f == [imp[i] EXCEPT !.staged = Append(imp[i].staged, e)]
<1>1. /\ imp[i].pc = "stage" /\ n <= Len(Content[imp[i].bytes])
      /\ imp' = [imp EXCEPT ![i] = f]
      /\ UNCHANGED <<checkpoint, applied>>
  BY DEF Stage
<1>2. imp[i] \in Imports /\ imp[i].bytes \in Hashes /\ imp[i].staged \in StagedEvents
  BY <1>1, Underway DEF IInv, SoundImport, Imports
<1>3. n \in Nat \ {0}
  BY <1>2 DEF StagedEvents
<1>4. Content[imp[i].bytes] \in Seq(Events)
  BY <1>2 DEF BulkAssumption
<1>5. Content[imp[i].bytes][n] \in Events
  BY <1>1, <1>3, <1>4
<1>6. e \in [kind : {"upsert", "delete"}, pmid : Citations, by : Hashes]
  BY <1>2, <1>5 DEF Events
<1> HIDE DEF e
<1>7. Append(imp[i].staged, e) \in StagedEvents
  BY <1>2, <1>6 DEF StagedEvents
<1>8. f \in Imports
  BY <1>2, <1>7, RecordTypes
<1>9. /\ f.pc = imp[i].pc /\ f.request = imp[i].request /\ f.index = imp[i].index
      /\ f.loaded = imp[i].loaded /\ f.progress = imp[i].progress
      /\ f.bytes = imp[i].bytes
  BY <1>2 DEF Imports
<1> HIDE DEF f
<1>10. SoundImport(f, applied)
  BY <1>1, <1>9 DEF IInv, SoundImport, Adjacent, Settled, Uncovered
<1> QED BY <1>1, <1>8, <1>10, ImportStep

LEMMA EventsEndInv ==
  ASSUME BulkAssumption, IInv, NEW i \in Importers, EventsEnd(i)
  PROVE  IInv'
<1> DEFINE f == [imp[i] EXCEPT !.pc = "commit"]
<1>1. /\ imp[i].pc = "stage"
      /\ imp' = [imp EXCEPT ![i] = f]
      /\ UNCHANGED <<checkpoint, applied>>
  BY DEF EventsEnd
<1>2. imp[i] \in Imports /\ "commit" \in ImportPcs
  BY <1>1, Underway DEF ImportPcs
<1>3. f \in Imports
  BY <1>2, RecordTypes
<1>4. /\ f.pc = "commit" /\ f.request = imp[i].request /\ f.index = imp[i].index
      /\ f.loaded = imp[i].loaded /\ f.progress = imp[i].progress
      /\ f.bytes = imp[i].bytes
  BY <1>2 DEF Imports
<1> HIDE DEF f
<1>5. SoundImport(f, applied)
  BY <1>1, <1>4 DEF IInv, SoundImport, Adjacent, Settled, Uncovered
<1> QED BY <1>1, <1>3, <1>5, ImportStep

(***************************************************************************)
(* The commit. An importer that finds the checkpoint it expects has the    *)
(* whole log in its progress, and its file is the next one.                *)
(***************************************************************************)
LEMMA LongerLog ==
  ASSUME NEW log \in Seq(Files), NEW file \in Files
  PROVE  /\ Append(log, file) \in Seq(Files) /\ Append(log, file) # <<>>
         /\ Len(log) \in Nat /\ Len(Append(log, file)) = Len(log) + 1
         /\ Append(log, file)[Len(log) + 1] = file
         /\ Append(log, file)[Len(Append(log, file))] = file
         /\ \A m \in 1..Len(log) : Append(log, file)[m] = log[m]
OBVIOUS

\* What is sound stays sound when the log grows.
LEMMA LogGrows ==
  ASSUME NEW log \in Seq(Files), NEW file \in Files, NEW f, SoundImport(f, log)
  PROVE  SoundImport(f, Append(log, file))
<1> DEFINE longer == Append(log, file)
<1>1. /\ DOMAIN log \subseteq DOMAIN longer
      /\ \A m \in DOMAIN log : longer[m] = log[m]
  OBVIOUS
<1> HIDE DEF longer
<1>2. FromLog(f.progress, log) => FromLog(f.progress, longer)
  BY <1>1 DEF FromLog
<1>3. \A n : Settled(f, n, log) => Settled(f, n, longer)
  BY <1>1 DEF Settled
<1>4. SoundImport(f, longer)
  BY <1>2, <1>3 DEF SoundImport
<1> QED BY <1>4 DEF longer

LEMMA ExpectedIsLast ==
  ASSUME BulkAssumption, IInv, NEW i \in Importers, imp[i].pc = "commit",
         Expectation(checkpoint) = Expectation(imp[i].progress)
  PROVE  /\ File(i) \in Files
         /\ Expectation(imp[i].progress).revision = Len(applied)
         /\ applied # <<>> => File(i).sequence = applied[Len(applied)].sequence + 1
<1> DEFINE progress == imp[i].progress
           file == imp[i].request.files[imp[i].index]
<1>1. /\ applied \in Seq(Files) /\ checkpoint \in Progresses \cup {None}
      /\ progress \in Progresses \cup {None}
  BY Underway DEF IInv, BulkType
<1>2. FromLog(progress, applied) /\ Adjacent(imp[i]) /\ Uncovered(imp[i])
  BY DEF IInv, SoundImport
<1>3. file \in Files /\ file.sequence \in Nat
  <2>1. imp[i].index \in DOMAIN imp[i].request.files
    BY <1>2, Underway DEF Uncovered
  <2> QED BY <2>1, Underway
<1>4. CASE progress = None
  <2>1. checkpoint = None
    BY <1>4 DEF Expectation
  <2>2. applied = <<>>
    BY <2>1 DEF IInv, CheckpointIsLastApplied
  <2>3. Expectation(progress).revision = 0 /\ Len(applied) = 0
    BY <1>4, <2>2 DEF Expectation
  <2> QED BY <1>3, <2>2, <2>3 DEF File
<1>5. CASE progress # None
  <2>1. checkpoint # None
    BY <1>5 DEF Expectation
  <2>2. applied # <<>> /\ checkpoint.revision = Len(applied)
    BY <2>1 DEF IInv, CheckpointIsLastApplied
  <2>3. Expectation(progress).revision = checkpoint.revision
    BY <2>1 DEF Expectation
  <2>4. progress.revision = Len(applied)
    BY <1>5, <2>2, <2>3 DEF Expectation
  <2>5. applied[Len(applied)].sequence = progress.sequence
    BY <1>2, <1>5, <2>4 DEF FromLog
  <2>6. file.sequence <= progress.sequence + 1 /\ ~(file.sequence <= progress.sequence)
    BY <1>2, <1>5 DEF Adjacent, Uncovered
  <2>7. progress.sequence \in Nat
    BY <1>5, Underway
  <2>8. \A a, b \in Nat : a <= b + 1 /\ ~(a <= b) => a = b + 1
    OBVIOUS
  <2>9. file.sequence = progress.sequence + 1
    BY <1>3, <2>6, <2>7, <2>8
  <2> QED BY <1>3, <2>2, <2>3, <2>5, <2>9 DEF File
<1> QED BY <1>4, <1>5

LEMMA CommittedFrame ==
  ASSUME BulkAssumption, IInv, NEW i \in Importers, imp[i].pc = "commit",
         Expectation(checkpoint) = Expectation(imp[i].progress),
         NEW f, f = [imp[i] EXCEPT !.pc = "files",
                                   !.progress = NextProgress(imp[i].progress, File(i)),
                                   !.index = imp[i].index + 1,
                                   !.bytes = None,
                                   !.staged = <<>>]
  PROVE  f \in Imports /\ SoundImport(f, Append(applied, File(i)))
<1> DEFINE n == imp[i].index
           files == imp[i].request.files
           next == NextProgress(imp[i].progress, File(i))
           log == Append(applied, File(i))
<1>1. /\ File(i) \in Files
      /\ Expectation(imp[i].progress).revision = Len(applied)
  BY ExpectedIsLast
<1>2. /\ imp[i] \in Imports /\ applied \in Seq(Files) /\ files \in Seq(Files)
      /\ Len(files) \in Nat /\ n \in Nat \ {0}
      /\ imp[i].progress \in Progresses \cup {None}
  BY Underway
<1>3. n + 1 \in Nat \ {0}
  BY <1>2
<1>4. next \in Progresses
  BY <1>1, <1>2, NextProgressType
<1>5. f \in Imports
  BY <1>2, <1>3, <1>4, RecordTypes
<1>6. /\ f.pc = "files" /\ f.request = imp[i].request /\ f.index = n + 1
      /\ f.loaded = imp[i].loaded /\ f.progress = next
  BY <1>2 DEF Imports
<1>7. /\ next.file = File(i) /\ next.sequence = File(i).sequence
      /\ next.revision = Len(applied) + 1
  BY <1>1 DEF NextProgress
<1>8. /\ f.request \in Requests /\ Consecutive(files) /\ n <= Len(files)
      /\ SoundImport(imp[i], log)
  BY <1>1, <1>2, <1>6, LogGrows DEF IInv, SoundImport, Uncovered
<1>9. Len(applied) + 1 \in DOMAIN log /\ log[Len(applied) + 1] = File(i)
  BY <1>1, <1>2
<1> HIDE DEF next, log
<1>10. FromLog(f.progress, log)
  BY <1>6, <1>7, <1>9 DEF FromLog
<1>11. Adjacent(f)
  <2> SUFFICES ASSUME n + 1 <= Len(files)
               PROVE  /\ next # None
                      /\ files[n + 1].sequence = next.sequence + 1
                      /\ files[n + 1].sequence <= next.sequence + 1
    BY <1>6 DEF Adjacent
  <2>1. n \in 1..(Len(files) - 1)
    BY <1>2
  <2>2. files[n + 1].sequence = next.sequence + 1
    BY <1>7, <1>8, <2>1 DEF Consecutive, File
  <2>3. files[n + 1].sequence \in Nat
    <3>1. n + 1 \in DOMAIN files
      BY <1>2
    <3> QED BY <1>2, <3>1, FileSequence
  <2>4. \A a, b : a \in Nat /\ a = b => b \in Nat /\ a <= b
    OBVIOUS
  <2> QED BY <1>4, <2>2, <2>3, <2>4, ProgressFields
<1>12. \A k \in 1..(f.index - 1) : Settled(f, k, log)
  <2>1. \A k \in 1..(n - 1) : Settled(f, k, log)
    BY <1>6, <1>8 DEF SoundImport, Settled
  <2>2. Settled(f, n, log)
    BY <1>6, <1>9 DEF Settled, File
  <2>3. \A k \in 1..(f.index - 1) : k \in 1..(n - 1) \/ k = n
    BY <1>2, <1>6
  <2> QED BY <2>1, <2>2, <2>3
<1>13. f.index \in 1..(Len(f.request.files) + 1)
  BY <1>2, <1>6, <1>8
<1>14. SoundImport(f, log)
  BY <1>6, <1>8, <1>10, <1>11, <1>12, <1>13 DEF SoundImport
<1> QED BY <1>5, <1>14 DEF log

LEMMA CommitInv ==
  ASSUME BulkAssumption, IInv, NEW i \in Importers, NEW answered \in BOOLEAN,
         Commit(i, answered)
  PROVE  IInv'
<1> DEFINE next == NextProgress(imp[i].progress, File(i))
           log == Append(applied, File(i))
           g == [imp[i] EXCEPT !.pc = "files", !.progress = next,
                               !.index = imp[i].index + 1,
                               !.bytes = None, !.staged = <<>>]
           h == [imp[i] EXCEPT !.pc = "failed", !.staged = <<>>]
           f == IF answered THEN g ELSE h
<1>1. imp[i].pc = "commit"
  BY DEF Commit
<1>2. CASE Expectation(checkpoint) # Expectation(imp[i].progress)
  <2>1. imp' = Ended("failed", i) /\ UNCHANGED <<checkpoint, applied>>
    BY <1>2 DEF Commit
  <2> QED BY <2>1, EndedInv
<1>3. CASE Expectation(checkpoint) = Expectation(imp[i].progress)
  <2>1. /\ checkpoint' = next /\ applied' = log
        /\ imp' = [imp EXCEPT ![i] = f]
    BY <1>3 DEF Commit, Ended
  <2>2. /\ File(i) \in Files
        /\ Expectation(imp[i].progress).revision = Len(applied)
        /\ applied # <<>> => File(i).sequence = applied[Len(applied)].sequence + 1
    BY <1>1, <1>3, ExpectedIsLast
  <2>3. /\ imp[i] \in Imports /\ applied \in Seq(Files)
        /\ imp[i].progress \in Progresses \cup {None}
        /\ imp \in [Importers -> Imports]
    BY <1>1, Underway DEF IInv, BulkType
  <2>4. g \in Imports /\ SoundImport(g, log)
    BY <1>1, <1>3, CommittedFrame
  <2>5. h \in Imports /\ SoundImport(h, log)
    <3>1. "failed" \in ImportPcs
      BY DEF ImportPcs
    <3>2. h \in Imports
      BY <2>3, <3>1, RecordTypes
    <3>3. h.pc = "failed"
      BY <2>3 DEF Imports
    <3> HIDE DEF h
    <3> QED BY <3>2, <3>3 DEF SoundImport
  <2>6. next \in Progresses
    BY <2>2, <2>3, NextProgressType
  <2>7. /\ next.file = File(i) /\ next.sequence = File(i).sequence
        /\ next.revision = Len(applied) + 1
    BY <2>2 DEF NextProgress
  <2>8. /\ log \in Seq(Files) /\ log # <<>>
        /\ Len(applied) \in Nat /\ Len(log) = Len(applied) + 1
        /\ log[Len(log)] = File(i)
        /\ \A m \in 1..Len(applied) : log[m] = applied[m]
    BY <2>2, <2>3, LongerLog
  <2> HIDE DEF g, h, next, log
  <2>9. f \in Imports /\ SoundImport(f, log)
    BY <2>4, <2>5
  <2> HIDE DEF f
  <2>10. BulkType'
    BY <2>1, <2>3, <2>6, <2>8, <2>9 DEF BulkType
  <2>11. \A k \in Importers : SoundImport(imp'[k], applied')
    <3>1. \A k \in Importers : SoundImport(imp[k], log)
      BY <2>2, <2>3, LogGrows DEF IInv, log
    <3> QED BY <2>1, <2>3, <2>9, <3>1
  <2>12. AppliedWithoutGaps'
    <3> SUFFICES ASSUME NEW m \in 1..(Len(log) - 1)
                 PROVE  log[m + 1].sequence = log[m].sequence + 1
      BY <2>1 DEF AppliedWithoutGaps
    <3>1. CASE m = Len(applied)
      <4>1. applied # <<>> /\ m \in 1..Len(applied) /\ m + 1 = Len(log)
        BY <2>3, <2>8, <3>1
      <4> QED BY <2>2, <2>8, <3>1, <4>1
    <3>2. CASE m # Len(applied)
      <4>1. /\ m \in 1..(Len(applied) - 1)
            /\ m \in 1..Len(applied) /\ m + 1 \in 1..Len(applied)
        BY <2>8, <3>2
      <4> QED BY <2>8, <4>1 DEF IInv, AppliedWithoutGaps
    <3> QED BY <3>1, <3>2
  <2>13. CheckpointIsLastApplied'
    <3>1. checkpoint' # None
      BY <2>1, <2>6, ProgressFields
    <3> QED BY <2>1, <2>7, <2>8, <3>1 DEF CheckpointIsLastApplied
  <2> QED BY <2>10, <2>11, <2>12, <2>13 DEF IInv
<1> QED BY <1>2, <1>3

(***************************************************************************)
(* The specification.                                                      *)
(***************************************************************************)
LEMMA InitInv == ASSUME Init PROVE IInv
<1>1. NoImport \in Imports
  <2>1. <<>> \in StagedEvents
    BY DEF StagedEvents
  <2> QED BY <2>1 DEF NoImport, Imports, ImportPcs
<1>2. NoImport.pc = "idle"
  BY DEF NoImport
<1>3. imp \in [Importers -> Imports] /\ \A i \in Importers : imp[i] = NoImport
  BY <1>1 DEF Init
<1>4. checkpoint = None /\ applied = <<>>
  BY DEF Init
<1>5. BulkType
  BY <1>3, <1>4 DEF BulkType
<1>6. \A i \in Importers : SoundImport(imp[i], applied)
  BY <1>2, <1>3 DEF SoundImport
<1>7. AppliedWithoutGaps /\ CheckpointIsLastApplied
  BY <1>4 DEF AppliedWithoutGaps, CheckpointIsLastApplied
<1> QED BY <1>5, <1>6, <1>7 DEF IInv

LEMMA StepInv == ASSUME BulkAssumption, IInv, [Next]_vars PROVE IInv'
<1>1. CASE UNCHANGED vars
  BY <1>1 DEF vars, IInv, BulkType, AppliedWithoutGaps, CheckpointIsLastApplied
<1>2. ASSUME NEW i \in Importers, NEW request \in Requests, Start(i, request)
      PROVE  IInv'
  BY <1>2, StartInv
<1>3. ASSUME NEW i \in Importers, Stop(i)
      PROVE  IInv'
  BY <1>3, EndedInv DEF Stop
<1>4. ASSUME NEW i \in Importers, Step(i)
      PROVE  IInv'
  BY <1>4, AllFilesDoneInv, SkipFileInv, SpoolInv, StageInv, EventsEndInv, CommitInv
     DEF Step
<1> QED BY <1>1, <1>2, <1>3, <1>4 DEF Next

THEOREM Invariant == Spec => []IInv
<1>1. Init => IInv
  BY InitInv
<1>2. IInv /\ [Next]_vars => IInv'
  BY StepInv, BulkAssumption
<1> QED BY <1>1, <1>2, PTL DEF Spec

(* Each file is applied once and none is left out, for any importers that   *)
(* race, fail or miss the answer of a commit: AppliedWithoutGaps            *)
(* (bulk.go:474-510).                                                       *)
THEOREM InSequence == Spec => []AppliedWithoutGaps
<1>1. IInv => AppliedWithoutGaps
  BY DEF IInv
<1> QED BY <1>1, Invariant, PTL

(* The checkpoint is always the last applied file and its revision counts   *)
(* the files: CheckpointIsLastApplied (bulk.go:600-616).                    *)
THEOREM CheckpointFollows == Spec => []CheckpointIsLastApplied
<1>1. IInv => CheckpointIsLastApplied
  BY DEF IInv
<1> QED BY <1>1, Invariant, PTL

(* An import that reports success has applied its list, but for files before *)
(* the checkpoint it started from: SuccessCoversRequest (bulk.go:483-497).   *)
THEOREM SuccessCovers == Spec => []SuccessCoversRequest
<1>1. ASSUME IInv PROVE SuccessCoversRequest
  <2> SUFFICES ASSUME NEW i \in Importers, imp[i].pc = "done",
                      NEW n \in DOMAIN imp[i].request.files
               PROVE  Settled(imp[i], n, applied)
    BY DEF SuccessCoversRequest, Settled
  <2>1. /\ imp[i].request \in Requests
        /\ imp[i].index = Len(imp[i].request.files) + 1
        /\ \A k \in 1..(imp[i].index - 1) : Settled(imp[i], k, applied)
    BY <1>1 DEF IInv, SoundImport
  <2>2. imp[i].request.files \in Seq(Files)
    BY <2>1, RequestFiles, BulkAssumption
  <2>3. n \in 1..(imp[i].index - 1)
    BY <2>1, <2>2
  <2> QED BY <2>1, <2>3
<1> QED BY <1>1, Invariant, PTL

(***************************************************************************)
(* What the citations show. Of one file the last event counts, which       *)
(* exists because a set of naturals below a bound has a greatest member.   *)
(***************************************************************************)
LEMMA LargestExists ==
  ASSUME NEW n \in Nat, NEW S \in SUBSET (1..n), S # {}
  PROVE  \E m \in S : \A k \in S : k <= m
<1> DEFINE T == {n - k : k \in S}
           R == OpToRel(<, Nat)
<1>1. T \subseteq Nat /\ T # {}
  <2>1. \A k \in S : n - k \in Nat
    OBVIOUS
  <2>2. PICK k \in S : TRUE
    OBVIOUS
  <2> QED BY <2>1, <2>2
<1>2. IsWellFoundedOn(R, Nat)
  BY ONLY NatLessThanWellFounded
<1>3. \A x, y \in Nat : <<x, y>> \in R <=> x < y
  BY DEF OpToRel
<1> HIDE DEF R, T
<1>4. PICK x \in T : \A y \in T : ~(<<y, x>> \in R)
  BY <1>1, <1>2, WFMin
<1>5. PICK m \in S : x = n - m
  BY <1>4 DEF T
<1>6. ASSUME NEW k \in S PROVE k <= m
  <2>1. n - k \in T /\ n - k \in Nat /\ x \in Nat
    BY <1>1, <1>4 DEF T
  <2>2. ~(n - k < n - m)
    BY <1>3, <1>4, <1>5, <2>1
  <2>3. k \in Nat /\ m \in Nat
    OBVIOUS
  <2> QED BY <2>2, <2>3
<1> QED BY <1>6

\* What is staged is a prefix of the file the manifest names, by its digest;
\* all of it when the transaction is about to commit.
StagedPrefix(i) ==
  /\ imp[i].pc = "files" => imp[i].staged = <<>>
  /\ imp[i].pc \in {"stage", "commit"} =>
       /\ imp[i].bytes = File(i).hash
       /\ Len(imp[i].staged) <= Len(Content[imp[i].bytes])
       /\ \A n \in DOMAIN imp[i].staged :
            imp[i].staged[n] = [kind |-> Content[imp[i].bytes][n].kind,
                                pmid |-> Content[imp[i].bytes][n].pmid,
                                by |-> imp[i].bytes]
  /\ imp[i].pc = "commit" => Len(imp[i].staged) = Len(Content[imp[i].bytes])

\* Event n of the m-th file of a log is about citation c.
Touch(log, m, n, c) ==
  /\ m \in DOMAIN log
  /\ n \in DOMAIN Content[log[m].hash]
  /\ Content[log[m].hash][n].pmid = c

NotAfter(k, l, m, n) == k < m \/ (k = m /\ l < n) \/ (k = m /\ l = n)

\* A citation shows the last event of the log that is about it.
Shows(log, c, shown) ==
  \/ (\A m, n : ~Touch(log, m, n, c)) /\ shown = None
  \/ \E m, n :
       /\ Touch(log, m, n, c)
       /\ \A k, l : Touch(log, k, l, c) => NotAfter(k, l, m, n)
       /\ shown = IF Content[log[m].hash][n].kind = "delete" THEN None ELSE log[m].hash

ReplayInv ==
  /\ \A i \in Importers : StagedPrefix(i)
  /\ \A c \in Citations : Shows(applied, c, projection[c])

\* One more file in the log: its last event about c, or what c showed before.
LEMMA ReplayStep ==
  ASSUME BulkAssumption, NEW log \in Seq(Files), NEW file \in Files, NEW c,
         NEW staged, NEW shown, Shows(log, c, shown),
         DOMAIN staged = DOMAIN Content[file.hash],
         \A n \in DOMAIN staged :
           staged[n] = [kind |-> Content[file.hash][n].kind,
                        pmid |-> Content[file.hash][n].pmid, by |-> file.hash]
  PROVE  Shows(Append(log, file), c, After(staged, c, shown))
<1> DEFINE longer == Append(log, file)
           M == Len(log) + 1
           events == Content[file.hash]
           touches == {n \in DOMAIN staged : staged[n].pmid = c}
           last == CHOOSE n \in touches : \A m \in touches : m <= n
<1>0. \A n \in DOMAIN events : /\ staged[n].pmid = events[n].pmid
                               /\ staged[n].kind = events[n].kind
                               /\ staged[n].by = file.hash
                               /\ n \in DOMAIN staged
  <2> SUFFICES ASSUME NEW n \in DOMAIN staged
               PROVE  /\ staged[n].pmid = events[n].pmid
                      /\ staged[n].kind = events[n].kind
                      /\ staged[n].by = file.hash
    OBVIOUS
  <2>1. staged[n] = [kind |-> events[n].kind, pmid |-> events[n].pmid, by |-> file.hash]
    OBVIOUS
  <2> QED BY ONLY <2>1
<1>1. /\ Len(log) \in Nat /\ DOMAIN log = 1..Len(log) /\ DOMAIN longer = 1..M
      /\ longer[M] = file /\ \A m \in DOMAIN log : longer[m] = log[m]
  OBVIOUS
<1>2. file.hash \in Hashes /\ events \in Seq(Events)
  BY DEF Files, BulkAssumption
<1>3. touches = {n \in DOMAIN events : events[n].pmid = c}
  BY <1>0
<1>4. \A m, n : Touch(longer, m, n, c) <=>
                  Touch(log, m, n, c) \/ (m = M /\ n \in touches)
  <2>1. \A m : m \in DOMAIN longer <=> m \in DOMAIN log \/ m = M
    BY <1>1
  <2>2. M \notin DOMAIN log
    BY <1>1
  <2> HIDE DEF longer, M, touches
  <2> QED BY <1>1, <1>3, <2>1, <2>2 DEF Touch
<1>5. After(staged, c, shown) =
        IF touches = {} THEN shown
        ELSE IF staged[last].kind = "delete" THEN None ELSE staged[last].by
  BY DEF After
<1> HIDE DEF longer, M
<1>6. CASE touches = {}
  <2>1. \A m, n : Touch(longer, m, n, c) <=> Touch(log, m, n, c)
    BY <1>4, <1>6
  <2>2. \A m, n : Touch(log, m, n, c) => longer[m] = log[m]
    BY <1>1 DEF Touch
  <2>3. After(staged, c, shown) = shown
    BY <1>5, <1>6
  <2>4. Shows(longer, c, shown)
    BY <2>1, <2>2 DEF Shows
  <2> QED BY <2>3, <2>4 DEF longer
<1>7. CASE touches # {}
  <2>1. last \in touches /\ \A m \in touches : m <= last
    <3>1. Len(events) \in Nat /\ touches \in SUBSET (1..Len(events))
      BY <1>2, <1>3
    <3> HIDE DEF touches
    <3>2. \E n \in touches : \A m \in touches : m <= n
      BY <1>7, <3>1, LargestExists
    <3> QED BY <3>2
  <2>2. /\ last \in DOMAIN events /\ last \in Nat
        /\ staged[last].kind = events[last].kind /\ staged[last].by = file.hash
        /\ \A n \in touches : n \in Nat
    <3>1. DOMAIN events \subseteq Nat
      BY <1>2
    <3>2. touches \subseteq DOMAIN events
      BY <1>3
    <3> HIDE DEF last, touches
    <3> QED BY <1>0, <2>1, <3>1, <3>2
  <2> HIDE DEF last, touches
  <2>3. Touch(longer, M, last, c)
    BY <1>4, <2>1
  <2>4. ASSUME NEW k, NEW l, Touch(longer, k, l, c) PROVE NotAfter(k, l, M, last)
    <3>1. CASE Touch(log, k, l, c)
      <4>1. k \in 1..Len(log)
        BY <1>1, <3>1 DEF Touch
      <4> QED BY <1>1, <4>1 DEF NotAfter, M
    <3>2. CASE k = M /\ l \in touches
      <4>1. l <= last /\ l \in Nat /\ last \in Nat
        BY <2>1, <2>2, <3>2
      <4>2. l < last \/ l = last
        BY <4>1
      <4> QED BY <3>2, <4>2 DEF NotAfter
    <3> QED BY <1>4, <2>4, <3>1, <3>2
  <2>5. After(staged, c, shown) =
          IF Content[longer[M].hash][last].kind = "delete" THEN None ELSE longer[M].hash
    BY <1>1, <1>5, <1>7, <2>2
  <2>6. Shows(longer, c, After(staged, c, shown))
    BY <2>3, <2>4, <2>5 DEF Shows
  <2> QED BY <2>6 DEF longer
<1> QED BY <1>6, <1>7

\* A step of one importer that commits nothing.
LEMMA QuietReplay ==
  ASSUME IInv, ReplayInv, NEW i \in Importers, NEW f,
         imp' = [imp EXCEPT ![i] = f], StagedPrefix(i)',
         UNCHANGED <<applied, projection>>
  PROVE  ReplayInv'
<1>1. \A k \in Importers : k # i => imp'[k] = imp[k]
  BY DEF IInv, BulkType
<1>2. \A k \in Importers : k # i => StagedPrefix(k)'
  BY <1>1 DEF ReplayInv, StagedPrefix, File
<1> QED BY <1>2 DEF ReplayInv

\* A call that ended, well or not, has nothing staged to answer for.
LEMMA EndedReplay ==
  ASSUME IInv, ReplayInv, NEW i \in Importers, NEW outcome \in {"done", "failed"},
         imp' = Ended(outcome, i), UNCHANGED <<applied, projection>>
  PROVE  ReplayInv'
<1> DEFINE f == [imp[i] EXCEPT !.pc = outcome, !.staged = <<>>]
<1>1. imp \in [Importers -> Imports] /\ imp[i] \in Imports
  BY DEF IInv, BulkType
<1>2. imp' = [imp EXCEPT ![i] = f] /\ f.pc = outcome
  BY <1>1 DEF Ended, Imports
<1> HIDE DEF f
<1>3. StagedPrefix(i)'
  BY <1>1, <1>2 DEF StagedPrefix
<1> QED BY <1>2, <1>3, QuietReplay

LEMMA StageReplay ==
  ASSUME BulkAssumption, IInv, ReplayInv, NEW i \in Importers, Stage(i)
  PROVE  ReplayInv'
<1> DEFINE staged == imp[i].staged
           n == Len(staged) + 1
           content == Content[imp[i].bytes]
           e == [kind |-> content[n].kind, pmid |-> content[n].pmid, by |-> imp[i].bytes]
           longer == Append(staged, e)
           f == [imp[i] EXCEPT !.staged = longer]
<1>1. /\ imp[i].pc = "stage" /\ n <= Len(content)
      /\ imp' = [imp EXCEPT ![i] = f]
      /\ UNCHANGED <<applied, projection>>
  BY DEF Stage
<1>2. /\ imp \in [Importers -> Imports] /\ imp[i] \in Imports
      /\ staged \in StagedEvents
  BY DEF IInv, BulkType, Imports
<1>3. /\ imp[i].bytes = File(i).hash
      /\ \A k \in DOMAIN staged :
           staged[k] = [kind |-> content[k].kind, pmid |-> content[k].pmid,
                        by |-> imp[i].bytes]
  BY <1>1 DEF ReplayInv, StagedPrefix
<1> HIDE DEF e
<1>4. /\ Len(longer) = n /\ DOMAIN longer = 1..n /\ DOMAIN staged = 1..(n - 1)
      /\ n \in Nat /\ longer[n] = e
      /\ \A k \in DOMAIN staged : longer[k] = staged[k]
  BY <1>2 DEF StagedEvents
<1> HIDE DEF n, staged, longer
<1>5. \A k \in DOMAIN longer :
        longer[k] = [kind |-> content[k].kind, pmid |-> content[k].pmid,
                     by |-> imp[i].bytes]
  <2>1. \A k \in DOMAIN longer : k \in DOMAIN staged \/ k = n
    BY <1>4
  <2>2. longer[n] = [kind |-> content[n].kind, pmid |-> content[n].pmid,
                     by |-> imp[i].bytes]
    BY <1>4 DEF e
  <2> QED BY <1>3, <1>4, <2>1, <2>2
<1>6. /\ f.pc = "stage" /\ f.bytes = imp[i].bytes /\ f.staged = longer
      /\ f.request = imp[i].request /\ f.index = imp[i].index
  BY <1>1, <1>2 DEF Imports
<1> HIDE DEF f
<1>7. imp'[i] = f
  BY <1>1, <1>2
<1>8. StagedPrefix(i)'
  BY <1>1, <1>3, <1>4, <1>5, <1>6, <1>7 DEF StagedPrefix, File
<1> QED BY <1>1, <1>8, QuietReplay

\* The commit replays the whole file, or is refused.
LEMMA CommitReplay ==
  ASSUME BulkAssumption, IInv, ReplayInv, NEW i \in Importers, NEW answered \in BOOLEAN,
         Commit(i, answered)
  PROVE  ReplayInv'
<1> DEFINE next == NextProgress(imp[i].progress, File(i))
           staged == imp[i].staged
           content == Content[imp[i].bytes]
<1>1. /\ imp[i].pc = "commit" /\ imp \in [Importers -> Imports] /\ imp[i] \in Imports
      /\ staged \in StagedEvents
  BY DEF Commit, IInv, BulkType, Imports
<1>2. CASE Expectation(checkpoint) # Expectation(imp[i].progress)
  BY <1>2, EndedReplay DEF Commit
<1>3. CASE Expectation(checkpoint) = Expectation(imp[i].progress)
  <2>1. /\ applied' = Append(applied, File(i))
        /\ projection' = [c \in Citations |-> After(staged, c, projection[c])]
        /\ imp' = IF answered
                  THEN [imp EXCEPT ![i].pc = "files", ![i].progress = next,
                                   ![i].index = @ + 1, ![i].bytes = None,
                                   ![i].staged = <<>>]
                  ELSE Ended("failed", i)
    BY <1>3 DEF Commit
  <2>2. File(i) \in Files /\ applied \in Seq(Files)
    BY <1>1, <1>3, ExpectedIsLast DEF IInv, BulkType
  <2>3. /\ imp[i].bytes = File(i).hash
        /\ Len(staged) = Len(content)
        /\ \A n \in DOMAIN staged :
             staged[n] = [kind |-> content[n].kind, pmid |-> content[n].pmid,
                          by |-> imp[i].bytes]
    BY <1>1 DEF ReplayInv, StagedPrefix
  <2>4. DOMAIN staged = DOMAIN Content[File(i).hash]
    <3>1. content \in Seq(Events)
      BY <2>2, <2>3 DEF BulkAssumption, Files
    <3>2. DOMAIN staged = 1..Len(staged)
      BY <1>1 DEF StagedEvents
    <3> QED BY <2>3, <3>1, <3>2
  <2>5. \A n \in DOMAIN staged :
          staged[n] = [kind |-> Content[File(i).hash][n].kind,
                       pmid |-> Content[File(i).hash][n].pmid, by |-> File(i).hash]
    BY <2>3
  <2> HIDE DEF staged
  <2>6. ASSUME NEW c \in Citations PROVE Shows(applied', c, projection'[c])
    <3>1. Shows(applied, c, projection[c])
      BY DEF ReplayInv
    <3>2. Shows(Append(applied, File(i)), c, After(staged, c, projection[c]))
      BY <2>2, <2>4, <2>5, <3>1, ReplayStep
    <3> QED BY <2>1, <3>2
  <2>7. /\ \A k \in Importers : k # i => imp'[k] = imp[k]
        /\ imp'[i].pc \in {"files", "failed"} /\ imp'[i].staged = <<>>
    BY <1>1, <2>1 DEF Ended, Imports
  <2>8. ASSUME NEW k \in Importers PROVE StagedPrefix(k)'
    <3>1. CASE k = i
      BY <2>7, <3>1 DEF StagedPrefix
    <3>2. CASE k # i
      <4>1. imp'[k] = imp[k]
        BY <2>7, <3>2
      <4>2. StagedPrefix(k)
        BY DEF ReplayInv
      <4> QED BY <4>1, <4>2 DEF StagedPrefix, File
    <3> QED BY <3>1, <3>2
  <2> QED BY <2>6, <2>8 DEF ReplayInv
<1> QED BY <1>2, <1>3

LEMMA InitReplay == ASSUME Init PROVE ReplayInv
<1>1. \A i \in Importers : imp[i].pc = "idle"
  BY DEF Init, NoImport
<1>2. \A c \in Citations : projection[c] = None
  BY DEF Init
<1>3. applied = <<>>
  BY DEF Init
<1>4. DOMAIN applied = {}
  BY <1>3
<1> QED BY <1>1, <1>2, <1>4 DEF ReplayInv, StagedPrefix, Shows, Touch

LEMMA StepReplay == ASSUME BulkAssumption, IInv, ReplayInv, [Next]_vars PROVE ReplayInv'
<1>0. imp \in [Importers -> Imports]
  BY DEF IInv, BulkType
<1>1. CASE UNCHANGED vars
  BY <1>1 DEF vars, ReplayInv, StagedPrefix, File
<1>2. ASSUME NEW i \in Importers, NEW request \in Requests, Start(i, request)
      PROVE  ReplayInv'
  <2> DEFINE pc == IF Accepted(request, checkpoint) THEN "files" ELSE "failed"
             f == [NoImport EXCEPT !.pc = pc, !.request = request,
                                   !.loaded = checkpoint, !.progress = checkpoint]
  <2>1. /\ imp' = [imp EXCEPT ![i] = f] /\ UNCHANGED <<applied, projection>>
    BY <1>2 DEF Start
  <2>2. f.pc \in {"files", "failed"} /\ f.staged = <<>>
    BY DEF NoImport
  <2> HIDE DEF f
  <2>3. StagedPrefix(i)'
    BY <1>0, <2>1, <2>2 DEF StagedPrefix
  <2> QED BY <2>1, <2>3, QuietReplay
<1>3. ASSUME NEW i \in Importers, Stop(i) \/ AllFilesDone(i)
      PROVE  ReplayInv'
  BY <1>3, EndedReplay DEF Stop, AllFilesDone
<1>4. ASSUME NEW i \in Importers, SkipFile(i)
      PROVE  ReplayInv'
  <2>1. CASE imp' = Ended("failed", i)
    BY <1>4, <2>1, EndedReplay DEF SkipFile
  <2>2. CASE imp' = [imp EXCEPT ![i].index = @ + 1]
    <3> DEFINE f == [imp[i] EXCEPT !.index = @ + 1]
    <3>1. /\ imp' = [imp EXCEPT ![i] = f] /\ UNCHANGED <<applied, projection>>
          /\ imp[i].pc = "files"
      BY <1>4, <2>2 DEF SkipFile
    <3>2. f.pc = "files" /\ f.staged = imp[i].staged
      BY <1>0, <3>1 DEF Imports
    <3>3. imp[i].staged = <<>>
      BY <3>1 DEF ReplayInv, StagedPrefix
    <3> HIDE DEF f
    <3>4. StagedPrefix(i)'
      BY <1>0, <3>1, <3>2, <3>3 DEF StagedPrefix
    <3> QED BY <3>1, <3>4, QuietReplay
  <2> QED BY <1>4, <2>1, <2>2 DEF SkipFile
<1>5. ASSUME NEW i \in Importers, NEW bytes \in Hashes, Spool(i, bytes)
      PROVE  ReplayInv'
  <2>1. CASE imp' = Ended("failed", i)
    BY <1>5, <2>1, EndedReplay DEF Spool
  <2>2. CASE /\ Verified(i, bytes)
             /\ imp' = [imp EXCEPT ![i].pc = "stage", ![i].bytes = bytes]
    <3> DEFINE f == [imp[i] EXCEPT !.pc = "stage", !.bytes = bytes]
    <3>1. /\ imp' = [imp EXCEPT ![i] = f] /\ UNCHANGED <<applied, projection>>
          /\ imp[i].pc = "files" /\ bytes = File(i).hash
      BY <1>5, <2>2 DEF Spool, Verified
    <3>2. /\ f.pc = "stage" /\ f.staged = imp[i].staged /\ f.bytes = bytes
          /\ f.request = imp[i].request /\ f.index = imp[i].index
      BY <1>0, <3>1 DEF Imports
    <3>3. imp[i].staged = <<>>
      BY <3>1 DEF ReplayInv, StagedPrefix
    <3>4. Content[bytes] \in Seq(Events)
      BY DEF BulkAssumption
    <3>5. Len(<<>>) <= Len(Content[bytes]) /\ DOMAIN <<>> = {}
      BY <3>4
    <3> HIDE DEF f
    <3>6. imp'[i] = f
      BY <1>0, <3>1
    <3>7. StagedPrefix(i)'
      BY <3>1, <3>2, <3>3, <3>5, <3>6 DEF StagedPrefix, File
    <3> QED BY <3>1, <3>7, QuietReplay
  <2> QED BY <1>5, <2>1, <2>2 DEF Spool
<1>6. ASSUME NEW i \in Importers, EventsEnd(i)
      PROVE  ReplayInv'
  <2> DEFINE f == [imp[i] EXCEPT !.pc = "commit"]
  <2>1. /\ imp' = [imp EXCEPT ![i] = f] /\ UNCHANGED <<applied, projection>>
        /\ imp[i].pc = "stage"
        /\ Len(imp[i].staged) = Len(Content[imp[i].bytes])
    BY <1>6 DEF EventsEnd
  <2>2. /\ f.pc = "commit" /\ f.staged = imp[i].staged /\ f.bytes = imp[i].bytes
        /\ f.request = imp[i].request /\ f.index = imp[i].index
    BY <1>0, <2>1 DEF Imports
  <2> HIDE DEF f
  <2>3. imp'[i] = f
    BY <1>0, <2>1
  <2>4. StagedPrefix(i)
    BY DEF ReplayInv
  <2>5. StagedPrefix(i)'
    BY <2>1, <2>2, <2>3, <2>4 DEF StagedPrefix, File
  <2> QED BY <2>1, <2>5, QuietReplay
<1>7. ASSUME NEW i \in Importers, Step(i)
      PROVE  ReplayInv'
  BY <1>3, <1>4, <1>5, <1>6, <1>7, StageReplay, CommitReplay DEF Step
<1> QED BY <1>1, <1>2, <1>3, <1>7 DEF Next

(* Every citation shows the last event any applied file has for it, and     *)
(* nothing of a file that was aborted half way, for any files, any contents *)
(* and any number of importers: ProjectionIsReplay.                         *)
THEOREM ReplayExact == Spec => []ProjectionIsReplay
<1>1. Init => ReplayInv
  BY InitReplay
<1>2. IInv /\ ReplayInv /\ [Next]_vars => ReplayInv'
  BY StepReplay, BulkAssumption
<1>3. ASSUME IInv, ReplayInv PROVE ProjectionIsReplay
  <2>0. \A c \in Citations : Shows(applied, c, projection[c])
    BY <1>3 DEF ReplayInv
  <2> SUFFICES ASSUME NEW c \in Citations
        PROVE LET Touches(m) == {<<m, n>> : n \in {k \in DOMAIN Content[applied[m].hash] :
                                          Content[applied[m].hash][k].pmid = c}}
                  touches == UNION {Touches(m) : m \in DOMAIN applied}
                  Later(s, t) == s[1] < t[1] \/ (s[1] = t[1] /\ s[2] < t[2])
              IN IF touches = {} THEN projection[c] = None
                 ELSE \E t \in touches :
                        /\ \A s \in touches : s = t \/ Later(s, t)
                        /\ projection[c] = IF Content[applied[t[1]].hash][t[2]].kind = "delete"
                                             THEN None ELSE applied[t[1]].hash
    BY DEF ProjectionIsReplay
  <2> DEFINE Touches(m) == {<<m, n>> : n \in {k \in DOMAIN Content[applied[m].hash] :
                                          Content[applied[m].hash][k].pmid = c}}
             touches == UNION {Touches(m) : m \in DOMAIN applied}
  <2>1. \A m, n : Touch(applied, m, n, c) => <<m, n>> \in touches
    BY DEF Touch
  <2>2. \A s \in touches : s = <<s[1], s[2]>> /\ Touch(applied, s[1], s[2], c)
    BY DEF Touch
  <2> HIDE DEF touches
  <2>3. Shows(applied, c, projection[c])
    BY ONLY <2>0, c \in Citations
  <2>4. CASE touches = {}
    BY <2>1, <2>3, <2>4 DEF Shows, touches
  <2>5. CASE touches # {}
    <3>1. PICK m, n :
            /\ Touch(applied, m, n, c)
            /\ \A k, l : Touch(applied, k, l, c) => NotAfter(k, l, m, n)
            /\ projection[c] = IF Content[applied[m].hash][n].kind = "delete"
                                 THEN None ELSE applied[m].hash
      BY <2>2, <2>3, <2>5 DEF Shows
    <3> DEFINE t == <<m, n>>
    <3>2. t \in touches /\ t[1] = m /\ t[2] = n
      BY <2>1, <3>1
    <3>3. \A s \in touches : s = t \/ s[1] < t[1] \/ (s[1] = t[1] /\ s[2] < t[2])
      BY <2>2, <3>1 DEF NotAfter
    <3> HIDE DEF t
    <3> QED BY <2>5, <3>1, <3>2, <3>3 DEF touches
  <2> QED BY <2>4, <2>5
<1> QED BY <1>1, <1>2, <1>3, Invariant, PTL DEF Spec
==============================================================================
