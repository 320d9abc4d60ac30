----------------------------- MODULE PubMedBulk -----------------------------
(***************************************************************************)
(* The import of ordered PubMed files for one job:                         *)
(* internal/source/pubmed/bulk.go. Importers run in several processes; the *)
(* sink and the checkpoint they share are interfaces, modelled by what     *)
(* their comments ask of an implementation.                                *)
(***************************************************************************)
EXTENDS Naturals, Sequences

CONSTANTS
  Importers,   \* calls of ImportBaseline and ImportDaily under way
  Years,       \* two-digit years of file names
  Hashes,      \* SHA256 digests; a digest stands for the bytes it is taken of
  Citations,   \* PMIDs
  Content,     \* the events of the file with a digest, in document order
  Requests,    \* imports an operator may ask for
  MaxSequence, \* bound: file sequence numbers
  None

Files == [year : Years, sequence : 1..MaxSequence, hash : Hashes]
Events == [kind : {"upsert", "delete"}, pmid : Citations]

ASSUME BulkAssumption ==
  /\ MaxSequence \in Nat
  /\ Requests \subseteq [kind : {"baseline", "daily"}, year : Years,
                        previous : Nat, files : Seq(Files)]
  /\ Content \in [Hashes -> Seq(Events)]
  /\ None \notin Hashes /\ None \notin Files
  /\ None \notin [file : Files, sequence : 1..MaxSequence, revision : Nat]

VARIABLES
  checkpoint,  \* durable Progress of the job, or None
  applied,     \* files whose transaction committed, in order of the commits
  projection,  \* the digest of the file each citation was last replaced from
  imp          \* the call of each importer; loaded keeps its first progress

vars == <<checkpoint, applied, projection, imp>>

NoImport == [pc |-> "idle", request |-> None, loaded |-> None, progress |-> None,
             index |-> 1, bytes |-> None, staged |-> <<>>]

Init ==
  /\ checkpoint = None
  /\ applied = <<>>
  /\ projection = [c \in Citations |-> None]
  /\ imp = [i \in Importers |-> NoImport]

(***************************************************************************)
(* Validation of a request against the progress that was loaded.           *)
(***************************************************************************)
\* Slip: the files of a list are compared by order only.
OrderedOnly(files) ==
  \A n \in 1..(Len(files) - 1) : files[n].sequence < files[n + 1].sequence

\* No duplicate, nothing out of order, nothing missing in between.
Consecutive(files) ==
  \A n \in 1..(Len(files) - 1) : files[n + 1].sequence = files[n].sequence + 1

\* The sequence numbers the first file may have.
MayStart(request, progress) ==
  IF request.kind = "baseline"
    THEN {1} \cup (IF progress = None THEN {} ELSE {progress.sequence + 1})
    ELSE {request.previous + 1}

Accepted(request, progress) ==
  /\ request.files # <<>>
  /\ \A n \in DOMAIN request.files : request.files[n].year = request.year
  /\ Consecutive(request.files)
  /\ request.files[1].sequence \in MayStart(request, progress)
  /\ request.kind = "daily" /\ progress # None =>
       request.previous = progress.sequence

(***************************************************************************)
(* One file.                                                               *)
(***************************************************************************)
\* The file importFiles is at.
File(i) == imp[i].request.files[imp[i].index]

\* Slip: only the existence of a checkpoint is compared.
ExpectationOfExistence(progress) ==
  [exists |-> progress # None, revision |-> 0, sequence |-> 0]

Expectation(progress) ==
  IF progress = None
    THEN [exists |-> FALSE, revision |-> 0, sequence |-> 0]
    ELSE [exists |-> TRUE, revision |-> progress.revision,
          sequence |-> progress.sequence]

NextProgress(progress, file) ==
  [file |-> file, sequence |-> file.sequence,
   revision |-> Expectation(progress).revision + 1]

\* What a file leaves of a citation: its last event counts.
After(events, c, before) ==
  LET touches == {n \in DOMAIN events : events[n].pmid = c}
      last == CHOOSE n \in touches : \A m \in touches : m <= n
  IN IF touches = {} THEN before
     ELSE IF events[last].kind = "delete" THEN None
     ELSE events[last].by

(***************************************************************************)
(* Actions.                                                                *)
(***************************************************************************)
Ended(outcome, i) == [imp EXCEPT ![i].pc = outcome, ![i].staged = <<>>]

\* Checkpoint.Load and the validation of the request.
Start(i, request) ==
  /\ imp[i].pc \in {"idle", "done", "failed"}
  /\ imp' = [imp EXCEPT ![i] =
       [NoImport EXCEPT !.pc = IF Accepted(request, checkpoint) THEN "files" ELSE "failed",
                        !.request = request,
                        !.loaded = checkpoint,
                        !.progress = checkpoint]]
  /\ UNCHANGED <<checkpoint, applied, projection>>

\* An error at any point, a cancelled context, or the end of the process:
\* Abort, or the sink, drops what is staged.
Stop(i) ==
  /\ imp[i].pc \in {"files", "stage", "commit"}
  /\ imp' = Ended("failed", i)
  /\ UNCHANGED <<checkpoint, applied, projection>>

AllFilesDone(i) ==
  /\ imp[i].pc = "files"
  /\ imp[i].index > Len(imp[i].request.files)
  /\ imp' = Ended("done", i)
  /\ UNCHANGED <<checkpoint, applied, projection>>

\* The checkpoint is at this file or past it.
Covered(i) ==
  imp[i].progress # None /\ File(i).sequence <= imp[i].progress.sequence

\* Slip: a file of the checkpoint's sequence is taken for the same file.
SameSequence(i) == TRUE

\* The file of the checkpoint itself has to be the same file.
SameFile(i) == imp[i].progress.file = File(i)

SkipFile(i) ==
  /\ imp[i].pc = "files"
  /\ imp[i].index <= Len(imp[i].request.files)
  /\ Covered(i)
  /\ imp' = IF File(i).sequence = imp[i].progress.sequence /\ ~SameFile(i)
              THEN Ended("failed", i)
              ELSE [imp EXCEPT ![i].index = @ + 1]
  /\ UNCHANGED <<checkpoint, applied, projection>>

\* Slip: the bytes are not compared with the digest of the manifest.
Unverified(i, bytes) == TRUE

Verified(i, bytes) == bytes = File(i).hash

\* The file is copied to the spool and hashed, and its transaction begins.
Spool(i, bytes) ==
  /\ imp[i].pc = "files"
  /\ imp[i].index <= Len(imp[i].request.files)
  /\ ~Covered(i)
  /\ imp' = IF Verified(i, bytes)
              THEN [imp EXCEPT ![i].pc = "stage", ![i].bytes = bytes]
              ELSE Ended("failed", i)
  /\ UNCHANGED <<checkpoint, applied, projection>>

\* The next event of the spooled stream is staged.
Stage(i) ==
  LET n == Len(imp[i].staged) + 1 IN
  /\ imp[i].pc = "stage"
  /\ n <= Len(Content[imp[i].bytes])
  /\ imp' = [imp EXCEPT ![i].staged =
       Append(@, [kind |-> Content[imp[i].bytes][n].kind,
                  pmid |-> Content[imp[i].bytes][n].pmid,
                  by |-> imp[i].bytes])]
  /\ UNCHANGED <<checkpoint, applied, projection>>

EventsEnd(i) ==
  /\ imp[i].pc = "stage"
  /\ Len(imp[i].staged) = Len(Content[imp[i].bytes])
  /\ imp' = [imp EXCEPT ![i].pc = "commit"]
  /\ UNCHANGED <<checkpoint, applied, projection>>

\* Commit compares the checkpoint with what was expected and makes the staged
\* events and the new checkpoint durable. The interface forbids a commit that
\* is applied and answered with an error; it is allowed here all the same.
Commit(i, answered) ==
  /\ imp[i].pc = "commit"
  /\ IF Expectation(checkpoint) = Expectation(imp[i].progress)
       THEN /\ checkpoint' = NextProgress(imp[i].progress, File(i))
            /\ applied' = Append(applied, File(i))
            /\ projection' = [c \in Citations |-> After(imp[i].staged, c, projection[c])]
            /\ imp' = IF answered
                 THEN [imp EXCEPT ![i].pc = "files",
                                  ![i].progress = NextProgress(imp[i].progress, File(i)),
                                  ![i].index = @ + 1,
                                  ![i].bytes = None,
                                  ![i].staged = <<>>]
                 ELSE Ended("failed", i)
       ELSE /\ imp' = Ended("failed", i)
            /\ UNCHANGED <<checkpoint, applied, projection>>

Step(i) ==
  \/ AllFilesDone(i)
  \/ SkipFile(i)
  \/ \E bytes \in Hashes : Spool(i, bytes)
  \/ Stage(i)
  \/ EventsEnd(i)
  \/ \E answered \in BOOLEAN : Commit(i, answered)

Next ==
  \E i \in Importers :
    \/ \E request \in Requests : Start(i, request)
    \/ Step(i)
    \/ Stop(i)

Spec == Init /\ [][Next]_vars

(***************************************************************************)
(* Properties.                                                             *)
(***************************************************************************)
Progresses == [file : Files, sequence : 1..MaxSequence, revision : Nat]

(* Each file is applied once and none is left out, whatever importers race, *)
(* fail, are killed or miss the answer of a commit (bulk.go:474-510).       *)
AppliedWithoutGaps ==
  \A n \in 1..(Len(applied) - 1) :
    applied[n + 1].sequence = applied[n].sequence + 1

(* The checkpoint is the last applied file, and its revision, which other   *)
(* importers compare, counts the files (bulk.go:600-616).                   *)
CheckpointIsLastApplied ==
  IF applied = <<>> THEN checkpoint = None
  ELSE /\ checkpoint # None
       /\ checkpoint.file = applied[Len(applied)]
       /\ checkpoint.sequence = checkpoint.file.sequence
       /\ checkpoint.revision = Len(applied)

(* An import that reports success has applied every file of its list from   *)
(* the checkpoint on, under the very digest the list gives it; files before *)
(* the checkpoint are skipped unseen (bulk.go:483-497).                     *)
SuccessCoversRequest ==
  \A i \in Importers : imp[i].pc = "done" =>
    \A n \in DOMAIN imp[i].request.files :
      LET f == imp[i].request.files[n] IN
      \/ \E m \in DOMAIN applied : applied[m] = f
      \/ imp[i].loaded # None /\ f.sequence < imp[i].loaded.sequence

(* Every citation shows the last event that any applied file has for it:    *)
(* events of one file in document order, of files in sequence, none of a    *)
(* file that was aborted half way.                                          *)
ProjectionIsReplay ==
  \A c \in Citations :
    LET Touches(m) == {<<m, n>> : n \in {k \in DOMAIN Content[applied[m].hash] :
                                          Content[applied[m].hash][k].pmid = c}}
        touches == UNION {Touches(m) : m \in DOMAIN applied}
        Later(s, t) == s[1] < t[1] \/ (s[1] = t[1] /\ s[2] < t[2])
    IN IF touches = {} THEN projection[c] = None
       ELSE \E t \in touches :
              /\ \A s \in touches : s = t \/ Later(s, t)
              /\ projection[c] = IF Content[applied[t[1]].hash][t[2]].kind = "delete"
                                   THEN None ELSE applied[t[1]].hash
==============================================================================
