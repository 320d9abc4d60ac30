----------------------------- MODULE JcrLedger -----------------------------
(***************************************************************************)
(* What importing a JCR file promises, as if every import ran alone and at *)
(* once: the file's rows, its aliases and its receipt appear together or   *)
(* not at all, a stored row is never replaced, a file is imported once,    *)
(* and its receipt says how many rows it brought.  (Comment of JCRSink,    *)
(* internal/venue/jcr_import.go.)                                          *)
(***************************************************************************)
EXTENDS Naturals, Sequences, FiniteSets

CONSTANTS
  Keys,        \* MetricKey: venue, year and category
  Files,       \* by SHA-256
  Batches,     \* file -> the row sequences and aliases it may resolve to
  None

VARIABLES
  metrics,     \* venue_metric_snapshots: key -> None or fact and creating file
  receipts,    \* jcr_import_receipts with their links: file -> None or record
  aliases      \* venue_aliases

ledgerVars == <<metrics, receipts, aliases>>

Fits(rows) ==
  \A l \in DOMAIN rows :
    /\ metrics[rows[l].key] # None => metrics[rows[l].key].fact = rows[l].fact
    /\ \A m \in DOMAIN rows : rows[m].key = rows[l].key => rows[m].fact = rows[l].fact

New(rows) == {k \in Keys : metrics[k] = None /\ \E l \in DOMAIN rows : rows[l].key = k}

FactOf(rows, k) == rows[CHOOSE l \in DOMAIN rows : rows[l].key = k].fact

Import(f, batch) ==
  LET rows == batch.rows
      fresh == New(rows)
  IN  /\ Fits(rows)
      /\ metrics' = [k \in Keys |-> IF k \in fresh
                                    THEN [fact |-> FactOf(rows, k), file |-> f]
                                    ELSE metrics[k]]
      /\ aliases' = aliases \cup batch.aliases
      /\ receipts' = [receipts EXCEPT ![f] =
           [links |-> [l \in DOMAIN rows |-> rows[l].key],
            aliases |-> batch.aliases,
            input |-> Len(rows),
            inserted |-> Cardinality(fresh),
            unchanged |-> Len(rows) - Cardinality(fresh)]]

Init ==
  /\ metrics = [k \in Keys |-> None]
  /\ receipts = [f \in Files |-> None]
  /\ aliases = {}

\* A step gives one file its receipt.
Next ==
  \E f \in Files :
    /\ receipts[f] = None /\ receipts'[f] # None
    /\ \E batch \in Batches[f] : Import(f, batch)

Spec == Init /\ [][Next]_ledgerVars
=============================================================================
