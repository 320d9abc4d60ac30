-------------------------- MODULE MCIngestionJobs --------------------------
(* Small instances of IngestionJobs for TLC. *)
EXTENDS IngestionJobs, TLC

\* The worker command derives the batch key from the idempotency key: two
\* copies of one command share both.
SameCommand == {[key |-> "k1", batch |-> "b1"]}

\* Library use: NewJob takes the keys independently, so one key may come under
\* two batches, and two keys under one batch.
CrossedKeys ==
  {[key |-> "k1", batch |-> "b1"], [key |-> "k1", batch |-> "b2"],
   [key |-> "k2", batch |-> "b1"]}

Symmetry == Permutations(Workers) \cup Permutations(Jobs)
=============================================================================
