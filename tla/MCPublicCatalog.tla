--------------------------- MODULE MCPublicCatalog ---------------------------
(* Instances of PublicCatalog. *)
EXTENDS PublicCatalog, TLC

CONSTANTS p1, p2, r1

Draft(state, value) == [state |-> state, value |-> value]
MCDrafts == {Draft("known", 1), Draft("known", 2), Draft("unknown", 0), Draft("missing", 0)}

\* Three works with a tie; the same after a change of order and a deletion; the
\* first state with a work that is not ready; values in all three blocks.
Tied == <<Draft("known", 1), Draft("known", 2), Draft("known", 1)>>
Moved == <<Draft("known", 2), Hidden, Draft("known", 1)>>
Unlinked == <<Draft("known", 1), Incomplete, Draft("known", 1)>>
Blocks == <<Draft("missing", 0), Draft("known", 2), Draft("unknown", 0)>>

MCStates == {Tied, Moved, Unlinked, Blocks}

MCFilters == {1..3, {1, 3}}

MCSymmetry == Permutations(Publishers)
==============================================================================
