---------------------------- MODULE MCProjection ----------------------------
(* Small instances of Projection for TLC. *)
EXTENDS Projection, TLC

CONSTANTS doi, openalex, eA, eB, a1, a2, b1, dA, v1

AllOrder == (doi :> 1) @@ (openalex :> 2)
AllPriority == (doi :> 0) @@ (openalex :> 4)

Up(e, n, ids, id) == [event |-> e, rank |-> n, kind |-> "upsert", ids |-> ids, identity |-> id]
Del(e, n) == [event |-> e, rank |-> n, kind |-> "delete", ids |-> {}, identity |-> None]

\* Source A deletes its record, then has it back.
WithDeletion ==
  (a1 :> Up(eA, 1, {doi}, doi)) @@
  (b1 :> Up(eB, 2, {doi}, doi)) @@
  (dA :> Del(eA, 3)) @@
  (a2 :> Up(eA, 4, {openalex, doi}, doi))

\* Every kind of write.  The first record of source A links two identifiers;
\* its second one and the record of source B know one of them each, so that
\* without the first they found two works.
Mixed ==
  (a1 :> Up(eA, 1, {openalex, doi}, doi)) @@
  (b1 :> Up(eB, 2, {}, doi)) @@
  (dA :> Del(eA, 3)) @@
  (a2 :> Up(eA, 4, {openalex}, openalex))

\* Two sources whose records both carry both identifiers.
Overlapping ==
  (a1 :> Up(eA, 1, {openalex, doi}, doi)) @@
  (b1 :> Up(eB, 2, {openalex, doi}, doi)) @@
  (dA :> Del(eA, 3)) @@
  (a2 :> Up(eA, 4, {openalex}, openalex))

AllIncluded == [v \in Versions |-> [r \in Raws |-> "included"]]

\* The second policy version puts the first revision of source A in doubt and
\* its second one out of scope.
Reassessed ==
  [v \in Versions |->
     IF v = v1 THEN [r \in Raws |-> "included"]
     ELSE [r \in Raws |-> CASE r = a1 -> "pending"
                            [] r = a2 -> "excluded"
                            [] OTHER -> "included"]]

BothSymmetries == Permutations(Works) \cup Permutations(Workers)
=============================================================================
