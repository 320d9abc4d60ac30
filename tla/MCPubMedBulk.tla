---------------------------- MODULE MCPubMedBulk ----------------------------
(* Instances of PubMedBulk. *)
EXTENDS PubMedBulk, TLC

CONSTANTS i1, i2, h1, h2, h3, c1, c2

MCContent ==
  [h \in {h1, h2, h3} |->
     CASE h = h1 -> <<[kind |-> "upsert", pmid |-> c1], [kind |-> "upsert", pmid |-> c2]>>
       [] h = h2 -> <<[kind |-> "delete", pmid |-> c1], [kind |-> "upsert", pmid |-> c1]>>
       [] h = h3 -> <<[kind |-> "upsert", pmid |-> c2], [kind |-> "delete", pmid |-> c2]>>]

F(n, h) == [year |-> 26, sequence |-> n, hash |-> h]

\* Complete, from the middle, with a hole, out of order, and with a second file
\* that was replaced.
Manifests ==
  {<<F(1, h1), F(2, h2), F(3, h3)>>, <<F(2, h2), F(3, h3)>>,
   <<F(1, h1), F(3, h3)>>, <<F(2, h2), F(1, h1)>>, <<F(1, h1), F(2, h3)>>}

Request(kind, year, previous, files) ==
  [kind |-> kind, year |-> year, previous |-> previous, files |-> files]

MCRequests ==
  {Request("baseline", 26, 0, files) : files \in Manifests}
    \cup {Request("daily", 26, previous, files) : previous \in 0..2, files \in Manifests}
    \cup {Request("baseline", 25, 0, <<F(1, h1)>>)}

MCSymmetry == Permutations(Importers)
==============================================================================
