--------------------------- MODULE MCSourceFetch ---------------------------
EXTENDS SourceFetch, TLC

CONSTANTS s1, s2

Load(kind, records, first, second) ==
  [source |-> kind, total |-> records, max |-> (s1 :> first) @@ (s2 :> second)]

\* One fetch of several pages per source: cut within the matches, past their
\* end, and ended by a full page; and two fetches that contend for slots.
LongOrContending ==
  {Load(kind, 3, 4, 0) : kind \in AllSources} \cup
  {Load(kind, 4, 3, 0) : kind \in AllSources} \cup
  {Load("crossref", 2, 3, 0), Load("openalex", 1, 1, 1)}
=============================================================================
