---------------------------- MODULE MCJcrImport ----------------------------
EXTENDS JcrImport

CONSTANTS i1, i2

Row(issns, metric, jif, title) ==
  [issns |-> issns, metric |-> metric, status |-> "known", jif |-> jif,
   quartile |-> "Q1", source |-> "clarivate", title |-> title]

Unknown(issns, metric) ==
  [Row(issns, metric, None, None) EXCEPT !.status = "unknown", !.quartile = None]

\* 1: two venues, in the order opposite to 2, and one title of each; 2: the
\* same rows but one; 3: no title, a duplicate and a row of either venue;
\* 4: two values under one key; 5: a row with a JIF and no status.
TheContent ==
  <<<<Row({"b"}, 1, 7, "t"), Row({"a"}, 1, 5, "t")>>,
    <<Row({"a"}, 1, 5, "t"), Row({"b"}, 1, 8, "t")>>,
    <<Unknown({"a", "b"}, 2), Unknown({"a", "b"}, 2), Row({"a"}, 1, 5, None)>>,
    <<Row({"b"}, 2, 5, None), Row({"b"}, 2, 6, None)>>,
    <<[Row({"a"}, 1, 5, None) EXCEPT !.status = "unknown"]>>>>

TheFiles == 1..5

TheLicenses ==
  [i \in Importers |-> IF i = i1 THEN {"annual"} ELSE {"annual", "trial"}]
TheRuns == [i \in Importers |-> IF i = i1 THEN 2 ELSE 1]

TheVenueISSNs == <<{"a"}, {"b"}>>
TheKeyRank == [k \in Keys |-> 2 * k[1] + k[2]]
\* Aliases in the order opposite to the rows' keys.
TheAliasLock == [a \in Aliases |-> 3 - a[1]]
=============================================================================
