--------------------------- MODULE MCCatalogRules ---------------------------
EXTENDS CatalogRules

MCSlug == [id \in {"ai_law", "ai_and_law", "robots", "lunwen"} |->
             CASE id = "robots" -> "robots" [] id = "lunwen" -> None [] OTHER -> "ai-law"]

MCContents ==
  {<<"text", "full">>, <<"text", "empty">>, <<"pointer", "full">>, <<"pointer", None>>,
   <<"list", "full">>, <<"list", "empty">>, <<"list", None>>}

Row(at, id, assertion) == [at |-> at, id |-> id, assertion |-> assertion]

\* One to three rows at two times.
MCRowSets ==
  {{Row(t[i], i, a[i]) : i \in 1..n} :
     n \in 0..3, t \in [1..3 -> 1..2],
     a \in [1..3 -> {Known("full"), Known("other"), Missing, [state |-> "missing", value |-> "empty"]}]}

\* Both edges of the seven days and one day beyond each.
MCNow == 9
MCDates == {1, 2, 9, 10}

OneRow(assertions) == {{Row(1, 1, a)} : a \in assertions}

StatFacts ==
  [dates : {{}} \cup OneRow({Missing} \cup {Known(d) : d \in MCDates}),
   linked : BOOLEAN,
   urls : {{}} \cup OneRow({Unknown, Known("full"), Known("empty")}),
   topics : {{}}]

TopicFacts ==
  [dates : {{}}, linked : {FALSE}, urls : {{}}, topics : SUBSET DOMAIN MCSlug]

MCCatalogs == [{"w1", "w2"} -> StatFacts] \cup [{"w1", "w2", "w3"} -> TopicFacts]

Texts == [integer : {<<a>> : a \in {0, 3}} \cup {<<a, b>> : a \in {0, 3}, b \in {0, 3}},
          fraction : {<<>>} \cup {<<a>> : a \in {0, 3}} \cup {<<a, b>> : a \in {0, 3}, b \in {0, 3}}]
MCDecimals == Texts \X Texts

\* 9.9, 10 and 10.1.
Jifs == {ParseDecimal([integer |-> <<9>>, fraction |-> <<9>>]),
         ParseDecimal([integer |-> <<1, 0>>, fraction |-> <<>>]),
         ParseDecimal([integer |-> <<1, 0>>, fraction |-> <<1>>])}
MCJudgements == [status : {"known"}, jif : Jifs, quartile : {"Q1", "Q2"}]
MetricRows == MCJudgements \cup {[status |-> "unknown", jif |-> NoJif, quartile |-> ""]}
MCJournals ==
  [type : {"journal", "conference"},
   metrics : {<<>>} \cup {<<a>> : a \in MetricRows} \cup {<<a, b>> : a \in MetricRows, b \in MetricRows}]

\* Two values of every threshold, three of every score.
PolicyThresholds ==
  [growth : {1, 2}, competition : {1, 2}, data : {1, 2}, reproducibility : {1, 2}, confidence : {1}]
Window(from, to) == [from |-> from, to |-> to]
Input(scores, coverage, missing, evidence) ==
  [scores |-> scores, coverage |-> coverage, missing |-> missing, evidence |-> evidence,
   window |-> Window(1, 2)]
Policy(worth, against) ==
  [coverage |-> 1, required |-> Signals, worth |-> worth, against |-> against]
MCOpportunities ==
  [input : {Input(s, 1, {}, {"paper"}) : s \in
              [growth : 1..2, competition : 1..2, data : 1..2, reproducibility : 1..2, confidence : {0, 1}]},
   policy : {Policy(w, n) : w \in PolicyThresholds, n \in PolicyThresholds}]
  \cup
  [input : {Input([growth |-> 2, competition |-> 0, data |-> 2, reproducibility |-> 2, confidence |-> 2],
                  coverage, missing, evidence) :
              coverage \in {0, 1, 3}, evidence \in {{}, {"paper"}},
              missing \in {{}, {"growth_score"}, {"growth_window"}, {"novelty"}}},
   policy : {Policy([growth |-> 1, competition |-> c, data |-> 1, reproducibility |-> 1, confidence |-> 1],
                    [growth |-> 0, competition |-> 2, data |-> 0, reproducibility |-> 0, confidence |-> 1]) :
               c \in {1, 3}}]

Snapshots == {Nil} \cup [at : {0, 2, 3, 5}, value : {-1, 0, 1, 2, 3}]
MCSeries == [start : Snapshots, end : Snapshots]

Windows(from) == {[from |-> b, to |-> b + length, count |-> c, total |-> t] :
                    b \in from, length \in {-1, 0, 1, 2}, c \in {-1, 0, 1, 2}, t \in {0, 1, 3}}
MCWindowPairs == [baseline : {Nil} \cup Windows({1}), current : {Nil} \cup Windows({0, 1, 2, 3})]

MCCohorts == [target : -1..2, cohort : UNION {[P -> -1..3] : P \in SUBSET {"p", "q", "r"}}]
=============================================================================
