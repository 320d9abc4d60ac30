---------------------------- MODULE CatalogRules ----------------------------
(***************************************************************************)
(* The rules of modules CatalogFacts, JournalRules and ResearchRules, each *)
(* asked one question after another; what must hold of every answer.       *)
(***************************************************************************)
EXTENDS CatalogFacts, JournalRules, ResearchRules

CONSTANTS
  Contents,      \* bound: <<type, content>> of the fields of records
  RowSets,       \* bound: assertions of one field
  Catalogs,      \* bound: facts of the visible works
  Now, Dates,    \* the time of publication, and what a date may be
  Decimals,      \* bound: pairs of decimal texts
  Journals,      \* bound: [type, metrics]
  Judgements,    \* bound: what a metric that is unknown may turn out to be
  Opportunities, \* bound: [input, policy]
  Series,        \* bound: [start, end] snapshots
  WindowPairs,   \* bound: [baseline, current] windows
  Cohorts        \* bound: [target, cohort]

\* Rows of assertions, in the states that persistFieldAssertions writes.
AreRows(rows, values) ==
  /\ IsFiniteSet(rows)
  /\ rows \subseteq [at : Nat, id : Nat,
                     assertion : [state : {"known", "unknown", "missing"},
                                  value : values \cup {None}]]

\* What the types of the code and of the tables say of the questions.  A date may
\* lie in the last seven days or not.
ASSUME FactsAssumption ==
  /\ Now \in Nat /\ Dates \subseteq Nat
  /\ \E d \in Dates : d \in (Now - RecentDays)..Now
  /\ \E d \in Dates : d \notin (Now - RecentDays)..Now
  /\ None \notin Dates /\ None \notin {"full", "empty"}
  /\ \A rows \in RowSets : AreRows(rows, {r.assertion.value : r \in rows})
  /\ \A works \in Catalogs :
       /\ IsFiniteSet(DOMAIN works)
       /\ \A w \in DOMAIN works :
            /\ AreRows(works[w].dates, Dates) /\ AreRows(works[w].urls, {"full", "empty"})
            /\ works[w].linked \in BOOLEAN

\* A metric that is unknown may turn out to match a rule of the policy or not.
ASSUME JournalsAssumption ==
  /\ \A j \in Judgements : j.status = "known"
  /\ \E j \in Judgements : MatchedRules(<<j>>) # {}
  /\ \E j \in Judgements : MatchedRules(<<j>>) = {}
  /\ \A o \in Journals :
       /\ o.metrics \in Seq({o.metrics[i] : i \in DOMAIN o.metrics})
       /\ \A i \in DOMAIN o.metrics : o.metrics[i].status \in {"known", "unknown"}

\* The texts of a pair match decimalPattern.
ASSUME DecimalsAssumption ==
  \A pair \in Decimals : \A i \in 1..2 :
    pair[i].integer \in Seq(0..9) /\ pair[i].fraction \in Seq(0..9)

\* A cohort is smaller than the precision of a percentile can tell apart.
ASSUME NumbersAssumption ==
  /\ Nil \notin [from : Int, to : Int, count : Int, total : Int]
  /\ Nil \notin {"missing", "time_reversed", "zero_denominator", "window_mismatch",
                 "invalid_metric"}
  /\ \A o \in Opportunities :
       {o.input.scores, o.policy.worth, o.policy.against} \subseteq Thresholds
  /\ \A s \in Series : {s.start, s.end} \subseteq {Nil} \cup [at : Nat, value : Int]
  /\ \A w \in WindowPairs :
       {w.baseline, w.current}
         \subseteq {Nil} \cup [from : Int, to : Int, count : Int, total : Int]
  /\ \A c \in Cohorts :
       /\ c.target \in Int /\ c.cohort \in [DOMAIN c.cohort -> Int]
       /\ IsFiniteSet(DOMAIN c.cohort) /\ Cardinality(DOMAIN c.cohort) < 200 * Unit

VARIABLES question, answer

vars == <<question, answer>>

Nothing == [rule |-> "none"]

Init == question = Nothing /\ answer = None

\* A caller asks one rule.
Ask(rule, about, result) ==
  /\ question' = [rule |-> rule, about |-> about]
  /\ answer' = result

WriteAssertion(field) == Ask("assertion", field, Asserted(field[1], field[2]))

SelectAssertion(rows) ==
  Ask("selection", rows, IF Unambiguous(rows) THEN Selected(rows, Missing) ELSE None)

BuildSnapshot(works) == Ask("snapshot", works, Snapshot(works, Now))

CompareDecimals(pair) ==
  Ask("decimals", pair, Cmp(ParseDecimal(pair[1]), ParseDecimal(pair[2])))

JudgeJournal(journal) == Ask("journal", journal, Decision(journal.type, journal.metrics))

AssessOpportunity(o) == Ask("opportunity", o, Verdict(o.input, o.policy))

RankSeries(s) ==
  Ask("series", s, [velocity |-> CitationVelocity(s.start, s.end),
                    growth |-> CodeGrowth(s.start, s.end)])

RankWindows(w) ==
  Ask("windows", w, [growth |-> TopicGrowth(w.baseline, w.current),
                     adoption |-> MethodAdoption(w.baseline, w.current)])

RankCohort(c) == Ask("cohort", c, CitationPercentile(c.target, c.cohort))

Forget == question # Nothing /\ question' = Nothing /\ answer' = None

Answers ==
  \/ \E field \in Contents : WriteAssertion(field)
  \/ \E rows \in RowSets : SelectAssertion(rows)
  \/ \E works \in Catalogs : BuildSnapshot(works)
  \/ \E pair \in Decimals : CompareDecimals(pair)
  \/ \E journal \in Journals : JudgeJournal(journal)
  \/ \E o \in Opportunities : AssessOpportunity(o)
  \/ \E s \in Series : RankSeries(s)
  \/ \E w \in WindowPairs : RankWindows(w)
  \/ \E c \in Cohorts : RankCohort(c)

Next == (question = Nothing /\ Answers) \/ Forget

Spec == Init /\ [][Next]_vars

Asked(rule) == question.rule = rule

about == question.about

(***************************************************************************)
(* Papers and statistics.                                                  *)
(***************************************************************************)
\* Every assertion that the projection of a record writes is one the publisher
\* can read: it has a value where its state is known and only there.
WrittenAssertionsAreReadable == Asked("assertion") => Readable(answer)

\* Which of the newest assertions is read does not depend on their ids, which
\* are random: with ids dealt out anew the answer is the same.
SelectionIgnoresIds ==
  Asked("selection") =>
    LET ids == {r.id : r \in about}
        Dealt(deal) == {[r EXCEPT !.id = deal[r.id]] : r \in about}
    IN  \A deal \in [ids -> ids] :
          (\A i, j \in ids : deal[i] = deal[j] => i = j) /\ answer # None =>
            Selected(Dealt(deal), Missing) = answer

\* What may be true of works with these facts: a known date is the date, a
\* linked repository or an assertion about code URLs says whether there is code.
Worlds(works) ==
  LET Newest(rows, claim) == \E r \in rows : (\A s \in rows : s.at <= r.at) /\ r.assertion = claim
  IN  {world \in [DOMAIN works -> [date : Dates, code : BOOLEAN]] :
         \A w \in DOMAIN works :
           /\ \A d \in Dates : Newest(works[w].dates, Known(d)) => world[w].date = d
           /\ works[w].linked \/ Newest(works[w].urls, Known("full")) => world[w].code
           /\ ~works[w].linked /\ Newest(works[w].urls, Known("empty")) => ~world[w].code}

\* A published statistic is known exactly if all that may be true of the works
\* agrees on it, and then it is the number they agree on.
StatsAreFinal ==
  Asked("snapshot") /\ answer # None =>
    LET Recent(world) == Cardinality({w \in DOMAIN world : world[w].date \in (Now - 7)..Now})
        Ratio(world) ==
          <<Cardinality({w \in DOMAIN world : world[w].code}), Cardinality(DOMAIN world)>>
        Agreed(F(_)) == LET all == {F(world) : world \in Worlds(about)}
                        IN  IF Cardinality(all) = 1 THEN all ELSE {}
        Stated(v) == IF v.state = "known" THEN {v.value} ELSE {}
    IN  /\ Stated(answer.recent) = Agreed(Recent)
        /\ Stated(answer.codeRatio) = Agreed(Ratio)

\* A slug in a paper leads to one entry, which lists the paper and counts every
\* paper that has the slug.
SlugsResolve ==
  Asked("snapshot") /\ answer # None =>
    \A w \in DOMAIN answer.papers : \A slug \in TopicSlugs(answer.papers[w]) :
      LET entries == {e \in answer.topics : e.slug = slug}
          named == {v \in DOMAIN answer.papers : slug \in TopicSlugs(answer.papers[v])}
      IN  /\ w \in named
          /\ entries = {[slug |-> slug, papers |-> named, count |-> Cardinality(named)]}

(***************************************************************************)
(* Journals.                                                               *)
(***************************************************************************)
\* Comparing decimals compares the numbers; numbers that are equal have one
\* representation, and its text reads back as itself.
DecimalsAreExact ==
  Asked("decimals") =>
    LET Scaled(text, other) ==
          Coefficient(text.integer \o text.fraction) * Power(Len(other.fraction))
        left == Scaled(about[1], about[2])
        right == Scaled(about[2], about[1])
        d == ParseDecimal(about[1])
    IN  /\ (answer < 0) = (left < right) /\ (answer > 0) = (left > right)
        /\ (d = ParseDecimal(about[2])) = (left = right)
        /\ ParseDecimal(Text(d)) = d

\* A journal is accepted or rejected only if every value its unknown metrics may
\* turn out to have leads to that, and is not called unknown if all agree; a
\* journal without rows is unknown.
DecisionsAreFinal ==
  Asked("journal") /\ about.type = "journal" =>
    LET Outcomes(metrics) ==
          {Decision("journal", known) : known \in
             {k \in [DOMAIN metrics -> Judgements \cup {metrics[i] : i \in DOMAIN metrics}] :
                \A i \in DOMAIN metrics :
                  IF metrics[i].status = "known" THEN k[i] = metrics[i] ELSE k[i] \in Judgements}}
    IN  IF about.metrics = <<>> THEN answer = "unknown"
        ELSE (answer # "unknown" /\ Outcomes(about.metrics) = {answer})
             \/ (answer = "unknown" /\ Cardinality(Outcomes(about.metrics)) > 1)

(***************************************************************************)
(* Opportunities and rankings.                                             *)
(***************************************************************************)
\* No assessment is in both conclusive regions of a policy, so that the order
\* in which they are looked at decides nothing.
VerdictsAreExclusive ==
  Asked("opportunity") /\ answer # Nil =>
    ~(/\ MeetsWorthPursuing(about.input.scores, about.policy.worth)
      /\ MeetsNotRecommendedNow(about.input.scores, about.policy.against))

\* A signal that could be computed has the sign of the change, no share changes
\* by more than one, nothing falls by more than all there was, and the change
\* back is the change with the other sign.  A percentile is 100 exactly if no
\* paper of the cohort is cited more, and never falls by being cited more.
SignalsAreBounded ==
  LET Signed(signal, change) ==
        signal.error = Nil =>
          /\ signal.value > 0 => change > 0
          /\ signal.value < 0 => change < 0
      Swap(w) == MethodAdoption([w.baseline EXCEPT !.count = w.current.count,
                                                   !.total = w.current.total],
                                [w.current EXCEPT !.count = w.baseline.count,
                                                  !.total = w.baseline.total])
  IN  /\ Asked("series") /\ about.start # Nil /\ about.end # Nil =>
           /\ Signed(answer.velocity, about.end.value - about.start.value)
           /\ Signed(answer.growth, about.end.value - about.start.value)
           /\ answer.growth.value >= -Unit
      /\ Asked("windows") /\ answer.growth.error = Nil =>
           /\ Signed(answer.growth, about.current.count - about.baseline.count)
           /\ answer.growth.value >= -Unit
      /\ Asked("windows") /\ answer.adoption.error = Nil =>
           /\ answer.adoption.value \in -Unit..Unit
           /\ Swap(about).value = -answer.adoption.value
      /\ Asked("cohort") /\ answer.error = Nil =>
           /\ answer.value \in 0..(100 * Unit)
           /\ (answer.value = 100 * Unit) =
                (\A p \in DOMAIN about.cohort : about.cohort[p] <= about.target)
           /\ CitationPercentile(about.target + 1, about.cohort).value >= answer.value

=============================================================================
