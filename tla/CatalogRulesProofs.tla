------------------------- MODULE CatalogRulesProofs -------------------------
(***************************************************************************)
(* Proofs about module CatalogRules: what its rules answer, for every      *)
(* question that may be asked of them.                                     *)
(***************************************************************************)
EXTENDS CatalogRules, FiniteSetTheorems, SequenceTheorems, WellFoundedInduction, TLAPS

(***************************************************************************)
(* Every answer is what its rule says of the question.                     *)
(***************************************************************************)
RowsAnswer(rows) == IF Unambiguous(rows) THEN Selected(rows, Missing) ELSE None

SeriesAnswer(s) == [velocity |-> CitationVelocity(s.start, s.end),
                    growth |-> CodeGrowth(s.start, s.end)]

PairAnswer(pair) == Cmp(ParseDecimal(pair[1]), ParseDecimal(pair[2]))

WindowsAnswer(w) == [growth |-> TopicGrowth(w.baseline, w.current),
                     adoption |-> MethodAdoption(w.baseline, w.current)]

AnswersInv ==
  /\ Asked("selection") => about \in RowSets /\ answer = RowsAnswer(about)
  /\ Asked("snapshot") => about \in Catalogs /\ answer = Snapshot(about, Now)
  /\ Asked("decimals") => about \in Decimals /\ answer = PairAnswer(about)
  /\ Asked("journal") =>
       about \in Journals /\ answer = Decision(about.type, about.metrics)
  /\ Asked("opportunity") =>
       about \in Opportunities /\ answer = Verdict(about.input, about.policy)
  /\ Asked("series") => about \in Series /\ answer = SeriesAnswer(about)
  /\ Asked("windows") => about \in WindowPairs /\ answer = WindowsAnswer(about)
  /\ Asked("cohort") =>
       about \in Cohorts /\ answer = CitationPercentile(about.target, about.cohort)

LEMMA InitAnswers == Init => AnswersInv
  BY DEF Init, Nothing, AnswersInv, Asked

LEMMA StepAnswers == AnswersInv /\ [Next]_vars => AnswersInv'
<1> SUFFICES ASSUME AnswersInv, [Next]_vars PROVE AnswersInv'
  OBVIOUS
<1>1. CASE \E field \in Contents : WriteAssertion(field)
  BY <1>1 DEF WriteAssertion, Ask, AnswersInv, Asked, about
<1>2. CASE \E rows \in RowSets : SelectAssertion(rows)
  BY <1>2 DEF SelectAssertion, RowsAnswer, Ask, AnswersInv, Asked, about
<1>3. CASE \E works \in Catalogs : BuildSnapshot(works)
  BY <1>3 DEF BuildSnapshot, Ask, AnswersInv, Asked, about
<1>4. CASE \E pair \in Decimals : CompareDecimals(pair)
  BY <1>4 DEF CompareDecimals, PairAnswer, Ask, AnswersInv, Asked, about
<1>5. CASE \E journal \in Journals : JudgeJournal(journal)
  BY <1>5 DEF JudgeJournal, Ask, AnswersInv, Asked, about
<1>6. CASE \E o \in Opportunities : AssessOpportunity(o)
  BY <1>6 DEF AssessOpportunity, Ask, AnswersInv, Asked, about
<1>7. CASE \E s \in Series : RankSeries(s)
  BY <1>7 DEF RankSeries, SeriesAnswer, Ask, AnswersInv, Asked, about
<1>8. CASE \E w \in WindowPairs : RankWindows(w)
  BY <1>8 DEF RankWindows, WindowsAnswer, Ask, AnswersInv, Asked, about
<1>9. CASE \E c \in Cohorts : RankCohort(c)
  BY <1>9 DEF RankCohort, Ask, AnswersInv, Asked, about
<1>10. CASE Forget
  BY <1>10 DEF Forget, Nothing, AnswersInv, Asked
<1>11. CASE UNCHANGED vars
  BY <1>11 DEF vars, AnswersInv, Asked, about
<1> QED
  BY <1>1, <1>2, <1>3, <1>4, <1>5, <1>6, <1>7, <1>8, <1>9, <1>10, <1>11 DEF Next, Answers

LEMMA AnswersHold == Spec => []AnswersInv
  BY InitAnswers, StepAnswers, PTL DEF Spec

(***************************************************************************)
(* Opportunities.                                                          *)
(***************************************************************************)
LEMMA RegionsExclude ==
  ASSUME NEW input, NEW policy,
         input.scores \in Thresholds, policy.worth \in Thresholds, policy.against \in Thresholds,
         Verdict(input, policy) # Nil
  PROVE  ~(/\ MeetsWorthPursuing(input.scores, policy.worth)
           /\ MeetsNotRecommendedNow(input.scores, policy.against))
<1>1. Separated(policy.worth, policy.against)
  BY DEF Verdict, ValidPolicy
<1> DEFINE s == input.scores  w == policy.worth  n == policy.against
<1>2. s \in Thresholds /\ w \in Thresholds /\ n \in Thresholds /\ Separated(w, n)
  BY <1>1
<1> HIDE DEF s, w, n
<1>3. ~(MeetsWorthPursuing(s, w) /\ MeetsNotRecommendedNow(s, n))
  BY <1>2 DEF Thresholds, Separated, MeetsWorthPursuing, MeetsNotRecommendedNow
<1> QED
  BY <1>3 DEF s, w, n

\* An assessment that gets a verdict is never in both conclusive regions of its
\* policy, so that the order in which Evaluate looks at them decides nothing,
\* whatever the scores and thresholds are.
THEOREM RegionsAreExclusive == Spec => []VerdictsAreExclusive
<1>1. AnswersInv => VerdictsAreExclusive
  <2> SUFFICES ASSUME AnswersInv, Asked("opportunity"), answer # Nil
               PROVE  ~(/\ MeetsWorthPursuing(about.input.scores, about.policy.worth)
                        /\ MeetsNotRecommendedNow(about.input.scores, about.policy.against))
    BY DEF VerdictsAreExclusive
  <2>1. about \in Opportunities /\ answer = Verdict(about.input, about.policy)
    BY DEF AnswersInv
  <2>2. {about.input.scores, about.policy.worth, about.policy.against} \subseteq Thresholds
    BY <2>1, NumbersAssumption
  <2> QED
    BY <2>1, <2>2, RegionsExclude
<1> QED
  BY <1>1, AnswersHold, PTL

(***************************************************************************)
(* Topics and methods.                                                     *)
(***************************************************************************)
Holders(papers, id) == {w \in DOMAIN papers : id \in papers[w].topics}

Fact(papers, id) == [id |-> id, slug |-> Slug[id], papers |-> Holders(papers, id)]

Named(papers, slug) == {v \in DOMAIN papers : slug \in TopicSlugs(papers[v])}

\* A name of any paper has its fact.
LEMMA FactOfName ==
  ASSUME NEW papers, NEW v \in DOMAIN papers, NEW id \in papers[v].topics
  PROVE  Fact(papers, id) \in TaxonomyFacts(papers)
<1>1. id \in UNION {papers[w].topics : w \in DOMAIN papers}
  OBVIOUS
<1> QED
  BY <1>1 DEF TaxonomyFacts, Fact, Holders

\* Where no slug is ambiguous, a name is the only one with its slug.
LEMMA OneNameOfSlug ==
  ASSUME NEW papers, ~AmbiguousSlug(TaxonomyFacts(papers)),
         NEW v \in DOMAIN papers, NEW id \in papers[v].topics,
         NEW w \in DOMAIN papers, NEW other \in papers[w].topics, Slug[id] = Slug[other]
  PROVE  id = other
<1>1. /\ Fact(papers, id) \in TaxonomyFacts(papers)
      /\ Fact(papers, other) \in TaxonomyFacts(papers)
  BY FactOfName
<1>2. /\ Fact(papers, id).id = id /\ Fact(papers, id).slug = Slug[id]
      /\ Fact(papers, other).id = other /\ Fact(papers, other).slug = Slug[other]
  BY DEF Fact
<1> QED
  BY <1>1, <1>2 DEF AmbiguousSlug

LEMMA EntryOfSlug ==
  ASSUME NEW papers, ~AmbiguousSlug(TaxonomyFacts(papers)),
         NEW w \in DOMAIN papers, NEW slug \in TopicSlugs(papers[w])
  PROVE  /\ w \in Named(papers, slug)
         /\ {e \in Taxonomies(papers) : e.slug = slug}
              = {[slug |-> slug, papers |-> Named(papers, slug),
                  count |-> Cardinality(Named(papers, slug))]}
<1> DEFINE Entry(f) == [slug |-> f.slug, papers |-> f.papers, count |-> Cardinality(f.papers)]
           The == [slug |-> slug, papers |-> Named(papers, slug),
                   count |-> Cardinality(Named(papers, slug))]
<1>1. PICK id \in papers[w].topics : slug = Slug[id]
  BY DEF TopicSlugs
<1>2. Named(papers, slug) = Holders(papers, id)
  <2>1. ASSUME NEW v \in Holders(papers, id) PROVE v \in Named(papers, slug)
    BY <1>1 DEF Holders, Named, TopicSlugs
  <2>2. ASSUME NEW v \in Named(papers, slug) PROVE v \in Holders(papers, id)
    <3>1. v \in DOMAIN papers /\ \E other \in papers[v].topics : slug = Slug[other]
      BY DEF Named, TopicSlugs
    <3>2. PICK other \in papers[v].topics : slug = Slug[other]
      BY <3>1
    <3>3. other = id
      BY <1>1, <3>1, <3>2, OneNameOfSlug
    <3> QED
      BY <3>1, <3>3 DEF Holders
  <2> QED
    BY <2>1, <2>2
<1>3. Entry(Fact(papers, id)) = The
  BY <1>1, <1>2 DEF Fact
<1>4. Taxonomies(papers) = {Entry(f) : f \in TaxonomyFacts(papers)}
  BY DEF Taxonomies
<1>5. ASSUME NEW f \in TaxonomyFacts(papers), f.slug = slug PROVE f = Fact(papers, id)
  <2>1. PICK other \in UNION {papers[v].topics : v \in DOMAIN papers} : f = Fact(papers, other)
    BY DEF TaxonomyFacts, Fact, Holders
  <2>2. PICK v \in DOMAIN papers : other \in papers[v].topics
    BY <2>1
  <2>3. f.slug = Slug[other]
    BY <2>1 DEF Fact
  <2>4. other = id
    BY <1>1, <1>5, <2>2, <2>3, OneNameOfSlug
  <2> QED
    BY <2>1, <2>4
<1>6. Fact(papers, id) \in TaxonomyFacts(papers) /\ The.slug = slug
  BY FactOfName
<1>7. \A f : Entry(f).slug = f.slug
  OBVIOUS
<1> HIDE DEF Entry, The
<1>8. {e \in Taxonomies(papers) : e.slug = slug} = {The}
  BY <1>3, <1>4, <1>5, <1>6, <1>7
<1>9. w \in Named(papers, slug)
  BY DEF Named
<1> QED
  BY <1>8, <1>9 DEF The

\* A snapshot is built of papers that can be read, none of their slugs ambiguous.
LEMMA SnapshotParts ==
  ASSUME NEW works, NEW now, Snapshot(works, now) # None
  PROVE  LET papers == [w \in DOMAIN works |-> Paper(works[w])]
         IN  /\ \A w \in DOMAIN works : Paper(works[w]) # None
             /\ ~AmbiguousSlug(TaxonomyFacts(papers))
             /\ Snapshot(works, now) =
                  [papers |-> papers, topics |-> Taxonomies(papers),
                   recent |-> RecentPapers(papers, now), codeRatio |-> CodeRatio(papers)]
<1> DEFINE papers == [w \in DOMAIN works |-> Paper(works[w])]
<1>1. /\ ~(\E w \in DOMAIN works : papers[w] = None)
      /\ Taxonomies(papers) # None
  BY DEF Snapshot
<1>2. ~AmbiguousSlug(TaxonomyFacts(papers))
  BY <1>1 DEF Taxonomies
<1> QED
  BY <1>1, <1>2 DEF Snapshot

\* In a snapshot that publishTaxonomies lets pass, each slug that a paper shows
\* leads to exactly one entry, and that entry lists and counts the papers that
\* have the slug, whatever the names of the topics and their slugs are.
THEOREM SlugsAreResolved == Spec => []SlugsResolve
<1>1. AnswersInv => SlugsResolve
  <2> SUFFICES ASSUME AnswersInv, Asked("snapshot"), answer # None
               PROVE  SlugsResolve
    BY DEF SlugsResolve
  <2>1. answer = Snapshot(about, Now)
    BY DEF AnswersInv
  <2> DEFINE papers == [w \in DOMAIN about |-> Paper(about[w])]
  <2>2. /\ ~AmbiguousSlug(TaxonomyFacts(papers))
        /\ answer.papers = papers /\ answer.topics = Taxonomies(papers)
    BY <2>1, SnapshotParts
  <2> HIDE DEF papers
  <2>3. ASSUME NEW w \in DOMAIN papers, NEW slug \in TopicSlugs(papers[w])
        PROVE  /\ w \in Named(papers, slug)
               /\ {e \in Taxonomies(papers) : e.slug = slug}
                    = {[slug |-> slug, papers |-> Named(papers, slug),
                        count |-> Cardinality(Named(papers, slug))]}
    BY <2>2, EntryOfSlug
  <2> QED
    BY <2>2, <2>3 DEF SlugsResolve, Named
<1> QED
  BY <1>1, AnswersHold, PTL

(***************************************************************************)
(* The newest row.                                                         *)
(***************************************************************************)
\* Rows that can be put in order.
HaveOrder(rows) == IsFiniteSet(rows) /\ \A r \in rows : r.at \in Nat /\ r.id \in Nat

\* r comes first in the order asserted_at DESC, id.
First(r, rows) == \A s \in rows : s.at < r.at \/ (s.at = r.at /\ r.id <= s.id)

LEMMA FirstExists ==
  ASSUME NEW rows, HaveOrder(rows), rows # {}
  PROVE  \E r \in rows : First(r, rows)
<1> DEFINE F == {T \in SUBSET rows : T # {} /\ ~(\E r \in T : First(r, T))}
<1> SUFFICES ASSUME F # {} PROVE FALSE
  OBVIOUS
<1>1. IsWellFoundedOn(StrictSubsetOrdering(rows), FiniteSubsetsOf(rows))
  BY FS_StrictSubsetOrderingWellFounded
<1>2. F \subseteq FiniteSubsetsOf(rows)
  BY FS_FiniteSubsetsOfFinite DEF HaveOrder
<1>3. PICK T \in F : \A U \in F : ~(<<U, T>> \in StrictSubsetOrdering(rows))
  <2> HIDE DEF F
  <2> QED
    BY <1>1, <1>2, WFMin
<1>4. T \subseteq rows /\ ~(\E r \in T : First(r, T))
  OBVIOUS
<1>5. PICK x \in T : TRUE
  OBVIOUS
<1> DEFINE U == T \ {x}
<1>6. U \notin F /\ U \subseteq rows
  BY <1>3, <1>4, <1>5 DEF StrictSubsetOrdering
<1>7. \A r \in T : r.at \in Nat /\ r.id \in Nat
  BY <1>4 DEF HaveOrder
<1>8. CASE U = {}
  BY <1>4, <1>5, <1>7, <1>8 DEF First
<1>9. CASE U # {}
  <2>1. PICK r \in U : First(r, U)
    BY <1>6, <1>9
  <2>2. First(r, T) \/ First(x, T)
    BY <1>5, <1>7, <2>1 DEF First
  <2> QED
    BY <1>4, <1>5, <2>1, <2>2
<1> QED
  BY <1>8, <1>9

\* NewestRow is well defined.
LEMMA NewestRowIsFirst ==
  ASSUME NEW rows, HaveOrder(rows), rows # {}
  PROVE  /\ NewestRow(rows) \in rows
         /\ \A s \in rows : s.at <= NewestRow(rows).at
<1>1. \E r \in rows : \A s \in rows : s.at < r.at \/ (s.at = r.at /\ r.id <= s.id)
  BY FirstExists DEF First
<1>2. /\ NewestRow(rows) \in rows
      /\ \A s \in rows : s.at < NewestRow(rows).at \/ s.at = NewestRow(rows).at
  BY <1>1 DEF NewestRow
<1> QED
  BY <1>2 DEF HaveOrder

LEMMA RowsHaveOrder ==
  ASSUME NEW rows, NEW values, AreRows(rows, values)
  PROVE  HaveOrder(rows)
BY DEF AreRows, HaveOrder

\* Rows with their ids dealt out anew.
DealtRow(r, deal) == [r EXCEPT !.id = deal[r.id]]

DealtRows(rows, deal) == {DealtRow(r, deal) : r \in rows}

LEMMA DealtKeepsOrder ==
  ASSUME NEW rows, NEW values, AreRows(rows, values),
         NEW deal \in [{r.id : r \in rows} -> {r.id : r \in rows}]
  PROVE  /\ HaveOrder(DealtRows(rows, deal))
         /\ \A r \in rows : /\ DealtRow(r, deal).at = r.at
                            /\ DealtRow(r, deal).assertion = r.assertion
<1>1. ASSUME NEW r \in rows
      PROVE  /\ DealtRow(r, deal).at = r.at /\ r.at \in Nat
             /\ DealtRow(r, deal).assertion = r.assertion
             /\ DealtRow(r, deal).id \in Nat
  <2>1. /\ r = [at |-> r.at, id |-> r.id, assertion |-> r.assertion]
        /\ r.at \in Nat
    BY DEF AreRows
  <2>2. DealtRow(r, deal) = [at |-> r.at, id |-> deal[r.id], assertion |-> r.assertion]
    BY <2>1 DEF DealtRow
  <2>3. deal[r.id] \in {s.id : s \in rows}
    OBVIOUS
  <2>4. deal[r.id] \in Nat
    BY <2>3 DEF AreRows
  <2> QED
    BY <2>1, <2>2, <2>4
<1>2. IsFiniteSet(DealtRows(rows, deal))
  <2> DEFINE f == [r \in rows |-> DealtRow(r, deal)]
  <2>1. f \in Surjection(rows, DealtRows(rows, deal))
    BY DEF Surjection, DealtRows
  <2> QED
    BY <2>1, FS_Surjection DEF AreRows
<1> QED
  BY <1>1, <1>2 DEF HaveOrder, DealtRows

LEMMA DealtSelectsSame ==
  ASSUME NEW rows, NEW values, AreRows(rows, values), Unambiguous(rows),
         NEW deal \in [{r.id : r \in rows} -> {r.id : r \in rows}], NEW default
  PROVE  Selected(DealtRows(rows, deal), default) = Selected(rows, default)
<1> DEFINE dealt == DealtRows(rows, deal)
<1>1. CASE rows = {}
  BY <1>1 DEF DealtRows
<1>2. CASE rows # {}
  <2>1. HaveOrder(rows) /\ HaveOrder(dealt) /\ dealt # {}
    BY <1>2, RowsHaveOrder, DealtKeepsOrder DEF DealtRows
  <2>2. /\ NewestRow(dealt) \in dealt
        /\ \A s \in dealt : s.at <= NewestRow(dealt).at
        /\ NewestRow(rows) \in rows
        /\ \A s \in rows : s.at <= NewestRow(rows).at
    BY <1>2, <2>1, NewestRowIsFirst
  <2>3. PICK r \in rows : NewestRow(dealt) = DealtRow(r, deal)
    BY <2>2 DEF DealtRows
  <2>4. /\ NewestRow(dealt).at = r.at /\ NewestRow(dealt).assertion = r.assertion
        /\ DealtRow(NewestRow(rows), deal).at = NewestRow(rows).at
    BY <2>2, <2>3, DealtKeepsOrder
  <2>5. DealtRow(NewestRow(rows), deal) \in dealt
    BY <2>2 DEF DealtRows
  <2>6. r.at = NewestRow(rows).at
    <3>1. NewestRow(rows).at <= r.at /\ r.at <= NewestRow(rows).at
      BY <2>2, <2>4, <2>5
    <3>2. NewestRow(rows).at \in Nat /\ r.at \in Nat
      BY <2>1, <2>2 DEF HaveOrder
    <3> QED
      BY <3>1, <3>2
  <2>7. r.assertion = NewestRow(rows).assertion
    BY <2>6 DEF Unambiguous
  <2> QED
    BY <1>2, <2>1, <2>4, <2>7 DEF Selected
<1> QED
  BY <1>1, <1>2

\* Which of the newest assertions loadAssertions returns does not depend on the
\* random ids of their rows, whatever the rows are: where newest rows differ it
\* fails, and else any of them says the same.
THEOREM SelectionIsStable == Spec => []SelectionIgnoresIds
<1>1. AnswersInv => SelectionIgnoresIds
  <2> SUFFICES ASSUME AnswersInv, Asked("selection"), answer # None,
                      NEW deal \in [{r.id : r \in about} -> {r.id : r \in about}]
               PROVE  Selected({[r EXCEPT !.id = deal[r.id]] : r \in about}, Missing) = answer
    BY DEF SelectionIgnoresIds
  <2>1. about \in RowSets /\ answer = RowsAnswer(about)
    BY DEF AnswersInv
  <2>2. Unambiguous(about) /\ answer = Selected(about, Missing)
    BY <2>1 DEF RowsAnswer
  <2>3. AreRows(about, {r.assertion.value : r \in about})
    BY <2>1, FactsAssumption
  <2>4. Selected(DealtRows(about, deal), Missing) = Selected(about, Missing)
    BY <2>2, <2>3, DealtSelectsSame
  <2> QED
    BY <2>2, <2>4 DEF DealtRows, DealtRow
<1> QED
  BY <1>1, AnswersHold, PTL

(***************************************************************************)
(* Journals.                                                               *)
(***************************************************************************)
\* A metric matches a rule of the policy.
Hits(metric) ==
  metric.status = "known" /\ (Cmp(metric.jif, Threshold) >= 0 \/ metric.quartile = "Q1")

LEMMA RulesMatched ==
  ASSUME NEW metrics
  PROVE  MatchedRules(metrics) # {} <=> \E i \in DOMAIN metrics : Hits(metrics[i])
BY DEF MatchedRules, Hits

LEMMA MatchesOne ==
  ASSUME NEW metric
  PROVE  MatchedRules(<<metric>>) # {} <=> Hits(metric)
<1>1. DOMAIN <<metric>> = {1} /\ <<metric>>[1] = metric
  OBVIOUS
<1> QED
  BY <1>1, RulesMatched

\* What the metrics of a journal may turn out to be.
Completions(metrics) ==
  {k \in [DOMAIN metrics -> Judgements \cup {metrics[i] : i \in DOMAIN metrics}] :
     \A i \in DOMAIN metrics :
       IF metrics[i].status = "known" THEN k[i] = metrics[i] ELSE k[i] \in Judgements}

Outcomes(metrics) == {Decision("journal", k) : k \in Completions(metrics)}

\* The completion in which every unknown metric turns out to be j.
Filled(metrics, j) ==
  [i \in DOMAIN metrics |-> IF metrics[i].status = "known" THEN metrics[i] ELSE j]

LEMMA FilledCompletes ==
  ASSUME NEW metrics, NEW j \in Judgements
  PROVE  Filled(metrics, j) \in Completions(metrics)
BY DEF Filled, Completions

\* A journal whose metrics are known is accepted or rejected.
LEMMA CompletionDecided ==
  ASSUME NEW metrics, DOMAIN metrics # {}, NEW k \in Completions(metrics)
  PROVE  Decision("journal", k) =
           IF \E i \in DOMAIN metrics : Hits(k[i]) THEN "accepted" ELSE "rejected"
<1>1. DOMAIN k = DOMAIN metrics /\ k # <<>>
  <2>1. DOMAIN k = DOMAIN metrics
    BY DEF Completions
  <2>2. DOMAIN <<>> = {}
    OBVIOUS
  <2> QED
    BY <2>1, <2>2
<1>2. \A i \in DOMAIN metrics : k[i].status = "known"
  BY JournalsAssumption DEF Completions
<1>3. ~HasUnknown(k)
  BY <1>1, <1>2 DEF HasUnknown
<1>4. MatchedRules(k) # {} <=> \E i \in DOMAIN metrics : Hits(k[i])
  BY <1>1, RulesMatched
<1> QED
  BY <1>3, <1>4 DEF Decision

LEMMA TwoOutcomes == Cardinality({"accepted", "rejected"}) > 1
<1>1. IsFiniteSet({"rejected"}) /\ Cardinality({"rejected"}) = 1
  BY FS_Singleton
<1>2. Cardinality({"rejected"} \cup {"accepted"}) = 2
  <2>1. "accepted" \notin {"rejected"}
    OBVIOUS
  <2> QED
    BY <1>1, <2>1, FS_AddElement
<1>3. {"rejected"} \cup {"accepted"} = {"accepted", "rejected"}
  OBVIOUS
<1> QED
  BY <1>2, <1>3

LEMMA DecisionIsFinal ==
  ASSUME NEW metrics, DOMAIN metrics # {}, metrics # <<>>,
         \A i \in DOMAIN metrics : metrics[i].status \in {"known", "unknown"}
  PROVE  LET decision == Decision("journal", metrics)
         IN  \/ decision # "unknown" /\ Outcomes(metrics) = {decision}
             \/ decision = "unknown" /\ Cardinality(Outcomes(metrics)) > 1
<1> DEFINE decision == Decision("journal", metrics)
           Hit(k) == \E i \in DOMAIN metrics : Hits(k[i])
<1>1. PICK j \in Judgements : Hits(j)
  BY JournalsAssumption, MatchesOne
<1>2. PICK n \in Judgements : ~Hits(n)
  BY JournalsAssumption, MatchesOne
<1>3. /\ Filled(metrics, j) \in Completions(metrics)
      /\ Filled(metrics, n) \in Completions(metrics)
  BY FilledCompletes
<1>4. MatchedRules(metrics) # {} <=> Hit(metrics)
  BY RulesMatched
<1>5. \A k \in Completions(metrics) : \A i \in DOMAIN metrics :
        metrics[i].status = "known" => k[i] = metrics[i]
  BY DEF Completions
<1>6. \A k \in Completions(metrics) :
        Decision("journal", k) = IF Hit(k) THEN "accepted" ELSE "rejected"
  BY CompletionDecided
<1>7. CASE Hit(metrics)
  <2>1. decision = "accepted"
    BY <1>4, <1>7 DEF Decision
  <2>2. \A k \in Completions(metrics) : Hit(k)
    BY <1>5, <1>7 DEF Hits
  <2>3. Outcomes(metrics) = {"accepted"}
    BY <1>3, <1>6, <2>2 DEF Outcomes
  <2> QED
    BY <2>1, <2>3
<1>8. CASE ~Hit(metrics) /\ \E i \in DOMAIN metrics : metrics[i].status = "unknown"
  <2>1. decision = "unknown"
    BY <1>4, <1>8 DEF Decision, HasUnknown
  <2>2. Hit(Filled(metrics, j))
    BY <1>1, <1>8 DEF Filled
  <2>3. ~Hit(Filled(metrics, n))
    BY <1>2, <1>8 DEF Filled
  <2>4. Outcomes(metrics) \subseteq {"accepted", "rejected"}
    BY <1>6 DEF Outcomes
  <2>5. "accepted" \in Outcomes(metrics) /\ "rejected" \in Outcomes(metrics)
    <3>1. /\ Decision("journal", Filled(metrics, j)) = "accepted"
          /\ Decision("journal", Filled(metrics, n)) = "rejected"
      BY <1>3, <1>6, <2>2, <2>3
    <3> QED
      BY <1>3, <3>1 DEF Outcomes
  <2>6. Outcomes(metrics) = {"accepted", "rejected"}
    BY <2>4, <2>5
  <2> QED
    BY <2>1, <2>6, TwoOutcomes
<1>9. CASE ~Hit(metrics) /\ \A i \in DOMAIN metrics : metrics[i].status = "known"
  <2>1. decision = "rejected"
    BY <1>4, <1>9 DEF Decision, HasUnknown
  <2>2. \A k \in Completions(metrics) : ~Hit(k)
    BY <1>5, <1>9
  <2>3. Outcomes(metrics) = {"rejected"}
    BY <1>3, <1>6, <2>2 DEF Outcomes
  <2> QED
    BY <2>1, <2>3
<1> QED
  BY <1>7, <1>8, <1>9

\* Whatever the metrics of a journal are, JournalPolicy accepts or rejects it
\* only where every value its unknown metrics may turn out to have leads there,
\* and calls it unknown only where they do not agree.
THEOREM JudgementsAreFinal == Spec => []DecisionsAreFinal
<1>1. AnswersInv => DecisionsAreFinal
  <2> SUFFICES ASSUME AnswersInv, Asked("journal"), about.type = "journal"
               PROVE  IF about.metrics = <<>> THEN answer = "unknown"
                      ELSE \/ answer # "unknown" /\ Outcomes(about.metrics) = {answer}
                           \/ answer = "unknown" /\ Cardinality(Outcomes(about.metrics)) > 1
    BY DEF DecisionsAreFinal, Outcomes, Completions
  <2>1. about \in Journals /\ answer = Decision("journal", about.metrics)
    BY DEF AnswersInv
  <2> DEFINE metrics == about.metrics
  <2>2. /\ metrics \in Seq({metrics[i] : i \in DOMAIN metrics})
        /\ \A i \in DOMAIN metrics : metrics[i].status \in {"known", "unknown"}
    BY <2>1, JournalsAssumption
  <2> HIDE DEF metrics
  <2>3. CASE metrics = <<>>
    <3>1. DOMAIN <<>> = {}
      OBVIOUS
    <3>2. MatchedRules(<<>>) = {}
      BY <3>1, RulesMatched
    <3>3. Decision("journal", <<>>) = "unknown"
      BY <3>2 DEF Decision, HasUnknown
    <3> QED
      BY <2>1, <2>3, <3>3 DEF metrics
  <2>4. CASE metrics # <<>>
    <3>1. DOMAIN metrics # {}
      BY <2>2, <2>4
    <3> QED
      BY <2>1, <2>2, <2>4, <3>1, DecisionIsFinal DEF metrics
  <2> QED
    BY <2>3, <2>4 DEF metrics
<1> QED
  BY <1>1, AnswersHold, PTL

(***************************************************************************)
(* Rankings: rounding to the nearest unit.                                 *)
(***************************************************************************)
LEMMA Quotients ==
  ASSUME NEW x \in Nat, NEW d \in Nat \ {0}
  PROVE  /\ x \div d \in Nat
         /\ (x \div d) * d <= x
         /\ x < (x \div d) * d + d
OBVIOUS

LEMMA QuotientIs ==
  ASSUME NEW x \in Nat, NEW d \in Nat \ {0}, NEW q \in Int, q * d <= x, x < q * d + d
  PROVE  x \div d = q
OBVIOUS

\* A quotient is at most what its dividend is less than the next multiple of.
LEMMA QuotientAtMost ==
  ASSUME NEW x \in Nat, NEW d \in Nat \ {0}, NEW q \in Int, x < q * d + d
  PROVE  x \div d <= q
<1> DEFINE p == x \div d
<1>1. p \in Nat /\ p * d <= x
  BY Quotients
<1> HIDE DEF p
<1>2. p * d < q * d + d
  <2>1. p * d \in Int /\ q * d + d \in Int
    BY <1>1
  <2> QED
    BY <1>1, <2>1
<1>3. p <= q
  BY <1>1, <1>2
<1> QED
  BY <1>3 DEF p

LEMMA QuotientGrows ==
  ASSUME NEW x \in Nat, NEW y \in Nat, NEW d \in Nat \ {0}, x <= y
  PROVE  x \div d <= y \div d
<1> DEFINE q == y \div d
<1>1. q \in Nat /\ y < q * d + d
  BY Quotients
<1> HIDE DEF q
<1>2. x < q * d + d
  <2>1. q * d + d \in Int
    BY <1>1
  <2> QED
    BY <1>1, <2>1
<1>3. x \div d <= q
  BY <1>1, <1>2, QuotientAtMost
<1> QED
  BY <1>3 DEF q

\* The quotient of a magnitude and a divisor, in units.
Rounded(n, b) == (2 * n * Unit + b) \div (2 * b)

LEMMA DivRoundIs ==
  ASSUME NEW a \in Int, NEW b \in Nat \ {0}
  PROVE  DivRound(a, b) = IF a < 0 THEN -Rounded(-a, b) ELSE Rounded(a, b)
BY DEF DivRound, Magnitude, Rounded

LEMMA Products ==
  ASSUME NEW n \in Nat, NEW m \in Nat
  PROVE  n * m \in Nat
OBVIOUS

LEMMA ProductsGrow ==
  ASSUME NEW n \in Nat, NEW m \in Nat, NEW k \in Nat, n <= m
  PROVE  n * k <= m * k
OBVIOUS

LEMMA RoundedTerms ==
  ASSUME NEW n \in Nat, NEW b \in Nat \ {0}
  PROVE  /\ 2 * n * Unit = 2 * (n * Unit) /\ n * Unit \in Nat
         /\ 2 * n * Unit + b \in Nat
         /\ 2 * b \in Nat \ {0}
<1>1. Unit \in Nat
  BY RulesAssumption
<1>2. n * Unit \in Nat
  BY <1>1, Products
<1>3. 2 * n * Unit = 2 * (n * Unit)
  BY <1>1
<1> QED
  BY <1>2, <1>3

LEMMA RoundedIsNatural ==
  ASSUME NEW n \in Nat, NEW b \in Nat \ {0}
  PROVE  Rounded(n, b) \in Nat
BY RoundedTerms, Quotients DEF Rounded

LEMMA RoundedOfNothing ==
  ASSUME NEW b \in Nat \ {0}
  PROVE  Rounded(0, b) = 0
<1>1. 2 * 0 * Unit + b = b
  BY RulesAssumption
<1>2. b \div (2 * b) = 0
  BY QuotientIs
<1> QED
  BY <1>1, <1>2 DEF Rounded

LEMMA RoundedGrows ==
  ASSUME NEW n \in Nat, NEW m \in Nat, NEW b \in Nat \ {0}, n <= m
  PROVE  Rounded(n, b) <= Rounded(m, b)
<1>1. n * Unit <= m * Unit
  BY RulesAssumption, ProductsGrow
<1>2. 2 * n * Unit + b <= 2 * m * Unit + b
  BY <1>1, RoundedTerms
<1> QED
  BY <1>2, RoundedTerms, QuotientGrows DEF Rounded

\* What is a part of something rounds to at most one.
LEMMA RoundedOfPart ==
  ASSUME NEW n \in Nat, NEW b \in Nat \ {0}, n <= b
  PROVE  Rounded(n, b) <= Unit
<1>1. Unit \in Nat \ {0}
  BY RulesAssumption
<1>2. n * Unit <= b * Unit /\ b * Unit \in Nat
  BY <1>1, ProductsGrow, Products
<1>3. Unit * (2 * b) = 2 * (b * Unit)
  BY <1>1
<1>4. 2 * n * Unit + b < Unit * (2 * b) + 2 * b
  BY <1>2, <1>3, RoundedTerms
<1> QED
  BY <1>1, <1>4, RoundedTerms, QuotientAtMost DEF Rounded

LEMMA DivRoundSigned ==
  ASSUME NEW a \in Int, NEW b \in Nat \ {0}
  PROVE  /\ DivRound(a, b) \in Int
         /\ DivRound(a, b) > 0 => a > 0
         /\ DivRound(a, b) < 0 => a < 0
         /\ DivRound(-a, b) = -DivRound(a, b)
<1>1. CASE a = 0
  <2>1. DivRound(a, b) = 0 /\ DivRound(-a, b) = 0
    BY <1>1, DivRoundIs, RoundedOfNothing
  <2> QED
    BY <2>1
<1>2. CASE a > 0
  <2>1. DivRound(a, b) = Rounded(a, b) /\ DivRound(-a, b) = -Rounded(a, b)
    BY <1>2, DivRoundIs
  <2> QED
    BY <1>2, <2>1, RoundedIsNatural
<1>3. CASE a < 0
  <2>1. DivRound(a, b) = -Rounded(-a, b) /\ DivRound(-a, b) = Rounded(-a, b)
    BY <1>3, DivRoundIs
  <2>2. Rounded(-a, b) \in Nat
    BY <1>3, RoundedIsNatural
  <2> QED
    BY <1>3, <2>1, <2>2
<1> QED
  BY <1>1, <1>2, <1>3

\* What falls by at most all there was changes by at least minus one, and what
\* rises by at most that by at most one.
LEMMA DivRoundBounded ==
  ASSUME NEW a \in Int, NEW b \in Nat \ {0}
  PROVE  /\ -b <= a => DivRound(a, b) >= -Unit
         /\ -b <= a /\ a <= b => DivRound(a, b) \in -Unit..Unit
<1>1. Unit \in Nat
  BY RulesAssumption
<1>2. CASE a < 0
  <2>1. DivRound(a, b) = -Rounded(-a, b)
    BY <1>2, DivRoundIs
  <2>2. /\ Rounded(-a, b) \in Nat
        /\ -b <= a => Rounded(-a, b) <= Unit
    BY <1>2, RoundedIsNatural, RoundedOfPart
  <2> QED
    BY <1>1, <2>1, <2>2
<1>3. CASE a >= 0
  <2>1. DivRound(a, b) = Rounded(a, b)
    BY <1>3, DivRoundIs
  <2>2. /\ Rounded(a, b) \in Nat
        /\ a <= b => Rounded(a, b) <= Unit
    BY <1>3, RoundedIsNatural, RoundedOfPart
  <2> QED
    BY <1>1, <2>1, <2>2
<1> QED
  BY <1>2, <1>3

(***************************************************************************)
(* Rankings: the signals.                                                  *)
(***************************************************************************)
Snapshots == [at : Nat, value : Int]

Windows == [from : Int, to : Int, count : Int, total : Int]

Signed(signal, change) ==
  signal.error = Nil => /\ signal.value > 0 => change > 0
                        /\ signal.value < 0 => change < 0

\* A signal is an error, and then nothing, or a value.
LEMMA SignalShape ==
  /\ \A v : Value(v).error = Nil /\ Value(v).value = v
  /\ \A kind : Error(kind).error = kind /\ Error(kind).value = 0
  /\ \A kind \in {"missing", "time_reversed", "zero_denominator", "window_mismatch",
                  "invalid_metric"} : kind # Nil
BY NumbersAssumption DEF Value, Error

\* A rate has the sign of what it is the rate of.
LEMMA RateSigned ==
  ASSUME NEW c \in Int, NEW b \in Nat \ {0}
  PROVE  /\ DivRound(c * Day, b) > 0 => c > 0
         /\ DivRound(c * Day, b) < 0 => c < 0
<1>1. Day \in Nat \ {0}
  BY RulesAssumption
<1>2. c * Day \in Int /\ (c * Day > 0 => c > 0) /\ (c * Day < 0 => c < 0)
  <2>1. CASE c = 0
    BY <1>1, <2>1
  <2>2. CASE c > 0
    BY <1>1, <2>2
  <2>3. CASE c < 0
    BY <1>1, <2>3
  <2> QED
    BY <2>1, <2>2, <2>3
<1> DEFINE a == c * Day
<1>3. /\ a \in Int /\ (a > 0 => c > 0) /\ (a < 0 => c < 0)
  BY <1>2
<1> HIDE DEF a
<1>4. (DivRound(a, b) > 0 => a > 0) /\ (DivRound(a, b) < 0 => a < 0)
  BY <1>3, DivRoundSigned
<1> QED
  BY <1>3, <1>4 DEF a

LEMMA VelocitySigned ==
  ASSUME NEW start \in Snapshots, NEW end \in Snapshots
  PROVE  Signed(CitationVelocity(start, end), end.value - start.value)
<1> SUFFICES ASSUME CitationVelocity(start, end).error = Nil
             PROVE  /\ CitationVelocity(start, end).value > 0 => end.value - start.value > 0
                    /\ CitationVelocity(start, end).value < 0 => end.value - start.value < 0
  BY DEF Signed
<1>1. /\ start.at \in Nat /\ end.at \in Nat /\ start.value \in Int /\ end.value \in Int
  BY DEF Snapshots
<1>2. /\ ~Unobserved(start, end) /\ ~(end.at < start.at) /\ end.at # start.at
      /\ ~(start.value < 0 \/ end.value < 0)
  BY SignalShape DEF CitationVelocity
<1>3. CitationVelocity(start, end)
        = Value(DivRound((end.value - start.value) * Day, end.at - start.at))
  BY <1>2 DEF CitationVelocity
<1>4. end.value - start.value \in Int /\ end.at - start.at \in Nat \ {0}
  BY <1>1, <1>2
<1>5. /\ DivRound((end.value - start.value) * Day, end.at - start.at) > 0
           => end.value - start.value > 0
      /\ DivRound((end.value - start.value) * Day, end.at - start.at) < 0
           => end.value - start.value < 0
  BY <1>4, RateSigned
<1> QED
  BY <1>3, <1>5, SignalShape

\* The change of a count, in parts of what it was.
LEMMA ChangeBounded ==
  ASSUME NEW was \in Nat \ {0}, NEW is \in Nat
  PROVE  /\ DivRound(is - was, was) > 0 => is - was > 0
         /\ DivRound(is - was, was) < 0 => is - was < 0
         /\ DivRound(is - was, was) >= -Unit
<1> DEFINE a == is - was
<1>1. a \in Int /\ -was <= a
  OBVIOUS
<1> HIDE DEF a
<1>2. /\ DivRound(a, was) > 0 => a > 0
      /\ DivRound(a, was) < 0 => a < 0
      /\ DivRound(a, was) >= -Unit
  BY <1>1, DivRoundSigned, DivRoundBounded
<1> QED
  BY <1>2 DEF a

LEMMA NothingIsBounded == 0 >= -Unit
BY RulesAssumption

LEMMA CodeGrowthBounded ==
  ASSUME NEW start \in Snapshots, NEW end \in Snapshots
  PROVE  /\ Signed(CodeGrowth(start, end), end.value - start.value)
         /\ CodeGrowth(start, end).value >= -Unit
<1>1. /\ start.at \in Nat /\ end.at \in Nat /\ start.value \in Int /\ end.value \in Int
  BY DEF Snapshots
<1>2. CASE CodeGrowth(start, end).error # Nil
  <2>1. CodeGrowth(start, end).value = 0
    BY <1>2, SignalShape DEF CodeGrowth
  <2> QED
    BY <1>2, <2>1, NothingIsBounded DEF Signed
<1>3. CASE CodeGrowth(start, end).error = Nil
  <2>1. /\ ~Unobserved(start, end) /\ ~(end.at < start.at) /\ end.at # start.at
        /\ ~(start.value < 0 \/ end.value < 0) /\ start.value # 0
    BY <1>3, SignalShape DEF CodeGrowth
  <2>2. CodeGrowth(start, end) = Value(DivRound(end.value - start.value, start.value))
    BY <2>1 DEF CodeGrowth
  <2>3. start.value \in Nat \ {0} /\ end.value \in Nat
    BY <1>1, <2>1
  <2>4. CodeGrowth(start, end).value = DivRound(end.value - start.value, start.value)
    BY <2>2, SignalShape
  <2> QED
    BY <2>3, <2>4, ChangeBounded DEF Signed
<1> QED
  BY <1>2, <1>3

LEMMA TopicGrowthBounded ==
  ASSUME NEW baseline \in Windows, NEW current \in Windows,
         TopicGrowth(baseline, current).error = Nil
  PROVE  /\ Signed(TopicGrowth(baseline, current), current.count - baseline.count)
         /\ TopicGrowth(baseline, current).value >= -Unit
<1>1. baseline.count \in Int /\ current.count \in Int
  BY DEF Windows
<1>2. /\ ~Unbounded(baseline, current) /\ WindowError(baseline, current) = Nil
      /\ ~(baseline.count < 0 \/ current.count < 0) /\ baseline.count # 0
  BY SignalShape DEF TopicGrowth
<1>3. TopicGrowth(baseline, current)
        = Value(DivRound(current.count - baseline.count, baseline.count))
  BY <1>2 DEF TopicGrowth
<1>4. baseline.count \in Nat \ {0} /\ current.count \in Nat
  BY <1>1, <1>2
<1>5. TopicGrowth(baseline, current).value
        = DivRound(current.count - baseline.count, baseline.count)
  BY <1>3, SignalShape
<1> QED
  BY <1>4, <1>5, ChangeBounded DEF Signed

\* The change of one share to another.
LEMMA ShareBounded ==
  ASSUME NEW t \in Nat \ {0}, NEW u \in Nat \ {0}, NEW c \in 0..t, NEW d \in 0..u
  PROVE  /\ DivRound(d * t - c * u, u * t) \in -Unit..Unit
         /\ DivRound(c * u - d * t, t * u) = -DivRound(d * t - c * u, u * t)
<1> DEFINE x == d * t
           y == c * u
           b == u * t
<1>1. x \in Nat /\ x <= b
  BY ProductsGrow, Products
<1>2. y \in Nat /\ y <= b /\ t * u = b
  <2>1. y <= t * u /\ y \in Nat
    BY ProductsGrow, Products
  <2>2. t * u = b
    OBVIOUS
  <2> QED
    BY <2>1, <2>2
<1>3. b \in Nat \ {0}
  OBVIOUS
<1> HIDE DEF x, y, b
<1>4. x - y \in Int /\ -b <= x - y /\ x - y <= b /\ y - x = -(x - y)
  BY <1>1, <1>2, <1>3
<1>5. DivRound(x - y, b) \in -Unit..Unit
  BY <1>3, <1>4, DivRoundBounded
<1>6. DivRound(y - x, b) = -DivRound(x - y, b)
  BY <1>3, <1>4, DivRoundSigned
<1> QED
  BY <1>2, <1>5, <1>6 DEF x, y, b

\* Two windows that have changed counts.
Swapped(w, v) == [w EXCEPT !.count = v.count, !.total = v.total]

LEMMA SwappedWindow ==
  ASSUME NEW w \in Windows, NEW v \in Windows
  PROVE  /\ Swapped(w, v) \in Windows
         /\ Swapped(w, v).from = w.from /\ Swapped(w, v).to = w.to
         /\ Swapped(w, v).count = v.count /\ Swapped(w, v).total = v.total
<1>1. /\ w = [from |-> w.from, to |-> w.to, count |-> w.count, total |-> w.total]
      /\ w.from \in Int /\ w.to \in Int /\ v.count \in Int /\ v.total \in Int
  BY DEF Windows
<1>2. Swapped(w, v) = [from |-> w.from, to |-> w.to, count |-> v.count, total |-> v.total]
  <2>1. [w EXCEPT !.count = v.count]
          = [from |-> w.from, to |-> w.to, count |-> v.count, total |-> w.total]
    BY <1>1
  <2>2. Swapped(w, v) = [[w EXCEPT !.count = v.count] EXCEPT !.total = v.total]
    BY DEF Swapped
  <2> QED
    BY <2>1, <2>2
<1> QED
  BY <1>1, <1>2 DEF Windows

LEMMA AdoptionValue ==
  ASSUME NEW baseline \in Windows, NEW current \in Windows,
         ~Unbounded(baseline, current), WindowError(baseline, current) = Nil,
         baseline.total # 0, current.total # 0,
         ValidAdoption(baseline), ValidAdoption(current)
  PROVE  MethodAdoption(baseline, current).value
           = DivRound(current.count * baseline.total - baseline.count * current.total,
                      current.total * baseline.total)
BY SignalShape DEF MethodAdoption

LEMMA AdoptionBounded ==
  ASSUME NEW baseline \in Windows, NEW current \in Windows,
         MethodAdoption(baseline, current).error = Nil
  PROVE  /\ MethodAdoption(baseline, current).value \in -Unit..Unit
         /\ MethodAdoption(Swapped(baseline, current), Swapped(current, baseline)).value
              = -MethodAdoption(baseline, current).value
<1> DEFINE b == Swapped(baseline, current)
           c == Swapped(current, baseline)
<1>1. /\ ~Unbounded(baseline, current) /\ WindowError(baseline, current) = Nil
      /\ baseline.total # 0 /\ current.total # 0
      /\ ValidAdoption(baseline) /\ ValidAdoption(current)
  BY SignalShape DEF MethodAdoption
<1>2. /\ b \in Windows /\ c \in Windows
      /\ b.from = baseline.from /\ b.to = baseline.to
      /\ b.count = current.count /\ b.total = current.total
      /\ c.from = current.from /\ c.to = current.to
      /\ c.count = baseline.count /\ c.total = baseline.total
  BY SwappedWindow
<1> HIDE DEF b, c
<1>3. ~Unbounded(b, c)
  BY <1>1, <1>2, NumbersAssumption DEF Unbounded, Windows
<1>4. WindowError(b, c) = Nil
  BY <1>1, <1>2 DEF WindowError
<1>5. ValidAdoption(b) /\ ValidAdoption(c)
  BY <1>1, <1>2 DEF ValidAdoption
<1>6. /\ baseline.total \in Nat \ {0} /\ current.total \in Nat \ {0}
      /\ baseline.count \in 0..baseline.total /\ current.count \in 0..current.total
  BY <1>1 DEF ValidAdoption, Windows
<1>7. MethodAdoption(baseline, current).value
        = DivRound(current.count * baseline.total - baseline.count * current.total,
                   current.total * baseline.total)
  BY <1>1, AdoptionValue
<1>8. MethodAdoption(b, c).value
        = DivRound(baseline.count * current.total - current.count * baseline.total,
                   baseline.total * current.total)
  BY <1>1, <1>2, <1>3, <1>4, <1>5, AdoptionValue
<1> DEFINE x == DivRound(current.count * baseline.total - baseline.count * current.total,
                         current.total * baseline.total)
           y == DivRound(baseline.count * current.total - current.count * baseline.total,
                         baseline.total * current.total)
<1>9. x \in -Unit..Unit /\ y = -x
  BY <1>6, ShareBounded
<1> HIDE DEF x, y
<1> QED
  BY <1>7, <1>8, <1>9 DEF b, c, x, y

\* The papers of a cohort that are cited at most as often.
Below(target, cohort) == {p \in DOMAIN cohort : cohort[p] <= target}

\* A share of a cohort, in percent.
LEMMA PercentOf ==
  ASSUME NEW n \in Nat \ {0}, n < 200 * Unit, NEW k \in 0..n
  PROVE  /\ DivRound(100 * k, n) \in 0..(100 * Unit)
         /\ DivRound(100 * k, n) = 100 * Unit <=> k = n
<1>1. Unit \in Nat \ {0}
  BY RulesAssumption
<1> DEFINE u == k * Unit
           v == n * Unit
<1>2. u \in Nat /\ v \in Nat
  BY <1>1, Products
<1>3. DivRound(100 * k, n) = (200 * u + n) \div (2 * n)
  <2>1. DivRound(100 * k, n) = Rounded(100 * k, n)
    BY DivRoundIs
  <2>2. 2 * (100 * k) * Unit = 200 * u
    BY <1>1
  <2> QED
    BY <2>1, <2>2 DEF Rounded
<1>4. (100 * Unit) * (2 * n) = 200 * v
  BY <1>1
<1>5. 2 * n \in Nat \ {0} /\ 200 * u + n \in Nat
  BY <1>2
<1>6. k = n => DivRound(100 * k, n) = 100 * Unit
  <2> SUFFICES ASSUME k = n PROVE DivRound(100 * k, n) = 100 * Unit
    OBVIOUS
  <2>1. u = v
    OBVIOUS
  <2> HIDE DEF u, v
  <2>2. /\ (100 * Unit) * (2 * n) <= 200 * u + n
        /\ 200 * u + n < (100 * Unit) * (2 * n) + 2 * n
    BY <1>2, <1>4, <2>1
  <2> DEFINE x == 200 * u + n
             d == 2 * n
             q == 100 * Unit
  <2>3. x \in Nat /\ d \in Nat \ {0} /\ q \in Int /\ q * d <= x /\ x < q * d + d
    BY <1>1, <1>5, <2>2
  <2> HIDE DEF x, d, q
  <2>4. x \div d = q
    BY <2>3, QuotientIs
  <2> QED
    BY <1>3, <2>4 DEF x, d, q
<1>7. k < n => DivRound(100 * k, n) \in 0..(100 * Unit - 1)
  <2> SUFFICES ASSUME k < n PROVE DivRound(100 * k, n) \in 0..(100 * Unit - 1)
    OBVIOUS
  <2>1. u + Unit <= v
    <3>1. (k + 1) * Unit <= n * Unit
      BY <1>1, ProductsGrow
    <3>2. (k + 1) * Unit = u + Unit
      BY <1>1
    <3> QED
      BY <3>1, <3>2
  <2>2. (100 * Unit - 1) * (2 * n) = 200 * v - 2 * n
    BY <1>1
  <2> HIDE DEF u, v
  <2>3. 200 * u + n < (100 * Unit - 1) * (2 * n) + 2 * n
    BY <1>1, <1>2, <2>1, <2>2
  <2>4. (200 * u + n) \div (2 * n) <= 100 * Unit - 1
    <3> DEFINE x == 200 * u + n
               d == 2 * n
               q == 100 * Unit - 1
    <3>1. x \in Nat /\ d \in Nat \ {0} /\ q \in Int /\ x < q * d + d
      BY <1>1, <1>5, <2>3
    <3> HIDE DEF x, d, q
    <3>2. x \div d <= q
      BY <3>1, QuotientAtMost
    <3> QED
      BY <3>2 DEF x, d, q
  <2>5. (200 * u + n) \div (2 * n) \in Nat
    BY <1>5, Quotients
  <2> QED
    BY <1>1, <1>3, <2>4, <2>5
<1> HIDE DEF u, v
<1>8. k = n \/ k < n
  OBVIOUS
<1> QED
  BY <1>1, <1>6, <1>7, <1>8

LEMMA PercentileBounded ==
  ASSUME NEW target \in Int, NEW cohort, cohort \in [DOMAIN cohort -> Int],
         IsFiniteSet(DOMAIN cohort), Cardinality(DOMAIN cohort) < 200 * Unit,
         CitationPercentile(target, cohort).error = Nil
  PROVE  LET percentile == CitationPercentile(target, cohort)
         IN  /\ percentile.value \in 0..(100 * Unit)
             /\ (percentile.value = 100 * Unit) = (\A p \in DOMAIN cohort : cohort[p] <= target)
             /\ CitationPercentile(target + 1, cohort).value >= percentile.value
<1> DEFINE n == Cardinality(DOMAIN cohort)
           k == Cardinality(Below(target, cohort))
           l == Cardinality(Below(target + 1, cohort))
<1>1. /\ ~(target < 0) /\ ~(\E p \in DOMAIN cohort : cohort[p] < 0) /\ DOMAIN cohort # {}
  BY SignalShape DEF CitationPercentile
<1>2. n \in Nat \ {0}
  BY <1>1, FS_CardinalityType, FS_EmptySet
<1>3. /\ k \in 0..n /\ (k = n => Below(target, cohort) = DOMAIN cohort)
      /\ l \in 0..n /\ k <= l
  <2>1. /\ Below(target, cohort) \subseteq Below(target + 1, cohort)
        /\ Below(target, cohort) \subseteq DOMAIN cohort
        /\ Below(target + 1, cohort) \subseteq DOMAIN cohort
    BY DEF Below
  <2>2. IsFiniteSet(Below(target + 1, cohort)) /\ l <= n
    BY <2>1, FS_Subset
  <2>3. /\ IsFiniteSet(Below(target, cohort)) /\ k <= n
        /\ n = k => DOMAIN cohort = Below(target, cohort)
    BY <2>1, FS_Subset
  <2>4. k <= l
    BY <2>1, <2>2, FS_Subset
  <2>5. k \in Nat /\ l \in Nat
    BY <2>2, <2>3, FS_CardinalityType
  <2> QED
    BY <1>2, <2>2, <2>3, <2>4, <2>5
<1>4. CitationPercentile(target, cohort).value = DivRound(100 * k, n)
  BY <1>1, SignalShape DEF CitationPercentile, Below
<1>5. CitationPercentile(target + 1, cohort).value = DivRound(100 * l, n)
  <2>1. ~(target + 1 < 0)
    BY <1>1
  <2> QED
    BY <1>1, <2>1, SignalShape DEF CitationPercentile, Below
<1>6. k = n <=> \A p \in DOMAIN cohort : cohort[p] <= target
  <2>1. Below(target, cohort) = DOMAIN cohort <=> \A p \in DOMAIN cohort : cohort[p] <= target
    BY DEF Below
  <2> QED
    BY <1>3, <2>1
<1>7. n < 200 * Unit
  OBVIOUS
<1> HIDE DEF n, k, l
<1>8. /\ DivRound(100 * k, n) \in 0..(100 * Unit)
      /\ DivRound(100 * k, n) = 100 * Unit <=> k = n
  BY <1>2, <1>3, <1>7, PercentOf
<1> DEFINE x == 100 * k
           y == 100 * l
<1>9. x \in Nat /\ y \in Nat /\ x <= y
  BY <1>2, <1>3
<1> HIDE DEF x, y
<1>10. /\ DivRound(x, n) = Rounded(x, n) /\ Rounded(x, n) \in Nat
       /\ DivRound(y, n) = Rounded(y, n) /\ Rounded(y, n) \in Nat
       /\ Rounded(x, n) <= Rounded(y, n)
  BY <1>2, <1>9, DivRoundIs, RoundedIsNatural, RoundedGrows
<1>11. DivRound(100 * l, n) >= DivRound(100 * k, n)
  BY <1>10 DEF x, y
<1> QED
  BY <1>4, <1>5, <1>6, <1>8, <1>11

LEMMA SeriesBounded ==
  ASSUME AnswersInv, Asked("series"), about.start # Nil, about.end # Nil
  PROVE  /\ Signed(answer.velocity, about.end.value - about.start.value)
         /\ Signed(answer.growth, about.end.value - about.start.value)
         /\ answer.growth.value >= -Unit
<1>1. about \in Series /\ answer = SeriesAnswer(about)
  BY DEF AnswersInv
<1>2. about.start \in Snapshots /\ about.end \in Snapshots
  BY <1>1, NumbersAssumption DEF Snapshots
<1>3. /\ answer.velocity = CitationVelocity(about.start, about.end)
      /\ answer.growth = CodeGrowth(about.start, about.end)
  BY <1>1 DEF SeriesAnswer
<1> QED
  BY <1>2, <1>3, VelocitySigned, CodeGrowthBounded

\* Windows that gave a value were there.
LEMMA WindowsObserved ==
  ASSUME AnswersInv, Asked("windows"),
         answer.growth.error = Nil \/ answer.adoption.error = Nil
  PROVE  about.baseline \in Windows /\ about.current \in Windows
<1>1. about \in WindowPairs /\ answer = WindowsAnswer(about)
  BY DEF AnswersInv
<1>2. ~Unbounded(about.baseline, about.current)
  BY <1>1, SignalShape DEF WindowsAnswer, TopicGrowth, MethodAdoption
<1> QED
  BY <1>1, <1>2, NumbersAssumption DEF Unbounded, Windows

\* Whatever the observations are, no ranking signal points against the change
\* it is computed from, no growth is below minus one, an adoption is a share
\* and turns its sign with its windows, and a citation percentile is between 0
\* and 100, reaches 100 exactly where no paper of the cohort is cited more, and
\* does not fall with a citation.
THEOREM SignalsStayBounded == Spec => []SignalsAreBounded
<1>1. AnswersInv => SignalsAreBounded
  <2> SUFFICES ASSUME AnswersInv PROVE SignalsAreBounded
    OBVIOUS
  <2>1. Asked("series") /\ about.start # Nil /\ about.end # Nil =>
          /\ Signed(answer.velocity, about.end.value - about.start.value)
          /\ Signed(answer.growth, about.end.value - about.start.value)
          /\ answer.growth.value >= -Unit
    BY SeriesBounded
  <2>2. Asked("windows") /\ answer.growth.error = Nil =>
          /\ Signed(answer.growth, about.current.count - about.baseline.count)
          /\ answer.growth.value >= -Unit
    <3> SUFFICES ASSUME Asked("windows"), answer.growth.error = Nil
                 PROVE  /\ Signed(answer.growth, about.current.count - about.baseline.count)
                        /\ answer.growth.value >= -Unit
      OBVIOUS
    <3>1. answer.growth = TopicGrowth(about.baseline, about.current)
      BY DEF AnswersInv, WindowsAnswer
    <3> QED
      BY <3>1, WindowsObserved, TopicGrowthBounded
  <2>3. Asked("windows") /\ answer.adoption.error = Nil =>
          /\ answer.adoption.value \in -Unit..Unit
          /\ MethodAdoption(Swapped(about.baseline, about.current),
                            Swapped(about.current, about.baseline)).value
               = -answer.adoption.value
    <3> SUFFICES ASSUME Asked("windows"), answer.adoption.error = Nil
                 PROVE  /\ answer.adoption.value \in -Unit..Unit
                        /\ MethodAdoption(Swapped(about.baseline, about.current),
                                          Swapped(about.current, about.baseline)).value
                             = -answer.adoption.value
      OBVIOUS
    <3>1. answer.adoption = MethodAdoption(about.baseline, about.current)
      BY DEF AnswersInv, WindowsAnswer
    <3> QED
      BY <3>1, WindowsObserved, AdoptionBounded
  <2>4. Asked("cohort") /\ answer.error = Nil =>
          /\ answer.value \in 0..(100 * Unit)
          /\ (answer.value = 100 * Unit) =
               (\A p \in DOMAIN about.cohort : about.cohort[p] <= about.target)
          /\ CitationPercentile(about.target + 1, about.cohort).value >= answer.value
    <3> SUFFICES ASSUME Asked("cohort"), answer.error = Nil
                 PROVE  /\ answer.value \in 0..(100 * Unit)
                        /\ (answer.value = 100 * Unit) =
                             (\A p \in DOMAIN about.cohort : about.cohort[p] <= about.target)
                        /\ CitationPercentile(about.target + 1, about.cohort).value
                             >= answer.value
      OBVIOUS
    <3>1. about \in Cohorts /\ answer = CitationPercentile(about.target, about.cohort)
      BY DEF AnswersInv
    <3>2. /\ about.target \in Int /\ about.cohort \in [DOMAIN about.cohort -> Int]
          /\ IsFiniteSet(DOMAIN about.cohort) /\ Cardinality(DOMAIN about.cohort) < 200 * Unit
      BY <3>1, NumbersAssumption
    <3>3. CitationPercentile(about.target, about.cohort).error = Nil
      BY <3>1
    <3> QED
      BY <3>1, <3>2, <3>3, PercentileBounded
  <2> QED
    BY <2>1, <2>2, <2>3, <2>4 DEF SignalsAreBounded, Signed, Swapped
<1> QED
  BY <1>1, AnswersHold, PTL

(***************************************************************************)
(* Statistics: what a paper says of its facts.                             *)
(***************************************************************************)
\* One of the newest rows makes the claim.
Claims(rows, claim) == \E r \in rows : (\A s \in rows : s.at <= r.at) /\ r.assertion = claim

LEMMA SelectedClaims ==
  ASSUME NEW rows, NEW values, AreRows(rows, values), Unambiguous(rows),
         NEW default, NEW claim, default # claim
  PROVE  Claims(rows, claim) <=> Selected(rows, default) = claim
<1>1. CASE rows = {}
  BY <1>1 DEF Claims, Selected
<1>2. CASE rows # {}
  <2>1. /\ NewestRow(rows) \in rows
        /\ \A s \in rows : s.at <= NewestRow(rows).at
    BY <1>2, RowsHaveOrder, NewestRowIsFirst
  <2>2. Selected(rows, default) = NewestRow(rows).assertion
    BY <1>2 DEF Selected
  <2>3. ASSUME NEW r \in rows, \A s \in rows : s.at <= r.at
        PROVE  r.assertion = NewestRow(rows).assertion
    <3>1. r.at <= NewestRow(rows).at /\ NewestRow(rows).at <= r.at
      BY <2>1, <2>3
    <3>2. r.at \in Nat /\ NewestRow(rows).at \in Nat
      BY <2>1, RowsHaveOrder DEF HaveOrder
    <3>3. r.at = NewestRow(rows).at
      BY <3>1, <3>2
    <3> QED
      BY <3>3 DEF Unambiguous
  <2> QED
    BY <2>1, <2>2, <2>3 DEF Claims
<1> QED
  BY <1>1, <1>2

\* What is read as known has a value.
LEMMA SelectedKnown ==
  ASSUME NEW rows, NEW values, AreRows(rows, values), Unambiguous(rows), None \notin values,
         NEW default, default.state # "known"
  PROVE  IF Selected(rows, default).state = "known"
         THEN \E v \in values : Selected(rows, default) = Known(v)
         ELSE \A v : Selected(rows, default) # Known(v)
<1>1. \A v : Known(v).state = "known"
  BY DEF Known
<1>2. CASE Selected(rows, default).state = "known"
  <2>1. rows # {}
    BY <1>2 DEF Selected
  <2>2. NewestRow(rows) \in rows
    BY <2>1, RowsHaveOrder, NewestRowIsFirst
  <2> DEFINE a == NewestRow(rows).assertion
  <2>3. Selected(rows, default) = a
    BY <2>1 DEF Selected
  <2>4. Readable(a) /\ a \in [state : {"known", "unknown", "missing"}, value : values \cup {None}]
    BY <2>2 DEF Unambiguous, AreRows
  <2> HIDE DEF a
  <2>5. a.state = "known" /\ a.value \in values
    BY <1>2, <2>3, <2>4 DEF Readable
  <2>6. a = Known(a.value)
    BY <2>4, <2>5 DEF Known
  <2> QED
    BY <1>2, <2>3, <2>5, <2>6
<1> QED
  BY <1>1, <1>2

\* The facts of one work and the paper that is made of them.
LEMMA PaperParts ==
  ASSUME NEW facts, Paper(facts) # None
  PROVE  /\ Unambiguous(facts.dates) /\ Unambiguous(facts.urls)
         /\ Paper(facts).published = Selected(facts.dates, Missing)
         /\ Paper(facts).hasCode = Relation(facts.linked, facts.urls)
BY DEF Paper

LEMMA PublishedKnown ==
  ASSUME NEW facts, Paper(facts) # None, AreRows(facts.dates, Dates)
  PROVE  LET published == Paper(facts).published
         IN  /\ published.state = "known" => published.value \in Dates
             /\ \A date :
                  (\A d \in Dates : Claims(facts.dates, Known(d)) => date = d)
                    <=> (published.state = "known" => date = published.value)
<1> DEFINE p == Selected(facts.dates, Missing)
<1>1. Unambiguous(facts.dates) /\ Paper(facts).published = p
  BY PaperParts
<1>2. /\ Missing.state # "known" /\ \A d : Missing # Known(d)
      /\ \A d : Known(d).state = "known" /\ Known(d).value = d
  BY DEF Missing, Known
<1>3. None \notin Dates
  BY FactsAssumption
<1>4. IF p.state = "known" THEN \E v \in Dates : p = Known(v) ELSE \A v : p # Known(v)
  BY <1>1, <1>2, <1>3, SelectedKnown
<1>5. \A d \in Dates : Claims(facts.dates, Known(d)) <=> p = Known(d)
  BY <1>1, <1>2, SelectedClaims
<1> HIDE DEF p
<1>6. p.state = "known" => p.value \in Dates
  BY <1>2, <1>4
<1>7. ASSUME NEW date
      PROVE  (\A d \in Dates : Claims(facts.dates, Known(d)) => date = d)
               <=> (p.state = "known" => date = p.value)
  <2>1. CASE p.state = "known"
    <3>1. PICK v \in Dates : p = Known(v)
      BY <1>4, <2>1
    <3>2. \A d \in Dates : Claims(facts.dates, Known(d)) <=> d = v
      BY <1>2, <1>5, <3>1
    <3> QED
      BY <1>2, <2>1, <3>1, <3>2
  <2>2. CASE p.state # "known"
    BY <1>4, <1>5, <2>2
  <2> QED
    BY <2>1, <2>2
<1> QED
  BY <1>1, <1>6, <1>7

LEMMA CodeKnown ==
  ASSUME NEW facts, Paper(facts) # None, AreRows(facts.urls, {"full", "empty"}),
         facts.linked \in BOOLEAN
  PROVE  LET hasCode == Paper(facts).hasCode
         IN  /\ hasCode.state = "known" => hasCode.value \in BOOLEAN
             /\ \A code \in BOOLEAN :
                  (/\ facts.linked \/ Claims(facts.urls, Known("full")) => code
                   /\ ~facts.linked /\ Claims(facts.urls, Known("empty")) => ~code)
                    <=> (hasCode.state = "known" => code = hasCode.value)
<1> DEFINE p == Selected(facts.urls, Unknown)
           h == Relation(facts.linked, facts.urls)
<1>1. Unambiguous(facts.urls) /\ Paper(facts).hasCode = h
  BY PaperParts
<1>2. /\ Unknown.state # "known" /\ \A v : Unknown # Known(v)
      /\ \A v : Known(v).state = "known" /\ Known(v).value = v
  BY DEF Unknown, Known
<1>3. None \notin {"full", "empty"}
  BY FactsAssumption
<1>4. IF p.state = "known" THEN \E v \in {"full", "empty"} : p = Known(v)
      ELSE \A v : p # Known(v)
  BY <1>1, <1>2, <1>3, SelectedKnown
<1>5. /\ Claims(facts.urls, Known("full")) <=> p = Known("full")
      /\ Claims(facts.urls, Known("empty")) <=> p = Known("empty")
  BY <1>1, <1>2, SelectedClaims
<1>6. h = IF facts.linked THEN Known(TRUE)
          ELSE IF p.state = "known" THEN Known(p.value # "empty") ELSE p
  BY DEF Relation
<1> HIDE DEF p, h
<1>7. CASE facts.linked
  <2>1. h.state = "known" /\ h.value = TRUE
    BY <1>2, <1>6, <1>7
  <2> QED
    BY <1>1, <1>7, <2>1
<1>8. CASE ~facts.linked /\ p = Known("full")
  <2>1. h = Known(TRUE)
    BY <1>2, <1>6, <1>8
  <2>2. h.state = "known" /\ h.value = TRUE
    BY <1>2, <2>1
  <2>3. p # Known("empty")
    BY <1>2, <1>8
  <2> QED
    BY <1>1, <1>5, <1>8, <2>2, <2>3
<1>9. CASE ~facts.linked /\ p = Known("empty")
  <2>1. h = Known(FALSE)
    BY <1>2, <1>6, <1>9
  <2>2. h.state = "known" /\ h.value = FALSE
    BY <1>2, <2>1
  <2>3. p # Known("full")
    BY <1>2, <1>9
  <2> QED
    BY <1>1, <1>5, <1>9, <2>2, <2>3
<1>10. CASE ~facts.linked /\ p.state # "known"
  <2>1. h = p
    BY <1>6, <1>10
  <2> QED
    BY <1>1, <1>4, <1>5, <1>10, <2>1
<1> QED
  BY <1>4, <1>7, <1>8, <1>9, <1>10

(***************************************************************************)
(* Statistics: what may be true of the works.                              *)
(***************************************************************************)
\* Papers whose known facts have values.
HaveValues(papers) ==
  \A w \in DOMAIN papers :
    /\ papers[w].published.state = "known" => papers[w].published.value \in Dates
    /\ papers[w].hasCode.state = "known" => papers[w].hasCode.value \in BOOLEAN

\* What the papers leave open.
Fits(papers) ==
  {world \in [DOMAIN papers -> [date : Dates, code : BOOLEAN]] :
     \A w \in DOMAIN papers :
       /\ papers[w].published.state = "known" => world[w].date = papers[w].published.value
       /\ papers[w].hasCode.state = "known" => world[w].code = papers[w].hasCode.value}

PapersOf(works) == [w \in DOMAIN works |-> Paper(works[w])]

LEMMA WorldsFit ==
  ASSUME NEW works \in Catalogs, \A w \in DOMAIN works : Paper(works[w]) # None
  PROVE  /\ HaveValues(PapersOf(works))
         /\ Worlds(works) = Fits(PapersOf(works))
<1> DEFINE papers == PapersOf(works)
<1>1. DOMAIN papers = DOMAIN works /\ \A w \in DOMAIN works : papers[w] = Paper(works[w])
  BY DEF PapersOf
<1>2. \A w \in DOMAIN works :
        /\ AreRows(works[w].dates, Dates) /\ AreRows(works[w].urls, {"full", "empty"})
        /\ works[w].linked \in BOOLEAN
  BY FactsAssumption
<1> HIDE DEF papers
<1>3. ASSUME NEW w \in DOMAIN works
      PROVE  /\ papers[w].published.state = "known" => papers[w].published.value \in Dates
             /\ papers[w].hasCode.state = "known" => papers[w].hasCode.value \in BOOLEAN
             /\ \A date :
                  (\A d \in Dates : Claims(works[w].dates, Known(d)) => date = d)
                    <=> (papers[w].published.state = "known"
                           => date = papers[w].published.value)
             /\ \A code \in BOOLEAN :
                  (/\ works[w].linked \/ Claims(works[w].urls, Known("full")) => code
                   /\ ~works[w].linked /\ Claims(works[w].urls, Known("empty")) => ~code)
                    <=> (papers[w].hasCode.state = "known" => code = papers[w].hasCode.value)
  <2> DEFINE facts == works[w]
  <2>1. /\ Paper(facts) # None /\ AreRows(facts.dates, Dates)
        /\ AreRows(facts.urls, {"full", "empty"}) /\ facts.linked \in BOOLEAN
        /\ papers[w] = Paper(facts)
    BY <1>1, <1>2
  <2> HIDE DEF facts
  <2>2. /\ Paper(facts).published.state = "known" => Paper(facts).published.value \in Dates
        /\ \A date :
             (\A d \in Dates : Claims(facts.dates, Known(d)) => date = d)
               <=> (Paper(facts).published.state = "known"
                      => date = Paper(facts).published.value)
    BY <2>1, PublishedKnown
  <2>3. /\ Paper(facts).hasCode.state = "known" => Paper(facts).hasCode.value \in BOOLEAN
        /\ \A code \in BOOLEAN :
             (/\ facts.linked \/ Claims(facts.urls, Known("full")) => code
              /\ ~facts.linked /\ Claims(facts.urls, Known("empty")) => ~code)
               <=> (Paper(facts).hasCode.state = "known" => code = Paper(facts).hasCode.value)
    BY <2>1, CodeKnown
  <2> QED
    BY <2>1, <2>2, <2>3 DEF facts
<1>4. HaveValues(papers)
  BY <1>1, <1>3 DEF HaveValues
<1>5. Worlds(works) =
        {world \in [DOMAIN works -> [date : Dates, code : BOOLEAN]] :
           \A w \in DOMAIN works :
             /\ \A d \in Dates : Claims(works[w].dates, Known(d)) => world[w].date = d
             /\ works[w].linked \/ Claims(works[w].urls, Known("full")) => world[w].code
             /\ ~works[w].linked /\ Claims(works[w].urls, Known("empty")) => ~world[w].code}
  BY DEF Worlds, Claims
<1>6. ASSUME NEW world \in [DOMAIN works -> [date : Dates, code : BOOLEAN]],
             NEW w \in DOMAIN works
      PROVE  (/\ \A d \in Dates : Claims(works[w].dates, Known(d)) => world[w].date = d
              /\ works[w].linked \/ Claims(works[w].urls, Known("full")) => world[w].code
              /\ ~works[w].linked /\ Claims(works[w].urls, Known("empty")) => ~world[w].code)
               <=> (/\ papers[w].published.state = "known"
                         => world[w].date = papers[w].published.value
                    /\ papers[w].hasCode.state = "known"
                         => world[w].code = papers[w].hasCode.value)
  <2>1. world[w].code \in BOOLEAN
    OBVIOUS
  <2> QED
    BY <1>3, <2>1
<1>7. Fits(papers) =
        {world \in [DOMAIN works -> [date : Dates, code : BOOLEAN]] :
           \A w \in DOMAIN works :
             /\ papers[w].published.state = "known" => world[w].date = papers[w].published.value
             /\ papers[w].hasCode.state = "known" => world[w].code = papers[w].hasCode.value}
  BY <1>1 DEF Fits
<1>8. Worlds(works) = Fits(papers)
  BY <1>5, <1>6, <1>7
<1> QED
  BY <1>4, <1>8 DEF papers

\* What is open turns out as fill says.
Turned(papers, fill) ==
  [w \in DOMAIN papers |->
     [date |-> IF papers[w].published.state = "known" THEN papers[w].published.value
               ELSE fill[w].date,
      code |-> IF papers[w].hasCode.state = "known" THEN papers[w].hasCode.value
               ELSE fill[w].code]]

LEMMA TurnedFits ==
  ASSUME NEW papers, HaveValues(papers),
         NEW fill \in [DOMAIN papers -> [date : Dates, code : BOOLEAN]]
  PROVE  Turned(papers, fill) \in Fits(papers)
BY DEF Turned, Fits, HaveValues

LEMMA OneMore ==
  ASSUME NEW S, IsFiniteSet(S), NEW A \in SUBSET S, NEW B \in SUBSET S, NEW w \in A,
         w \notin B, \A v \in S : v # w => (v \in A <=> v \in B)
  PROVE  Cardinality(A) # Cardinality(B)
<1>1. IsFiniteSet(B)
  BY FS_Subset
<1>2. A = B \cup {w}
  OBVIOUS
<1>3. Cardinality(A) = Cardinality(B) + 1
  BY <1>1, <1>2, FS_AddElement
<1> QED
  BY <1>1, <1>3, FS_CardinalityType

LEMMA NotOne ==
  ASSUME NEW S, IsFiniteSet(S), NEW x \in S, NEW y \in S, x # y
  PROVE  Cardinality(S) # 1
BY FS_Singleton

(***************************************************************************)
(* Statistics: counting the papers of the last days and those with code.   *)
(***************************************************************************)
RecentIn(world) == {w \in DOMAIN world : world[w].date \in (Now - 7)..Now}

CodeIn(world) == {w \in DOMAIN world : world[w].code}

Recents(papers) == {Cardinality(RecentIn(world)) : world \in Fits(papers)}

Ratios(papers) ==
  {<<Cardinality(CodeIn(world)), Cardinality(DOMAIN world)>> : world \in Fits(papers)}

LEMMA CountsFinite ==
  ASSUME NEW papers, IsFiniteSet(DOMAIN papers)
  PROVE  IsFiniteSet(Recents(papers)) /\ IsFiniteSet(Ratios(papers))
<1> DEFINE n == Cardinality(DOMAIN papers)
<1>1. n \in Nat
  BY FS_CardinalityType
<1>2. ASSUME NEW world \in Fits(papers)
      PROVE  /\ DOMAIN world = DOMAIN papers
             /\ Cardinality(RecentIn(world)) \in 0..n
             /\ Cardinality(CodeIn(world)) \in 0..n
  <2>1. DOMAIN world = DOMAIN papers
    BY DEF Fits
  <2>2. RecentIn(world) \subseteq DOMAIN papers /\ CodeIn(world) \subseteq DOMAIN papers
    BY <2>1 DEF RecentIn, CodeIn
  <2>3. /\ IsFiniteSet(RecentIn(world)) /\ Cardinality(RecentIn(world)) <= n
        /\ IsFiniteSet(CodeIn(world)) /\ Cardinality(CodeIn(world)) <= n
    BY <2>2, FS_Subset
  <2>4. Cardinality(RecentIn(world)) \in Nat /\ Cardinality(CodeIn(world)) \in Nat
    BY <2>3, FS_CardinalityType
  <2> QED
    BY <1>1, <2>1, <2>3, <2>4
<1> HIDE DEF n
<1>3. IsFiniteSet(0..n) /\ IsFiniteSet({n})
  <2>1. 0 \in Int /\ n \in Int
    BY <1>1
  <2>2. IsFiniteSet(0..n)
    BY ONLY <2>1, FS_Interval
  <2> QED
    BY <2>2, FS_Singleton
<1>4. IsFiniteSet((0..n) \X {n})
  BY <1>3, FS_Product
<1>5. Recents(papers) \subseteq 0..n
  BY <1>2 DEF Recents
<1>6. Ratios(papers) \subseteq (0..n) \X {n}
  BY <1>2 DEF Ratios, n
<1> QED
  BY <1>3, <1>4, <1>5, <1>6, FS_Subset

Stated(v) == IF v.state = "known" THEN {v.value} ELSE {}

LEMMA RecentsStated ==
  ASSUME NEW papers, IsFiniteSet(DOMAIN papers), HaveValues(papers)
  PROVE  Stated(RecentPapers(papers, Now)) =
           IF Cardinality(Recents(papers)) = 1 THEN Recents(papers) ELSE {}
<1>1. PICK in \in Dates, out \in Dates : in \in (Now - 7)..Now /\ out \notin (Now - 7)..Now
  BY FactsAssumption DEF RecentDays
<1> DEFINE Fill(d) == [w \in DOMAIN papers |-> [date |-> d, code |-> TRUE]]
<1>2. \A d \in Dates : Fill(d) \in [DOMAIN papers -> [date : Dates, code : BOOLEAN]]
  OBVIOUS
<1>3. Turned(papers, Fill(in)) \in Fits(papers)
  BY <1>2, TurnedFits
<1>4. CASE \A w \in DOMAIN papers : papers[w].published.state = "known"
  <2> DEFINE P == {w \in DOMAIN papers : papers[w].published.value \in (Now - 7)..Now}
  <2>1. RecentPapers(papers, Now) = Known(Cardinality(P))
    BY <1>4 DEF RecentPapers, RecentDays
  <2>2. \A world \in Fits(papers) : RecentIn(world) = P
    BY <1>4 DEF Fits, RecentIn
  <2> HIDE DEF P
  <2>3. Recents(papers) = {Cardinality(P)}
    BY <1>3, <2>2 DEF Recents
  <2>4. Cardinality(Recents(papers)) = 1
    BY <2>3, FS_Singleton
  <2>5. Stated(RecentPapers(papers, Now)) = {Cardinality(P)}
    BY <2>1 DEF Stated, Known
  <2> QED
    BY <2>3, <2>4, <2>5
<1>5. CASE \E w \in DOMAIN papers : papers[w].published.state # "known"
  <2>1. PICK w \in DOMAIN papers : papers[w].published.state # "known"
    BY <1>5
  <2> DEFINE later == [Fill(out) EXCEPT ![w] = [date |-> in, code |-> TRUE]]
             a == Turned(papers, later)
             b == Turned(papers, Fill(out))
  <2>2. later \in [DOMAIN papers -> [date : Dates, code : BOOLEAN]]
    BY <1>2
  <2>3. a \in Fits(papers) /\ b \in Fits(papers)
    BY <1>2, <2>2, TurnedFits
  <2>4. /\ w \in RecentIn(a) /\ w \notin RecentIn(b)
        /\ \A v \in DOMAIN papers : v # w => (v \in RecentIn(a) <=> v \in RecentIn(b))
        /\ RecentIn(a) \subseteq DOMAIN papers /\ RecentIn(b) \subseteq DOMAIN papers
    <3>1. /\ DOMAIN a = DOMAIN papers /\ DOMAIN b = DOMAIN papers
          /\ a[w].date = in /\ b[w].date = out
          /\ \A v \in DOMAIN papers : v # w => a[v].date = b[v].date
      BY <2>1 DEF Turned
    <3> HIDE DEF a, b
    <3> QED
      BY <1>1, <3>1 DEF RecentIn
  <2> HIDE DEF a, b
  <2>5. Cardinality(RecentIn(a)) # Cardinality(RecentIn(b))
    BY <2>4, OneMore
  <2>6. Cardinality(Recents(papers)) # 1
    <3>1. /\ Cardinality(RecentIn(a)) \in Recents(papers)
          /\ Cardinality(RecentIn(b)) \in Recents(papers)
      BY <2>3 DEF Recents
    <3> QED
      BY <2>5, <3>1, CountsFinite, NotOne
  <2>7. Stated(RecentPapers(papers, Now)) = {}
    BY <1>5 DEF RecentPapers, Stated, Unknown
  <2> QED
    BY <2>6, <2>7
<1> QED
  BY <1>4, <1>5

LEMMA RatioStates ==
  ASSUME NEW papers
  PROVE  Stated(CodeRatio(papers)) =
           IF \A w \in DOMAIN papers : papers[w].hasCode.state = "known"
           THEN {<<Cardinality({w \in DOMAIN papers : papers[w].hasCode.value}),
                   Cardinality(DOMAIN papers)>>}
           ELSE {}
<1> DEFINE In(state) == {w \in DOMAIN papers : papers[w].hasCode.state = state}
<1>1. In("known") = DOMAIN papers <=> \A w \in DOMAIN papers : papers[w].hasCode.state = "known"
  OBVIOUS
<1>2. CASE In("known") = DOMAIN papers
  <2>1. CodeRatio(papers) = Known(<<Cardinality({w \in In("known") : papers[w].hasCode.value}),
                                    Cardinality(DOMAIN papers)>>)
    BY <1>2 DEF CodeRatio
  <2>2. CodeRatio(papers) = Known(<<Cardinality({w \in DOMAIN papers : papers[w].hasCode.value}),
                                    Cardinality(DOMAIN papers)>>)
    BY <1>2, <2>1
  <2> QED
    BY <1>1, <1>2, <2>2 DEF Stated, Known
<1>3. CASE In("known") # DOMAIN papers
  <2>1. CodeRatio(papers) \in {Missing, Unknown}
    BY <1>3 DEF CodeRatio
  <2> QED
    BY <1>1, <1>3, <2>1 DEF Stated, Missing, Unknown
<1> QED
  BY <1>2, <1>3

LEMMA RatiosStated ==
  ASSUME NEW papers, IsFiniteSet(DOMAIN papers), HaveValues(papers)
  PROVE  Stated(CodeRatio(papers)) =
           IF Cardinality(Ratios(papers)) = 1 THEN Ratios(papers) ELSE {}
<1>1. PICK date \in Dates : TRUE
  BY FactsAssumption
<1> DEFINE Fill(c) == [w \in DOMAIN papers |-> [date |-> date, code |-> c]]
<1>2. \A c \in BOOLEAN : Fill(c) \in [DOMAIN papers -> [date : Dates, code : BOOLEAN]]
  OBVIOUS
<1>3. Turned(papers, Fill(TRUE)) \in Fits(papers)
  BY <1>2, TurnedFits
<1>4. CASE \A w \in DOMAIN papers : papers[w].hasCode.state = "known"
  <2> DEFINE P == {w \in DOMAIN papers : papers[w].hasCode.value}
  <2>1. Stated(CodeRatio(papers)) = {<<Cardinality(P), Cardinality(DOMAIN papers)>>}
    BY <1>4, RatioStates
  <2>2. ASSUME NEW world \in Fits(papers)
        PROVE  DOMAIN world = DOMAIN papers /\ CodeIn(world) = P
    <3>1. DOMAIN world = DOMAIN papers
      BY DEF Fits
    <3>2. \A w \in DOMAIN papers : world[w].code = papers[w].hasCode.value
      BY <1>4 DEF Fits
    <3> QED
      BY <3>1, <3>2 DEF CodeIn
  <2> HIDE DEF P
  <2>3. Ratios(papers) = {<<Cardinality(P), Cardinality(DOMAIN papers)>>}
    BY <1>3, <2>2 DEF Ratios
  <2>4. Cardinality(Ratios(papers)) = 1
    BY <2>3, FS_Singleton
  <2> QED
    BY <2>1, <2>3, <2>4
<1>5. CASE \E w \in DOMAIN papers : papers[w].hasCode.state # "known"
  <2>1. PICK w \in DOMAIN papers : papers[w].hasCode.state # "known"
    BY <1>5
  <2> DEFINE later == [Fill(FALSE) EXCEPT ![w] = [date |-> date, code |-> TRUE]]
             a == Turned(papers, later)
             b == Turned(papers, Fill(FALSE))
  <2>2. later \in [DOMAIN papers -> [date : Dates, code : BOOLEAN]]
    BY <1>2
  <2>3. a \in Fits(papers) /\ b \in Fits(papers)
    BY <1>2, <2>2, TurnedFits
  <2>4. /\ w \in CodeIn(a) /\ w \notin CodeIn(b)
        /\ \A v \in DOMAIN papers : v # w => (v \in CodeIn(a) <=> v \in CodeIn(b))
        /\ CodeIn(a) \subseteq DOMAIN papers /\ CodeIn(b) \subseteq DOMAIN papers
    <3>1. /\ DOMAIN a = DOMAIN papers /\ DOMAIN b = DOMAIN papers
          /\ a[w].code = TRUE /\ b[w].code = FALSE
          /\ \A v \in DOMAIN papers : v # w => a[v].code = b[v].code
      BY <2>1 DEF Turned
    <3> HIDE DEF a, b
    <3> QED
      BY <3>1 DEF CodeIn
  <2> HIDE DEF a, b
  <2>5. Cardinality(CodeIn(a)) # Cardinality(CodeIn(b))
    BY <2>4, OneMore
  <2>6. Cardinality(Ratios(papers)) # 1
    <3> DEFINE x == <<Cardinality(CodeIn(a)), Cardinality(DOMAIN a)>>
               y == <<Cardinality(CodeIn(b)), Cardinality(DOMAIN b)>>
    <3>1. x \in Ratios(papers) /\ y \in Ratios(papers)
      BY <2>3 DEF Ratios
    <3>2. x # y
      BY <2>5
    <3> HIDE DEF x, y
    <3> QED
      BY <3>1, <3>2, CountsFinite, NotOne
  <2>7. Stated(CodeRatio(papers)) = {}
    BY <1>5, RatioStates
  <2> QED
    BY <2>6, <2>7
<1> QED
  BY <1>4, <1>5

\* Whatever the visible works and the assertions about them are, a statistic is
\* published as known exactly if everything that the facts of the works leave
\* open agrees on it, and then it is the number they agree on.
THEOREM StatisticsAreFinal == Spec => []StatsAreFinal
<1>1. AnswersInv => StatsAreFinal
  <2> SUFFICES ASSUME AnswersInv, Asked("snapshot"), answer # None PROVE StatsAreFinal
    BY DEF StatsAreFinal
  <2>1. about \in Catalogs /\ answer = Snapshot(about, Now)
    BY DEF AnswersInv
  <2> DEFINE papers == PapersOf(about)
  <2>2. /\ \A w \in DOMAIN about : Paper(about[w]) # None
        /\ answer.recent = RecentPapers(papers, Now)
        /\ answer.codeRatio = CodeRatio(papers)
    BY <2>1, SnapshotParts DEF PapersOf
  <2>3. HaveValues(papers) /\ Worlds(about) = Fits(papers)
    BY <2>1, <2>2, WorldsFit
  <2>4. IsFiniteSet(DOMAIN papers)
    BY <2>1, FactsAssumption DEF PapersOf
  <2> HIDE DEF papers
  <2>5. Stated(answer.recent) =
          IF Cardinality(Recents(papers)) = 1 THEN Recents(papers) ELSE {}
    BY <2>2, <2>3, <2>4, RecentsStated
  <2>6. Stated(answer.codeRatio) =
          IF Cardinality(Ratios(papers)) = 1 THEN Ratios(papers) ELSE {}
    BY <2>2, <2>3, <2>4, RatiosStated
  <2>7. /\ Recents(papers) =
             {Cardinality({w \in DOMAIN world : world[w].date \in (Now - 7)..Now}) :
                world \in Worlds(about)}
        /\ Ratios(papers) =
             {<<Cardinality({w \in DOMAIN world : world[w].code}), Cardinality(DOMAIN world)>> :
                world \in Worlds(about)}
    BY <2>3 DEF Recents, RecentIn, Ratios, CodeIn
  <2> QED
    BY <2>5, <2>6, <2>7 DEF StatsAreFinal, Stated
<1> QED
  BY <1>1, AnswersHold, PTL

(***************************************************************************)
(* Decimals.  Both numbers that are computed by a recursion, the number    *)
(* that digits write and a power of ten, are sums of one kind: a step      *)
(* multiplies by ten and adds a digit.                                     *)
(***************************************************************************)
LEMMA LeastExists ==
  ASSUME NEW S \in SUBSET Nat, S # {}
  PROVE  \E n \in S : \A m \in S : n <= m
<1> DEFINE R == OpToRel(<, Nat)
<1>1. IsWellFoundedOn(R, Nat)
  BY ONLY NatLessThanWellFounded
<1>2. \A m, n \in Nat : <<m, n>> \in R <=> m < n
  BY DEF OpToRel
<1> HIDE DEF R
<1>3. PICK n \in S : \A m \in S : ~(<<m, n>> \in R)
  BY <1>1, WFMin
<1>4. ASSUME NEW m \in S PROVE n <= m
  <2>1. m \in Nat /\ n \in Nat
    OBVIOUS
  <2>2. ~(m < n)
    BY <1>2, <1>3, <2>1
  <2> QED BY <2>1, <2>2
<1> QED BY <1>4

Digits == Seq(0..9)

\* g[k] is what the first k digits make of the start.
Accrues(g, n, start, digits) ==
  /\ g \in [0..n -> Nat]
  /\ g[0] = start
  /\ \A k \in 1..n : g[k] = 10 * g[k - 1] + digits[k]

LEMMA AccrualsAgree ==
  ASSUME NEW m \in Nat, NEW n \in Nat, NEW start, NEW f, NEW g, NEW s, NEW t,
         Accrues(f, m, start, s), Accrues(g, n, start, t),
         \A k \in 1..m : k <= n => s[k] = t[k]
  PROVE  \A k \in Nat : k <= m /\ k <= n => f[k] = g[k]
<1> DEFINE S == {k \in Nat : k <= m /\ k <= n /\ f[k] # g[k]}
<1> SUFFICES ASSUME S # {} PROVE FALSE
  OBVIOUS
<1>1. PICK k \in S : \A l \in S : k <= l
  BY LeastExists
<1>2. k # 0
  BY <1>1 DEF Accrues
<1>3. k - 1 \in Nat /\ k - 1 <= m /\ k - 1 <= n /\ k \in 1..m /\ k \in 1..n
  BY <1>1, <1>2
<1>4. f[k - 1] = g[k - 1]
  <2>1. k - 1 \notin S
    BY <1>1, <1>3
  <2> QED BY <1>3, <2>1
<1> QED BY <1>1, <1>3, <1>4 DEF Accrues

LEMMA AccrualExists ==
  ASSUME NEW start \in Nat, NEW top \in Nat, NEW digits, \A k \in 1..top : digits[k] \in Nat
  PROVE  \E g : Accrues(g, top, start, digits)
<1> DEFINE S == {n \in Nat : n <= top /\ ~\E g : Accrues(g, n, start, digits)}
<1>1. SUFFICES ASSUME S # {} PROVE FALSE
  OBVIOUS
<1>2. PICK n \in S : \A m \in S : n <= m
  BY <1>1, LeastExists
<1>3. CASE n = 0
  <2> DEFINE g == [k \in 0..0 |-> start]
  <2>1. g \in [0..0 -> Nat] /\ g[0] = start /\ 1..0 = {}
    OBVIOUS
  <2>2. Accrues(g, 0, start, digits)
    BY <2>1 DEF Accrues
  <2> QED BY <1>2, <1>3, <2>2
<1>4. CASE n # 0
  <2>1. n \in Nat /\ n <= top /\ n - 1 \in Nat /\ n - 1 \notin S /\ n \in 1..top
    BY <1>2, <1>4
  <2>2. PICK f : Accrues(f, n - 1, start, digits)
    BY <2>1
  <2> DEFINE g == [k \in 0..n |-> IF k = n THEN 10 * f[n - 1] + digits[n] ELSE f[k]]
  <2>3. \A k \in 0..(n - 1) : f[k] \in Nat /\ g[k] = f[k]
    BY <2>1, <2>2 DEF Accrues
  <2>4. g[n] = 10 * g[n - 1] + digits[n] /\ g[n] \in Nat
    <3>1. n - 1 \in 0..(n - 1) /\ digits[n] \in Nat
      BY <2>1
    <3>2. f[n - 1] \in Nat /\ g[n - 1] = f[n - 1]
      BY <2>3, <3>1
    <3>3. g[n] = 10 * f[n - 1] + digits[n]
      BY <2>1
    <3> HIDE DEF g
    <3> QED BY <3>1, <3>2, <3>3
  <2>5. \A k \in 0..n : g[k] \in Nat
    <3> HIDE DEF g
    <3>1. \A k \in 0..n : k \in 0..(n - 1) \/ k = n
      BY <2>1
    <3> QED BY <2>3, <2>4, <3>1
  <2>6. g \in [0..n -> Nat] /\ g[0] = start
    <3>1. 0 \in 0..(n - 1)
      BY <2>1
    <3>2. f[0] = start
      BY <2>2 DEF Accrues
    <3> QED BY <2>1, <2>3, <2>5, <3>1, <3>2
  <2>7. ASSUME NEW k \in 1..n PROVE g[k] = 10 * g[k - 1] + digits[k]
    <3>1. CASE k = n
      BY <2>4, <3>1
    <3>2. CASE k # n
      <4>1. k \in 1..(n - 1) /\ k \in 0..(n - 1) /\ k - 1 \in 0..(n - 1)
        BY <2>1, <3>2
      <4>2. f[k] = 10 * f[k - 1] + digits[k]
        BY <2>2, <4>1 DEF Accrues
      <4> QED BY <2>3, <4>1, <4>2
    <3> QED BY <3>1, <3>2
  <2> HIDE DEF g
  <2>8. Accrues(g, n, start, digits)
    BY <2>6, <2>7 DEF Accrues
  <2> QED BY <1>2, <2>8
<1> QED BY <1>3, <1>4

Values(digits) ==
  CHOOSE value : value = [n \in 0..Len(digits) |->
                            IF n = 0 THEN 0 ELSE 10 * value[n - 1] + digits[n]]

LEMMA CoefficientIs ==
  ASSUME NEW digits \in Digits
  PROVE  /\ Accrues(Values(digits), Len(digits), 0, digits)
         /\ Coefficient(digits) = Values(digits)[Len(digits)]
<1> DEFINE n == Len(digits)
           Solves(h) == h = [k \in 0..n |-> IF k = 0 THEN 0 ELSE 10 * h[k - 1] + digits[k]]
           b == CHOOSE h : Solves(h)
<1>1. n \in Nat /\ \A k \in 1..n : digits[k] \in Nat
  BY DEF Digits
<1>2. PICK f : Accrues(f, n, 0, digits)
  BY <1>1, AccrualExists
<1>3. Solves(f)
  <2>1. \A k \in 0..n : f[k] = IF k = 0 THEN 0 ELSE 10 * f[k - 1] + digits[k]
    BY <1>1, <1>2 DEF Accrues
  <2>2. f = [k \in 0..n |-> f[k]]
    BY <1>2 DEF Accrues
  <2> QED BY <2>1, <2>2
<1> HIDE DEF Solves
<1>4. Solves(b)
  BY <1>3
<1>5. Values(digits) = b
  BY DEF Values, Solves
<1>6. Coefficient(digits) = b[n]
  BY DEF Coefficient, Solves
<1> HIDE DEF b
<1> USE DEF Solves
<1>7. b[0] = 0 /\ \A k \in 1..n : b[k] = 10 * b[k - 1] + digits[k]
  BY <1>1, <1>4
<1>8. \A k \in 0..n : b[k] = f[k]
  <2> DEFINE S == {k \in Nat : k <= n /\ b[k] # f[k]}
  <2>1. SUFFICES ASSUME S # {} PROVE FALSE
    BY <1>1
  <2>2. PICK k \in S : \A l \in S : k <= l
    BY <2>1, LeastExists
  <2>3. k # 0
    BY <1>2, <1>7, <2>2 DEF Accrues
  <2>4. k - 1 \in Nat /\ k \in 1..n /\ k - 1 \notin S
    BY <1>1, <2>2, <2>3
  <2> QED BY <1>1, <1>2, <1>7, <2>2, <2>4 DEF Accrues
<1>9. b = [k \in 0..n |-> b[k]]
  BY <1>4
<1>10. b \in [0..n -> Nat]
  <2>1. \A k \in 0..n : b[k] \in Nat
    BY <1>2, <1>8 DEF Accrues
  <2> QED BY <1>9, <2>1
<1> QED BY <1>5, <1>6, <1>7, <1>10 DEF Accrues

Powers(exponent) ==
  CHOOSE power : power = [n \in 0..exponent |-> IF n = 0 THEN 1 ELSE 10 * power[n - 1]]

Zeros(n) == [k \in 1..n |-> 0]

LEMMA PowersAccrue ==
  ASSUME NEW n \in Nat
  PROVE  Accrues(Powers(n), n, 1, Zeros(n)) /\ Power(n) = Powers(n)[n]
<1> DEFINE Solves(h) == h = [k \in 0..n |-> IF k = 0 THEN 1 ELSE 10 * h[k - 1]]
           b == CHOOSE h : Solves(h)
<1>1. \A k \in 1..n : Zeros(n)[k] = 0
  BY DEF Zeros
<1>2. PICK f : Accrues(f, n, 1, Zeros(n))
  BY <1>1, AccrualExists
<1>3. \A k \in 1..n : f[k] = 10 * f[k - 1]
  <2>1. \A k \in 1..n : f[k] = 10 * f[k - 1] + 0 /\ k - 1 \in 0..n
    BY <1>1, <1>2 DEF Accrues
  <2>2. \A k \in 0..n : f[k] \in Nat
    BY <1>2 DEF Accrues
  <2> QED BY <2>1, <2>2
<1>4. Solves(f)
  <2>1. \A k \in 0..n : f[k] = IF k = 0 THEN 1 ELSE 10 * f[k - 1]
    BY <1>2, <1>3 DEF Accrues
  <2>2. f = [k \in 0..n |-> f[k]]
    BY <1>2 DEF Accrues
  <2> QED BY <2>1, <2>2
<1> HIDE DEF Solves
<1>5. Solves(b)
  BY <1>4
<1>6. Powers(n) = b
  BY DEF Powers, Solves
<1>7. n > 0 => Power(n) = b[n]
  BY DEF Power, Solves
<1>8. n = 0 => Power(n) = 1
  BY DEF Power
<1> HIDE DEF b
<1> USE DEF Solves
<1>9. b[0] = 1 /\ \A k \in 1..n : b[k] = 10 * b[k - 1]
  BY <1>5
<1>10. \A k \in 0..n : b[k] = f[k]
  <2> DEFINE S == {k \in Nat : k <= n /\ b[k] # f[k]}
  <2>1. SUFFICES ASSUME S # {} PROVE FALSE
    OBVIOUS
  <2>2. PICK k \in S : \A l \in S : k <= l
    BY <2>1, LeastExists
  <2>3. k # 0
    BY <1>2, <1>9, <2>2 DEF Accrues
  <2>4. k - 1 \in Nat /\ k \in 1..n /\ k - 1 \notin S
    BY <2>2, <2>3
  <2> QED BY <1>3, <1>9, <2>2, <2>4
<1>11. b = [k \in 0..n |-> b[k]]
  BY <1>5
<1>12. b = f
  <2>1. f = [k \in 0..n |-> f[k]]
    BY <1>2 DEF Accrues
  <2> QED BY <1>10, <1>11, <2>1
<1> QED BY <1>2, <1>6, <1>7, <1>8, <1>9, <1>12

LEMMA PowersOfTen ==
  /\ Power(0) = 1
  /\ \A n \in Nat : Power(n) \in Nat /\ Power(n) >= 1 /\ Power(n + 1) = 10 * Power(n)
<1>1. Power(0) = 1
  BY DEF Power
<1>2. ASSUME NEW n \in Nat PROVE Power(n) \in Nat /\ Power(n + 1) = 10 * Power(n)
  <2>1. n + 1 \in Nat /\ n + 1 \in 1..(n + 1) /\ n \in 0..n /\ (n + 1) - 1 = n
    OBVIOUS
  <2>2. Accrues(Powers(n), n, 1, Zeros(n)) /\ Power(n) = Powers(n)[n]
    BY PowersAccrue
  <2>3. /\ Accrues(Powers(n + 1), n + 1, 1, Zeros(n + 1))
        /\ Power(n + 1) = Powers(n + 1)[n + 1]
    BY <2>1, PowersAccrue
  <2>4. \A k \in 1..n : k <= n + 1 => Zeros(n)[k] = Zeros(n + 1)[k]
    BY DEF Zeros
  <2>5. Powers(n)[n] = Powers(n + 1)[n]
    BY <2>1, <2>2, <2>3, <2>4, AccrualsAgree
  <2>6. Powers(n)[n] \in Nat
    BY <2>1, <2>2 DEF Accrues
  <2>7. Zeros(n + 1)[n + 1] = 0
    BY <2>1 DEF Zeros
  <2>8. Powers(n + 1)[n + 1] = 10 * Powers(n + 1)[n] + 0
    BY <2>1, <2>3, <2>7 DEF Accrues
  <2> QED BY <2>2, <2>3, <2>5, <2>6, <2>8
<1>3. \A n \in Nat : Power(n) >= 1
  <2> DEFINE S == {n \in Nat : ~(Power(n) >= 1)}
  <2>1. SUFFICES ASSUME S # {} PROVE FALSE
    OBVIOUS
  <2>2. PICK n \in S : \A m \in S : n <= m
    BY <2>1, LeastExists
  <2>3. n # 0
    BY <1>1, <2>2
  <2>4. n - 1 \in Nat /\ n - 1 \notin S /\ (n - 1) + 1 = n
    BY <2>2, <2>3
  <2>5. Power(n) = 10 * Power(n - 1) /\ Power(n - 1) \in Nat /\ Power(n - 1) >= 1
    BY <1>2, <2>4
  <2> QED BY <2>2, <2>5
<1> QED BY <1>1, <1>2, <1>3

LEMMA PowersMultiply ==
  ASSUME NEW m \in Nat, NEW n \in Nat
  PROVE  Power(m + n) = Power(m) * Power(n)
<1> DEFINE S == {k \in Nat : Power(m + k) # Power(m) * Power(k)}
<1>1. SUFFICES ASSUME S # {} PROVE FALSE
  OBVIOUS
<1>2. PICK k \in S : \A l \in S : k <= l
  BY <1>1, LeastExists
<1>3. k # 0
  BY <1>2, PowersOfTen
<1>4. k - 1 \in Nat /\ k - 1 \notin S /\ (k - 1) + 1 = k /\ m + (k - 1) \in Nat
      /\ (m + (k - 1)) + 1 = m + k
  BY <1>2, <1>3
<1>5. /\ Power(k) = 10 * Power(k - 1) /\ Power(m + k) = 10 * Power(m + (k - 1))
      /\ Power(m + (k - 1)) = Power(m) * Power(k - 1)
      /\ Power(m) \in Nat /\ Power(k - 1) \in Nat
  <2>1. Power(m + (k - 1)) = Power(m) * Power(k - 1)
    BY <1>4
  <2> QED BY <1>4, <2>1, PowersOfTen
<1>6. Power(m) * (10 * Power(k - 1)) = 10 * (Power(m) * Power(k - 1))
  BY <1>5
<1> QED BY <1>2, <1>5, <1>6

LEMMA Carried ==
  ASSUME NEW a \in Nat, NEW b \in Nat, NEW x \in 0..9
  PROVE  10 * (a + b) + x = 10 * a + (10 * b + x)
OBVIOUS

LEMMA CarriedBelow ==
  ASSUME NEW a \in Nat, NEW p \in Nat, NEW x \in 0..9
  PROVE  /\ a < p => 10 * a + x < 10 * p
         /\ a >= p => 10 * a + x >= 10 * p
OBVIOUS

LEMMA LastDigit ==
  ASSUME NEW a \in Nat, NEW b \in Nat, NEW x \in 0..9, NEW y \in 0..9,
         10 * a + x = 10 * b + y
  PROVE  a = b /\ x = y
OBVIOUS

LEMMA ValuesStep ==
  ASSUME NEW s \in Digits
  PROVE  /\ Len(s) \in Nat /\ Values(s)[0] = 0
         /\ Coefficient(s) = Values(s)[Len(s)] /\ Coefficient(s) \in Nat
         /\ \A n \in 0..Len(s) : Values(s)[n] \in Nat
         /\ \A n \in 1..Len(s) :
              /\ s[n] \in 0..9 /\ Values(s)[n - 1] \in Nat /\ Values(s)[n] \in Nat
              /\ Values(s)[n] = 10 * Values(s)[n - 1] + s[n]
<1>1. Accrues(Values(s), Len(s), 0, s) /\ Coefficient(s) = Values(s)[Len(s)]
  BY CoefficientIs
<1>2. Len(s) \in Nat /\ Len(s) \in 0..Len(s)
      /\ \A n \in 1..Len(s) : s[n] \in 0..9 /\ n - 1 \in 0..Len(s) /\ n \in 0..Len(s)
  BY DEF Digits
<1>3. \A n \in 0..Len(s) : Values(s)[n] \in Nat
  BY <1>1 DEF Accrues
<1> QED BY <1>1, <1>2, <1>3 DEF Accrues

\* What the first k + n digits write, where the n after the first k write u.
LEMMA ValuesShift ==
  ASSUME NEW s \in Digits, NEW u \in Digits, NEW k \in Nat, k + Len(u) <= Len(s),
         \A i \in 1..Len(u) : s[k + i] = u[i]
  PROVE  Values(s)[k + Len(u)] = Values(s)[k] * Power(Len(u)) + Coefficient(u)
<1> DEFINE v == Values(s)
           w == Values(u)
           Shifted(n) == v[k + n] = v[k] * Power(n) + w[n]
           S == {n \in Nat : n <= Len(u) /\ ~Shifted(n)}
<1>1. /\ Len(s) \in Nat
      /\ \A n \in 0..Len(s) : v[n] \in Nat
      /\ \A n \in 1..Len(s) : v[n] = 10 * v[n - 1] + s[n]
  BY ValuesStep
<1>2. /\ Len(u) \in Nat /\ w[0] = 0 /\ Coefficient(u) = w[Len(u)]
      /\ \A n \in 1..Len(u) : u[n] \in 0..9 /\ w[n - 1] \in Nat /\ w[n] = 10 * w[n - 1] + u[n]
  BY ValuesStep
<1> HIDE DEF v, w
<1>3. v[k] \in Nat
  <2>1. k \in 0..Len(s)
    BY <1>1, <1>2
  <2> QED BY <1>1, <2>1
<1>4. Shifted(0)
  <2>1. Power(0) = 1
    BY PowersOfTen
  <2>2. v[k] * 1 = v[k] /\ k + 0 = k /\ v[k] + 0 = v[k]
    BY <1>3
  <2> QED BY <1>2, <2>1, <2>2
<1>5. S = {}
  <2>1. SUFFICES ASSUME S # {} PROVE FALSE
    OBVIOUS
  <2>2. PICK n \in S : \A m \in S : n <= m
    BY <2>1, LeastExists
  <2>3. n # 0
    BY <1>4, <2>2
  <2>4. /\ n \in Nat /\ n - 1 \in Nat /\ n - 1 \notin S /\ (n - 1) + 1 = n /\ n \in 1..Len(u)
        /\ k + n \in 1..Len(s) /\ (k + n) - 1 = k + (n - 1) /\ n - 1 \in 0..Len(u)
    BY <1>2, <2>2, <2>3
  <2>5. Shifted(n - 1)
    BY <2>2, <2>4
  <2>6. v[k + n] = 10 * v[k + (n - 1)] + s[k + n] /\ w[n] = 10 * w[n - 1] + u[n]
    BY <1>1, <1>2, <2>4
  <2>7. s[k + n] = u[n] /\ u[n] \in 0..9 /\ w[n - 1] \in Nat
    <3>1. u[n] \in 0..9 /\ w[n - 1] \in Nat
      BY <1>2, <2>4
    <3>2. s[k + n] = u[n]
      BY <2>4
    <3> QED BY <3>1, <3>2
  <2>8. Power(n) = 10 * Power(n - 1) /\ Power(n - 1) \in Nat
    BY <2>4, PowersOfTen
  <2>9. v[k] * (10 * Power(n - 1)) = 10 * (v[k] * Power(n - 1)) /\ v[k] * Power(n - 1) \in Nat
    BY ONLY <1>3, <2>8
  <2>10. v[k + n] = v[k] * Power(n) + w[n]
    <3> DEFINE p == v[k] * Power(n - 1)
           q == v[k] * Power(n)
    <3>1. v[k + (n - 1)] = p + w[n - 1] /\ p \in Nat /\ q = 10 * p
      BY <2>5, <2>8, <2>9
    <3> HIDE DEF p, q
    <3>2. v[k + n] = 10 * (p + w[n - 1]) + u[n]
      BY <2>6, <2>7, <3>1
    <3>3. 10 * (p + w[n - 1]) + u[n] = q + w[n]
      <4>1. 10 * (p + w[n - 1]) + u[n] = 10 * p + (10 * w[n - 1] + u[n])
        BY ONLY <2>7, <3>1, Carried
      <4> QED BY ONLY <2>6, <3>1, <4>1
    <3> QED BY <3>2, <3>3 DEF q
  <2> QED BY <2>2, <2>10
<1>6. Shifted(Len(u))
  <2>1. Len(u) \notin S /\ Len(u) <= Len(u)
    BY <1>2, <1>5
  <2> QED BY <1>2, <2>1
<1> QED BY <1>2, <1>6 DEF v

LEMMA ValuesOfZeros ==
  ASSUME NEW s \in Digits, NEW k \in 0..Len(s), \A i \in 1..k : s[i] = 0
  PROVE  Values(s)[k] = 0
<1> DEFINE v == Values(s)
           S == {n \in Nat : n <= k /\ v[n] # 0}
<1>1. /\ Len(s) \in Nat /\ v[0] = 0
      /\ \A n \in 1..Len(s) : v[n] = 10 * v[n - 1] + s[n]
  BY ValuesStep
<1> HIDE DEF v
<1>2. S = {}
  <2>1. SUFFICES ASSUME S # {} PROVE FALSE
    OBVIOUS
  <2>2. PICK n \in S : \A m \in S : n <= m
    BY <2>1, LeastExists
  <2>3. n # 0
    BY <1>1, <2>2
  <2>4. n - 1 \in Nat /\ n - 1 \notin S /\ n \in 1..k /\ n \in 1..Len(s)
    BY <1>1, <2>2, <2>3
  <2>5. v[n - 1] = 0
    BY <2>2, <2>4
  <2> QED BY <1>1, <2>2, <2>4, <2>5
<1> QED BY <1>1, <1>2 DEF v

LEMMA CoefficientOfBoth ==
  ASSUME NEW s \in Digits, NEW t \in Digits
  PROVE  /\ s \o t \in Digits
         /\ Coefficient(s \o t) = Coefficient(s) * Power(Len(t)) + Coefficient(t)
<1> DEFINE st == s \o t
<1>1. /\ st \in Digits /\ Len(st) = Len(s) + Len(t) /\ Len(s) \in Nat /\ Len(t) \in Nat
      /\ \A i \in 1..Len(s) : st[i] = s[i]
      /\ \A i \in 1..Len(t) : st[Len(s) + i] = t[i]
  BY DEF Digits
<1> HIDE DEF st
<1>2. Values(st)[Len(s) + Len(t)] = Values(st)[Len(s)] * Power(Len(t)) + Coefficient(t)
  <2>1. Len(s) + Len(t) <= Len(st)
    BY <1>1
  <2> QED BY <1>1, <2>1, ValuesShift
<1>3. (\A i \in 1..Len(s) : st[0 + i] = s[i]) /\ 0 \in Nat /\ 0 + Len(s) <= Len(st)
  BY <1>1
<1>4. Values(st)[0 + Len(s)] = Values(st)[0] * Power(Len(s)) + Coefficient(s)
  BY <1>1, <1>3, ValuesShift
<1>5. Values(st)[0] = 0
  BY <1>1, ValuesStep
<1>6. Coefficient(s) \in Nat /\ Power(Len(s)) \in Nat
  BY <1>1, ValuesStep, PowersOfTen
<1>7. Values(st)[Len(s)] = Coefficient(s)
  BY <1>1, <1>4, <1>5, <1>6
<1> QED BY <1>1, <1>2, <1>7, ValuesStep DEF st

LEMMA CoefficientBounded ==
  ASSUME NEW s \in Digits
  PROVE  /\ Coefficient(s) \in Nat /\ Coefficient(s) < Power(Len(s))
         /\ s # <<>> /\ s[1] # 0 => Coefficient(s) >= Power(Len(s) - 1)
<1> DEFINE v == Values(s)
           S == {n \in Nat : n <= Len(s) /\ ~(v[n] < Power(n))}
           R == {n \in Nat : n + 1 <= Len(s) /\ ~(v[n + 1] >= Power(n))}
<1>1. v[0] = 0 /\ Len(s) \in Nat /\ Coefficient(s) = v[Len(s)] /\ Coefficient(s) \in Nat
  BY ValuesStep
<1>2. \A n \in 1..Len(s) : s[n] \in 0..9 /\ v[n] = 10 * v[n - 1] + s[n] /\ v[n - 1] \in Nat
                            /\ v[n] \in Nat
  BY ValuesStep
<1> HIDE DEF v
<1>3. S = {}
  <2>1. SUFFICES ASSUME S # {} PROVE FALSE
    OBVIOUS
  <2>2. PICK n \in S : \A m \in S : n <= m
    BY <2>1, LeastExists
  <2>3. n # 0
    <3>1. v[0] = 0 /\ Power(0) = 1
      BY <1>1, PowersOfTen
    <3> QED BY <2>2, <3>1
  <2>4. n - 1 \in Nat /\ n - 1 \notin S /\ n \in 1..Len(s) /\ (n - 1) + 1 = n
    BY <1>1, <2>2, <2>3
  <2>5. v[n - 1] < Power(n - 1)
    BY <2>2, <2>4
  <2>6. Power(n) = 10 * Power(n - 1) /\ Power(n - 1) \in Nat
    BY <2>4, PowersOfTen
  <2>7. v[n] = 10 * v[n - 1] + s[n] /\ v[n - 1] \in Nat /\ s[n] \in 0..9
    BY <1>2, <2>4
  <2>8. v[n] < Power(n)
    <3>1. 10 * v[n - 1] + s[n] < 10 * Power(n - 1)
      BY ONLY <2>5, <2>6, <2>7, CarriedBelow
    <3> QED BY ONLY <2>6, <2>7, <3>1
  <2> QED BY <2>2, <2>8
<1>4. Coefficient(s) \in Nat /\ Coefficient(s) < Power(Len(s))
  BY <1>1, <1>3
<1>5. ASSUME s # <<>>, s[1] # 0 PROVE Coefficient(s) >= Power(Len(s) - 1)
  <2>1. Len(s) - 1 \in Nat /\ (Len(s) - 1) + 1 = Len(s)
    BY <1>1, <1>5 DEF Digits
  <2>2. R = {}
    <3>1. SUFFICES ASSUME R # {} PROVE FALSE
      OBVIOUS
    <3>2. PICK n \in R : \A m \in R : n <= m
      BY <3>1, LeastExists
    <3>3. n # 0
      <4>1. 1 \in 1..Len(s) /\ 1 - 1 = 0 /\ 0 + 1 = 1
        BY <1>1, <2>1
      <4>2. v[1] = 10 * v[0] + s[1] /\ s[1] \in 0..9 /\ v[0] = 0
        BY <1>1, <1>2, <4>1
      <4>3. v[0 + 1] >= 1
        BY <1>5, <4>1, <4>2
      <4>4. Power(0) = 1
        BY PowersOfTen
      <4> QED BY <3>2, <4>3, <4>4
    <3>4. /\ n \in Nat /\ n - 1 \in Nat /\ n - 1 \notin R /\ n + 1 \in 1..Len(s)
          /\ (n - 1) + 1 = n /\ (n + 1) - 1 = n
      BY <1>1, <3>2, <3>3
    <3>5. v[n] >= Power(n - 1)
      <4>1. (n - 1) + 1 <= Len(s)
        BY <3>4
      <4>2. v[(n - 1) + 1] >= Power(n - 1)
        BY <3>4, <4>1
      <4> QED BY <3>4, <4>2
    <3>6. Power(n) = 10 * Power(n - 1) /\ Power(n - 1) \in Nat
      BY <3>4, PowersOfTen
    <3>7. v[n + 1] = 10 * v[n] + s[n + 1] /\ v[n] \in Nat /\ s[n + 1] \in 0..9
      <4>1. /\ v[n + 1] = 10 * v[(n + 1) - 1] + s[n + 1]
            /\ v[(n + 1) - 1] \in Nat /\ s[n + 1] \in 0..9
        BY <1>2, <3>4
      <4> QED BY <3>4, <4>1
    <3>8. v[n + 1] >= Power(n)
      <4>1. 10 * v[n] + s[n + 1] >= 10 * Power(n - 1)
        BY ONLY <3>5, <3>6, <3>7, CarriedBelow
      <4> QED BY ONLY <3>6, <3>7, <4>1
    <3> QED BY <3>2, <3>8
  <2> QED BY <1>1, <2>1, <2>2
<1> QED BY <1>4, <1>5

LEMMA DigitsAreUnique ==
  ASSUME NEW s \in Digits, NEW t \in Digits, Len(s) = Len(t), Coefficient(s) = Coefficient(t)
  PROVE  s = t
<1> DEFINE v == Values(s)
           w == Values(t)
           top == Len(s)
           S == {j \in Nat : j <= top /\ v[top - j] # w[top - j]}
<1>1. top \in Nat /\ v[top] = w[top]
  BY ValuesStep
<1>2. \A n \in 1..top : /\ s[n] \in 0..9 /\ v[n] = 10 * v[n - 1] + s[n] /\ v[n - 1] \in Nat
                        /\ t[n] \in 0..9 /\ w[n] = 10 * w[n - 1] + t[n] /\ w[n - 1] \in Nat
  BY ValuesStep
<1> HIDE DEF v, w
<1>3. S = {}
  <2>1. SUFFICES ASSUME S # {} PROVE FALSE
    OBVIOUS
  <2>2. PICK j \in S : \A m \in S : j <= m
    BY <2>1, LeastExists
  <2>3. j # 0
    BY <1>1, <2>2
  <2>4. /\ j - 1 \in Nat /\ j - 1 \notin S /\ top - (j - 1) \in 1..top
        /\ (top - (j - 1)) - 1 = top - j
    BY <1>1, <2>2, <2>3
  <2>5. v[top - (j - 1)] = w[top - (j - 1)]
    BY <1>1, <2>2, <2>4
  <2> DEFINE n == top - (j - 1)
  <2>6. /\ s[n] \in 0..9 /\ v[n] = 10 * v[top - j] + s[n] /\ v[top - j] \in Nat
        /\ t[n] \in 0..9 /\ w[n] = 10 * w[top - j] + t[n] /\ w[top - j] \in Nat
    BY <1>2, <2>4
  <2>7. v[n] = w[n]
    BY <2>5
  <2> HIDE DEF n, top
  <2>8. v[top - j] = w[top - j]
    BY ONLY <2>6, <2>7, LastDigit
  <2> QED BY <2>2, <2>8
<1>4. \A n \in 0..top : v[n] = w[n]
  <2>1. \A n \in 0..top : top - n \in Nat /\ top - n <= top /\ top - (top - n) = n
    BY <1>1
  <2>2. \A j \in Nat : j <= top => v[top - j] = w[top - j]
    BY <1>3
  <2> HIDE DEF S, top
  <2> QED BY <2>1, <2>2
<1>5. \A n \in 1..top : s[n] = t[n]
  <2> TAKE n \in 1..top
  <2>1. n \in 0..top /\ n - 1 \in 0..top
    BY <1>1
  <2>2. v[n] = w[n] /\ v[n - 1] = w[n - 1]
    BY <1>4, <2>1
  <2>3. /\ s[n] \in 0..9 /\ v[n] = 10 * v[n - 1] + s[n] /\ v[n - 1] \in Nat
        /\ t[n] \in 0..9 /\ v[n] = 10 * v[n - 1] + t[n]
    BY <1>2, <2>2
  <2> HIDE DEF top
  <2> QED BY ONLY <2>3, LastDigit
<1> QED BY <1>5 DEF Digits

LEMMA LeftTrimmed ==
  ASSUME NEW s \in Digits
  PROVE  LET u == TrimLeft(s)
         IN  /\ u \in Digits /\ Len(u) \in 0..Len(s)
             /\ \A i \in 1..Len(u) : s[(Len(s) - Len(u)) + i] = u[i]
             /\ \A i \in 1..(Len(s) - Len(u)) : s[i] = 0
             /\ u = <<>> \/ u[1] # 0
<1> DEFINE kept == {i \in DOMAIN s : s[i] # 0}
<1>1. s \in Seq(0..9) /\ Len(s) \in Nat /\ DOMAIN s = 1..Len(s) /\ kept \in SUBSET Nat
  BY DEF Digits
<1>2. CASE kept = {}
  <2>1. TrimLeft(s) = <<>>
    BY <1>2 DEF TrimLeft
  <2>2. <<>> \in Digits /\ Len(<<>>) = 0
    BY DEF Digits
  <2> QED BY <1>1, <1>2, <2>1, <2>2
<1>3. CASE kept # {}
  <2> DEFINE m == Min(kept)
  <2>1. m \in kept /\ \A i \in kept : m <= i
    <3>1. \E i \in kept : \A j \in kept : i <= j
      BY <1>1, <1>3, LeastExists
    <3> HIDE DEF kept
    <3> QED BY <3>1 DEF Min
  <2>2. TrimLeft(s) = SubSeq(s, m, Len(s))
    BY <1>3 DEF TrimLeft
  <2> HIDE DEF m
  <2>3. m \in 1..Len(s) /\ m \in 1..(Len(s) + 1) /\ Len(s) \in (m - 1)..Len(s)
    BY <1>1, <2>1
  <2> DEFINE u == SubSeq(s, m, Len(s))
  <2>4. /\ u \in Seq(0..9) /\ Len(u) = Len(s) - m + 1
        /\ \A i \in 1..(Len(s) - m + 1) : u[i] = s[m + i - 1]
    BY <1>1, <2>3, SubSeqProperties
  <2> HIDE DEF u
  <2>5. Len(u) \in 0..Len(s) /\ Len(s) - Len(u) = m - 1 /\ 1 \in 1..Len(u)
    BY <1>1, <2>3, <2>4
  <2>6. ASSUME NEW i \in 1..Len(u) PROVE s[(m - 1) + i] = u[i]
    <3>1. (m - 1) + i = m + i - 1 /\ i \in 1..(Len(s) - m + 1)
      BY <1>1, <2>3, <2>4
    <3> QED BY <2>4, <3>1
  <2>7. ASSUME NEW i \in 1..(m - 1) PROVE s[i] = 0
    <3>1. i \in DOMAIN s /\ ~(m <= i)
      BY <1>1, <2>3
    <3> QED BY <2>1, <3>1
  <2>8. u[1] # 0
    <3>1. s[(m - 1) + 1] = u[1] /\ (m - 1) + 1 = m
      BY <2>3, <2>5, <2>6
    <3> QED BY <2>1, <3>1
  <2> QED BY <2>2, <2>4, <2>5, <2>6, <2>7, <2>8 DEF u, Digits
<1> QED BY <1>2, <1>3

LEMMA LeftTrimmedValue ==
  ASSUME NEW s \in Digits
  PROVE  Coefficient(TrimLeft(s)) = Coefficient(s)
<1> DEFINE u == TrimLeft(s)
           k == Len(s) - Len(u)
<1>1. /\ u \in Digits /\ Len(u) \in 0..Len(s) /\ Len(s) \in Nat
      /\ \A i \in 1..Len(u) : s[k + i] = u[i]
      /\ \A i \in 1..k : s[i] = 0
  BY LeftTrimmed, ValuesStep
<1> HIDE DEF u
<1>2. k \in Nat /\ k \in 0..Len(s) /\ k + Len(u) <= Len(s) /\ k + Len(u) = Len(s)
  BY <1>1
<1> HIDE DEF k
<1>3. Values(s)[k + Len(u)] = Values(s)[k] * Power(Len(u)) + Coefficient(u)
  BY <1>1, <1>2, ValuesShift
<1>4. Values(s)[k] = 0
  BY <1>1, <1>2, ValuesOfZeros
<1>5. Coefficient(u) \in Nat /\ Coefficient(s) = Values(s)[Len(s)]
  BY <1>1, ValuesStep
<1>6. Len(u) \in Nat /\ Power(Len(u)) \in Nat
  BY <1>1, PowersOfTen
<1>7. 0 * Power(Len(u)) + Coefficient(u) = Coefficient(u)
  BY ONLY <1>5, <1>6
<1> QED BY <1>2, <1>3, <1>4, <1>5, <1>7 DEF u

LEMMA ReversedDigits ==
  ASSUME NEW s \in Digits
  PROVE  /\ Reverse(s) \in Digits /\ Len(Reverse(s)) = Len(s)
         /\ \A i \in 1..Len(s) : Reverse(s)[i] = s[Len(s) - i + 1]
<1>1. Len(s) \in Nat /\ s \in [1..Len(s) -> 0..9]
  BY DEF Digits
<1>2. \A i \in 1..Len(s) : Len(s) - i + 1 \in 1..Len(s)
  BY <1>1
<1>3. Reverse(s) \in [1..Len(s) -> 0..9]
  BY <1>1, <1>2 DEF Reverse
<1>4. \A i \in 1..Len(s) : Reverse(s)[i] = s[Len(s) - i + 1]
  BY <1>1 DEF Reverse
<1> HIDE DEF Reverse
<1>5. Reverse(s) \in Seq(0..9) /\ Len(Reverse(s)) = Len(s)
  BY <1>1, <1>3
<1> QED BY <1>4, <1>5 DEF Digits

LEMMA RightTrimmed ==
  ASSUME NEW s \in Digits
  PROVE  LET u == TrimRight(s)
         IN  /\ u \in Digits /\ Len(u) \in 0..Len(s)
             /\ \A i \in 1..Len(u) : u[i] = s[i]
             /\ \A i \in (Len(u) + 1)..Len(s) : s[i] = 0
             /\ u = <<>> \/ u[Len(u)] # 0
<1> DEFINE r == Reverse(s)
           t == TrimLeft(r)
           u == Reverse(t)
           n == Len(s)
           l == Len(t)
<1>1. r \in Digits /\ Len(r) = n /\ n \in Nat /\ \A i \in 1..n : r[i] = s[n - i + 1]
  BY ReversedDigits DEF Digits
<1> HIDE DEF r
<1>2. /\ t \in Digits /\ l \in 0..n
      /\ \A i \in 1..l : r[(n - l) + i] = t[i]
      /\ \A i \in 1..(n - l) : r[i] = 0
      /\ t = <<>> \/ t[1] # 0
  BY <1>1, LeftTrimmed
<1> HIDE DEF t
<1>3. u \in Digits /\ Len(u) = l /\ \A i \in 1..l : u[i] = t[l - i + 1]
  BY <1>2, ReversedDigits
<1>4. TrimRight(s) = u
  BY DEF TrimRight, r, t
<1> HIDE DEF u
<1>5. ASSUME NEW i \in 1..l PROVE u[i] = s[i]
  <2>1. l - i + 1 \in 1..l /\ (n - l) + (l - i + 1) \in 1..n
        /\ n - ((n - l) + (l - i + 1)) + 1 = i
    BY <1>1, <1>2
  <2>2. u[i] = t[l - i + 1]
    BY <1>3
  <2>3. t[l - i + 1] = r[(n - l) + (l - i + 1)]
    BY <1>2, <2>1
  <2>4. r[(n - l) + (l - i + 1)] = s[n - ((n - l) + (l - i + 1)) + 1]
    BY <1>1, <2>1
  <2> QED BY <2>1, <2>2, <2>3, <2>4
<1>6. ASSUME NEW i \in (l + 1)..n PROVE s[i] = 0
  <2>1. n - i + 1 \in 1..(n - l) /\ n - i + 1 \in 1..n /\ n - (n - i + 1) + 1 = i
    BY <1>1, <1>2
  <2>2. r[n - i + 1] = 0
    BY <1>2, <2>1
  <2>3. r[n - i + 1] = s[n - (n - i + 1) + 1]
    BY <1>1, <2>1
  <2> QED BY <2>1, <2>2, <2>3
<1>7. u = <<>> \/ u[l] # 0
  <2>1. CASE l = 0
    BY <1>3, <2>1 DEF Digits
  <2>2. CASE l # 0
    <3>1. t # <<>> /\ l \in 1..l /\ l - l + 1 = 1
      BY <1>1, <1>2, <2>2
    <3>2. u[l] = t[1]
      BY <1>3, <3>1
    <3> QED BY <1>2, <3>1, <3>2
  <2> QED BY <2>1, <2>2
<1> HIDE DEF n, l
<1>8. Len(u) = l
  BY <1>3
<1> QED BY <1>2, <1>3, <1>4, <1>5, <1>6, <1>7, <1>8 DEF n

LEMMA RightTrimmedValue ==
  ASSUME NEW s \in Digits
  PROVE  LET u == TrimRight(s)
         IN  Coefficient(s) = Coefficient(u) * Power(Len(s) - Len(u))
<1> DEFINE u == TrimRight(s)
           k == Len(s) - Len(u)
           z == Zeros(k)
<1>1. /\ u \in Digits /\ Len(u) \in 0..Len(s) /\ Len(s) \in Nat
      /\ \A i \in 1..Len(u) : u[i] = s[i]
      /\ \A i \in (Len(u) + 1)..Len(s) : s[i] = 0
  BY RightTrimmed, ValuesStep
<1> HIDE DEF u
<1>2. k \in Nat /\ Len(u) + k = Len(s)
  BY <1>1
<1> HIDE DEF k
<1>3. z \in Digits /\ Len(z) = k /\ k \in 0..Len(z) /\ \A i \in 1..k : z[i] = 0
  BY <1>2 DEF Zeros, Digits
<1> HIDE DEF z
<1>4. s = u \o z
  <2> DEFINE c == u \o z
  <2>1. /\ c \in Digits /\ Len(c) = Len(u) + Len(z)
        /\ \A i \in 1..Len(u) : c[i] = u[i]
        /\ \A i \in (Len(u) + 1)..(Len(u) + Len(z)) : c[i] = z[i - Len(u)]
    <3>1. /\ c \in Seq(0..9) /\ Len(c) = Len(u) + Len(z)
          /\ \A i \in 1..Len(c) : c[i] = IF i <= Len(u) THEN u[i] ELSE z[i - Len(u)]
      <4>1. u \in Seq(0..9) /\ z \in Seq(0..9)
        BY <1>1, <1>3 DEF Digits
      <4>2. /\ c \in Seq(0..9) /\ Len(c) = Len(u) + Len(z)
            /\ \A i \in 1..(Len(u) + Len(z)) :
                 c[i] = IF i <= Len(u) THEN u[i] ELSE z[i - Len(u)]
        BY <4>1, ConcatProperties
      <4> HIDE DEF c
      <4> QED BY ONLY <4>2
    <3> HIDE DEF c
    <3>2. Len(u) \in Nat /\ Len(z) \in Nat
      BY <1>1, <1>2, <1>3
    <3> QED BY <3>1, <3>2 DEF Digits
  <2> HIDE DEF c
  <2>2. Len(c) = Len(s)
    BY <1>2, <1>3, <2>1
  <2>3. ASSUME NEW i \in 1..Len(s) PROVE c[i] = s[i]
    <3>1. CASE i \in 1..Len(u)
      BY <1>1, <2>1, <3>1
    <3>2. CASE i \notin 1..Len(u)
      <4>1. i \in (Len(u) + 1)..Len(s) /\ i - Len(u) \in 1..k /\ Len(u) + Len(z) = Len(s)
        BY <1>1, <1>2, <1>3, <3>2
      <4>2. s[i] = 0
        BY <1>1, <4>1
      <4>3. c[i] = z[i - Len(u)]
        BY <2>1, <4>1
      <4> QED BY <1>3, <4>1, <4>2, <4>3
    <3> QED BY <3>1, <3>2
  <2>4. c = s
    BY <2>1, <2>2, <2>3 DEF Digits
  <2> QED BY <2>4 DEF c
<1>5. Coefficient(z) = 0
  BY <1>3, ValuesOfZeros, ValuesStep
<1>6. Coefficient(s) = Coefficient(u) * Power(k) + 0
  BY <1>1, <1>3, <1>4, <1>5, CoefficientOfBoth
<1>7. Coefficient(u) * Power(k) \in Nat
  <2>1. Coefficient(u) \in Nat /\ Power(k) \in Nat
    BY <1>1, <1>2, ValuesStep, PowersOfTen
  <2> QED BY ONLY <2>1
<1>8. Coefficient(s) = Coefficient(u) * Power(k)
  BY ONLY <1>6, <1>7
<1> QED BY <1>8 DEF u, k

(***************************************************************************)
(* What ParseDecimal returns is the one representation of its number.      *)
(***************************************************************************)
Canonical(d) ==
  /\ d \in [digits : Digits, scale : Nat]
  /\ d.digits # <<>>
  /\ d.digits = <<0>> \/ d.digits[1] # 0
  /\ d.scale = 0 \/ d.digits[Len(d.digits)] # 0

Whole(digits) == IF TrimLeft(digits) = <<>> THEN <<0>> ELSE TrimLeft(digits)

LEMMA NothingIsZero ==
  /\ <<0>> \in Digits /\ <<>> \in Digits
  /\ Coefficient(<<0>>) = 0 /\ Coefficient(<<>>) = 0
<1>1. <<0>> \in Digits /\ <<>> \in Digits
  BY DEF Digits
<1>2. /\ Len(<<0>>) = 1 /\ 1 \in 0..1 /\ \A i \in 1..1 : <<0>>[i] = 0
      /\ Len(<<>>) = 0 /\ 0 \in 0..0 /\ \A i \in 1..0 : <<>>[i] = 0
  OBVIOUS
<1>3. Values(<<0>>)[1] = 0
  BY <1>1, <1>2, ValuesOfZeros
<1>4. Values(<<>>)[0] = 0
  BY <1>1, ValuesStep
<1> QED BY <1>1, <1>2, <1>3, <1>4, ValuesStep

LEMMA WholeIs ==
  ASSUME NEW s \in Digits
  PROVE  /\ Whole(s) \in Digits /\ Whole(s) # <<>> /\ Coefficient(Whole(s)) = Coefficient(s)
         /\ Whole(s) = <<0>> \/ Whole(s)[1] # 0
<1>1. /\ TrimLeft(s) \in Digits
      /\ TrimLeft(s) = <<>> \/ TrimLeft(s)[1] # 0
      /\ Coefficient(TrimLeft(s)) = Coefficient(s)
  BY LeftTrimmed, LeftTrimmedValue
<1>2. <<0>> # <<>>
  OBVIOUS
<1> QED BY <1>1, <1>2, NothingIsZero DEF Whole

LEMMA Distributed ==
  ASSUME NEW a \in Nat, NEW b \in Nat, NEW p \in Nat, NEW q \in Nat
  PROVE  a * (p * q) + b * q = (a * p + b) * q
OBVIOUS

LEMMA ParsedIs ==
  ASSUME NEW text, text.integer \in Digits, text.fraction \in Digits
  PROVE  LET d == ParseDecimal(text)
             all == Len(text.fraction)
         IN  /\ Canonical(d) /\ d.scale <= all
             /\ Coefficient(text.integer \o text.fraction)
                  = Coefficient(d.digits) * Power(all - d.scale)
<1> DEFINE integer == text.integer
           whole == Whole(integer)
           fraction == text.fraction
           kept == TrimRight(fraction)
           all == Len(fraction)
           d == ParseDecimal(text)
<1>1. /\ whole \in Digits /\ whole # <<>> /\ Coefficient(whole) = Coefficient(integer)
      /\ whole = <<0>> \/ whole[1] # 0
  BY WholeIs
<1>2. /\ kept \in Digits /\ Len(kept) \in 0..all /\ all \in Nat
      /\ kept = <<>> \/ kept[Len(kept)] # 0
      /\ Coefficient(fraction) = Coefficient(kept) * Power(all - Len(kept))
  BY RightTrimmed, RightTrimmedValue, ValuesStep
<1>3. d = IF kept = <<>> THEN [digits |-> whole, scale |-> 0]
          ELSE [digits |-> TrimLeft(whole \o kept), scale |-> Len(kept)]
  BY DEF ParseDecimal, Whole
<1>4. Coefficient(integer \o fraction) = Coefficient(integer) * Power(all) + Coefficient(fraction)
  BY CoefficientOfBoth
<1> HIDE DEF whole, kept, d
<1>5. all - Len(kept) \in Nat /\ Len(kept) \in Nat /\ Len(kept) + (all - Len(kept)) = all
  BY <1>2
<1>6. /\ Coefficient(integer) \in Nat /\ Coefficient(kept) \in Nat
      /\ Power(Len(kept)) \in Nat /\ Power(all - Len(kept)) \in Nat /\ Power(all) \in Nat
  BY <1>2, <1>5, ValuesStep, PowersOfTen
<1>7. CASE kept = <<>>
  <2>1. d.digits = whole /\ d.scale = 0 /\ d \in [digits : Digits, scale : Nat]
    BY <1>1, <1>3, <1>7
  <2>2. Canonical(d)
    BY <1>1, <2>1 DEF Canonical
  <2>3. Coefficient(kept) = 0
    BY <1>7, NothingIsZero
  <2>4. Coefficient(fraction) = 0
    BY ONLY <1>2, <1>6, <2>3
  <2>5. Coefficient(integer) * Power(all) + 0 = Coefficient(integer) * Power(all)
    <3>1. Coefficient(integer) * Power(all) \in Nat
      BY ONLY <1>6
    <3> QED BY ONLY <3>1
  <2>6. all - d.scale = all /\ d.scale <= all
    BY <1>2, <2>1
  <2> QED BY <1>1, <1>4, <2>1, <2>2, <2>4, <2>5, <2>6 DEF d
<1>8. CASE kept # <<>>
  <2> DEFINE both == whole \o kept
             digits == TrimLeft(both)
             n == Len(both)
             l == Len(digits)
  <2>1. /\ both \in Digits /\ n = Len(whole) + Len(kept) /\ both[n] = kept[Len(kept)]
        /\ Coefficient(both) = Coefficient(whole) * Power(Len(kept)) + Coefficient(kept)
    <3>1. Len(kept) \in 1..Len(kept) /\ Len(whole) \in Nat
      BY <1>1, <1>2, <1>8 DEF Digits
    <3>2. Len(both) = Len(whole) + Len(kept)
      BY <1>1, <1>2 DEF Digits
    <3>3. both[Len(whole) + Len(kept)] = kept[Len(kept)]
      BY <1>1, <1>2, <3>1 DEF Digits
    <3> QED BY <1>1, <1>2, <3>2, <3>3, CoefficientOfBoth
  <2> HIDE DEF both
  <2>2. /\ digits \in Digits /\ l \in 0..n /\ n \in Nat
        /\ \A i \in 1..l : both[(n - l) + i] = digits[i]
        /\ \A i \in 1..(n - l) : both[i] = 0
        /\ digits = <<>> \/ digits[1] # 0
        /\ Coefficient(digits) = Coefficient(both)
    BY <2>1, LeftTrimmed, LeftTrimmedValue, ValuesStep
  <2> HIDE DEF digits
  <2>3. both[n] # 0 /\ n >= 1
    <3>1. Len(kept) >= 1 /\ Len(whole) \in Nat
      BY <1>1, <1>2, <1>8 DEF Digits
    <3> QED BY <1>2, <1>8, <2>1, <3>1
  <2>4. digits # <<>> /\ l \in 1..l
    <3>1. l # 0
      <4>1. l = 0 => n \in 1..(n - l)
        BY <2>2, <2>3
      <4> QED BY <2>2, <2>3, <4>1
    <3> QED BY <2>2, <3>1
  <2>5. digits[l] # 0
    <3>1. (n - l) + l = n
      BY <2>2
    <3>2. both[(n - l) + l] = digits[l]
      BY <2>2, <2>4
    <3> QED BY <2>3, <3>1, <3>2
  <2>6. d.digits = digits /\ d.scale = Len(kept) /\ d \in [digits : Digits, scale : Nat]
    BY <1>3, <1>5, <1>8, <2>2 DEF digits, both
  <2>7. Canonical(d)
    BY <2>2, <2>4, <2>5, <2>6 DEF Canonical
  <2>8. Power(all) = Power(Len(kept)) * Power(all - Len(kept))
    BY <1>5, PowersMultiply
  <2>9. Coefficient(integer \o fraction)
          = (Coefficient(integer) * Power(Len(kept)) + Coefficient(kept)) * Power(all - Len(kept))
    <3>1. Coefficient(integer) * (Power(Len(kept)) * Power(all - Len(kept)))
            + Coefficient(kept) * Power(all - Len(kept))
          = (Coefficient(integer) * Power(Len(kept)) + Coefficient(kept)) * Power(all - Len(kept))
      BY ONLY <1>6, Distributed
    <3> QED BY ONLY <1>2, <1>4, <2>8, <3>1
  <2>10. Coefficient(d.digits) = Coefficient(integer) * Power(Len(kept)) + Coefficient(kept)
    BY <1>1, <2>1, <2>2, <2>6
  <2>11. d.scale <= all
    BY <1>2, <2>6
  <2> QED BY <2>6, <2>7, <2>9, <2>10, <2>11 DEF d
<1> QED BY <1>7, <1>8

LEMMA PowerOfDebt ==
  ASSUME NEW n \in Int, n <= 0
  PROVE  Power(n) = 1
BY PowersOfTen DEF Power

LEMMA ShorterIsLess ==
  ASSUME NEW s \in Digits, NEW t \in Digits, Len(s) < Len(t), s # <<>>,
         Len(t) = 1 \/ t[1] # 0
  PROVE  Coefficient(s) < Coefficient(t)
<1> DEFINE k == (Len(t) - 1) - Len(s)
<1>1. Len(s) \in Nat /\ Len(t) \in Nat /\ Len(s) >= 1
  BY DEF Digits
<1>2. t # <<>> /\ t[1] # 0
  <2>1. Len(s) < Len(t)
    OBVIOUS
  <2>2. Len(t) > 1
    BY ONLY <1>1, <2>1
  <2>3. Len(t) # 1 /\ Len(t) # 0
    <3>1. \A n \in Nat : n > 1 => n # 1 /\ n # 0
      OBVIOUS
    <3> QED BY ONLY <1>1, <2>2, <3>1
  <2>4. t # <<>>
    BY <2>3 DEF Digits
  <2> QED BY <2>3, <2>4
<1>3. Coefficient(s) < Power(Len(s)) /\ Coefficient(s) \in Nat /\ Coefficient(t) \in Nat
      /\ Coefficient(t) >= Power(Len(t) - 1)
  BY <1>2, CoefficientBounded
<1>4. k \in Nat /\ Len(t) - 1 = Len(s) + k
  BY <1>1
<1> HIDE DEF k
<1>5. Power(Len(t) - 1) = Power(Len(s)) * Power(k)
  BY <1>1, <1>4, PowersMultiply
<1>6. Power(Len(s)) \in Nat /\ Power(k) \in Nat /\ Power(k) >= 1
  BY <1>1, <1>4, PowersOfTen
<1>7. Power(Len(s)) * Power(k) >= Power(Len(s))
  <2> DEFINE p == Power(Len(s))
             q == Power(k)
  <2>1. p \in Nat /\ q \in Nat /\ q >= 1
    BY <1>6
  <2> HIDE DEF p, q
  <2>2. p * q >= p
    BY ONLY <2>1
  <2> QED BY <2>2 DEF p, q
<1> QED BY ONLY <1>3, <1>5, <1>6, <1>7

LEMMA ScalesOfEqual ==
  ASSUME NEW d, NEW e, Canonical(d), Canonical(e), d.scale < e.scale,
         Coefficient(d.digits) * Power(e.scale - d.scale) = Coefficient(e.digits)
  PROVE  FALSE
<1> DEFINE t == e.digits
           v == Values(t)
           l == Len(t)
           m == e.scale - d.scale
           a == Coefficient(d.digits)
<1>1. t \in Digits /\ d.digits \in Digits /\ d.scale \in Nat /\ e.scale \in Nat /\ t # <<>>
      /\ t[l] # 0
  BY DEF Canonical
<1>2. m - 1 \in Nat /\ (m - 1) + 1 = m
  BY <1>1
<1>3. Power(m) = 10 * Power(m - 1) /\ Power(m - 1) \in Nat /\ a \in Nat
  BY <1>1, <1>2, PowersOfTen, ValuesStep
<1>4. l \in 1..l
  BY <1>1 DEF Digits
<1>5. t[l] \in 0..9 /\ v[l - 1] \in Nat /\ Coefficient(t) = 10 * v[l - 1] + t[l]
  BY <1>1, <1>4, ValuesStep
<1>6. a * Power(m) = Coefficient(t)
  OBVIOUS
<1> HIDE DEF t, v, l, m, a
<1>7. a * Power(m - 1) \in Nat /\ a * Power(m) = 10 * (a * Power(m - 1)) + 0
  BY ONLY <1>3
<1>8. t[l] = 0
  <2>1. 10 * v[l - 1] + t[l] = 10 * (a * Power(m - 1)) + 0 /\ 0 \in 0..9
    BY <1>5, <1>6, <1>7
  <2> QED BY ONLY <1>5, <1>7, <2>1, LastDigit
<1> QED BY <1>1, <1>8

LEMMA EqualIsSame ==
  ASSUME NEW d, NEW e, Canonical(d), Canonical(e)
  PROVE  (Coefficient(d.digits) * Power(e.scale - d.scale)
            = Coefficient(e.digits) * Power(d.scale - e.scale)) <=> (d = e)
<1>1. /\ d.digits \in Digits /\ e.digits \in Digits /\ d.scale \in Nat /\ e.scale \in Nat
      /\ d = [digits |-> d.digits, scale |-> d.scale]
      /\ e = [digits |-> e.digits, scale |-> e.scale]
      /\ d.digits # <<>> /\ e.digits # <<>>
  BY DEF Canonical
<1>2. Coefficient(d.digits) \in Nat /\ Coefficient(e.digits) \in Nat
  BY <1>1, ValuesStep
<1>3. ASSUME Coefficient(d.digits) * Power(e.scale - d.scale)
               = Coefficient(e.digits) * Power(d.scale - e.scale)
      PROVE  d = e
  <2>1. CASE d.scale < e.scale
    <3>1. d.scale - e.scale \in Int /\ d.scale - e.scale <= 0
      BY <1>1, <2>1
    <3>2. Power(d.scale - e.scale) = 1
      BY <3>1, PowerOfDebt
    <3>3. Coefficient(e.digits) * 1 = Coefficient(e.digits)
      BY ONLY <1>2
    <3>4. Coefficient(d.digits) * Power(e.scale - d.scale) = Coefficient(e.digits)
      BY <1>3, <3>2, <3>3
    <3> QED BY <2>1, <3>4, ScalesOfEqual
  <2>2. CASE e.scale < d.scale
    <3>1. e.scale - d.scale \in Int /\ e.scale - d.scale <= 0
      BY <1>1, <2>2
    <3>2. Power(e.scale - d.scale) = 1
      BY <3>1, PowerOfDebt
    <3>3. Coefficient(d.digits) * 1 = Coefficient(d.digits)
      BY ONLY <1>2
    <3>4. Coefficient(e.digits) * Power(d.scale - e.scale) = Coefficient(d.digits)
      BY <1>3, <3>2, <3>3
    <3> QED BY <2>2, <3>4, ScalesOfEqual
  <2>3. CASE d.scale = e.scale
    <3>1. /\ d.scale - e.scale \in Int /\ d.scale - e.scale <= 0
          /\ e.scale - d.scale = d.scale - e.scale
      BY <1>1, <2>3
    <3>2. Power(d.scale - e.scale) = 1
      BY <3>1, PowerOfDebt
    <3>3. /\ Coefficient(d.digits) * 1 = Coefficient(d.digits)
          /\ Coefficient(e.digits) * 1 = Coefficient(e.digits)
      BY ONLY <1>2
    <3>4. Coefficient(d.digits) = Coefficient(e.digits)
      BY <1>3, <3>1, <3>2, <3>3
    <3>5. ~(Len(d.digits) < Len(e.digits)) /\ ~(Len(e.digits) < Len(d.digits))
      <4>0. Len(<<0>>) = 1
        OBVIOUS
      <4>1. Len(e.digits) = 1 \/ e.digits[1] # 0
        BY <4>0 DEF Canonical
      <4>2. Len(d.digits) = 1 \/ d.digits[1] # 0
        BY <4>0 DEF Canonical
      <4>3. ~(Coefficient(d.digits) < Coefficient(e.digits))
            /\ ~(Coefficient(e.digits) < Coefficient(d.digits))
        BY <1>2, <3>4
      <4>4. ASSUME Len(d.digits) < Len(e.digits) PROVE FALSE
        BY <1>1, <4>1, <4>3, <4>4, ShorterIsLess
      <4>5. ASSUME Len(e.digits) < Len(d.digits) PROVE FALSE
        BY <1>1, <4>2, <4>3, <4>5, ShorterIsLess
      <4> QED BY <4>4, <4>5
    <3>6. Len(d.digits) = Len(e.digits)
      <4>1. Len(d.digits) \in Nat /\ Len(e.digits) \in Nat
        BY <1>1 DEF Digits
      <4> QED BY <3>5, <4>1
    <3>7. d.digits = e.digits
      BY <1>1, <3>4, <3>6, DigitsAreUnique
    <3> QED BY <1>1, <2>3, <3>7
  <2> QED BY <1>1, <2>1, <2>2, <2>3
<1>4. ASSUME d = e
      PROVE  Coefficient(d.digits) * Power(e.scale - d.scale)
               = Coefficient(e.digits) * Power(d.scale - e.scale)
  BY <1>4
<1> QED BY <1>3, <1>4

LEMMA PowersShared ==
  ASSUME NEW m \in Nat, NEW n \in Nat
  PROVE  \E j \in Nat : Power(m) = Power(m - n) * Power(j) /\ Power(n) = Power(n - m) * Power(j)
<1>1. ASSUME NEW a \in Nat, NEW b \in Nat, a <= b
      PROVE  Power(a) = Power(a - b) * Power(a) /\ Power(b) = Power(b - a) * Power(a)
  <2>1. b - a \in Nat /\ (b - a) + a = b /\ a - b \in Int /\ a - b <= 0
    BY <1>1
  <2>2. Power(b) = Power(b - a) * Power(a)
    BY <2>1, PowersMultiply
  <2>3. Power(a - b) = 1 /\ Power(a) \in Nat
    BY <2>1, PowerOfDebt, PowersOfTen
  <2>4. Power(a - b) * Power(a) = Power(a)
    BY ONLY <2>3
  <2> QED BY <2>2, <2>4
<1>2. CASE m <= n
  BY <1>1, <1>2
<1>3. CASE n <= m
  BY <1>1, <1>3
<1> QED BY <1>2, <1>3

LEMMA Regrouped ==
  ASSUME NEW v \in Nat, NEW p \in Nat, NEW q \in Nat, NEW x \in Nat, NEW j \in Nat
  PROVE  /\ (v * p) * (q * (x * j)) = (v * x) * (p * (q * j))
         /\ (v * q) * (p * (x * j)) = (v * x) * (p * (q * j))
         /\ p * (q * j) \in Nat /\ v * x \in Nat
OBVIOUS

LEMMA ScaledCompare ==
  ASSUME NEW x \in Nat, NEW y \in Nat, NEW k \in Nat, k >= 1
  PROVE  /\ x - y < 0 <=> x * k < y * k
         /\ x - y > 0 <=> x * k > y * k
         /\ x = y <=> x * k = y * k
<1>1. ASSUME NEW a \in Nat, NEW b \in Nat, a < b PROVE a * k < b * k
  <2>1. b - a \in Nat /\ b - a >= 1
    BY <1>1
  <2>2. (b - a) * k >= k
    <3> DEFINE c == b - a
    <3>1. c \in Nat /\ c >= 1
      BY <2>1
    <3> HIDE DEF c
    <3>2. c * k >= k
      BY <3>1
    <3> QED BY <3>2 DEF c
  <2>3. b * k = a * k + (b - a) * k
    OBVIOUS
  <2> QED BY <2>2, <2>3
<1>2. x < y \/ x = y \/ y < x
  OBVIOUS
<1>3. CASE x < y
  <2>1. x * k < y * k /\ x * k \in Nat /\ y * k \in Nat
    BY <1>1, <1>3
  <2> QED BY <1>3, <2>1
<1>4. CASE x = y
  <2>1. x * k \in Nat
    OBVIOUS
  <2> QED BY <1>4, <2>1
<1>5. CASE y < x
  <2>1. y * k < x * k /\ x * k \in Nat /\ y * k \in Nat
    BY <1>1, <1>5
  <2> QED BY <1>5, <2>1
<1> QED BY <1>2, <1>3, <1>4, <1>5

\* What the property says of a pair of texts.
Exact(a, b, compared) ==
  LET Scaled(text, other) ==
        Coefficient(text.integer \o text.fraction) * Power(Len(other.fraction))
      left == Scaled(a, b)
      right == Scaled(b, a)
      d == ParseDecimal(a)
  IN  /\ (compared < 0) = (left < right) /\ (compared > 0) = (left > right)
      /\ (d = ParseDecimal(b)) = (left = right)
      /\ ParseDecimal(Text(d)) = d

LEMMA ScaledSides ==
  ASSUME NEW a, a.integer \in Digits, a.fraction \in Digits,
         NEW b, b.integer \in Digits, b.fraction \in Digits
  PROVE  LET d == ParseDecimal(a)
             e == ParseDecimal(b)
             x == Coefficient(d.digits) * Power(e.scale - d.scale)
             y == Coefficient(e.digits) * Power(d.scale - e.scale)
         IN  /\ x \in Nat /\ y \in Nat
             /\ \E k \in Nat :
                  /\ k >= 1
                  /\ Coefficient(a.integer \o a.fraction) * Power(Len(b.fraction)) = x * k
                  /\ Coefficient(b.integer \o b.fraction) * Power(Len(a.fraction)) = y * k
<1> DEFINE d == ParseDecimal(a)
           e == ParseDecimal(b)
           v == Coefficient(d.digits)
           w == Coefficient(e.digits)
           x == v * Power(e.scale - d.scale)
           y == w * Power(d.scale - e.scale)
           p == Len(a.fraction) - d.scale
           q == Len(b.fraction) - e.scale
<1>1. /\ d.digits \in Digits /\ d.scale \in Nat /\ d.scale <= Len(a.fraction)
      /\ Coefficient(a.integer \o a.fraction) = v * Power(p)
  BY ParsedIs DEF Canonical
<1>2. /\ e.digits \in Digits /\ e.scale \in Nat /\ e.scale <= Len(b.fraction)
      /\ Coefficient(b.integer \o b.fraction) = w * Power(q)
  BY ParsedIs DEF Canonical
<1> HIDE DEF d, e
<1>3. /\ Len(a.fraction) \in Nat /\ Len(b.fraction) \in Nat /\ v \in Nat /\ w \in Nat
  BY <1>1, <1>2, ValuesStep
<1>4. /\ p \in Nat /\ q \in Nat
      /\ Len(a.fraction) = p + d.scale /\ Len(b.fraction) = q + e.scale
  <2>1. p \in Nat /\ Len(a.fraction) = p + d.scale
    BY <1>1, <1>3
  <2>2. q \in Nat /\ Len(b.fraction) = q + e.scale
    BY <1>2, <1>3
  <2> QED BY <2>1, <2>2
<1> HIDE DEF p, q, v, w
<1>5. PICK j \in Nat : /\ Power(e.scale) = Power(e.scale - d.scale) * Power(j)
                       /\ Power(d.scale) = Power(d.scale - e.scale) * Power(j)
  BY <1>1, <1>2, PowersShared
<1>6. /\ Power(p) \in Nat /\ Power(q) \in Nat /\ Power(j) \in Nat
      /\ Power(p) >= 1 /\ Power(q) >= 1 /\ Power(j) >= 1
  BY <1>4, PowersOfTen
<1>7. Power(e.scale - d.scale) \in Nat /\ Power(d.scale - e.scale) \in Nat
  <2>1. ASSUME NEW n \in Int PROVE Power(n) \in Nat
    <3>1. CASE n <= 0
      <4>1. Power(n) = 1
        BY <3>1, PowerOfDebt
      <4> QED BY <4>1
    <3>2. CASE ~(n <= 0)
      <4>1. n \in Nat
        BY <3>2
      <4> QED BY <4>1, PowersOfTen
    <3> QED BY <3>1, <3>2
  <2>2. e.scale - d.scale \in Int /\ d.scale - e.scale \in Int
    BY <1>1, <1>2
  <2> QED BY <2>1, <2>2
<1> DEFINE k == Power(p) * (Power(q) * Power(j))
<1>8. k \in Nat /\ k >= 1
  <2>1. Power(q) * Power(j) \in Nat /\ Power(q) * Power(j) >= 1
    BY ONLY <1>6
  <2> DEFINE r == Power(q) * Power(j)
  <2>2. r \in Nat /\ r >= 1
    BY <2>1
  <2> HIDE DEF r
  <2>3. Power(p) * r \in Nat /\ Power(p) * r >= 1
    BY ONLY <1>6, <2>2
  <2> QED BY <2>3 DEF r
<1>9. Power(Len(b.fraction)) = Power(q) * (Power(e.scale - d.scale) * Power(j))
  <2>1. Power(q + e.scale) = Power(q) * Power(e.scale)
    BY <1>2, <1>4, PowersMultiply
  <2> QED BY <1>4, <1>5, <2>1
<1>10. Power(Len(a.fraction)) = Power(p) * (Power(d.scale - e.scale) * Power(j))
  <2>1. Power(p + d.scale) = Power(p) * Power(d.scale)
    BY <1>1, <1>4, PowersMultiply
  <2> QED BY <1>4, <1>5, <2>1
<1>11. (v * Power(p)) * (Power(q) * (Power(e.scale - d.scale) * Power(j)))
         = (v * Power(e.scale - d.scale)) * (Power(p) * (Power(q) * Power(j)))
  BY ONLY <1>3, <1>6, <1>7, Regrouped
<1>12. (w * Power(q)) * (Power(p) * (Power(d.scale - e.scale) * Power(j)))
         = (w * Power(d.scale - e.scale)) * (Power(p) * (Power(q) * Power(j)))
  BY ONLY <1>3, <1>6, <1>7, Regrouped
<1>13. x \in Nat /\ y \in Nat
  BY ONLY <1>3, <1>7
<1>14. Coefficient(a.integer \o a.fraction) * Power(Len(b.fraction)) = x * k
  BY <1>1, <1>9, <1>11
<1>15. Coefficient(b.integer \o b.fraction) * Power(Len(a.fraction)) = y * k
  BY <1>2, <1>10, <1>12
<1> HIDE DEF k
<1>16. \E n \in Nat : /\ n >= 1
                      /\ Coefficient(a.integer \o a.fraction) * Power(Len(b.fraction)) = x * n
                      /\ Coefficient(b.integer \o b.fraction) * Power(Len(a.fraction)) = y * n
  BY <1>8, <1>14, <1>15
<1> QED BY <1>13, <1>16 DEF d, e, v, w

LEMMA TextReadsBack ==
  ASSUME NEW d, Canonical(d)
  PROVE  ParseDecimal(Text(d)) = d
<1> DEFINE s == d.digits
           whole == Len(s) - d.scale
           text == Text(d)
           e == ParseDecimal(text)
<1>1. s \in Digits /\ d.scale \in Nat /\ Len(s) \in Nat
  BY DEF Canonical, Digits
<1>2. /\ text.integer \in Digits /\ text.fraction \in Digits
      /\ Len(text.fraction) = d.scale
      /\ Coefficient(text.integer \o text.fraction) = Coefficient(s)
  <2>1. CASE whole > 0
    <3> DEFINE i == SubSeq(s, 1, whole)
               f == SubSeq(s, whole + 1, Len(s))
    <3>1. text.integer = i /\ text.fraction = f
      BY <2>1 DEF Text
    <3>2. s \in Seq(0..9) /\ \A n \in 1..Len(s) : s[n] \in 0..9
      BY <1>1 DEF Digits
    <3>3. /\ i \in Seq(0..9) /\ Len(i) = whole
          /\ \A n \in 1..whole : i[n] = s[n]
      <4>1. /\ 1 \in Int /\ whole \in Int /\ 1 <= whole /\ whole - 1 + 1 = whole
            /\ \A n \in 1..whole : n \in 1..Len(s) /\ 1 + n - 1 = n
        BY <1>1, <2>1
      <4>2. \A n \in 1..whole : s[n] \in 0..9
        BY <3>2, <4>1
      <4> HIDE DEF whole
      <4>3. /\ i \in Seq(0..9)
            /\ Len(i) = IF 1 <= whole THEN whole - 1 + 1 ELSE 0
            /\ \A n \in 1..(whole - 1 + 1) : i[n] = s[1 + n - 1]
        BY <4>1, <4>2, SubSeqProperties
      <4> HIDE DEF i
      <4> QED BY <4>1, <4>3
    <3>4. /\ f \in Seq(0..9) /\ Len(f) = d.scale
          /\ \A n \in 1..d.scale : f[n] = s[whole + n]
      <4>1. /\ whole + 1 \in Int /\ Len(s) \in Int /\ Len(s) - (whole + 1) + 1 = d.scale
            /\ \A n \in (whole + 1)..Len(s) : n \in 1..Len(s)
            /\ \A n \in 1..d.scale : whole + 1 + n - 1 = whole + n
            /\ (whole + 1 <= Len(s) \/ d.scale = 0)
        <5>1. /\ whole + 1 \in Int /\ Len(s) \in Int /\ Len(s) - (whole + 1) + 1 = d.scale
              /\ (whole + 1 <= Len(s) \/ d.scale = 0)
          BY <1>1
        <5>2. \A n \in (whole + 1)..Len(s) : n \in 1..Len(s)
          BY <1>1, <2>1
        <5>3. \A n \in 1..d.scale : whole + 1 + n - 1 = whole + n
          BY <1>1
        <5> QED BY <5>1, <5>2, <5>3
      <4>2. \A n \in (whole + 1)..Len(s) : s[n] \in 0..9
        BY <3>2, <4>1
      <4> HIDE DEF whole, s
      <4>3. /\ f \in Seq(0..9)
            /\ Len(f) = IF whole + 1 <= Len(s) THEN Len(s) - (whole + 1) + 1 ELSE 0
            /\ \A n \in 1..(Len(s) - (whole + 1) + 1) : f[n] = s[whole + 1 + n - 1]
        BY <4>1, <4>2, SubSeqProperties
      <4> HIDE DEF f
      <4> QED BY <4>1, <4>3
    <3> HIDE DEF i, f
    <3>5. i \o f = s
      <4> DEFINE c == i \o f
      <4>1. /\ c \in Seq(0..9) /\ Len(c) = Len(i) + Len(f)
            /\ \A n \in 1..(Len(i) + Len(f)) : c[n] = IF n <= Len(i) THEN i[n] ELSE f[n - Len(i)]
        <5>1. i \in Seq(0..9) /\ f \in Seq(0..9)
          BY <3>3, <3>4
        <5> QED BY ONLY <5>1, ConcatProperties
      <4> HIDE DEF c
      <4>2. Len(c) = Len(s) /\ Len(i) + Len(f) = Len(s)
        BY <1>1, <3>3, <3>4, <4>1
      <4>3. ASSUME NEW n \in 1..Len(s) PROVE c[n] = s[n]
        <5>1. CASE n <= whole
          <6>1. n \in 1..whole
            BY <5>1
          <6> QED BY <3>3, <4>1, <4>2, <6>1
        <5>2. CASE ~(n <= whole)
          <6>1. n - whole \in 1..d.scale /\ whole + (n - whole) = n
            BY <1>1, <5>2
          <6>2. c[n] = f[n - whole]
            BY <3>3, <4>1, <4>2, <5>2
          <6> QED BY <3>4, <6>1, <6>2
        <5> QED BY <5>1, <5>2
      <4>4. c = s
        BY <3>2, <4>1, <4>2, <4>3
      <4> QED BY <4>4 DEF c
    <3> QED BY <3>1, <3>3, <3>4, <3>5 DEF Digits
  <2>2. CASE ~(whole > 0)
    <3> DEFINE z == Zeros(-whole)
               f == z \o s
    <3>1. text.integer = <<0>> /\ text.fraction = f
      BY <2>2 DEF Text, Zeros
    <3>2. -whole \in Nat /\ (-whole) + Len(s) = d.scale
      BY <1>1, <2>2
    <3> HIDE DEF whole
    <3>3. /\ z \in Digits /\ Len(z) = -whole /\ (-whole) \in 0..Len(z)
          /\ \A n \in 1..(-whole) : z[n] = 0
      BY <3>2 DEF Zeros, Digits
    <3> HIDE DEF z
    <3>4. Coefficient(z) = 0
      BY <3>3, ValuesOfZeros, ValuesStep
    <3>5. f \in Digits /\ Coefficient(f) = Coefficient(z) * Power(Len(s)) + Coefficient(s)
      BY <1>1, <3>3, CoefficientOfBoth
    <3>6. Len(f) = d.scale
      <4>1. z \in Seq(0..9) /\ s \in Seq(0..9)
        BY <1>1, <3>3 DEF Digits
      <4>2. Len(f) = Len(z) + Len(s)
        BY ONLY <4>1
      <4> QED BY <3>2, <3>3, <4>2
    <3> HIDE DEF f
    <3>7. Coefficient(s) \in Nat /\ Power(Len(s)) \in Nat /\ Power(Len(f)) \in Nat
      BY <1>1, <3>6, ValuesStep, PowersOfTen
    <3>8. Coefficient(f) = Coefficient(s)
      BY ONLY <3>4, <3>5, <3>7
    <3>9. Coefficient(<<0>> \o f) = 0 * Power(Len(f)) + Coefficient(f)
      BY <3>5, NothingIsZero, CoefficientOfBoth
    <3>10. Coefficient(<<0>> \o f) = Coefficient(s)
      BY ONLY <3>7, <3>8, <3>9
    <3> QED BY <3>1, <3>5, <3>6, <3>10, NothingIsZero
  <2> QED BY <2>1, <2>2
<1> HIDE DEF text
<1>3. /\ Canonical(e) /\ e.scale <= d.scale
      /\ Coefficient(s) = Coefficient(e.digits) * Power(d.scale - e.scale)
  BY <1>2, ParsedIs
<1> HIDE DEF e
<1>4. e.scale \in Nat
  BY <1>3 DEF Canonical
<1>5. Power(e.scale - d.scale) = 1
  <2>1. e.scale - d.scale \in Int /\ e.scale - d.scale <= 0
    BY <1>1, <1>3, <1>4
  <2> QED BY <2>1, PowerOfDebt
<1>6. Coefficient(s) * 1 = Coefficient(s)
  <2>1. Coefficient(s) \in Nat
    BY <1>1, ValuesStep
  <2> QED BY ONLY <2>1
<1>7. d = e
  BY <1>3, <1>5, <1>6, EqualIsSame
<1> QED BY <1>7 DEF e, text

LEMMA PairIsExact ==
  ASSUME NEW a, a.integer \in Digits, a.fraction \in Digits,
         NEW b, b.integer \in Digits, b.fraction \in Digits
  PROVE  Exact(a, b, Cmp(ParseDecimal(a), ParseDecimal(b)))
<1> DEFINE d == ParseDecimal(a)
           e == ParseDecimal(b)
           x == Coefficient(d.digits) * Power(e.scale - d.scale)
           y == Coefficient(e.digits) * Power(d.scale - e.scale)
           left == Coefficient(a.integer \o a.fraction) * Power(Len(b.fraction))
           right == Coefficient(b.integer \o b.fraction) * Power(Len(a.fraction))
<1>1. Canonical(d) /\ Canonical(e)
  BY ParsedIs
<1>2. x \in Nat /\ y \in Nat /\ \E k \in Nat : k >= 1 /\ left = x * k /\ right = y * k
  BY ScaledSides
<1>3. Cmp(d, e) = x - y
  BY DEF Cmp
<1>4. (x = y) <=> (d = e)
  BY <1>1, EqualIsSame
<1>5. ParseDecimal(Text(d)) = d
  BY <1>1, TextReadsBack
<1>6. /\ (x - y < 0) = (left < right) /\ (x - y > 0) = (left > right)
      /\ (d = e) = (left = right)
  <2> HIDE DEF x, y, left, right, d, e
  <2>1. PICK k \in Nat : k >= 1 /\ left = x * k /\ right = y * k
    BY <1>2
  <2>2. /\ x - y < 0 <=> x * k < y * k
        /\ x - y > 0 <=> x * k > y * k
        /\ x = y <=> x * k = y * k
    BY <1>2, <2>1, ScaledCompare
  <2> QED BY <1>4, <2>1, <2>2
<1> QED BY <1>3, <1>5, <1>6 DEF Exact

\* Comparing decimals compares the numbers that the texts write, equal numbers
\* have one Decimal, and Decimal.String of a Decimal is parsed to the same one,
\* however many digits the texts have.
THEOREM ComparisonsAreExact == Spec => []DecimalsAreExact
<1>1. AnswersInv => DecimalsAreExact
  <2> SUFFICES ASSUME AnswersInv, Asked("decimals") PROVE DecimalsAreExact
    BY DEF DecimalsAreExact
  <2>1. about \in Decimals /\ answer = Cmp(ParseDecimal(about[1]), ParseDecimal(about[2]))
    BY DEF AnswersInv, PairAnswer
  <2>2. /\ about[1].integer \in Digits /\ about[1].fraction \in Digits
        /\ about[2].integer \in Digits /\ about[2].fraction \in Digits
    <3>1. 1 \in 1..2 /\ 2 \in 1..2
      OBVIOUS
    <3> QED BY <2>1, <3>1, DecimalsAssumption DEF Digits
  <2>3. Exact(about[1], about[2], answer)
    BY <2>1, <2>2, PairIsExact
  <2> QED
    BY <2>3 DEF DecimalsAreExact, Exact
<1> QED
  BY <1>1, AnswersHold, PTL
=============================================================================
