---------------------------- MODULE CatalogFacts ----------------------------
(***************************************************************************)
(* What a published paper and the catalog's statistics say, and from which *)
(* rows: persistFieldAssertions of internal/ingestion and buildPaper,      *)
(* buildStats and publishTaxonomies of internal/catalog/publisher.go.      *)
(*                                                                         *)
(* A value is known, unknown or missing.  A text or a list is "full" or    *)
(* "empty", and None where it is not there (JSON null, a nil pointer).     *)
(***************************************************************************)
EXTENDS Integers, Sequences, FiniteSets

CONSTANTS
  Slug,   \* the slug of each topic or method, None for a name that has none
  None

Known(v) == [state |-> "known", value |-> v]
Unknown == [state |-> "unknown", value |-> None]
Missing == [state |-> "missing", value |-> None]

(***************************************************************************)
(* Assertions: what the projection of a record writes, and what the        *)
(* publisher reads.                                                        *)
(***************************************************************************)
\* recordPayload copies a list by appending it to nil.
Copied(list) == IF list = "empty" THEN None ELSE list

\* The assertion a field of a record is stored as.
Asserted(type, content) ==
  CASE type = "text" ->
         [state |-> IF content = "full" THEN "known" ELSE "missing", value |-> content]
    [] type = "pointer" ->
         [state |-> IF content # None THEN "known" ELSE "missing", value |-> content]
    [] type = "list" ->
         [state |-> IF Copied(content) # None THEN "known" ELSE "unknown",
          value |-> Copied(content)]

\* decodeAssertion: a value where the state is known, and only there.
Readable(assertion) == (assertion.state = "known") <=> (assertion.value # None)

\* rows: assertions of one field of a work, by its visible records, in the
\* order asserted_at DESC, id.
NewestRow(rows) ==
  CHOOSE r \in rows : \A s \in rows : s.at < r.at \/ (s.at = r.at /\ r.id <= s.id)

\* Slip: the first row is taken without a look at the others.
UnambiguousIfReadable(rows) == \A r \in rows : Readable(r.assertion)

\* loadAssertions fails on a row it cannot read and on newest rows that differ.
Unambiguous(rows) ==
  \A r \in rows :
    /\ Readable(r.assertion)
    /\ r.at = NewestRow(rows).at => r.assertion = NewestRow(rows).assertion

\* A field nobody asserted has a state of its own: published_at and abstract are
\* missing, paper_type is unknown.
Selected(rows, default) == IF rows = {} THEN default ELSE NewestRow(rows).assertion

\* Slip: without a repository and an assertion there is none.
RelationAbsent(linked, rows) ==
  IF linked THEN Known(TRUE)
  ELSE IF rows = {} THEN Known(FALSE)
  ELSE LET urls == Selected(rows, Unknown)
       IN  IF urls.state = "known" THEN Known(urls.value # "empty") ELSE urls

\* relationValue: has_code, and has_data and has_benchmark with no rows.
Relation(linked, rows) ==
  IF linked THEN Known(TRUE)
  ELSE LET urls == Selected(rows, Unknown)
       IN  IF urls.state = "known" THEN Known(urls.value # "empty") ELSE urls

\* The columns of a paper, or None if the catalog is not ready.
Paper(facts) ==
  IF \/ ~Unambiguous(facts.dates) \/ ~Unambiguous(facts.urls)
     \/ \E id \in facts.topics : Slug[id] = None
  THEN None
  ELSE [published |-> Selected(facts.dates, Missing),
        hasCode |-> Relation(facts.linked, facts.urls),
        topics |-> facts.topics]

(***************************************************************************)
(* Statistics.                                                             *)
(***************************************************************************)
RecentDays == 7

\* Papers of the last seven days, both ends included.
RecentPapers(papers, now) ==
  IF \E w \in DOMAIN papers : papers[w].published.state # "known" THEN Unknown
  ELSE Known(Cardinality({w \in DOMAIN papers :
               papers[w].published.value \in (now - RecentDays)..now}))

\* boolRatio; the quotient is kept as a pair.
CodeRatio(papers) ==
  LET In(state) == {w \in DOMAIN papers : papers[w].hasCode.state = state}
      withCode == {w \in In("known") : papers[w].hasCode.value}
  IN  IF In("known") = DOMAIN papers
        THEN Known(<<Cardinality(withCode), Cardinality(DOMAIN papers)>>)
      ELSE IF In("missing") = DOMAIN papers THEN Missing
      ELSE Unknown

(***************************************************************************)
(* Topics and methods.                                                     *)
(***************************************************************************)
\* mergeTaxonomyFacts: each entry with the papers that name it.
TaxonomyFacts(papers) ==
  {[id |-> id, slug |-> Slug[id], papers |-> {w \in DOMAIN papers : id \in papers[w].topics}] :
     id \in UNION {papers[w].topics : w \in DOMAIN papers}}

\* Slip: an entry is looked for under its own id only.
AmbiguousById(facts) ==
  \E e, f \in facts : e.id = f.id /\ e.slug # f.slug

AmbiguousSlug(facts) ==
  \E e, f \in facts : e.id # f.id /\ e.slug = f.slug

TopicSlugs(paper) == {Slug[id] : id \in paper.topics}

\* publishTaxonomies by count and slug, or None if the catalog is not ready.
Taxonomies(papers) ==
  LET facts == TaxonomyFacts(papers)
  IN  IF AmbiguousSlug(facts) THEN None
      ELSE {[slug |-> f.slug, papers |-> f.papers, count |-> Cardinality(f.papers)] : f \in facts}

\* buildCurrentSnapshot from the facts of the visible works.
Snapshot(works, now) ==
  LET papers == [w \in DOMAIN works |-> Paper(works[w])]
  IN  IF \E w \in DOMAIN works : papers[w] = None THEN None
      ELSE IF Taxonomies(papers) = None THEN None
      ELSE [papers |-> papers, topics |-> Taxonomies(papers),
            recent |-> RecentPapers(papers, now), codeRatio |-> CodeRatio(papers)]
=============================================================================
