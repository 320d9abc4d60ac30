--------------------------- MODULE ResearchRules ---------------------------
(***************************************************************************)
(* The verdict on a research opportunity, internal/researchmap/            *)
(* opportunity.go, and the ranking signals, internal/ranking/formula.go.   *)
(*                                                                         *)
(* The decimals of opportunities are integers in units of 1 / One, those   *)
(* of a signal in units of 1 / Unit (in the code 10^-18); times are        *)
(* naturals, 0 being the zero time.                                        *)
(***************************************************************************)
EXTENDS Integers, FiniteSets

CONSTANTS One, Unit, Day, Nil

ASSUME RulesAssumption == One \in Nat \ {0} /\ Unit \in Nat \ {0} /\ Day \in Nat \ {0}

(***************************************************************************)
(* Opportunities.                                                          *)
(***************************************************************************)
Signals == {"evidence_paper_ids", "growth_window", "growth_score", "competition_density",
            "data_availability", "reproducibility", "confidence"}

\* Thresholds, of a policy's two conclusive regions.
Thresholds == [growth : Int, competition : Int, data : Int, reproducibility : Int,
               confidence : Int]

InUnitInterval(v) == 0 <= v /\ v <= One

Normalized(t) ==
  /\ InUnitInterval(t.competition) /\ InUnitInterval(t.data)
  /\ InUnitInterval(t.reproducibility) /\ InUnitInterval(t.confidence)

\* Slip: regions may touch.
RegionsTouch(worth, against) ==
  \/ worth.growth >= against.growth
  \/ worth.competition <= against.competition
  \/ worth.data >= against.data
  \/ worth.reproducibility >= against.reproducibility

\* conclusiveRegionsSeparated: by at least one of the four scores.
Separated(worth, against) ==
  \/ worth.growth > against.growth
  \/ worth.competition < against.competition
  \/ worth.data > against.data
  \/ worth.reproducibility > against.reproducibility

\* Policy.Validate.
ValidPolicy(policy) ==
  /\ InUnitInterval(policy.coverage)
  /\ policy.required = Signals
  /\ Normalized(policy.worth) /\ Normalized(policy.against)
  /\ Separated(policy.worth, policy.against)

\* validateAssessment; a window is needed unless it is declared missing.
ValidAssessment(input) ==
  /\ InUnitInterval(input.coverage) /\ Normalized(input.scores)
  /\ input.missing \subseteq Signals
  /\ "growth_window" \in input.missing
     \/ (0 < input.window.from /\ input.window.from < input.window.to)

MissingSignals(input) ==
  input.missing \cup (IF input.evidence = {} THEN {"evidence_paper_ids"} ELSE {})

MeetsWorthPursuing(s, t) ==
  /\ s.growth >= t.growth
  /\ s.competition <= t.competition
  /\ s.data >= t.data
  /\ s.reproducibility >= t.reproducibility
  /\ s.confidence >= t.confidence

MeetsNotRecommendedNow(s, t) ==
  /\ s.growth <= t.growth
  /\ s.competition >= t.competition
  /\ s.data <= t.data
  /\ s.reproducibility <= t.reproducibility
  /\ s.confidence >= t.confidence

Insufficient(input, policy) ==
  input.coverage < policy.coverage \/ MissingSignals(input) \cap policy.required # {}

\* Evaluate: the status, or Nil for an error.
Verdict(input, policy) ==
  IF ~ValidPolicy(policy) \/ ~ValidAssessment(input) THEN Nil
  ELSE IF Insufficient(input, policy) THEN "insufficient_evidence"
  ELSE IF MeetsWorthPursuing(input.scores, policy.worth) THEN "worth_pursuing"
  ELSE IF MeetsNotRecommendedNow(input.scores, policy.against) THEN "not_recommended_now"
  ELSE "proceed_with_caution"

(***************************************************************************)
(* Ranking signals: Value(v), or the error that comes first.               *)
(***************************************************************************)
Value(v) == [error |-> Nil, value |-> v]
Error(kind) == [error |-> kind, value |-> 0]

Magnitude(n) == IF n < 0 THEN -n ELSE n

\* decimal.DivRound for b > 0: to the nearest unit, halves away from zero.
DivRound(a, b) ==
  LET rounded == (2 * Magnitude(a) * Unit + b) \div (2 * b)
  IN  IF a < 0 THEN -rounded ELSE rounded

\* A snapshot is Nil or a value at a time.
Unobserved(start, end) == start = Nil \/ end = Nil \/ start.at = 0 \/ end.at = 0

CitationVelocity(start, end) ==
  IF Unobserved(start, end) THEN Error("missing")
  ELSE IF end.at < start.at THEN Error("time_reversed")
  ELSE IF end.at = start.at THEN Error("zero_denominator")
  ELSE IF start.value < 0 \/ end.value < 0 THEN Error("invalid_metric")
  ELSE Value(DivRound((end.value - start.value) * Day, end.at - start.at))

CodeGrowth(start, end) ==
  IF Unobserved(start, end) THEN Error("missing")
  ELSE IF end.at < start.at THEN Error("time_reversed")
  ELSE IF end.at = start.at THEN Error("window_mismatch")
  ELSE IF start.value < 0 \/ end.value < 0 THEN Error("invalid_metric")
  ELSE IF start.value = 0 THEN Error("zero_denominator")
  ELSE Value(DivRound(end.value - start.value, start.value))

\* A window is Nil or has its bounds and counts.
Unbounded(baseline, current) ==
  \/ baseline = Nil \/ current = Nil
  \/ 0 \in {baseline.from, baseline.to, current.from, current.to}

\* validateComparableWindows: one after the other and of one length; else the
\* error, and Nil if there is none.
WindowError(baseline, current) ==
  IF baseline.to < baseline.from \/ current.to < current.from THEN "time_reversed"
  ELSE IF baseline.to = baseline.from \/ current.to = current.from THEN "zero_denominator"
  ELSE IF current.from < baseline.from THEN "time_reversed"
  ELSE IF current.from < baseline.to \/ baseline.to - baseline.from # current.to - current.from
    THEN "window_mismatch"
  ELSE Nil

TopicGrowth(baseline, current) ==
  IF Unbounded(baseline, current) THEN Error("missing")
  ELSE IF WindowError(baseline, current) # Nil THEN Error(WindowError(baseline, current))
  ELSE IF baseline.count < 0 \/ current.count < 0 THEN Error("invalid_metric")
  ELSE IF baseline.count = 0 THEN Error("zero_denominator")
  ELSE Value(DivRound(current.count - baseline.count, baseline.count))

\* Slip: more may adopt a method than there are.
ValidAdoptionUncapped(w) == w.count >= 0 /\ w.total >= 0

\* validateAdoptionWindow.
ValidAdoption(w) == w.count >= 0 /\ w.total >= 0 /\ w.count <= w.total

MethodAdoption(baseline, current) ==
  IF Unbounded(baseline, current) THEN Error("missing")
  ELSE IF WindowError(baseline, current) # Nil THEN Error(WindowError(baseline, current))
  ELSE IF baseline.total = 0 \/ current.total = 0 THEN Error("zero_denominator")
  ELSE IF ~ValidAdoption(baseline) \/ ~ValidAdoption(current) THEN Error("invalid_metric")
  ELSE Value(DivRound(current.count * baseline.total - baseline.count * current.total,
                      current.total * baseline.total))

\* CitationPercentile in a cohort of other papers, each there once.
CitationPercentile(target, cohort) ==
  IF target < 0 \/ \E p \in DOMAIN cohort : cohort[p] < 0 THEN Error("invalid_metric")
  ELSE IF DOMAIN cohort = {} THEN Error("missing")
  ELSE Value(DivRound(100 * Cardinality({p \in DOMAIN cohort : cohort[p] <= target}),
                      Cardinality(DOMAIN cohort)))
=============================================================================
