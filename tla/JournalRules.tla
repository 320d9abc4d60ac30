---------------------------- MODULE JournalRules ----------------------------
(***************************************************************************)
(* How journals are judged: Decimal of internal/venue/jcr_import.go and    *)
(* JournalPolicy of policy.go.                                             *)
(***************************************************************************)
EXTENDS Integers, Sequences, FiniteSets, SequencesExt

CONSTANT NoJif

(***************************************************************************)
(* Decimals.  A text that matches decimalPattern is the digits before and  *)
(* after its point.                                                        *)
(***************************************************************************)
TrimLeft(digits) ==
  LET kept == {i \in DOMAIN digits : digits[i] # 0}
  IN  IF kept = {} THEN <<>> ELSE SubSeq(digits, Min(kept), Len(digits))

TrimRight(digits) == Reverse(TrimLeft(Reverse(digits)))

\* Slip: zeros at the end are kept.
ParseKeepingZeros(text) ==
  LET integer == IF TrimLeft(text.integer) = <<>> THEN <<0>> ELSE TrimLeft(text.integer)
      digits == TrimLeft(integer \o text.fraction)
  IN  IF text.fraction = <<>> THEN [digits |-> integer, scale |-> 0]
      ELSE IF digits = <<>> THEN [digits |-> <<0>>, scale |-> 0]
      ELSE [digits |-> digits, scale |-> Len(text.fraction)]

ParseDecimal(text) ==
  LET integer == IF TrimLeft(text.integer) = <<>> THEN <<0>> ELSE TrimLeft(text.integer)
      fraction == TrimRight(text.fraction)
  IN  IF fraction = <<>> THEN [digits |-> integer, scale |-> 0]
      ELSE [digits |-> TrimLeft(integer \o fraction), scale |-> Len(fraction)]

\* Decimal.String.
Text(d) ==
  LET whole == Len(d.digits) - d.scale
  IN  IF whole > 0
        THEN [integer |-> SubSeq(d.digits, 1, whole),
              fraction |-> SubSeq(d.digits, whole + 1, Len(d.digits))]
        ELSE [integer |-> <<0>>, fraction |-> [i \in 1..(-whole) |-> 0] \o d.digits]

Coefficient(digits) ==
  LET value[n \in 0..Len(digits)] == IF n = 0 THEN 0 ELSE 10 * value[n - 1] + digits[n]
  IN  value[Len(digits)]

\* Ten to the exponent, 1 where that is negative.
Power(exponent) ==
  LET power[n \in 0..exponent] == IF n = 0 THEN 1 ELSE 10 * power[n - 1]
  IN  IF exponent > 0 THEN power[exponent] ELSE 1

\* Decimal.Cmp: negative, zero or positive.
Cmp(d, e) ==
  Coefficient(d.digits) * Power(e.scale - d.scale)
    - Coefficient(e.digits) * Power(d.scale - e.scale)

(***************************************************************************)
(* The journal policy: a JIF of at least ten or a first quartile in any    *)
(* category of the year.                                                   *)
(***************************************************************************)
Threshold == ParseDecimal([integer |-> <<1, 0>>, fraction |-> <<>>])

MatchedRules(metrics) ==
  LET known == {i \in DOMAIN metrics : metrics[i].status = "known"}
  IN  (IF \E i \in known : Cmp(metrics[i].jif, Threshold) >= 0 THEN {"jif_gte_10"} ELSE {})
      \cup (IF \E i \in known : metrics[i].quartile = "Q1" THEN {"jcr_q1"} ELSE {})

\* Slip: a journal without rows of the year is rejected.
HasUnknownRow(metrics) ==
  \E i \in DOMAIN metrics : metrics[i].status = "unknown"

HasUnknown(metrics) ==
  metrics = <<>> \/ \E i \in DOMAIN metrics : metrics[i].status = "unknown"

\* JournalPolicy.Evaluate of a venue and its metrics of one year.
Decision(venueType, metrics) ==
  IF venueType # "journal" THEN "not_applicable"
  ELSE IF MatchedRules(metrics) # {} THEN "accepted"
  ELSE IF HasUnknown(metrics) THEN "unknown"
  ELSE "rejected"
=============================================================================
