----------------------------- MODULE MetricReaders -----------------------------
(***************************************************************************)
(* How the value of a metric is found from the facts by the four readers   *)
(* that evaluate formulas: the scores, the project overview, the quality   *)
(* views and the page operations.  A fact has a status, a value and a      *)
(* sample; an available one always has a sample.                           *)
(***************************************************************************)
EXTENDS Formulas

CONSTANTS System   \* the system metrics: keys to [unit, minimum, status]

\* The references formulas are validated against.
Known(D) == [k \in DOMAIN D \cup DOMAIN System |-> IF k \in DOMAIN D THEN D[k] ELSE System[k]]

\* What each key uses.
Uses(D) == [k \in DOMAIN Known(D) |-> IF k \in DOMAIN D THEN Dependencies(D[k].formula) ELSE {}]

\* lineage(): the metrics a metric is built on.
RECURSIVE Upstream(_, _)
Upstream(D, found) ==
    LET more == UNION {Uses(D)[k] : k \in found \cap DOMAIN Known(D)}
    IN  IF more \subseteq found THEN found ELSE Upstream(D, found \cup more)

-----------------------------------------------------------------------------
\* The readers.  D is the active version and valid, so nothing is missing and no cycle met.

\* deriveImplementationStatus()
Status(D, k) ==
    LET S == {System[j].status : j \in Upstream(D, {k}) \cap DOMAIN System}
    IN  IF "not_collected" \in S THEN "not_collected"
        ELSE IF "partial" \in S THEN "partial" ELSE "implemented"

Enabled(D, k) == k \in DOMAIN D => D[k].enabled

\* A result without enough samples, where one with no sample at all is refused too if least is 1.
Sampled(result, minimum, least) ==
    IF result.status = "available" /\ result.sample < Max({least, minimum})
    THEN Without("insufficient_sample", result.sample) ELSE result

\* resolveFact() of evaluateScore(): the first input that is not available decides.
RECURSIVE ForScore(_, _, _)
ForScore(D, facts, k) ==
    LET uses == SetToSeq(Uses(D)[k])
        inputs == [j \in Uses(D)[k] |-> ForScore(D, facts, j)]
        unmet == SelectInSeq(uses, LAMBDA j : inputs[j].status # "available")
        result ==
            CASE ~Enabled(D, k) -> Without("metric_not_available", NoSample)
              [] Status(D, k) # "implemented" -> Without(Status(D, k), NoSample)
              [] k \in DOMAIN System -> IF k \in DOMAIN facts THEN facts[k] ELSE Without("missing", NoSample)
              [] unmet # 0 -> inputs[uses[unmet]]
              [] OTHER -> Evaluate(D[k].formula, inputs)
    IN  Sampled(result, Known(D)[k].minimum, 1)

\* Mutant: a metric without enough samples keeps its value.
ForOverviewMutant(D, facts, k) ==
    IF k \in DOMAIN D THEN Evaluate(D[k].formula, facts) ELSE facts[k]

\* evaluateOverviewMetrics()
RECURSIVE ForOverview(_, _, _)
ForOverview(D, facts, k) ==
    LET result ==
            CASE ~Enabled(D, k) \/ Status(D, k) = "not_collected" ->
                   Without("metric_not_available", NoSample)
              [] k \in DOMAIN D ->
                   Evaluate(D[k].formula, [j \in Uses(D)[k] |-> ForOverview(D, facts, j)])
              [] k \in DOMAIN facts -> facts[k]
              [] OTHER -> Without("metric_not_available", NoSample)
    IN  Sampled(result, Known(D)[k].minimum, 0)

\* bindQualityFacts() and bindPageUsage()
RECURSIVE ForPages(_, _, _)
ForPages(D, facts, k) ==
    LET result ==
            CASE ~Enabled(D, k) -> Without("metric_not_available", NoSample)
              [] k \in DOMAIN D ->
                   Evaluate(D[k].formula, [j \in Uses(D)[k] |-> ForPages(D, facts, j)])
              [] k \in DOMAIN facts -> facts[k]
              [] OTHER -> Without("metric_not_available", NoSample)
    IN  Sampled(result, Known(D)[k].minimum, 0)
=============================================================================
