--------------------------- MODULE ScoreEvaluation ---------------------------
(***************************************************************************)
(* A score (score-evaluation.ts): the check of its configuration against   *)
(* the metrics of a version, and its value while facts come and change.    *)
(* Weights are parts of Whole, so nothing is rounded: whether a coverage   *)
(* that equals its limit passes is exact here, the code allows for one     *)
(* rounding error.  The cross-day metric, which is not available in a      *)
(* range of one day, and the texts are left out.                           *)
(***************************************************************************)
EXTENDS MetricReaders

CONSTANTS
    Cases,            \* what may be scored: sets of <<metrics, configuration>>
    Facts,            \* what may be measured of a metric
    Whole,            \* the weight of everything: 1 in the code
    NoTarget

VARIABLES
    metrics,         \* business metrics of the version: keys to definitions
    configuration,   \* [dimensions, gate, owner]: see Parses
    facts,           \* system metrics to facts, of the context of the query unless elsewhere
    elsewhere,       \* system metrics whose facts belong to another context
    pipeline,        \* the state of the collection
    inForce          \* confirmed, and the range lies after the activation

vars == <<metrics, configuration, facts, elsewhere, pipeline, inForce>>

Dims(c) == DOMAIN c.dimensions
Leaves(c, d) == DOMAIN c.dimensions[d].leaves
Leaf(c, l) == c.dimensions[l[1]].leaves[l[2]]
Tips(c) == UNION {{d} \X Leaves(c, d) : d \in Dims(c)}

\* normalization()
Normalized(leaf) == Normalize(leaf.direction, Metric(leaf.metric), leaf.target)

\* parseScoreConfiguration(), as far as numbers go.
SumOf(s) == FoldLeft(+, 0, s)
Parses(c) ==
    /\ Len(c.dimensions) \in 3 .. 6
    /\ SumOf([d \in Dims(c) |-> c.dimensions[d].weight]) = Whole
    /\ \A d \in Dims(c) :
         /\ c.dimensions[d].weight > 0 /\ c.dimensions[d].leaves # <<>>
         /\ SumOf([i \in Leaves(c, d) |-> c.dimensions[d].leaves[i].weight]) = Whole
         /\ \A i \in Leaves(c, d) :
              LET leaf == c.dimensions[d].leaves[i]
              IN  leaf.weight > 0 /\ leaf.minimum >= 1
                  /\ IF leaf.target = NoTarget THEN TRUE ELSE Target(leaf.direction, leaf.target)
    /\ c.gate.dimensions \in 3 .. Len(c.dimensions)

-----------------------------------------------------------------------------
\* validateScoreConfiguration(): metrics are replaced by their formulas, and nodes, depth, inputs
\* and cycles are looked at on the way.

Refused(acc) == [acc EXCEPT !.ok = FALSE]

\* Mutant: a metric that is replaced counts beside the formula it is replaced by.
CountedMutant(f, replaced) == 1

Counted(f, replaced) == IF replaced THEN 0 ELSE 1

RECURSIVE Expand(_, _, _, _, _)
Expand(M, f, depth, visiting, acc) ==
    LET replaced == f.type = "metric" /\ f.key \in DOMAIN M
        counted == [acc EXCEPT !.nodes = @ + Counted(f, replaced)]
        used == [counted EXCEPT !.used = @ \cup {f.key}]
        part(a, p) ==
            LET e == Expand(M, p, depth + 1, visiting, a) IN [e EXCEPT !.parts = Append(a.parts, e.tree)]
        whole == FoldLeft(part, [counted EXCEPT !.parts = <<>>], f.parts)
    IN  CASE ~acc.ok \/ depth > MaximumDepth \/ counted.nodes > MaximumNodes -> Refused(acc)
          [] f.type # "metric" ->
               [whole EXCEPT !.tree = [f EXCEPT !.parts = whole.parts], !.parts = acc.parts]
          [] \/ f.key \notin DOMAIN Known(M) \/ f.key \in visiting
             \/ f.key \notin acc.used /\ Cardinality(acc.used) >= MaximumInputs -> Refused(acc)
          [] replaced -> Expand(M, M[f.key].formula, depth, visiting \cup {f.key}, used)
          [] OTHER -> [used EXCEPT !.tree = f]

Start(c) == [ok |-> TRUE, nodes |-> 1 + Len(c.dimensions), used |-> {}, tree |-> Node, parts |-> <<>>]

\* The leaves of dimension d one after the other, and the tree of the dimension.
Dimension(M, c, a, d) ==
    LET root(leaf) == IF leaf.target = NoTarget THEN Metric(leaf.metric) ELSE Normalized(leaf)
        next(b, leaf) ==
            LET e == Expand(M, root(leaf), 3, {}, b) IN [e EXCEPT !.parts = Append(b.parts, e.tree)]
        done == FoldLeft(next, [a EXCEPT !.parts = <<>>], c.dimensions[d].leaves)
        weights == [i \in Leaves(c, d) |-> c.dimensions[d].leaves[i].weight]
    IN  [done EXCEPT !.tree = WeightedMean(done.parts, weights)]
Expanded(M, c) ==
    LET next(a, d) ==
            LET e == Dimension(M, c, a, d) IN [e EXCEPT !.parts = Append(a.parts, e.tree)]
        done == FoldLeftDomain(next, Start(c), c.dimensions)
    IN  [done EXCEPT !.tree = WeightedMean(done.parts, [d \in Dims(c) |-> c.dimensions[d].weight])]

Validates(M, c) ==
    \E expanded \in {Expanded(M, c)}, known \in {Known(M)} :
        /\ Parses(c) /\ expanded.ok /\ Parsed(expanded.tree)
        /\ \A l \in Tips(c) : Leaf(c, l).minimum >= known[Leaf(c, l).metric].minimum
        /\ \A k \in expanded.used \cap DOMAIN M :
             Validated(M[k].formula, M[k].unit, M[k].minimum, known)

\* What keeps a configuration from being confirmed.
Remarks(M, c) ==
    (IF c.owner THEN {} ELSE {"SCORE_OWNER_MISSING"})
    \cup {"SCORE_TARGET_REQUIRED" : l \in {t \in Tips(c) : Leaf(c, t).enabled /\ Leaf(c, t).target = NoTarget}}
    \cup {"METRIC" : k \in {j \in Expanded(M, c).used : ~Enabled(M, j) \/ Status(M, j) # "implemented"}}

-----------------------------------------------------------------------------
\* evaluateScore()

Mismatch(M, c, strange) == Upstream(M, Expanded(M, c).used) \cap strange # {}

\* The status of a leaf, before its value is put on the scale.
LeafStatus(M, fact, mismatch, state, leaf) ==
    CASE mismatch -> "context_mismatch"
      [] ~leaf.enabled \/ ~Enabled(M, leaf.metric) -> "metric_not_available"
      [] Status(M, leaf.metric) # "implemented" -> Status(M, leaf.metric)
      [] state # "healthy" -> state
      [] leaf.target = NoTarget -> "missing_target"
      [] fact.status = "available" /\ fact.sample < leaf.minimum -> "insufficient_sample"
      [] OTHER -> fact.status

\* Null, or the value of the leaf between 0 and 100.
LeafScore(M, fact, mismatch, state, leaf) ==
    IF LeafStatus(M, fact, mismatch, state, leaf) # "available" THEN Null
    ELSE Evaluate(Normalized(leaf), [k \in {leaf.metric} |-> fact]).value

\* Mutant: what is missing counts as zero.
MeanMutant(values, weights) ==
    Evaluate(WeightedMean([i \in DOMAIN values |-> Literal(IF values[i] = Null THEN 0 ELSE values[i][1] \div values[i][2])],
                          weights), [k \in {} |-> Null]).value

\* weightedMean() of those that have a value.
Mean(values, weights) ==
    LET having == {i \in DOMAIN values : values[i] # Null}
        sum == FoldLeftDomain(LAMBDA s, i : IF i \in having THEN Plus(s, Scaled(values[i], weights[i])) ELSE s,
                              <<0, 1>>, values)
        weight == FoldLeftDomain(LAMBDA s, i : IF i \in having THEN s + weights[i] ELSE s, 0, values)
    IN  IF having = {} THEN Null ELSE Over(sum, <<weight, 1>>)

\* The configured weight of a set of leaves, in parts of Whole * Whole.
Total(c, S) == MapThenSumSet(LAMBDA l : c.dimensions[l[1]].weight * Leaf(c, l).weight, S)

\* scoreColor()
Color(value, bands) ==
    IF value = Null THEN "gray"
    ELSE IF AtMost(<<bands.green, 1>>, value) THEN "green"
    ELSE IF AtMost(<<bands.yellow, 1>>, value) THEN "yellow" ELSE "red"

\* Null, or the score of each leaf.
Scores(M, c, F, mismatch, state) ==
    LET score(leaf) == LeafScore(M, ForScore(M, F, leaf.metric), mismatch, state, leaf)
    IN  [l \in Tips(c) |-> score(Leaf(c, l))]

\* The gates: why there is no score.
Reasons(c, score, dimension, mismatch, state, valid) ==
    LET enabled == {l \in Tips(c) : Leaf(c, l).enabled}
        covered == {l \in enabled : score[l] # Null}
    IN  (IF valid /\ c.owner THEN {} ELSE {"MISSING_CONFIGURATION or VERSION_RANGE_BOUNDARY"})
        \cup (IF state = "healthy" THEN {} ELSE {state})
        \cup (IF mismatch THEN {"SCORE_CONTEXT_MISMATCH"} ELSE {})
        \cup (IF Cardinality({d \in Dims(c) : dimension[d] # Null}) < c.gate.dimensions
              THEN {"ELIGIBLE_DIMENSIONS_BELOW_GATE"} ELSE {})
        \cup (IF enabled = {} \/ Total(c, covered) * c.gate.coverage[2] < Total(c, enabled) * c.gate.coverage[1]
              THEN {"LEAF_WEIGHT_COVERAGE_BELOW_GATE"} ELSE {})

\* The weight every leaf has in a value, among those that have a score.
Effective(c, score, dimension, value) ==
    LET all == SumOf([d \in Dims(c) |-> IF dimension[d] # Null THEN c.dimensions[d].weight ELSE 0])
        leaf(d, i) == IF score[<<d, i>>] # Null THEN c.dimensions[d].leaves[i].weight ELSE 0
        within(d) == SumOf([i \in Leaves(c, d) |-> leaf(d, i)])
    IN  [l \in Tips(c) |->
           IF value = Null \/ score[l] = Null THEN <<0, 1>>
           ELSE Ratio(c.dimensions[l[1]].weight * Leaf(c, l).weight, all * within(l[1]))]

Shown(c, score, dimension, reasons, value) ==
    [value |-> value, reasons |-> reasons, score |-> score,
     effective |-> Effective(c, score, dimension, value), color |-> Color(value, c.bands)]

\* evaluateScore()
Evaluation(M, c, F, mismatch, state, valid) ==
    LET mean(score, d) == Mean([i \in Leaves(c, d) |-> score[<<d, i>>]],
                               [i \in Leaves(c, d) |-> c.dimensions[d].leaves[i].weight])
        overall(dimension) == Mean(dimension, [d \in Dims(c) |-> c.dimensions[d].weight])
        gated(score, dimension, reasons) ==
            Shown(c, score, dimension, reasons, IF reasons = {} THEN overall(dimension) ELSE Null)
        weighed(score, dimension) ==
            gated(score, dimension, Reasons(c, score, dimension, mismatch, state, valid))
        of(score) == weighed(score, [d \in Dims(c) |-> mean(score, d)])
    IN  of(Scores(M, c, F, mismatch, state))

Result(F) ==
    Evaluation(metrics, configuration, F, Mismatch(metrics, configuration, elsewhere), pipeline, inForce)

-----------------------------------------------------------------------------
Init ==
    /\ \E c \in Cases : metrics = c[1] /\ configuration = c[2]
    /\ facts = [k \in {} |-> Null] /\ elsewhere = {}
    /\ pipeline = "no_data" /\ inForce = FALSE

\* A fact is read, for the first time or again.
Again(k, f) == [j \in DOMAIN facts \cup {k} |-> IF j = k THEN f ELSE facts[j]]
Measure ==
    \E k \in DOMAIN System, f \in Facts :
        /\ facts' = Again(k, f)
        /\ UNCHANGED <<metrics, configuration, elsewhere, pipeline, inForce>>

\* The query asks for another context than the facts have, or for theirs.
Turn ==
    \E k \in DOMAIN facts :
        /\ inForce
        /\ elsewhere' = IF elsewhere = {} THEN {k} ELSE {}
        /\ UNCHANGED <<metrics, configuration, facts, pipeline, inForce>>

Collect ==
    /\ pipeline' = IF pipeline = "healthy" THEN "delayed" ELSE "healthy"
    /\ UNCHANGED <<metrics, configuration, facts, elsewhere, inForce>>

Confirm ==
    /\ ~inForce /\ Validates(metrics, configuration) /\ Remarks(metrics, configuration) = {}
    /\ inForce' = TRUE
    /\ UNCHANGED <<metrics, configuration, facts, elsewhere, pipeline>>

Next == Measure \/ Turn \/ Collect \/ Confirm

-----------------------------------------------------------------------------
TypeOK ==
    /\ <<metrics, configuration>> \in Cases
    /\ DOMAIN facts \subseteq DOMAIN System /\ \A k \in DOMAIN facts : facts[k] \in Facts
    /\ elsewhere \subseteq DOMAIN facts
    /\ pipeline \in {"healthy", "delayed", "no_data"} /\ inForce \in BOOLEAN

\* The contributions of the leaves that have a score add up to the score, their weights to the
\* whole: what is missing is neither zero nor lost (evaluateScore).
Decomposes(result) ==
    LET parts == SetToSeq(DOMAIN result.score)
        sum == FoldLeft(LAMBDA s, l : IF result.score[l] = Null THEN s
                                      ELSE Plus(s, Times(result.score[l], result.effective[l])), <<0, 1>>, parts)
        weight == FoldLeft(LAMBDA s, l : Plus(s, result.effective[l]), <<0, 1>>, parts)
    IN  result.value # Null =>
          /\ sum = result.value /\ weight = <<1, 1>>
          /\ \E l, m \in DOMAIN result.score :
               /\ result.score[l] # Null /\ result.score[m] # Null
               /\ AtMost(result.score[l], result.value) /\ AtMost(result.value, result.score[m])

\* The results for the facts there are and for those there are when one more is read.
Results == [F \in {facts} \cup {Again(k, f) : k \in DOMAIN System, f \in Facts} |-> Result(F)]

\* A fact that was missing and arrives does not make a score unavailable (evaluateScore).
MoreIsNoLoss(results) ==
    results[facts].value # Null => \A k \in DOMAIN System \ elsewhere, f \in Facts :
        (k \in DOMAIN facts => ForScore(metrics, facts, k).status # "available")
            => results[Again(k, f)].value # Null

\* A better fact does not lower a score, if the metric is used by leaves only (evaluateScore,
\* normalize).
Directions(k) == {Leaf(configuration, l).direction : l \in {t \in Tips(configuration) : Leaf(configuration, t).metric = k}}
BetterIsNotWorse(results) ==
    \A k \in DOMAIN facts, f \in Facts :
        LET better ==
              /\ results[facts].value # Null
              /\ Upstream(metrics, DOMAIN metrics) \cap {k} = {} /\ Directions(k) = {"higher_better"}
              /\ facts[k].status = "available" /\ f.status = "available" /\ f.sample >= facts[k].sample
              /\ AtMost(facts[k].value, f.value)
        IN  better => \A before \in {results[facts]}, after \in {results[Again(k, f)]} :
                        after.value # Null /\ AtMost(before.value, after.value)

\* A configuration that could be confirmed is scored once every fact it rests on is there, has
\* enough samples and no formula divides by zero, unless too few dimensions have an enabled leaf
\* (validateScoreConfiguration, evaluateScore).
ReadyIsScored(result) ==
    LET open == {d \in Dims(configuration) :
                   \E i \in Leaves(configuration, d) : configuration.dimensions[d].leaves[i].enabled}
        ready(reading) ==
          /\ inForce /\ pipeline = "healthy" /\ elsewhere = {}
          /\ Cardinality(open) >= configuration.gate.dimensions
          /\ \A k \in DOMAIN reading : reading[k].status = "available"
          /\ \A l \in Tips(configuration) :
               reading[Leaf(configuration, l).metric].sample >= Leaf(configuration, l).minimum
        used == Expanded(metrics, configuration).used
    IN  result.value = Null => ~ready([k \in used |-> ForScore(metrics, facts, k)])

\* The limits kept while metrics are replaced are those of the whole tree: a configuration is not
\* refused for a tree that would be within them, nor is a larger one accepted
\* (validateScoreConfiguration, parseFormulaAst).  It is looked at before anything is read.
RECURSIVE Inlined(_, _)
Inlined(M, f) ==
    IF f.type = "metric" /\ f.key \in DOMAIN M THEN Inlined(M, M[f.key].formula)
    ELSE [f EXCEPT !.parts = [i \in DOMAIN f.parts |-> Inlined(M, f.parts[i])]]
BoundsAgree ==
    LET c == configuration
        root(leaf) == IF leaf.target = NoTarget THEN Metric(leaf.metric) ELSE Normalized(leaf)
        tree == WeightedMean([d \in Dims(c) |->
                    WeightedMean([i \in Leaves(c, d) |-> Inlined(metrics, root(c.dimensions[d].leaves[i]))],
                                 [i \in Leaves(c, d) |-> c.dimensions[d].leaves[i].weight])],
                    [d \in Dims(c) |-> c.dimensions[d].weight])
        used == Upstream(metrics, {Leaf(c, l).metric : l \in Tips(c)})
    IN  DOMAIN facts = {} =>
          (Expanded(metrics, c).ok <=> Parsed(tree) /\ Cardinality(used) <= MaximumInputs)

AllSound(results) ==
    /\ \A result \in {results[facts]} : Decomposes(result) /\ ReadyIsScored(result)
    /\ MoreIsNoLoss(results) /\ BetterIsNotWorse(results)
ScoreSound == AllSound(Results) /\ BoundsAgree
=============================================================================
