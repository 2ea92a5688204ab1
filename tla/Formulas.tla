------------------------------- MODULE Formulas -------------------------------
(***************************************************************************)
(* Formulas of metrics (formula.ts): what is accepted, the unit and the    *)
(* sample a formula needs, its value, and the order of a set of formulas.  *)
(* Numbers are fractions, so nothing is rounded.  The reasons and paths of *)
(* errors are left out, so are the scopes and granularities of metrics,    *)
(* which every metric here shares.                                         *)
(***************************************************************************)
EXTENDS Integers, SequencesExt, FiniteSetsExt, Functions

CONSTANTS MaximumInputs, MaximumDepth, MaximumNodes   \* FORMULA_LIMITS

-----------------------------------------------------------------------------
\* Fractions <<n, d>> in lowest terms; <<0, 0>> stands for null.

Null == <<0, 0>>

RECURSIVE Divisor(_, _)
Divisor(a, b) == IF b = 0 THEN a ELSE Divisor(b, a % b)

Absolute(n) == IF n < 0 THEN -n ELSE n
Ratio(n, d) ==
    LET s == IF d < 0 THEN -1 ELSE 1
        g == Divisor(Absolute(n), Absolute(d))
    IN  <<(s * n) \div g, (s * d) \div g>>

Plus(p, q) == Ratio(p[1] * q[2] + q[1] * p[2], p[2] * q[2])
Minus(p, q) == Plus(p, <<-q[1], q[2]>>)
Times(p, q) == Ratio(p[1] * q[1], p[2] * q[2])
Over(p, q) == Ratio(p[1] * q[2], p[2] * q[1])
AtMost(p, q) == p[1] * q[2] <= q[1] * p[2]
Lower(p, q) == IF AtMost(p, q) THEN p ELSE q
Higher(p, q) == IF AtMost(p, q) THEN q ELSE p
Scaled(p, n) == Ratio(p[1] * n, p[2])

-----------------------------------------------------------------------------
\* FormulaAst

Node == [type |-> "literal", key |-> "", value |-> 0, operator |-> "", parts |-> <<>>,
         weights |-> <<>>, target |-> <<>>]
Metric(k) == [Node EXCEPT !.type = "metric", !.key = k]
Literal(n) == [Node EXCEPT !.value = n]
Binary(o, l, r) == [Node EXCEPT !.type = "binary", !.operator = o, !.parts = <<l, r>>]
Call(f, arguments) == [Node EXCEPT !.type = "call", !.operator = f, !.parts = arguments]
WeightedMean(values, weights) ==
    [Node EXCEPT !.type = "weighted_mean", !.parts = values, !.weights = weights]
Normalize(direction, input, target) ==
    [Node EXCEPT !.type = "normalize", !.operator = direction, !.parts = <<input>>, !.target = target]

RECURSIVE Nodes(_), Depth(_), WellFormed(_), Dependencies(_), UnitOf(_, _)

Nodes(f) == FoldLeft(LAMBDA n, p : n + Nodes(p), 1, f.parts)
Depth(f) == 1 + Max({0} \cup {Depth(p) : p \in Range(f.parts)})

\* validateNormalizeTarget(): <<floor, target>>, <<target, ceiling>>, or <<toleranceMin, targetMin,
\* targetMax, toleranceMax>>.
Target(direction, t) ==
    IF direction = "target_range"
    THEN Len(t) = 4 /\ t[1] < t[2] /\ t[2] <= t[3] /\ t[3] < t[4]
    ELSE Len(t) = 2 /\ t[1] < t[2]

WellFormed(f) ==
    /\ CASE f.type = "call" -> IF f.operator = "clamp" THEN Len(f.parts) = 3 ELSE Len(f.parts) >= 2
         [] f.type = "weighted_mean" -> f.parts # <<>> /\ \A w \in Range(f.weights) : w > 0
         [] f.type = "normalize" -> Target(f.operator, f.target)
         [] OTHER -> TRUE
    /\ \A p \in Range(f.parts) : WellFormed(p)

\* parseFormulaAst()
Parsed(f) == WellFormed(f) /\ Nodes(f) <= MaximumNodes /\ Depth(f) <= MaximumDepth

\* collectFormulaDependencies()
Dependencies(f) ==
    IF f.type = "metric" THEN {f.key} ELSE UNION {Dependencies(p) : p \in Range(f.parts)}

\* APPROVED_DIVISION_UNITS, as far as the metrics here go.
Approved == {<<"milliseconds", "users", "milliseconds_per_user">>, <<"errors", "views", "ratio">>}

\* The unit of l / r, "" if there is none.
Divided(l, r) ==
    IF r = "scalar" THEN l
    ELSE IF l = r THEN "ratio"
    ELSE IF \E a \in Approved : a[1] = l /\ a[2] = r
         THEN (CHOOSE a \in Approved : a[1] = l /\ a[2] = r)[3] ELSE ""

\* Mutant: a factor with a unit is taken for a plain number.
MultipliedMutant(l, r) == IF l = "scalar" THEN r ELSE l

Multiplied(l, r) == IF l = "scalar" THEN r ELSE IF r = "scalar" THEN l ELSE ""

\* inspectFormulaAst(): the unit inferred from the metrics M, "" for a formula it refuses.
UnitOf(f, M) ==
    LET units == [i \in DOMAIN f.parts |-> UnitOf(f.parts[i], M)]
        same == IF \A i \in DOMAIN units : units[i] = units[1] THEN units[1] ELSE ""
    IN  CASE f.type = "literal" -> "scalar"
          [] f.type = "metric" -> IF f.key \in DOMAIN M THEN M[f.key].unit ELSE ""
          [] "" \in Range(units) -> ""
          [] f.type = "normalize" -> "score"
          [] f.operator = "*" -> Multiplied(units[1], units[2])
          [] f.operator = "/" -> Divided(units[1], units[2])
          [] f.operator = "clamp" ->
               IF \A i \in 2 .. 3 : units[i] = "scalar" /\ Dependencies(f.parts[i]) = {}
               THEN units[1] ELSE ""
          [] OTHER -> same

\* The largest minimum of the inputs.
Required(f, M) == Max({0} \cup {M[k].minimum : k \in Dependencies(f) \cap DOMAIN M})

\* inspectFormulaAst() and validateFormulaAst() accept f.
Inspected(f, M) ==
    /\ Parsed(f) /\ UnitOf(f, M) # ""
    /\ Cardinality(Dependencies(f)) \in 1 .. MaximumInputs
Validated(f, unit, minimum, M) ==
    Inspected(f, M) /\ UnitOf(f, M) = unit /\ Required(f, M) <= minimum

-----------------------------------------------------------------------------
\* evaluateFormula()

Available(v, sample) == [status |-> "available", value |-> v, sample |-> sample]
Without(status, sample) == [status |-> status, value |-> Null, sample |-> sample]
NoSample == -1

\* statusPriority
Priority(status) ==
    CASE status = "data_delayed" -> 4
      [] status = "insufficient_sample" -> 3
      [] status = "missing" -> 2
      [] status = "metric_not_available" -> 1
      [] OTHER -> 0

\* unavailableResult(): the first of those with the highest priority.
Worst(results) ==
    CHOOSE i \in DOMAIN results :
        \A j \in DOMAIN results :
            \/ Priority(results[i].status) > Priority(results[j].status)
            \/ Priority(results[i].status) = Priority(results[j].status) /\ i <= j

\* Mutant: a part without a sample counts as one without events.
LeastMutant(results) == Min({r.sample : r \in Range(results)})

\* minimumSample()
Least(results) ==
    LET samples == {r.sample : r \in Range(results)} \ {NoSample}
    IN  IF samples = {} THEN NoSample ELSE Min(samples)

\* normalize(): a value below, inside or above the target as a score.
Scored(v, direction, t) ==
    LET share(a, b, c, d) == Over(Scaled(Minus(a, b), 100), Minus(c, d))
        at == [i \in DOMAIN t |-> <<t[i], 1>>]
        score ==
            CASE direction = "higher_better" -> share(v, at[1], at[2], at[1])
              [] direction = "lower_better" -> share(at[2], v, at[2], at[1])
              [] AtMost(at[2], v) /\ AtMost(v, at[3]) -> <<100, 1>>
              [] AtMost(v, at[2]) -> share(v, at[1], at[2], at[1])
              [] OTHER -> share(at[4], v, at[4], at[3])
    IN  Lower(<<100, 1>>, Higher(<<0, 1>>, score))

\* The value of f from the values of its parts.
Computed(f, v) ==
    CASE f.operator = "+" -> Plus(v[1], v[2])
      [] f.operator = "-" -> Minus(v[1], v[2])
      [] f.operator = "*" -> Times(v[1], v[2])
      [] f.operator = "/" -> Over(v[1], v[2])
      [] f.operator = "min" -> FoldLeft(Lower, v[1], v)
      [] f.operator = "max" -> FoldLeft(Higher, v[1], v)
      [] f.operator = "clamp" -> Lower(v[3], Higher(v[2], v[1]))
      [] f.type = "weighted_mean" ->
           Over(FoldLeftDomain(LAMBDA sum, i : Plus(sum, Scaled(v[i], f.weights[i])), <<0, 1>>, v),
                <<FoldLeft(+, 0, f.weights), 1>>)
      [] OTHER -> Scored(v[1], f.operator, f.target)

RECURSIVE Evaluate(_, _)
Evaluate(f, values) ==
    LET results == [i \in DOMAIN f.parts |-> Evaluate(f.parts[i], values)]
        given == values[f.key]
    IN  CASE f.type = "literal" -> Available(<<f.value, 1>>, NoSample)
          [] f.type = "metric" ->
               IF f.key \notin DOMAIN values THEN Without("missing", NoSample)
               ELSE IF given.status = "available" /\ given.value # Null THEN given
               ELSE Without(IF given.status = "available" THEN "missing" ELSE given.status, given.sample)
          [] \E r \in Range(results) : r.status # "available" ->
               Without(results[Worst(results)].status, results[Worst(results)].sample)
          [] f.operator = "/" /\ results[2].value[1] = 0 ->
               Without("metric_not_available", Least(results))
          [] OTHER -> Available(Computed(f, [i \in DOMAIN results |-> results[i].value]), Least(results))

-----------------------------------------------------------------------------
\* topologicalSortFormulaGraph(): D maps keys to what their formulas use.

RECURSIVE Visit(_, _, _, _)
Visit(D, k, path, sorted) ==
    IF ~sorted.ok \/ k \in Range(sorted.order) THEN sorted
    ELSE IF k \in path THEN [sorted EXCEPT !.ok = FALSE]
    ELSE LET below == FoldLeft(LAMBDA s, d : Visit(D, d, path \cup {k}, s), sorted, SetToSeq(D[k]))
         IN  IF below.ok THEN [below EXCEPT !.order = Append(@, k)] ELSE below

Sorted(D) ==
    IF \E k \in DOMAIN D : ~(D[k] \subseteq DOMAIN D) THEN [ok |-> FALSE, order |-> <<>>]
    ELSE FoldLeft(LAMBDA s, k : Visit(D, k, {}, s), [ok |-> TRUE, order |-> <<>>], SetToSeq(DOMAIN D))
=============================================================================
