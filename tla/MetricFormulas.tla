---------------------------- MODULE MetricFormulas ----------------------------
(***************************************************************************)
(* The formulas of one metric library (metric-library.ts) and the form     *)
(* that edits them (MetricLibraryPanel.vue).  An administrator edits the   *)
(* draft and publishes it; how versions come and go beside other requests  *)
(* is MetricLibrary.                                                       *)
(***************************************************************************)
EXTENDS MetricReaders

CONSTANTS
    Posted,      \* the business metrics: keys to the formulas requests carry
    Minimums,    \* the minimum samples requests carry
    Measured,    \* what may be known of the system metrics: sets of facts by key
    MaxSaves     \* bound

Business == DOMAIN Posted

VARIABLES
    draft,    \* business definitions of the draft: keys to [unit, minimum, formula, enabled]
    source,   \* those of the active version
    saves     \* requests so far, for the bound

vars == <<draft, source, saves>>

With(D, k, d) == [j \in DOMAIN D \cup {k} |-> IF j = k THEN d ELSE D[j]]
Except(D, k) == [j \in DOMAIN D \ {k} |-> D[j]]

\* validateMetricVersionSnapshot()
Valid(D) ==
    /\ \A k \in DOMAIN D : Validated(D[k].formula, D[k].unit, D[k].minimum, Known(D))
    /\ Sorted(Uses(D)).ok

Definition(f, minimum, on, D) ==
    [unit |-> UnitOf(f, Known(D)), minimum |-> minimum, formula |-> f, enabled |-> on]

\* saveBusinessMetric(): the unit is the one the preview inferred.
Saves(D, k, f, minimum) ==
    Validated(f, UnitOf(f, Known(D)), minimum, Known(D)) /\ k \notin Dependencies(f)

\* Mutant: the definition itself is not among those that are sorted.
PreviewedMutant(D, k, f, minimum) ==
    /\ Validated(f, UnitOf(f, Known(D)), minimum, Known(D))
    /\ Sorted(Uses(D)).ok

\* previewBusinessMetric() finds no error.
Previewed(D, k, f, minimum) ==
    /\ Validated(f, UnitOf(f, Known(D)), minimum, Known(D))
    /\ Sorted(With(Uses(D), k, Dependencies(f))).ok

-----------------------------------------------------------------------------
\* The editor's form.

\* resetEditor()
Empty == [operator |-> "/", inputA |-> "", inputB |-> "", operandB |-> "metric", scalarOperand |-> 1,
          scalarA |-> 0, scalarB |-> 100, targetMin |-> 40, targetMax |-> 60,
          weightA |-> 1, weightB |-> 1, direction |-> "higher_better"]

KeyAt(f, i) == IF i \in DOMAIN f.parts THEN f.parts[i].key ELSE ""
ValueAt(f, i, default) == IF f.parts[i].type = "literal" THEN f.parts[i].value ELSE default

\* Mutant: the bounds of a range are read as those of a simple target.
OpenMutant(f) ==
    CASE f.type = "normalize" ->
           [Empty EXCEPT !.operator = "normalize", !.direction = f.operator, !.inputA = KeyAt(f, 1),
                         !.scalarA = f.target[1], !.scalarB = f.target[2]]
      [] OTHER -> [Empty EXCEPT !.operator = f.operator, !.inputA = KeyAt(f, 1), !.inputB = KeyAt(f, 2)]

\* openEdit()
Open(f) ==
    CASE f.type = "binary" /\ f.parts[2].type = "literal" ->
           [Empty EXCEPT !.operator = f.operator, !.inputA = KeyAt(f, 1), !.operandB = "scalar",
                         !.scalarOperand = f.parts[2].value]
      [] f.operator = "clamp" ->
           [Empty EXCEPT !.operator = "clamp", !.inputA = KeyAt(f, 1), !.inputB = KeyAt(f, 2),
                         !.scalarA = ValueAt(f, 2, 0), !.scalarB = ValueAt(f, 3, 100)]
      [] f.type = "weighted_mean" ->
           [Empty EXCEPT !.operator = "weighted_mean", !.inputA = KeyAt(f, 1), !.inputB = KeyAt(f, 2),
                         !.weightA = f.weights[1], !.weightB = IF Len(f.weights) > 1 THEN f.weights[2] ELSE 1]
      [] f.type = "normalize" ->
           [Empty EXCEPT !.operator = "normalize", !.direction = f.operator, !.inputA = KeyAt(f, 1),
                         !.scalarA = f.target[1], !.scalarB = f.target[Len(f.target)],
                         !.targetMin = IF Len(f.target) = 4 THEN f.target[2] ELSE @,
                         !.targetMax = IF Len(f.target) = 4 THEN f.target[3] ELSE @]
      [] OTHER -> [Empty EXCEPT !.operator = f.operator, !.inputA = KeyAt(f, 1), !.inputB = KeyAt(f, 2)]

NeedsMetricB(form) ==
    \/ form.operator \in {"+", "-", "min", "max", "weighted_mean"}
    \/ form.operator \in {"*", "/"} /\ form.operandB = "metric"

\* canPreviewFormula()
CanPreview(form) == form.inputA # "" /\ (NeedsMetricB(form) => form.inputB # "")

\* buildFormulaAst()
Build(form) ==
    LET left == Metric(form.inputA)
        right == IF form.operator \in {"*", "/"} /\ form.operandB = "scalar"
                 THEN Literal(form.scalarOperand) ELSE Metric(form.inputB)
    IN  CASE form.operator \in {"+", "-", "*", "/"} -> Binary(form.operator, left, right)
          [] form.operator \in {"min", "max"} -> Call(form.operator, <<left, right>>)
          [] form.operator = "clamp" ->
               Call("clamp", <<left, Literal(form.scalarA), Literal(form.scalarB)>>)
          [] form.operator = "weighted_mean" ->
               WeightedMean(<<left, right>>, <<form.weightA, form.weightB>>)
          [] OTHER ->
               Normalize(form.direction, left,
                         IF form.direction = "target_range"
                         THEN <<form.scalarA, form.targetMin, form.targetMax, form.scalarB>>
                         ELSE <<form.scalarA, form.scalarB>>)

-----------------------------------------------------------------------------
\* What a review of a version is shown.

\* diff()
Changed(old, new) ==
    {k \in DOMAIN old \cup DOMAIN new :
        IF k \in DOMAIN old \cap DOMAIN new THEN old[k] # new[k] ELSE TRUE}

\* Mutant: only the metrics that use one of the targets themselves.
ImpactMutant(D, targets) == {k \in DOMAIN D : Dependencies(D[k].formula) \cap targets # {}}

\* impact(): the metrics built on the targets, to the fixed point.
RECURSIVE Downstream(_, _)
Downstream(D, found) ==
    LET more == {k \in DOMAIN D : Dependencies(D[k].formula) \cap found # {}}
    IN  IF more \subseteq found THEN found ELSE Downstream(D, found \cup more)
Impact(D, targets) ==
    {k \in DOMAIN D : Dependencies(D[k].formula) \cap Downstream(D, targets) # {}}

-----------------------------------------------------------------------------
Nothing == [k \in {} |-> System]

Init == draft = Nothing /\ source = Nothing /\ saves = 0

Stored(k, f, minimum, on) ==
    /\ saves < MaxSaves
    /\ Saves(draft, k, f, minimum)
    /\ draft' = With(draft, k, Definition(f, minimum, on, draft))
    /\ saves' = saves + 1
    /\ UNCHANGED source

\* A request of a script, which no preview precedes.
Save ==
    \E k \in Business, minimum \in Minimums : \E f \in Posted[k] : Stored(k, f, minimum, TRUE)

\* openEdit(), another operand or the switch, previewFormula() and saveMetric().
Edit ==
    \E k \in DOMAIN draft, input \in DOMAIN Known(draft), on \in BOOLEAN :
        LET form == [Open(draft[k].formula) EXCEPT !.inputA = input]
        IN  /\ CanPreview(form) /\ Previewed(draft, k, Build(form), draft[k].minimum)
            /\ Stored(k, Build(form), draft[k].minimum, on)

\* deleteBusinessMetric(), whatever uses the metric.
Delete ==
    \E k \in DOMAIN draft :
        /\ saves < MaxSaves
        /\ draft' = Except(draft, k) /\ saves' = saves + 1
        /\ UNCHANGED source

\* activateVersion() and the draft that follows; abandonDraft().
Publish == draft # source /\ Valid(draft) /\ source' = draft /\ UNCHANGED <<draft, saves>>
Abandon == draft # source /\ draft' = source /\ UNCHANGED <<source, saves>>

Next == Save \/ Edit \/ Delete \/ Publish \/ Abandon

-----------------------------------------------------------------------------
TypeOK ==
    /\ \A D \in {draft, source} :
         /\ DOMAIN D \subseteq Business
         /\ \A k \in DOMAIN D : D[k].unit # "" /\ D[k].minimum \in Minimums /\ WellFormed(D[k].formula)
    /\ saves \in 0 .. MaxSaves

\* A formula the form can hold is not changed by opening it (openEdit, buildFormulaAst).  One with
\* more operands than the form, or with a computed bound, is.
Holds(f) ==
    /\ Len(f.parts) <= IF f.operator = "clamp" THEN 3 ELSE 2
    /\ f.operator = "clamp" => f.parts[2].type = "literal" /\ f.parts[3].type = "literal"
EditorKeeps ==
    \A k \in DOMAIN draft :
        LET f == draft[k].formula IN Holds(f) /\ CanPreview(Open(f)) => Build(Open(f)) = f

\* A formula a preview finds valid can be saved, and the draft stays valid unless other metrics
\* were built on another unit or a lower minimum (previewBusinessMetric, saveBusinessMetric).
PreviewPromises ==
    \A k \in Business, minimum \in Minimums : \A f \in Posted[k] :
        Previewed(draft, k, f, minimum) =>
            LET saved == With(draft, k, Definition(f, minimum, TRUE, draft))
            IN  /\ Saves(draft, k, f, minimum)
                /\ Valid(draft) /\ (Impact(draft, {k}) # {} =>
                                      saved[k].unit = Known(draft)[k].unit
                                      /\ minimum <= Known(draft)[k].minimum)
                     => Valid(saved)

\* The order of the definitions exists if none is built on itself, and puts inputs first; the
\* metrics a metric is built on are those that are affected by it (topologicalSortFormulaGraph,
\* impact, lineage).
GraphSound ==
    LET sorted == Sorted(Uses(draft))
        complete == \A k \in DOMAIN draft : Uses(draft)[k] \subseteq DOMAIN Known(draft)
    IN  /\ sorted.ok <=> complete /\ \A k \in DOMAIN draft : k \notin Upstream(draft, Uses(draft)[k])
        /\ sorted.ok => \A i \in DOMAIN sorted.order :
                          Uses(draft)[sorted.order[i]] \subseteq {sorted.order[j] : j \in 1 .. i - 1}
        /\ \A k \in DOMAIN Known(draft) :
             Impact(draft, {k}) = {j \in DOMAIN draft : k \in Upstream(draft, Uses(draft)[j])}

\* What neither the differences to the active version nor their impact name is read as before
\* (diff, impact, evaluateScore).
ReviewComplete ==
    Valid(draft) =>
        LET changed == Changed(source, draft)
        IN  \A k \in DOMAIN draft \ (changed \cup Impact(draft, changed)), facts \in Measured :
              ForScore(draft, facts, k) = ForScore(source, facts, k)

\* What is read changes with a publication only, so it is looked at then.

\* The readers show one value of a metric: where a score has it the others have it, and where
\* another one has it a score has it, if its sources are implemented and there were samples.
OneValue ==
    draft = source => \A k \in DOMAIN source, facts \in Measured :
        \A score \in {ForScore(source, facts, k)}, overview \in {ForOverview(source, facts, k)},
           page \in {ForPages(source, facts, k)}, status \in {Status(source, k)} :
            /\ score.status = "available" => overview = score /\ page = score
            /\ page.status = "available" /\ status = "implemented" /\ page.sample > 0 => score = page
            /\ status # "not_collected" => overview.status = page.status

\* A result is no better than its inputs and rests on the smallest of their samples, which is
\* enough for each of them, and if it is enough for every metric on the way it is enough for the
\* result (evaluateFormula, validateFormulaAst).
RestsOnInputs ==
    draft = source => \A k \in DOMAIN source, facts \in Measured :
        \A way \in {Upstream(source, {k})}, result \in {ForPages(source, facts, k)} :
        \A leaves \in {{ForPages(source, facts, j) : j \in way \cap DOMAIN System}} :
            /\ (\A j \in way : Enabled(source, j)) =>
                 \A r \in leaves : Priority(result.status) >= Priority(r.status)
            /\ result.status = "available" =>
                 result.sample = Min({r.sample : r \in leaves}) /\ result.sample >= source[k].minimum
            /\ (\A r \in leaves, j \in way :
                   r.status = "available" /\ r.sample >= Known(source)[j].minimum) =>
                 result.status # "insufficient_sample"

\* Units mean something: measured in half the unit, a duration doubles, a duration per user too, and
\* ratios and counts stay (inspectFormulaAst).  Bounds and targets are numbers in the old unit.
Plain(D, k) ==
    \A j \in Upstream(D, {k}) \cap DOMAIN D :
        D[j].formula.type # "normalize" /\ D[j].formula.operator # "clamp"
        /\ \A p \in Range(D[j].formula.parts) : p.type # "normalize" /\ p.operator # "clamp"
UnitsSound ==
    draft = source => \A k \in DOMAIN source, facts \in Measured :
        LET finer == [j \in DOMAIN facts |->
                        IF System[j].unit = "milliseconds" /\ facts[j].status = "available"
                        THEN [facts[j] EXCEPT !.value = Scaled(@, 2)] ELSE facts[j]]
        IN  \A before \in {ForPages(source, facts, k)}, after \in {ForPages(source, finer, k)} :
              Plain(source, k) /\ before.status = "available" =>
              after.value = IF source[k].unit \in {"milliseconds", "milliseconds_per_user"}
                            THEN Scaled(before.value, 2) ELSE before.value

FormulasSound ==
    /\ EditorKeeps /\ PreviewPromises /\ GraphSound /\ ReviewComplete
    /\ OneValue /\ RestsOnInputs /\ UnitsSound
=============================================================================
