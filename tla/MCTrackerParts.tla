----------------------------- MODULE MCTrackerParts -----------------------------
(***************************************************************************)
(* TrackerQueue for TLC: a queue that holds more than a batch, so that an  *)
(* emission can start a flush by itself and a flush can take several       *)
(* batches.  Beside it, as parts an initial state chooses, the formulas of *)
(* metrics and the evaluation of scores, which share nothing with it.      *)
(***************************************************************************)
EXTENDS TrackerQueue, TLC

CONSTANTS NoTarget

VARIABLES
    part,
    draft, source, saves,                                            \* MetricFormulas
    metrics, configuration, facts, elsewhere, pipeline, inForce      \* ScoreEvaluation

formulaVars == <<draft, source, saves>>
scoreVars == <<metrics, configuration, facts, elsewhere, pipeline, inForce>>

Fact(status, value, sample) == [status |-> status, value |-> value, sample |-> sample]
OfSystem(unit, minimum, status) == [unit |-> unit, minimum |-> minimum, status |-> status]

-----------------------------------------------------------------------------
\* Formulas over a duration, another one and users; none of the metrics is available at first.

Durations ==
    "duration" :> OfSystem("milliseconds", 1, "implemented")
    @@ "stay" :> OfSystem("milliseconds", 2, "partial")
    @@ "users" :> OfSystem("users", 1, "implemented")

\* The nodes of formulas have no constants of their own.
F == INSTANCE Formulas WITH MaximumInputs <- 3, MaximumDepth <- 3, MaximumNodes <- 6
M(k) == F!Metric(k)

FormulasPosted ==
    "first" :> {F!Binary("/", M("duration"), M("users")), F!Binary("*", M("stay"), M("users")),
                F!Binary("*", M("duration"), M("stay")), F!Binary("/", M("duration"), F!Literal(2)),
                F!Binary("/", F!Binary("-", M("duration"), M("stay")), M("duration")),
                F!Binary("+", M("second"), M("duration")),
                F!Call("max", <<M("duration"), M("stay"), F!Binary("/", M("duration"), F!Literal(2))>>),
                F!Call("clamp", <<M("duration"), F!Literal(1), F!Binary("+", F!Literal(2), F!Literal(2))>>),
                F!WeightedMean(<<M("duration"), M("stay")>>, <<2, 1>>),
                F!Normalize("target_range", M("duration"), <<0, 2, 4, 8>>)}
    @@ "second" :> {F!Binary("/", M("first"), M("users")), F!Call("max", <<M("first"), M("duration")>>),
                    F!Binary("/", M("duration"), M("first"))}

\* Everything is there; a division by zero; a delay; no samples; too few of them.
DurationsMeasured ==
    LET available(v, s) == Fact("available", <<v, 1>>, s)
    IN  {"duration" :> available(6, 3) @@ "stay" :> available(4, 2) @@ "users" :> available(2, 4),
         "duration" :> available(6, 3) @@ "stay" :> available(6, 1) @@ "users" :> available(0, 4),
         "duration" :> Fact("data_delayed", F!Null, 1) @@ "stay" :> available(4, 2),
         "duration" :> available(0, 0) @@ "stay" :> Fact("insufficient_sample", F!Null, 1)
             @@ "users" :> Fact("missing", F!Null, F!NoSample),
         "stay" :> available(4, 5) @@ "users" :> available(1, 1)}

Formula == INSTANCE MetricFormulas WITH
    MaximumInputs <- 3, MaximumDepth <- 3, MaximumNodes <- 6, System <- Durations,
    Posted <- FormulasPosted, Minimums <- {1, 2}, Measured <- DurationsMeasured, MaxSaves <- 3

-----------------------------------------------------------------------------
\* Scores of three or four dimensions over three system metrics and what is derived from them.

Derived(f) == [unit |-> "ratio", minimum |-> 1, formula |-> f, enabled |-> TRUE]
Quotient == "d" :> Derived(F!Binary("/", M("a"), M("b")))
Largest == "d" :> Derived(F!Call("max", <<M("a"), M("b")>>))
Nested ==
    "d" :> Derived(F!Binary("/", M("e"), M("b")))
    @@ "e" :> Derived(F!Binary("+", M("a"), F!Binary("-", M("c"), M("b"))))

Leaf(k, weight, direction, target) ==
    [metric |-> k, weight |-> weight, enabled |-> TRUE, direction |-> direction, target |-> target,
     minimum |-> 1]
Higher(k, weight) == Leaf(k, weight, "higher_better", <<0, 8>>)
Dimension(weight, leaves) == [weight |-> weight, leaves |-> leaves]

Three ==
    <<Dimension(2, <<Higher("a", 4)>>),
      Dimension(1, <<Leaf("b", 3, "lower_better", <<2, 8>>), Higher("d", 1)>>),
      Dimension(1, <<Leaf("c", 4, "target_range", <<0, 2, 4, 8>>)>>)>>
Four ==
    <<Dimension(1, <<Higher("a", 1), [Higher("d", 3) EXCEPT !.minimum = 2]>>),
      Dimension(1, <<[Higher("b", 4) EXCEPT !.enabled = FALSE]>>),
      Dimension(1, <<Higher("c", 4)>>), Dimension(1, <<Higher("b", 2), Higher("a", 2)>>)>>
Untargeted == [Three EXCEPT ![3].leaves[1].target = NoTarget]
Configured(dimensions, n, coverage) ==
    [dimensions |-> dimensions, gate |-> [dimensions |-> n, coverage |-> coverage], owner |-> TRUE,
     bands |-> [green |-> 85, yellow |-> 60]]

\* The second is too deep, those with four dimensions have as many nodes as there may be, the last
\* one cannot be confirmed.
ScoresConfigured ==
    {<<Quotient, Configured(Three, 3, <<3, 4>>)>>, <<Nested, Configured(Three, 3, <<3, 4>>)>>,
     <<Largest, Configured(Four, 3, <<1, 2>>)>>, <<Quotient, Configured(Four, 4, <<1, 2>>)>>,
     <<Quotient, Configured(Untargeted, 3, <<1, 2>>)>>}

Score == INSTANCE ScoreEvaluation WITH
    MaximumInputs <- 4, MaximumDepth <- 6, MaximumNodes <- 19,
    System <- [k \in {"a", "b", "c"} |-> OfSystem("ratio", 1, "implemented")],
    Cases <- ScoresConfigured, Whole <- 4,
    Facts <- {Fact("available", <<0, 1>>, 1), Fact("available", <<4, 1>>, 2),
              Fact("available", <<6, 1>>, 2), Fact("data_delayed", F!Null, 1)}

-----------------------------------------------------------------------------
NoFormula == draft = 0 /\ source = 0 /\ saves = 0
NoScore ==
    /\ metrics = 0 /\ configuration = 0 /\ facts = 0
    /\ elsewhere = 0 /\ pipeline = 0 /\ inForce = 0

TrackerInit ==
    /\ Init
    /\ \/ part = "tracker" /\ NoFormula /\ NoScore
       \/ part = "formulas" /\ Formula!Init /\ NoScore
       \/ part = "scores" /\ Score!Init /\ NoFormula

TrackerNext ==
    /\ UNCHANGED part
    /\ \/ part = "tracker" /\ Next /\ UNCHANGED <<formulaVars, scoreVars>>
       \/ part = "formulas" /\ Formula!Next /\ UNCHANGED <<tracker, scoreVars>>
       \/ part = "scores" /\ Score!Next /\ UNCHANGED <<tracker, formulaVars>>

PartsSpec ==
    /\ TrackerInit /\ [][TrackerNext]_<<part, tracker, formulaVars, scoreVars>>
    /\ Settles /\ WF_tracker(Ticks)

\* What a destroyed tracker held is accounted for; a metric and a score show what their inputs
\* say, and a draft keeps the formulas it was given (destroy, evaluateFormula, evaluateScore,
\* previewBusinessMetric).
NothingLostOrMisread ==
    /\ NothingLeftBehind
    /\ part = "formulas" => Formula!TypeOK /\ Formula!FormulasSound
    /\ part = "scores" => Score!TypeOK /\ Score!ScoreSound
=============================================================================
