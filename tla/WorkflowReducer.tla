---------------------------- MODULE WorkflowReducer ----------------------------
(***************************************************************************)
(* What the server concludes from the events of workflow instances         *)
(* (reduceWorkflowInstances): replayed observations of one version of one  *)
(* workflow, at an explicit point in time.  A definition d has             *)
(*   steps      the triggers "explicit_sdk" or "operation_terminal"        *)
(*   completed  the step that a completion requires                        *)
(*   firstStep  whether instances begin with their first step              *)
(*   timeout, periods  (the admission periods, to may be None).            *)
(* An event has id, name, instance, session, at, received, step, operation.*)
(*                                                                         *)
(* The order of the rows matters in one place: the first of several ends   *)
(* at one time is that whose row came first.                               *)
(***************************************************************************)
EXTENDS Integers, Sequences, FiniteSets, SequencesExt

CONSTANT None

-----------------------------------------------------------------------------
\* Deduplication.

\* The content of an event: everything but the time of its receipt.
Content(e) == [e EXCEPT !.received = 0]

Drop(f, x) == [y \in DOMAIN f \ {x} |-> f[y]]
With(f, x, v) == [y \in DOMAIN f \cup {x} |-> IF y = x THEN v ELSE f[y]]

\* Mutant: a contradiction is forgotten once both contents have been dropped.
DedupMutant(seen, e) ==
    IF e.id \in DOMAIN seen.kept /\ Content(seen.kept[e.id]) # Content(e)
    THEN [seen EXCEPT !.kept = Drop(@, e.id)]
    ELSE IF e.id \in DOMAIN seen.kept /\ seen.kept[e.id].received <= e.received THEN seen
    ELSE [seen EXCEPT !.kept = With(@, e.id, e)]

\* One round of the first loop: contradictory contents of an id exclude it for good.
Dedup(seen, e) ==
    IF e.id \in seen.conflicted THEN seen
    ELSE IF e.id \in DOMAIN seen.kept /\ Content(seen.kept[e.id]) # Content(e)
    THEN [kept |-> Drop(seen.kept, e.id), conflicted |-> seen.conflicted \cup {e.id}]
    ELSE IF e.id \in DOMAIN seen.kept /\ seen.kept[e.id].received <= e.received THEN seen
    ELSE [seen EXCEPT !.kept = With(@, e.id, e)]

\* Mutant: what was received after the report is known to it.
KnownMutant(e, asOf) == e.at <= asOf

Known(e, asOf) == e.at <= asOf /\ e.received <= asOf

Observed(events, asOf) ==
    LET seen == FoldLeft(LAMBDA s, e : IF Known(e, asOf) THEN Dedup(s, e) ELSE s,
                         [kept |-> <<>>, conflicted |-> {}], events)
    IN  {seen.kept[i] : i \in DOMAIN seen.kept}

-----------------------------------------------------------------------------
\* The evidence of one instance.

Named(es, names) == {e \in es : e.name \in names}
Starts(es) == Named(es, {"workflow_started"})
Terminals(es) == Named(es, {"workflow_completed", "workflow_failed", "workflow_canceled"})
OperationEnds == {"feature_succeeded", "feature_failed", "feature_canceled"}

\* The least time of the events S, and those that have it.
FirstTime(S) == CHOOSE t \in {e.at : e \in S} : \A e \in S : t <= e.at
Earliest(S) == {e \in S : \A f \in S : e.at <= f.at}

\* What terminals[0] may be: one of the ends at the least time, or nothing.
FirstEnds(es) == IF Terminals(es) = {} THEN {None} ELSE Earliest(Terminals(es))

\* The parents of an operation, over everything observed in the project.
Contexts(scope, operation) ==
    {<<e.instance, e.session>> : e \in {f \in scope : f.operation = operation}}

\* A step that waits for an operation needs its start and its first, unambiguous end.
OperationProved(es, d, start, e) ==
    LET ops == {o \in es : e.operation # None /\ o.operation = e.operation}
        ends == Named(ops, OperationEnds)
    IN  /\ \E o \in Named(ops, {"feature_started"}) :
             o.at <= e.at /\ (d.firstStep \/ o.at >= start)
        /\ ends # {}
        /\ FirstTime(ends) <= e.at
        /\ \A o \in ends : o.name = "feature_succeeded"

StepEvents(es) == Named(es, {"workflow_step_reached"})

\* The steps that count, with the earliest evidence of each.
StepTimes(es, d, start) ==
    LET valid == {e \in StepEvents(es) :
                    /\ e.step \in DOMAIN d.steps
                    /\ d.steps[e.step] = "operation_terminal" => OperationProved(es, d, start, e)}
    IN  [s \in {e.step : e \in valid} |-> FirstTime({e \in valid : e.step = s})]

\* Of several starts at one time it does not matter which is taken for the start: they either
\* agree on the session or contradict one another.
Reasons(es, first, scope, d) ==
    LET start == FirstTime(Starts(es))
        steps == StepTimes(es, d, start)
        ends == Terminals(es)
        completes == ends # {} /\ first.name = "workflow_completed"
        when(reason, condition) == IF condition THEN {reason} ELSE {}
    IN  UNION {
          when("OPERATION_CONTEXT_CONFLICT",
               \E e \in es : e.operation # None /\ Cardinality(Contexts(scope, e.operation)) > 1),
          when("START_OUTSIDE_ADMISSION",
               ~\E p \in d.periods : start >= p.from /\ (p.to = None \/ start < p.to)),
          when("CONTEXT_CONFLICT", \E e, f \in es : e.session # f.session),
          when("MULTIPLE_STARTS", \E s \in Starts(es) : s.at # start),
          when("EVENT_BEFORE_START",
               \E e \in es : e.name \notin OperationEnds \cup {"feature_started"} /\ e.at < start),
          when("STEP_INVALID", \E e \in StepEvents(es) : e.step \notin DOMAIN d.steps),
          when("OPERATION_EVIDENCE_INVALID",
               \E e \in StepEvents(es) :
                 /\ e.step \in DOMAIN d.steps /\ d.steps[e.step] = "operation_terminal"
                 /\ ~OperationProved(es, d, start, e)),
          when("STEP_ORDER_CONFLICT",
               \E s, t \in DOMAIN steps : s < t /\ steps[t] < steps[s]),
          when("STEP_SEQUENCE_UNVERIFIED",
               completes /\ \E s \in DOMAIN steps : s > 1 /\ s - 1 \notin DOMAIN steps),
          when("TERMINAL_CONFLICT", \E e \in ends : e.name # first.name),
          when("TERMINAL_ORDER_UNRESOLVED",
               \E e \in ends : e.name # first.name /\ e.at = first.at),
          when("SUCCESS_STEP_MISSING",
               completes /\ ~(d.completed \in DOMAIN steps /\ steps[d.completed] <= first.at))}

StateOf(reasons, es, first, d, asOf) ==
    IF reasons \ {"TERMINAL_CONFLICT"} # {} THEN "unresolved"
    ELSE IF Terminals(es) # {} THEN first.name
    ELSE IF asOf >= FirstTime(Starts(es)) + d.timeout THEN "approximate_abandoned" ELSE "started"

\* The fact about the instance with the events es of which first is the first end; None when its
\* start is missing.
Fact(es, first, scope, d, asOf) ==
    IF Starts(es) = {} THEN None
    ELSE LET start == FirstTime(Starts(es))
             reasons == Reasons(es, first, scope, d)
             ended == Terminals(es) # {}
         IN  [state |-> StateOf(reasons, es, first, d, asOf),
              startedAt |-> start,
              terminalAt |-> IF ended THEN first.at ELSE None,
              reasons |-> reasons,
              steps |-> {s \in DOMAIN StepTimes(es, d, start) :
                           ended => StepTimes(es, d, start)[s] <= first.at}]

\* The Map keeps each id where its first row put it, and the sort by time is stable.
Position(events, asOf, id) == Min({n \in DOMAIN events : Known(events[n], asOf) /\ events[n].id = id})

\* terminals[0]
FirstInOrder(es, events, asOf) ==
    IF Terminals(es) = {} THEN None
    ELSE CHOOSE e \in Earliest(Terminals(es)) :
           \A f \in Earliest(Terminals(es)) : Position(events, asOf, e.id) <= Position(events, asOf, f.id)

\* reduceWorkflowInstances(): the facts of all instances.
Facts(events, d, asOf) ==
    LET seen == Observed(events, asOf)
        scope == {events[i] : i \in {j \in DOMAIN events : Known(events[j], asOf)}}
        of(i) == {e \in seen : e.instance = i}
    IN  [i \in {e.instance : e \in seen} |->
            Fact(of(i), FirstInOrder(of(i), events, asOf), scope, d, asOf)]
=============================================================================
