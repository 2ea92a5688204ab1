------------------------------ MODULE SdkWorkflow ------------------------------
(***************************************************************************)
(* Workflow instances in the browser SDK (class WorkflowRuntime): the      *)
(* instances of one tab, the copies in its session storage, the operations *)
(* associated with them and the session they belong to, joined with the    *)
(* server's reducer, which sees the events they emit.                      *)
(*                                                                         *)
(* There is one workflow with one configured version; how a step is        *)
(* triggered matters only as far as operations are concerned.              *)
(***************************************************************************)
EXTENDS WorkflowReducer

CONSTANTS
    Flows   \* the workflows a host may register, records of
            \*   triggers           the steps' triggerKind, a sequence
            \*   completed, failed  terminalPolicy (None: no such step)
            \*   firstStep          startPolicy = "first_step"
            \*   timeout            timeoutSeconds
            \*   session            trackerConfig.sessionTimeoutMs
            \*   active, operations the 32 instances, the 32 operations of an instance
            \* and of the bounds
            \*   time, instances, ends, faults    clock, starts, operations, failing writes

VARIABLES
    now,
    flow,       \* the workflow of this host
    sdk,        \* host, active and saved instances, events emitted
    operations, \* the open operations of this document: id -> instance
    counters,   \* instances and operations made, failures of the storage
    storing,    \* session storage accepts writes
    offered,    \* what the configuration says of the version: startable, retired or absent
    destroyed

vars == <<now, flow, sdk, operations, counters, storing, offered, destroyed>>

Definition ==
    [steps |-> flow.triggers, completed |-> flow.completed, firstStep |-> flow.firstStep, timeout |-> flow.timeout,
     periods |-> {[from |-> 0, to |-> None]}]

-----------------------------------------------------------------------------
\* The host.

Expired == 0

\* host.session(); sessions are numbered from 1.
SessionOf(host) == IF now - host.activity >= flow.session THEN Expired ELSE host.session

RefreshSession(host) ==
    [session |-> IF SessionOf(host) = Expired THEN host.session + 1 ELSE host.session,
     activity |-> now]

\* host.emit() and host.operation(): every custom event refreshes the session first.
Emit(s, name, i, step, operation) ==
    LET host == RefreshSession(s.host)
    IN  [s EXCEPT !.host = host,
                  !.events = @ \cup {[name |-> name, instance |-> i, at |-> now, received |-> 0,
                                      session |-> host.session, step |-> step, operation |-> operation]}]

-----------------------------------------------------------------------------
\* Instances.

\* snapshot() and persist(); a write that fails leaves the storage as it was.
Persist(s) ==
    IF storing THEN [s EXCEPT !.saved = [i \in DOMAIN s.active |-> [s.active[i] EXCEPT !.open = 0]]]
    ELSE s

\* Mutant: the storage keeps what is released.
ReleaseMutant(s, i) == [s EXCEPT !.active = Drop(@, i)]

\* release(), for every end of an instance
Release(s, i) == Persist([s EXCEPT !.active = Drop(@, i)])

\* Mutant: the timeout is left to the timer.
TimedOutMutant(w) == FALSE

\* Mutant: off by one.
TimedOutLateMutant(w) == now > w.startedAt + flow.timeout

TimedOut(w) == now >= w.startedAt + flow.timeout

\* current()
Alive(s, i) ==
    /\ i \in DOMAIN s.active
    /\ SessionOf(s.host) = s.active[i].session
    /\ ~TimedOut(s.active[i])

\* safe(): a call on an instance that is over expires it and does nothing else.
Safe(s, i, next) == IF i \notin DOMAIN s.active THEN s ELSE IF Alive(s, i) THEN next ELSE Release(s, i)

FinishInstance(s, i, name) ==
    LET w == s.active[i]
    IN  Safe(s, i,
          IF name = "workflow_completed" /\ flow.completed \notin w.reached THEN s
          ELSE IF w.state = "pending" THEN Release(s, i)
          ELSE Release(Emit(s, name, i, None, None), i))

\* A pending instance begins with its first step.
Enters(w, step) == w.state = "started" \/ step = 1

ReachStep(s, i, step, operation) ==
    LET w == s.active[i]
        begun == IF w.state = "started" THEN s
                 ELSE Emit([s EXCEPT !.active[i].startedAt = now, !.active[i].state = "started"],
                           "workflow_started", i, None, None)
        reached == Emit(Persist([begun EXCEPT !.active[i].reached = @ \cup {step}]),
                        "workflow_step_reached", i, step, operation)
    IN  Safe(s, i,
          IF step \in w.reached \/ ~Enters(w, step) THEN s
          ELSE IF step = flow.completed THEN FinishInstance(reached, i, "workflow_completed")
          ELSE IF step = flow.failed THEN FinishInstance(reached, i, "workflow_failed")
          ELSE reached)

Instance(started, state, session) ==
    [state |-> state, startedAt |-> started, reached |-> {}, session |-> session, open |-> 0]

-----------------------------------------------------------------------------
Init ==
    /\ flow \in Flows
    /\ now = 0 /\ storing = TRUE /\ offered = "startable" /\ destroyed = FALSE
    /\ sdk = [host |-> [session |-> 1, activity |-> 0], active |-> <<>>, saved |-> <<>>, events |-> {}]
    /\ operations = <<>>
    /\ counters = [instances |-> 0, operations |-> 0, faults |-> 0]

\* startWorkflow(): the session is refreshed before the instance is bound to it.
StartWorkflow ==
    /\ counters.instances < flow.instances
    /\ LET host == RefreshSession(sdk.host)
           i == counters.instances + 1
           w == Instance(now, IF flow.firstStep THEN "pending" ELSE "started", host.session)
           added == [sdk EXCEPT !.host = host, !.active = With(@, i, w)]
           refused == destroyed \/ offered # "startable" \/ Cardinality(DOMAIN sdk.active) >= flow.active
       IN  /\ sdk' = IF refused THEN [sdk EXCEPT !.host = host]
                     ELSE Persist(IF flow.firstStep THEN added
                                  ELSE Emit(added, "workflow_started", i, None, None))
           /\ counters' = IF refused THEN counters ELSE [counters EXCEPT !.instances = i]
    /\ UNCHANGED <<now, flow, operations, storing, offered, destroyed>>

Reach(i, step) ==
    /\ flow.triggers[step] = "explicit_sdk"
    /\ sdk' = ReachStep(sdk, i, step, None)
    /\ UNCHANGED <<now, flow, operations, counters, storing, offered, destroyed>>

Finish(i) ==
    /\ \E name \in {"workflow_completed", "workflow_failed", "workflow_canceled"} :
         sdk' = FinishInstance(sdk, i, name)
    /\ UNCHANGED <<now, flow, operations, counters, storing, offered, destroyed>>

StartOperation(i) ==
    /\ counters.operations < flow.ends
    /\ LET o == counters.operations + 1
           accepted == Alive(sdk, i) /\ sdk.active[i].open < flow.operations
           opened == Emit([sdk EXCEPT !.active[i].open = @ + 1], "feature_started", i, None, o)
       IN  /\ sdk' = IF accepted THEN opened ELSE Safe(sdk, i, sdk)
           /\ operations' = IF accepted THEN With(operations, o, i) ELSE operations
           /\ counters' = IF accepted THEN [counters EXCEPT !.operations = o] ELSE counters
    /\ UNCHANGED <<now, flow, storing, offered, destroyed>>

Awaits(s, i, k) == flow.triggers[k] = "operation_terminal" /\ i \in DOMAIN s.active

\* terminal() reports the operation whatever became of its workflow; onTerminal() reaches the
\* steps that wait for it.
EndOperation(o) ==
    /\ \E end \in {"feature_succeeded", "feature_failed"} :
         LET i == operations[o]
             told == Emit(sdk, end, i, None, o)
             freed == Safe(told, i, [told EXCEPT !.active[i].open = @ - 1])
         IN  sdk' = IF destroyed THEN sdk
                    ELSE IF end = "feature_succeeded" /\ i \in DOMAIN freed.active
                    THEN FoldLeftDomain(LAMBDA s, k : IF Awaits(s, i, k) THEN ReachStep(s, i, k, o) ELSE s,
                                        freed, flow.triggers)
                    ELSE freed
    /\ operations' = Drop(operations, o)
    /\ UNCHANGED <<now, flow, counters, storing, offered, destroyed>>

\* The timer of an instance, never early and perhaps late.
Timer(i) ==
    /\ TimedOut(sdk.active[i])
    /\ sdk' = Release(sdk, i)
    /\ UNCHANGED <<now, flow, operations, counters, storing, offered, destroyed>>

\* Any other custom event of the page.
Activity ==
    /\ sdk' = [sdk EXCEPT !.host = RefreshSession(@)]
    /\ UNCHANGED <<now, flow, operations, counters, storing, offered, destroyed>>

-----------------------------------------------------------------------------
\* Documents.

\* The conditions under which the constructor takes an instance over.
Restorable(w, host, known) ==
    known # "absent" /\ w.session = host.session /\ w.startedAt <= now /\ ~TimedOut(w)

\* A navigation: the document's closures are gone, the next one restores what was saved.
Load ==
    /\ \E known \in {"startable", "retired", "absent"} :
         LET host == RefreshSession(sdk.host)
             kept == {i \in DOMAIN sdk.saved : Restorable(sdk.saved[i], host, known)}
             restored == [sdk EXCEPT !.host = host, !.active = [i \in kept |-> sdk.saved[i]]]
         IN  /\ sdk' = IF kept = {} THEN restored ELSE Persist(restored)
             /\ offered' = known
    /\ operations' = <<>>
    /\ destroyed' = FALSE
    /\ UNCHANGED <<now, flow, counters, storing>>

Destroy ==
    /\ ~destroyed
    /\ destroyed' = TRUE
    /\ sdk' = IF sdk.active = <<>> THEN sdk ELSE Persist([sdk EXCEPT !.active = <<>>])
    /\ UNCHANGED <<now, flow, operations, counters, storing, offered>>

StorageChanges ==
    /\ ~storing \/ counters.faults < flow.faults
    /\ storing' = ~storing
    /\ counters' = [counters EXCEPT !.faults = IF storing THEN @ + 1 ELSE @]
    /\ UNCHANGED <<now, flow, sdk, operations, offered, destroyed>>

Tick ==
    /\ now < flow.time
    /\ now' = now + 1
    /\ UNCHANGED <<flow, sdk, operations, counters, storing, offered, destroyed>>

Next ==
    \/ StartWorkflow \/ Activity \/ Load \/ Destroy \/ StorageChanges \/ Tick
    \/ \E i \in DOMAIN sdk.active :
         \/ Finish(i) \/ StartOperation(i) \/ Timer(i)
         \/ \E step \in DOMAIN flow.triggers : Reach(i, step)
    \/ \E o \in DOMAIN operations : EndOperation(o)

Spec == Init /\ [][Next]_vars

-----------------------------------------------------------------------------
\* Properties.

Of(E, i) == {e \in E : e.instance = i}
Started == {e.instance : e \in Starts(sdk.events)}

\* What the server may conclude from the events E of an instance: the order of ends at one time is
\* that of their ids, which are random.
FactsOf(E) == {Fact(E, first, sdk.events, Definition, now) : first \in FirstEnds(E)}

\* The variables keep their types.
TypeOK ==
    /\ flow \in Flows
    /\ now \in 0 .. flow.time /\ storing \in BOOLEAN /\ destroyed \in BOOLEAN
    /\ offered \in {"startable", "retired", "absent"}
    /\ sdk.host \in [session : Nat, activity : 0 .. now]
    /\ DOMAIN sdk.active \cup DOMAIN sdk.saved \subseteq 1 .. counters.instances
    /\ Cardinality(DOMAIN sdk.active) <= flow.active
    /\ \A i \in DOMAIN sdk.active : sdk.active[i].state \in {"pending", "started"}
    /\ \A o \in DOMAIN operations : o \in 1 .. counters.operations

\* An operation that outlived the session of its workflow.
Straggler(i) == \E e, f \in Of(sdk.events, i) : e.operation # None /\ e.session # f.session

\* While the storage works, everything the server may hold against an instance is the host's
\* doing: it reported steps in another order or without the ones before, or an operation
\* outlived the session.  Restoration, timeouts, expiry and concurrent operations never make
\* the SDK's own evidence contradictory.
OnlyHostReasons ==
    counters.faults = 0 =>
        \A i \in Started : Straggler(i) \/ \A fact \in FactsOf(Of(sdk.events, i)) :
            fact.reasons \subseteq {"STEP_ORDER_CONFLICT", "STEP_SEQUENCE_UNVERIFIED"}

\* Whatever is lost on the way, the server never counts a completion that took as long as the
\* timeout.  (A storage that fails may start a restored instance once more.)
CompletedInTime ==
    counters.faults = 0 => \A i \in Started : \A E \in SUBSET Of(sdk.events, i) : \A fact \in FactsOf(E) :
        fact # None /\ fact.state = "workflow_completed" => fact.terminalAt < fact.startedAt + flow.timeout

\* An instance the server has seen whole and counts as abandoned stays abandoned: no call that
\* arrives after the timeout, before the timer has run or after a restoration, revives it.
KeepsAbandoned ==
    \A i \in Started : \A fact \in FactsOf(Of(sdk.events, i)) : fact.state = "approximate_abandoned" =>
        Terminals(Of(sdk'.events, i)) = Terminals(Of(sdk.events, i))
=============================================================================
