------------------------------- MODULE MCBrowser -------------------------------
(***************************************************************************)
(* The browser SDK, and the attribution of the events it sends, for TLC.   *)
(* The parts share no state but the clock, so an initial state chooses one *)
(* of them and the others stand still: the attribution, with the module's  *)
(* own constants and variables, sessions and page views with hooks that    *)
(* throw, with forms and business operations, workflows, the diagnostic    *)
(* policy, and the rows of a workflow as the server reads them.            *)
(***************************************************************************)
EXTENDS DirectoryAttribution, TLC, Integers, FiniteSets, Sequences

CONSTANTS
    Hooking,    \* TrackerSession: what the hook and the host do and the bounds, with hooks that throw
    Forming,    \* and with forms and business operations
    Flowing,    \* SdkWorkflow: the workflows and the bounds of each
    Syncing,    \* PolicySync: the bounds
    Arriving,   \* WorkflowArrival: the events, the definition and the bounds
    r1, r2, u1

VARIABLES
    part,       \* which component this behaviour is about
    visible, parked, hook, tab, shown,                              \* TrackerSession
    flow, sdk, operations, counters, storing, offered, destroyed,   \* SdkWorkflow
    policies, client, wire, health,                                 \* PolicySync
    rows                                                            \* WorkflowArrival

Symmetry == Permutations(Events) \cup Permutations(Versions)

attributionVars == <<version, event>>
sessionVars == <<visible, parked, hook, tab, shown>>
workflowVars == <<flow, sdk, operations, counters, storing, offered, destroyed>>
policyVars == <<policies, client, wire, health>>

Hooked == INSTANCE TrackerSession WITH
    Routes <- Hooking.routes, Users <- Hooking.users, Timeout <- Hooking.timeout, Hooks <- Hooking.hooks,
    Collectors <- Hooking.collectors, MaxTime <- Hooking.time, MaxPages <- Hooking.pages,
    MaxSent <- Hooking.sent, MaxSegments <- Hooking.segments
ThrowingHooks ==
    [routes |-> {r1, r2}, users |-> {}, timeout |-> 2, hooks |-> {"accepts", "rejects", "throws"},
     collectors |-> {"long_views"}, time |-> 2, pages |-> 2, sent |-> 3, segments |-> 2]

Forms == INSTANCE TrackerSession WITH
    Routes <- Forming.routes, Users <- Forming.users, Timeout <- Forming.timeout, Hooks <- Forming.hooks,
    Collectors <- Forming.collectors, MaxTime <- Forming.time, MaxPages <- Forming.pages,
    MaxSent <- Forming.sent, MaxSegments <- Forming.segments
FormsAndBusiness ==
    [routes |-> {r1, r2}, users |-> {u1}, timeout |-> 2, hooks |-> {"accepts"},
     collectors |-> {"forms", "business"}, time |-> 2, pages |-> 2, sent |-> 4, segments |-> 2]

Workflow == INSTANCE SdkWorkflow WITH Flows <- Flowing
\* Workflows started by their first step, and at once.
StartedByFirstStep ==
    [triggers |-> <<"explicit_sdk", "operation_terminal">>, completed |-> 2, failed |-> None,
     firstStep |-> TRUE, timeout |-> 2, session |-> 2, active |-> 1, operations |-> 1,
     time |-> 3, instances |-> 1, ends |-> 1, faults |-> 1]
StartedAtOnce ==
    [triggers |-> <<"explicit_sdk", "explicit_sdk">>, completed |-> 2, failed |-> 1,
     firstStep |-> FALSE, timeout |-> 2, session |-> 2, active |-> 1, operations |-> 1,
     time |-> 2, instances |-> 2, ends |-> 0, faults |-> 0]
TwoWorkflows == {StartedByFirstStep, StartedAtOnce}

Policy == INSTANCE PolicySync WITH
    MaxBackoff <- Syncing.backoff, MaxRevision <- Syncing.revisions, MaxRequests <- Syncing.requests,
    MaxStarts <- Syncing.starts, MaxTime <- Syncing.time
TwoRequests == [backoff |-> 2, revisions |-> 1, requests |-> 2, starts |-> 2, time |-> 2]

Arrival == INSTANCE WorkflowArrival WITH
    Events <- Arriving.events, Definition <- Arriving.definition, MaxRows <- Arriving.rows, MaxTime <- Arriving.time
\* The events as they are stored.
Stored ==
    [id : Nat, name : STRING, instance : Nat, session : Nat, at : Nat, received : Nat,
     step : Nat \cup {None}, operation : Nat \cup {None}]
\* One instance: its start, its step, the step again with another content, two ends at one time.
Row(id, name, at, step) ==
    [id |-> id, name |-> name, instance |-> 1, session |-> 1, at |-> at, received |-> 0,
     step |-> step, operation |-> None]
FiveRows ==
    [events |-> <<Row(1, "workflow_started", 0, None), Row(2, "workflow_step_reached", 1, 1),
                  Row(2, "workflow_step_reached", 0, 1), Row(3, "workflow_completed", 1, None),
                  Row(4, "workflow_failed", 1, None)>>,
     definition |-> [steps |-> <<"explicit_sdk">>, completed |-> 1, firstStep |-> FALSE,
                     timeout |-> 2, periods |-> {[from |-> 0, to |-> None]}],
     rows |-> 5, time |-> 2]

ASSUME BrowserAssumption ==
    /\ None \notin Nat \cup Policy!Health
    /\ "accepts" \in Hooking.hooks \cap Forming.hooks /\ None \notin [user : Forms!User] \cup Forms!Context
    /\ {Forming.timeout, Forming.time, Hooking.time} \subseteq Nat
    /\ Forming.pages \in Nat \ {0} /\ Hooking.pages \in Nat \ {0}
    /\ {Syncing.revisions, Syncing.requests, Syncing.starts, Syncing.time} \subseteq Nat
    /\ Syncing.backoff \in Nat \ {0}

ASSUME WorkflowAssumption ==
    /\ \A f \in Flowing :
         /\ f.triggers \in Seq(STRING) /\ f.firstStep \in BOOLEAN /\ f.session \in Nat \ {0}
         /\ {f.timeout, f.active, f.time} \subseteq Nat
    /\ Arriving.events \in Seq(Stored) /\ {Arriving.rows, Arriving.time} \subseteq Nat

NoSession == visible = None /\ parked = None /\ hook = None /\ tab = None /\ shown = None
NoWorkflow ==
    /\ flow = None /\ sdk = None /\ operations = None /\ counters = None
    /\ storing = None /\ offered = None /\ destroyed = None
NoPolicy == policies = None /\ client = None /\ wire = None /\ health = None
NoRows == rows = None

\* What the attribution stands still in.
Unpublished == Init /\ \A v \in Versions : version[v].until = 0

BrowserInit ==
    \/ part = "attribution" /\ Init /\ NoSession /\ NoWorkflow /\ NoPolicy /\ NoRows
    \/ /\ Unpublished
       /\ \/ part = "hooked" /\ Hooked!Init /\ NoWorkflow /\ NoPolicy /\ NoRows
          \/ part = "forms" /\ Forms!Init /\ NoWorkflow /\ NoPolicy /\ NoRows
          \/ part = "workflow" /\ Workflow!Init /\ NoSession /\ NoPolicy /\ NoRows
          \/ part = "policy" /\ Policy!Init /\ NoSession /\ NoWorkflow /\ NoRows
          \/ part = "arrival" /\ Arrival!Init /\ NoSession /\ NoWorkflow /\ NoPolicy

Elsewhere == UNCHANGED <<part, attributionVars>>

BrowserNext ==
    \/ part = "attribution" /\ Next /\ UNCHANGED <<part, sessionVars, workflowVars, policyVars, rows>>
    \/ part = "hooked" /\ Hooked!Next /\ Elsewhere /\ UNCHANGED <<workflowVars, policyVars, rows>>
    \/ part = "forms" /\ Forms!Next /\ Elsewhere /\ UNCHANGED <<workflowVars, policyVars, rows>>
    \/ part = "workflow" /\ Workflow!Next /\ Elsewhere /\ UNCHANGED <<sessionVars, policyVars, rows>>
    \/ part = "policy" /\ Policy!Next /\ Elsewhere /\ UNCHANGED <<sessionVars, workflowVars, rows>>
    \/ part = "arrival" /\ Arrival!Next /\ Elsewhere /\ UNCHANGED <<sessionVars, workflowVars, policyVars>>

browserVars == <<part, vars, sessionVars, workflowVars, policyVars, rows>>

BrowserSpec == BrowserInit /\ [][BrowserNext]_browserVars

-----------------------------------------------------------------------------
\* The properties of the parts.

\* The variables of every part keep their types.
PartsTypeOK ==
    /\ TypeOK
    /\ part = "hooked" => Hooked!TypeOK
    /\ part = "forms" => Forms!TypeOK
    /\ part = "workflow" => Workflow!TypeOK
    /\ part = "policy" => Policy!TypeOK
    /\ part = "arrival" => Arrival!TypeOK

\* A duration the server reports is the time the page view was visible, and a page view that
\* was closed in its session is reported (settleVisiblePage, pageUsageWindow).
UsageIsTrue ==
    /\ part = "hooked" => Hooked!ReportedIsShown
    /\ part = "forms" => Forms!ReportedIsShown /\ Forms!ClosedIsReported

\* A form's summary names the user who filled it in, and the result of a business operation
\* belongs to the session and user of its start (FormCollector.settle, terminal).
InContext == part = "forms" => Forms!SummaryKeepsUser /\ Forms!ResultInContext

\* The SDK's own evidence about a workflow is never contradictory, and the server counts no
\* completion that took the timeout or longer; what it concludes depends on which rows are
\* stored, not on how often, when they arrived, or how a query orders rows that are equal for it
\* (WorkflowRuntime, readEvents, reduceWorkflowInstances).
WorkflowEvidence ==
    /\ part = "workflow" => Workflow!OnlyHostReasons /\ Workflow!CompletedInTime
    /\ part = "arrival" => Arrival!OrderDoesNotMatter

\* No late call revives an instance that counts as abandoned, and no late row changes what was
\* reported of an earlier moment (safe, reduceWorkflowInstances).
PastStands ==
    [][/\ part = "workflow" => Workflow!KeepsAbandoned
       /\ part = "arrival" => Arrival!KeepsReports]_browserVars

\* No policy is replaced by an older one, whatever the order of the answers, and no health
\* report brings an older policy back to the operations page (sync, observe).
PolicyAdvances ==
    [][part = "policy" => Policy!KeepsNewerPolicy /\ Policy!ShowsNewerPolicy]_browserVars
=============================================================================
