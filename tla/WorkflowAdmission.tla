--------------------------- MODULE WorkflowAdmission ---------------------------
(***************************************************************************)
(* The versions of one workflow and the periods in which each of them      *)
(* admits starts (MySqlStore, workflow_admission_periods), and a start     *)
(* that the API checks when it arrives and the consumer once more when it  *)
(* stores it (workflowEventDefinitionError).                               *)
(*                                                                         *)
(* A transaction takes its time from the clock of the API once it holds    *)
(* the row of the workflow and becomes visible when it commits; readers    *)
(* take no lock and see one committed state.                               *)
(***************************************************************************)
EXTENDS Naturals, Sequences, FiniteSets

CONSTANTS
    Skew,       \* how far a browser's clock may be ahead
    None,
    MaxTime, MaxVersions, MaxChanges   \* bounds: clock, versions, status changes

VARIABLES
    now,
    workflow,   \* committed: status, archived, versions, periods
    writing,    \* the transaction that holds the row: its result, not yet visible
    changes,    \* status changes so far, for the bound
    event       \* a workflow_started event on its way

vars == <<now, workflow, writing, changes, event>>

Version == [status : {"draft", "active", "retired"}, from : Nat \cup {None}]
Period == [version : Nat, from : Nat, to : Nat \cup {None}]
Workflow == [status : {"active", "disabled"}, archived : BOOLEAN, versions : Seq(Version), periods : SUBSET Period]

Draft == [status |-> "draft", from |-> None]

\* createWorkflowDefinition()
Init ==
    /\ now = 0
    /\ workflow = [status |-> "active", archived |-> FALSE, versions |-> <<Draft>>, periods |-> {}]
    /\ writing = None
    /\ changes = 0
    /\ event = [phase |-> "none"]

-----------------------------------------------------------------------------
\* Transactions: what each of them makes of the workflow w.

Closed(periods) ==
    {[p EXCEPT !.to = IF @ = None THEN now ELSE @] : p \in periods}

\* The period of the active version, if there is one.
Opened(w) ==
    {[version |-> v, from |-> now, to |-> None] :
        v \in {v \in DOMAIN w.versions : w.versions[v].status = "active"}}

\* updateWorkflowDefinition(); the same status again changes nothing.
WithStatus(w, status) ==
    IF w.status = status THEN w
    ELSE [w EXCEPT !.status = status,
                   !.periods = Closed(@) \cup IF status = "active" THEN Opened(w) ELSE {}]

\* saveWorkflowDraft()
WithDraft(w) ==
    IF w.versions[Len(w.versions)].status = "draft" THEN w
    ELSE [w EXCEPT !.versions = Append(@, Draft)]

\* V takes the place of the active version.
Promoted(w, v) ==
    [x \in DOMAIN w.versions |->
        IF x = v THEN [status |-> "active", from |-> now]
        ELSE IF w.versions[x].status = "active" THEN [w.versions[x] EXCEPT !.status = "retired"]
        ELSE w.versions[x]]

\* The INSERT ... SELECT that needs an enabled workflow.
OpenedFor(w, v) == IF w.status = "active" THEN {[version |-> v, from |-> now, to |-> None]} ELSE {}

\* Mutant: the version that retires keeps its period.
ActivatedMutant(w, v) ==
    [w EXCEPT !.versions = Promoted(w, v), !.periods = @ \cup OpenedFor(w, v)]

\* activateWorkflowDefinitionVersion()
Activated(w, v) ==
    [w EXCEPT !.versions = Promoted(w, v), !.periods = Closed(@) \cup OpenedFor(w, v)]

\* A transaction has the row and the time; its statements follow.
Begin(after) ==
    /\ writing = None
    /\ writing' = after
    /\ UNCHANGED <<now, workflow, event>>

UpdateStatus ==
    /\ ~workflow.archived /\ changes < MaxChanges
    /\ \E status \in {"active", "disabled"} : Begin(WithStatus(workflow, status))
    /\ changes' = changes + 1

SaveDraft ==
    /\ ~workflow.archived /\ Len(workflow.versions) < MaxVersions
    /\ Begin(WithDraft(workflow))
    /\ UNCHANGED changes

Activate ==
    /\ ~workflow.archived
    /\ \E v \in DOMAIN workflow.versions :
         workflow.versions[v].status = "draft" /\ Begin(Activated(workflow, v))
    /\ UNCHANGED changes

Archive ==
    /\ workflow.status = "disabled" /\ ~workflow.archived
    /\ Begin([workflow EXCEPT !.archived = TRUE])
    /\ UNCHANGED changes

Restore ==
    /\ workflow.archived
    /\ Begin([workflow EXCEPT !.archived = FALSE])
    /\ UNCHANGED changes

Commit ==
    /\ writing # None
    /\ workflow' = writing
    /\ writing' = None
    /\ UNCHANGED <<now, changes, event>>

Rollback ==
    /\ writing # None
    /\ writing' = None
    /\ UNCHANGED <<now, workflow, changes, event>>

-----------------------------------------------------------------------------
\* The event.

\* workflowEventDefinitionError() of a start of version V at time T, by the definitions W.
AdmittedBy(w, v, t) ==
    /\ v \in DOMAIN w.versions /\ w.versions[v].from # None
    /\ t >= w.versions[v].from
    /\ \E p \in w.periods :
         p.version = v /\ t >= p.from /\ (p.to = None \/ t < p.to)

\* Mutant: the status of the version decides, not its periods.
AdmitsMutant(v, t) == v \in DOMAIN workflow.versions /\ workflow.versions[v].status = "active"

Admits(v, t) == AdmittedBy(workflow, v, t)

\* accept(): the time was checked against the clock, the definitions are read now.
Receive ==
    /\ event.phase = "none"
    /\ \E v \in DOMAIN workflow.versions, at \in 0 .. now + Skew :
         event' = [phase |-> IF Admits(v, at) THEN "accepted" ELSE "refused", version |-> v, at |-> at,
                   read |-> now, during |-> writing # None]
    /\ UNCHANGED <<now, workflow, writing, changes>>

\* eachBatch(); a redelivery checks it again.
Consume ==
    /\ event.phase \in {"accepted", "stored"}
    /\ event' = [event EXCEPT !.phase = IF Admits(event.version, event.at) THEN "stored" ELSE "dead"]
    /\ UNCHANGED <<now, workflow, writing, changes>>

Tick ==
    /\ now < MaxTime
    /\ now' = now + 1
    /\ UNCHANGED <<workflow, writing, changes, event>>

Next ==
    \/ UpdateStatus \/ SaveDraft \/ Activate \/ Archive \/ Restore \/ Commit \/ Rollback
    \/ Receive \/ Consume \/ Tick

Spec == Init /\ [][Next]_vars

-----------------------------------------------------------------------------
\* Properties.

\* The variables keep their types.
TypeOK ==
    /\ now \in 0 .. MaxTime /\ changes \in 0 .. MaxChanges
    /\ workflow \in Workflow /\ writing \in Workflow \cup {None}
    /\ event \in [phase : {"none"}]
               \cup [phase : {"accepted", "refused", "stored", "dead"}, version : Nat, at : Nat, read : Nat,
                     during : BOOLEAN]

Covers(p, t) == t >= p.from /\ (p.to = None \/ t < p.to)

\* At no time do two versions of a workflow admit starts, and what admits them now is the
\* active version of an enabled workflow that is not archived.
OneVersionAdmits ==
    /\ \A p, q \in workflow.periods, t \in 0 .. MaxTime : Covers(p, t) /\ Covers(q, t) => p = q
    /\ {p.version : p \in {p \in workflow.periods : p.to = None}} =
         IF workflow.status = "active" /\ ~workflow.archived
         THEN {v \in DOMAIN workflow.versions : workflow.versions[v].status = "active"} ELSE {}

\* A start that was accepted is never refused by the consumer for what administrators did
\* later, if it happened before the API read the definitions and no change was under way then.
AcceptedStartStands ==
    event.phase = "dead" => event.at >= event.read \/ event.during

-----------------------------------------------------------------------------
\* The inductive invariant behind them.

Before(p, q) == p.to # None /\ p.to <= q.from

ActiveVersions(w) == {v \in DOMAIN w.versions : w.versions[v].status = "active"}

\* What is committed, and what a transaction is about to commit: periods of the past follow one
\* another, and the active version of an enabled workflow has the open one.
Fits(w) ==
    /\ \A p \in w.periods : p.from <= now /\ (p.to # None => p.to <= now)
    /\ \A p, q \in w.periods : p = q \/ Before(p, q) \/ Before(q, p)
    /\ \A p \in w.periods : p.to = None => p.version \in ActiveVersions(w)
    /\ IF w.status = "active" THEN \A v \in ActiveVersions(w) : \E p \in w.periods : p.version = v /\ p.to = None
       ELSE \A p \in w.periods : p.to # None
    /\ \A u, v \in ActiveVersions(w) : u = v
    /\ \A v \in DOMAIN w.versions : w.versions[v].status = "draft" => w.versions[v].from = None
    /\ w.archived => w.status = "disabled"

Fitting == Fits(workflow) /\ (writing # None => Fits(writing))

\* A start in the past that no change overlapped stays admitted, whatever is committed next.
Standing ==
    event.phase # "none" =>
        /\ event.read <= now
        /\ event.phase # "refused" /\ event.at < event.read /\ ~event.during =>
             /\ event.phase # "dead" /\ AdmittedBy(workflow, event.version, event.at)
             /\ writing # None => AdmittedBy(writing, event.version, event.at)
=============================================================================
