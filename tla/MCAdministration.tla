---------------------------- MODULE MCAdministration ----------------------------
(***************************************************************************)
(* What administrators do, for TLC.  The parts share no state, so an       *)
(* initial state chooses one of them and the others stand still: the       *)
(* source maps, with the module's own constants and variables, the metric  *)
(* library, modules with their pages and workflows, the admission periods  *)
(* of a workflow, revisions and settings, and projects with their members. *)
(***************************************************************************)
EXTENDS SourceMapStore, TLC

CONSTANTS
    Admins, Business, System, Initially, Families, Formulas, Surfaces, Template,   \* MetricLibrary
    Modules, Pages, Workflows,     \* AnalysisObjects
    Requests,                      \* of AnalysisObjects and of EffectiveVersions
    Skew,                          \* WorkflowAdmission
    Users, Creator, Inputs, MemberRequests,   \* Projects
    MaxVersions, MaxSaves, MaxRevisions, MaxChanges, MaxProjects, MaxTime   \* bounds

\* The instance that is checked: two contents, system and business metrics.
CONSTANTS x, y, b1, b2, s1, s2

VARIABLES
    part,        \* which component this behaviour is about
    request,     \* of MetricLibrary, AnalysisObjects, EffectiveVersions, Projects
    now,         \* of WorkflowAdmission, EffectiveVersions
    catalog, versions, periods, saves, seen,     \* MetricLibrary
    module, object, raced,                       \* AnalysisObjects
    workflow, writing, changes, event,           \* WorkflowAdmission
    revisions, settings,                         \* EffectiveVersions
    creation, projects, answers                  \* Projects

\* Two identities of artifacts, the first of which is built differently each time.
BothOfFirst == {<<1, x>>, <<1, y>>, <<2, x>>}

\* One system metric is implemented, and two families take the other one from the catalog.
OneImplemented == [k \in {s1, s2} |-> IF k = s1 THEN "implemented" ELSE "not_collected"]
TwoFamilies == {[keys |-> {s2}, resets |-> FALSE], [keys |-> {s2}, resets |-> TRUE]}

Symmetry == Permutations(Uploads)

metricVars == <<catalog, versions, periods, saves, seen>>
objectVars == <<module, object, raced>>
admissionVars == <<workflow, writing, changes, event>>
effectiveVars == <<revisions, settings>>
projectVars == <<creation, projects, answers>>

Metrics == INSTANCE MetricLibrary
Objects == INSTANCE AnalysisObjects
Admission == INSTANCE WorkflowAdmission
Effective == INSTANCE EffectiveVersions WITH MaxVersions <- MaxRevisions
Members == INSTANCE Projects WITH Requests <- MemberRequests

\* None stands for what is not there, so it is nothing else; the sets fit one another.
ASSUME AdministrationAssumption ==
    /\ None \notin Nat \cup Modules \cup Members!Roles
    /\ None \notin Metrics!Digests /\ None \notin Metrics!Score /\ None \notin Metrics!Metric
    /\ None \notin Objects!Pending /\ None \notin Admission!Workflow
    /\ None \notin Members!Creation /\ None \notin Members!Transaction
    /\ Business \cap System = {} /\ Template \subseteq System /\ Initially \in [System -> Metrics!Statuses]
    /\ Formulas \subseteq SUBSET Metrics!Keys /\ Surfaces \subseteq SUBSET Metrics!Keys
    /\ Families \subseteq [keys : SUBSET System, resets : BOOLEAN]
    /\ MaxVersions \in Nat \ {0} /\ MaxSaves \in Nat /\ MaxTime \in Nat /\ Skew \in Nat /\ MaxChanges \in Nat
    /\ Creator \in Users

NoMetrics == catalog = None /\ versions = None /\ periods = None /\ saves = None /\ seen = None
NoObjects == module = None /\ object = None /\ raced = None
NoAdmission == workflow = None /\ writing = None /\ changes = None /\ event = None
NoEffective == revisions = None /\ settings = None
NoProjects == creation = None /\ projects = None /\ answers = None

AdministrationInit ==
    /\ Init
    /\ \/ /\ part = "sourcemaps" /\ request = None /\ now = None
          /\ NoMetrics /\ NoObjects /\ NoAdmission /\ NoEffective /\ NoProjects
       \/ /\ part = "metrics" /\ Metrics!Init /\ now = None
          /\ NoObjects /\ NoAdmission /\ NoEffective /\ NoProjects
       \/ /\ part = "objects" /\ Objects!Init /\ now = None
          /\ NoMetrics /\ NoAdmission /\ NoEffective /\ NoProjects
       \/ /\ part = "admission" /\ Admission!Init /\ request = None
          /\ NoMetrics /\ NoObjects /\ NoEffective /\ NoProjects
       \/ /\ part = "effective" /\ Effective!Init
          /\ NoMetrics /\ NoObjects /\ NoAdmission /\ NoProjects
       \/ /\ part = "projects" /\ Members!Init /\ now = None
          /\ NoMetrics /\ NoObjects /\ NoAdmission /\ NoEffective

Elsewhere == UNCHANGED <<part, vars>>

AdministrationNext ==
    \/ /\ part = "sourcemaps" /\ Next
       /\ UNCHANGED <<part, request, now, metricVars, objectVars, admissionVars, effectiveVars, projectVars>>
    \/ /\ part = "metrics" /\ Metrics!Next /\ Elsewhere
       /\ UNCHANGED <<now, objectVars, admissionVars, effectiveVars, projectVars>>
    \/ /\ part = "objects" /\ Objects!Next /\ Elsewhere
       /\ UNCHANGED <<now, metricVars, admissionVars, effectiveVars, projectVars>>
    \/ /\ part = "admission" /\ Admission!Next /\ Elsewhere
       /\ UNCHANGED <<request, metricVars, objectVars, effectiveVars, projectVars>>
    \/ /\ part = "effective" /\ Effective!Next /\ Elsewhere
       /\ UNCHANGED <<metricVars, objectVars, admissionVars, projectVars>>
    \/ /\ part = "projects" /\ Members!Next /\ Elsewhere
       /\ UNCHANGED <<now, metricVars, objectVars, admissionVars, effectiveVars>>

administrationVars ==
    <<part, vars, request, now, metricVars, objectVars, admissionVars, effectiveVars, projectVars>>

AdministrationSpec == AdministrationInit /\ [][AdministrationNext]_administrationVars

-----------------------------------------------------------------------------
\* The properties of the parts.

\* The variables of every part keep their types.
PartsTypeOK ==
    /\ TypeOK
    /\ part = "metrics" => Metrics!TypeOK
    /\ part = "objects" => Objects!TypeOK
    /\ part = "admission" => Admission!TypeOK
    /\ part = "effective" => Effective!TypeOK
    /\ part = "projects" => Members!TypeOK

\* However requests overlap, a library has one draft and one active version at most, and what
\* is active resolves, is derived from its own metrics and can be evaluated (createDraft,
\* activateVersion).
MetricVersions == part = "metrics" => Metrics!OneOfEach /\ Metrics!ActiveIsSound

\* No request, late as it may be, changes a version that is not a draft, and a scored version
\* becomes active only with contents that a review was made of (assertDraft, review).
MetricHistory ==
    [][part = "metrics" => Metrics!KeepsHistory /\ Metrics!ActivatesReviewed]_administrationVars

\* An open page or workflow lies in a module that is not archived, unless the module was
\* archived between a request's look at it and its commit (archiveModule).
OpenIsHeld == part = "objects" => Objects!OpenIsHeld

\* At every time one version of a configuration is in force and at most one version of a
\* workflow admits starts; a start accepted under it is not refused later (updateModule,
\* createOperationalSettingsVersion, activateWorkflowDefinitionVersion).
OneInForce ==
    /\ part = "effective" => Effective!OneInForce
    /\ part = "admission" => Admission!OneVersionAdmits /\ Admission!AcceptedStartStands

\* A project that is created again under the same request id is created once, and keeps an
\* owner however its owners remove one another (createProject, removeProjectMember).
ProjectsKept == part = "projects" => Members!OwnerRemains /\ Members!CreatedOnce
=============================================================================
