----------------------------- MODULE MetricLibrary -----------------------------
(***************************************************************************)
(* The versions of one metric library of a project (MetricLibraryService)  *)
(* and of the score that belongs to each version (ScoreManagementService). *)
(* A transaction is one step: it holds the row of the version it writes    *)
(* from its first statement to its commit, and the row of the project when *)
(* it creates or activates a version.  What a request reads before its     *)
(* transaction is a step of its own.  A transaction that fails, as the     *)
(* victim of a deadlock too, leaves nothing behind.                        *)
(***************************************************************************)
EXTENDS Integers, Sequences, FiniteSets

CONSTANTS
    Admins,
    Business,   \* keys of business metrics
    System,     \* keys of system metrics
    Initially,  \* the catalog of the first deployment: [System -> Statuses]
    Families,   \* the refresh operations: the keys they take from the catalog, and whether they
                \* also discard the review
    Formulas,   \* sets of keys a formula may use
    Surfaces,   \* sets of keys that may be displayed, or scored
    Template,   \* the leaves of the score template a project begins with
    MaxVersions, MaxSaves,   \* bounds
    None

Statuses == {"implemented", "partial", "not_collected"}

VARIABLES
    catalog,   \* METRIC_CATALOG of the running deployment
    versions,  \* metric_library_versions with their definitions, bindings and score
    periods,   \* metric_activation_periods
    request,   \* what each administrator's request has read and written so far
    saves,     \* requests so far, for the bound
    seen       \* history: the contents reviews were made of

vars == <<catalog, versions, periods, request, saves, seen>>

Keys == Business \cup System
Metric == [deps : SUBSET Keys, status : Statuses]
Definitions == [Keys -> Metric \cup {None}]
Digests == [version : Nat, metrics : Definitions, leaves : SUBSET Keys, bindings : SUBSET Keys]
Score == [leaves : SUBSET Keys, confirmed : BOOLEAN, reviewed : Digests \cup {None}]
Row == [status : {"draft", "active", "superseded", "abandoned"}, source : Nat \cup {None},
        metrics : Definitions, bindings : SUBSET Keys, score : Score \cup {None}]
Period == [version : Nat, open : BOOLEAN]

Having(status) == {v \in DOMAIN versions : versions[v].status = status}
SystemMetrics(c) == [k \in Keys |-> IF k \in System THEN [deps |-> {}, status |-> c[k]] ELSE None]

\* createProject() with initializeProjectDraft() and initializeProject().
Init ==
    /\ catalog = Initially
    /\ versions = <<[status |-> "draft", source |-> None, metrics |-> SystemMetrics(Initially),
                     bindings |-> {},
                     score |-> [leaves |-> Template, confirmed |-> FALSE, reviewed |-> None]]>>
    /\ periods = <<>>
    /\ request = [a \in Admins |-> None]
    /\ saves = 0
    /\ seen = {}

-----------------------------------------------------------------------------
\* Metrics and formulas.  M maps the keys of a version to their definitions.

Defined(M) == {k \in Keys : M[k] # None}

Deps(M) == [k \in Defined(M) |-> M[k].deps]

\* What K depends on, K included.
Upstream(deps, K) ==
    LET upstream[n \in 0 .. Cardinality(DOMAIN deps)] ==
            IF n = 0 THEN K
            ELSE upstream[n - 1] \cup UNION {deps[k] : k \in upstream[n - 1] \cap DOMAIN deps}
    IN  upstream[Cardinality(DOMAIN deps)]

Closure(M, K) == Upstream(Deps(M), K)

Cyclic(M, k) == k \in Closure(M, M[k].deps)

\* validateMetricVersionSnapshot(): every formula resolves and there is no cycle.
Valid(M) == \A k \in Defined(M) : M[k].deps \subseteq Defined(M) /\ ~Cyclic(M, k)

\* deriveImplementationStatus()
Worst(S) ==
    CASE "not_collected" \in S -> "not_collected"
      [] "partial" \in S -> "partial"
      [] OTHER -> "implemented"

\* The status of a business metric follows from the system metrics it is built from.
Derived(M, k) == Worst({M[j].status : j \in Closure(M, {k}) \cap System})

Derive(M) ==
    [k \in Keys |-> IF k \in System \/ M[k] = None THEN M[k] ELSE [M[k] EXCEPT !.status = Derived(M, k)]]

\* validateScoreConfiguration(): what can be told about the leaves without facts.
Scorable(M, leaves) ==
    \A k \in Closure(M, leaves) : k \in Defined(M) /\ ~Cyclic(M, k)

-----------------------------------------------------------------------------
\* createDraft(), under the project's lock.

\* The draft a request for the given source (None: the active version) leads to.
Source(requested) ==
    IF requested # None THEN requested
    ELSE IF Having("active") = {} THEN None ELSE CHOOSE v \in Having("active") : TRUE

\* A score without its review.
Discard(score) == IF score = None THEN None ELSE [score EXCEPT !.reviewed = None]

Copy(source) ==
    IF source = None
    THEN [status |-> "draft", source |-> None, metrics |-> SystemMetrics(catalog),
          bindings |-> {}, score |-> None]
    ELSE LET from == versions[source]
         IN  [from EXCEPT !.status = "draft", !.source = source,
                          !.score = Discard(@)]

\* An open draft answers a request for itself or for its own source ...
Reusable(requested) ==
    {d \in Having("draft") : d = requested \/ versions[d].source = Source(requested)}

\* Mutant: two requests create a draft each.
CreatableMutant(requested) ==
    Len(versions) < MaxVersions /\ IF requested = None THEN TRUE ELSE versions[requested].status # "abandoned"

\* ... and refuses every other one.
Creatable(requested) ==
    /\ Having("draft") = {} /\ Len(versions) < MaxVersions
    /\ IF requested = None THEN TRUE ELSE versions[requested].status # "abandoned"

CreateDraft ==
    \E requested \in (DOMAIN versions) \cup {None} :
        /\ Creatable(requested)
        /\ versions' = Append(versions, Copy(Source(requested)))
        /\ UNCHANGED <<catalog, periods, request, saves, seen>>

-----------------------------------------------------------------------------
\* Requests that write to a draft: a metric, its deletion, the bindings or the score.  The
\* controller or the service looks at the version first and creates a draft if it is not one.

Writes ==
    [kind : {"metric"}, key : Business, keys : Formulas]
    \cup [kind : {"delete"}, key : Business]
    \cup [kind : {"bindings"}, keys : Surfaces]
    \cup [kind : {"score"}, keys : Surfaces \ {{}}, confirmed : BOOLEAN]

\* What is validated against the draft before the transaction.
Prevalid(M, w) ==
    CASE w.kind = "metric" -> w.keys \subseteq Defined(M) \cup System /\ w.key \notin w.keys
      [] w.kind = "score" -> Scorable(M, w.keys)
      [] OTHER -> TRUE

Prepare(a) ==
    /\ request[a] = None /\ saves < MaxSaves
    /\ \E v \in DOMAIN versions, w \in Writes :
         LET old == Reusable(v)
             target == IF versions[v].status = "draft" THEN v
                       ELSE IF old # {} THEN CHOOSE d \in old : TRUE ELSE Len(versions) + 1
             all == IF target \in DOMAIN versions THEN versions ELSE Append(versions, Copy(v))
         IN  /\ target \in DOMAIN versions \/ Creatable(v)
             /\ Prevalid(all[target].metrics, w)
             /\ versions[v].status # "abandoned"
             /\ versions' = all
             /\ request' = [request EXCEPT ![a] = [step |-> "write", write |-> w, version |-> target]]
    /\ saves' = saves + 1
    /\ UNCHANGED <<catalog, periods, seen>>

\* The contents of a version after a write, None if the transaction refuses it.
ScoreLeaves(row) == IF row.score = None THEN {} ELSE row.score.leaves

\* A metric that exists keeps its status until the version is activated.
SaveBusinessMetric(row, w) ==
    LET old == row.metrics[w.key]
    IN  [row EXCEPT !.metrics[w.key] =
            [deps |-> w.keys, status |-> IF old = None THEN "not_collected" ELSE old.status]]

\* Mutant: what is displayed or scored is deleted too.
DeleteBusinessMetricMutant(row, w) ==
    IF w.key \notin Defined(row.metrics) THEN None
    ELSE [row EXCEPT !.metrics[w.key] = None]

\* The foreign keys of bindings and score items keep a metric that is displayed or scored.
DeleteBusinessMetric(row, w) ==
    IF w.key \notin Defined(row.metrics) \/ w.key \in row.bindings \cup ScoreLeaves(row) THEN None
    ELSE [row EXCEPT !.metrics[w.key] = None]

SaveDisplayBindings(row, w) ==
    IF \E k \in w.keys : k \notin Defined(row.metrics) \/ row.metrics[k].status = "not_collected"
    THEN None
    ELSE [row EXCEPT !.bindings = w.keys, !.score = Discard(@)]

SaveScore(row, w) ==
    IF w.keys \subseteq Defined(row.metrics)
    THEN [row EXCEPT !.score = [leaves |-> w.keys, confirmed |-> w.confirmed, reviewed |-> None]]
    ELSE None

Written(row, w) ==
    CASE w.kind = "metric" -> SaveBusinessMetric(row, w)
      [] w.kind = "delete" -> DeleteBusinessMetric(row, w)
      [] w.kind = "bindings" -> SaveDisplayBindings(row, w)
      [] w.kind = "score" -> SaveScore(row, w)

\* Mutant: the version is not looked at again under its lock.
StillDraftMutant(v) == TRUE

StillDraft(v) == versions[v].status = "draft"

At(a, step) == request[a] # None /\ request[a].step = step

Write(a) ==
    /\ At(a, "write")
    /\ LET v == request[a].version
           row == Written(versions[v], request[a].write)
       IN  versions' = IF StillDraft(v) /\ row # None THEN [versions EXCEPT ![v] = row] ELSE versions
    /\ request' = [request EXCEPT ![a] = None]
    /\ UNCHANGED <<catalog, periods, saves, seen>>

\* A connection is lost, or a deadlock is resolved at the request's expense.
Fail(a) ==
    /\ request[a] # None
    /\ request' = [request EXCEPT ![a] = None]
    /\ UNCHANGED <<catalog, versions, periods, saves, seen>>

\* refreshWorkflowFacts(), refreshR4CFacts(), refreshQualityFacts(), refreshPageUsageFacts()
Refreshed(row, f) ==
    [row EXCEPT !.metrics = [k \in Keys |-> IF k \in f.keys THEN [deps |-> {}, status |-> catalog[k]] ELSE @[k]],
                !.score = IF f.resets THEN Discard(@) ELSE @]

Refresh(v) ==
    /\ StillDraft(v)
    /\ \E f \in Families : versions' = [versions EXCEPT ![v] = Refreshed(@, f)]
    /\ UNCHANGED <<catalog, periods, request, saves, seen>>

AbandonDraft(v) ==
    /\ StillDraft(v)
    /\ versions' = [versions EXCEPT ![v].status = "abandoned"]
    /\ UNCHANGED <<catalog, periods, request, saves, seen>>

-----------------------------------------------------------------------------
\* Review and activation.

\* snapshotDigest() and reviewDigest(): a digest stands for what it was made of.
Digest(v, metrics, leaves, bindings) ==
    [version |-> v, metrics |-> metrics, leaves |-> leaves, bindings |-> bindings]

DigestOf(v) == Digest(v, versions[v].metrics, ScoreLeaves(versions[v]), versions[v].bindings)

\* review() reads the bindings, the definitions and the score one after the other.
ReadBindings(a) ==
    /\ request[a] = None /\ saves < MaxSaves
    /\ \E v \in DOMAIN versions :
         request' = [request EXCEPT ![a] =
             [step |-> "bindings", version |-> v, bindings |-> versions[v].bindings]]
    /\ saves' = saves + 1
    /\ UNCHANGED <<catalog, versions, periods, seen>>

ReadDefinitions(a) ==
    /\ At(a, "bindings")
    /\ request' = [request EXCEPT ![a] =
         [step |-> "definitions", version |-> @.version, bindings |-> @.bindings,
          metrics |-> versions[@.version].metrics]]
    /\ UNCHANGED <<catalog, versions, periods, saves, seen>>

ReadScore(a) ==
    /\ At(a, "definitions")
    /\ LET r == request[a]
           digest == Digest(r.version, r.metrics, ScoreLeaves(versions[r.version]), r.bindings)
       IN  /\ versions[r.version].score # None
           /\ Scorable(r.metrics, digest.leaves)
           /\ request' = [request EXCEPT ![a] = [step |-> "review", version |-> r.version, digest |-> digest]]
           /\ seen' = seen \cup {digest}
    /\ UNCHANGED <<catalog, versions, periods, saves>>

\* The preview and the trial are behind it: by now the draft may be another one.
RecordReview(a) ==
    /\ At(a, "review")
    /\ versions' = [versions EXCEPT ![request[a].version].score.reviewed = request[a].digest]
    /\ request' = [request EXCEPT ![a] = None]
    /\ UNCHANGED <<catalog, periods, saves, seen>>

\* Mutant: any review will do.
ReviewedMutant(v) == versions[v].score.reviewed # None

Reviewed(v) == versions[v].score.reviewed = DigestOf(v)

\* validateStoredScore()
ScoreAllows(v) ==
    IF versions[v].score = None THEN TRUE
    ELSE /\ versions[v].score.confirmed
         /\ Scorable(versions[v].metrics, versions[v].score.leaves)
         /\ Reviewed(v)

\* Mutant: the statuses of the draft are taken as they are.
ActivatedMutant(row) == row.metrics

\* Only a draft's statuses are derived; a version that was active before keeps its own.
Activated(row) == IF row.status = "draft" THEN Derive(row.metrics) ELSE row.metrics

\* Mutant: the version before it stays active.
SupersedeMutant(row) == row

Supersede(row) == IF row.status = "active" THEN [row EXCEPT !.status = "superseded"] ELSE row

\* recordMetricActivation()
NextPeriods(v) == Append([p \in DOMAIN periods |-> [periods[p] EXCEPT !.open = FALSE]],
                         [version |-> v, open |-> TRUE])

Activate(v) ==
    /\ versions[v].status \in {"draft", "superseded"}
    /\ Len(periods) <= MaxVersions
    /\ ScoreAllows(v)
    /\ Valid(versions[v].metrics)
    /\ LET metrics == Activated(versions[v])
       IN  /\ \A k \in versions[v].bindings : metrics[k].status # "not_collected"
           /\ versions' = [[u \in DOMAIN versions |-> Supersede(versions[u])]
                             EXCEPT ![v].status = "active", ![v].metrics = metrics]
    /\ periods' = NextPeriods(v)
    /\ UNCHANGED <<catalog, request, saves, seen>>

\* A deployment whose catalog knows more.
Upgrade ==
    /\ \E k \in System : catalog[k] # "implemented" /\ catalog' = [catalog EXCEPT ![k] = "implemented"]
    /\ UNCHANGED <<versions, periods, request, saves, seen>>

Next ==
    \/ CreateDraft \/ Upgrade
    \/ \E a \in Admins :
         \/ Prepare(a) \/ Write(a) \/ Fail(a)
         \/ ReadBindings(a) \/ ReadDefinitions(a) \/ ReadScore(a) \/ RecordReview(a)
    \/ \E v \in DOMAIN versions : Refresh(v) \/ AbandonDraft(v) \/ Activate(v)

Spec == Init /\ [][Next]_vars

-----------------------------------------------------------------------------
\* Properties.

Complete(row) == System \cup row.bindings \cup ScoreLeaves(row) \subseteq Defined(row.metrics)

Pending ==
    [step : {"write"}, write : Writes, version : Nat]
    \cup [step : {"bindings"}, version : Nat, bindings : SUBSET Keys]
    \cup [step : {"definitions"}, version : Nat, bindings : SUBSET Keys, metrics : Definitions]
    \cup [step : {"review"}, version : Nat, digest : Digests]

\* The variables keep their types, and what is displayed or scored is defined.
TypeOK ==
    /\ catalog \in [System -> Statuses]
    /\ versions \in Seq(Row) /\ Len(versions) \in 1 .. MaxVersions
    /\ \A v \in DOMAIN versions : Complete(versions[v])
    /\ periods \in Seq(Period)
    /\ request \in [Admins -> Pending \cup {None}]
    /\ \A a \in Admins : request[a] # None => request[a].version \in DOMAIN versions
    /\ saves \in 0 .. MaxSaves /\ seen \subseteq Digests

\* However requests overlap, there is one draft and one active version at most, and the
\* activation periods tell which version is active.
OneOfEach ==
    /\ Cardinality(Having("draft")) <= 1 /\ Cardinality(Having("active")) <= 1
    /\ {periods[p].version : p \in {q \in DOMAIN periods : periods[q].open}} = Having("active")

\* The active version is sound although metrics were saved, deleted, displayed and refreshed
\* by requests that looked at other contents: every formula resolves without a cycle, every
\* status follows from the version's own system metrics, nothing displayed is uncollected
\* and the score can be evaluated.
Sound(row) ==
    /\ Valid(row.metrics)
    /\ row.metrics = Derive(row.metrics)
    /\ \A k \in row.bindings : row.metrics[k].status # "not_collected"
    /\ row.score # None => Scorable(row.metrics, row.score.leaves)

ActiveIsSound == \A v \in Having("active") : Sound(versions[v])

\* What has been active, or given up, is history: no request, late as it may be, changes the
\* definitions, the bindings or the score of a version that is not a draft.
KeepsHistory ==
    \A v \in DOMAIN versions : versions[v].status # "draft" =>
        /\ versions'[v].metrics = versions[v].metrics
        /\ versions'[v].bindings = versions[v].bindings
        /\ ScoreLeaves(versions'[v]) = ScoreLeaves(versions[v])
        /\ versions[v].status = "abandoned" => versions'[v].status = "abandoned"
        /\ versions'[v].status # "draft"

\* A scored version becomes active only with the contents a review was made of: a changed
\* draft cannot use an old review (score-management.ts:810).
ActivatesReviewed ==
    \A v \in DOMAIN versions :
        versions[v].status # "active" /\ versions'[v].status = "active" /\ versions[v].score # None
            => DigestOf(v) \in seen

-----------------------------------------------------------------------------
\* The inductive invariant behind them.

Single(status) == \A u, v \in Having(status) : u = v

\* One draft, one active version, whose period is the open one.
Singles ==
    /\ Single("draft") /\ Single("active")
    /\ {periods[p].version : p \in {q \in DOMAIN periods : periods[q].open}} = Having("active")

\* A version that was active may become so again: it stays sound.
HistoryIsSound == \A v \in Having("active") \cup Having("superseded") : Sound(versions[v])

\* A review that is recorded, or about to be, was made.
ReviewsWereMade ==
    /\ \A v \in DOMAIN versions : versions[v].score # None => versions[v].score.reviewed \in seen \cup {None}
    /\ \A a \in Admins : At(a, "review") =>
         request[a].digest \in seen /\ versions[request[a].version].score # None
=============================================================================
