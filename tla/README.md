# Frontend Insight: a verification project

TLA+ models of [frontend-insight](../src), a web-analytics system: a browser SDK
collects events and diagnostic evidence, an HTTP API validates and enriches them,
Kafka carries them, a consumer writes them to ClickHouse and MySQL, and read
models compute what the web application shows.

    browser SDK ──HTTP──▶ API (ingestion) ──▶ Kafka ──▶ consumer ──▶ ClickHouse
        ▲   │                  │  ▲                        │            │
        │   └ session storage  ▼  │                        ▼            ▼
        └── policy, manifest ─ MySQL (registry, receipts, versions) ◀─ read models ◀─ web

Source paths below are relative to `src/`. `SRV` is `packages/server-core/src`,
`SDK` is `packages/web-tracker/src`, `WEB` is `apps/web/src`.

Contents: [inventory](#inventory), [modules](#modules),
[state and actions](#state-and-actions-against-the-code), [runs](#runs),
[bounds](#why-the-bounds-are-enough), [fairness](#fairness),
[disagreements](#disagreements-found), [proofs](#proofs),
[what else was noticed](#what-else-the-models-show), [not modelled](#not-modelled), [plan](#plan).

## Inventory

| component | state it keeps | operations | what is hard |
|---|---|---|---|
| **Diagnostic evidence** (`SRV/runtime-diagnostics.ts`, `SRV/diagnostic-operations.ts`) | policy row, receipts, per-minute page windows, deletion tombstones (MySQL); detail rows (ClickHouse) | `admit`, `persist`, `publish` policy, `remove`, `isDeleted`, two `cleanup`s, `read`, `exportEvidence`, `search`, `grant`, `observe` | retries of one event race each other, a deletion, a policy change and a consumer that already read the receipt; two stores without a common transaction |
| **Ingestion** (`SRV/pipeline.ts`) | 30 s project cache, per-origin rate windows, chain of Kafka transactions | `accept`, `invalidateProject`, `publish`, `publishWithObjects` | the order of the checks; failure after a durable admission; cached copies of what is being changed |
| **Event consumer** (`apps/consumer/src/index.ts`) | per-batch attempt counters, paused partitions, `ready`, committed offsets | `eachBatch`, dead letter, resume timer, cleanup, shutdown | at-least-once delivery, a crash between any two writes, poison batches, pauses |
| **Tracker queue** (`SDK/tracker.ts`) | event queue, `flushing`, counters | `emit`, `flush`, `send`, `destroy` | a flush suspended in `send` while the page emits, hides or destroys the tracker |
| **Page usage, forms, business operations** (`SDK/tracker.ts`, `forms.ts`, `SRV/page-usage.ts`) | session, page view, visible segments, open form and operation | page hide/show/visibility/route handlers, settlement, reconstruction of durations | hooks of the host that throw in the middle of a handler; sessions that expire while something is open |
| **SDK workflow runtime** (`SDK/workflow.ts`) and **workflow facts** (`SRV/workflow-reducer.ts`) | active instances, operation counts, session storage; none on the server | create/restore, reach, finish, release, operations, destroy; reduce | restore after navigation, timeouts against late calls, rows stored twice and in any order |
| **SDK policy** (`SDK/policy.ts`) | generation, request numbers, published policy, sync state | `sync`, `start`, `destroy`, `reportHealth` | answers out of order, destroy while a request is in flight |
| **SDK collectors** (`SDK/quality.ts`, `requests.ts`; `SRV/quality-facts.ts`) | counters of a page view, records of requests | capture hooks, settlement, freezing of evidence | calls that outlive their page, batches that are lost |
| **Organization directory** (`SRV/organization-directory.ts`) | directory versions | create, publish, `directoryAt`, consumer's attribution check | publication time against event time and receive time |
| **Metric library and scores** (`SRV/metric-library.ts`, `formula.ts`, `score-*.ts`) | metric versions, activation periods, scores and reviews | draft, metrics, bindings, activate, abandon, preview; review, evaluate | concurrent administrators; dependencies between formulas; partial data |
| **Modules, pages, workflows, settings** (`SRV/mysql-store.ts`) | archived flags, draft/active/retired versions, admission periods, revisions in force | create, move, archive, restore, activate, enable/disable | rows that different transactions lock, or only read |
| **Source maps** (`SRV/sourcemaps.ts`) | artifact rows, files | upload, remove, cleanup | a file system and a database without a common transaction |
| **Repeated operations** (`SRV/repeated-projection.ts`, `repeated-operation.ts`) | operation references and proofs (ClickHouse) | project, read the rate | redelivery, reordering and crash between two inserts |
| **Export interfaces** (`SRV/settings.ts`) | interface, credentials, per-minute windows | authorize, rotate, revoke, export | a credential revoked or a limit reached while a request is authorized |
| **Projects and members** (`SRV/mysql-store.ts`) | projects, members | create, add, change, remove, last-owner rule | owners who remove one another, creation repeated under one request id |
| **Sessions** (`SRV/auth.ts`, `WEB` API client) | refresh sessions; cookie and access tokens in the tabs | login, refresh, logout, expiry | tabs that refresh with one cookie, lost answers, a logout during a refresh |
| **Connection pool** (`SRV/mysql-store.ts`, `SRV/metric-library.ts`) | connections in use, waiting requests | take, query, release | requests that need a second connection while they hold one |
| **Analysis views, metric panel** (`WEB/views`, `WEB/components/MetricLibraryPanel.vue`) | scope, loaded data, calls under way, editor | load, navigate, leave, preview, save | answers late, out of order, failed; navigation while something is being left |

Read, and without state that several actors share: event contract (validator,
generated types), HTTP controllers, usage sources, migrations, the other views of
the web application, demo, tools.

`PROJECT.json` lists under `hazards` what in this code is hard to test, at its
line, with the properties that cover it.

## Modules

| module | models | code |
|---|---|---|
| `DiagnosticReceipts` | the life of a project's diagnostic evidence across API, Kafka and consumer | `SRV/runtime-diagnostics.ts`, `diagnostic-operations.ts`, `pipeline.ts` |
| `DiagnosticEvidence` | what that pipeline promises for one event, as a reader of its detail page sees it | abstract |
| `DiagnosticReading` | a reader beside the whole of `DiagnosticReceipts`: detail, export and search under a grant | `SRV/runtime-diagnostics.ts` |
| `EventConsumer` | the consumer group: batches, dead letters, stores, offsets, pauses, rebalances, stops, crashes | `apps/consumer/src/index.ts` |
| `EventDelivery` | what the group promises of the messages in Kafka | abstract |
| `EventIngestion` | project cache, limiter, probes, chained transactions | `SRV/pipeline.ts` |
| `DirectoryAttribution` | directory versions, the API's attribution and the consumer's check | `SRV/organization-directory.ts`, `pipeline.ts`, consumer |
| `RepeatedOperations` | the object topic, the projection with each await, the rate | `SRV/repeated-projection.ts`, `repeated-operation.ts` |
| `TrackerQueue` | the event queue of the SDK and its flush loop | `SDK/tracker.ts` |
| `TrackerSession` | sessions, page views, visible time, forms and operations, and the durations the server reports | `SDK/tracker.ts`, `forms.ts`, `SRV/page-usage.ts` |
| `WorkflowReducer` | what the server concludes from the events of workflow instances | `SRV/workflow-reducer.ts` |
| `SdkWorkflow` | workflow instances in one tab with its session storage; extends `WorkflowReducer`, which reads what it emits | `SDK/workflow.ts` |
| `WorkflowArrival` | the query over rows that arrive in any order and several times, and the reduction of what it returns | `SRV/workflow-facts.ts`, `workflow-reducer.ts` |
| `PolicySync` | the policy adapter, its health reports and the server's observation of them | `SDK/policy.ts`, `SRV/diagnostic-operations.ts` |
| `QualityFacts` | quality counters of page views on their way to the rates | `SDK/quality.ts`, `tracker.ts`, `SRV/quality-facts.ts` |
| `RequestEvidence` | the request records an error freezes | `SDK/requests.ts` |
| `SourceMapStore` | artifact rows in MySQL and files on a disk | `SRV/sourcemaps.ts` |
| `MetricLibrary` | versions of a metric library with their scores under concurrent administrators | `SRV/metric-library.ts`, `score-*.ts` |
| `AnalysisObjects` | modules with their pages and workflows | `SRV/mysql-store.ts` |
| `WorkflowAdmission` | versions of a workflow and their admission periods against a start | `SRV/mysql-store.ts`, `workflow-definitions.ts` |
| `EffectiveVersions` | revisions of modules and operational settings in force | `SRV/mysql-store.ts` |
| `Projects` | creation under a request id, members | `SRV/mysql-store.ts` |
| `AuthSessions` | refresh tokens, tabs and their cookie | `SRV/auth.ts`, `WEB` |
| `ExportInterfaces` | scopes, credentials and windows of an export interface | `SRV/settings.ts` |
| `ConnectionPool` | a bounded pool with a queue | `SRV/mysql-store.ts`, `SRV/metric-library.ts` |
| `Formulas`, `MetricReaders` | parsing, units, evaluation and order of formulas; the readers that evaluate them | `SRV/formula.ts`, `metric-library.ts`, `score-evaluation.ts`, `project-overview.ts`, `quality-binding.ts` |
| `MetricFormulas`, `ScoreEvaluation` | an administrator editing formulas; a score while facts change | `SRV/metric-library.ts`, `score-evaluation.ts`, `WEB` |
| `AnalysisViews`, `MetricPanel` | what the web application shows of answers that come late or fail | `WEB` |
| `*Proofs` | the theorems about the module or the parts they extend; `DiagnosticReceiptsProofs` also those about `RequestEvidence`, `AdministrationProofs` those about source maps and the metric library, `WebProofs` those about the views and the panel | |
| `MC*` | the instances TLC checks | |

How they compose. `DiagnosticReceipts` itself joins three components, because its
hazards lie between them: a request of the API, a worker of the consumer and the
administrator are actors over the same MySQL rows; `DiagnosticReading` adds the
reader. `EventConsumer` looks at the same consumer from the side of Kafka: its
`Write` stands for persisting the details of an envelope, which
`DiagnosticReceipts` opens up, and for the projection, which `RepeatedOperations`
opens up; the mismatch `DirectoryAttribution` finds is one of the reasons for
which a message is `withdrawn` there. `SdkWorkflow` is joined with the server's
reducer, `TrackerSession` with the server's durations and `QualityFacts` with the
server's rates, so that a property compares what happened in the browser with
what is answered in the end.

The `MC` modules named `...Parts`, `MCBrowser`, `MCServices` and `MCAdministration` put
components into one run that share nothing with one another (a variable `part`
says which one a behaviour is about; the variables of the others hold a constant
value). That is a matter of running time only: each part is explored in full,
with its own constants, as it would be in a run of its own.

## State and actions against the code

`PROJECT.json` maps every definition to its lines; this is the reading guide.

**DiagnosticReceipts.** `state`, `storage`, `input` and `createdAt` are columns of
`diagnostic_receipts` (`state[e] = "none"` is a missing row), `admitted` is
`diagnostic_rate_windows`, `deletions` and `order` are `diagnostic_deletions` with
its sort key, `details` is the ClickHouse table and `log` the retained messages
of the topic, one per event and digest. `req` holds what `accept()` has in its
locals between two awaits: `Receive` sanitizes and reads the directory, `Admit`
is the transaction of `admitTransaction` (all its branches: replay, conflict,
policy, budget), `Publish` and `Fail` what follows. `worker` is `persist()` cut at
each await: the receipt is read (`ReadReceipt`), deletion is looked up and the
digest compared (`CheckReceipt`), the detail is inserted (`InsertDetail`, which may
take effect and be reported as failed), and the receipt updated (`MarkReady`,
`MarkFailed`). `Remove`, `SweepDetails`, `SweepMark`, `CleanReceipts` are the
administrator and the two cleanups. An envelope is abstracted to its status, a
digest to the status it was taken of. `DiagnosticReading` adds `call`, a read,
export or search between its queries, and `grant`; a reader is done before the event it reads is 90 days past its expiry.

**EventConsumer.** `member[c]` is the memory of one process; `job` is the handler
between two awaits, with the part of the slice it still owes. `Fail` is the catch
block after any await, `Resume` the pause timer. A call may take effect and still
be reported as failed. KafkaJS and the broker are external: `CanFetch`, `Visible`
and `Skip` say what a fetch returns and that control records are stepped over,
`Rejoin` and `Assign` are rebalances.

**EventIngestion.** `cache`, `limiter`, `chain` and `queued` are the fields of one
process, `request` is `accept()` between its awaits. `Ask`, `ReadRow`, `ReadFeatures`
and `Load` are a miss of the cache; `Judged` is what follows either way. `project`
keeps every version of the project with the time it ended, which only the property reads.

**RepeatedOperations.** `log`, `offset`, `refs`, `proofs` and `rows` are the topic and
the tables, `projecting` a member between two awaits of `projectRepeatedOperations`.
References and digests are numbers; an operation may carry those of two key epochs.

**TrackerQueue.** The record `tracker` has the fields of `BrowserTracker`. JavaScript
runs one handler at a time, so an action is one stretch between awaits: a host
call with everything it triggers synchronously (`Emit` includes overflow and the
flush it may start), a lifecycle handler with what it settles first, or the
continuation of `flush()` when a beacon, a post or the pause between two attempts
ends. How many events fit the byte limit of a batch is a free choice, and so is
each answer of the browser and the server. A handler settles at most two events
(an open form and the visible page), hence `count \in 0 .. 2`. The code
`BATCH_SIZE_UNRESOLVABLE` of `makeBatch` is left out: `emit` rejects an event that
cannot be sent alone before it enters the queue.

**TrackerSession.** An action is a handler with all it calls; `beforeSend` accepts,
rejects or throws (`hook`), and a throw leaves the handler where it is. `shown`
is what the user really saw, the yardstick of the durations.

**SdkWorkflow, WorkflowReducer, WorkflowArrival.** `flow` is the definition the tab was given and the
limits of the instance, chosen at the start; `sdk` are the instances in
memory, `storing` whether session storage works, `offered` what the host was told.
The reducer is a set of operators over the emitted events with their reasons. It goes
through the rows in their order, and that order decides which of several ends at one
time is the first (`FirstInOrder`). In `WorkflowArrival` the rows of one instance are stored one
after the other, twice and late; `rows` is what `readEvents` returns of them, in the order of
its `ORDER BY` and with any order of what that leaves equal. Every reduction is compared with `Report`, a
function of the set of rows. The properties of `SdkWorkflow` hold for whichever of the ends
at one time is the first (`FactsOf`), since ids are no part of that model.

**PolicySync.** `client` has the generation, request numbers and sync state of the
adapter, `wire` its requests in flight, `health` what the operations page shows.

**QualityFacts, RequestEvidence.** A page view with its counters, API calls that
settle later, the queue of the tracker and the rows that arrived; the ring of
request records with the epoch that an answer belongs to.

**DirectoryAttribution.** A version is stamped by the UPDATE of `publish()` and
becomes visible with the commit (`Stamp`, `Commit`, `Rollback`). An event is received
(`Receive`, with a clock within the permitted skew), attributed (`Attribute`) and
checked by the consumer (`Consume`); both use `DirectoryAt`, the translation of
`directoryAt()`. There is one environment, and the API and MySQL share a clock.

**SourceMapStore.** `row` and `age` are a row of `diagnostic_sourcemaps` and its
expiry, `file` and `old` a file and whether its mtime is more than an hour ago,
`lock` the lock of the project row. An upload goes through `Begin` (lock and checks),
`Install` (rename), `Insert`, `Commit` and `Answer`, or through the catch block
(`CheckOutcome`, `UnlinkUncommitted`); `Remove`/`UnlinkRemoved` is `remove()`; the
actions from `StartCleanup` to `Purge` are one pass of `cleanup()`, with its cursor and
the directory handle it keeps open. There is one API process. Temporary files,
credentials and downloads are left out. `disturbed` is a history variable: the
identities whose file was written while somebody without the lock could still
touch it (an upload whose connection died, an unlink that follows a removal or
a look-up of the directory walk), or was unlinked because its committed row
could not be read.

**MetricLibrary.** A version is a row of `metric_library_versions` with its definitions,
bindings and score; a definition is what it depends on and its derived status. A
transaction that holds the version's row from its first statement is one step; what
a request reads before it is a step of its own (`request`). `seen` is the history of
what reviews were computed from.

**AnalysisObjects, WorkflowAdmission, EffectiveVersions, Projects.** `module`,
`object`, `workflow`, `revisions`, `settings` and `projects` are the committed rows;
`request` and `writing` are transactions between their lock and their commit, or
between an unlocked read and the lock. `raced` marks the objects whose request
looked at a module (`requireProjectModule`, no lock) that was archived before it
committed. In `Projects` a gap lock of REPEATABLE READ is a lock on the missing row.

**AuthSessions, ExportInterfaces, ConnectionPool.** Rows of `auth_sessions`, the
browser's cookie and each tab's session storage; the interface's row, its credentials
and minute windows with a read that is authorized, made and recorded in three steps;
how many connections each request holds and which ones wait.

**Formulas, MetricReaders, MetricFormulas, ScoreEvaluation.** Operators over the
nodes of a formula and over fractions, so that nothing is rounded; a small state
machine saves, edits and publishes formulas, or changes facts, and the properties
compare the code's evaluation with a reference definition. These four modules use
RECURSIVE operators and are checked by TLC only.

**AnalysisViews, MetricPanel.** The reactive state of a component, with a record
per call under way. Vue's watchers run before the next answer and belong to the
step that triggers them; each `await` of a function is a boundary between steps.

## Runs

`PROJECT.json` names for each property a plausible bug (an operator `...Mutant`
beside the one it replaces) that TLC finds with it.

| run | parts and instance | shows |
|---|---|---|
| `receipts` | *receipts*: two events of one page, two requests, one consumer, a policy that is switched off and on, page limit 1 | a retry replays its first admission (`FirstAdmissionKept`), no consumer meets an envelope that its receipt does not digest (`NeverMismatch`), tombstones are final (`TombstoneFinal`), what is ready can be read (`ReadyHasDetail`), the page budget is exact (`BudgetExact`); refinement of `DiagnosticEvidence` (`EvidenceSpec`) |
| | *zombies*: one event, two consumers that both believe they hold the partition; *withheld*: evidence a policy refuses and an event stamped ahead; *shared*, *renewed*: requests that race for a budget of two that is lowered, and of one over three minutes | the same of these instances (`ReadersSeeTheTruth`) |
| | *reading*: a reader beside the whole pipeline; *evicted*, *requests*: a ring of one record and of two; *views*, *panel*: two scopes, two versions of one library and one of another | a read, export or search answers what could be read at one moment; the evidence of an error is its own; what a view shows belongs to what is asked for (`ReadersSeeTheTruth`) |
| `evidence_live` | two events (one arrives `unavailable`), one request, one consumer, deletions, `SettledSpec` | `PublishedIsStored`, `DeletedIsReclaimed` |
| `identical_retry` | an event stamped by a clock ahead, one publication of the directory | violation, see below |
| `services` | *consumer*: two members, one partition of three records with a poison one, slices of two, two tries, one rebalance, stop or crash | `NothingSkipped`; refinement of `EventDelivery` (`DeliverySpec`) |
| | *repetitions*: four operations in three messages, two members, two key epochs; *pages*, *hidings*: two pages, or one that is hidden and shown again, one lost batch | a rate that is answered is exact, and is answered unless something was lost (`RatesAreTrue`) |
| | *sessions*: two tabs, two calls, three sessions; *exports*: two callers, two scopes, two credentials | one successor per refresh token, a refusal has a reason, a logout ends the login; a useless credential stays useless, a read stays in its scope and limit (`CredentialsSound`) |
| | *admission*: two batches and a project that changes twice; *chained*: three batches with object facts, a chain of two, a probe version that is blocked | no batch is judged by a project older than the life of a copy, a block holds, the chain survives failures (`AdmissionSound`) |
| `both_topics` | one member, the event topic and the transactional object topic with two records each, two moves, `LiveSpec` | `OneOutcome`, `CatchesUp` |
| `consumer_ready` | one member, both topics | violation, see below |
| `tracker` | *tracker*: a queue of three, batches of at most two, three attempts, six events, the fairness of `LiveSpec` | `Accounted`, `InOrder`, `Bounded`, `DestroyEnds`, `Delivered`, and with `NothingLostOrMisread` that what a destroyed tracker held is accounted for |
| | *formulas*: thirteen formulas over three system metrics, posted to two metrics; *scores*: five configurations of three or four dimensions | every reader's value is the reference value or refused for a reason; a score is what its dimensions say (`NothingLostOrMisread`) |
| `browser` | *attribution*: one event, three versions, four instants, clocks off by one | `AttributionStands` |
| | *hooked*, *forms*: two routes, hooks that throw, forms and operations with a user who changes | a reported duration is what was visible, and what was closed is reported (`UsageIsTrue`); a form's summary and an operation's result stay in their context (`InContext`) |
| | *workflow*: a workflow started by its first step or at once, of two steps, one or two instances, a storage that fails; *arrival*: five rows of one instance | the SDK's evidence never contradicts itself, no late completion counts, the order of arrival does not matter (`WorkflowEvidence`), what was reported stands (`PastStands`) |
| | *policy*: two revisions, two requests, two starts | `PolicyAdvances` |
| `attribution_rewritten`, `settlement` | one event and two versions; one page and a form | violations, see below |
| `administration` | *sourcemaps*: two identities (one with two contents), two uploads, quota 1, pages of one row and one entry, one fault, expiry of the first identity | `QuotaKept`, `ReadyHasFile`, `TombstonesStay` |
| | *metrics*: two administrators, two business and two system metrics, two versions | `MetricVersions`, `MetricHistory` |
| | *objects*: two modules, a page, a workflow, two requests; *admission*: one workflow, two versions, three changes, a start with a skewed clock; *effective*: two requests, three revisions; *projects*: three users, two creations under one id | `OpenIsHeld`, `OneInForce`, `ProjectsKept` |
| `pool` | two connections, three requests | violation, see below |

### Why the bounds are enough

- *receipts*: a race needs two actors on one event and a second event to be in the
  same batch and to compete for the page's budget; with limit 1 both outcomes of
  the budget occur. Its invariants do not speak of time, so `MaxMinute = 0`; *renewed*
  is about time, where three minutes let a window be in use, kept and deleted.
- *consumer*: two records per slice and three or four per log make slices that end
  before, at and behind a poison message and a control record, and two tries are
  the least that tells a thrown failure from a pause. One move lets the old and
  the new owner of a partition work on the same slice.
- *tracker*: a queue of three with batches of two is the smallest in which a queue
  holds more than a batch and overflows while one is in flight; six events
  suffice for an overflow during and after a flush that failed all its attempts.
- *attribution*: three versions are needed for one to supersede and be superseded;
  four instants for a stamp before, at and after both ends of a version and a skew of one.
- *source maps*: the quota of one makes every second identity a race; the page of one
  row makes the cursor and the open directory span several passes. One fault is what the
  run has time for; its properties are proved for any number of faults.
- *metrics*: two administrators and two versions (the active one and a draft, or two
  that take turns); the theorems hold for any number.
- *arrival*: the five events are a start, a step under one id with two contents, and two contradictory
  ends at one time; five rows let each of them come, or one come again, in any order.
- *browser*: timeouts of two units are met exactly and exceeded; one throw of a hook in
  each handler; one instance that is restored and one beside it.
- *sessions*, *exports*, *ingestion*, *views*: two of whatever may overlap, and one more
  version, session or batch than there are places.

The theorems remove these bounds for the properties they cover. Named bounds: `MaxBatch`,
`MaxMinute`, `MaxDirectory`, `Deletable` (receipts), `MaxMoves` (consumer, views, panel),
`MaxEvents` (tracker), `MaxTime`, `MaxChanges`, `MaxPages`, `MaxSent`, `MaxSegments`, `MaxInstances`,
`MaxEnds`, `MaxFaults`, `MaxCalls`, `MaxEpochs`, `MaxHappenings`, `MaxHides`, `MaxRevision`, `MaxRequests`,
`MaxStarts`, `MaxSessions`, `MaxMinute`, `MaxCredentials`, `MaxMessages`, `MaxRows`, `MaxSaves`, `MaxVersions`,
`MaxProjects`, `Expiring`; the other constants are parameters of the code.

`CHECK_DEADLOCK FALSE` is said where a bounded system really stops: every event
made and the tracker destroyed, time at its bound with nothing in flight, all
messages processed. `both_topics`, `consumer_ready` and `pool` check for deadlock. Symmetry is used
over identities that the specification treats alike and only in runs without a liveness property.

## Fairness

- `tracker`: a promise settles (`WF(Answer \/ Failed)`), a timer fires (`WF(Retry)`, the
  interval timer `WF(Ticks)`). `fetch` has no timeout in the code: a request the
  browser never settles would keep the flush suspended, and this assumption
  excludes it. `Delivered` assumes in addition, as a hypothesis of the property, that a
  network which is tried again and again answers at last (`SF(Answer)`).
- consumer: a process goes on (`WF(Step)`), its pause timer fires (`WF(Resume)`), it is
  started again after a stop, and the group assigns free partitions. Nothing is
  assumed of the stores; `CatchesUp` has "the outages end" as its hypothesis.
- `Delivery` of the receipts: a partition does not advance past a batch that failed, so
  each message comes again (strong fairness per event of `ReadReceipt`, and of the
  three steps after it), and stores do not fail at the same step of the same
  message for ever.
- `Sweeping`: the cleanup runs every five minutes (`WF(SweepDetails)`) and its marking
  does not fail for ever (`SF(SweepMark)`).

No other action has fairness: requests, administrators, faults and time may stop.

## Disagreements found

1. **A retry of an unchanged event can be refused as a conflict** (`identical_retry`,
   code bug, `SRV/runtime-diagnostics.ts:370`). The input digest is taken of the sanitized
   event, into which `sanitize()` has written department and role of the directory in
   force at *this* delivery. A directory published between two deliveries changes
   them for an event stamped by a clock that is ahead; the retry gets 409 and the SDK
   drops the batch. The decision record promises that a redelivery reuses digest,
   admission and expiry.
2. **`/health/ready` answers 200 while a partition is paused** (`consumer_ready`,
   `apps/consumer/src/index.ts:426`). One flag serves all partitions: the timer of the first
   pause sets it while another partition is still paused. The guide says that the
   consumer is not ready until it resumes.
3. **A publication can rewrite an attribution** (`attribution_rewritten`,
   `SRV/organization-directory.ts:226`). The version is stamped by the UPDATE and visible from
   the commit: an event received in between is attributed without it, and the
   consumer, which reads after the commit, finds another version and sends an
   accepted event to the dead letter topic. The comment in `publish()` says that a
   publication never rewrites earlier attribution.
4. **A settlement can carry the session that begins** (`settlement`, `SDK/tracker.ts:322`).
   Handlers settle open forms and long views before the page view; those emit events
   that replace an idle session, so the `page_leave` of the page view that ends carries
   the new one, and the server, which joins on the session, does not report the page
   view. A comment and a decision record say that settlements keep their original session.
5. **Two requests can wait for each other's pool connection** (`pool`, code bug,
   `SRV/metric-library.ts:872`, also `:1481` and `SRV/mysql-store.ts:717`). These commit and read
   their answer through the pool before they release their connection; as many of
   them as the pool has connections wait for ever. A comment at `SRV/mysql-store.ts:592`
   describes exactly this for another function, which avoids it. When the second
   read fails instead, the error is answered although the change is committed.

## Proofs

`tlapm` proves, for every value of the constants that satisfies the assumptions:

| theorem | states | carried by |
|---|---|---|
| `DiagnosticReceiptsProofs!TypeCorrect` | `[]TypeOK` | `TypeOK` is inductive |
| `DiagnosticReceiptsProofs!EvidenceSafe` | `NeverMismatch`, `WithheldNeverStored`, `TombstoneFinal` | `Consistent` |
| `DiagnosticReceiptsProofs!FirstAdmission` | `FirstAdmissionKept` | `TypeOK` |
| `DiagnosticReceiptsProofs!EvidenceImplemented` | refinement: `EvidenceSpec` | `Consistent`, `OneAtATime` |
| `DiagnosticReceiptsProofs!BudgetIsExact` | `BudgetExact` | `CommitsInWindow`, `RetiredIsUncounted` |
| `DiagnosticReceiptsProofs!ReadyIsThere` | `ReadyHasDetail` | `SweepsTombstones`, `AcknowledgedIsThere` |
| `DiagnosticReceiptsProofs!ReadsAtOneMoment`, `ReadyIsAnswered`, `ReadingTyped` | `ReadAtOneMoment`, `ReadyIsFound`, `ReadingTypeOK` under `ReadingSpec` | `CallInvariant`: `Fits`, `Sound`, `HasFound` |
| `EventConsumerProofs!ConsumerTypes`, `ConsumerSkipsNothing`, `ConsumerOutcome` | `TypeOK`, `NothingSkipped`, `OneOutcome` | `Covered`, `Counted`, `Working` |
| `EventConsumerProofs!DeliveryImplemented` | refinement: `DeliverySpec` | the same, and `Ahead`, `OwnerAhead` |
| `TrackerQueueProofs!TrackerAccounts`, `TrackerInOrder`, `TrackerBounded` | `Accounted`, `InOrder`, `Bounded` with `NothingLeftBehind` | `Sound` |
| `BrowserProofs!AttributionIsFinal` | `TypeOK`, `AttributionStands` | `Later`, `Stands` |
| `AdministrationProofs!StoreTypes`, `QuotaIsKept`, `ReadyFilesExist`, `TombstonesAreFinal` | `TypeOK`, `QuotaKept`, `ReadyHasFile`, `TombstonesStay` | `Guarded` |
| `AdministrationProofs!LibraryVersions`, `LibraryHistory` | `MetricVersions`, `MetricHistory` | `Singles`, `HistoryIsSound`, `ReviewsWereMade` |
| `AdministrationProofs!ObjectsAreHeld` | `OpenIsHeld` | `Placed`, `Waiting` |
| `AdministrationProofs!VersionsInForce` | `OneInForce` | `Fitting`, `Standing`, `Consecutive` |
| `AdministrationProofs!ProjectsAreKept` | `ProjectsKept` | `Locks`, `Creations` |
| `AdministrationProofs!AdministrationTypes` | `PartsTypeOK` | the invariants above |
| `BrowserProofs!PoliciesAdvance` | `PolicyAdvances` | `Reported`, `Asked` |
| `BrowserProofs!ContextIsKept` | `InContext` | `FormFits` |
| `BrowserProofs!UsageStaysTrue` | `UsageIsTrue` | `Told`, `Numbered`, `Matched`, `Running`; `Gapless` |
| `WorkflowProofs!EvidenceStaysSound` | `WorkflowEvidence` | `Firm`, `Smooth` of the history; `Bound`, `Evidenced` of each instance; `Counted` of the reader |
| `WorkflowProofs!PastIsKept`, `WorkflowTypes` | `PastStands`; types of workflows and rows | the same, and `Timely` |
| `ServicesProofs!CredentialsAreSound` | `CredentialsSound` | `Exchanges`, `Told`, `Families`, `Quiet`, `Departed`; `LastIssued`, `InWindow` |
| `ServicesProofs!AdmissionIsSound` | `AdmissionSound` | `WellJudged`, `WellCopied`, `Chain` |
| `ServicesProofs!RatesStayTrue` | `RatesAreTrue` | `Handled`, `Dealt`, `Founded` of the repetitions; `Census`, `Carried` of the quality rates |
| `DiagnosticReceiptsProofs!EvidenceIsOwn` | `EvidenceBelongs` of `RequestEvidence` | `AllOwn`, `CallOpen` |
| `WebProofs!ViewsStaySound` | `ViewsSound` | `ReadsSound`, `HeadingSound`, `ChainSound` |
| `WebProofs!PanelTypes`, `PanelStaysSound` | `TypeOK`, `PanelSound` | `CallsSound`, `ListSound`, `BusySound`, `ShownSound` |

The assumptions are the named ASSUMEs of the modules: sizes are natural numbers, sets
of events and messages are what they are said to be, special values are not members.
`MCAdministration`, `MCServices` and `MCBrowser` name their own (`AdministrationAssumption`, `ServicesAssumption`,
`BrowserAssumption`), because their constants are those of several components; the theorems about them hold for every
number of administrators, requests, modules, users and versions, of tabs, sessions, scopes,
credentials and batches, of operations, messages and members, of pages, calls and errors, of routes, page views
and policies, of workflows, their steps and instances, of rows, and for every bound.

*Receipts.* `NeverMismatch` speaks of a consumer that has just read a receipt, but what it
compares was put into the log by a request that may be long gone. `Consistent` says
along the whole way that the envelope matches the receipt: in a request after its
admission, in the log, in the consumer's hands; that a receipt in a writable state
digests captured evidence; and that nothing in flight belongs to an event whose
receipt has left the table, without which a second admission could contradict the
log. A tombstone is final because every update of `persist` looks at the state it
overwrites, and `ReceiptsDecided` ties `deleted` to the tombstone. The refinement needs in
addition that the steps of different consumers on one event are separate (`OneAtATime`).
`BudgetExact` rests on the window a commit counts in being that of the receipt's minute, and on
windows being deleted only when no receipt counted in them is left. `ReadyHasDetail` needs to know
what the cleanups may take: a sweep only touches events with a tombstone, and
a consumer that was told its row is stored is right about it until the row's TTL.

*Reading.* `ReadingSpec` is shown to be a behaviour of `Spec` beside the readers, so that the theorems above hold
of what they read. `Sound` says of a call what it knows of its event: a receipt that was ready still is, or the event is
gone, deleted or expired, and gone is for ever; a fact found in the log is still there. What a call holds before its
last look at the tombstones therefore either could be read when the grant was looked at last, which is
remembered in `seen`, or is gone, and the look finds that; without the look (`RecheckMutant`) the second case is answered.
The proof needs that no call lasts the 90 days after which a receipt is purged and its event's messages are out
of the log: `Pipeline` says so of the event of the call under way. The theorems hold for any number of events, minutes and
consumers, of which the run has one each. They state the readers' part of `ReadersSeeTheTruth` (`part = "reading"`).

*Tracker.* All of the state is one record and the actions are functions of it, so the
proof is about functions: `Resting(t)` holds where `flush()` looks at the queue without a
batch in its hands, and each function is shown to take `Sound` to `Sound` or through
`Resting`. `Window` (increasing, younger than what has been answered, made already) is
what makes `InOrder` inductive when a batch is put back before younger events.

*Consumer.* `Covered` is the strengthening: whatever a handler has not written yet is still
in its hands, so that everything below the end of its slice is hidden, written, dead or
pending. It makes `Finish`, which resolves the slice when nothing is pending, safe,
also for a member that has lost its partition. `Counted` and `Working` bound the
attempts: a batch that may be tried has fewer than `MaxRetries`. The refinement maps the
committed offset to the abstract log; `Ahead` and `OwnerAhead` say that no member that may still
commit is behind it.

*Directory.* An attribution made before a publication stays true only because that
publication's stamp is later than the event's reception, and the stamp is fixed before
it is visible: `Later` says it of every open version, `Stands` of the attribution.

*Policy.* Nothing that is on its way may be older than what it will replace, so the invariant is about the
messages: `Asked` says that an answer belongs to a request that was numbered and carries a revision there is, `Reported`
that reports are numbered in the order of the revisions they report, and that the kept one is in
that order with all that are still under way. A destroy and a new start do not disturb it because the numbers go on.

*Forms and operations.* An emission may replace the session and settle the form on the way. `FormFits`
says that an open form belongs to the user there is, which holds because `setUser` settles first; `Kept` says what an
emission leaves alone, and for an operation that a session which is not idle is the same afterwards. The proof
goes through the handlers as the code does: each function from tab to tab keeps `FormFits`.

*Page usage.* The invariant says that there is a function which tells, for each page view and each number of settlements,
how long it had been visible by then (`Tells`). A `page_leave` is the difference of two values of it (`Told`), the open stretch
is what has come since the last one (`Running`), and a closed `page_leave` that the hook let pass ends the page view. If
the hook rejects or throws there may be no such event, or numbers may be missing, and then the server tells nothing: what it tells
is a sum of all numbers from 1 to the closed one, each there once (`Numbered`), and telescopes to
the visible time. That a sum does not depend on the order of its elements, and that it telescopes, are
inductions made by taking a least counterexample (`AnyFirst`, `Telescope`). With a hook that accepts everything no number
is missing (`Gapless`), so that what is closed is told. The parts "hooked" and "forms" are two instances
whose steps are shown to be steps of one kind (`UsageStep`).

*Workflows.* What the server holds against an instance depends on all of its events, those of earlier page loads included, so the
invariant is about the history: `Firm` says that the events of an instance are of one session (ends of operations apart),
that an operation belongs to one instance and ends once, and that a step which waits for an operation was told with that
operation's start and success before it; `Smooth` says what in addition holds as long as the storage has not failed: the starts of an instance are of one time,
nothing comes before it, it ends once, and a completion has its step and took less than the timeout. `Bound` and `Evidenced` tie each instance, in memory and as it
was written last, to its part of the history, so that a restoration takes up what was told. After a failed write an
instance can come back without what it did last: then only the weaker halves are claimed, as in the properties.
The handlers are composed as in the code (`FlowAlive`, `FlowFinishes`, `FlowReaches`, `FlowReleases`, each carrying `Held`), and
the end of an operation, which goes through the steps that wait for it, is a fold treated by induction on its turns
(`FlowTakesTurns`). `KeepsAbandoned` then follows from what a step adds (`Timely`): an end less than the timeout after its start.
`OrderDoesNotMatter` and `KeepsReports` are about the reducer's own fold over the rows. Its value is
given for every sequence of rows by an invariant of its rounds (`Reads`, `ObservedIs`): kept is, for each identity with one content, its first receipt, in conflict are the identities with two contents, and rows
that came after the moment asked for count in neither. What is left of the order of the rows is the choice between ends at one
time: the first row of an identity that counts has its time (`PositionOf`), so in the order of the query an earlier row has the lesser
id (`PositionById`) and the first end is the one with the least id (`FirstEndIs`). Facts are then `Report` of the set
of rows (`FactsAre`), and inserting a row adds one element to that set (`InsertedSet`). That the rows are in the query's order is part of the invariant.
The library's induction theorems cannot be instantiated here; these inductions take a least counterexample (`LeastOf`).

*Source maps.* `QuotaKept` needs to know that the number counted under the lock is still right
when the transaction commits (`Holder`: its rows can only get fewer while one upload
has the lock). `ReadyHasFile` relates a row and a file that change in different steps:
`Holder` carries the installed file from the rename to the commit, `Sound` carries what an
upload knew about an existing row past the loss of its lock, `Loose` says that an upload
without a lock and without a row may be on its way to a ready row's file only if the
identity is marked as disturbed, and `Kept` and `Swept` say which unlinks are still to come.

*Metric library.* `MetricShapes` tells the steps apart by what they make of the versions. There is one
draft because it is created under the project's lock when there is none, and one active version
because activation supersedes it; `HistoryIsSound` keeps a superseded version as sound as it was, which
is what reactivation, which derives nothing again, relies on; `ReviewsWereMade` follows a digest
from `review()` to the score and into the activation.

*Administration.* `Placed` and `Waiting` say where an object lies while a request that has looked at its
module waits to commit; `Fitting` and `Standing` that what is committed, and what is about to be, has
periods that follow one another and keeps admitting the starts it admitted; `Consecutive` that
versions in force follow one another without a gap; `Locks` and `Creations` what the rows and gaps a
transaction holds keep from changing. `AdministrationTypes` also takes `SourceMapStore`'s types over: a
behaviour of `AdministrationSpec` is one of its `Spec` (`StorePart`).

*Sessions.* That a token has one successor needs to know what a request holds between the locked
row and the new one (`Exchanges`: whoever is to issue for a token it consumed is the only one, and no row came
from it yet). `LogoutEnds` is about a family: `Families` says that every session of a login but the newest has a
successor in it, so that only the newest can be live, `Quiet` that a logout which nothing overlapped meets that one, `Departed` that
nothing in flight carries a token of a family logged out in this way, and `Told` ties what the browser was told to
its cookie.

*Exports.* `LastIssued` says that only the newest credential can be without a revocation and was then issued for
the present scope; what is retired stays so because of it and of time. `InWindow` bounds the calls
recorded for the present minute by the window's count, which is why two of them never carry the same number.

*Ingestion.* `WellJudged` and `WellCopied` follow a version from the database read through the copy of a process to
the batch that is judged by it: each was in force when the batch came that made the read, or later, and a copy ends `Ttl` after that. `Chain` says of a producer's queue that it holds the requests in the state
"chained", each once and each counted.

*Repeated operations.* A message behind the committed offset has its rows (`Handled`) and was dealt with at some time
(`Dealt`): somebody had then read the rows there were and written what they show. `InHand` says of a
member, await by await, how far it is with this. A receipt therefore comes from a pass after which nothing before its
message was left to do, and a witness from three operations on one object within a day that were all stored (`Founded`).
Two members may insert their rows in any order; each of them reads after it has inserted, so that a repetition is found by
the pass that has the last of its rows. That of all the threes with one operation one has nothing in between is an
induction over the operations between, made by taking a least counterexample (`NearestThree`).

*Quality rates.* The state of the collector does not say what happened in the browser; the invariant says that there is a
set of events made (`Census`: what each page counted is what there is of them), each of which is accounted
for (`Carried`): `Known` and `Honest` that what is queued, under way or stored was made, that a closing `page_leave`
carries the counters of its page, and that one which knows of losses is in a batch which does; `Ordered` that no event of a page is behind that
`page_leave`, unless its call ended after it; `Missed` that an event found nowhere was lost with a beacon, or the
`page_leave` of its page goes with a warning or counted before the call ended. A rate is a sum over pages:
sums and cardinalities are compared page by page and added up by taking a least set of pages that would be an exception
(`SumsCompare`, `SumsCount`). The parts "pages" and "hidings" are two instances that differ only
in how many pages there may be and whether they are hidden; `HidingsAlike` takes what is proved of the one over to the other.

*Request evidence.* `AllOwn` says that the records are those of the page view and tracker there is, with one record per
request whose text is its own; `CallOpen` that a call which is awaited belongs to one request, whose record has no text
yet, so that a text that comes late, or for another tracker, meets its own record or none.

*Views and metric panel.* The last read is for what the URL says or for what the watcher is about to read
(`ReadsSound`); a navigation of the user has stopped the reads of the view it leaves, so that no late answer can replace it
(`HeadingSound`); what the URL will have in a field is the last change of it that waits (`ChainSound`). In the panel the
answers that will be shown are those of the selected version and of the form (`CallsSound`), and a locked button waits for
a call that is under way (`BusySound`). The proof of `ChainSound` showed that a default selection replacing a
pending change of the filters has to release the promise that change waits for, which `Answered` does.
These three are the parts "evicted", "requests", "views" and "panel" of `ReadersSeeTheTruth`; they assume that `None`
is not a version, a selection or a mark, and that the bound on moves is a natural number.

Model-checked only:

- the liveness properties (`PublishedIsStored`, `DeletedIsReclaimed`, `CatchesUp`, `DestroyEnds`, `Delivered`): they
  need fairness and ENABLED, which are out of the prover's reach;
- what RECURSIVE operators compute (`Formulas`, `MetricReaders`, `MetricFormulas`, `ScoreEvaluation`, and with them
  `NothingLostOrMisread`): induction over data;
- `ServicesTypeOK`, a conjunction over the parts of `MCServices`: the types of repetitions, sessions, exports and
  rates are in the invariants of the theorems above, those of the limiter and of producers' chains are not;
- `MCBrowser`'s `PartsTypeOK` as it stands: the types of attribution, policy, workflow and rows are
  proved, those of sessions and forms only as far as the invariants of `UsageIsTrue` and `InContext` need them;
- `EvidenceTypeOK` and `ReadersSeeTheTruth` as they stand: each is a conjunction over the parts of `MCReceiptParts`,
  whose instances are given by value; the theorems state the conjuncts of `ReadersSeeTheTruth` for all constants, and
  those of `EvidenceTypeOK` for the receipts, their readers and the panel.

## What else the models show

Behaviour met while modelling that no document contradicts, or that a property states as an exception.

*Evidence and ingestion.* A redelivery may write `raw_events` rows and dead letters twice (the
outcome stays the same). A read that overtakes the admission answers an event that has an envelope as
unknown or legacy (`SRV/runtime-diagnostics.ts:571`); search establishes readability at one moment
and permission at another. The commit of the last message of a partition that failed is not tried again
before the next message, so `CatchesUp` speaks of the messages and not of the committed offset.
An invalidation of the project cache can be overtaken by a load begun before the change: the copy is
stale for up to its life in the same process too. A transaction whose answer is lost may be in the topic
although the client got 503. Row and features of a copy may come from two versions of the project.

*Source maps.* Three sequences leave a ready row without its file until the upload is repeated,
all inside the exception of `ReadyHasFile`: the committed row cannot be read
(`SRV/sourcemaps.ts:304`), the walk unlinks a file that an upload has just installed (`:632`),
and an upload that lost its connection installs or unlinks later than another one.

*SDK.* A beacon that throws loses its batch from the event counters (`thrown` in `TrackerQueue`).
`destroy()` and `startLongView` let a throwing `beforeSend` escape; `observeBusiness` captures the session
before it rotates. A late row turns even a completed workflow instance into `unresolved`. Of contradictory ends at the
same time `reduceWorkflowInstances` takes the first in row order (`SRV/workflow-reducer.ts:206`), and with a completion first it may add
`WORKFLOW_SUCCESS_STEP_MISSING` or `WORKFLOW_STEP_SEQUENCE_UNVERIFIED`: by itself it is not what the title of
`packages/server-core/test/workflow-reducer.test.ts:72` says, "replay/order invariant". The service is, by the
`ORDER BY timestamp,event_id` of `SRV/workflow-facts.ts:37`; the mutant of `NotAfter` shows what happens without the id. The owner of a diagnostic policy is never reset. API calls beyond
10000 per page are neither counted nor do they withhold the rate (against
`docs/progress/v1.8-r5a-decisions.md:16`); errors lost by a beacon nobody knows of.

*Repeated operations.* An operation older than the short table (`~Aged` in `RateIsExact`) is missed although
`docs/progress/v1.8-r4c-decisions.md:83` asks for every session.

*Sessions and exports.* A logout that races a refresh in flight leaves a live successor (`quiet` in
`LogoutEnds`); a failed logout request logs the tab out all the same. The window of an export interface
starts again if the clocks of two API processes disagree on the minute; `finishExport`'s late status overwrites a later one;
a read that was authorized is answered even if it is revoked meanwhile.

*Administration.* A module can be archived between `requireProjectModule` and the commit of the request that
relies on it (`raced` in `OpenIsHeld`, against `docs/product/requirements-v1.8.md:720`); `restoreWorkflowDefinition` checks
only the definition's own module. The conflict of a business key between two metric libraries is checked outside any
lock (`SRV/metric-library.ts:1121`); foreign keys of the audit log make deadlock victims, which are `Fail`.
`saveBusinessMetric` refuses only cycles of one, longer ones appear at validation; `deleteBusinessMetric` deletes
metrics that others refer to, and `lineage()` of those then throws.

*Formulas and scores.* Opening a formula with more than two operands, or with computed bounds, in the form and
saving it changes it. A score refuses a sample of 0 where overview and pages accept it for a minimum of 0, takes
the first unavailable dependency where others take the worst status, and requires "implemented" where the overview also
evaluates "partial". A configuration can be confirmed although too few dimensions have an enabled leaf. An overflow
gives Infinity as an available value.

*Web.* A focus event during a leave supersedes the navigation (`late`); a navigation that keeps the signature
cancels a load and leaves the view blank (`cut`); a 403 in the quality view supersedes a user's leave. In the metric panel
edits made while a save is under way are lost, validation and difference reports are shown beside another version, and an
answer after a change of tab selects a version of the other library.

## Not modelled

- HTTP controllers, usage sources, migrations, tools, the event contract's sequential checks, the other views and the
  demo: no state that several actors share, or run once and sequentially.
- Read models other than the rates, the page durations, the workflow reduction and the evaluation of metrics: SQL over
  what the other components wrote.
- Rounding and overflow of floating-point numbers: fractions are exact here.
- In `DiagnosticReceipts`: the row locks inside the admission transaction, which is one step.
- In `MetricLibrary`: units, the enabled flag and the conflict of keys between libraries. In `AnalysisObjects`: features.
  In `SourceMapStore`: credentials, downloads, mapping, temporary files. In `AuthSessions`: passwords, disabled users.
- KafkaJS restarting itself after a fatal error, which forgets its pauses; whether it can begin a transaction after an
  abort failed.
- In `WorkflowArrival`: the window of the query, which begins seven days before that of the report, and its limit of
  50000 rows. In `MetricPanel`: edits of `enabled` and `owner`, which the watcher of the form
  (`WEB/components/MetricLibraryPanel.vue:1086`) does not follow: a preview stays up for them.
- `REPEATED_INSTANCE_CONFLICT`, which needs the contents of object operations: `CatchesUp` assumes that a
  projection succeeds once the stores stay up.

## Plan

The modules above were written in the order of the inventory: first what loses or corrupts evidence and events,
then what administrators do to one another, then what the browser observes and the web application shows. Proved
first were the cores of the pipeline (receipts, consumer, queue, attribution, source maps), then the administration, then
sessions, exports, ingestion and the rates, then policies, forms and page usage, then the readers of the evidence, the request evidence and
the web application, and last the workflows with the server's reading of them.
Left, in this order:

1. the row locks of `admitTransaction` as a module of their own, shown to implement `Admit`;
2. abnormal rules, features of pages, usage sources: life cycles like those modelled.
