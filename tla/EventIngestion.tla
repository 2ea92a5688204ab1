---------------------------- MODULE EventIngestion ----------------------------
(***************************************************************************)
(* The admission of event batches by the API processes (IngestionManager,  *)
(* KafkaEnvelopePublisher).  Each process caches the project's row and its *)
(* features, counts the requests of a minute, and sends batches that carry *)
(* object facts through one transactional producer, one after the other.   *)
(* Administrators change the project meanwhile; the process they ask drops *)
(* its cached copy afterwards, the others wait until theirs expires.       *)
(* Admission of evidence, of workflow events and of organization data are  *)
(* modules of their own (DiagnosticReceipts, WorkflowAdmission,            *)
(* DirectoryAttribution).                                                  *)
(***************************************************************************)
EXTENDS Integers, Sequences, Functions

CONSTANTS
    Processes,     \* API processes
    Requests,      \* batches, each sent once
    ProcessOf,     \* the process a batch is sent to
    Features,      \* the batches that name a feature of the project
    Objects,       \* the batches that carry object facts
    Ttl,           \* projectCacheTtlMs
    PerWindow,     \* maximumRequestsPerMinute
    Minute,        \* the length of a window of the limiter
    ChainLimit,    \* 100
    MaxTime, MaxChanges, MayBlock,              \* bounds; whether the probe version is ever blocked
    None

VARIABLES
    now,
    project,       \* history of the project: [open, feature, until], the last one is in force
    dropping,      \* the processes that are about to drop their cached copy
    blocked,       \* the requests that had come when the probe version was blocked, or None
    cache,         \* IngestionManager.cache: the rows a copy was read from, and its end
    limiter,       \* IngestionRateLimiter.entries of the one client
    chain,         \* KafkaEnvelopePublisher.objectQueue: who waits, the first one sends
    queued,        \* objectQueued
    request,       \* accept()
    published      \* the batches in the topic

vars == <<now, project, dropping, blocked, cache, limiter, chain, queued, request, published>>

\* A missing project has no row; a closed one is disabled or does not list the origin.
Version(open, feature) == [open |-> open, feature |-> feature, until |-> 0]
Current == Len(project)

NoRequest == [pc |-> "new", started |-> 0, row |-> 0, features |-> 0, failed |-> FALSE, code |-> "none"]

Init ==
    /\ now = 0
    /\ \E open \in {"missing", "open"} : project = <<Version(open, open = "open")>>
    /\ dropping = {} /\ blocked = None
    /\ cache = [p \in Processes |-> None]
    /\ limiter = [p \in Processes |-> None]
    /\ chain = [p \in Processes |-> <<>>] /\ queued = [p \in Processes |-> 0]
    /\ request = [r \in Requests |-> NoRequest] /\ published = {}

\* The answer, accepted, unavailable or refused for any other reason; what led to it is forgotten.
Answered(code) == [NoRequest EXCEPT !.pc = "answered", !.code = code]
Answer(r, code) == request' = [request EXCEPT ![r] = Answered(code)]

-----------------------------------------------------------------------------
\* Administrators: a change is committed, then the process that made it, if it is one of these,
\* drops its copy.
Change(open, feature, p) ==
    /\ Current < MaxChanges
    /\ project' = Append([project EXCEPT ![Current].until = now], Version(open, feature))
    /\ dropping' = dropping \cup ({p} \cap Processes)
    /\ UNCHANGED <<now, blocked, cache, limiter, chain, queued, request, published>>

\* invalidateProject(); the project that is created has not been read by its process before.
Invalidate(p) ==
    /\ p \in dropping
    /\ dropping' = dropping \ {p}
    /\ cache' = [cache EXCEPT ![p] = None]
    /\ UNCHANGED <<now, project, blocked, limiter, chain, queued, request, published>>

\* A copy makes room for those of other projects.
Evict(p) ==
    /\ cache[p] # None
    /\ cache' = [cache EXCEPT ![p] = None]
    /\ UNCHANGED <<now, project, dropping, blocked, limiter, chain, queued, request, published>>

Block ==
    /\ MayBlock /\ blocked = None
    /\ blocked' = {r \in Requests : request[r].pc # "new"}
    /\ UNCHANGED <<now, project, dropping, cache, limiter, chain, queued, request, published>>

Unblock ==
    /\ blocked # None
    /\ blocked' = None
    /\ UNCHANGED <<now, project, dropping, cache, limiter, chain, queued, request, published>>

-----------------------------------------------------------------------------
\* accept(): the project.

\* assertProject(), then the probe is looked up.
Judged(r, copy) ==
    LET open == project[copy.row].open IN
    request' = [request EXCEPT ![r] =
                  IF open = "open" THEN [copy EXCEPT !.pc = "probe"] ELSE Answered("refused")]

Fresh(p) == cache[p] # None /\ cache[p].expires > now

\* With a copy that has not expired.
Begin(r) ==
    /\ request[r].pc = "new" /\ Fresh(ProcessOf[r])
    /\ Judged(r, [NoRequest EXCEPT !.started = now, !.row = cache[ProcessOf[r]].row,
                                   !.features = cache[ProcessOf[r]].features])
    /\ UNCHANGED <<now, project, dropping, blocked, cache, limiter, chain, queued, published>>

\* Or from the database: the row with its origins, then the features.
Ask(r) ==
    /\ request[r].pc = "new" /\ ~Fresh(ProcessOf[r])
    /\ request' = [request EXCEPT ![r].pc = "row", ![r].started = now]
    /\ UNCHANGED <<now, project, dropping, blocked, cache, limiter, chain, queued, published>>

ReadRow(r) ==
    /\ request[r].pc = "row"
    /\ request' = [request EXCEPT ![r].pc = "features", ![r].row = Current]
    /\ UNCHANGED <<now, project, dropping, blocked, cache, limiter, chain, queued, published>>

ReadFeatures(r) ==
    /\ request[r].pc = "features"
    /\ request' = [request EXCEPT ![r].pc = "loaded", ![r].features = Current]
    /\ UNCHANGED <<now, project, dropping, blocked, cache, limiter, chain, queued, published>>

\* Mutant: a copy lives from when it was read.
CopyMutant(r) == [row |-> request[r].row, features |-> request[r].features, expires |-> now + Ttl]

\* The copy expires counted from when the request came, not from when it was read.
Copy(r) == [row |-> request[r].row, features |-> request[r].features, expires |-> request[r].started + Ttl]

Load(r) ==
    /\ request[r].pc = "loaded"
    /\ cache' = [cache EXCEPT ![ProcessOf[r]] = Copy(r)]
    /\ Judged(r, request[r])
    /\ UNCHANGED <<now, project, dropping, blocked, limiter, chain, queued, published>>

-----------------------------------------------------------------------------
\* accept(): the probe, the limiter, the features.

\* assertProbe() refuses a version that is blocked, and any when the policy cannot be read.
Probe(r) ==
    /\ request[r].pc = "probe"
    /\ \/ Answer(r, "refused")
       \/ blocked = None /\ request' = [request EXCEPT ![r].pc = "limit"]
    /\ UNCHANGED <<now, project, dropping, blocked, cache, limiter, chain, queued, published>>

\* take(): the window after this request, and whether it may pass.
NewWindow(p) == limiter[p] = None \/ now - limiter[p].started >= Minute
Passes(p) == NewWindow(p) \/ limiter[p].count < PerWindow
Taken(p) ==
    IF NewWindow(p) THEN [count |-> 1, started |-> now] ELSE [limiter[p] EXCEPT !.count = @ + 1]

\* take(), and sanitize() of what passes: the features are those of the project that was judged.
Limit(r) ==
    LET p == ProcessOf[r] IN
    /\ request[r].pc = "limit"
    /\ IF Passes(p)
       THEN /\ limiter' = [limiter EXCEPT ![p] = Taken(p)]
            /\ IF r \in Features /\ ~project[request[r].features].feature
               THEN Answer(r, "refused")
               ELSE request' = [request EXCEPT ![r].pc = "publish"]
       ELSE Answer(r, "refused") /\ UNCHANGED limiter
    /\ UNCHANGED <<now, project, dropping, blocked, cache, chain, queued, published>>

-----------------------------------------------------------------------------
\* accept(): publish() and publishWithObjects().

\* What a send came to: acknowledged, written without an answer, or not written.
Sent(r, outcome) ==
    /\ published' = IF outcome = "failed" THEN published ELSE published \cup {r}
    /\ request' = [request EXCEPT ![r] = [Answered(IF outcome = "sent" THEN "accepted" ELSE "unavailable")
                                          EXCEPT !.failed = outcome # "sent"]]

Outcomes == {"sent", "lost", "failed"}

Publish(r) ==
    /\ request[r].pc = "publish" /\ r \notin Objects
    /\ \E outcome \in Outcomes : Sent(r, outcome)
    /\ UNCHANGED <<now, project, dropping, blocked, cache, limiter, chain, queued>>

\* publishWithObjects(): to the end of the chain, unless it is full.
Enqueue(r) ==
    LET p == ProcessOf[r] IN
    /\ request[r].pc = "publish" /\ r \in Objects
    /\ IF queued[p] >= ChainLimit
       THEN Answer(r, "refused") /\ UNCHANGED <<chain, queued>>
       ELSE /\ request' = [request EXCEPT ![r].pc = "chained"]
            /\ chain' = [chain EXCEPT ![p] = Append(@, r)]
            /\ queued' = [queued EXCEPT ![p] = @ + 1]
    /\ UNCHANGED <<now, project, dropping, blocked, cache, limiter, published>>

\* Mutant: a request that fails leaves its place taken.
LeaveChainMutant(p, r) ==
    /\ chain' = [chain EXCEPT ![p] = Tail(@)]
    /\ queued' = IF request'[r].failed THEN queued ELSE [queued EXCEPT ![p] = @ - 1]

LeaveChain(p, r) ==
    /\ chain' = [chain EXCEPT ![p] = Tail(@)]
    /\ queued' = [queued EXCEPT ![p] = @ - 1]

\* The transaction of the first one is over; whether it failed or not, the next one follows.
Transact(p) ==
    /\ chain[p] # <<>>
    /\ \E outcome \in Outcomes : Sent(Head(chain[p]), outcome)
    /\ LeaveChain(p, Head(chain[p]))
    /\ UNCHANGED <<now, project, dropping, blocked, cache, limiter>>

-----------------------------------------------------------------------------
\* The process ends, and starts again with nothing in memory.
Crash(p) ==
    /\ \E r \in Requests : ProcessOf[r] = p /\ request[r].pc \notin {"new", "answered"}
    /\ cache' = [cache EXCEPT ![p] = None] /\ limiter' = [limiter EXCEPT ![p] = None]
    /\ chain' = [chain EXCEPT ![p] = <<>>] /\ queued' = [queued EXCEPT ![p] = 0]
    /\ dropping' = dropping \ {p}
    /\ request' = [r \in Requests |->
                     IF ProcessOf[r] = p /\ request[r].pc \notin {"new", "answered"}
                     THEN Answered("refused") ELSE request[r]]
    /\ UNCHANGED <<now, project, blocked, published>>

Tick ==
    /\ now < MaxTime
    /\ now' = now + 1
    /\ UNCHANGED <<project, dropping, blocked, cache, limiter, chain, queued, request, published>>

Next ==
    \/ \E open \in {"closed", "open"}, feature \in BOOLEAN, p \in Processes \cup {None} : Change(open, feature, p)
    \/ \E p \in Processes : Invalidate(p) \/ Evict(p) \/ Transact(p) \/ Crash(p)
    \/ Block \/ Unblock \/ Tick
    \/ \E r \in Requests :
         \/ Begin(r) \/ Ask(r) \/ ReadRow(r) \/ ReadFeatures(r) \/ Load(r)
         \/ Probe(r) \/ Limit(r) \/ Publish(r) \/ Enqueue(r)

Spec == Init /\ [][Next]_vars

-----------------------------------------------------------------------------
\* Properties.

Versions == 1 .. Len(project)
Project == [open : {"missing", "closed", "open"}, feature : BOOLEAN, until : Nat]
Copied == [row : Nat, features : Nat, expires : Nat]
Window == [count : Nat, started : Nat]
Accept == [pc : {"new", "row", "features", "loaded", "probe", "limit", "publish", "chained", "answered"},
           started : Nat, row : Nat, features : Nat, failed : BOOLEAN,
           code : {"none", "accepted", "unavailable", "refused"}]

TypeOK ==
    /\ now \in Nat /\ project \in Seq(Project) /\ Len(project) > 0
    /\ dropping \subseteq Processes /\ (blocked # None => blocked \subseteq Requests)
    /\ cache \in [Processes -> Copied \cup {None}]
    /\ \A p \in Processes : cache[p] # None => cache[p].row \in Versions /\ cache[p].features \in Versions
    /\ limiter \in [Processes -> Window \cup {None}]
    /\ chain \in [Processes -> Seq(Requests)] /\ queued \in [Processes -> 0 .. ChainLimit]
    /\ request \in [Requests -> Accept] /\ published \subseteq Requests
    /\ \A r \in Requests : request[r].row \in 0 .. Len(project) /\ request[r].started \in 0 .. now

\* Version v of the project was in force at time t, or later.
Since(v, t) == v = Len(project) \/ project[v].until >= t

\* A batch is judged by a project that was in force Ttl before it came, or later, in its row as
\* in its features, although an invalidation may be overtaken by a read from before the change
\* (project, invalidateProject).
NeverStale ==
    /\ \A p \in Processes : cache[p] # None =>
         Since(cache[p].row, cache[p].expires - Ttl) /\ Since(cache[p].features, cache[p].expires - Ttl)
    /\ \A r \in Requests :
         /\ request[r].row # 0 => Since(request[r].row, request[r].started - Ttl)
         /\ request[r].features # 0 => Since(request[r].features, request[r].started - Ttl)

\* A version that is blocked is refused to every request that comes after, on every process
\* (assertProbe).
BlockHolds ==
    \A r \in Requests :
        blocked # None /\ request[r].pc \in {"limit", "publish", "chained"} => r \in blocked

\* Whoever is in the chain of a process is counted, a request that failed blocks nobody and fails
\* for its own reason only, and what is accepted is in the topic (publishWithObjects).
ChainSound ==
    /\ \A p \in Processes :
         /\ queued[p] = Len(chain[p])
         /\ Range(chain[p]) = {r \in Requests : ProcessOf[r] = p /\ request[r].pc = "chained"}
    /\ \A r \in Requests :
         /\ request[r].code = "accepted" => r \in published
         /\ request[r].code = "unavailable" => request[r].failed
===============================================================================
