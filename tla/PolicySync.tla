------------------------------ MODULE PolicySync ------------------------------
(***************************************************************************)
(* Remote diagnostic policy: administrators publish revisions, the SDK's   *)
(* adapter (createDiagnosticPolicy) synchronizes them with requests that   *)
(* may be answered in any order, late, after destroy() or after a new      *)
(* start(), and reports its health, which the server observes              *)
(* (DiagnosticOperations.observe).  Time is counted in minutes.            *)
(***************************************************************************)
EXTENDS Integers, FiniteSets

CONSTANTS
    MaxBackoff,   \* 15 minutes
    MaxRevision, MaxRequests, MaxStarts, MaxTime,   \* bounds
    None

Contents == {"errors", "context"}   \* what the collectors tell apart: level errors or off, level context

VARIABLES
    now,
    policies,   \* server: the content of each revision so far; the last one is in force
    client,     \* the adapter's variables
    wire,       \* requests on their way: answer is None until the server has served them
    health      \* server: the client's row of diagnostic_health

vars == <<now, policies, client, wire, health>>

Revision == Cardinality(DOMAIN policies) - 1

Init ==
    /\ now = 0
    /\ policies = [r \in {0} |-> "errors"]         \* DEFAULT_DIAGNOSTIC_POLICY
    /\ client = [alive |-> FALSE, generation |-> 0, requestNo |-> 0, appliedNo |-> 0,
                 published |-> 0, succeeded |-> FALSE, sync |-> "pending", adapter |-> None,
                 healthAt |-> None, backoff |-> 1, sequence |-> 0]
    /\ wire = {}
    /\ health = None

-----------------------------------------------------------------------------
\* The server.

\* publish(), with an optimistic lock on the revision: a form that is out of date changes nothing.
Publish ==
    /\ Revision < MaxRevision
    /\ \E content \in Contents :
         policies' = [r \in 0 .. Revision + 1 |-> IF r > Revision THEN content ELSE policies[r]]
    /\ UNCHANGED <<now, client, wire, health>>

Serve(m) ==
    /\ m.kind = "sync" /\ m.answer = None
    /\ wire' = (wire \ {m}) \cup {[m EXCEPT !.answer = Revision]}
    /\ UNCHANGED <<now, policies, client, health>>

\* Mutant: whatever arrives last is kept.
NewerMutant(m) == IF health = None THEN TRUE ELSE now - health.at >= 1

Newer(m) == IF health = None THEN TRUE ELSE health.sequence < m.number /\ now - health.at >= 1

\* observe(), under the project's lock.  The client may have given up long before.
Observe(m) ==
    /\ m.kind = "health" /\ m.answer = None
    /\ health' = IF Newer(m) THEN [sequence |-> m.number, revision |-> m.revision, at |-> now] ELSE health
    /\ wire' = (wire \ {m}) \cup {[m EXCEPT !.answer = 0] : x \in {n \in {m} : n.waited}}
    /\ UNCHANGED <<now, policies, client>>

-----------------------------------------------------------------------------
\* The client.

Message(kind, number, c) ==
    [kind |-> kind, number |-> number, epoch |-> c.generation, revision |-> c.published,
     answer |-> None, waited |-> TRUE]

\* rebuild()
Adapter(c) == IF c.alive /\ policies[c.published] = "context" THEN c.published ELSE None

\* reportHealth()
Reports(c) == c.alive /\ (IF c.healthAt = None THEN TRUE ELSE now - c.healthAt >= c.backoff)

Report(c, w) ==
    IF Reports(c)
    THEN /\ client' = [c EXCEPT !.healthAt = now, !.sequence = @ + 1]
         /\ wire' = w \cup {Message("health", c.sequence + 1, c)}
    ELSE client' = c /\ wire' = w

\* sync() up to its await
Sync ==
    /\ client.alive /\ client.requestNo < MaxRequests
    /\ LET c == [client EXCEPT !.requestNo = @ + 1]
       IN  client' = c /\ wire' = wire \cup {Message("sync", c.requestNo, c)}
    /\ UNCHANGED <<now, policies, health>>

ReportHealth ==
    /\ Reports(client)
    /\ Report(client, wire)
    /\ UNCHANGED <<now, policies, health>>

\* The answer still matters to this adapter.
Current(m) == client.alive /\ m.epoch = client.generation /\ m.number >= client.appliedNo

\* Mutant: an answer is taken as it comes.
AcceptsMutant(m) == TRUE

Accepts(m) == m.answer >= client.published

Applied(m) ==
    LET c == [client EXCEPT !.appliedNo = m.number, !.published = m.answer, !.succeeded = TRUE,
                            !.sync = "applied"]
    IN  IF m.answer # client.published THEN [c EXCEPT !.adapter = Adapter(c)] ELSE c

SyncFailed(c) == [c EXCEPT !.sync = IF c.succeeded THEN "last_valid" ELSE "failed"]

\* sync() after its await; an answer of another revision order is an error like any other.
Answer(m) ==
    /\ m.kind = "sync" /\ m.answer # None
    /\ IF ~Current(m)
       THEN client' = client /\ wire' = wire \ {m}
       ELSE Report(IF Accepts(m) THEN Applied(m) ELSE SyncFailed(client), wire \ {m})
    /\ UNCHANGED <<now, policies, health>>

\* An error, or the timeout of five seconds; what the server answers then changes nothing.
Fail(m) ==
    /\ m.kind = "sync"
    /\ IF Current(m) THEN Report(SyncFailed(client), wire \ {m})
       ELSE IF client.alive /\ m.epoch = client.generation THEN Report(client, wire \ {m})
       ELSE client' = client /\ wire' = wire \ {m}
    /\ UNCHANGED <<now, policies, health>>

Doubled(b) == IF 2 * b > MaxBackoff THEN MaxBackoff ELSE 2 * b

\* reportHealth() after its await: answered, or failed with the server's answer still to come.
HealthAnswered(m) ==
    /\ m.kind = "health" /\ m.waited
    /\ \E ok \in BOOLEAN :
         /\ ok => m.answer # None
         /\ client' = IF m.epoch # client.generation THEN client
                      ELSE [client EXCEPT !.backoff = IF ok THEN 1 ELSE Doubled(@)]
         /\ wire' = IF m.answer = None THEN (wire \ {m}) \cup {[m EXCEPT !.waited = FALSE]} ELSE wire \ {m}
    /\ UNCHANGED <<now, policies, health>>

\* destroy(): requests on their way are aborted, which fails them.
Destroyed(c) ==
    [c EXCEPT !.alive = FALSE, !.generation = @ + 1, !.adapter = None, !.sync = "destroyed"]

Destroy ==
    /\ client.alive
    /\ client' = Destroyed(client)
    /\ UNCHANGED <<now, policies, wire, health>>

\* start() by the owner begins with destroy() and ends with a first sync().
Start ==
    /\ client.generation < MaxStarts /\ client.requestNo < MaxRequests
    /\ LET d == Destroyed(client)
           c == [d EXCEPT !.alive = TRUE, !.requestNo = @ + 1,
                          !.sync = IF d.succeeded THEN "last_valid" ELSE "pending"]
           started == [c EXCEPT !.adapter = Adapter(c)]
       IN  client' = started /\ wire' = wire \cup {Message("sync", c.requestNo, started)}
    /\ UNCHANGED <<now, policies, health>>

Tick ==
    /\ now < MaxTime
    /\ now' = now + 1
    /\ UNCHANGED <<policies, client, wire, health>>

Next ==
    \/ \E m \in wire : Serve(m) \/ Observe(m) \/ Answer(m) \/ Fail(m) \/ HealthAnswered(m)
    \/ Publish \/ Sync \/ ReportHealth \/ Destroy \/ Start \/ Tick

Spec == Init /\ [][Next]_vars

-----------------------------------------------------------------------------
\* Properties.

Client ==
    [alive : BOOLEAN, generation : Nat, requestNo : Nat, appliedNo : Nat, published : Nat,
     succeeded : BOOLEAN, sync : {"pending", "applied", "last_valid", "failed", "destroyed"},
     adapter : Nat \cup {None}, healthAt : Nat \cup {None}, backoff : 1 .. MaxBackoff, sequence : Nat]
Request ==
    [kind : {"sync", "health"}, number : Nat, epoch : Nat, revision : Nat,
     answer : Nat \cup {None}, waited : BOOLEAN]
Health == [sequence : Nat, revision : Nat, at : Nat]

\* The variables keep their types, and nobody has a revision that was not published.
TypeOK ==
    /\ now \in 0 .. MaxTime
    /\ Revision \in 0 .. MaxRevision /\ policies \in [0 .. Revision -> Contents]
    /\ client \in Client /\ wire \subseteq Request /\ health \in Health \cup {None}
    /\ client.requestNo <= MaxRequests /\ client.appliedNo <= client.requestNo
    /\ client.published <= Revision
    /\ \A m \in wire : m.kind = "sync" /\ m.answer # None => m.answer <= Revision

\* Two synchronizations answered in the wrong order, a destroy and a new start in between: a
\* policy is never replaced by an older one (sync, start).
KeepsNewerPolicy == client'.published >= client.published

\* Health reports that arrive late or out of order never bring an older policy version back to
\* the operations page (observe).
ShowsNewerPolicy == health # None => health'.revision >= health.revision
=============================================================================
