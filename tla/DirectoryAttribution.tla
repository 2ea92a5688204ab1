------------------------- MODULE DirectoryAttribution -------------------------
(***************************************************************************)
(* Versions of the organization directory and the attribution of events to *)
(* them.  A version is published by a transaction that stamps it with the  *)
(* time of its UPDATE and becomes visible when it commits.  The API        *)
(* attributes an event to the version in force at the event's own time;    *)
(* the consumer, which reads the event from Kafka later, works the version *)
(* out again and refuses the message when it finds another one.            *)
(***************************************************************************)
EXTENDS Naturals

CONSTANTS
    Events,
    Versions,
    Skew,      \* how far an event's clock may be from the server's
    MaxTime,   \* bound: the time
    None       \* no version

ASSUME DirectoryAssumption ==
    /\ None \notin Versions
    /\ Skew \in Nat /\ MaxTime \in Nat

VARIABLES now, version, event

vars == <<now, version, event>>

Time == 0 .. MaxTime

\* A version is a draft until its transaction is open, and may be read once it
\* has committed.
Version == [status: {"draft", "open", "published"}, from: Time, until: 0 .. MaxTime + 1]

Event == [at: {"client", "received", "queued", "stored", "dead"},
          stamp: Time, received: Time,
          directory: Versions \cup {None},
          raced: BOOLEAN]   \* history: a publication overlapped its ingestion

Init ==
    /\ now = 0
    /\ \E until \in [Versions -> 0 .. MaxTime + 1] :
          version = [v \in Versions |-> [status |-> "draft", from |-> 0, until |-> until[v]]]
    /\ event = [e \in Events |-> [at |-> "client", stamp |-> 0, received |-> 0, directory |-> None,
                                  raced |-> FALSE]]

-----------------------------------------------------------------------------
\* directoryAt(): the latest publication known at asOf that precedes the stamp,
\* unless it expired before the stamp; an older version is never resurrected.
DirectoryAt(versions, stamp, asOf) ==
    LET candidates == {v \in Versions : /\ versions[v].status = "published"
                                        /\ versions[v].from <= stamp /\ versions[v].from <= asOf}
        inForce == {v \in candidates : /\ \A u \in candidates : versions[u].from <= versions[v].from
                                       /\ stamp < versions[v].until}
    IN  IF inForce = {} THEN None ELSE CHOOSE v \in inForce : TRUE

-----------------------------------------------------------------------------
\* Publishing.  The lock of the project row serializes the transactions.

\* The UPDATE stamps the version: a draft that has not expired, and no other
\* publication within the same millisecond (unique key).
Stamp(v) ==
    /\ \A u \in Versions : version[u].status # "open"
    /\ version[v].status = "draft"
    /\ version[v].until > now
    /\ \A u \in Versions : version[u].status = "published" => version[u].from # now
    /\ version' = [version EXCEPT ![v].status = "open", ![v].from = now]
    /\ event' = [e \in Events |-> [event[e] EXCEPT
          !.raced = @ \/ (event[e].at # "client" /\ event[e].received = now)]]
    /\ UNCHANGED now

\* Mutant: publication allows a start in the past.
CommitMutant(v) ==
    /\ version[v].status = "open"
    /\ \E from \in 0 .. version[v].from :
          version' = [version EXCEPT ![v].status = "published", ![v].from = from]
    /\ UNCHANGED <<now, event>>

Commit(v) ==
    /\ version[v].status = "open"
    /\ version' = [version EXCEPT ![v].status = "published"]
    /\ UNCHANGED <<now, event>>

\* The audit row fails.
Rollback(v) ==
    /\ version[v].status = "open"
    /\ version' = [version EXCEPT ![v].status = "draft", ![v].from = 0]
    /\ UNCHANGED <<now, event>>

-----------------------------------------------------------------------------
\* Ingestion.

\* The API takes the time of the request and checks the event's clock.
Receive(e, stamp) ==
    /\ event[e].at = "client"
    /\ stamp <= now + Skew /\ now <= stamp + Skew
    /\ event' = [event EXCEPT ![e] = [@ EXCEPT !.at = "received", !.stamp = stamp, !.received = now]]
    /\ UNCHANGED <<now, version>>

\* It reads the directories, attributes the event and publishes the envelope.
Attribute(e) ==
    /\ event[e].at = "received"
    /\ event' = [event EXCEPT ![e].at = "queued",
                              ![e].directory = DirectoryAt(version, event[e].stamp, event[e].received),
                              ![e].raced = @ \/ \E v \in Versions : version[v].status = "open"]
    /\ UNCHANGED <<now, version>>

\* The consumer checks the attribution; an event without one loses its claims
\* and is kept.
Consume(e) ==
    LET directory == DirectoryAt(version, event[e].stamp, event[e].received)
    IN  /\ event[e].at = "queued"
        /\ event' = [event EXCEPT ![e].at =
              IF event[e].directory \in {None, directory} THEN "stored" ELSE "dead"]
        /\ UNCHANGED <<now, version>>

Tick ==
    /\ now < MaxTime
    /\ now' = now + 1
    /\ UNCHANGED <<version, event>>

Next ==
    \/ \E v \in Versions : Stamp(v) \/ Commit(v) \/ Rollback(v)
    \/ \E e \in Events : Attribute(e) \/ Consume(e) \/ \E stamp \in Time : Receive(e, stamp)
    \/ Tick

Spec == Init /\ [][Next]_vars

-----------------------------------------------------------------------------
\* Every variable has its type, and no stamp of a version or reception of an event
\* lies in the future.
TypeOK ==
    /\ now \in Time
    /\ version \in [Versions -> Version]
    /\ event \in [Events -> Event]
    /\ \A v \in Versions : version[v].from <= now
    /\ \A e \in Events : event[e].received <= now

Attributed(e) == event[e].at \in {"queued", "stored", "dead"} /\ event[e].directory # None

(***************************************************************************)
(* The attribution of an event never changes afterwards, however many      *)
(* directories are published or expire before the consumer and the queries *)
(* look at it, unless a publication overlapped its ingestion (publish: a   *)
(* publication never rewrites earlier event attribution).                  *)
(***************************************************************************)
AttributionStands ==
    \A e \in Events : Attributed(e) /\ ~event[e].raced =>
        /\ DirectoryAt(version, event[e].stamp, event[e].received) = event[e].directory
        /\ event[e].at # "dead"

(***************************************************************************)
(* The same without the exception: what the comment in publish() says.     *)
(* The attribution of an event that the API accepted is never rewritten by *)
(* a publication, so that the consumer has no reason to refuse it.         *)
(***************************************************************************)
NeverRewritten == \A e \in Events : event[e].at # "dead"
=============================================================================
