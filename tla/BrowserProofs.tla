---------------------------- MODULE BrowserProofs ----------------------------
(***************************************************************************)
(* The attribution of events stands, policies and what is reported of them *)
(* advance, summaries and results keep their context, and the durations    *)
(* reported are what was visible: for any number of events, versions,      *)
(* revisions, requests and pages, any users, skew of the clocks and time.  *)
(*                                                                         *)
(* AttributionStands is not inductive: a version that is being published   *)
(* must not be able to take an attribution over when it commits.  Later    *)
(* says that its stamp follows every event whose ingestion it does not     *)
(* overlap.                                                                *)
(*                                                                         *)
(* UsageIsTrue is about events that were sent long ago.  Tells says that   *)
(* there is a function which gives the visible time at each settlement,    *)
(* that every segment is the difference of two of its values, and that the *)
(* running page view goes on from the last one.                            *)
(***************************************************************************)
EXTENDS MCBrowser, FiniteSetTheorems, NaturalsInduction, WellFoundedInduction, TLAPS

Ingested(e) == event[e].at \in {"queued", "stored", "dead"} /\ ~event[e].raced

Later ==
    \A e \in Events, v \in Versions :
        Ingested(e) /\ version[v].status = "open" => event[e].received < version[v].from

Stands(e) ==
    Ingested(e) /\ event[e].directory # None =>
        /\ DirectoryAt(version, event[e].stamp, event[e].received) = event[e].directory
        /\ event[e].at # "dead"

IInv == TypeOK /\ Later /\ \A e \in Events : Stands(e)

-----------------------------------------------------------------------------
Considered(versions, stamp, asOf) ==
    {v \in Versions : /\ versions[v].status = "published"
                      /\ versions[v].from <= stamp /\ versions[v].from <= asOf}

\* directoryAt() depends on nothing but the versions it considers.
LEMMA SameDirectory ==
    ASSUME NEW f, NEW g, NEW stamp, NEW asOf,
           Considered(f, stamp, asOf) = Considered(g, stamp, asOf),
           \A v \in Considered(f, stamp, asOf) : f[v] = g[v]
    PROVE  DirectoryAt(f, stamp, asOf) = DirectoryAt(g, stamp, asOf)
<1> DEFINE S(h) == {v \in Considered(h, stamp, asOf) :
                       /\ \A u \in Considered(h, stamp, asOf) : h[u].from <= h[v].from
                       /\ stamp < h[v].until}
<1>1. S(f) = S(g)
  OBVIOUS
<1>2. \A h : DirectoryAt(h, stamp, asOf) = IF S(h) = {} THEN None ELSE CHOOSE v \in S(h) : TRUE
  BY DEF DirectoryAt, Considered
<1> QED
  BY <1>1, <1>2

\* It returns a version or none.
LEMMA DirectoryType ==
    ASSUME NEW f, NEW stamp, NEW asOf
    PROVE  DirectoryAt(f, stamp, asOf) \in Versions \cup {None}
<1> DEFINE S == {v \in Considered(f, stamp, asOf) :
                       /\ \A u \in Considered(f, stamp, asOf) : f[u].from <= f[v].from
                       /\ stamp < f[v].until}
<1>1. DirectoryAt(f, stamp, asOf) = IF S = {} THEN None ELSE CHOOSE v \in S : TRUE
  BY DEF DirectoryAt, Considered
<1>2. S \subseteq Versions
  BY DEF Considered
<1> QED
  BY <1>1, <1>2

\* A version that is not published before or after changes nothing.
LEMMA OneVersion ==
    ASSUME NEW f, NEW g, NEW w \in Versions, NEW stamp, NEW asOf,
           \A v \in Versions \ {w} : f[v] = g[v],
           w \notin Considered(f, stamp, asOf), w \notin Considered(g, stamp, asOf)
    PROVE  DirectoryAt(f, stamp, asOf) = DirectoryAt(g, stamp, asOf)
<1>1. Considered(f, stamp, asOf) = Considered(g, stamp, asOf)
  BY DEF Considered
<1>2. \A v \in Considered(f, stamp, asOf) : f[v] = g[v]
  BY DEF Considered
<1> QED
  BY <1>1, <1>2, SameDirectory

-----------------------------------------------------------------------------
\* Publishing.

\* A step of the version w that none of the ingested events considers.
LEMMA VersionStep ==
    ASSUME IInv, NEW w \in Versions, TypeOK', Later',
           \A v \in Versions \ {w} : version'[v] = version[v],
           \A e \in Events :
              /\ event'[e].stamp = event[e].stamp /\ event'[e].received = event[e].received
              /\ event'[e].at = event[e].at /\ event'[e].directory = event[e].directory
              /\ ~event'[e].raced => ~event[e].raced,
           \A e \in Events : Ingested(e) =>
              /\ w \notin Considered(version, event[e].stamp, event[e].received)
              /\ w \notin Considered(version', event[e].stamp, event[e].received)
    PROVE  IInv'
<1>1. ASSUME NEW e \in Events, Ingested(e)', event'[e].directory # None
      PROVE  /\ DirectoryAt(version', event'[e].stamp, event'[e].received) = event'[e].directory
             /\ event'[e].at # "dead"
  <2>1. Ingested(e) /\ event[e].directory # None
    BY <1>1 DEF Ingested
  <2>2. /\ DirectoryAt(version, event[e].stamp, event[e].received) = event[e].directory
        /\ event[e].at # "dead"
    BY <2>1 DEF IInv, Stands
  <2>3. DirectoryAt(version, event[e].stamp, event[e].received)
        = DirectoryAt(version', event[e].stamp, event[e].received)
    BY <2>1, OneVersion
  <2> QED
    BY <2>2, <2>3
<1> QED
  BY <1>1 DEF IInv, Stands

LEMMA StampStep ==
    ASSUME IInv, NEW w \in Versions, Stamp(w)
    PROVE  IInv'
<1>1. TypeOK
  BY DEF IInv
<1>2. /\ version[w].status = "draft" /\ now' = now
      /\ version' = [version EXCEPT ![w].status = "open", ![w].from = now]
      /\ \A e \in Events : event'[e] = [event[e] EXCEPT
             !.raced = @ \/ (event[e].at # "client" /\ event[e].received = now)]
  BY DEF Stamp
<1>3. /\ version'[w].status = "open" /\ version'[w].from = now
      /\ \A v \in Versions \ {w} : version'[v] = version[v]
  BY <1>1, <1>2 DEF TypeOK, Version
<1>4. ASSUME NEW e \in Events
      PROVE  /\ event[e] \in Event /\ event'[e] \in Event
             /\ event'[e].stamp = event[e].stamp /\ event'[e].received = event[e].received
             /\ event'[e].at = event[e].at /\ event'[e].directory = event[e].directory
             /\ event'[e].raced <=> event[e].raced \/ (event[e].at # "client" /\ event[e].received = now)
  <2> DEFINE b == event[e].raced \/ (event[e].at # "client" /\ event[e].received = now)
  <2>1. event[e] \in Event
    BY <1>1 DEF TypeOK
  <2>2. b \in BOOLEAN
    BY <2>1 DEF Event
  <2>3. event'[e] = [event[e] EXCEPT !.raced = b]
    BY <1>2
  <2> HIDE DEF b
  <2>4. /\ event'[e] \in Event /\ event'[e].raced = b
        /\ event'[e].stamp = event[e].stamp /\ event'[e].received = event[e].received
        /\ event'[e].at = event[e].at /\ event'[e].directory = event[e].directory
    BY <2>1, <2>2, <2>3 DEF Event
  <2> QED
    BY <2>1, <2>4 DEF b
<1>5. version' \in [Versions -> Version]
  BY <1>1, <1>2, ZenonT(30) DEF TypeOK, Version, Time
<1>6. event' \in [Events -> Event]
  <2>1. event' = [e \in Events |-> event'[e]]
    BY DEF Stamp
  <2> QED
    BY <1>4, <2>1
<1>7. TypeOK'
  BY <1>1, <1>2, <1>3, <1>4, <1>5, <1>6, DirectoryAssumption DEF TypeOK, Time
<1>8. Later'
  <2>1. ASSUME NEW e \in Events, NEW v \in Versions, Ingested(e)', version'[v].status = "open"
        PROVE  event'[e].received < version'[v].from
    <3>1. CASE v = w
      <4>1. event[e].received # now /\ event[e].received <= now
        BY <1>1, <1>4, <2>1 DEF Ingested, TypeOK
      <4>2. event[e].received \in Nat /\ now \in Nat
        BY <1>1, <1>4, DirectoryAssumption DEF Event, Time, TypeOK
      <4> QED
        BY <3>1, <4>1, <4>2, <1>3, <1>4
    <3>2. CASE v # w
      BY <3>2, <2>1, <1>3, <1>4 DEF Ingested, IInv, Later
    <3> QED
      BY <3>1, <3>2
  <2> QED
    BY <2>1 DEF Later
<1>9. \A s, r : w \notin Considered(version, s, r) /\ w \notin Considered(version', s, r)
  BY <1>2, <1>3 DEF Considered
<1> QED
  BY <1>3, <1>4, <1>7, <1>8, <1>9, VersionStep

LEMMA CommitStep ==
    ASSUME IInv, NEW w \in Versions, Commit(w)
    PROVE  IInv'
<1>1. TypeOK
  BY DEF IInv
<1>2. /\ version[w].status = "open" /\ UNCHANGED <<now, event>>
      /\ version' = [version EXCEPT ![w].status = "published"]
  BY DEF Commit
<1>3. /\ version'[w].status = "published" /\ version'[w].from = version[w].from
      /\ \A v \in Versions \ {w} : version'[v] = version[v]
  BY <1>1, <1>2 DEF TypeOK, Version
<1>4. version' \in [Versions -> Version]
  BY <1>1, <1>2 DEF TypeOK, Version
<1>5. TypeOK'
  BY <1>1, <1>2, <1>3, <1>4 DEF TypeOK
<1>6. Later'
  BY <1>2, <1>3 DEF Later, Ingested, IInv
<1>7. ASSUME NEW e \in Events, Ingested(e)
      PROVE  /\ w \notin Considered(version, event[e].stamp, event[e].received)
             /\ w \notin Considered(version', event[e].stamp, event[e].received)
  <2>1. event[e].received < version[w].from
    BY <1>2, <1>7 DEF IInv, Later
  <2>2. event[e].received \in Nat /\ version[w].from \in Nat
    BY <1>1, DirectoryAssumption DEF TypeOK, Event, Version, Time
  <2> QED
    BY <1>2, <1>3, <2>1, <2>2 DEF Considered
<1>8. \A e \in Events :
        /\ event'[e].stamp = event[e].stamp /\ event'[e].received = event[e].received
        /\ event'[e].at = event[e].at /\ event'[e].directory = event[e].directory
        /\ ~event'[e].raced => ~event[e].raced
  BY <1>2
<1> QED
  BY <1>3, <1>5, <1>6, <1>7, <1>8, VersionStep

LEMMA RollbackStep ==
    ASSUME IInv, NEW w \in Versions, Rollback(w)
    PROVE  IInv'
<1>1. TypeOK
  BY DEF IInv
<1>2. /\ version[w].status = "open" /\ UNCHANGED <<now, event>>
      /\ version' = [version EXCEPT ![w].status = "draft", ![w].from = 0]
  BY DEF Rollback
<1>3. /\ version'[w].status = "draft" /\ version'[w].from = 0
      /\ \A v \in Versions \ {w} : version'[v] = version[v]
  BY <1>1, <1>2 DEF TypeOK, Version
<1>4. version' \in [Versions -> Version]
  <2>1. 0 \in Time
    BY DirectoryAssumption DEF Time
  <2> QED
    BY <1>1, <1>2, <2>1 DEF TypeOK, Version
<1>5. TypeOK'
  <2>1. now \in Nat
    BY <1>1, DirectoryAssumption DEF TypeOK, Time
  <2>2. \A v \in Versions : version'[v].from <= now
    BY <1>1, <1>3, <2>1 DEF TypeOK
  <2> QED
    BY <1>1, <1>2, <1>4, <2>2 DEF TypeOK
<1>6. Later'
  BY <1>2, <1>3 DEF Later, Ingested, IInv
<1>7. \A s, r : w \notin Considered(version, s, r) /\ w \notin Considered(version', s, r)
  BY <1>2, <1>3 DEF Considered
<1>8. \A e \in Events :
        /\ event'[e].stamp = event[e].stamp /\ event'[e].received = event[e].received
        /\ event'[e].at = event[e].at /\ event'[e].directory = event[e].directory
        /\ ~event'[e].raced => ~event[e].raced
  BY <1>2
<1> QED
  BY <1>3, <1>5, <1>6, <1>7, <1>8, VersionStep

-----------------------------------------------------------------------------
\* Ingestion.

\* A step of the event x that leaves the versions alone.
LEMMA EventStep ==
    ASSUME IInv, NEW x \in Events, NEW r \in Event, UNCHANGED <<now, version>>,
           event' = [event EXCEPT ![x] = r], r.received <= now,
           Ingested(x)' => /\ \A v \in Versions : version[v].status = "open" => r.received < version[v].from
                           /\ r.directory # None =>
                                 /\ DirectoryAt(version, r.stamp, r.received) = r.directory
                                 /\ r.at # "dead"
    PROVE  IInv'
<1>1. event \in [Events -> Event] /\ TypeOK
  BY DEF IInv, TypeOK
<1>2. event'[x] = r /\ \A e \in Events \ {x} : event'[e] = event[e]
  BY <1>1
<1>3. TypeOK'
  BY <1>1, <1>2 DEF TypeOK
<1>4. ASSUME NEW e \in Events \ {x}
      PROVE  (Ingested(e)' <=> Ingested(e)) /\ Stands(e)'
  BY <1>2 DEF Ingested, Stands, IInv
<1>5. Stands(x)'
  BY <1>2 DEF Stands
<1>6. Later'
  BY <1>2, <1>4 DEF Later, IInv
<1> QED
  BY <1>3, <1>4, <1>5, <1>6 DEF IInv

LEMMA ReceiveStep ==
    ASSUME IInv, NEW x \in Events, NEW stamp \in Time, Receive(x, stamp)
    PROVE  IInv'
<1> DEFINE r == [event[x] EXCEPT !.at = "received", !.stamp = stamp, !.received = now]
<1>1. event[x] \in Event /\ now \in Time /\ event \in [Events -> Event]
  BY DEF IInv, TypeOK
<1>2. r \in Event /\ r.at = "received" /\ r.received = now
  BY <1>1 DEF Event
<1>3. event' = [event EXCEPT ![x] = r] /\ event'[x] = r
  BY <1>1 DEF Receive
<1>4. now <= now
  BY <1>1, DirectoryAssumption DEF Time
<1>5. ~Ingested(x)'
  BY <1>2, <1>3 DEF Ingested
<1> QED
  <2>1. UNCHANGED <<now, version>>
    BY DEF Receive
  <2>2. r.received <= now
    BY <1>2, <1>4
  <2> HIDE DEF r
  <2> QED
    BY <1>2, <1>3, <1>5, <2>1, <2>2, EventStep

LEMMA AttributeStep ==
    ASSUME IInv, NEW x \in Events, Attribute(x)
    PROVE  IInv'
<1> DEFINE d == DirectoryAt(version, event[x].stamp, event[x].received)
           b == event[x].raced \/ \E v \in Versions : version[v].status = "open"
           r == [event[x] EXCEPT !.at = "queued", !.directory = d, !.raced = b]
<1>1. event[x] \in Event /\ event \in [Events -> Event] /\ event[x].received <= now
  BY DEF IInv, TypeOK
<1>2. d \in Versions \cup {None}
  BY DirectoryType
<1>3. b \in BOOLEAN
  BY <1>1 DEF Event
<1>4. /\ r \in Event /\ r.at = "queued" /\ r.received = event[x].received
      /\ r.stamp = event[x].stamp /\ r.directory = d /\ r.raced = b
  BY <1>1, <1>2, <1>3 DEF Event
<1>5. event' = [event EXCEPT ![x] = r] /\ event'[x] = r
  BY <1>1 DEF Attribute
<1>6. Ingested(x)' => \A v \in Versions : version[v].status # "open"
  BY <1>4, <1>5 DEF Ingested
<1>7. UNCHANGED <<now, version>>
  BY DEF Attribute
<1>8. r.received <= now
  BY <1>1, <1>4
<1>9. DirectoryAt(version, r.stamp, r.received) = d
  BY <1>4
<1> HIDE DEF r, d, b
<1>10. Ingested(x)' => /\ \A v \in Versions : version[v].status = "open" => r.received < version[v].from
                       /\ r.directory # None =>
                             /\ DirectoryAt(version, r.stamp, r.received) = r.directory
                             /\ r.at # "dead"
  BY <1>4, <1>6, <1>9
<1> QED
  BY <1>4, <1>5, <1>7, <1>8, <1>10, EventStep

LEMMA ConsumeStep ==
    ASSUME IInv, NEW x \in Events, Consume(x)
    PROVE  IInv'
<1> DEFINE d == DirectoryAt(version, event[x].stamp, event[x].received)
           at == IF event[x].directory \in {None, d} THEN "stored" ELSE "dead"
           r == [event[x] EXCEPT !.at = at]
<1>1. event[x] \in Event /\ event \in [Events -> Event] /\ event[x].received <= now
  BY DEF IInv, TypeOK
<1>2. /\ r \in Event /\ r.at = at /\ r.received = event[x].received
      /\ r.stamp = event[x].stamp /\ r.directory = event[x].directory /\ r.raced = event[x].raced
  BY <1>1 DEF Event
<1>3. event' = [event EXCEPT ![x] = r] /\ event'[x] = r
  BY <1>1 DEF Consume
<1>4. Ingested(x)' => Ingested(x)
  BY <1>2, <1>3 DEF Ingested, Consume
<1>5. Ingested(x) => /\ \A v \in Versions : version[v].status = "open" => event[x].received < version[v].from
                     /\ event[x].directory # None => d = event[x].directory
  BY DEF IInv, Later, Stands
<1>6. UNCHANGED <<now, version>>
  BY DEF Consume
<1>7. r.received <= now
  BY <1>1, <1>2
<1>8. DirectoryAt(version, r.stamp, r.received) = d
  BY <1>2
<1>9. event[x].directory = d => at = "stored"
  OBVIOUS
<1> HIDE DEF r, d, at
<1>10. Ingested(x)' => /\ \A v \in Versions : version[v].status = "open" => r.received < version[v].from
                       /\ r.directory # None =>
                             /\ DirectoryAt(version, r.stamp, r.received) = r.directory
                             /\ r.at # "dead"
  BY <1>2, <1>4, <1>5, <1>8, <1>9
<1> QED
  BY <1>2, <1>3, <1>6, <1>7, <1>10, EventStep

LEMMA TickStep ==
    ASSUME IInv, Tick
    PROVE  IInv'
<1>1. now \in Time /\ now' = now + 1 /\ now' \in Time /\ UNCHANGED <<version, event>>
  BY DirectoryAssumption DEF Tick, IInv, TypeOK, Time
<1>2. TypeOK'
  <2>1. \A v \in Versions : version[v].from \in Nat /\ version[v].from <= now
    BY DirectoryAssumption DEF IInv, TypeOK, Version, Time
  <2>2. \A e \in Events : event[e].received \in Nat /\ event[e].received <= now
    <3>1. \A e \in Events : event[e] \in Event /\ event[e].received <= now
      BY DEF IInv, TypeOK
    <3>2. \A t \in Time : t \in Nat
      BY DirectoryAssumption DEF Time
    <3> QED
      BY <3>1, <3>2 DEF Event
  <2>3. \A v \in Versions : version[v].from <= now + 1
    BY <1>1, <2>1, DirectoryAssumption DEF Time
  <2>4. \A e \in Events : event[e].received <= now + 1
    BY <1>1, <2>2, DirectoryAssumption DEF Time
  <2> QED
    BY <1>1, <2>3, <2>4 DEF IInv, TypeOK
<1>3. Later' /\ \A e \in Events : Stands(e)'
  BY <1>1 DEF IInv, Later, Stands, Ingested
<1> QED
  BY <1>2, <1>3 DEF IInv

-----------------------------------------------------------------------------
LEMMA InitIInv == Init => IInv
<1> SUFFICES ASSUME Init PROVE IInv
  OBVIOUS
<1>1. PICK until \in [Versions -> 0 .. MaxTime + 1] :
        version = [v \in Versions |-> [status |-> "draft", from |-> 0, until |-> until[v]]]
  BY DEF Init
<1>2. 0 \in Time
  BY DirectoryAssumption DEF Time
<1>3. version \in [Versions -> Version]
  BY <1>1, <1>2 DEF Version
<1>4. event \in [Events -> Event] /\ \A e \in Events : event[e].at = "client" /\ event[e].received = 0
  BY <1>2 DEF Init, Event
<1>5. \A v \in Versions : version[v].from = 0
  BY <1>1
<1>6. TypeOK
  <2>1. now = 0
    BY DEF Init
  <2>2. (\A v \in Versions : version[v].from <= now) /\ \A e \in Events : event[e].received <= now
    BY <1>4, <1>5, <2>1
  <2> QED
    BY <1>2, <1>3, <1>4, <2>1, <2>2 DEF TypeOK
<1> QED
  BY <1>4, <1>6 DEF IInv, Later, Stands, Ingested

LEMMA NextIInv == IInv /\ [Next]_vars => IInv'
<1> SUFFICES ASSUME IInv, [Next]_vars PROVE IInv'
  OBVIOUS
<1>1. ASSUME NEW v \in Versions, Stamp(v) \/ Commit(v) \/ Rollback(v)
      PROVE  IInv'
  BY <1>1, StampStep, CommitStep, RollbackStep
<1>2. ASSUME NEW e \in Events, Attribute(e) \/ Consume(e)
      PROVE  IInv'
  BY <1>2, AttributeStep, ConsumeStep
<1>3. ASSUME NEW e \in Events, NEW stamp \in Time, Receive(e, stamp)
      PROVE  IInv'
  BY <1>3, ReceiveStep
<1>4. CASE Tick
  BY <1>4, TickStep
<1>5. CASE UNCHANGED vars
  BY <1>5 DEF vars, IInv, TypeOK, Later, Stands, Ingested
<1> QED
  BY <1>1, <1>2, <1>3, <1>4, <1>5 DEF Next

LEMMA IInvMeans == IInv => TypeOK /\ AttributionStands
  BY DEF IInv, Stands, AttributionStands, Attributed, Ingested

(***************************************************************************)
(* No later publication, expiry or delay of the consumer changes the       *)
(* attribution of an event that no publication overlapped, and such an     *)
(* event is never refused for it.                                          *)
(***************************************************************************)
THEOREM AttributionIsFinal == Spec => [](TypeOK /\ AttributionStands)
  BY InitIInv, NextIInv, IInvMeans, PTL DEF Spec

-----------------------------------------------------------------------------
\* The diagnostic policy.

Reports(w) == {m \in w : m.kind = "health"}

\* The reports on their way and the one that was kept follow the order in which they were made, and
\* so do the revisions they report.
Reported ==
    /\ \A m \in Reports(wire) : m.number <= client.sequence /\ m.revision <= client.published
    /\ \A m, n \in Reports(wire) : m.number <= n.number => m.revision <= n.revision
    /\ health # None =>
         /\ health.sequence <= client.sequence /\ health.revision <= client.published
         /\ \A m \in Reports(wire) : health.sequence < m.number => health.revision <= m.revision

\* What is answered was asked for, by a revision there is.
Asked(w, c) == \A m \in w : m.kind = "sync" =>
    m.number <= c.requestNo /\ (m.answer # None => m.answer <= Policy!Revision)

PolicyInvariant == Policy!TypeOK /\ Reported /\ Asked(wire, client)

\* The adapter may change like this and keep what was reported: it takes no older policy.
Advanced(c) ==
    /\ c \in Policy!Client
    /\ c.published >= client.published /\ c.published <= Policy!Revision /\ c.sequence = client.sequence
    /\ c.requestNo <= Syncing.requests /\ c.appliedNo <= c.requestNo

\* A request that is no report, or no request, joins those on their way.
LEMMA PolicyRests ==
    ASSUME PolicyInvariant, UNCHANGED <<policies, health>>, now' \in 0 .. Syncing.time, Advanced(client'),
           wire' \subseteq Policy!Request,
           Asked(wire', client'),
           \A m \in Reports(wire') : \E n \in Reports(wire) : m.number = n.number /\ m.revision = n.revision
    PROVE  PolicyInvariant' /\ client'.published >= client.published
<1>1. /\ Policy!TypeOK /\ Reported /\ Policy!Revision' = Policy!Revision /\ Policy!Revision \in Nat
      /\ client \in Policy!Client /\ client' \in Policy!Client /\ wire \subseteq Policy!Request
      /\ health \in Policy!Health \cup {None}
    BY BrowserAssumption DEF PolicyInvariant, Policy!TypeOK, Advanced, Policy!Revision
<1>2. Policy!TypeOK' /\ Asked(wire, client)'
    BY <1>1 DEF Policy!TypeOK, Advanced, Asked
<1>3. /\ client.published \in Nat /\ client'.published \in Nat /\ client.sequence \in Nat
      /\ \A m \in wire : m.number \in Nat /\ m.revision \in Nat
      /\ \A m \in wire' : m.number \in Nat /\ m.revision \in Nat
      /\ health # None => health.sequence \in Nat /\ health.revision \in Nat
    BY <1>1 DEF Policy!Client, Policy!Request, Policy!Health
<1>4. Reports(wire) \subseteq wire /\ Reports(wire') \subseteq wire'
    BY DEF Reports
<1>5. ASSUME NEW m \in Reports(wire')
      PROVE  m.number <= client'.sequence /\ m.revision <= client'.published
    BY <1>1, <1>3, <1>4, <1>5 DEF Reported, Advanced
<1>6. ASSUME NEW m \in Reports(wire'), NEW n \in Reports(wire'), m.number <= n.number
      PROVE  m.revision <= n.revision
    BY <1>1, <1>6 DEF Reported
<1>7. ASSUME health # None
      PROVE  /\ health.sequence <= client'.sequence /\ health.revision <= client'.published
             /\ \A m \in Reports(wire') : health.sequence < m.number => health.revision <= m.revision
    BY <1>1, <1>3, <1>7 DEF Reported, Advanced
<1>8. Reported'
    BY <1>5, <1>6, <1>7 DEF Reported
<1> QED BY <1>2, <1>8 DEF PolicyInvariant, Advanced

\* A report carries a new number and the policy there is; without one the adapter is what it became.
LEMMA ReportKeeps ==
    ASSUME PolicyInvariant, UNCHANGED <<now, policies, health>>,
           NEW c, Advanced(c), NEW w \in SUBSET wire, Asked(w, c), Policy!Report(c, w)
    PROVE  PolicyInvariant' /\ client'.published >= client.published
<1>1. /\ Policy!TypeOK /\ Reported /\ Policy!Revision' = Policy!Revision /\ Policy!Revision \in Nat
      /\ client \in Policy!Client /\ c \in Policy!Client /\ wire \subseteq Policy!Request
      /\ health \in Policy!Health \cup {None} /\ now \in 0 .. Syncing.time /\ now \in Nat
    BY BrowserAssumption DEF PolicyInvariant, Policy!TypeOK, Advanced, Policy!Revision
<1>2. CASE ~Policy!Reports(c)
    <2>1. client' = c /\ wire' = w
        BY <1>2 DEF Policy!Report
    <2>2. Asked(wire', client')
        BY <2>1
    <2>3. Reports(wire') \subseteq Reports(wire)
        BY <2>1 DEF Reports
    <2>4. wire' \subseteq Policy!Request
        BY <1>1, <2>1
    <2> QED BY <1>1, <2>1, <2>2, <2>3, <2>4, PolicyRests
<1>3. CASE Policy!Reports(c)
    <2>1. PICK report :
            /\ report = Policy!Message("health", c.sequence + 1, c)
            /\ client' = [c EXCEPT !.healthAt = now, !.sequence = @ + 1] /\ wire' = w \cup {report}
        BY <1>3 DEF Policy!Report
    <2>2. /\ report \in Policy!Request /\ report.number = c.sequence + 1 /\ report.revision = c.published
          /\ report.kind = "health"
        BY <1>1, <2>1 DEF Policy!Message, Policy!Client, Policy!Request
    <2>3. /\ client' \in Policy!Client /\ client'.published = c.published /\ client'.sequence = c.sequence + 1
          /\ client'.requestNo = c.requestNo /\ client'.appliedNo = c.appliedNo
        <3>1. c.sequence + 1 \in Nat
            BY <1>1 DEF Policy!Client
        <3> QED BY <1>1, <2>1, <3>1 DEF Policy!Client
    <2>4. /\ client.published \in Nat /\ c.published \in Nat /\ client.sequence \in Nat /\ c.sequence = client.sequence
          /\ c.published >= client.published /\ c.published <= Policy!Revision
          /\ \A m \in wire : m.number \in Nat /\ m.revision \in Nat
          /\ health # None => health.sequence \in Nat /\ health.revision \in Nat
        BY <1>1 DEF Policy!Client, Policy!Request, Policy!Health, Advanced
    <2>5. \A m \in Reports(wire') : m \in Reports(wire) \/ m = report
        BY <2>1 DEF Reports
    <2>6. Reports(wire) \subseteq wire
        BY DEF Reports
    <2>7. \A m \in Reports(wire) : m.number <= c.sequence /\ m.revision <= c.published
        BY <1>1, <2>4, <2>6 DEF Reported
    <2>8. Policy!TypeOK'
        <3>1. wire' \subseteq Policy!Request
            BY <1>1, <2>1, <2>2
        <3>2. \A m \in wire' : m.kind = "sync" /\ m.answer # None => m.answer <= Policy!Revision
            BY <1>1, <2>1, <2>2 DEF Asked
        <3> QED BY <1>1, <2>3, <2>4, <3>1, <3>2 DEF Policy!TypeOK, Advanced
    <2>9. \A m \in Reports(wire') : m.number <= client'.sequence /\ m.revision <= client'.published
        BY <2>2, <2>3, <2>4, <2>5, <2>6, <2>7
    <2>10. ASSUME NEW m \in Reports(wire'), NEW n \in Reports(wire'), m.number <= n.number
           PROVE  m.revision <= n.revision
        BY <1>1, <2>10, <2>2, <2>4, <2>5, <2>6, <2>7 DEF Reported
    <2>11. ASSUME health # None
           PROVE  /\ health.sequence <= client'.sequence /\ health.revision <= client'.published
                  /\ \A m \in Reports(wire') : health.sequence < m.number => health.revision <= m.revision
        BY <1>1, <2>11, <2>2, <2>3, <2>4, <2>5 DEF Reported
    <2>12. Reported'
        BY <2>9, <2>10, <2>11 DEF Reported
    <2>13. Asked(wire, client)'
        BY <1>1, <2>1, <2>2, <2>3 DEF Asked
    <2> QED BY <2>3, <2>4, <2>8, <2>12, <2>13 DEF PolicyInvariant
<1> QED BY <1>2, <1>3

\* An answer is applied if its policy is not older than the one in use, and fails otherwise.
LEMMA AnswerKeeps ==
    ASSUME PolicyInvariant, NEW m \in wire, Policy!Answer(m) \/ Policy!Fail(m)
    PROVE  PolicyInvariant' /\ client'.published >= client.published /\ UNCHANGED health
<1>1. /\ Policy!TypeOK /\ client \in Policy!Client /\ m \in Policy!Request /\ Policy!Revision \in Nat
      /\ client.published <= Policy!Revision /\ client.requestNo <= Syncing.requests
      /\ client.appliedNo <= client.requestNo
    BY BrowserAssumption DEF PolicyInvariant, Policy!TypeOK
<1>2. Advanced(client) /\ UNCHANGED <<now, policies, health>> /\ wire \ {m} \in SUBSET wire
    BY <1>1 DEF Advanced, Policy!Client, Policy!Answer, Policy!Fail
<1>3. /\ Advanced(Policy!SyncFailed(client)) /\ Policy!SyncFailed(client).requestNo = client.requestNo
    BY <1>1 DEF Advanced, Policy!SyncFailed, Policy!Client
<1>4. Asked(wire \ {m}, client) /\ Asked(wire \ {m}, Policy!SyncFailed(client))
    BY <1>3 DEF PolicyInvariant, Asked
<1>5. CASE client' = client /\ wire' = wire \ {m}
    <2>1. Reports(wire') \subseteq Reports(wire) /\ wire' \subseteq Policy!Request /\ now' \in 0 .. Syncing.time
        BY <1>1, <1>2, <1>5 DEF Reports, Policy!TypeOK
    <2> QED BY <1>2, <1>4, <1>5, <2>1, PolicyRests
<1>6. CASE Policy!Report(client, wire \ {m}) \/ Policy!Report(Policy!SyncFailed(client), wire \ {m})
    BY <1>2, <1>3, <1>4, <1>6, ReportKeeps
<1>7. CASE Policy!Report(Policy!Applied(m), wire \ {m}) /\ Policy!Accepts(m) /\ Policy!Answer(m)
    <2>1. /\ m.answer \in Nat /\ m.answer <= Policy!Revision /\ m.answer >= client.published
          /\ m.number \in Nat /\ m.number <= client.requestNo
        BY <1>1, <1>7 DEF Policy!Answer, PolicyInvariant, Asked, Policy!Request, Policy!Accepts
    <2>2. PICK d : d = [client EXCEPT !.appliedNo = m.number, !.published = m.answer, !.succeeded = TRUE,
                                      !.sync = "applied"]
        OBVIOUS
    <2>3. /\ d \in Policy!Client /\ d.published = m.answer /\ d.appliedNo = m.number
          /\ d.requestNo = client.requestNo /\ d.sequence = client.sequence
        BY <1>1, <2>1, <2>2 DEF Policy!Client
    <2>4. PICK c : /\ c = Policy!Applied(m) /\ (c = d \/ c = [d EXCEPT !.adapter = Policy!Adapter(d)])
        BY <2>2 DEF Policy!Applied
    <2>5. Policy!Adapter(d) \in Nat \cup {None}
        BY <2>1, <2>3 DEF Policy!Adapter
    <2>6. /\ c \in Policy!Client /\ c.published = m.answer /\ c.appliedNo = m.number
          /\ c.requestNo = client.requestNo /\ c.sequence = client.sequence
        BY <2>3, <2>4, <2>5 DEF Policy!Client
    <2>7. Advanced(c) /\ Asked(wire \ {m}, c)
        BY <1>1, <1>4, <2>1, <2>6 DEF Advanced, Asked
    <2> QED BY <1>2, <1>7, <2>4, <2>7, ReportKeeps
<1> QED BY <1>5, <1>6, <1>7 DEF Policy!Answer, Policy!Fail

\* What a request on its way becomes.
LEMMA PolicyFields ==
    ASSUME PolicyInvariant
    PROVE  /\ now \in 0 .. Syncing.time /\ Policy!Revision \in Nat /\ Policy!Revision <= Syncing.revisions
           /\ policies \in [0 .. Policy!Revision -> Policy!Contents] /\ health \in Policy!Health \cup {None}
           /\ client \in Policy!Client /\ Advanced(client) /\ client.published \in Nat
           /\ \A m \in wire : m \in Policy!Request /\ m.number \in Nat /\ m.revision \in Nat
<1>1. /\ now \in 0 .. Syncing.time /\ Policy!Revision \in 0 .. Syncing.revisions /\ Syncing.revisions \in Nat
      /\ policies \in [0 .. Policy!Revision -> Policy!Contents] /\ health \in Policy!Health \cup {None}
      /\ client \in Policy!Client /\ wire \subseteq Policy!Request
      /\ client.published <= Policy!Revision /\ client.requestNo <= Syncing.requests
      /\ client.appliedNo <= client.requestNo
    BY BrowserAssumption DEF PolicyInvariant, Policy!TypeOK
<1>2. Advanced(client) /\ client.published \in Nat
    BY <1>1 DEF Advanced, Policy!Client
<1>3. \A m \in wire : m \in Policy!Request /\ m.number \in Nat /\ m.revision \in Nat
    BY <1>1 DEF Policy!Request
<1> QED BY <1>1, <1>2, <1>3

\* The server answers with the revision in force.
LEMMA ServeKeeps ==
    ASSUME PolicyInvariant, NEW m \in wire, Policy!Serve(m)
    PROVE  PolicyInvariant' /\ client'.published >= client.published /\ UNCHANGED health
<1>1. PICK n : n = [m EXCEPT !.answer = Policy!Revision] /\ wire' = (wire \ {m}) \cup {n}
    BY DEF Policy!Serve
<1>2. /\ n \in Policy!Request /\ n.kind = "sync" /\ n.number = m.number /\ n.answer = Policy!Revision
      /\ m.kind = "sync" /\ UNCHANGED <<now, policies, client, health>>
    BY <1>1, PolicyFields DEF Policy!Serve, Policy!Request
<1>3. Asked(wire', client')
    <2>1. \A q \in wire' : q \in wire \/ q = n
        BY <1>1
    <2>2. Asked(wire, client') /\ m.number <= client'.requestNo
        BY <1>2 DEF PolicyInvariant, Asked
    <2> QED BY <1>2, <2>1, <2>2, PolicyFields DEF Asked
<1>4. Reports(wire') \subseteq Reports(wire)
    BY <1>1, <1>2 DEF Reports
<1>5. wire' \subseteq Policy!Request
    BY <1>1, <1>2, PolicyFields
<1> QED BY <1>2, <1>3, <1>4, <1>5, PolicyFields, PolicyRests

\* A report replaces only one that was made before it.
LEMMA ObserveKeeps ==
    ASSUME PolicyInvariant, NEW m \in wire, Policy!Observe(m)
    PROVE  /\ PolicyInvariant' /\ UNCHANGED client
           /\ health # None => health'.revision >= health.revision
<1>1. PICK n : /\ n = [m EXCEPT !.answer = 0]
               /\ wire' = (wire \ {m}) \cup {n} \/ wire' = wire \ {m}
    BY DEF Policy!Observe
<1>2. /\ n \in Policy!Request /\ n.kind = "health" /\ n.number = m.number /\ n.revision = m.revision
      /\ m \in Reports(wire) /\ UNCHANGED <<now, policies, client>>
    BY <1>1, PolicyFields DEF Policy!Observe, Policy!Request, Reports
<1>3. Asked(wire', client') /\ wire' \subseteq Policy!Request
    <2>1. \A q \in wire' : q \in wire \/ q = n
        BY <1>1
    <2>2. wire' \subseteq Policy!Request
        BY <1>2, <2>1, PolicyFields
    <2>3. Asked(wire, client')
        BY <1>2 DEF PolicyInvariant
    <2> QED BY <1>2, <2>1, <2>2, <2>3 DEF Asked
<1>4. \A q \in Reports(wire') : \E k \in Reports(wire) : q.number = k.number /\ q.revision = k.revision
    BY <1>1, <1>2 DEF Reports
<1>5. CASE health' = health
    <2>1. PolicyInvariant'
        BY <1>2, <1>3, <1>4, <1>5, PolicyFields, PolicyRests
    <2>2. health # None => health.revision \in Nat
        BY PolicyFields DEF Policy!Health
    <2> QED BY <1>2, <1>5, <2>1, <2>2
<1>6. CASE Policy!Newer(m) /\ health' = [sequence |-> m.number, revision |-> m.revision, at |-> now]
    <2>1. /\ health' \in Policy!Health /\ health'.sequence = m.number /\ health'.revision = m.revision
          /\ m.number \in Nat /\ m.revision \in Nat
        BY <1>6, PolicyFields DEF Policy!Health
    <2>2. health # None => health.sequence < m.number /\ health.revision \in Nat
        BY <1>6, PolicyFields DEF Policy!Newer, Policy!Health
    <2>3. health # None => health'.revision >= health.revision
        BY <1>2, <2>1, <2>2 DEF PolicyInvariant, Reported
    <2>4. Policy!TypeOK'
        <3>1. Policy!Revision' = Policy!Revision
            BY <1>2 DEF Policy!Revision
        <3>2. \A q \in wire' : q.kind = "sync" /\ q.answer # None => q.answer <= Policy!Revision
            BY <1>2, <1>3 DEF Asked
        <3> QED BY <1>2, <1>3, <2>1, <3>1, <3>2 DEF PolicyInvariant, Policy!TypeOK
    <2>5. \A q \in Reports(wire') : q.number <= client.sequence /\ q.revision <= client.published
        BY <1>4 DEF PolicyInvariant, Reported
    <2>6. \A q, k \in Reports(wire') : q.number <= k.number => q.revision <= k.revision
        BY <1>4 DEF PolicyInvariant, Reported
    <2>7. m.number <= client.sequence /\ m.revision <= client.published
        BY <1>2 DEF PolicyInvariant, Reported
    <2>8. ASSUME NEW q \in Reports(wire'), m.number < q.number PROVE m.revision <= q.revision
        <3>1. PICK k \in Reports(wire) : q.number = k.number /\ q.revision = k.revision
            BY <1>4
        <3>2. k.number \in Nat
            BY <3>1, PolicyFields DEF Reports
        <3> QED BY <1>2, <2>1, <2>8, <3>1, <3>2 DEF PolicyInvariant, Reported
    <2>9. Reported'
        BY <1>2, <2>1, <2>5, <2>6, <2>7, <2>8 DEF Reported
    <2>10. Asked(wire, client)'
        BY <1>2, <1>3 DEF Asked, Policy!Revision
    <2> QED BY <1>2, <2>3, <2>4, <2>9, <2>10 DEF PolicyInvariant
<1> QED BY <1>5, <1>6 DEF Policy!Observe

\* The answer to a report is awaited, or comes when nobody waits for it.
LEMMA HealthAnsweredKeeps ==
    ASSUME PolicyInvariant, NEW m \in wire, Policy!HealthAnswered(m)
    PROVE  PolicyInvariant' /\ client'.published >= client.published /\ UNCHANGED health
<1>1. PICK n : /\ n = [m EXCEPT !.waited = FALSE]
               /\ wire' = (wire \ {m}) \cup {n} \/ wire' = wire \ {m}
    BY DEF Policy!HealthAnswered
<1>2. /\ n \in Policy!Request /\ n.kind = "health" /\ n.number = m.number /\ n.revision = m.revision
      /\ m \in Reports(wire) /\ UNCHANGED <<now, policies, health>>
    BY <1>1, PolicyFields DEF Policy!HealthAnswered, Policy!Request, Reports
<1>3. PICK backoff : /\ backoff \in 1 .. Syncing.backoff
                     /\ client' = client \/ client' = [client EXCEPT !.backoff = backoff]
    <2>1. client.backoff \in 1 .. Syncing.backoff /\ Syncing.backoff \in Nat \ {0}
        BY BrowserAssumption, PolicyFields DEF Policy!Client
    <2>2. 1 \in 1 .. Syncing.backoff /\ Policy!Doubled(client.backoff) \in 1 .. Syncing.backoff
        BY <2>1 DEF Policy!Doubled
    <2>3. \/ client' = client
          \/ client' = [client EXCEPT !.backoff = 1]
          \/ client' = [client EXCEPT !.backoff = Policy!Doubled(client.backoff)]
        BY DEF Policy!HealthAnswered
    <2> QED BY <2>2, <2>3
<1>4. /\ Advanced(client') /\ client'.requestNo = client.requestNo
    BY <1>3, PolicyFields DEF Advanced, Policy!Client
<1>5. Asked(wire', client') /\ wire' \subseteq Policy!Request
    BY <1>1, <1>2, <1>4, PolicyFields DEF PolicyInvariant, Asked
<1>6. \A q \in Reports(wire') : \E k \in Reports(wire) : q.number = k.number /\ q.revision = k.revision
    BY <1>1, <1>2 DEF Reports
<1> QED BY <1>2, <1>4, <1>5, <1>6, PolicyFields, PolicyRests

\* A synchronization is asked for; start() and destroy() keep the policy there is.
LEMMA SyncKeeps ==
    ASSUME PolicyInvariant, UNCHANGED <<now, policies, health>>,
           NEW c, Advanced(c), c.requestNo >= client.requestNo, client' = c,
           NEW m \in Policy!Request, m.kind = "sync", m.number <= c.requestNo, m.answer = None,
           wire' = wire \/ wire' = wire \cup {m}
    PROVE  PolicyInvariant' /\ client'.published >= client.published
<1>1. \A q \in wire' : q \in wire \/ q = m
    OBVIOUS
<1>2. wire' \subseteq Policy!Request /\ Reports(wire') \subseteq Reports(wire)
    BY <1>1, PolicyFields DEF Reports
<1>3. c \in Policy!Client /\ c.requestNo \in Nat /\ client.requestNo \in Nat
    BY PolicyFields DEF Advanced, Policy!Client
<1>4. \A q \in wire : q.kind = "sync" =>
          q.number \in Nat /\ q.number <= client.requestNo /\ (q.answer # None => q.answer <= Policy!Revision)
    BY PolicyFields DEF PolicyInvariant, Asked
<1>5. Asked(wire', client')
    BY <1>1, <1>3, <1>4 DEF Asked
<1> QED BY <1>2, <1>5, PolicyFields, PolicyRests

\* What the owner of the adapter calls, and its interval, keep the policy there is.
LEMMA OwnerKeeps ==
    ASSUME PolicyInvariant, Policy!Sync \/ Policy!Destroy \/ Policy!Start \/ Policy!ReportHealth
    PROVE  PolicyInvariant' /\ client'.published >= client.published /\ UNCHANGED health
<1>1. /\ client \in Policy!Client /\ Advanced(client) /\ UNCHANGED <<now, policies, health>>
      /\ client.requestNo \in Nat /\ client.appliedNo <= client.requestNo /\ client.appliedNo \in Nat
      /\ Syncing.requests \in Nat
    BY BrowserAssumption, PolicyFields
       DEF Policy!Client, Advanced, Policy!Sync, Policy!Destroy, Policy!Start, Policy!ReportHealth
<1>2. CASE Policy!Sync
    <2>1. PICK c, m :
            /\ c = [client EXCEPT !.requestNo = @ + 1] /\ client' = c
            /\ m = Policy!Message("sync", c.requestNo, c) /\ wire' = wire \cup {m}
            /\ client.requestNo < Syncing.requests
        BY <1>2, Zenon DEF Policy!Sync
    <2>2. /\ Advanced(c) /\ c.requestNo = client.requestNo + 1 /\ c.generation \in Nat /\ c.published \in Nat
        BY <1>1, <2>1 DEF Advanced, Policy!Client
    <2>3. m \in Policy!Request /\ m.kind = "sync" /\ m.number = c.requestNo /\ m.answer = None
        BY <1>1, <2>1, <2>2 DEF Policy!Message, Policy!Request
    <2>4. c.requestNo >= client.requestNo /\ m.number <= c.requestNo
        BY <1>1, <2>2, <2>3
    <2> QED BY <1>1, <2>1, <2>2, <2>3, <2>4, SyncKeeps
<1>3. CASE Policy!ReportHealth
    <2>1. Policy!Report(client, wire) /\ Asked(wire, client) /\ wire \in SUBSET wire
        BY <1>3 DEF Policy!ReportHealth, PolicyInvariant
    <2> QED BY <1>1, <2>1, ReportKeeps
<1>4. PICK d : d = Policy!Destroyed(client)
    OBVIOUS
<1>5. /\ Advanced(d) /\ d \in Policy!Client /\ d.requestNo = client.requestNo /\ d.published = client.published
      /\ d.appliedNo = client.appliedNo /\ d.sequence = client.sequence
    <2>1. client.generation + 1 \in Nat
        BY <1>1 DEF Policy!Client
    <2>2. /\ d \in Policy!Client /\ d.requestNo = client.requestNo /\ d.published = client.published
          /\ d.appliedNo = client.appliedNo /\ d.sequence = client.sequence
        BY <1>1, <1>4, <2>1 DEF Policy!Destroyed, Policy!Client
    <2> QED BY <1>1, <2>2 DEF Advanced
<1>6. CASE Policy!Destroy
    <2>1. PICK m : m = Policy!Message("sync", 0, d)
        OBVIOUS
    <2>2. m \in Policy!Request /\ m.kind = "sync" /\ m.number = 0 /\ m.answer = None
        BY <1>5, <2>1 DEF Policy!Message, Policy!Request, Policy!Client
    <2>3. client' = d /\ wire' = wire
        BY <1>4, <1>6 DEF Policy!Destroy
    <2> QED BY <1>1, <1>5, <2>2, <2>3, SyncKeeps
<1>7. CASE Policy!Start
    <2>1. PICK c, started, m, sync :
            /\ sync \in {"last_valid", "pending"}
            /\ c = [d EXCEPT !.alive = TRUE, !.requestNo = @ + 1, !.sync = sync]
            /\ started = [c EXCEPT !.adapter = Policy!Adapter(c)]
            /\ client' = started /\ m = Policy!Message("sync", c.requestNo, started) /\ wire' = wire \cup {m}
            /\ client.requestNo < Syncing.requests
        <3>1. (IF d.succeeded THEN "last_valid" ELSE "pending") \in {"last_valid", "pending"}
            OBVIOUS
        <3> QED BY <1>4, <1>7, <3>1, Zenon DEF Policy!Start
    <2>2. /\ c \in Policy!Client /\ c.requestNo = client.requestNo + 1 /\ c.published = client.published
          /\ c.appliedNo = client.appliedNo /\ c.sequence = client.sequence
        <3>1. d.requestNo + 1 \in Nat
            BY <1>1, <1>5
        <3> QED BY <1>1, <1>5, <2>1, <3>1 DEF Policy!Client
    <2>3. Policy!Adapter(c) \in Nat \cup {None}
        BY <2>2 DEF Policy!Adapter, Policy!Client
    <2>4. /\ started \in Policy!Client /\ started.requestNo = c.requestNo /\ started.published = c.published
          /\ started.appliedNo = c.appliedNo /\ started.sequence = c.sequence
        BY <2>1, <2>2, <2>3 DEF Policy!Client
    <2>5. Advanced(started)
        BY <1>1, <2>1, <2>2, <2>4 DEF Advanced
    <2>6. m \in Policy!Request /\ m.kind = "sync" /\ m.number = started.requestNo /\ m.answer = None
        BY <1>1, <2>1, <2>4 DEF Policy!Message, Policy!Request, Policy!Client
    <2>7. started.requestNo >= client.requestNo /\ m.number <= started.requestNo
        BY <1>1, <2>2, <2>4, <2>6
    <2> QED BY <1>1, <2>1, <2>5, <2>6, <2>7, SyncKeeps
<1> QED BY <1>2, <1>3, <1>6, <1>7

\* The instances speak of the same cardinality.
LEMMA CardinalityHere == \A S : Policy!Cardinality(S) = Cardinality(S)
BY DEF Policy!Cardinality, Cardinality

\* A published revision is one more.
LEMMA PublishKeeps ==
    ASSUME PolicyInvariant, Policy!Publish
    PROVE  PolicyInvariant' /\ UNCHANGED <<client, health>>
<1> DEFINE next == Policy!Revision + 1
<1>1. PICK content \in Policy!Contents :
        policies' = [r \in 0 .. next |-> IF r > Policy!Revision THEN content ELSE policies[r]]
    BY DEF Policy!Publish
<1>2. /\ UNCHANGED <<now, client, wire, health>> /\ next \in 0 .. Syncing.revisions /\ next \in Nat
      /\ DOMAIN policies' = 0 .. next /\ policies' \in [0 .. next -> Policy!Contents]
    BY <1>1, BrowserAssumption, PolicyFields, SMTT(30) DEF Policy!Publish
<1>3. Cardinality(0 .. next) = next + 1
    BY <1>2, FS_Interval
<1>4. Policy!Revision' = next
    <2>1. Policy!Revision' = Cardinality(DOMAIN policies') - 1
        BY CardinalityHere DEF Policy!Revision
    <2> QED BY <1>2, <1>3, <2>1
<1> HIDE DEF next
<1>5. Policy!TypeOK' /\ Asked(wire, client)'
    <2>1. Policy!Revision \in Nat /\ next = Policy!Revision + 1 /\ client.published \in Nat
        BY PolicyFields DEF next
    <2>2. \A m \in wire : m.kind = "sync" =>
              m.number <= client.requestNo /\ (m.answer # None => m.answer \in Nat /\ m.answer <= next)
        BY <2>1, PolicyFields DEF PolicyInvariant, Asked, Policy!Request
    <2>3. client.published <= next
        BY <2>1, PolicyFields DEF Advanced
    <2> QED BY <1>2, <1>4, <2>2, <2>3 DEF PolicyInvariant, Policy!TypeOK, Asked
<1>6. Reported'
    BY <1>2 DEF PolicyInvariant, Reported
<1> QED BY <1>2, <1>5, <1>6 DEF PolicyInvariant

\* The adapter has not asked for anything, and the default policy is in force.
LEMMA PolicyBegins == Policy!Init => PolicyInvariant
<1> SUFFICES ASSUME Policy!Init PROVE PolicyInvariant
    OBVIOUS
<1>1. DOMAIN policies = 0 .. 0 /\ policies \in [0 .. 0 -> Policy!Contents]
    BY DEF Policy!Init, Policy!Contents
<1>2. Policy!Revision = 0
    <2>1. Policy!Revision = Cardinality(DOMAIN policies) - 1
        BY CardinalityHere DEF Policy!Revision
    <2>2. Cardinality(0 .. 0) = 1
        <3>1. 0 .. 0 = {0}
            OBVIOUS
        <3>2. Cardinality({0}) = 1
            BY FS_Singleton
        <3> QED BY <3>1, <3>2
    <2> QED BY <1>1, <2>1, <2>2
<1>3. client \in Policy!Client
    BY BrowserAssumption DEF Policy!Init, Policy!Client
<1>4. Policy!TypeOK
    BY <1>1, <1>2, <1>3, BrowserAssumption DEF Policy!Init, Policy!TypeOK
<1>5. Reported /\ Asked(wire, client)
    BY DEF Policy!Init, Reported, Asked, Reports
<1> QED BY <1>4, <1>5 DEF PolicyInvariant

\* Every step keeps the order of policies and reports, and takes neither back.
LEMMA PolicyKept ==
    ASSUME PolicyInvariant, Policy!Next
    PROVE  PolicyInvariant' /\ Policy!KeepsNewerPolicy /\ Policy!ShowsNewerPolicy
<1>1. client.published >= client.published /\ (health # None => health.revision >= health.revision)
    BY PolicyFields DEF Policy!Health
<1>2. ASSUME NEW m \in wire, Policy!Serve(m) \/ Policy!Answer(m) \/ Policy!Fail(m) \/ Policy!HealthAnswered(m)
      PROVE  PolicyInvariant' /\ client'.published >= client.published /\ UNCHANGED health
    BY <1>2, ServeKeeps, AnswerKeeps, HealthAnsweredKeeps
<1>3. ASSUME NEW m \in wire, Policy!Observe(m)
      PROVE  PolicyInvariant' /\ UNCHANGED client /\ (health # None => health'.revision >= health.revision)
    BY <1>3, ObserveKeeps
<1>4. CASE Policy!Publish
    BY <1>1, <1>4, PublishKeeps DEF Policy!KeepsNewerPolicy, Policy!ShowsNewerPolicy
<1>5. CASE Policy!Sync \/ Policy!Destroy \/ Policy!Start \/ Policy!ReportHealth
    BY <1>1, <1>5, OwnerKeeps DEF Policy!KeepsNewerPolicy, Policy!ShowsNewerPolicy
<1>6. CASE Policy!Tick
    <2>1. UNCHANGED <<policies, client, wire, health>> /\ now' \in 0 .. Syncing.time
        BY <1>6, BrowserAssumption, PolicyFields, SMTT(30) DEF Policy!Tick
    <2>2. PolicyInvariant'
        BY <2>1 DEF PolicyInvariant, Policy!TypeOK, Policy!Revision, Reported, Asked
    <2> QED BY <1>1, <2>1, <2>2 DEF Policy!KeepsNewerPolicy, Policy!ShowsNewerPolicy
<1> QED BY <1>1, <1>2, <1>3, <1>4, <1>5, <1>6 DEF Policy!Next, Policy!KeepsNewerPolicy, Policy!ShowsNewerPolicy

-----------------------------------------------------------------------------
\* Sessions, page views and forms.

\* What an event names is the user, and for a result the session, it began with.
InItsContext(e) ==
    /\ e.event = "form_summary" => e.user = e.payload.opened.user
    /\ e.event = "feature_ended" => e.session = e.payload.started.session /\ e.user = e.payload.started.user

\* An open form belongs to the user there is.
FormFits(t) ==
    /\ t \in Forms!Tab(t.sent)
    /\ t.form # None => t.form.user = t.user
    /\ \A e \in t.sent : InItsContext(e)

FormInvariant == now \in Nat /\ FormFits(tab)

\* What an emission keeps of the tab; it may settle the form.
Kept(t, s) ==
    /\ s.user = t.user /\ s.page = t.page /\ s.route = t.route /\ s.operation = t.operation
    /\ s.form = t.form \/ s.form = None

\* The event emit() makes.
Made(t, name, payload) ==
    [event |-> name, at |-> now, session |-> t.session, page |-> t.page,
     route |-> t.route, user |-> t.user, payload |-> payload]

\* A queued event changes nothing but the queue.
LEMMA PutFits ==
    ASSUME now \in Nat, NEW t, FormFits(t), NEW name, NEW payload, InItsContext(Made(t, name, payload))
    PROVE  LET s == Forms!Put(t, name, payload)
           IN  FormFits(s) /\ Kept(t, s) /\ s.session = t.session /\ s.form = t.form /\ s.activity = t.activity
<1>1. PICK e : e = Made(t, name, payload) /\ InItsContext(e)
    OBVIOUS
<1>2. PICK s : s = [t EXCEPT !.sent = @ \cup {e}]
    OBVIOUS
<1>3. Forms!Put(t, name, payload) = t \/ Forms!Put(t, name, payload) = s
    BY <1>1, <1>2 DEF Forms!Put, Made
<1>4. /\ s \in Forms!Tab(s.sent) /\ s.sent = t.sent \cup {e} /\ Kept(t, s)
      /\ s.session = t.session /\ s.activity = t.activity /\ s.form = t.form
    BY <1>2 DEF FormFits, Forms!Tab, Kept
<1>5. FormFits(s)
    BY <1>1, <1>4 DEF FormFits, Kept
<1> QED BY <1>3, <1>4, <1>5 DEF Kept

\* A form is settled for the user who opened it.
LEMMA FormSettled ==
    ASSUME NEW t, NEW r, t.form # None => t.form.user = t.user, t.form # None, r.user = t.user
    PROVE  InItsContext(Made(r, "form_summary", [opened |-> t.form]))
BY DEF Made, InItsContext

\* The open form of a tab may be taken out.
LEMMA FormTaken ==
    ASSUME NEW t, FormFits(t)
    PROVE  LET s == [t EXCEPT !.form = None]
           IN  /\ FormFits(s) /\ Kept(t, s) /\ s.session = t.session /\ s.form = None
               /\ s.activity = t.activity
<1>1. PICK s : s = [t EXCEPT !.form = None]
    OBVIOUS
<1>2. /\ s \in Forms!Tab(s.sent) /\ s.sent = t.sent /\ Kept(t, s) /\ s.session = t.session
      /\ s.form = None /\ s.activity = t.activity
    BY <1>1 DEF FormFits, Forms!Tab, Kept
<1> QED BY <1>1, <1>2 DEF FormFits

\* A session that is not idle goes on.
LEMMA RefreshFits ==
    ASSUME now \in Nat, NEW t, FormFits(t)
    PROVE  LET s == Forms!RefreshSession(t)
           IN  /\ FormFits(s) /\ Kept(t, s) /\ s.activity = now
               /\ now - t.activity < Forming.timeout => s.session = t.session
<1>1. PICK awake : awake = [t EXCEPT !.activity = now]
    OBVIOUS
<1>2. /\ awake \in Forms!Tab(awake.sent) /\ awake.sent = t.sent /\ Kept(t, awake)
      /\ awake.session = t.session /\ awake.form = t.form /\ awake.activity = now
    BY <1>1 DEF FormFits, Forms!Tab, Kept
<1>3. FormFits(awake)
    BY <1>2 DEF FormFits, Kept
<1>4. CASE now - t.activity < Forming.timeout
    BY <1>1, <1>2, <1>3, <1>4 DEF Forms!RefreshSession
<1>5. CASE ~(now - t.activity < Forming.timeout)
    <2>1. PICK settled : /\ settled = Forms!SettleOpenForm(awake)
                         /\ FormFits(settled) /\ Kept(awake, settled) /\ settled.activity = now
        <3>1. CASE awake.form = None
            BY <1>2, <1>3, <3>1 DEF Forms!SettleOpenForm, Kept
        <3>2. CASE awake.form # None
            <4>1. PICK taken : /\ taken = [awake EXCEPT !.form = None] /\ FormFits(taken) /\ Kept(awake, taken)
                               /\ taken.activity = now
                BY <1>2, <1>3, FormTaken
            <4>2. PICK summary : summary = [opened |-> awake.form]
                OBVIOUS
            <4>3. InItsContext(Made(taken, "form_summary", summary))
                BY <1>3, <3>2, <4>1, <4>2, FormSettled DEF FormFits, Kept
            <4>4. PICK q : q = Forms!Put(taken, "form_summary", summary)
                OBVIOUS
            <4>5. FormFits(q) /\ Kept(taken, q) /\ q.activity = taken.activity
                <5>1. FormFits(taken) /\ InItsContext(Made(taken, "form_summary", summary))
                    BY <4>1, <4>3
                <5>2. FormFits(q) /\ Kept(taken, q)
                    BY <5>1, <4>4, PutFits
                <5>3. q.activity = taken.activity
                    BY <5>1, <4>4, PutFits
                <5> QED BY <5>2, <5>3
            <4>6. Kept(awake, q) /\ q.activity = now
                BY <4>1, <4>5 DEF Kept
            <4>7. Forms!SettleOpenForm(awake) = q
                BY <3>2, <4>1, <4>2, <4>4 DEF Forms!SettleOpenForm
            <4> QED BY <4>5, <4>6, <4>7
        <3> QED BY <3>1, <3>2
    <2>2. PICK s : s = [settled EXCEPT !.session = @ + 1] /\ s = Forms!RefreshSession(t)
        BY <1>1, <1>5, <2>1 DEF Forms!RefreshSession
    <2>3. settled.session + 1 \in Nat
        BY <2>1 DEF FormFits, Forms!Tab
    <2>4. /\ s \in Forms!Tab(s.sent) /\ s.sent = settled.sent /\ Kept(settled, s) /\ s.form = settled.form
          /\ s.activity = now
        BY <2>1, <2>2, <2>3 DEF FormFits, Forms!Tab, Kept
    <2>5. FormFits(s) /\ Kept(t, s)
        BY <1>2, <2>1, <2>4 DEF FormFits, Kept
    <2> QED BY <1>5, <2>2, <2>4, <2>5
<1> QED BY <1>4, <1>5

\* A custom event, or none, keeps the context, whatever the hook does with it.
LEMMA EmitFits ==
    ASSUME now \in Nat, NEW t, FormFits(t), NEW name, NEW payload,
           \A r : Kept(t, r) /\ (now - t.activity < Forming.timeout => r.session = t.session)
                 => InItsContext(Made(r, name, payload))
    PROVE  FormFits(Forms!Emit(t, name, payload)) /\ Kept(t, Forms!Emit(t, name, payload))
<1>1. PICK r : /\ r = Forms!RefreshSession(t) /\ FormFits(r) /\ Kept(t, r)
               /\ now - t.activity < Forming.timeout => r.session = t.session
    BY RefreshFits
<1>2. InItsContext(Made(r, name, payload))
    BY <1>1
<1>3. PICK q : q = Forms!Put(r, name, payload) /\ FormFits(q) /\ Kept(r, q)
    BY <1>1, <1>2, PutFits
<1>4. Kept(t, q) /\ Kept(t, t)
    BY <1>1, <1>3 DEF Kept
<1>5. Forms!Emit(t, name, payload) = t \/ Forms!Emit(t, name, payload) = q
    BY <1>1, <1>3 DEF Forms!Emit
<1> QED BY <1>3, <1>4, <1>5

LEMMA TouchFits ==
    ASSUME now \in Nat, NEW t, FormFits(t)
    PROVE  FormFits(Forms!Touch(t)) /\ Kept(t, Forms!Touch(t))
<1>1. FormFits(Forms!RefreshSession(t)) /\ Kept(t, Forms!RefreshSession(t)) /\ Kept(t, t)
    BY RefreshFits DEF Kept
<1> QED BY <1>1 DEF Forms!Touch

\* The page view that begins.
LEMMA PageViewFits ==
    ASSUME now \in Nat, NEW t, FormFits(t)
    PROVE  FormFits(Forms!EmitPageView(t)) /\ Kept(t, Forms!EmitPageView(t))
<1>1. PICK r : r = Forms!RefreshSession(t) /\ FormFits(r) /\ Kept(t, r)
    BY RefreshFits
<1>2. PICK q : q = [r EXCEPT !.sequence = 0, !.closed = FALSE]
    OBVIOUS
<1>3. q \in Forms!Tab(q.sent) /\ q.sent = r.sent /\ Kept(r, q) /\ q.form = r.form
    BY <1>1, <1>2 DEF FormFits, Forms!Tab, Kept
<1>4. FormFits(q)
    BY <1>1, <1>3 DEF FormFits, Kept
<1>5. InItsContext(Made(q, "page_view", None))
    BY DEF Made, InItsContext
<1>6. PICK s : s = Forms!Put(q, "page_view", None) /\ FormFits(s) /\ Kept(q, s)
    BY <1>4, <1>5, PutFits
<1>7. Kept(t, s)
    BY <1>1, <1>3, <1>6 DEF Kept
<1>8. Forms!EmitPageView(t) = s
    BY <1>1, <1>2, <1>6 DEF Forms!EmitPageView
<1> QED BY <1>6, <1>7, <1>8

\* The forms are settled, for the user there is.
LEMMA FormsSettled ==
    ASSUME now \in Nat, NEW t, FormFits(t)
    PROVE  LET s == Forms!SettleForms(t) IN FormFits(s) /\ Kept(t, s) /\ s.form = None
<1>1. CASE t.form = None
    BY <1>1 DEF Forms!SettleForms, Kept
<1>2. CASE t.form # None
    <2>1. PICK taken : taken = [t EXCEPT !.form = None] /\ FormFits(taken) /\ Kept(t, taken) /\ taken.form = None
        BY FormTaken
    <2>2. \A r : Kept(taken, r) => InItsContext(Made(r, "form_summary", [opened |-> t.form]))
        BY <1>2, <2>1, FormSettled DEF Kept, FormFits
    <2>3. PICK s : /\ s = Forms!Emit(taken, "form_summary", [opened |-> t.form])
                   /\ FormFits(s) /\ Kept(taken, s)
        BY <2>1, <2>2, EmitFits
    <2>4. Kept(t, s) /\ s.form = None
        BY <2>1, <2>3 DEF Kept
    <2>5. Forms!SettleForms(t) = s
        BY <1>2, <2>1, <2>3 DEF Forms!SettleForms
    <2> QED BY <2>3, <2>4, <2>5
<1> QED BY <1>1, <1>2

LEMMA ViewsStopped ==
    ASSUME now \in Nat, NEW t, FormFits(t)
    PROVE  FormFits(Forms!StopLongViews(t)) /\ Kept(t, Forms!StopLongViews(t))
<1>1. PICK q : q = [t EXCEPT !.view = FALSE]
    OBVIOUS
<1>2. q \in Forms!Tab(q.sent) /\ q.sent = t.sent /\ Kept(t, q) /\ q.form = t.form
    BY <1>1 DEF FormFits, Forms!Tab, Kept
<1>3. FormFits(q)
    BY <1>2 DEF FormFits, Kept
<1>4. PICK s : s = Forms!Touch(q) /\ FormFits(s) /\ Kept(q, s)
    BY <1>3, TouchFits
<1>5. Kept(t, s) /\ Kept(t, t)
    BY <1>2, <1>4 DEF Kept
<1> QED BY <1>1, <1>4, <1>5 DEF Forms!StopLongViews

LEMMA VisibleSettled ==
    ASSUME now \in Nat, NEW t, FormFits(t), NEW closing \in BOOLEAN
    PROVE  FormFits(Forms!SettleVisiblePage(t, closing)) /\ Kept(t, Forms!SettleVisiblePage(t, closing))
<1>1. PICK q : q = [t EXCEPT !.closed = closing, !.since = None, !.sequence = @ + 1]
    OBVIOUS
<1>2. t.sequence + 1 \in Nat
    BY DEF FormFits, Forms!Tab
<1>3. q \in Forms!Tab(q.sent) /\ q.sent = t.sent /\ Kept(t, q) /\ q.form = t.form
    BY <1>1, <1>2 DEF FormFits, Forms!Tab, Kept
<1>4. FormFits(q)
    BY <1>3 DEF FormFits, Kept
<1>5. ASSUME NEW payload PROVE InItsContext(Made(q, "page_leave", payload))
    BY DEF Made, InItsContext
<1>6. PICK payload : Forms!SettleVisiblePage(t, closing) = t
                     \/ Forms!SettleVisiblePage(t, closing) = Forms!Put(q, "page_leave", payload)
    BY <1>1 DEF Forms!SettleVisiblePage
<1>7. FormFits(Forms!Put(q, "page_leave", payload)) /\ Kept(q, Forms!Put(q, "page_leave", payload))
    BY <1>4, <1>5, PutFits
<1>8. Kept(t, Forms!Put(q, "page_leave", payload)) /\ Kept(t, t)
    BY <1>3, <1>7 DEF Kept
<1> QED BY <1>6, <1>7, <1>8

\* The end of a page view, where a throw leaves it or not.
LEMMA PageEnded ==
    ASSUME now \in Nat, NEW t, FormFits(t)
    PROVE  FormFits(Forms!EndPage(t)) /\ Kept(t, Forms!EndPage(t))
<1>1. PICK a : a = Forms!SettleForms(t) /\ FormFits(a) /\ Kept(t, a)
    BY FormsSettled
<1>2. PICK b : b = Forms!StopLongViews(a) /\ FormFits(b) /\ Kept(a, b)
    BY <1>1, ViewsStopped
<1>3. PICK c : c = Forms!SettleVisiblePage(b, TRUE) /\ FormFits(c) /\ Kept(b, c)
    BY <1>2, VisibleSettled
<1>4. Kept(t, b) /\ Kept(t, c)
    BY <1>1, <1>2, <1>3 DEF Kept
<1>5. Forms!EndPage(t) = b \/ Forms!EndPage(t) = c
    BY <1>1, <1>2, <1>3 DEF Forms!EndPage
<1> QED BY <1>2, <1>3, <1>4, <1>5


\* A new document.
LEMMA ConstructedFits ==
    ASSUME now \in Nat, NEW old, NEW route \in Forming.routes, NEW stored \in BOOLEAN, old.session \in Nat,
           old.page \in 0 .. Forming.pages - 1, \A e \in old.sent : InItsContext(e)
    PROVE  FormFits(Forms!Constructed(old, route, stored))
<1>1. PICK keeps : /\ keeps \in BOOLEAN
                   /\ keeps = (stored /\ now - old.activity < Forming.timeout)
    OBVIOUS
<1>2. PICK session : session = (IF keeps THEN old.session ELSE old.session + 1) /\ session \in Nat
    BY <1>1
<1>3. PICK gone : gone \in BOOLEAN /\ gone = Forms!Throws
    BY DEF Forms!Throws
<1>4. PICK t : t = [session |-> session, activity |-> now, page |-> old.page + 1, route |-> route,
                    user |-> None, since |-> Forms!Since, sequence |-> 0, closed |-> FALSE, form |-> None,
                    view |-> FALSE, operation |-> None, destroyed |-> gone, sent |-> old.sent]
    OBVIOUS
<1>5. Forms!Constructed(old, route, stored) = Forms!EmitPageView(t)
    BY <1>1, <1>2, <1>3, <1>4 DEF Forms!Constructed
<1>6. old.page + 1 \in 1 .. Forming.pages
    BY BrowserAssumption
<1>7. t \in Forms!Tab(t.sent) /\ t.form = None /\ t.sent = old.sent
    BY <1>2, <1>3, <1>4, <1>6 DEF Forms!Tab, Forms!User, Forms!Since
<1>8. FormFits(t)
    BY <1>7 DEF FormFits
<1> QED BY <1>5, <1>8, PageViewFits

LEMMA FormsBegin ==
    ASSUME Forms!Init
    PROVE  FormInvariant
<1>1. now = 0 /\ now \in Nat
    BY DEF Forms!Init
<1>2. PICK r \in Forming.routes :
         tab = Forms!Constructed([session |-> 0, activity |-> 0, page |-> 0, sent |-> {}], r, FALSE)
    BY DEF Forms!Init
<1>3. PICK old : old = [session |-> 0, activity |-> 0, page |-> 0, sent |-> {}]
    OBVIOUS
<1>4. old.session \in Nat /\ old.page \in 0 .. Forming.pages - 1 /\ \A e \in old.sent : InItsContext(e)
    BY <1>3, BrowserAssumption
<1>5. FormFits(Forms!Constructed(old, r, FALSE))
    BY <1>1, <1>4, ConstructedFits
<1> QED BY <1>1, <1>2, <1>3, <1>5 DEF FormInvariant

\* A step to a tab that fits.
LEMMA StepFits ==
    ASSUME FormInvariant, NEW s, FormFits(s), tab' = s, now' = now
    PROVE  FormInvariant'
BY DEF FormInvariant, FormFits, InItsContext, Forms!Tab, Forms!User, Forms!Context

\* A tab whose queue stays fits if its form belongs to the user there is.
LEMMA ChangeFits ==
    ASSUME NEW t, FormFits(t), NEW s, s \in Forms!Tab(s.sent), s.sent = t.sent,
           s.form = None \/ (s.form = t.form /\ s.user = t.user)
    PROVE  FormFits(s)
BY DEF FormFits

LEMMA LoadKeeps ==
    ASSUME FormInvariant, Forms!Load
    PROVE  FormInvariant'
<1>1. PICK r \in Forming.routes, stored \in BOOLEAN : tab' = Forms!Constructed(tab, r, stored)
    BY DEF Forms!Load
<1>2. tab.session \in Nat /\ tab.page \in 0 .. Forming.pages - 1 /\ \A e \in tab.sent : InItsContext(e)
    BY BrowserAssumption DEF Forms!Load, FormInvariant, FormFits, Forms!Tab
<1>3. FormFits(Forms!Constructed(tab, r, stored))
    BY <1>2, ConstructedFits DEF FormInvariant
<1> QED BY <1>1, <1>3, StepFits DEF Forms!Load

LEMMA RouteKeeps ==
    ASSUME FormInvariant, Forms!HandlePageRouteChange
    PROVE  FormInvariant'
<1>1. now \in Nat /\ FormFits(tab) /\ tab.page + 1 \in 1 .. Forming.pages /\ now' = now
    BY BrowserAssumption DEF Forms!HandlePageRouteChange, FormInvariant, FormFits, Forms!Tab
<1>2. PICK ended : ended = Forms!EndPage(tab) /\ FormFits(ended) /\ Kept(tab, ended)
    BY <1>1, PageEnded
<1>3. PICK r \in Forming.routes :
        \/ tab' = ended
        \/ tab' = Forms!EmitPageView([ended EXCEPT !.route = r, !.page = @ + 1, !.since = Forms!Since])
    BY <1>2 DEF Forms!HandlePageRouteChange
<1>4. PICK q : q = [ended EXCEPT !.route = r, !.page = @ + 1, !.since = Forms!Since]
    OBVIOUS
<1>5. ended.page + 1 \in 1 .. Forming.pages
    BY <1>1, <1>2 DEF Kept
<1>6. /\ q \in Forms!Tab(q.sent) /\ q.sent = ended.sent /\ q.form = ended.form /\ q.user = ended.user
    <2>1. PICK n, p : n = Forms!Since /\ p = ended.page + 1 /\ n \in Nat \cup {None} /\ p \in 1 .. Forming.pages
        BY <1>1, <1>5 DEF Forms!Since
    <2>2. ended \in Forms!Tab(ended.sent)
        BY <1>2 DEF FormFits
    <2>3. q = [ended EXCEPT !.route = r, !.page = p, !.since = n]
        BY <1>4, <2>1
    <2> QED BY <2>1, <2>2, <2>3 DEF Forms!Tab
<1>7. FormFits(q)
    BY <1>2, <1>6, ChangeFits
<1>8. FormFits(Forms!EmitPageView(q))
    BY <1>1, <1>7, PageViewFits
<1> QED BY <1>1, <1>2, <1>3, <1>4, <1>8, StepFits

LEMMA VisibilityKeeps ==
    ASSUME FormInvariant, Forms!HandleVisibilityChange
    PROVE  FormInvariant'
<1>1. now \in Nat /\ FormFits(tab) /\ now' = now
    BY DEF Forms!HandleVisibilityChange, FormInvariant
<1>2. PICK q : q = [tab EXCEPT !.since = now]
    OBVIOUS
<1>3. /\ q \in Forms!Tab(q.sent) /\ q.sent = tab.sent /\ q.form = tab.form /\ q.user = tab.user
    BY <1>1, <1>2 DEF FormFits, Forms!Tab
<1>4. FormFits(q) /\ FormFits(Forms!SettleVisiblePage(tab, FALSE))
    BY <1>1, <1>3, ChangeFits, VisibleSettled
<1>5. tab' = tab \/ tab' = q \/ tab' = Forms!SettleVisiblePage(tab, FALSE)
    BY <1>2 DEF Forms!HandleVisibilityChange
<1> QED BY <1>1, <1>4, <1>5, StepFits

LEMMA HideKeeps ==
    ASSUME FormInvariant, Forms!HandlePageHide
    PROVE  FormInvariant'
<1>1. now \in Nat /\ FormFits(tab) /\ now' = now /\ tab' = Forms!EndPage(tab)
    BY DEF Forms!HandlePageHide, FormInvariant
<1> QED BY <1>1, PageEnded, StepFits

LEMMA ShowKeeps ==
    ASSUME FormInvariant, Forms!HandlePageShow
    PROVE  FormInvariant'
<1>1. now \in Nat /\ FormFits(tab) /\ tab.page + 1 \in 1 .. Forming.pages /\ now' = now
    BY BrowserAssumption DEF Forms!HandlePageShow, FormInvariant, FormFits, Forms!Tab
<1>2. PICK q : q = [tab EXCEPT !.page = @ + 1, !.since = Forms!Since]
    OBVIOUS
<1>3. /\ q \in Forms!Tab(q.sent) /\ q.sent = tab.sent /\ q.form = tab.form /\ q.user = tab.user
    BY <1>1, <1>2 DEF FormFits, Forms!Tab, Forms!Since
<1>4. FormFits(Forms!EmitPageView(q))
    BY <1>1, <1>3, ChangeFits, PageViewFits
<1>5. tab' = Forms!EmitPageView(q)
    BY <1>2 DEF Forms!HandlePageShow
<1> QED BY <1>1, <1>4, <1>5, StepFits

LEMMA DestroyKeeps ==
    ASSUME FormInvariant, Forms!Destroy
    PROVE  FormInvariant'
<1>1. now \in Nat /\ FormFits(tab) /\ now' = now
    BY DEF Forms!Destroy, FormInvariant
<1>2. PICK ended : ended = Forms!EndPage(tab) /\ FormFits(ended)
    BY <1>1, PageEnded
<1>3. PICK gone : gone \in BOOLEAN /\ gone = (~Forms!EndPageThrows(tab))
    BY DEF Forms!EndPageThrows
<1>4. PICK q : q = [ended EXCEPT !.destroyed = gone] /\ tab' = q
    BY <1>2, <1>3 DEF Forms!Destroy
<1>5. /\ q \in Forms!Tab(q.sent) /\ q.sent = ended.sent /\ q.form = ended.form /\ q.user = ended.user
    BY <1>2, <1>3, <1>4 DEF FormFits, Forms!Tab
<1> QED BY <1>1, <1>2, <1>4, <1>5, ChangeFits, StepFits

LEMMA TrackKeeps ==
    ASSUME FormInvariant, Forms!Track \/ Forms!DestroyForm \/ Forms!StopLongView
    PROVE  FormInvariant'
<1>1. now \in Nat /\ FormFits(tab) /\ now' = now
    BY DEF Forms!Track, Forms!DestroyForm, Forms!StopLongView, FormInvariant
<1>2. /\ FormFits(Forms!Touch(tab)) /\ FormFits(Forms!SettleForms(tab))
      /\ FormFits(Forms!StopLongViews(tab))
    BY <1>1, TouchFits, FormsSettled, ViewsStopped
<1> QED BY <1>1, <1>2, StepFits DEF Forms!Track, Forms!DestroyForm, Forms!StopLongView

\* The forms were settled before the user changes.
LEMMA SetUserKeeps ==
    ASSUME FormInvariant, Forms!SetUser
    PROVE  FormInvariant'
<1>1. now \in Nat /\ FormFits(tab) /\ now' = now
    BY DEF Forms!SetUser, FormInvariant
<1>2. PICK settled : settled = Forms!SettleForms(tab) /\ FormFits(settled) /\ settled.form = None
    BY <1>1, FormsSettled
<1>3. PICK u \in Forming.users \cup {None} :
        tab' = [settled EXCEPT !.user = u] \/ tab' = [settled EXCEPT !.user = settled.user]
    BY <1>2 DEF Forms!SetUser
<1>4. PICK v : v \in Forming.users \cup {None} /\ tab' = [settled EXCEPT !.user = v]
    BY <1>2, <1>3 DEF FormFits, Forms!Tab, Forms!User
<1>5. PICK q : q = [settled EXCEPT !.user = v] /\ tab' = q
    BY <1>4
<1>6. q \in Forms!Tab(q.sent) /\ q.sent = settled.sent /\ q.form = None
    BY <1>2, <1>4, <1>5 DEF FormFits, Forms!Tab, Forms!User
<1> QED BY <1>1, <1>2, <1>5, <1>6, ChangeFits, StepFits

LEMMA TrackFormKeeps ==
    ASSUME FormInvariant, Forms!TrackForm
    PROVE  FormInvariant'
<1>1. now \in Nat /\ FormFits(tab) /\ now' = now
    BY DEF Forms!TrackForm, FormInvariant
<1>2. tab.user \in Forms!User /\ [user |-> tab.user] \in [user : Forms!User]
    <2>1. tab.user \in Forms!User
        BY <1>1 DEF FormFits, Forms!Tab
    <2> QED BY <2>1
<1>3. PICK q : q = [tab EXCEPT !.form = [user |-> tab.user]] /\ tab' = q
    BY DEF Forms!TrackForm
<1>4. q \in Forms!Tab(q.sent) /\ q.sent = tab.sent /\ q.form.user = q.user
    BY <1>1, <1>2, <1>3 DEF FormFits, Forms!Tab
<1>5. FormFits(q)
    BY <1>1, <1>4 DEF FormFits
<1> QED BY <1>1, <1>3, <1>5, StepFits

LEMMA StartViewKeeps ==
    ASSUME FormInvariant, Forms!StartLongView
    PROVE  FormInvariant'
<1>1. now \in Nat /\ FormFits(tab) /\ now' = now
    BY DEF Forms!StartLongView, FormInvariant
<1>2. PICK touched : touched = Forms!Touch(tab) /\ FormFits(touched)
    BY <1>1, TouchFits
<1>3. PICK view : view \in BOOLEAN /\ view = (~Forms!Throws)
    BY DEF Forms!Throws
<1>4. PICK q : q = [touched EXCEPT !.view = view] /\ tab' = q
    BY <1>2, <1>3 DEF Forms!StartLongView
<1>5. /\ q \in Forms!Tab(q.sent) /\ q.sent = touched.sent /\ q.form = touched.form /\ q.user = touched.user
    BY <1>2, <1>3, <1>4 DEF FormFits, Forms!Tab
<1> QED BY <1>1, <1>2, <1>4, <1>5, ChangeFits, StepFits

LEMMA StartBusinessKeeps ==
    ASSUME FormInvariant, Forms!StartBusiness
    PROVE  FormInvariant'
<1>1. now \in Nat /\ FormFits(tab) /\ now' = now
    BY DEF Forms!StartBusiness, FormInvariant
<1>2. PICK touched : touched = Forms!Touch(tab) /\ FormFits(touched)
    BY <1>1, TouchFits
<1>3. PICK context : context = [session |-> tab.session, user |-> tab.user] /\ context \in Forms!Context
    <2>1. tab.session \in Nat /\ tab.user \in Forms!User
        BY <1>1 DEF FormFits, Forms!Tab
    <2>2. [session |-> tab.session, user |-> tab.user] \in Forms!Context
        BY <2>1 DEF Forms!Context
    <2> QED BY <2>2
<1>4. PICK q : q = [touched EXCEPT !.operation = context] /\ tab' = q
    BY <1>2, <1>3 DEF Forms!StartBusiness
<1>5. /\ q \in Forms!Tab(q.sent) /\ q.sent = touched.sent /\ q.form = touched.form /\ q.user = touched.user
    BY <1>2, <1>3, <1>4 DEF FormFits, Forms!Tab
<1> QED BY <1>1, <1>2, <1>4, <1>5, ChangeFits, StepFits

\* The result is emitted in the session and for the user it began with: a session that is not
\* idle is not replaced by the emission.
LEMMA EndBusinessKeeps ==
    ASSUME FormInvariant, Forms!EndBusiness
    PROVE  FormInvariant'
<1>1. now \in Nat /\ FormFits(tab) /\ now' = now /\ tab.operation # None
    BY DEF Forms!EndBusiness, FormInvariant
<1>2. PICK done : /\ done = [tab EXCEPT !.operation = None]
                  /\ tab' = IF Forms!SameContext(tab)
                            THEN Forms!Emit(done, "feature_ended", [started |-> tab.operation]) ELSE done
    BY DEF Forms!EndBusiness
<1>3. /\ done \in Forms!Tab(done.sent) /\ done.sent = tab.sent /\ done.form = tab.form
      /\ done.user = tab.user /\ done.session = tab.session /\ done.activity = tab.activity
    BY <1>1, <1>2 DEF FormFits, Forms!Tab
<1>4. FormFits(done)
    BY <1>1, <1>3, ChangeFits
<1>5. CASE ~Forms!SameContext(tab)
    BY <1>1, <1>2, <1>4, <1>5, StepFits
<1>6. CASE Forms!SameContext(tab)
    <2>1. PICK payload : payload = [started |-> tab.operation]
        OBVIOUS
    <2>2. /\ payload.started.session = done.session /\ payload.started.user = done.user
          /\ now - done.activity < Forming.timeout
        BY <1>3, <1>6, <2>1 DEF Forms!SameContext
    <2>3. ASSUME NEW r, Kept(done, r), now - done.activity < Forming.timeout => r.session = done.session
          PROVE  InItsContext(Made(r, "feature_ended", payload))
        BY <2>2, <2>3 DEF InItsContext, Made, Kept
    <2>4. FormFits(Forms!Emit(done, "feature_ended", payload))
        BY <1>1, <1>4, <2>3, EmitFits
    <2> QED BY <1>1, <1>2, <1>6, <2>1, <2>4, StepFits
<1> QED BY <1>5, <1>6

LEMMA FormsKept ==
    ASSUME FormInvariant, Forms!Next
    PROVE  FormInvariant'
<1>1. CASE Forms!Tick
    <2>1. now' \in Nat /\ tab' = tab
        BY <1>1 DEF Forms!Tick, FormInvariant
    <2> QED BY <2>1 DEF FormInvariant, FormFits, InItsContext, Forms!Tab, Forms!User, Forms!Context
<1>2. CASE Forms!HookChanges
    BY <1>2, StepFits DEF Forms!HookChanges, FormInvariant
<1> QED
    BY <1>1, <1>2, LoadKeeps, RouteKeeps, VisibilityKeeps, HideKeeps, ShowKeeps, DestroyKeeps, TrackKeeps,
       SetUserKeeps, TrackFormKeeps, StartViewKeeps, StartBusinessKeeps, EndBusinessKeeps DEF Forms!Next

-----------------------------------------------------------------------------
\* Usage: what the functions of the tracker do to a tab.

UsageOf(t) == {e \in t.sent : e.event \in {"page_view", "page_leave"}}
UsageKept(t, u) == \A e : e \in UsageOf(u) <=> e \in UsageOf(t)

\* A tab has all its fields.
Shaped(t) ==
    t = [session |-> t.session, activity |-> t.activity, page |-> t.page, route |-> t.route, user |-> t.user,
         since |-> t.since, sequence |-> t.sequence, closed |-> t.closed, form |-> t.form, view |-> t.view,
         operation |-> t.operation, destroyed |-> t.destroyed, sent |-> t.sent]

\* The page view goes on, and no event of it is sent.
Quiet(t, u) ==
    /\ Shaped(u) /\ UsageKept(t, u)
    /\ u.page = t.page /\ u.route = t.route /\ u.since = t.since /\ u.sequence = t.sequence
    /\ u.closed = t.closed /\ u.destroyed = t.destroyed

\* An event is sent unless the hook or the tab is against it.
Passes(t) == ~t.destroyed /\ hook = "accepts"

LEMMA QuietAgain ==
    ASSUME NEW t, NEW u, NEW v, Quiet(t, u), Quiet(u, v)
    PROVE  Quiet(t, v)
    BY DEF Quiet, UsageKept
LEMMA QuietSame == ASSUME NEW t, Shaped(t) PROVE Quiet(t, t)
    BY DEF Quiet, UsageKept

\* The two instances put events alike.
LEMMA PutAlike ==
    /\ \A t, name, payload : Hooked!Put(t, name, payload) = Forms!Put(t, name, payload)
    /\ \A t : Hooked!SettleOpenForm(t) = Forms!SettleOpenForm(t)
    /\ \A t, closing : Hooked!SettleVisiblePage(t, closing) = Forms!SettleVisiblePage(t, closing)
    /\ \A t, closing : Hooked!Settles(t, closing) = Forms!Settles(t, closing)
<1>1. \A t, name, payload : Hooked!Put(t, name, payload) = Forms!Put(t, name, payload)
    BY DEF Hooked!Put, Forms!Put
<1>2. \A t : Hooked!SettleOpenForm(t) = Forms!SettleOpenForm(t)
    BY <1>1 DEF Hooked!SettleOpenForm, Forms!SettleOpenForm
<1>3. \A t, closing : Hooked!Settles(t, closing) = Forms!Settles(t, closing)
    BY DEF Hooked!Settles, Forms!Settles
<1>4. \A t, closing : Hooked!SettleVisiblePage(t, closing) = Forms!SettleVisiblePage(t, closing)
    BY <1>1, <1>3 DEF Hooked!SettleVisiblePage, Forms!SettleVisiblePage
<1> QED BY <1>1, <1>2, <1>3, <1>4

LEMMA PutIs ==
    ASSUME NEW t, Shaped(t), NEW name, NEW payload, NEW u, u = Forms!Put(t, name, payload)
    PROVE  /\ Shaped(u)
           /\ u.page = t.page /\ u.route = t.route /\ u.since = t.since /\ u.sequence = t.sequence
           /\ u.closed = t.closed /\ u.destroyed = t.destroyed
           /\ ~Passes(t) => u = t
           /\ Passes(t) => u.sent = t.sent \cup {Made(t, name, payload)}
<1>1. PICK e : e = Made(t, name, payload)
    OBVIOUS
<1>2. u = IF Passes(t) THEN [t EXCEPT !.sent = @ \cup {e}] ELSE t
    BY <1>1 DEF Forms!Put, Made, Passes
<1>3. CASE ~Passes(t)
    BY <1>2, <1>3
<1>4. CASE Passes(t)
    <2>1. u = [t EXCEPT !.sent = @ \cup {e}]
        BY <1>2, <1>4
    <2>2. /\ Shaped(u) /\ u.sent = t.sent \cup {e}
          /\ u.page = t.page /\ u.route = t.route /\ u.since = t.since /\ u.sequence = t.sequence
          /\ u.closed = t.closed /\ u.destroyed = t.destroyed
        BY <2>1 DEF Shaped
    <2> QED BY <1>1, <1>4, <2>2
<1> QED BY <1>3, <1>4

LEMMA PutQuiet ==
    ASSUME NEW t, Shaped(t), NEW name, NEW payload, name \notin {"page_view", "page_leave"}
    PROVE  Quiet(t, Forms!Put(t, name, payload))
<1>1. PICK u : u = Forms!Put(t, name, payload)
    OBVIOUS
<1>2. Made(t, name, payload).event = name
    BY DEF Made
<1>3. UsageKept(t, u)
    BY <1>1, <1>2, PutIs DEF UsageKept, UsageOf
<1> QED BY <1>1, <1>3, PutIs DEF Quiet

LEMMA OpenFormQuiet == ASSUME NEW t, Shaped(t) PROVE Quiet(t, Forms!SettleOpenForm(t))
<1>1. CASE t.form = None
    BY <1>1, QuietSame DEF Forms!SettleOpenForm
<1>2. CASE t.form # None
    <2>1. PICK s : s = [t EXCEPT !.form = None]
        OBVIOUS
    <2>2. Quiet(t, s)
        BY <2>1 DEF Quiet, Shaped, UsageKept, UsageOf
    <2>3. Quiet(s, Forms!Put(s, "form_summary", [opened |-> t.form]))
        BY <2>2, PutQuiet DEF Quiet
    <2> QED BY <1>2, <2>1, <2>2, <2>3, QuietAgain DEF Forms!SettleOpenForm
<1> QED BY <1>1, <1>2

LEMMA RefreshQuiet ==
    ASSUME NEW t, Shaped(t)
    PROVE  Quiet(t, Hooked!RefreshSession(t)) /\ Quiet(t, Forms!RefreshSession(t))
<1>1. PICK awake : awake = [t EXCEPT !.activity = now]
    OBVIOUS
<1>2. Quiet(t, awake)
    BY <1>1 DEF Quiet, Shaped, UsageKept, UsageOf
<1>3. PICK settled : settled = Forms!SettleOpenForm(awake) /\ Quiet(awake, settled)
    BY <1>2, OpenFormQuiet DEF Quiet
<1>4. PICK s : s = [settled EXCEPT !.session = @ + 1]
    OBVIOUS
<1>5. Quiet(settled, s)
    BY <1>3, <1>4 DEF Quiet, Shaped, UsageKept, UsageOf
<1>6. Quiet(t, s)
    BY <1>2, <1>3, <1>5, QuietAgain
<1>7. Hooked!RefreshSession(t) = awake \/ Hooked!RefreshSession(t) = s
    BY <1>1, <1>3, <1>4, PutAlike DEF Hooked!RefreshSession
<1>8. Forms!RefreshSession(t) = awake \/ Forms!RefreshSession(t) = s
    BY <1>1, <1>3, <1>4 DEF Forms!RefreshSession
<1> QED BY <1>2, <1>6, <1>7, <1>8

LEMMA EmitQuiet ==
    ASSUME NEW t, Shaped(t), NEW name, NEW payload, name \notin {"page_view", "page_leave"}
    PROVE  Quiet(t, Hooked!Emit(t, name, payload)) /\ Quiet(t, Forms!Emit(t, name, payload))
<1>1. PICK h, f : h = Hooked!RefreshSession(t) /\ f = Forms!RefreshSession(t)
    OBVIOUS
<1>2. Quiet(t, h) /\ Quiet(t, f) /\ Shaped(h) /\ Shaped(f)
    BY <1>1, RefreshQuiet DEF Quiet
<1>3. Quiet(h, Forms!Put(h, name, payload)) /\ Quiet(f, Forms!Put(f, name, payload))
    BY <1>2, PutQuiet
<1>4. Hooked!Emit(t, name, payload) = t \/ Hooked!Emit(t, name, payload) = Forms!Put(h, name, payload)
    BY <1>1, PutAlike DEF Hooked!Emit
<1>5. Forms!Emit(t, name, payload) = t \/ Forms!Emit(t, name, payload) = Forms!Put(f, name, payload)
    BY <1>1 DEF Forms!Emit
<1> QED BY <1>2, <1>3, <1>4, <1>5, QuietAgain, QuietSame

LEMMA TouchQuiet ==
    ASSUME NEW t, Shaped(t)
    PROVE  Quiet(t, Hooked!Touch(t)) /\ Quiet(t, Forms!Touch(t))
    BY RefreshQuiet, QuietSame DEF Hooked!Touch, Forms!Touch

LEMMA FormsQuiet ==
    ASSUME NEW t, Shaped(t)
    PROVE  Quiet(t, Hooked!SettleForms(t)) /\ Quiet(t, Forms!SettleForms(t))
<1>1. PICK s : s = [t EXCEPT !.form = None]
    OBVIOUS
<1>2. Quiet(t, s) /\ Shaped(s)
    BY <1>1 DEF Quiet, Shaped, UsageKept, UsageOf
<1>3. PICK payload : payload = [opened |-> t.form]
    OBVIOUS
<1>4. Quiet(s, Hooked!Emit(s, "form_summary", payload)) /\ Quiet(s, Forms!Emit(s, "form_summary", payload))
    BY <1>2, EmitQuiet
<1>5. Quiet(t, Hooked!Emit(s, "form_summary", payload)) /\ Quiet(t, Forms!Emit(s, "form_summary", payload))
    BY <1>2, <1>4, QuietAgain
<1>6. Hooked!SettleForms(t) = t \/ Hooked!SettleForms(t) = Hooked!Emit(s, "form_summary", payload)
    BY <1>1, <1>3 DEF Hooked!SettleForms
<1>7. Forms!SettleForms(t) = t \/ Forms!SettleForms(t) = Forms!Emit(s, "form_summary", payload)
    BY <1>1, <1>3 DEF Forms!SettleForms
<1> QED BY <1>5, <1>6, <1>7, QuietSame

LEMMA ViewsQuiet ==
    ASSUME NEW t, Shaped(t)
    PROVE  Quiet(t, Hooked!StopLongViews(t)) /\ Quiet(t, Forms!StopLongViews(t))
<1>1. PICK s : s = [t EXCEPT !.view = FALSE]
    OBVIOUS
<1>2. Quiet(t, s) /\ Shaped(s)
    BY <1>1 DEF Quiet, Shaped, UsageKept, UsageOf
<1>3. Quiet(s, Hooked!Touch(s)) /\ Quiet(s, Forms!Touch(s))
    BY <1>2, TouchQuiet
<1>4. Quiet(t, Hooked!Touch(s)) /\ Quiet(t, Forms!Touch(s))
    BY <1>2, <1>3, QuietAgain
<1>5. Hooked!StopLongViews(t) = t \/ Hooked!StopLongViews(t) = Hooked!Touch(s)
    BY <1>1 DEF Hooked!StopLongViews
<1>6. Forms!StopLongViews(t) = t \/ Forms!StopLongViews(t) = Forms!Touch(s)
    BY <1>1 DEF Forms!StopLongViews
<1> QED BY <1>4, <1>5, <1>6, QuietSame

\* A settlement: the segment ends, with its event if that passes.
Segment(t, e, closing) ==
    /\ e.event = "page_leave" /\ e.page = t.page /\ e.route = t.route /\ e.at = now
    /\ e.payload.duration = (IF t.since = None THEN 0 ELSE now - t.since)
    /\ e.payload.sequence = t.sequence + 1 /\ e.payload.closed = closing
Added(t, u, e) == \A f : f \in UsageOf(u) <=> f \in UsageOf(t) \/ f = e
Ending(t, closing) == ~t.closed /\ (t.since # None \/ closing)
Settled(t, u, closing) ==
    \/ ~Ending(t, closing) /\ Quiet(t, u)
    \/ /\ Ending(t, closing)
       /\ Shaped(u) /\ u.page = t.page /\ u.route = t.route /\ u.destroyed = t.destroyed
       /\ u.closed = closing /\ u.since = None /\ u.sequence = t.sequence + 1
       /\ ~Passes(t) => UsageKept(t, u)
       /\ Passes(t) => \E e : Segment(t, e, closing) /\ Added(t, u, e)

LEMMA SettlesIs ==
    ASSUME NEW t, Shaped(t), NEW closing
    PROVE  Settled(t, Forms!SettleVisiblePage(t, closing), closing)
<1>1. PICK s : s = [t EXCEPT !.closed = closing, !.since = None, !.sequence = @ + 1]
    OBVIOUS
<1>2. PICK payload : payload = [duration |-> IF t.since = None THEN 0 ELSE now - t.since,
                                sequence |-> t.sequence + 1, closed |-> closing]
    OBVIOUS
<1>3. PICK u : u = Forms!Put(s, "page_leave", payload)
    OBVIOUS
<1>4. CASE ~Ending(t, closing)
    BY <1>4, QuietSame DEF Forms!SettleVisiblePage, Forms!Settles, Ending, Settled
<1>5. CASE Ending(t, closing)
    <2>1. Forms!SettleVisiblePage(t, closing) = u
        BY <1>1, <1>2, <1>3, <1>5 DEF Forms!SettleVisiblePage, Forms!Settles, Ending
    <2>2. /\ Shaped(s) /\ s.page = t.page /\ s.route = t.route /\ s.destroyed = t.destroyed
          /\ s.closed = closing /\ s.since = None /\ s.sequence = t.sequence + 1 /\ s.sent = t.sent
        BY <1>1 DEF Shaped
    <2>3. /\ Shaped(u) /\ u.page = t.page /\ u.route = t.route /\ u.destroyed = t.destroyed
          /\ u.closed = closing /\ u.since = None /\ u.sequence = t.sequence + 1
        BY <1>3, <2>2, PutIs
    <2>4. Passes(s) <=> Passes(t)
        BY <2>2 DEF Passes
    <2>5. ASSUME ~Passes(t) PROVE UsageKept(t, u)
        BY <1>3, <2>2, <2>4, <2>5, PutIs DEF UsageKept, UsageOf
    <2>6. ASSUME Passes(t) PROVE \E e : Segment(t, e, closing) /\ Added(t, u, e)
        <3>1. PICK e : e = Made(s, "page_leave", payload)
            OBVIOUS
        <3>2. Segment(t, e, closing)
            BY <1>2, <2>2, <3>1 DEF Made, Segment
        <3>3. u.sent = t.sent \cup {e}
            BY <1>3, <2>2, <2>4, <2>6, <3>1, PutIs
        <3>4. Added(t, u, e)
            BY <3>2, <3>3 DEF Segment, Added, UsageOf
        <3> QED BY <3>2, <3>4
    <2> QED BY <1>5, <2>1, <2>3, <2>5, <2>6 DEF Settled
<1> QED BY <1>4, <1>5

\* A settlement after something quiet.
LEMMA QuietSettled ==
    ASSUME NEW t, NEW q, NEW u, NEW closing, Quiet(t, q), Settled(q, u, closing)
    PROVE  Settled(t, u, closing)
<1>1. /\ q.page = t.page /\ q.route = t.route /\ q.since = t.since /\ q.sequence = t.sequence
      /\ q.closed = t.closed /\ q.destroyed = t.destroyed /\ UsageKept(t, q)
    BY DEF Quiet
<1>2. (Ending(q, closing) <=> Ending(t, closing)) /\ (Passes(q) <=> Passes(t))
    BY <1>1 DEF Ending, Passes
<1>3. ASSUME ~Ending(t, closing) PROVE Quiet(t, u)
    <2>1. Quiet(q, u)
        BY <1>2, <1>3 DEF Settled
    <2> QED BY <2>1, QuietAgain
<1>4. ASSUME Ending(t, closing)
      PROVE  /\ Shaped(u) /\ u.page = t.page /\ u.route = t.route /\ u.destroyed = t.destroyed
             /\ u.closed = closing /\ u.since = None /\ u.sequence = t.sequence + 1
             /\ ~Passes(t) => UsageKept(t, u)
             /\ Passes(t) => \E e : Segment(t, e, closing) /\ Added(t, u, e)
    <2>1. /\ Shaped(u) /\ u.page = q.page /\ u.route = q.route /\ u.destroyed = q.destroyed
          /\ u.closed = closing /\ u.since = None /\ u.sequence = q.sequence + 1
          /\ ~Passes(q) => UsageKept(q, u)
          /\ Passes(q) => \E e : Segment(q, e, closing) /\ Added(q, u, e)
        BY <1>2, <1>4 DEF Settled
    <2>2. ~Passes(t) => UsageKept(t, u)
        BY <1>1, <1>2, <2>1 DEF UsageKept
    <2>3. ASSUME Passes(t) PROVE \E e : Segment(t, e, closing) /\ Added(t, u, e)
        <3>1. PICK e : Segment(q, e, closing) /\ Added(q, u, e)
            BY <1>2, <2>1, <2>3
        <3>2. Segment(t, e, closing)
            BY <1>1, <3>1 DEF Segment
        <3>3. Added(t, u, e)
            BY <1>1, <3>1 DEF Added, UsageKept
        <3> QED BY <3>2, <3>3
    <2> QED BY <1>1, <2>1, <2>2, <2>3
<1> QED BY <1>3, <1>4 DEF Settled

\* The end of a page view: it is settled, or a throw of the hook prevents that.
Ends(t, u) == Settled(t, u, TRUE) \/ (hook = "throws" /\ t.view /\ Quiet(t, u))
LEMMA EndIs ==
    ASSUME NEW t, Shaped(t)
    PROVE  Ends(t, Hooked!EndPage(t)) /\ Ends(t, Forms!EndPage(t))
<1>1. PICK h, f : h = Hooked!StopLongViews(Hooked!SettleForms(t)) /\ f = Forms!StopLongViews(Forms!SettleForms(t))
    OBVIOUS
<1>2. Quiet(t, h) /\ Quiet(t, f) /\ Shaped(h) /\ Shaped(f)
    <2>1. PICK a, b : a = Hooked!SettleForms(t) /\ b = Forms!SettleForms(t)
        OBVIOUS
    <2>2. Quiet(t, a) /\ Quiet(t, b) /\ Shaped(a) /\ Shaped(b)
        BY <2>1, FormsQuiet DEF Quiet
    <2>3. Quiet(a, h) /\ Quiet(b, f)
        BY <1>1, <2>1, <2>2, ViewsQuiet
    <2>4. Shaped(h) /\ Shaped(f)
        BY <2>3 DEF Quiet
    <2> QED BY <2>2, <2>3, <2>4, QuietAgain
<1>3. Settled(t, Forms!SettleVisiblePage(h, TRUE), TRUE) /\ Settled(t, Forms!SettleVisiblePage(f, TRUE), TRUE)
    <2>1. Settled(h, Forms!SettleVisiblePage(h, TRUE), TRUE) /\ Settled(f, Forms!SettleVisiblePage(f, TRUE), TRUE)
        BY <1>2, SettlesIs
    <2> QED BY <1>2, <2>1, QuietSettled
<1>4. Hooked!EndPage(t) = IF hook = "throws" /\ t.view THEN h ELSE Forms!SettleVisiblePage(h, TRUE)
    BY <1>1, PutAlike DEF Hooked!EndPage, Hooked!Throws
<1>5. Forms!EndPage(t) = IF hook = "throws" /\ t.view THEN f ELSE Forms!SettleVisiblePage(f, TRUE)
    BY <1>1 DEF Forms!EndPage, Forms!Throws
<1> QED BY <1>2, <1>3, <1>4, <1>5 DEF Ends

\* A page view begins.
Viewed(t, e) == e.event = "page_view" /\ e.page = t.page /\ e.route = t.route /\ e.at = now
Begun(t, u) ==
    /\ Shaped(u) /\ u.page = t.page /\ u.route = t.route /\ u.since = t.since /\ u.destroyed = t.destroyed
    /\ u.sequence = 0 /\ u.closed = FALSE
    /\ UsageKept(t, u) \/ \E e : Viewed(t, e) /\ Added(t, u, e)
LEMMA PageViewIs ==
    ASSUME NEW t, Shaped(t)
    PROVE  Begun(t, Hooked!EmitPageView(t)) /\ Begun(t, Forms!EmitPageView(t))
<1>1. ASSUME NEW r, Quiet(t, r) PROVE Begun(t, Forms!Put([r EXCEPT !.sequence = 0, !.closed = FALSE], "page_view", None))
    <2>1. PICK s : s = [r EXCEPT !.sequence = 0, !.closed = FALSE]
        OBVIOUS
    <2>2. PICK u : u = Forms!Put(s, "page_view", None)
        OBVIOUS
    <2>3. /\ Shaped(s) /\ s.page = t.page /\ s.route = t.route /\ s.since = t.since /\ s.destroyed = t.destroyed
          /\ s.sequence = 0 /\ s.closed = FALSE /\ UsageKept(t, s)
        BY <1>1, <2>1 DEF Quiet, Shaped, UsageKept, UsageOf
    <2>4. /\ Shaped(u) /\ u.page = t.page /\ u.route = t.route /\ u.since = t.since /\ u.destroyed = t.destroyed
          /\ u.sequence = 0 /\ u.closed = FALSE
        BY <2>2, <2>3, PutIs
    <2>5. ASSUME ~Passes(s) PROVE UsageKept(t, u)
        BY <2>2, <2>3, <2>5, PutIs
    <2>6. ASSUME Passes(s) PROVE \E e : Viewed(t, e) /\ Added(t, u, e)
        <3>1. PICK e : e = Made(s, "page_view", None)
            OBVIOUS
        <3>2. Viewed(t, e)
            BY <2>3, <3>1 DEF Viewed, Made
        <3>3. u.sent = s.sent \cup {e}
            BY <2>2, <2>3, <2>6, <3>1, PutIs
        <3>4. Added(t, u, e)
            BY <2>3, <3>2, <3>3 DEF Viewed, Added, UsageOf, UsageKept
        <3> QED BY <3>2, <3>4
    <2> QED BY <2>1, <2>2, <2>4, <2>5, <2>6 DEF Begun
<1>2. PICK h, f : h = Hooked!RefreshSession(t) /\ f = Forms!RefreshSession(t)
    OBVIOUS
<1>3. Quiet(t, h) /\ Quiet(t, f)
    BY <1>2, RefreshQuiet
<1>4. Hooked!EmitPageView(t) = Forms!Put([h EXCEPT !.sequence = 0, !.closed = FALSE], "page_view", None)
    BY <1>2, PutAlike DEF Hooked!EmitPageView
<1>5. Forms!EmitPageView(t) = Forms!Put([f EXCEPT !.sequence = 0, !.closed = FALSE], "page_view", None)
    BY <1>2 DEF Forms!EmitPageView
<1> QED BY <1>1, <1>3, <1>4, <1>5

-----------------------------------------------------------------------------
\* Usage: what the events say of the visible time.

Leaves(U) == {e \in U : e.event = "page_leave"}
Views(U) == {e \in U : e.event = "page_view"}

\* T tells how long a page view had been visible when it had been settled so many times.
Timed(T) == T \in [Nat -> [Nat -> Nat]] /\ \A p \in Nat : T[p][0] = 0

\* The tab, its page view among those there may be.
Tidy(t, sh, n) ==
    /\ Shaped(t) /\ n \in Nat /\ t.page \in Nat /\ t.sequence \in Nat
    /\ t.since # None => t.since \in Nat /\ t.since <= n
    /\ t.closed \in BOOLEAN /\ t.destroyed \in BOOLEAN
    /\ t.page \in DOMAIN sh /\ \A p \in DOMAIN sh : p \in Nat /\ sh[p] \in Nat /\ (p > t.page => sh[p] = 0)

\* What is sent: a segment is the time between two settlements, and the last one is sent when the
\* page view is over.
Told(T, U, t, ov, sh, n) == \A e \in U :
    /\ e.event \in {"page_view", "page_leave"}
    /\ e.page \in Nat /\ e.page <= t.page /\ e.at \in Nat /\ e.at <= n
    /\ e.page = t.page => e.route = t.route
    /\ e.event = "page_leave" =>
         /\ e.payload.sequence \in Nat /\ e.payload.sequence > 0
         /\ e.payload.duration \in Nat
         /\ T[e.page][e.payload.sequence - 1] + e.payload.duration = T[e.page][e.payload.sequence]
         /\ e.payload.closed => T[e.page][e.payload.sequence] = sh[e.page]
         /\ e.page = t.page => e.payload.sequence <= t.sequence
         /\ e.page = t.page /\ e.payload.closed => ov /\ t.closed /\ e.payload.sequence = t.sequence

\* No two segments of a page view have one number, and the closed one is the last.
Numbered(U) == \A e, f \in Leaves(U) : e.page = f.page =>
    /\ e.payload.sequence = f.payload.sequence => e = f
    /\ e.payload.closed => f.payload.sequence <= e.payload.sequence
Matched(U) == \A v \in Views(U), e \in Leaves(U) : e.page = v.page => e.route = v.route /\ e.at >= v.at

\* The page view that runs: what was settled of it, and the stretch that is open.
Running(T, t, ov, vis, sh, n) == ~ov /\ ~t.closed =>
    /\ t.since # None <=> vis
    /\ T[t.page][t.sequence] + (IF t.since = None THEN 0 ELSE n - t.since) = sh[t.page]

\* No segment is missing.
Gapless(U, t) ==
    /\ \A i \in 1 .. t.sequence : \E f \in Leaves(U) : f.page = t.page /\ f.payload.sequence = i
    /\ \A e \in Leaves(U) : \A i \in 1 .. e.payload.sequence :
         \E f \in Leaves(U) : f.page = e.page /\ f.payload.sequence = i

Tells(T, t, ov, vis, sh, n) ==
    /\ Timed(T) /\ Tidy(t, sh, n) /\ IsFiniteSet(UsageOf(t)) /\ Told(T, UsageOf(t), t, ov, sh, n)
    /\ Numbered(UsageOf(t)) /\ Matched(UsageOf(t)) /\ Running(T, t, ov, vis, sh, n)

LEMMA SameUsage == ASSUME NEW t, NEW u, UsageKept(t, u) PROVE UsageOf(u) = UsageOf(t)
    BY DEF UsageKept

\* While a page view goes on quietly, or is over.
LEMMA QuietTells ==
    ASSUME NEW T, NEW t, NEW ov, NEW vis, NEW sh, NEW n, Tells(T, t, ov, vis, sh, n),
           NEW u, Quiet(t, u), NEW ov2, ov => ov2, NEW vis2, ov2 \/ t.closed \/ vis2 = vis
    PROVE  Tells(T, u, ov2, vis2, sh, n) /\ (Gapless(UsageOf(t), t) => Gapless(UsageOf(u), u))
<1>1. /\ Shaped(u) /\ UsageOf(u) = UsageOf(t)
      /\ u.page = t.page /\ u.route = t.route /\ u.since = t.since /\ u.sequence = t.sequence
      /\ u.closed = t.closed /\ u.destroyed = t.destroyed
    BY SameUsage DEF Quiet
<1>2. Tidy(u, sh, n)
    BY <1>1 DEF Tells, Tidy
<1>3. Told(T, UsageOf(u), u, ov2, sh, n)
    BY <1>1 DEF Tells, Told
<1>4. Running(T, u, ov2, vis2, sh, n)
    BY <1>1 DEF Tells, Running
<1>5. Gapless(UsageOf(t), t) => Gapless(UsageOf(u), u)
    BY <1>1 DEF Gapless
<1> QED BY <1>1, <1>2, <1>3, <1>4, <1>5 DEF Tells

\* What is told of the tab that a handler leaves, if anything is of the one it found.
Reached(t, u, ov, vis, sh) ==
    /\ \E S : Tells(S, u, ov, vis, sh, now)
    /\ hook = "accepts" /\ Gapless(UsageOf(t), t) => Gapless(UsageOf(u), u)

\* A page view that is closed is over when its event passes, and one that is not is hidden.
MaySettle(closing, ov, ov2, vis, vis2) ==
    /\ closing \in BOOLEAN /\ ov \in BOOLEAN /\ ov2 \in BOOLEAN /\ vis \in BOOLEAN /\ vis2 \in BOOLEAN
    /\ ov => ov2
    /\ closing => ~ov /\ (hook = "accepts" => ov2)
    /\ ~closing => ~vis2

\* A segment ends with a settlement.
LEMMA SettleTells ==
    ASSUME NEW T, NEW t, NEW ov, NEW vis, NEW sh, Tells(T, t, ov, vis, sh, now), ~t.destroyed,
           NEW closing, NEW u, Settled(t, u, closing),
           NEW ov2, NEW vis2, MaySettle(closing, ov, ov2, vis, vis2)
    PROVE  Reached(t, u, ov2, vis2, sh)
<1> USE DEF Reached
<1>0. /\ closing \in BOOLEAN /\ ov \in BOOLEAN /\ ov2 \in BOOLEAN /\ vis \in BOOLEAN /\ vis2 \in BOOLEAN
      /\ ov => ov2
      /\ closing => ~ov /\ (hook = "accepts" => ov2)
      /\ ~closing => ~vis2
    BY DEF MaySettle
<1>1. /\ Timed(T) /\ Tidy(t, sh, now) /\ IsFiniteSet(UsageOf(t)) /\ Told(T, UsageOf(t), t, ov, sh, now)
      /\ Numbered(UsageOf(t)) /\ Matched(UsageOf(t)) /\ Running(T, t, ov, vis, sh, now)
    BY DEF Tells
<1>2. CASE ~Ending(t, closing)
    <2>1. Quiet(t, u)
        BY <1>2 DEF Settled
    <2>2. Tells(T, t, ov2, vis2, sh, now)
        <3>1. Told(T, UsageOf(t), t, ov2, sh, now)
            BY <1>0, <1>1 DEF Told
        <3>2. Running(T, t, ov2, vis2, sh, now)
            BY <1>0, <1>1, <1>2 DEF Running, Ending
        <3> QED BY <1>1, <3>1, <3>2 DEF Tells
    <2> QED BY <2>1, <2>2, QuietTells
<1>3. CASE Ending(t, closing)
    <2>1. /\ Shaped(u) /\ u.page = t.page /\ u.route = t.route /\ u.destroyed = t.destroyed
          /\ u.closed = closing /\ u.since = None /\ u.sequence = t.sequence + 1
          /\ ~Passes(t) => UsageOf(u) = UsageOf(t)
          /\ Passes(t) => \E e : Segment(t, e, closing) /\ Added(t, u, e)
        BY <1>3, SameUsage DEF Settled
    <2>2. /\ t.page \in Nat /\ t.sequence \in Nat /\ now \in Nat /\ ~t.closed
          /\ t.since # None => t.since \in Nat /\ t.since <= now
        BY <1>1, <1>3 DEF Tidy, Ending
    <2>3. PICK d : d = (IF t.since = None THEN 0 ELSE now - t.since) /\ d \in Nat
        <3>1. CASE t.since = None
            BY <3>1
        <3>2. CASE t.since # None
            <4>1. now - t.since \in Nat
                BY <2>2, <3>2
            <4> QED BY <3>2, <4>1
        <3> QED BY <3>1, <3>2
    <2>4. PICK S : S = [p \in Nat |-> [i \in Nat |-> IF p = t.page /\ i = t.sequence + 1 THEN T[t.page][t.sequence] + d ELSE T[p][i]]]
        OBVIOUS
    <2>5. /\ Timed(S) /\ S[t.page][t.sequence + 1] = T[t.page][t.sequence] + d
          /\ \A p, i \in Nat : p # t.page \/ i # t.sequence + 1 => S[p][i] = T[p][i]
        <3>1. T[t.page][t.sequence] \in Nat /\ t.sequence + 1 \in Nat
            <4>1. T[t.page] \in [Nat -> Nat]
                BY <1>1, <2>2 DEF Timed
            <4> QED BY <2>2, <4>1
        <3>2. T[t.page][t.sequence] + d \in Nat
            BY <2>3, <3>1
        <3>3. S \in [Nat -> [Nat -> Nat]]
            BY <1>1, <2>4, <3>2 DEF Timed
        <3>4. \A p, i \in Nat : p # t.page \/ i # t.sequence + 1 => S[p][i] = T[p][i]
            BY <2>4
        <3>5. \A p \in Nat : S[p][0] = 0
            <4> SUFFICES ASSUME NEW p \in Nat PROVE S[p][0] = 0
                OBVIOUS
            <4>1. 0 \in Nat /\ 0 # t.sequence + 1
                BY <2>2
            <4>2. S[p][0] = T[p][0]
                BY <3>4, <4>1
            <4> QED BY <1>1, <4>2 DEF Timed
        <3>6. S[t.page][t.sequence + 1] = T[t.page][t.sequence] + d
            BY <2>2, <2>4, <3>1
        <3> QED BY <3>3, <3>4, <3>5, <3>6 DEF Timed
    <2>6. Tidy(u, sh, now)
        BY <1>0, <1>1, <2>1, <2>2 DEF Tidy
    <2>7. ~ov /\ closing => S[t.page][t.sequence + 1] = sh[t.page]
        BY <1>1, <2>2, <2>3, <2>5 DEF Running
    <2>8. Running(S, u, ov2, vis2, sh, now)
        <3> SUFFICES ASSUME ~ov2, ~closing
                     PROVE  ~vis2 /\ S[t.page][t.sequence + 1] + 0 = sh[t.page]
            BY <2>1 DEF Running
        <3>1. T[t.page][t.sequence] + d = sh[t.page]
            BY <1>0, <1>1, <2>2, <2>3 DEF Running
        <3>2. sh[t.page] \in Nat
            BY <1>1 DEF Tidy
        <3> QED BY <1>0, <2>5, <3>1, <3>2
    <2>9. \A e \in UsageOf(t) : Told(S, {e}, u, ov2, sh, now)
        <3> SUFFICES ASSUME NEW e \in UsageOf(t) PROVE Told(S, {e}, u, ov2, sh, now)
            OBVIOUS
        <3>1. Told(T, {e}, t, ov, sh, now)
            BY <1>1 DEF Told
        <3>2. CASE e.event = "page_leave"
            <4>1. PICK s : s = e.payload.sequence /\ s \in Nat /\ s > 0 /\ e.page \in Nat
                BY <3>1, <3>2 DEF Told
            <4>2. (e.page = t.page => s <= t.sequence) /\ ~(e.page = t.page /\ e.payload.closed)
                BY <2>2, <3>1, <3>2, <4>1 DEF Told
            <4>3. S[e.page][s] = T[e.page][s] /\ S[e.page][s - 1] = T[e.page][s - 1]
                BY <2>2, <2>5, <4>1, <4>2
            <4>4. e.page = u.page => s <= u.sequence
                BY <2>1, <2>2, <4>1, <4>2
            <4> QED BY <2>1, <3>1, <3>2, <4>1, <4>2, <4>3, <4>4 DEF Told
        <3>3. CASE e.event # "page_leave"
            BY <2>1, <3>1, <3>3 DEF Told
        <3> QED BY <3>2, <3>3
    <2>10. CASE ~Passes(t)
        <3>1. UsageOf(u) = UsageOf(t)
            BY <2>1, <2>10
        <3>2. Told(S, UsageOf(u), u, ov2, sh, now)
            BY <2>9, <3>1 DEF Told
        <3>3. hook # "accepts"
            BY <2>10 DEF Passes
        <3> QED BY <1>1, <2>5, <2>6, <2>8, <3>1, <3>2, <3>3 DEF Tells
    <2>11. CASE Passes(t)
        <3>1. PICK e : Segment(t, e, closing) /\ Added(t, u, e)
            BY <2>1, <2>11
        <3>2. UsageOf(u) = UsageOf(t) \cup {e}
            BY <3>1 DEF Added
        <3>3. IsFiniteSet(UsageOf(u))
            BY <1>1, <3>2, FS_AddElement
        <3>4. /\ e.event = "page_leave" /\ e.page = t.page /\ e.route = t.route /\ e.at = now
              /\ e.payload.duration = d /\ e.payload.sequence = t.sequence + 1 /\ e.payload.closed = closing
            BY <2>3, <3>1 DEF Segment
        <3>5. Told(S, {e}, u, ov2, sh, now)
            <4>1. closing => ov2 /\ S[e.page][e.payload.sequence] = sh[e.page]
                BY <1>0, <2>7, <2>11, <3>4 DEF Passes
            <4>2. S[e.page][e.payload.sequence - 1] + e.payload.duration = S[e.page][e.payload.sequence]
                <5>1. t.sequence + 1 - 1 = t.sequence /\ t.sequence # t.sequence + 1
                    BY <2>2
                <5>2. S[t.page][t.sequence] = T[t.page][t.sequence]
                    BY <2>2, <2>5, <5>1
                <5>3. e.payload.sequence - 1 = t.sequence
                    BY <2>2, <3>4, <5>1
                <5>4. S[e.page][e.payload.sequence - 1] = T[t.page][t.sequence]
                    BY <3>4, <5>2, <5>3
                <5>5. S[e.page][e.payload.sequence] = T[t.page][t.sequence] + d
                    BY <2>5, <3>4
                <5> QED BY <3>4, <5>4, <5>5
            <4>3. e.payload.sequence \in Nat /\ e.payload.sequence > 0 /\ e.payload.sequence <= u.sequence
                BY <2>1, <2>2, <3>4
            <4> QED BY <2>1, <2>2, <2>3, <3>4, <4>1, <4>2, <4>3 DEF Told
        <3>6. Told(S, UsageOf(u), u, ov2, sh, now)
            BY <2>9, <3>2, <3>5 DEF Told
        <3>7. Leaves(UsageOf(u)) = Leaves(UsageOf(t)) \cup {e} /\ Views(UsageOf(u)) = Views(UsageOf(t))
            BY <3>2, <3>4 DEF Leaves, Views
        <3>8. \A f \in Leaves(UsageOf(t)) : f.page = t.page =>
                /\ f.payload.sequence \in Nat /\ f.payload.sequence <= t.sequence /\ ~f.payload.closed
            BY <1>1, <2>2 DEF Leaves, Told
        <3>9. Numbered(UsageOf(u))
            BY <1>1, <2>2, <3>4, <3>7, <3>8 DEF Numbered
        <3>10. Matched(UsageOf(u))
            <4>1. \A v \in Views(UsageOf(t)) : v.page = t.page => v.route = t.route /\ v.at \in Nat /\ v.at <= now
                BY <1>1 DEF Views, Told
            <4> QED BY <1>1, <2>2, <3>4, <3>7, <4>1 DEF Matched
        <3>11. Gapless(UsageOf(t), t) => Gapless(UsageOf(u), u)
            <4> SUFFICES ASSUME Gapless(UsageOf(t), t) PROVE Gapless(UsageOf(u), u)
                OBVIOUS
            <4>1. \A i \in 1 .. t.sequence + 1 : \E f \in Leaves(UsageOf(u)) : f.page = t.page /\ f.payload.sequence = i
                <5> SUFFICES ASSUME NEW i \in 1 .. t.sequence + 1
                             PROVE  \E f \in Leaves(UsageOf(u)) : f.page = t.page /\ f.payload.sequence = i
                    OBVIOUS
                <5>1. CASE i = t.sequence + 1
                    BY <3>4, <3>7, <5>1
                <5>2. CASE i # t.sequence + 1
                    <6>1. i \in 1 .. t.sequence
                        BY <2>2, <5>2
                    <6> QED BY <3>7, <6>1 DEF Gapless
                <5> QED BY <5>1, <5>2
            <4>2. ASSUME NEW f \in Leaves(UsageOf(t)), NEW i \in 1 .. f.payload.sequence
                  PROVE  \E g \in Leaves(UsageOf(u)) : g.page = f.page /\ g.payload.sequence = i
                BY <3>7 DEF Gapless
            <4> QED BY <2>1, <3>4, <3>7, <4>1, <4>2 DEF Gapless
        <3> QED BY <2>5, <2>6, <2>8, <3>3, <3>6, <3>9, <3>10, <3>11 DEF Tells
    <2> QED BY <2>10, <2>11
<1> QED BY <1>2, <1>3

\* The next page view begins.
Begins(t, u) ==
    \E q : /\ Shaped(q) /\ UsageKept(t, q) /\ q.page = t.page + 1 /\ q.since = (IF visible THEN now ELSE None)
           /\ q.destroyed \in BOOLEAN /\ Begun(q, u)
LEMMA BeginTells ==
    ASSUME NEW T, NEW t, NEW ov, NEW vis, NEW sh, Tells(T, t, ov, vis, sh, now),
           NEW u, Begins(t, u), t.page + 1 \in DOMAIN sh, NEW ov2, ov2 \in BOOLEAN, visible \in BOOLEAN
    PROVE  Tells(T, u, ov2, visible, sh, now) /\ (Gapless(UsageOf(t), t) => Gapless(UsageOf(u), u))
<1>1. /\ Timed(T) /\ Tidy(t, sh, now) /\ IsFiniteSet(UsageOf(t)) /\ Told(T, UsageOf(t), t, ov, sh, now)
      /\ Numbered(UsageOf(t)) /\ Matched(UsageOf(t)) /\ Running(T, t, ov, vis, sh, now)
    BY DEF Tells
<1>2. PICK q : /\ Shaped(q) /\ UsageKept(t, q) /\ q.page = t.page + 1 /\ q.since = (IF visible THEN now ELSE None)
               /\ q.destroyed \in BOOLEAN /\ Begun(q, u)
    BY DEF Begins
<1>3. UsageOf(q) = UsageOf(t)
    BY <1>2, SameUsage
<1>4. /\ Shaped(u) /\ u.page = t.page + 1 /\ u.since = (IF visible THEN now ELSE None) /\ u.destroyed \in BOOLEAN
      /\ u.sequence = 0 /\ u.closed = FALSE /\ u.route = q.route
    BY <1>2 DEF Begun
<1>5. t.page \in Nat /\ now \in Nat /\ t.page + 1 \in Nat
    BY <1>1 DEF Tidy
<1>6. Tidy(u, sh, now)
    <2>1. u.since # None => u.since \in Nat /\ u.since <= now
        BY <1>4, <1>5
    <2>2. ASSUME NEW p \in DOMAIN sh PROVE p \in Nat /\ sh[p] \in Nat /\ (p > u.page => sh[p] = 0)
        <3>1. p \in Nat /\ sh[p] \in Nat /\ (p > t.page => sh[p] = 0)
            BY <1>1 DEF Tidy
        <3>2. p > u.page => p > t.page
            BY <1>4, <1>5, <3>1
        <3> QED BY <3>1, <3>2
    <2>3. u.sequence \in Nat /\ u.page \in Nat /\ u.page \in DOMAIN sh
        BY <1>4, <1>5
    <2>4. u.closed \in BOOLEAN
        BY <1>4
    <2> QED BY <1>4, <1>5, <2>1, <2>2, <2>3, <2>4 DEF Tidy
<1>7. Running(T, u, ov2, visible, sh, now)
    <2>1. sh[t.page + 1] = 0
        BY <1>1, <1>5 DEF Tidy
    <2>2. T[t.page + 1][0] = 0
        BY <1>1, <1>5 DEF Timed
    <2>3. u.since # None <=> visible
        BY <1>4, <1>5, BrowserAssumption
    <2>4. (IF u.since = None THEN 0 ELSE now - u.since) = 0
        BY <1>4, <1>5
    <2> QED BY <1>4, <2>1, <2>2, <2>3, <2>4 DEF Running
<1>8. ASSUME NEW e \in UsageOf(t) PROVE Told(T, {e}, u, ov2, sh, now)
    <2>1. Told(T, {e}, t, ov, sh, now)
        BY <1>1 DEF Told
    <2>2. e.page \in Nat /\ e.page <= t.page
        BY <2>1 DEF Told
    <2>3. e.page # u.page /\ e.page <= u.page
        BY <1>4, <1>5, <2>2
    <2> QED BY <2>1, <2>3 DEF Told
<1>9. CASE UsageKept(q, u)
    <2>1. UsageOf(u) = UsageOf(t)
        BY <1>3, <1>9, SameUsage
    <2>2. Told(T, UsageOf(u), u, ov2, sh, now)
        BY <1>8, <2>1 DEF Told
    <2>3. Gapless(UsageOf(t), t) => Gapless(UsageOf(u), u)
        BY <1>4, <2>1 DEF Gapless
    <2> QED BY <1>1, <1>6, <1>7, <2>1, <2>2, <2>3 DEF Tells
<1>10. CASE ~UsageKept(q, u)
    <2>1. PICK e : Viewed(q, e) /\ Added(q, u, e)
        BY <1>2, <1>10 DEF Begun
    <2>2. UsageOf(u) = UsageOf(t) \cup {e}
        BY <1>3, <2>1 DEF Added
    <2>3. e.event = "page_view" /\ e.page = t.page + 1 /\ e.route = u.route /\ e.at = now
        BY <1>2, <1>4, <2>1 DEF Viewed
    <2>4. Told(T, {e}, u, ov2, sh, now)
        BY <1>4, <1>5, <2>3 DEF Told
    <2>5. Told(T, UsageOf(u), u, ov2, sh, now)
        BY <1>8, <2>2, <2>4 DEF Told
    <2>6. Leaves(UsageOf(u)) = Leaves(UsageOf(t)) /\ Views(UsageOf(u)) = Views(UsageOf(t)) \cup {e}
        BY <2>2, <2>3 DEF Leaves, Views
    <2>7. Numbered(UsageOf(u))
        BY <1>1, <2>6 DEF Numbered
    <2>8. \A f \in Leaves(UsageOf(t)) : f.page # e.page
        BY <1>1, <1>5, <2>3 DEF Leaves, Told
    <2>9. Matched(UsageOf(u))
        BY <1>1, <2>6, <2>8 DEF Matched
    <2>10. IsFiniteSet(UsageOf(u))
        BY <1>1, <2>2, FS_AddElement
    <2>11. Gapless(UsageOf(t), t) => Gapless(UsageOf(u), u)
        BY <1>4, <2>6 DEF Gapless
    <2> QED BY <1>1, <1>6, <1>7, <2>5, <2>7, <2>9, <2>10, <2>11 DEF Tells
<1> QED BY <1>9, <1>10

\* The page becomes visible.
LEMMA ShowTells ==
    ASSUME NEW T, NEW t, NEW ov \in BOOLEAN, NEW sh, Tells(T, t, ov, FALSE, sh, now)
    PROVE  LET u == [t EXCEPT !.since = now]
           IN  Tells(T, u, ov, TRUE, sh, now) /\ (Gapless(UsageOf(t), t) => Gapless(UsageOf(u), u))
<1>1. /\ Timed(T) /\ Tidy(t, sh, now) /\ IsFiniteSet(UsageOf(t)) /\ Told(T, UsageOf(t), t, ov, sh, now)
      /\ Numbered(UsageOf(t)) /\ Matched(UsageOf(t)) /\ Running(T, t, ov, FALSE, sh, now)
    BY DEF Tells
<1>2. PICK u : u = [t EXCEPT !.since = now]
    OBVIOUS
<1>3. /\ Shaped(u) /\ UsageOf(u) = UsageOf(t) /\ u.page = t.page /\ u.route = t.route /\ u.since = now
      /\ u.sequence = t.sequence /\ u.closed = t.closed /\ u.destroyed = t.destroyed
    BY <1>1, <1>2 DEF Tidy, Shaped, UsageOf
<1>4. now \in Nat /\ now # None /\ now - now = 0
    BY <1>1, BrowserAssumption DEF Tidy
<1>5. Tidy(u, sh, now)
    BY <1>1, <1>3, <1>4 DEF Tidy
<1>6. Told(T, UsageOf(u), u, ov, sh, now)
    BY <1>1, <1>3 DEF Told
<1>7. Running(T, u, ov, TRUE, sh, now)
    BY <1>1, <1>3, <1>4 DEF Running
<1>8. Gapless(UsageOf(t), t) => Gapless(UsageOf(u), u)
    BY <1>3 DEF Gapless
<1> QED BY <1>1, <1>2, <1>3, <1>5, <1>6, <1>7, <1>8 DEF Tells

\* The tab is destroyed, or not.
LEMMA DestroyTells ==
    ASSUME NEW T, NEW t, NEW ov \in BOOLEAN, NEW vis, NEW sh, Tells(T, t, ov, vis, sh, now), NEW d \in BOOLEAN
    PROVE  LET u == [t EXCEPT !.destroyed = d]
           IN  Tells(T, u, ov, vis, sh, now) /\ (Gapless(UsageOf(t), t) => Gapless(UsageOf(u), u))
<1>1. /\ Timed(T) /\ Tidy(t, sh, now) /\ IsFiniteSet(UsageOf(t)) /\ Told(T, UsageOf(t), t, ov, sh, now)
      /\ Numbered(UsageOf(t)) /\ Matched(UsageOf(t)) /\ Running(T, t, ov, vis, sh, now)
    BY DEF Tells
<1>2. PICK u : u = [t EXCEPT !.destroyed = d]
    OBVIOUS
<1>3. /\ Shaped(u) /\ UsageOf(u) = UsageOf(t) /\ u.page = t.page /\ u.route = t.route /\ u.since = t.since
      /\ u.sequence = t.sequence /\ u.closed = t.closed /\ u.destroyed = d
    BY <1>1, <1>2 DEF Tidy, Shaped, UsageOf
<1>4. Tidy(u, sh, now)
    BY <1>1, <1>3 DEF Tidy
<1>5. Told(T, UsageOf(u), u, ov, sh, now)
    BY <1>1, <1>3 DEF Told
<1>6. Running(T, u, ov, vis, sh, now)
    BY <1>1, <1>3 DEF Running
<1>7. Gapless(UsageOf(t), t) => Gapless(UsageOf(u), u)
    BY <1>3 DEF Gapless
<1> QED BY <1>1, <1>2, <1>3, <1>4, <1>5, <1>6, <1>7 DEF Tells

\* Time goes on.
LEMMA TickTells ==
    ASSUME NEW T, NEW t, NEW ov \in BOOLEAN, NEW vis \in BOOLEAN, NEW sh, Tells(T, t, ov, vis, sh, now),
           NEW s, s = IF vis /\ ~ov THEN [sh EXCEPT ![t.page] = @ + 1] ELSE sh
    PROVE  Tells(T, t, ov, vis, s, now + 1)
<1>1. /\ Timed(T) /\ Tidy(t, sh, now) /\ IsFiniteSet(UsageOf(t)) /\ Told(T, UsageOf(t), t, ov, sh, now)
      /\ Numbered(UsageOf(t)) /\ Matched(UsageOf(t)) /\ Running(T, t, ov, vis, sh, now)
    BY DEF Tells
<1>2. /\ now \in Nat /\ now + 1 \in Nat /\ t.page \in Nat /\ t.page \in DOMAIN sh /\ sh[t.page] \in Nat
      /\ t.since # None => t.since \in Nat /\ t.since <= now
      /\ \A p \in DOMAIN sh : p \in Nat /\ sh[p] \in Nat /\ (p > t.page => sh[p] = 0)
    BY <1>1 DEF Tidy
<1>3. CASE ~(vis /\ ~ov)
    <2>1. s = sh
        BY <1>3
    <2>2. Tidy(t, s, now + 1)
        BY <1>1, <1>2, <2>1 DEF Tidy
    <2>3. Told(T, UsageOf(t), t, ov, s, now + 1)
        BY <1>1, <1>2, <2>1 DEF Told
    <2>4. Running(T, t, ov, vis, s, now + 1)
        BY <1>1, <1>3, <2>1 DEF Running
    <2> QED BY <1>1, <2>2, <2>3, <2>4 DEF Tells
<1>4. CASE vis /\ ~ov
    <2>1. /\ DOMAIN s = DOMAIN sh /\ s[t.page] = sh[t.page] + 1
          /\ \A p \in DOMAIN sh : p # t.page => s[p] = sh[p]
          /\ \A p : p # t.page => s[p] = sh[p]
        BY <1>2, <1>4
    <2>2. Tidy(t, s, now + 1)
        <3>1. ASSUME NEW p \in DOMAIN s PROVE p \in Nat /\ s[p] \in Nat /\ (p > t.page => s[p] = 0)
            BY <1>2, <2>1
        <3>2. t.since # None => t.since \in Nat /\ t.since <= now + 1
            BY <1>2
        <3> QED BY <1>1, <1>2, <2>1, <3>1, <3>2 DEF Tidy
    <2>3. Told(T, UsageOf(t), t, ov, s, now + 1)
        <3> SUFFICES ASSUME NEW e \in UsageOf(t) PROVE Told(T, {e}, t, ov, s, now + 1)
            BY DEF Told
        <3>1. Told(T, {e}, t, ov, sh, now)
            BY <1>1 DEF Told
        <3>2. e.at \in Nat /\ e.at <= now + 1
            BY <1>2, <3>1 DEF Told
        <3>3. e.event = "page_leave" /\ e.payload.closed => s[e.page] = sh[e.page]
            BY <1>4, <2>1, <3>1 DEF Told
        <3> QED BY <3>1, <3>2, <3>3 DEF Told
    <2>4. Running(T, t, ov, vis, s, now + 1)
        <3>1. CASE t.closed
            BY <3>1 DEF Running
        <3>2. CASE ~t.closed
            <4>1. t.since # None /\ T[t.page][t.sequence] + (now - t.since) = sh[t.page]
                BY <1>1, <1>4, <3>2 DEF Running
            <4>2. T[t.page][t.sequence] \in Nat /\ t.since \in Nat
                <5>1. T[t.page] \in [Nat -> Nat] /\ t.sequence \in Nat
                    BY <1>1, <1>2 DEF Timed, Tidy
                <5> QED BY <1>2, <4>1, <5>1
            <4>3. T[t.page][t.sequence] + ((now + 1) - t.since) = s[t.page]
                BY <1>2, <2>1, <4>1, <4>2
            <4>4. t.since # None <=> vis
                BY <1>4, <4>1
            <4>5. T[t.page][t.sequence] + (IF t.since = None THEN 0 ELSE (now + 1) - t.since) = s[t.page]
                BY <4>1, <4>3
            <4> QED BY <4>4, <4>5, Zenon DEF Running
        <3> QED BY <3>1, <3>2
    <2> QED BY <1>1, <2>2, <2>3, <2>4 DEF Tells
<1> QED BY <1>3, <1>4

\* A page view ends, over or not.
LEMMA EndTells ==
    ASSUME NEW T, NEW t, NEW vis, NEW sh, Tells(T, t, FALSE, vis, sh, now), vis \in BOOLEAN, ~t.destroyed,
           NEW u, Ends(t, u), NEW ov, ov \in BOOLEAN, hook = "accepts" => ov
    PROVE  Reached(t, u, ov, vis, sh) /\ u.page = t.page
<1>1. CASE Settled(t, u, TRUE)
    <2>1. u.page = t.page
        BY <1>1 DEF Settled, Quiet
    <2>2. MaySettle(TRUE, FALSE, ov, vis, vis)
        BY DEF MaySettle
    <2>3. Reached(t, u, ov, vis, sh)
        BY <1>1, <2>2, SettleTells
    <2> QED BY <2>1, <2>3
<1>2. CASE hook = "throws" /\ Quiet(t, u)
    <2>1. u.page = t.page
        BY <1>2 DEF Quiet
    <2>2. Tells(T, u, ov, vis, sh, now)
        BY <1>2, QuietTells
    <2> QED BY <1>2, <2>1, <2>2 DEF Reached
<1> QED BY <1>1, <1>2 DEF Ends

\* What a step does to the page view.
Over == parked \/ tab.destroyed
Goes == UNCHANGED <<now, visible, parked, shown>> /\ Quiet(tab, tab')
Ticks ==
    /\ UNCHANGED <<visible, parked, tab>> /\ now' = now + 1
    /\ shown' = IF visible /\ ~Over THEN [shown EXCEPT ![tab.page] = @ + 1] ELSE shown
Turns ==
    /\ UNCHANGED <<now, parked, shown>> /\ visible' = ~visible
    /\ \/ tab.destroyed /\ tab' = tab
       \/ ~tab.destroyed /\ ~visible /\ tab' = [tab EXCEPT !.since = now]
       \/ ~tab.destroyed /\ visible /\ Settled(tab, tab', FALSE)
Hides == UNCHANGED <<now, visible, shown>> /\ parked' = TRUE /\ ~Over /\ Ends(tab, tab')
Stops ==
    /\ UNCHANGED <<now, visible, parked, shown>> /\ ~Over
    /\ \E e, d : Ends(tab, e) /\ d \in BOOLEAN /\ (hook = "accepts" => d) /\ tab' = [e EXCEPT !.destroyed = d]
Fails == UNCHANGED <<now, visible, parked, shown>> /\ ~Over /\ hook # "accepts" /\ Ends(tab, tab')
Follows ==
    /\ UNCHANGED <<now, visible, parked, shown>> /\ ~Over /\ tab.page + 1 \in DOMAIN shown
    /\ \E e : Ends(tab, e) /\ Begins(e, tab')
Returns ==
    /\ UNCHANGED <<now, visible, shown>> /\ parked' = FALSE /\ tab.page + 1 \in DOMAIN shown
    /\ Begins(tab, tab')
UsageStep == Goes \/ Ticks \/ Turns \/ Hides \/ Stops \/ Fails \/ Follows \/ Returns

Tells0(T) == Tells(T, tab, Over, visible, shown, now)
Tells1(T) == Tells(T, tab', parked' \/ tab'.destroyed, visible', shown', now')
Flags == visible \in BOOLEAN /\ parked \in BOOLEAN

LEMMA OverIs ==
    ASSUME NEW T, Tells0(T), Flags
    PROVE  Over \in BOOLEAN /\ tab.destroyed \in BOOLEAN /\ Shaped(tab) /\ now \in Nat /\ tab.page \in Nat
<1>1. tab.destroyed \in BOOLEAN /\ Shaped(tab) /\ now \in Nat /\ tab.page \in Nat
    BY DEF Tells0, Tells, Tidy
<1>2. Over \in BOOLEAN
    BY DEF Over
<1> QED BY <1>1, <1>2

LEMMA UsageKeeps ==
    ASSUME NEW T, Tells0(T), Flags, UsageStep
    PROVE  /\ \E S : Tells1(S)
           /\ visible' \in BOOLEAN /\ parked' \in BOOLEAN /\ DOMAIN shown' = DOMAIN shown
           /\ hook = "accepts" /\ Gapless(UsageOf(tab), tab) => Gapless(UsageOf(tab'), tab')
<1>0. Over \in BOOLEAN /\ tab.destroyed \in BOOLEAN /\ visible \in BOOLEAN /\ parked \in BOOLEAN
    BY OverIs DEF Flags
<1>1. CASE Goes
    <2>1. tab'.destroyed = tab.destroyed
        BY <1>1 DEF Goes, Quiet
    <2>2. Tells(T, tab', Over, visible, shown, now) /\ (Gapless(UsageOf(tab), tab) => Gapless(UsageOf(tab'), tab'))
        BY <1>1, QuietTells DEF Goes, Tells0
    <2>3. Tells1(T)
        BY <1>1, <2>1, <2>2 DEF Goes, Tells1, Over
    <2> QED BY <1>0, <1>1, <2>2, <2>3 DEF Goes
<1>2. CASE Ticks
    <2>1. Tells(T, tab, Over, visible, shown', now + 1)
        BY <1>0, <1>2, TickTells DEF Ticks, Tells0
    <2>2. Tells1(T)
        BY <1>2, <2>1 DEF Ticks, Tells1, Over
    <2>3. DOMAIN shown' = DOMAIN shown
        BY <1>2 DEF Ticks
    <2> QED BY <1>0, <1>2, <2>2, <2>3 DEF Ticks
<1>3. CASE Turns
    <2>0. visible' \in BOOLEAN /\ parked' = parked /\ shown' = shown /\ now' = now /\ visible' = ~visible
        BY <1>3 DEF Turns
    <2>1. CASE tab.destroyed /\ tab' = tab
        <3>1. Over /\ Quiet(tab, tab) /\ Tells(T, tab, Over, visible, shown, now)
            BY <2>1, OverIs, QuietSame DEF Over, Tells0
        <3>2. Tells(T, tab, Over, visible', shown, now)
            BY <3>1, QuietTells
        <3>3. Tells1(T)
            BY <2>0, <2>1, <3>2 DEF Tells1, Over
        <3> QED BY <1>0, <2>0, <2>1, <3>3
    <2>2. CASE ~tab.destroyed /\ ~visible /\ tab' = [tab EXCEPT !.since = now]
        <3>0. visible = FALSE /\ visible' = TRUE
            BY <1>0, <2>0, <2>2
        <3>1. /\ Tells(T, tab', Over, TRUE, shown, now)
              /\ Gapless(UsageOf(tab), tab) => Gapless(UsageOf(tab'), tab')
            BY <1>0, <2>2, <3>0, ShowTells DEF Tells0
        <3>2. tab'.destroyed = tab.destroyed
            BY <2>2, OverIs DEF Shaped
        <3>3. Tells1(T)
            BY <2>0, <3>0, <3>1, <3>2 DEF Tells1, Over
        <3> QED BY <1>0, <2>0, <3>1, <3>3
    <2>3. CASE ~tab.destroyed /\ visible /\ Settled(tab, tab', FALSE)
        <3>0. FALSE \in BOOLEAN /\ ~visible' /\ Tells(T, tab, Over, visible, shown, now)
            BY <2>0, <2>3 DEF Tells0
        <3>1. Reached(tab, tab', Over, visible', shown)
            <4>1. MaySettle(FALSE, Over, Over, visible, visible')
                BY <1>0, <2>0, <3>0 DEF MaySettle
            <4> QED BY <2>3, <3>0, <4>1, SettleTells
        <3>2. tab'.destroyed = tab.destroyed
            BY <2>3 DEF Settled, Quiet
        <3>3. \A S : Tells(S, tab', Over, visible', shown, now) => Tells1(S)
            BY <2>0, <3>2 DEF Tells1, Over
        <3> QED BY <1>0, <2>0, <3>1, <3>3 DEF Reached
    <2> QED BY <1>3, <2>1, <2>2, <2>3 DEF Turns
<1>4. ASSUME ~Over
      PROVE  ~tab.destroyed /\ ~parked /\ Tells(T, tab, FALSE, visible, shown, now)
    <2>1. Over = FALSE /\ ~tab.destroyed /\ ~parked
        BY <1>0, <1>4 DEF Over
    <2> QED BY <2>1 DEF Tells0
<1>5. CASE Hides
    <2>1. Reached(tab, tab', TRUE, visible, shown)
        <3>1. ~Over /\ Ends(tab, tab') /\ TRUE \in BOOLEAN
            BY <1>5 DEF Hides
        <3> QED BY <1>0, <1>4, <3>1, EndTells
    <2>2. \A S : Tells(S, tab', TRUE, visible, shown, now) => Tells1(S)
        BY <1>5 DEF Hides, Tells1
    <2> QED BY <1>0, <1>5, <2>1, <2>2 DEF Hides, Reached
<1>6. CASE Stops
    <2>1. PICK e, d : Ends(tab, e) /\ d \in BOOLEAN /\ (hook = "accepts" => d) /\ tab' = [e EXCEPT !.destroyed = d]
        BY <1>6 DEF Stops
    <2>2. /\ ~Over /\ parked' = parked /\ visible' = visible /\ shown' = shown /\ now' = now
        BY <1>6 DEF Stops
    <2>0. Reached(tab, e, d, visible, shown)
        <3>1. /\ Ends(tab, e) /\ d \in BOOLEAN /\ (hook = "accepts" => d)
              /\ ~tab.destroyed /\ Tells(T, tab, FALSE, visible, shown, now) /\ visible \in BOOLEAN
            BY <1>0, <1>4, <2>1, <2>2
        <3> QED BY <3>1, EndTells
    <2>3. PICK S : Tells(S, e, d, visible, shown, now)
        BY <2>0 DEF Reached
    <2>4. hook = "accepts" /\ Gapless(UsageOf(tab), tab) => Gapless(UsageOf(e), e)
        BY <2>0 DEF Reached
    <2>5. Tells(S, tab', d, visible, shown, now) /\ (Gapless(UsageOf(e), e) => Gapless(UsageOf(tab'), tab'))
        BY <2>1, <2>3, DestroyTells
    <2>6. tab'.destroyed = d
        BY <2>1, <2>3 DEF Tells, Tidy, Shaped
    <2>7. Tells1(S)
        <3>1. (parked' \/ tab'.destroyed) = d
            BY <1>4, <2>1, <2>2, <2>6
        <3> QED BY <2>2, <2>5, <3>1 DEF Tells1
    <2> QED BY <1>0, <2>2, <2>4, <2>5, <2>7
<1>7. CASE Fails
    <2>1. /\ ~Over /\ parked' = parked /\ visible' = visible /\ shown' = shown /\ now' = now
          /\ hook # "accepts" /\ Ends(tab, tab')
        BY <1>7 DEF Fails
    <2>0. Reached(tab, tab', FALSE, visible, shown)
        BY <1>0, <1>4, <2>1, EndTells
    <2>2. PICK S : Tells(S, tab', FALSE, visible, shown, now)
        BY <2>0 DEF Reached
    <2>3. tab'.destroyed = tab.destroyed
        BY <2>1 DEF Ends, Settled, Quiet
    <2>4. Tells1(S)
        BY <1>4, <2>1, <2>2, <2>3 DEF Tells1
    <2> QED BY <1>0, <2>1, <2>4
<1>8. CASE Follows
    <2>1. /\ ~Over /\ parked' = parked /\ visible' = visible /\ shown' = shown /\ now' = now
          /\ tab.page + 1 \in DOMAIN shown
        BY <1>8 DEF Follows
    <2>2. PICK e : Ends(tab, e) /\ Begins(e, tab')
        BY <1>8 DEF Follows
    <2>0. Reached(tab, e, TRUE, visible, shown) /\ e.page = tab.page
        BY <1>0, <1>4, <2>1, <2>2, EndTells
    <2>3. PICK S : Tells(S, e, TRUE, visible, shown, now)
        BY <2>0 DEF Reached
    <2>4. (hook = "accepts" /\ Gapless(UsageOf(tab), tab) => Gapless(UsageOf(e), e)) /\ e.page = tab.page
        BY <2>0 DEF Reached
    <2>5. tab'.destroyed \in BOOLEAN
        BY <2>2 DEF Begins, Begun
    <2>6. PICK ov : ov = (parked' \/ tab'.destroyed) /\ ov \in BOOLEAN
        BY <1>0, <2>1, <2>5
    <2>7. Tells(S, tab', ov, visible, shown, now) /\ (Gapless(UsageOf(e), e) => Gapless(UsageOf(tab'), tab'))
        BY <1>0, <2>1, <2>2, <2>3, <2>4, <2>6, BeginTells
    <2>8. Tells1(S)
        BY <2>1, <2>6, <2>7 DEF Tells1
    <2> QED BY <1>0, <2>1, <2>4, <2>7, <2>8
<1>9. CASE Returns
    <2>1. /\ parked' = FALSE /\ visible' = visible /\ shown' = shown /\ now' = now
          /\ tab.page + 1 \in DOMAIN shown /\ Begins(tab, tab')
        BY <1>9 DEF Returns
    <2>2. tab'.destroyed \in BOOLEAN
        BY <2>1 DEF Begins, Begun
    <2>3. PICK ov : ov = (parked' \/ tab'.destroyed) /\ ov \in BOOLEAN
        BY <1>0, <2>1, <2>2
    <2>4. Tells(T, tab', ov, visible, shown, now) /\ (Gapless(UsageOf(tab), tab) => Gapless(UsageOf(tab'), tab'))
        BY <1>0, <2>1, <2>3, BeginTells DEF Tells0
    <2>5. Tells1(T)
        BY <2>1, <2>3, <2>4 DEF Tells1
    <2> QED BY <1>0, <2>1, <2>4, <2>5
<1> QED BY <1>1, <1>2, <1>3, <1>5, <1>6, <1>7, <1>8, <1>9 DEF UsageStep

\* The steps of the part "hooked" are such steps.
LEMMA HookedConstructed ==
    ASSUME NEW old, NEW route, NEW stored
    PROVE  Begins(old, Hooked!Constructed(old, route, stored))
<1>1. PICK session : session = IF stored /\ now - old.activity < Hooking.timeout THEN old.session ELSE old.session + 1
    OBVIOUS
<1>2. PICK gone : gone \in BOOLEAN /\ gone = Hooked!Throws
    BY DEF Hooked!Throws
<1>3. PICK since : since = IF visible THEN now ELSE None
    OBVIOUS
<1>4. PICK q : q = [session |-> session, activity |-> now, page |-> old.page + 1, route |-> route,
                    user |-> None, since |-> since, sequence |-> 0, closed |-> FALSE, form |-> None,
                    view |-> FALSE, operation |-> None, destroyed |-> gone, sent |-> old.sent]
    OBVIOUS
<1>5. Hooked!Constructed(old, route, stored) = Hooked!EmitPageView(q)
    BY <1>1, <1>2, <1>3, <1>4 DEF Hooked!Constructed, Hooked!Since
<1>6. Shaped(q) /\ q.sent = old.sent /\ q.page = old.page + 1 /\ q.since = since /\ q.destroyed = gone
    BY <1>4 DEF Shaped
<1>7. Begun(q, Hooked!EmitPageView(q))
    BY <1>6, PageViewIs
<1>8. UsageKept(old, q)
    BY <1>6 DEF UsageKept, UsageOf
<1> QED BY <1>2, <1>3, <1>5, <1>6, <1>7, <1>8 DEF Begins

LEMMA HookedSteps ==
    ASSUME Shaped(tab), tab.page \in Nat, tab.destroyed \in BOOLEAN, visible \in BOOLEAN, parked \in BOOLEAN,
           DOMAIN shown = 1 .. Hooking.pages, Hooked!Next
    PROVE  UsageStep
<1>0. Hooking.pages \in Nat /\ (tab.page < Hooking.pages => tab.page + 1 \in DOMAIN shown)
    BY BrowserAssumption
<1>1. ASSUME Hooked!Live PROVE ~Over
    BY <1>1 DEF Hooked!Live, Over
<1>2. ASSUME UNCHANGED <<now, visible, parked, shown>>, Quiet(tab, tab') PROVE UsageStep
    BY <1>2 DEF UsageStep, Goes
<1>3. CASE Hooked!Load
    <2>1. PICK r, stored : tab' = Hooked!Constructed(tab, r, stored)
        BY <1>3 DEF Hooked!Load
    <2>2. Begins(tab, tab')
        BY <2>1, HookedConstructed
    <2>3. Returns
        BY <1>0, <1>3, <2>2 DEF Hooked!Load, Returns
    <2> QED BY <2>3 DEF UsageStep
<1>4. CASE Hooked!HandlePageRouteChange
    <2>1. PICK ended : ended = Hooked!EndPage(tab) /\ Ends(tab, ended)
        BY EndIs
    <2>2. PICK r : tab' = IF Hooked!EndPageThrows(tab) THEN ended
                          ELSE Hooked!EmitPageView([ended EXCEPT !.route = r, !.page = @ + 1, !.since = Hooked!Since])
        BY <1>4, <2>1 DEF Hooked!HandlePageRouteChange
    <2>3. /\ UNCHANGED <<now, visible, parked, shown>> /\ ~Over /\ tab.page + 1 \in DOMAIN shown
        BY <1>0, <1>1, <1>4 DEF Hooked!HandlePageRouteChange
    <2>4. CASE Hooked!EndPageThrows(tab)
        <3>1. hook # "accepts"
            BY <2>4 DEF Hooked!EndPageThrows, Hooked!Throws
        <3> QED BY <2>1, <2>2, <2>3, <2>4, <3>1 DEF UsageStep, Fails
    <2>5. CASE ~Hooked!EndPageThrows(tab)
        <3>1. PICK q : q = [ended EXCEPT !.route = r, !.page = @ + 1, !.since = Hooked!Since]
            OBVIOUS
        <3>2. Shaped(ended) /\ ended.destroyed = tab.destroyed
            BY <2>1 DEF Ends, Settled, Quiet
        <3>3. /\ Shaped(q) /\ q.sent = ended.sent /\ q.page = ended.page + 1 /\ q.destroyed = tab.destroyed
              /\ q.since = (IF visible THEN now ELSE None)
            BY <3>1, <3>2 DEF Shaped, Hooked!Since
        <3>4. Begun(q, tab')
            BY <2>2, <2>5, <3>1, <3>3, PageViewIs
        <3>5. UsageKept(ended, q)
            BY <3>3 DEF UsageKept, UsageOf
        <3>6. Begins(ended, tab')
            BY <3>3, <3>4, <3>5 DEF Begins
        <3> QED BY <2>1, <2>3, <3>6 DEF UsageStep, Follows
    <2> QED BY <2>4, <2>5
<1>5. CASE Hooked!HandleVisibilityChange
    <2>1. /\ UNCHANGED <<now, parked, shown>> /\ visible' = ~visible
          /\ tab' = IF tab.destroyed THEN tab ELSE IF ~visible THEN [tab EXCEPT !.since = now]
                    ELSE Hooked!SettleVisiblePage(tab, FALSE)
        BY <1>5 DEF Hooked!HandleVisibilityChange
    <2>2. Settled(tab, Hooked!SettleVisiblePage(tab, FALSE), FALSE)
        BY PutAlike, SettlesIs
    <2>3. Turns
        BY <2>1, <2>2 DEF Turns
    <2> QED BY <2>3 DEF UsageStep
<1>6. CASE Hooked!HandlePageHide
    <2>1. Ends(tab, tab')
        BY <1>6, EndIs DEF Hooked!HandlePageHide
    <2> QED BY <1>1, <1>6, <2>1 DEF Hooked!HandlePageHide, Hides, UsageStep
<1>7. CASE Hooked!HandlePageShow
    <2>1. PICK q : q = [tab EXCEPT !.page = @ + 1, !.since = Hooked!Since] /\ tab' = Hooked!EmitPageView(q)
        BY <1>7 DEF Hooked!HandlePageShow
    <2>2. /\ Shaped(q) /\ q.sent = tab.sent /\ q.page = tab.page + 1 /\ q.destroyed = tab.destroyed
          /\ q.since = (IF visible THEN now ELSE None)
        BY <2>1 DEF Shaped, Hooked!Since
    <2>3. Begun(q, tab') /\ UsageKept(tab, q)
        BY <2>1, <2>2, PageViewIs DEF UsageKept, UsageOf
    <2>4. Begins(tab, tab')
        BY <2>2, <2>3 DEF Begins
    <2>5. Returns
        BY <1>0, <1>7, <2>4 DEF Hooked!HandlePageShow, Returns
    <2> QED BY <2>5 DEF UsageStep
<1>8. CASE Hooked!Destroy
    <2>1. PICK e : e = Hooked!EndPage(tab) /\ Ends(tab, e)
        BY EndIs
    <2>2. PICK d : d \in BOOLEAN /\ d = ~Hooked!EndPageThrows(tab)
        BY DEF Hooked!EndPageThrows
    <2>3. tab' = [e EXCEPT !.destroyed = d] /\ UNCHANGED <<now, visible, parked, shown>> /\ ~Over
        BY <1>1, <1>8, <2>1, <2>2 DEF Hooked!Destroy
    <2>4. hook = "accepts" => d
        BY <2>2 DEF Hooked!EndPageThrows, Hooked!Throws
    <2>5. Stops
        BY <2>1, <2>2, <2>3, <2>4 DEF Stops
    <2> QED BY <2>5 DEF UsageStep
<1>9. CASE Hooked!Track
    BY <1>2, <1>9, TouchQuiet DEF Hooked!Track
<1>10. CASE Hooked!SetUser
    <2>1. PICK s : s = Hooked!SettleForms(tab) /\ Quiet(tab, s)
        BY FormsQuiet
    <2>2. PICK u, safe : tab' = [s EXCEPT !.user = IF safe \/ u = None THEN u ELSE @]
        BY <1>10, <2>1 DEF Hooked!SetUser
    <2>3. PICK user : tab' = [s EXCEPT !.user = user]
        BY <2>2
    <2>4. Quiet(tab, tab')
        BY <2>1, <2>3 DEF Quiet, Shaped, UsageKept, UsageOf
    <2> QED BY <1>2, <1>10, <2>4 DEF Hooked!SetUser
<1>11. CASE Hooked!TrackForm
    <2>1. Quiet(tab, tab')
        BY <1>11 DEF Hooked!TrackForm, Quiet, Shaped, UsageKept, UsageOf
    <2> QED BY <1>2, <1>11, <2>1 DEF Hooked!TrackForm
<1>12. CASE Hooked!DestroyForm
    BY <1>2, <1>12, FormsQuiet DEF Hooked!DestroyForm
<1>13. CASE Hooked!StartLongView
    <2>1. PICK s : s = Hooked!Touch(tab) /\ Quiet(tab, s)
        BY TouchQuiet
    <2>2. PICK view : tab' = [s EXCEPT !.view = view]
        BY <1>13, <2>1 DEF Hooked!StartLongView
    <2>3. Quiet(tab, tab')
        BY <2>1, <2>2 DEF Quiet, Shaped, UsageKept, UsageOf
    <2> QED BY <1>2, <1>13, <2>3 DEF Hooked!StartLongView
<1>14. CASE Hooked!StopLongView
    BY <1>2, <1>14, ViewsQuiet DEF Hooked!StopLongView
<1>15. CASE Hooked!StartBusiness
    <2>1. PICK s : s = Hooked!Touch(tab) /\ Quiet(tab, s)
        BY TouchQuiet
    <2>2. PICK operation : tab' = [s EXCEPT !.operation = operation]
        BY <1>15, <2>1 DEF Hooked!StartBusiness
    <2>3. Quiet(tab, tab')
        BY <2>1, <2>2 DEF Quiet, Shaped, UsageKept, UsageOf
    <2> QED BY <1>2, <1>15, <2>3 DEF Hooked!StartBusiness
<1>16. CASE Hooked!EndBusiness
    <2>1. PICK done : done = [tab EXCEPT !.operation = None]
        OBVIOUS
    <2>2. Quiet(tab, done) /\ Shaped(done)
        BY <2>1 DEF Quiet, Shaped, UsageKept, UsageOf
    <2>3. PICK payload : payload = [started |-> tab.operation]
        OBVIOUS
    <2>4. Quiet(done, Hooked!Emit(done, "feature_ended", payload))
        BY <2>2, EmitQuiet
    <2>5. tab' = done \/ tab' = Hooked!Emit(done, "feature_ended", payload)
        BY <1>16, <2>1, <2>3 DEF Hooked!EndBusiness
    <2>6. Quiet(tab, tab')
        BY <2>2, <2>4, <2>5, QuietAgain
    <2> QED BY <1>2, <1>16, <2>6 DEF Hooked!EndBusiness
<1>17. CASE Hooked!Tick
    <2>1. Ticks
        BY <1>17 DEF Hooked!Tick, Ticks, Over
    <2> QED BY <2>1 DEF UsageStep
<1>18. CASE Hooked!HookChanges
    <2>1. Quiet(tab, tab')
        BY <1>18, QuietSame DEF Hooked!HookChanges
    <2> QED BY <1>2, <1>18, <2>1 DEF Hooked!HookChanges
<1> QED BY <1>3, <1>4, <1>5, <1>6, <1>7, <1>8, <1>9, <1>10, <1>11, <1>12, <1>13, <1>14, <1>15, <1>16, <1>17, <1>18
        DEF Hooked!Next

\* The steps of the part "forms" are such steps.
LEMMA FormsConstructed ==
    ASSUME NEW old, NEW route, NEW stored
    PROVE  Begins(old, Forms!Constructed(old, route, stored))
<1>1. PICK session : session = IF stored /\ now - old.activity < Forming.timeout THEN old.session ELSE old.session + 1
    OBVIOUS
<1>2. PICK gone : gone \in BOOLEAN /\ gone = Forms!Throws
    BY DEF Forms!Throws
<1>3. PICK since : since = IF visible THEN now ELSE None
    OBVIOUS
<1>4. PICK q : q = [session |-> session, activity |-> now, page |-> old.page + 1, route |-> route,
                    user |-> None, since |-> since, sequence |-> 0, closed |-> FALSE, form |-> None,
                    view |-> FALSE, operation |-> None, destroyed |-> gone, sent |-> old.sent]
    OBVIOUS
<1>5. Forms!Constructed(old, route, stored) = Forms!EmitPageView(q)
    BY <1>1, <1>2, <1>3, <1>4 DEF Forms!Constructed, Forms!Since
<1>6. Shaped(q) /\ q.sent = old.sent /\ q.page = old.page + 1 /\ q.since = since /\ q.destroyed = gone
    BY <1>4 DEF Shaped
<1>7. Begun(q, Forms!EmitPageView(q))
    BY <1>6, PageViewIs
<1>8. UsageKept(old, q)
    BY <1>6 DEF UsageKept, UsageOf
<1> QED BY <1>2, <1>3, <1>5, <1>6, <1>7, <1>8 DEF Begins

LEMMA FormsSteps ==
    ASSUME Shaped(tab), tab.page \in Nat, tab.destroyed \in BOOLEAN, visible \in BOOLEAN, parked \in BOOLEAN,
           DOMAIN shown = 1 .. Forming.pages, Forms!Next
    PROVE  UsageStep
<1>0. Forming.pages \in Nat /\ (tab.page < Forming.pages => tab.page + 1 \in DOMAIN shown)
    BY BrowserAssumption
<1>1. ASSUME Forms!Live PROVE ~Over
    BY <1>1 DEF Forms!Live, Over
<1>2. ASSUME UNCHANGED <<now, visible, parked, shown>>, Quiet(tab, tab') PROVE UsageStep
    BY <1>2 DEF UsageStep, Goes
<1>3. CASE Forms!Load
    <2>1. PICK r, stored : tab' = Forms!Constructed(tab, r, stored)
        BY <1>3 DEF Forms!Load
    <2>2. Begins(tab, tab')
        BY <2>1, FormsConstructed
    <2>3. Returns
        BY <1>0, <1>3, <2>2 DEF Forms!Load, Returns
    <2> QED BY <2>3 DEF UsageStep
<1>4. CASE Forms!HandlePageRouteChange
    <2>1. PICK ended : ended = Forms!EndPage(tab) /\ Ends(tab, ended)
        BY EndIs
    <2>2. PICK r : tab' = IF Forms!EndPageThrows(tab) THEN ended
                          ELSE Forms!EmitPageView([ended EXCEPT !.route = r, !.page = @ + 1, !.since = Forms!Since])
        BY <1>4, <2>1 DEF Forms!HandlePageRouteChange
    <2>3. /\ UNCHANGED <<now, visible, parked, shown>> /\ ~Over /\ tab.page + 1 \in DOMAIN shown
        BY <1>0, <1>1, <1>4 DEF Forms!HandlePageRouteChange
    <2>4. CASE Forms!EndPageThrows(tab)
        <3>1. hook # "accepts"
            BY <2>4 DEF Forms!EndPageThrows, Forms!Throws
        <3> QED BY <2>1, <2>2, <2>3, <2>4, <3>1 DEF UsageStep, Fails
    <2>5. CASE ~Forms!EndPageThrows(tab)
        <3>1. PICK q : q = [ended EXCEPT !.route = r, !.page = @ + 1, !.since = Forms!Since]
            OBVIOUS
        <3>2. Shaped(ended) /\ ended.destroyed = tab.destroyed
            BY <2>1 DEF Ends, Settled, Quiet
        <3>3. /\ Shaped(q) /\ q.sent = ended.sent /\ q.page = ended.page + 1 /\ q.destroyed = tab.destroyed
              /\ q.since = (IF visible THEN now ELSE None)
            BY <3>1, <3>2 DEF Shaped, Forms!Since
        <3>4. Begun(q, tab')
            BY <2>2, <2>5, <3>1, <3>3, PageViewIs
        <3>5. UsageKept(ended, q)
            BY <3>3 DEF UsageKept, UsageOf
        <3>6. Begins(ended, tab')
            BY <3>3, <3>4, <3>5 DEF Begins
        <3> QED BY <2>1, <2>3, <3>6 DEF UsageStep, Follows
    <2> QED BY <2>4, <2>5
<1>5. CASE Forms!HandleVisibilityChange
    <2>1. /\ UNCHANGED <<now, parked, shown>> /\ visible' = ~visible
          /\ tab' = IF tab.destroyed THEN tab ELSE IF ~visible THEN [tab EXCEPT !.since = now]
                    ELSE Forms!SettleVisiblePage(tab, FALSE)
        BY <1>5 DEF Forms!HandleVisibilityChange
    <2>2. Settled(tab, Forms!SettleVisiblePage(tab, FALSE), FALSE)
        BY PutAlike, SettlesIs
    <2>3. Turns
        BY <2>1, <2>2 DEF Turns
    <2> QED BY <2>3 DEF UsageStep
<1>6. CASE Forms!HandlePageHide
    <2>1. Ends(tab, tab')
        BY <1>6, EndIs DEF Forms!HandlePageHide
    <2> QED BY <1>1, <1>6, <2>1 DEF Forms!HandlePageHide, Hides, UsageStep
<1>7. CASE Forms!HandlePageShow
    <2>1. PICK q : q = [tab EXCEPT !.page = @ + 1, !.since = Forms!Since] /\ tab' = Forms!EmitPageView(q)
        BY <1>7 DEF Forms!HandlePageShow
    <2>2. /\ Shaped(q) /\ q.sent = tab.sent /\ q.page = tab.page + 1 /\ q.destroyed = tab.destroyed
          /\ q.since = (IF visible THEN now ELSE None)
        BY <2>1 DEF Shaped, Forms!Since
    <2>3. Begun(q, tab') /\ UsageKept(tab, q)
        BY <2>1, <2>2, PageViewIs DEF UsageKept, UsageOf
    <2>4. Begins(tab, tab')
        BY <2>2, <2>3 DEF Begins
    <2>5. Returns
        BY <1>0, <1>7, <2>4 DEF Forms!HandlePageShow, Returns
    <2> QED BY <2>5 DEF UsageStep
<1>8. CASE Forms!Destroy
    <2>1. PICK e : e = Forms!EndPage(tab) /\ Ends(tab, e)
        BY EndIs
    <2>2. PICK d : d \in BOOLEAN /\ d = ~Forms!EndPageThrows(tab)
        BY DEF Forms!EndPageThrows
    <2>3. tab' = [e EXCEPT !.destroyed = d] /\ UNCHANGED <<now, visible, parked, shown>> /\ ~Over
        BY <1>1, <1>8, <2>1, <2>2 DEF Forms!Destroy
    <2>4. hook = "accepts" => d
        BY <2>2 DEF Forms!EndPageThrows, Forms!Throws
    <2>5. Stops
        BY <2>1, <2>2, <2>3, <2>4 DEF Stops
    <2> QED BY <2>5 DEF UsageStep
<1>9. CASE Forms!Track
    BY <1>2, <1>9, TouchQuiet DEF Forms!Track
<1>10. CASE Forms!SetUser
    <2>1. PICK s : s = Forms!SettleForms(tab) /\ Quiet(tab, s)
        BY FormsQuiet
    <2>2. PICK u, safe : tab' = [s EXCEPT !.user = IF safe \/ u = None THEN u ELSE @]
        BY <1>10, <2>1 DEF Forms!SetUser
    <2>3. PICK user : tab' = [s EXCEPT !.user = user]
        BY <2>2
    <2>4. Quiet(tab, tab')
        BY <2>1, <2>3 DEF Quiet, Shaped, UsageKept, UsageOf
    <2> QED BY <1>2, <1>10, <2>4 DEF Forms!SetUser
<1>11. CASE Forms!TrackForm
    <2>1. Quiet(tab, tab')
        BY <1>11 DEF Forms!TrackForm, Quiet, Shaped, UsageKept, UsageOf
    <2> QED BY <1>2, <1>11, <2>1 DEF Forms!TrackForm
<1>12. CASE Forms!DestroyForm
    BY <1>2, <1>12, FormsQuiet DEF Forms!DestroyForm
<1>13. CASE Forms!StartLongView
    <2>1. PICK s : s = Forms!Touch(tab) /\ Quiet(tab, s)
        BY TouchQuiet
    <2>2. PICK view : tab' = [s EXCEPT !.view = view]
        BY <1>13, <2>1 DEF Forms!StartLongView
    <2>3. Quiet(tab, tab')
        BY <2>1, <2>2 DEF Quiet, Shaped, UsageKept, UsageOf
    <2> QED BY <1>2, <1>13, <2>3 DEF Forms!StartLongView
<1>14. CASE Forms!StopLongView
    BY <1>2, <1>14, ViewsQuiet DEF Forms!StopLongView
<1>15. CASE Forms!StartBusiness
    <2>1. PICK s : s = Forms!Touch(tab) /\ Quiet(tab, s)
        BY TouchQuiet
    <2>2. PICK operation : tab' = [s EXCEPT !.operation = operation]
        BY <1>15, <2>1 DEF Forms!StartBusiness
    <2>3. Quiet(tab, tab')
        BY <2>1, <2>2 DEF Quiet, Shaped, UsageKept, UsageOf
    <2> QED BY <1>2, <1>15, <2>3 DEF Forms!StartBusiness
<1>16. CASE Forms!EndBusiness
    <2>1. PICK done : done = [tab EXCEPT !.operation = None]
        OBVIOUS
    <2>2. Quiet(tab, done) /\ Shaped(done)
        BY <2>1 DEF Quiet, Shaped, UsageKept, UsageOf
    <2>3. PICK payload : payload = [started |-> tab.operation]
        OBVIOUS
    <2>4. Quiet(done, Forms!Emit(done, "feature_ended", payload))
        BY <2>2, EmitQuiet
    <2>5. tab' = done \/ tab' = Forms!Emit(done, "feature_ended", payload)
        BY <1>16, <2>1, <2>3 DEF Forms!EndBusiness
    <2>6. Quiet(tab, tab')
        BY <2>2, <2>4, <2>5, QuietAgain
    <2> QED BY <1>2, <1>16, <2>6 DEF Forms!EndBusiness
<1>17. CASE Forms!Tick
    <2>1. Ticks
        BY <1>17 DEF Forms!Tick, Ticks, Over
    <2> QED BY <2>1 DEF UsageStep
<1>18. CASE Forms!HookChanges
    <2>1. Quiet(tab, tab')
        BY <1>18, QuietSame DEF Forms!HookChanges
    <2> QED BY <1>2, <1>18, <2>1 DEF Forms!HookChanges
<1> QED BY <1>3, <1>4, <1>5, <1>6, <1>7, <1>8, <1>9, <1>10, <1>11, <1>12, <1>13, <1>14, <1>15, <1>16, <1>17, <1>18
        DEF Forms!Next

\* Nothing has been sent, and nothing been visible, when the first page view begins.
LEMMA FirstTells ==
    ASSUME NEW old, NEW u, Begins(old, u), old.page = 0, old.sent = {}, now = 0, visible \in BOOLEAN,
           NEW pages, pages \in Nat \ {0}, shown = [p \in 1 .. pages |-> 0], NEW ov, ov \in BOOLEAN
    PROVE  (\E T : Tells(T, u, ov, visible, shown, now)) /\ Gapless(UsageOf(u), u)
<1>1. PICK q : /\ Shaped(q) /\ UsageKept(old, q) /\ q.page = old.page + 1 /\ q.since = (IF visible THEN now ELSE None)
               /\ q.destroyed \in BOOLEAN /\ Begun(q, u)
    BY DEF Begins
<1>2. UsageOf(q) = {}
    BY <1>1 DEF UsageKept, UsageOf
<1>3. /\ Shaped(u) /\ u.page = 1 /\ u.since = (IF visible THEN now ELSE None) /\ u.destroyed \in BOOLEAN
      /\ u.sequence = 0 /\ u.closed = FALSE
    BY <1>1 DEF Begun
<1>4. \A e \in UsageOf(u) : e.event = "page_view" /\ e.page = 1 /\ e.route = u.route /\ e.at = 0
    BY <1>1, <1>2 DEF Begun, UsageKept, Added, Viewed
<1>5. IsFiniteSet(UsageOf(u))
    <2>1. CASE UsageKept(q, u)
        BY <1>2, <2>1, SameUsage, FS_EmptySet
    <2>2. CASE ~UsageKept(q, u)
        <3>1. PICK e : Added(q, u, e)
            BY <1>1, <2>2 DEF Begun
        <3>2. UsageOf(u) = {} \cup {e}
            BY <1>2, <3>1 DEF Added
        <3>3. {} \cup {e} = {e}
            OBVIOUS
        <3>4. IsFiniteSet({e})
            BY FS_Singleton
        <3> QED BY <3>2, <3>3, <3>4
    <2> QED BY <2>1, <2>2
<1>6. PICK T : T = [p \in Nat |-> [i \in Nat |-> 0]]
    OBVIOUS
<1>7. Timed(T)
    BY <1>6 DEF Timed
<1>8. Tidy(u, shown, now)
    <2>1. u.since # None => u.since \in Nat /\ u.since <= now
        BY <1>3
    <2>2. u.page \in Nat /\ u.sequence \in Nat /\ u.page \in DOMAIN shown
        BY <1>3
    <2>3. u.closed \in BOOLEAN /\ now \in Nat
        BY <1>3
    <2>4. \A p \in DOMAIN shown : p \in Nat /\ shown[p] = 0
        OBVIOUS
    <2> QED BY <1>3, <2>1, <2>2, <2>3, <2>4 DEF Tidy
<1>9. Told(T, UsageOf(u), u, ov, shown, now)
    BY <1>3, <1>4 DEF Told
<1>10. Leaves(UsageOf(u)) = {}
    BY <1>4 DEF Leaves
<1>11. Numbered(UsageOf(u)) /\ Matched(UsageOf(u))
    BY <1>10 DEF Numbered, Matched
<1>12. Running(T, u, ov, visible, shown, now)
    <2>1. u.since # None <=> visible
        BY <1>3, BrowserAssumption
    <2>2. T[u.page][u.sequence] + (IF u.since = None THEN 0 ELSE now - u.since) = shown[u.page]
        BY <1>3, <1>6
    <2> QED BY <2>1, <2>2, Zenon DEF Running
<1>13. Gapless(UsageOf(u), u)
    BY <1>3, <1>10 DEF Gapless
<1> QED BY <1>5, <1>7, <1>8, <1>9, <1>11, <1>12, <1>13 DEF Tells

\* What the parts rely on.
UsageInvariant(w) ==
    /\ visible \in BOOLEAN /\ parked \in BOOLEAN /\ now \in 0 .. w.time /\ hook \in w.hooks
    /\ DOMAIN shown = 1 .. w.pages
    /\ \E T : Tells0(T)
    /\ w.hooks = {"accepts"} => Gapless(UsageOf(tab), tab)

LEMMA HookedUsageBegins == Hooked!Init => UsageInvariant(Hooking)
<1> SUFFICES ASSUME Hooked!Init PROVE UsageInvariant(Hooking)
    OBVIOUS
<1>1. /\ now = 0 /\ parked = FALSE /\ visible \in BOOLEAN /\ hook = "accepts"
      /\ shown = [p \in 1 .. Hooking.pages |-> 0]
    BY DEF Hooked!Init
<1>2. PICK old : old = [session |-> 0, activity |-> 0, page |-> 0, sent |-> {}]
    OBVIOUS
<1>3. PICK r : tab = Hooked!Constructed(old, r, FALSE)
    BY <1>2 DEF Hooked!Init
<1>4. Begins(old, tab) /\ old.page = 0 /\ old.sent = {}
    BY <1>2, <1>3, HookedConstructed
<1>5. tab.destroyed \in BOOLEAN
    BY <1>4 DEF Begins, Begun
<1>6. Over \in BOOLEAN
    BY <1>1, <1>5 DEF Over
<1>7. (\E T : Tells(T, tab, Over, visible, shown, now)) /\ Gapless(UsageOf(tab), tab)
    <2>1. Hooking.pages \in Nat \ {0}
        BY BrowserAssumption
    <2> QED BY <1>1, <1>4, <1>6, <2>1, FirstTells
<1>8. now \in 0 .. Hooking.time /\ hook \in Hooking.hooks
    <2>1. Hooking.time \in Nat /\ "accepts" \in Hooking.hooks
        BY BrowserAssumption
    <2> QED BY <1>1, <2>1
<1> QED BY <1>1, <1>7, <1>8 DEF UsageInvariant, Tells0

LEMMA HookedUsageKept == UsageInvariant(Hooking) /\ Hooked!Next => UsageInvariant(Hooking)'
<1> SUFFICES ASSUME UsageInvariant(Hooking), Hooked!Next PROVE UsageInvariant(Hooking)'
    OBVIOUS
<1>1. PICK T : Tells0(T)
    BY DEF UsageInvariant
<1>2. Flags
    BY DEF UsageInvariant, Flags
<1>3. /\ Over \in BOOLEAN /\ tab.destroyed \in BOOLEAN /\ Shaped(tab) /\ now \in Nat /\ tab.page \in Nat
    BY <1>1, <1>2, OverIs
<1>4. UsageStep
    BY <1>3, HookedSteps DEF UsageInvariant
<1>5. /\ \E S : Tells1(S)
      /\ visible' \in BOOLEAN /\ parked' \in BOOLEAN /\ DOMAIN shown' = DOMAIN shown
      /\ hook = "accepts" /\ Gapless(UsageOf(tab), tab) => Gapless(UsageOf(tab'), tab')
    BY <1>1, <1>2, <1>4, UsageKeeps
<1>6. hook' \in Hooking.hooks
    <2>1. hook' = hook \/ hook' \in Hooking.hooks
        BY DEF Hooked!Next, Hooked!Load, Hooked!HandlePageRouteChange, Hooked!HandleVisibilityChange,
               Hooked!HandlePageHide, Hooked!HandlePageShow, Hooked!Destroy, Hooked!Track, Hooked!SetUser,
               Hooked!TrackForm, Hooked!DestroyForm, Hooked!StartLongView, Hooked!StopLongView,
               Hooked!StartBusiness, Hooked!EndBusiness, Hooked!Tick, Hooked!HookChanges
    <2> QED BY <2>1 DEF UsageInvariant
<1>7. now' \in 0 .. Hooking.time
    <2>1. now' = now \/ (now < Hooking.time /\ now' = now + 1)
        BY DEF Hooked!Next, Hooked!Load, Hooked!HandlePageRouteChange, Hooked!HandleVisibilityChange,
               Hooked!HandlePageHide, Hooked!HandlePageShow, Hooked!Destroy, Hooked!Track, Hooked!SetUser,
               Hooked!TrackForm, Hooked!DestroyForm, Hooked!StartLongView, Hooked!StopLongView,
               Hooked!StartBusiness, Hooked!EndBusiness, Hooked!Tick, Hooked!HookChanges
    <2> QED BY <1>3, <2>1, BrowserAssumption DEF UsageInvariant
<1>8. Hooking.hooks = {"accepts"} => Gapless(UsageOf(tab'), tab')
    BY <1>5 DEF UsageInvariant
<1>9. \E S : Tells0(S)'
    BY <1>5 DEF Tells0, Tells1, Over
<1>10. DOMAIN shown' = 1 .. Hooking.pages
    BY <1>5 DEF UsageInvariant
<1> QED BY <1>5, <1>6, <1>7, <1>8, <1>9, <1>10 DEF UsageInvariant

LEMMA FormsUsageBegins == Forms!Init => UsageInvariant(Forming)
<1> SUFFICES ASSUME Forms!Init PROVE UsageInvariant(Forming)
    OBVIOUS
<1>1. /\ now = 0 /\ parked = FALSE /\ visible \in BOOLEAN /\ hook = "accepts"
      /\ shown = [p \in 1 .. Forming.pages |-> 0]
    BY DEF Forms!Init
<1>2. PICK old : old = [session |-> 0, activity |-> 0, page |-> 0, sent |-> {}]
    OBVIOUS
<1>3. PICK r : tab = Forms!Constructed(old, r, FALSE)
    BY <1>2 DEF Forms!Init
<1>4. Begins(old, tab) /\ old.page = 0 /\ old.sent = {}
    BY <1>2, <1>3, FormsConstructed
<1>5. tab.destroyed \in BOOLEAN
    BY <1>4 DEF Begins, Begun
<1>6. Over \in BOOLEAN
    BY <1>1, <1>5 DEF Over
<1>7. (\E T : Tells(T, tab, Over, visible, shown, now)) /\ Gapless(UsageOf(tab), tab)
    <2>1. Forming.pages \in Nat \ {0}
        BY BrowserAssumption
    <2> QED BY <1>1, <1>4, <1>6, <2>1, FirstTells
<1>8. now \in 0 .. Forming.time /\ hook \in Forming.hooks
    <2>1. Forming.time \in Nat /\ "accepts" \in Forming.hooks
        BY BrowserAssumption
    <2> QED BY <1>1, <2>1
<1> QED BY <1>1, <1>7, <1>8 DEF UsageInvariant, Tells0

LEMMA FormsUsageKept == UsageInvariant(Forming) /\ Forms!Next => UsageInvariant(Forming)'
<1> SUFFICES ASSUME UsageInvariant(Forming), Forms!Next PROVE UsageInvariant(Forming)'
    OBVIOUS
<1>1. PICK T : Tells0(T)
    BY DEF UsageInvariant
<1>2. Flags
    BY DEF UsageInvariant, Flags
<1>3. /\ Over \in BOOLEAN /\ tab.destroyed \in BOOLEAN /\ Shaped(tab) /\ now \in Nat /\ tab.page \in Nat
    BY <1>1, <1>2, OverIs
<1>4. UsageStep
    BY <1>3, FormsSteps DEF UsageInvariant
<1>5. /\ \E S : Tells1(S)
      /\ visible' \in BOOLEAN /\ parked' \in BOOLEAN /\ DOMAIN shown' = DOMAIN shown
      /\ hook = "accepts" /\ Gapless(UsageOf(tab), tab) => Gapless(UsageOf(tab'), tab')
    BY <1>1, <1>2, <1>4, UsageKeeps
<1>6. hook' \in Forming.hooks
    <2>1. hook' = hook \/ hook' \in Forming.hooks
        BY DEF Forms!Next, Forms!Load, Forms!HandlePageRouteChange, Forms!HandleVisibilityChange,
               Forms!HandlePageHide, Forms!HandlePageShow, Forms!Destroy, Forms!Track, Forms!SetUser,
               Forms!TrackForm, Forms!DestroyForm, Forms!StartLongView, Forms!StopLongView,
               Forms!StartBusiness, Forms!EndBusiness, Forms!Tick, Forms!HookChanges
    <2> QED BY <2>1 DEF UsageInvariant
<1>7. now' \in 0 .. Forming.time
    <2>1. now' = now \/ (now < Forming.time /\ now' = now + 1)
        BY DEF Forms!Next, Forms!Load, Forms!HandlePageRouteChange, Forms!HandleVisibilityChange,
               Forms!HandlePageHide, Forms!HandlePageShow, Forms!Destroy, Forms!Track, Forms!SetUser,
               Forms!TrackForm, Forms!DestroyForm, Forms!StartLongView, Forms!StopLongView,
               Forms!StartBusiness, Forms!EndBusiness, Forms!Tick, Forms!HookChanges
    <2> QED BY <1>3, <2>1, BrowserAssumption, SMTT(30) DEF UsageInvariant
<1>8. Forming.hooks = {"accepts"} => Gapless(UsageOf(tab'), tab')
    BY <1>5 DEF UsageInvariant
<1>9. \E S : Tells0(S)'
    BY <1>5 DEF Tells0, Tells1, Over
<1>10. DOMAIN shown' = 1 .. Forming.pages
    BY <1>5 DEF UsageInvariant
<1> QED BY <1>5, <1>6, <1>7, <1>8, <1>9, <1>10 DEF UsageInvariant

-----------------------------------------------------------------------------
\* Sums.

\* Numbers that are not none have a least one.
LEMMA LeastOf ==
    ASSUME NEW S \in SUBSET Nat, S # {}
    PROVE  \E n \in S : \A m \in S : n <= m
<1> DEFINE R == OpToRel(<, Nat)
<1> HIDE DEF R
<1>1. PICK n \in S : \A m \in S : ~ (<<m, n>> \in R)
    BY WFMin, NatLessThanWellFounded DEF R
<1>2. ASSUME NEW m \in S PROVE n <= m
    <2>1. ~ (m < n)
        BY <1>1 DEF R, OpToRel
    <2> QED BY <2>1
<1> QED BY <1>2

\* The library takes an element and adds its number to the sum of the others.
One(s) == CHOOSE x \in s : TRUE
Adder(g, S, F) == g = [s \in SUBSET S |-> IF s = {} THEN 0 ELSE F[One(s)] + g[s \ {One(s)}]]
Adds(S, F) == CHOOSE g : Adder(g, S, F)
SumOf(S, F) == Adds(S, F)[S]

LEMMA FormsSum ==
    ASSUME NEW T, NEW f(_) PROVE Forms!MapThenSumSet(f, T) = SumOf(T, [p \in T |-> f(p)])
<1> DEFINE F == [p \in T |-> f(p)]
           Old(g) == g = [s \in SUBSET T |-> IF s = {} THEN 0
                            ELSE f(CHOOSE x \in s : TRUE) + g[s \ {CHOOSE x \in s : TRUE}]]
<1>1. Forms!MapThenSumSet(f, T) = (CHOOSE g : Old(g))[T]
    BY DEF Forms!MapThenSumSet, Forms!MapThenFoldSet
<1>2. ASSUME NEW g PROVE Old(g) <=> Adder(g, T, F)
    <2>1. \A s \in SUBSET T : s # {} => f(CHOOSE x \in s : TRUE) = F[One(s)]
        BY DEF One
    <2> QED BY <2>1 DEF Adder, One
<1>3. (CHOOSE g : Old(g)) = Adds(T, F)
    <2> HIDE DEF Old, F
    <2> QED BY <1>2, Zenon DEF Adds
<1> QED BY <1>1, <1>3 DEF SumOf

LEMMA HookedSum == ASSUME NEW T, NEW f(_) PROVE Hooked!MapThenSumSet(f, T) = Forms!MapThenSumSet(f, T)
    BY DEF Hooked!MapThenSumSet, Forms!MapThenSumSet, Hooked!MapThenFoldSet, Forms!MapThenFoldSet
LEMMA CountedAlike ==
    ASSUME NEW S PROVE Hooked!Cardinality(S) = Cardinality(S) /\ Forms!Cardinality(S) = Cardinality(S)
    BY DEF Hooked!Cardinality, Forms!Cardinality, Cardinality

\* There is such a sum, of the sets with at most n elements first.
LEMMA AdderExists ==
    ASSUME NEW S, IsFiniteSet(S), NEW F PROVE Adder(Adds(S, F), S, F)
<1> DEFINE Small(n) == {s \in SUBSET S : Cardinality(s) <= n}
           Part(g, n) == g = [s \in Small(n) |-> IF s = {} THEN 0 ELSE F[One(s)] + g[s \ {One(s)}]]
           N == {n \in Nat : ~ \E g : Part(g, n)}
<1>1. \A s \in SUBSET S : IsFiniteSet(s) /\ Cardinality(s) \in Nat
    BY FS_Subset, FS_CardinalityType
<1>2. ASSUME NEW s \in SUBSET S, s # {} PROVE One(s) \in s /\ Cardinality(s \ {One(s)}) = Cardinality(s) - 1
    <2>1. One(s) \in s
        BY <1>2 DEF One
    <2> QED BY <1>1, <2>1, FS_RemoveElement
<1>3. N = {}
    <2> SUFFICES ASSUME N # {} PROVE FALSE
        OBVIOUS
    <2>1. PICK n \in N : \A m \in N : n <= m
        <3>1. N \in SUBSET Nat
            OBVIOUS
        <3> HIDE DEF N
        <3> QED BY <3>1, LeastOf
    <2>2. CASE n = 0
        <3> DEFINE g == [s \in Small(0) |-> 0]
        <3>1. \A s \in Small(0) : s = {}
            BY <1>1, FS_EmptySet
        <3>2. g = [s \in Small(0) |-> IF s = {} THEN 0 ELSE F[One(s)] + g[s \ {One(s)}]]
            <4> HIDE DEF Small
            <4> QED BY <3>1
        <3>3. Part(g, 0)
            BY <3>2
        <3> HIDE DEF g, Part
        <3> QED BY <2>1, <2>2, <3>3
    <2>3. CASE n # 0
        <3>1. n \in Nat /\ n - 1 \in Nat
            BY <2>1, <2>3
        <3>2. n - 1 \notin N
            <4> HIDE DEF N
            <4> QED BY <2>1, <3>1
        <3>3. PICK g : Part(g, n - 1)
            <4> HIDE DEF Part
            <4> QED BY <3>1, <3>2
        <3> DEFINE h == [s \in Small(n) |-> IF s = {} THEN 0 ELSE F[One(s)] + g[s \ {One(s)}]]
        <3>4. \A s \in Small(n - 1) : s \in Small(n) /\ h[s] = g[s]
            <4>1. \A s \in Small(n - 1) : s \in Small(n)
                BY <1>1, <3>1
            <4> HIDE DEF Small
            <4> QED BY <3>3, <4>1
        <3>5. \A s \in Small(n) : s # {} => s \ {One(s)} \in Small(n - 1)
            BY <1>1, <1>2, <3>1
        <3>6. Part(h, n)
            <4> HIDE DEF Small
            <4> QED BY <3>4, <3>5
        <3> HIDE DEF h, Part
        <3> QED BY <2>1, <3>6
    <2> QED BY <2>2, <2>3
<1>4. PICK g : Part(g, Cardinality(S))
    <2>1. Cardinality(S) \in Nat
        BY <1>1
    <2> HIDE DEF Part
    <2> QED BY <1>3, <2>1
<1>5. Small(Cardinality(S)) = SUBSET S
    <2>1. \A s \in SUBSET S : Cardinality(s) <= Cardinality(S)
        BY FS_Subset
    <2> QED BY <2>1
<1>6. Adder(g, S, F)
    <2> HIDE DEF Small
    <2> QED BY <1>4, <1>5 DEF Adder
<1> HIDE DEF Small, Part, N
<1> QED BY <1>6 DEF Adds

\* The sums over the subsets.
Summing(g, S, F) == g[{}] = 0 /\ \A s \in SUBSET S : s # {} => g[s] = F[One(s)] + g[s \ {One(s)}]
LEMMA SumsAre == ASSUME NEW S, IsFiniteSet(S), NEW F PROVE Summing(Adds(S, F), S, F)
<1>1. PICK g : g = Adds(S, F)
    OBVIOUS
<1>2. Adder(g, S, F)
    BY <1>1, AdderExists
<1>3. g = [s \in SUBSET S |-> IF s = {} THEN 0 ELSE F[One(s)] + g[s \ {One(s)}]]
    BY <1>2 DEF Adder
<1>4. Summing(g, S, F)
    BY <1>3 DEF Summing
<1> QED BY <1>1, <1>4

\* Of a family of subsets that is not empty one loses the property with any of its elements.
LEMMA MinimalOf ==
    ASSUME NEW S, IsFiniteSet(S), NEW B \in SUBSET (SUBSET S), B # {}
    PROVE  \E s \in B : \A x \in s : s \ {x} \notin B
<1> DEFINE N == {Cardinality(s) : s \in B}
<1>1. \A s \in SUBSET S : IsFiniteSet(s) /\ Cardinality(s) \in Nat
    BY FS_Subset, FS_CardinalityType
<1>2. N \in SUBSET Nat /\ N # {}
    BY <1>1
<1>3. PICK n \in N : \A m \in N : n <= m
    <2> HIDE DEF N
    <2> QED BY <1>2, LeastOf
<1>4. PICK s \in B : Cardinality(s) = n
    BY <1>3
<1>5. ASSUME NEW x \in s PROVE s \ {x} \notin B
    <2>1. Cardinality(s \ {x}) = n - 1 /\ n \in Nat
        BY <1>1, <1>4, FS_RemoveElement
    <2> QED BY <1>3, <2>1
<1> QED BY <1>4, <1>5

\* The order in which the elements are taken does not matter.
Orderless(g, S, F) ==
    /\ \A s \in SUBSET S : g[s] \in Nat
    /\ \A s \in SUBSET S : \A x \in s : g[s] = F[x] + g[s \ {x}]
LEMMA AnyFirst ==
    ASSUME NEW S, IsFiniteSet(S), NEW F \in [S -> Nat], NEW g, Summing(g, S, F)
    PROVE  Orderless(g, S, F)
<1>0. \A s \in SUBSET S : s # {} => One(s) \in s /\ s \ {One(s)} \in SUBSET S /\ g[s] = F[One(s)] + g[s \ {One(s)}]
    BY DEF One, Summing
<1>1. \A s \in SUBSET S : g[s] \in Nat
    <2> DEFINE B == {s \in SUBSET S : g[s] \notin Nat}
    <2> SUFFICES ASSUME B # {} PROVE FALSE
        OBVIOUS
    <2>1. PICK s \in B : \A x \in s : s \ {x} \notin B
        <3>1. B \in SUBSET (SUBSET S)
            OBVIOUS
        <3> HIDE DEF B
        <3> QED BY <3>1, MinimalOf
    <2>2. CASE s = {}
        BY <2>2 DEF Summing
    <2>3. CASE s # {}
        <3>1. /\ s \in SUBSET S /\ One(s) \in S /\ s \ {One(s)} \in SUBSET S
              /\ g[s] = F[One(s)] + g[s \ {One(s)}]
            BY <1>0, <2>3
        <3>2. s \ {One(s)} \notin B
            BY <1>0, <2>1, <2>3
        <3>3. g[s \ {One(s)}] \in Nat /\ F[One(s)] \in Nat
            BY <3>1, <3>2
        <3>4. g[s] \in Nat
            <4> HIDE DEF B
            <4> QED BY <3>1, <3>3
        <3> QED BY <3>4
    <2> QED BY <2>2, <2>3
<1>2. \A s \in SUBSET S : \A x \in s : g[s] = F[x] + g[s \ {x}]
    <2> DEFINE B == {s \in SUBSET S : \E x \in s : g[s] # F[x] + g[s \ {x}]}
    <2> SUFFICES ASSUME B # {} PROVE FALSE
        OBVIOUS
    <2>1. PICK s \in B : \A x \in s : s \ {x} \notin B
        <3>1. B \in SUBSET (SUBSET S)
            OBVIOUS
        <3> HIDE DEF B
        <3> QED BY <3>1, MinimalOf
    <2>2. PICK x \in s : g[s] # F[x] + g[s \ {x}]
        OBVIOUS
    <2>3. PICK y : y = One(s)
        OBVIOUS
    <2>4. y \in s /\ g[s] = F[y] + g[s \ {y}] /\ x # y
        BY <1>0, <2>2, <2>3
    <2>5. PICK r : r = (s \ {x}) \ {y}
        OBVIOUS
    <2>6. (s \ {y}) \ {x} = r
        BY <2>5
    <2>7. g[s \ {y}] = F[x] + g[r]
        BY <2>1, <2>2, <2>4, <2>6
    <2>8. g[s \ {x}] = F[y] + g[r]
        BY <2>1, <2>2, <2>4, <2>5
    <2>9. F[x] \in Nat /\ F[y] \in Nat /\ g[r] \in Nat
        BY <1>1, <2>4, <2>5
    <2> QED BY <2>2, <2>4, <2>7, <2>8, <2>9
<1> QED BY <1>1, <1>2 DEF Orderless

\* What goes from one count to the next adds up to the last one.
InSteps(S, F, number, c, n) ==
    /\ F \in [S -> Nat] /\ number \in [S -> Nat] /\ c \in [Nat -> Nat] /\ c[0] = 0 /\ n \in Nat
    /\ \A x \in S : number[x] \in 1 .. n /\ c[number[x] - 1] + F[x] = c[number[x]]
    /\ \A x, y \in S : number[x] = number[y] => x = y
    /\ \A i \in 1 .. n : \E x \in S : number[x] = i
LEMMA Telescope ==
    ASSUME NEW S, IsFiniteSet(S), NEW F, NEW number, NEW c, NEW n, InSteps(S, F, number, c, n)
    PROVE  SumOf(S, F) = c[n]
<1> USE DEF InSteps
<1> DEFINE Up(i) == {x \in S : number[x] <= i}
<1>1. PICK g : g = Adds(S, F)
    OBVIOUS
<1>2. Summing(g, S, F)
    BY <1>1, SumsAre
<1>3. /\ \A s \in SUBSET S : g[s] \in Nat
      /\ \A s \in SUBSET S : \A x \in s : g[s] = F[x] + g[s \ {x}]
    <2>1. Orderless(g, S, F)
        BY <1>2, AnyFirst
    <2> QED BY <2>1 DEF Orderless
<1>4. \A i \in 0 .. n : g[Up(i)] = c[i]
    <2> DEFINE B == {i \in 0 .. n : g[Up(i)] # c[i]}
    <2> SUFFICES ASSUME B # {} PROVE FALSE
        OBVIOUS
    <2>1. PICK i \in B : \A j \in B : i <= j
        <3>1. B \in SUBSET Nat
            OBVIOUS
        <3> HIDE DEF B
        <3> QED BY <3>1, LeastOf
    <2>2. CASE i = 0
        <3>1. Up(0) = {}
            OBVIOUS
        <3> QED BY <1>2, <2>2, <3>1 DEF Summing
    <2>3. CASE i # 0
        <3>1. i \in 1 .. n /\ i - 1 \in 0 .. n /\ i - 1 \in Nat
            BY <2>3
        <3>2. g[Up(i - 1)] = c[i - 1]
            BY <2>1, <3>1
        <3>3. PICK x \in S : number[x] = i
            BY <3>1
        <3>4. Up(i) \ {x} = Up(i - 1) /\ x \in Up(i) /\ Up(i) \in SUBSET S
            BY <3>1, <3>3
        <3>5. g[Up(i)] = F[x] + g[Up(i - 1)]
            <4>1. \A s \in SUBSET S : \A y \in s : g[s] = F[y] + g[s \ {y}]
                BY <1>3
            <4>2. g[Up(i)] = F[x] + g[Up(i) \ {x}]
                <5> HIDE DEF Up
                <5> QED BY <4>1, <3>4
            <4> QED BY <3>4, <4>2
        <3>6. c[i - 1] + F[x] = c[i] /\ c[i - 1] \in Nat /\ F[x] \in Nat
            BY <3>1, <3>3
        <3>7. g[Up(i)] = c[i]
            <4> HIDE DEF Up
            <4> QED BY <3>2, <3>5, <3>6
        <3> QED BY <3>7
    <2> QED BY <2>2, <2>3
<1>5. Up(n) = S
    OBVIOUS
<1>6. g[S] = c[n]
    <2> HIDE DEF Up
    <2> QED BY <1>4, <1>5
<1> QED BY <1>1, <1>6 DEF SumOf

-----------------------------------------------------------------------------
\* What the server tells of a page view.

Lasting(e) == e.payload.duration
Numbers(S) == {e.payload.sequence : e \in S}

\* The segments of one page view, numbered without a gap, add up to its visible time.
LEMMA SegmentsAdd ==
    ASSUME NEW T, NEW t, NEW ov, NEW vis, NEW sh, Tells(T, t, ov, vis, sh, now),
           NEW p, NEW S, S \subseteq Leaves(UsageOf(t)), \A e \in S : e.page = p, S # {},
           Numbers(S) = 1 .. Cardinality(S),
           \A e \in S : e.payload.closed <=> e.payload.sequence = Cardinality(S)
    PROVE  SumOf(S, [e \in S |-> Lasting(e)]) = sh[p]
<1> DEFINE F == [e \in S |-> Lasting(e)]
           number == [e \in S |-> e.payload.sequence]
           n == Cardinality(S)
<1>1. /\ Timed(T) /\ IsFiniteSet(UsageOf(t)) /\ Told(T, UsageOf(t), t, ov, sh, now)
      /\ Numbered(UsageOf(t)) /\ Tidy(t, sh, now)
    BY DEF Tells
<1>2. IsFiniteSet(S) /\ n \in Nat /\ n # 0
    <2>1. S \subseteq UsageOf(t)
        BY DEF Leaves
    <2> QED BY <1>1, <2>1, FS_Subset, FS_CardinalityType, FS_EmptySet
<1>3. ASSUME NEW e \in S
      PROVE  /\ e \in Leaves(UsageOf(t)) /\ e.page = p /\ p \in Nat
             /\ number[e] \in 1 .. n /\ number[e] \in Nat /\ F[e] \in Nat
             /\ T[p][number[e] - 1] + F[e] = T[p][number[e]]
             /\ e.payload.closed => T[p][number[e]] = sh[p]
    <2>1. e \in Leaves(UsageOf(t)) /\ e \in UsageOf(t) /\ e.event = "page_leave" /\ e.page = p
        BY DEF Leaves
    <2>2. /\ p \in Nat /\ e.payload.sequence \in Nat /\ e.payload.duration \in Nat
          /\ T[p][e.payload.sequence - 1] + e.payload.duration = T[p][e.payload.sequence]
          /\ e.payload.closed => T[p][e.payload.sequence] = sh[p]
        BY <1>1, <2>1 DEF Told
    <2>3. number[e] = e.payload.sequence /\ F[e] = e.payload.duration
        BY DEF Lasting
    <2>4. e.payload.sequence \in 1 .. n
        BY DEF Numbers
    <2> HIDE DEF F, number, n
    <2> QED BY <2>1, <2>2, <2>3, <2>4
<1>4. \A i \in 1 .. n : \E e \in S : number[e] = i
    BY DEF Numbers
<1>5. PICK last \in S : number[last] = n
    <2> HIDE DEF number, n
    <2> QED BY <1>2, <1>4
<1>6. T[p][n] = sh[p]
    <2>1. last.payload.closed
        BY <1>5
    <2> HIDE DEF F, number, n
    <2> QED BY <1>3, <1>5, <2>1
<1>7. \A e, f \in S : number[e] = number[f] => e = f
    <2> SUFFICES ASSUME NEW e \in S, NEW f \in S, number[e] = number[f] PROVE e = f
        OBVIOUS
    <2>1. e.payload.sequence = f.payload.sequence
        OBVIOUS
    <2>2. e \in Leaves(UsageOf(t)) /\ f \in Leaves(UsageOf(t)) /\ e.page = f.page
        OBVIOUS
    <2> QED BY <1>1, <2>1, <2>2 DEF Numbered
<1>8. PICK c : c = T[p]
    OBVIOUS
<1>9. c \in [Nat -> Nat] /\ c[0] = 0
    BY <1>1, <1>3, <1>5, <1>8 DEF Timed
<1>10. F \in [S -> Nat] /\ number \in [S -> Nat]
    <2>1. F = [e \in S |-> F[e]] /\ number = [e \in S |-> number[e]]
        OBVIOUS
    <2> HIDE DEF F, number, n
    <2> QED BY <1>3, <2>1
<1>11. \A e \in S : number[e] \in 1 .. n /\ c[number[e] - 1] + F[e] = c[number[e]]
    <2> HIDE DEF F, number, n
    <2> QED BY <1>3, <1>8
<1>12. SumOf(S, F) = c[n]
    <2> HIDE DEF F, number, n
    <2>1. InSteps(S, F, number, c, n)
        BY <1>2, <1>4, <1>7, <1>9, <1>10, <1>11 DEF InSteps
    <2> QED BY <1>2, <2>1, Telescope
<1> HIDE DEF number, n
<1> QED BY <1>6, <1>8, <1>12

\* Segments that are numbered without a gap, the last one closed, are as many as its number.
LEMMA NoGap ==
    ASSUME NEW S, IsFiniteSet(S), NEW n \in Nat, \A e \in S : e.payload.sequence \in 1 .. n,
           \A e, f \in S : e.payload.sequence = f.payload.sequence => e = f,
           \A i \in 1 .. n : \E e \in S : e.payload.sequence = i
    PROVE  Numbers(S) = 1 .. n /\ Cardinality(S) = n
<1> DEFINE f == [e \in S |-> e.payload.sequence]
<1>1. f \in Bijection(S, 1 .. n)
    <2>1. f \in [S -> 1 .. n]
        OBVIOUS
    <2>2. \A e, d \in S : f[e] = f[d] => e = d
        OBVIOUS
    <2>3. \A i \in 1 .. n : \E e \in S : f[e] = i
        OBVIOUS
    <2> HIDE DEF f
    <2> QED BY <2>1, <2>2, <2>3 DEF Bijection, Injection, IsInjective, Surjection
<1>2. ExistsBijection(S, 1 .. n)
    BY <1>1 DEF ExistsBijection
<1>3. Cardinality(1 .. n) = Cardinality(S) /\ Cardinality(1 .. n) = n
    BY <1>2, FS_Bijection, FS_Interval
<1>4. Numbers(S) = 1 .. n
    BY DEF Numbers
<1> QED BY <1>3, <1>4

\* What the part "hooked" reports is the time that was visible.
LEMMA HookedReported == UsageInvariant(Hooking) => Hooked!ReportedIsShown
<1> SUFFICES ASSUME UsageInvariant(Hooking), NEW E \in SUBSET Hooked!Usage, NEW from, NEW to,
                    NEW d \in Hooked!Durations(E, from, to)
             PROVE  d.time = shown[d.page]
    BY DEF Hooked!ReportedIsShown
<1>1. PICK T : Tells(T, tab, Over, visible, shown, now)
    BY DEF UsageInvariant, Tells0
<1>2. PICK W : W = Hooked!InWindow(E, from, to)
    OBVIOUS
<1>3. PICK v \in W : /\ Hooked!Complete(Hooked!SegmentsOf(W, v))
                     /\ d = [page |-> v.page, time |-> Hooked!MapThenSumSet(Lasting, Hooked!SegmentsOf(W, v))]
    BY <1>2 DEF Hooked!Durations, Lasting
<1>4. PICK S : S = Hooked!SegmentsOf(W, v)
    OBVIOUS
<1>5. S \subseteq Leaves(UsageOf(tab)) /\ \A e \in S : e.page = v.page
    <2>1. W \subseteq UsageOf(tab)
        BY <1>2 DEF Hooked!InWindow, Hooked!Usage, UsageOf
    <2> QED BY <1>4, <2>1 DEF Hooked!SegmentsOf, Leaves
<1>6. /\ S # {} /\ Numbers(S) = 1 .. Cardinality(S)
      /\ \A e \in S : e.payload.closed <=> e.payload.sequence = Cardinality(S)
    <2>1. Hooked!Cardinality(S) = Cardinality(S) /\ Hooked!Complete(S)
        BY <1>3, <1>4, CountedAlike
    <2> QED BY <2>1 DEF Hooked!Complete, Numbers
<1>7. SumOf(S, [e \in S |-> Lasting(e)]) = shown[v.page]
    BY <1>1, <1>5, <1>6, SegmentsAdd
<1>8. Hooked!MapThenSumSet(Lasting, S) = SumOf(S, [e \in S |-> Lasting(e)])
    BY HookedSum, FormsSum
<1> QED BY <1>3, <1>4, <1>7, <1>8

\* And what the part "forms" does.
LEMMA FormsReported == UsageInvariant(Forming) => Forms!ReportedIsShown
<1> SUFFICES ASSUME UsageInvariant(Forming), NEW E \in SUBSET Forms!Usage, NEW from, NEW to,
                    NEW d \in Forms!Durations(E, from, to)
             PROVE  d.time = shown[d.page]
    BY DEF Forms!ReportedIsShown
<1>1. PICK T : Tells(T, tab, Over, visible, shown, now)
    BY DEF UsageInvariant, Tells0
<1>2. PICK W : W = Forms!InWindow(E, from, to)
    OBVIOUS
<1>3. PICK v \in W : /\ Forms!Complete(Forms!SegmentsOf(W, v))
                     /\ d = [page |-> v.page, time |-> Forms!MapThenSumSet(Lasting, Forms!SegmentsOf(W, v))]
    BY <1>2 DEF Forms!Durations, Lasting
<1>4. PICK S : S = Forms!SegmentsOf(W, v)
    OBVIOUS
<1>5. S \subseteq Leaves(UsageOf(tab)) /\ \A e \in S : e.page = v.page
    <2>1. W \subseteq UsageOf(tab)
        BY <1>2 DEF Forms!InWindow, Forms!Usage, UsageOf
    <2> QED BY <1>4, <2>1 DEF Forms!SegmentsOf, Leaves
<1>6. /\ S # {} /\ Numbers(S) = 1 .. Cardinality(S)
      /\ \A e \in S : e.payload.closed <=> e.payload.sequence = Cardinality(S)
    <2>1. Forms!Cardinality(S) = Cardinality(S) /\ Forms!Complete(S)
        BY <1>3, <1>4, CountedAlike
    <2> QED BY <2>1 DEF Forms!Complete, Numbers
<1>7. SumOf(S, [e \in S |-> Lasting(e)]) = shown[v.page]
    BY <1>1, <1>5, <1>6, SegmentsAdd
<1>8. Forms!MapThenSumSet(Lasting, S) = SumOf(S, [e \in S |-> Lasting(e)])
    BY HookedSum, FormsSum
<1> QED BY <1>3, <1>4, <1>7, <1>8

\* A hook that accepts everything loses nothing: what is closed can be told.
LEMMA FormsClosed == UsageInvariant(Forming) => Forms!ClosedIsReported
<1> SUFFICES ASSUME UsageInvariant(Forming), NEW v \in Forms!Usage, v.event = "page_view",
                    Forming.hooks = {"accepts"},
                    NEW e \in {f \in Forms!Usage : f.event = "page_leave" /\ f.page = v.page}, e.payload.closed,
                    \A f \in {g \in Forms!Usage : g.event = "page_leave" /\ g.page = v.page} :
                      f.session = v.session /\ f.user = v.user
             PROVE  \E d \in Forms!Durations(Forms!Usage, 0, Forming.time + 1) : d.page = v.page
    BY DEF Forms!ClosedIsReported
<1>1. PICK T : Tells(T, tab, Over, visible, shown, now)
    BY DEF UsageInvariant, Tells0
<1>2. /\ IsFiniteSet(UsageOf(tab)) /\ Told(T, UsageOf(tab), tab, Over, shown, now)
      /\ Numbered(UsageOf(tab)) /\ Matched(UsageOf(tab)) /\ Gapless(UsageOf(tab), tab)
    BY <1>1 DEF UsageInvariant, Tells
<1>3. now \in Nat /\ Forming.time \in Nat /\ now <= Forming.time
    BY BrowserAssumption DEF UsageInvariant
<1>4. Forms!Usage = UsageOf(tab)
    BY DEF Forms!Usage, UsageOf
<1>5. Forms!InWindow(Forms!Usage, 0, Forming.time + 1) = UsageOf(tab)
    <2> SUFFICES ASSUME NEW f \in UsageOf(tab) PROVE f.at >= 0 /\ f.at < Forming.time + 1
        BY <1>4 DEF Forms!InWindow
    <2>1. f.at \in Nat /\ f.at <= now
        BY <1>2 DEF Told
    <2> QED BY <1>3, <2>1
<1>6. PICK S : S = Forms!SegmentsOf(UsageOf(tab), v)
    OBVIOUS
<1>7. S = {f \in UsageOf(tab) : f.event = "page_leave" /\ f.page = v.page}
    <2> SUFFICES ASSUME NEW f \in UsageOf(tab), f.event = "page_leave", f.page = v.page PROVE f \in S
        BY <1>6 DEF Forms!SegmentsOf
    <2>1. f \in Leaves(UsageOf(tab)) /\ v \in Views(UsageOf(tab))
        BY <1>4 DEF Leaves, Views
    <2>2. f.route = v.route /\ f.at >= v.at
        BY <1>2, <2>1 DEF Matched
    <2> QED BY <1>4, <1>6, <2>2 DEF Forms!SegmentsOf
<1>8. e \in S /\ \A f \in S : f \in Leaves(UsageOf(tab)) /\ f \in UsageOf(tab) /\ f.page = v.page
    BY <1>4, <1>7 DEF Leaves
<1>9. PICK n : n = e.payload.sequence
    OBVIOUS
<1>10. n \in Nat /\ \A f \in S : f.payload.sequence \in Nat /\ f.payload.sequence > 0
    BY <1>2, <1>7, <1>8, <1>9 DEF Told
<1>11. \A f \in S : f.payload.sequence \in 1 .. n
    <2>1. \A f \in S : f.payload.sequence <= n
        BY <1>2, <1>8, <1>9 DEF Numbered
    <2> QED BY <1>10, <2>1
<1>12. \A f, g \in S : f.payload.sequence = g.payload.sequence => f = g
    BY <1>2, <1>8 DEF Numbered
<1>13. \A i \in 1 .. n : \E f \in S : f.payload.sequence = i
    <2> SUFFICES ASSUME NEW i \in 1 .. n PROVE \E f \in S : f.payload.sequence = i
        OBVIOUS
    <2>1. PICK f \in Leaves(UsageOf(tab)) : f.page = e.page /\ f.payload.sequence = i
        BY <1>2, <1>8, <1>9 DEF Gapless
    <2>2. f \in S
        BY <1>7, <1>8, <2>1 DEF Leaves
    <2> QED BY <2>1, <2>2
<1>14. IsFiniteSet(S)
    BY <1>2, <1>7, FS_Subset
<1>15. Numbers(S) = 1 .. n /\ Cardinality(S) = n
    BY <1>10, <1>11, <1>12, <1>13, <1>14, NoGap
<1>16. \A f \in S : f.payload.closed <=> f.payload.sequence = n
    <2> SUFFICES ASSUME NEW f \in S PROVE f.payload.closed <=> f.payload.sequence = n
        OBVIOUS
    <2>1. f.payload.closed => n <= f.payload.sequence
        BY <1>2, <1>8, <1>9 DEF Numbered
    <2>2. f.payload.sequence = n => f = e
        BY <1>8, <1>9, <1>12
    <2>3. f.payload.closed => f.payload.sequence = n
        BY <1>10, <1>11, <2>1
    <2> QED BY <2>2, <2>3
<1>17. Forms!Complete(S)
    BY <1>8, <1>15, <1>16, CountedAlike DEF Forms!Complete, Numbers
<1>18. PICK W : W = UsageOf(tab)
    OBVIOUS
<1>19. v \in {f \in W : f.event = "page_view" /\ Forms!Complete(Forms!SegmentsOf(W, f))}
    BY <1>4, <1>6, <1>17, <1>18
<1>20. PICK d : d = [page |-> v.page, time |-> Forms!MapThenSumSet(Lasting, Forms!SegmentsOf(W, v))]
    OBVIOUS
<1>21. d \in Forms!Durations(Forms!Usage, 0, Forming.time + 1) /\ d.page = v.page
    BY <1>5, <1>18, <1>19, <1>20 DEF Forms!Durations, Lasting
<1> QED BY <1>21

-----------------------------------------------------------------------------
\* The parts.

\* What the part that moves relies on.
BrowserInvariant ==
    /\ part = "policy" => PolicyInvariant
    /\ part = "forms" => FormInvariant /\ UsageInvariant(Forming)
    /\ part = "hooked" => UsageInvariant(Hooking)

\* The parts begin as they say.
LEMMA BrowserBegins == BrowserInit => BrowserInvariant
<1> SUFFICES ASSUME BrowserInit PROVE BrowserInvariant
    OBVIOUS
<1>1. /\ part = "policy" => Policy!Init
      /\ part = "forms" => Forms!Init
      /\ part = "hooked" => Hooked!Init
    BY DEF BrowserInit
<1> QED BY <1>1, PolicyBegins, FormsBegin, FormsUsageBegins, HookedUsageBegins DEF BrowserInvariant

\* One part moves.
LEMMA BrowserMoves ==
    BrowserInvariant /\ BrowserNext
        => BrowserInvariant' /\ (part = "policy" => Policy!KeepsNewerPolicy /\ Policy!ShowsNewerPolicy)
<1> SUFFICES ASSUME BrowserInvariant, BrowserNext
             PROVE  BrowserInvariant' /\ (part = "policy" => Policy!KeepsNewerPolicy /\ Policy!ShowsNewerPolicy)
    OBVIOUS
<1>1. /\ UNCHANGED part
      /\ part = "policy" => Policy!Next
      /\ part = "forms" => Forms!Next
      /\ part = "hooked" => Hooked!Next
    BY DEF BrowserNext, Elsewhere
<1>2. part = "policy" => PolicyInvariant' /\ Policy!KeepsNewerPolicy /\ Policy!ShowsNewerPolicy
    BY <1>1, PolicyKept DEF BrowserInvariant
<1>3. part = "forms" => FormInvariant' /\ UsageInvariant(Forming)'
    BY <1>1, FormsKept, FormsUsageKept DEF BrowserInvariant
<1>4. part = "hooked" => UsageInvariant(Hooking)'
    BY <1>1, HookedUsageKept DEF BrowserInvariant
<1> QED BY <1>1, <1>2, <1>3, <1>4 DEF BrowserInvariant

\* Or nothing moves.
LEMMA BrowserStands == BrowserInvariant /\ UNCHANGED browserVars => BrowserInvariant'
<1> SUFFICES ASSUME BrowserInvariant, UNCHANGED browserVars PROVE BrowserInvariant'
    OBVIOUS
<1>1. UNCHANGED part /\ UNCHANGED <<now, policyVars>> /\ UNCHANGED <<now, visible, parked, hook, tab, shown>>
    BY DEF browserVars, vars, sessionVars
<1>2. PolicyInvariant => PolicyInvariant'
    BY <1>1 DEF policyVars, PolicyInvariant, Policy!TypeOK, Policy!Revision, Reported, Asked
<1>3. FormInvariant => FormInvariant'
    BY <1>1, StepFits DEF FormInvariant
<1>4. (UsageInvariant(Forming) <=> UsageInvariant(Forming)') /\ (UsageInvariant(Hooking) <=> UsageInvariant(Hooking)')
    <2>1. \A T : Tells0(T) <=> Tells0(T)'
        BY <1>1 DEF Tells0, Tells, Tidy, Shaped, UsageOf, Told, Numbered, Leaves, Matched, Views, Running, Over
    <2>2. Gapless(UsageOf(tab), tab) <=> Gapless(UsageOf(tab), tab)'
        BY <1>1 DEF Gapless, UsageOf, Leaves
    <2> QED BY <1>1, <2>1, <2>2 DEF UsageInvariant
<1> QED BY <1>1, <1>2, <1>3, <1>4 DEF BrowserInvariant

\* What the parts rely on holds throughout.
LEMMA BrowserInvariantHolds == BrowserSpec => []BrowserInvariant
<1>1. BrowserInvariant /\ [BrowserNext]_browserVars => BrowserInvariant'
    BY BrowserMoves, BrowserStands
<1> QED BY <1>1, BrowserBegins, PTL DEF BrowserSpec

\* The policy a page runs under is never replaced by an older one, whatever the order in which
\* the answers of overlapping requests come back, and the operations page never falls back to an
\* older one (sync, observe).
THEOREM PoliciesAdvance == BrowserSpec => PolicyAdvances
<1>1. BrowserInvariant /\ [BrowserNext]_browserVars
        => [part = "policy" => Policy!KeepsNewerPolicy /\ Policy!ShowsNewerPolicy]_browserVars
    BY BrowserMoves
<1> QED BY <1>1, BrowserInvariantHolds, PTL DEF BrowserSpec, PolicyAdvances

\* A form summary names the user who filled the form in, and the result of a business operation
\* is told in the session and for the user of its start, or not at all (FormCollector.settle,
\* terminal).
THEOREM ContextIsKept == BrowserSpec => []InContext
<1>1. BrowserInvariant => InContext
    BY DEF BrowserInvariant, FormInvariant, FormFits, InItsContext, InContext, Forms!SummaryKeepsUser,
           Forms!ResultInContext
<1> QED BY <1>1, BrowserInvariantHolds, PTL

\* Whatever of the page_view and page_leave events arrives, and whatever window is asked for, each
\* duration the server tells is the time the page view was visible, and nothing but a change of the
\* session or the user keeps a closed page view of a hook that accepts everything from being told
\* (settleVisiblePage, endPage, emitPageView; InWindow, SegmentsOf, Complete, Durations).
THEOREM UsageStaysTrue == BrowserSpec => []UsageIsTrue
<1>1. BrowserInvariant => UsageIsTrue
    BY HookedReported, FormsReported, FormsClosed DEF BrowserInvariant, UsageIsTrue
<1> QED BY <1>1, BrowserInvariantHolds, PTL
=============================================================================
