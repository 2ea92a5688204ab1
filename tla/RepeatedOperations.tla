-------------------------- MODULE RepeatedOperations --------------------------
(***************************************************************************)
(* Operations on one business object that a user repeats within a day.     *)
(* The API publishes the operations of a request on the object topic and   *)
(* its events on the event topic in one Kafka transaction.  The consumer   *)
(* of the object topic inserts the operations into a table that forgets    *)
(* them after two days, reads what is there and stores, for good, receipts *)
(* and the witnesses of three operations (projectRepeatedOperations); a    *)
(* query joins them with the event rows (readRepeatedRate).                *)
(*                                                                         *)
(* Two processes may hold a message of the one partition of a project,     *)
(* after a rebalance; any step may fail after it took effect, and the      *)
(* message is then delivered again.  A call is short: it does not last     *)
(* from one unit of time to the next, and rows are only merged away when   *)
(* the cutoff of the query already hides them.                             *)
(***************************************************************************)
EXTENDS Integers, FiniteSets, Sequences, FiniteSetsExt

CONSTANTS
    Operations,   \* started operations, all by one user
    Batches,      \* the operations a request carries
    TimeOf,           \* the browser's time of each
    Session,      \* the session of each
    Aliases,      \* digests of the object of each, one per overlapping key epoch
    Day,
    Consumers,
    From, To,     \* the query window
    MaxTime, MaxMessages   \* bounds

VARIABLES
    now,
    log,         \* external: both topics, [operations, received] of each accepted request
    committed,   \* external: the offset of the object topic
    stored,      \* how many messages of the event topic have their rows in raw_events
    refs,        \* object_operation_refs
    proofs,      \* repeated_operation_proofs
    consumer     \* projectRepeatedOperations() in each process

vars == <<now, log, committed, stored, refs, proofs, consumer>>

Idle == [pc |-> "idle", message |-> 0, processed |-> 0, visible |-> {}]

Init ==
    /\ now = 0 /\ log = <<>> /\ committed = 0 /\ stored = 0
    /\ refs = {} /\ proofs = {}
    /\ consumer = [c \in Consumers |-> Idle]

Within(s, t, d) == s - t <= d /\ t - s <= d

\* A request, or the retry of one: at most a day from the browser's time (verifyObjectOperation).
Accept(S) ==
    /\ Len(log) < MaxMessages
    /\ \A o \in S : Within(TimeOf[o], now, Day)
    /\ log' = Append(log, [operations |-> S, received |-> now])
    /\ UNCHANGED <<now, committed, stored, refs, proofs, consumer>>

\* The consumer of the event topic stores the rows of the next message.
StoreEvents ==
    /\ stored < Len(log)
    /\ stored' = stored + 1
    /\ UNCHANGED <<now, log, committed, refs, proofs, consumer>>

\* parseObjectOperations(): what waited for two days is dead-lettered, which resolves it.
Overdue(m) == now - m.received >= 2 * Day

Take(c) ==
    /\ consumer[c].pc = "idle" /\ committed < Len(log)
    /\ IF Overdue(log[committed + 1])
       THEN committed' = committed + 1 /\ UNCHANGED consumer
       ELSE /\ consumer' = [consumer EXCEPT ![c] =
                 [Idle EXCEPT !.pc = "insert", !.message = committed + 1, !.processed = now]]
            /\ UNCHANGED committed
    /\ UNCHANGED <<now, log, stored, refs, proofs>>

Incoming(c) == log[consumer[c].message]

InsertRefs(c) ==
    /\ consumer[c].pc = "insert"
    /\ refs' = refs \cup {[operation |-> o, received |-> Incoming(c).received] :
                            o \in Incoming(c).operations}
    /\ consumer' = [consumer EXCEPT ![c].pc = "query"]
    /\ UNCHANGED <<now, log, committed, stored, proofs>>

\* The cutoff of the query: whatever was received in the last two days.
Recent(c, r) == r.received > consumer[c].processed - 2 * Day

QueryRefs(c) ==
    /\ consumer[c].pc = "query"
    /\ consumer' = [consumer EXCEPT ![c].pc = "prove",
                                    ![c].visible = {r \in refs : Recent(c, r)}]
    /\ UNCHANGED <<now, log, committed, stored, refs, proofs>>

\* repeatedProofs(): each operation once, as it was received first.
Unique(R) == {r \in R : \A q \in R : q.operation = r.operation => r.received <= q.received}

Groups(U) == {{r \in U : a \in Aliases[r.operation]} : a \in UNION {Aliases[r.operation] : r \in U}}

\* Three neighbours of a group in the order of their times, at most a day apart; which order
\* equal times have does not matter to what is hit.
Neighbours(G, T) == \A g \in G \ T : \/ \A t \in T : TimeOf[g.operation] <= TimeOf[t.operation]
                                     \/ \A t \in T : TimeOf[g.operation] >= TimeOf[t.operation]
Witnesses(G) == {T \in kSubset(3, G) :
    Neighbours(G, T) /\ \A s, t \in T : Within(TimeOf[s.operation], TimeOf[t.operation], Day)}

Receipt(r, time) == [operation |-> r.operation, received |-> r.received, processed |-> time,
                     hit |-> FALSE, from |-> TimeOf[r.operation], to |-> TimeOf[r.operation],
                     last |-> r.received]
Hit(r, T, time) ==
    LET Ats == {TimeOf[t.operation] : t \in T} IN
    [Receipt(r, time) EXCEPT !.hit = TRUE, !.from = Min(Ats), !.to = Max(Ats),
                             !.last = Max({t.received : t \in T})]

Proofs(R, time) ==
    {Receipt(r, time) : r \in Unique(R)}
    \cup UNION {{Hit(r, T, time) : r \in T} : T \in UNION {Witnesses(G) : G \in Groups(Unique(R))}}

\* What projectRepeatedOperations() keeps of them.
Kept(p, m) == IF p.hit THEN p.last >= m.received ELSE p.operation \in m.operations

InsertProofs(c) ==
    /\ consumer[c].pc = "prove"
    /\ proofs' = proofs \cup {p \in Proofs(consumer[c].visible, consumer[c].processed) :
                                Kept(p, Incoming(c))}
    /\ consumer' = [consumer EXCEPT ![c].pc = "commit"]
    /\ UNCHANGED <<now, log, committed, stored, refs>>

\* The offset of a member that lost the partition is rejected.
Commit(c) ==
    /\ consumer[c].pc = "commit"
    /\ committed' = IF consumer[c].message > committed THEN consumer[c].message ELSE committed
    /\ consumer' = [consumer EXCEPT ![c] = Idle]
    /\ UNCHANGED <<now, log, stored, refs, proofs>>

\* A store fails, perhaps after it did what it was asked, or the process stops.
Fail(c) ==
    /\ consumer[c].pc # "idle"
    /\ consumer' = [consumer EXCEPT ![c] = Idle]
    /\ UNCHANGED <<now, log, committed, stored, refs, proofs>>

Tick ==
    /\ now < MaxTime
    /\ \A c \in Consumers : consumer[c].pc = "idle"
    /\ now' = now + 1
    /\ UNCHANGED <<log, committed, stored, refs, proofs, consumer>>

Next ==
    \/ \E S \in Batches : Accept(S)
    \/ StoreEvents
    \/ \E c \in Consumers :
         Take(c) \/ InsertRefs(c) \/ QueryRefs(c) \/ InsertProofs(c) \/ Commit(c) \/ Fail(c)
    \/ Tick

Spec == Init /\ [][Next]_vars

-----------------------------------------------------------------------------
\* The query at asOf = now (readRepeatedRate), for one module whose pages did not change.

\* Whose event rows are there, a day around the window, and what of them is in the window.
Required == {o \in UNION {log[n].operations : n \in 1 .. stored} :
               TimeOf[o] >= From - Day /\ TimeOf[o] < To + Day /\ TimeOf[o] <= now}
Starts == {o \in Required : TimeOf[o] >= From /\ TimeOf[o] < To}

Receipts == {o \in Required : \E p \in proofs : p.operation = o /\ p.to <= now}

Related == {Session[o] : o \in Starts}
Hits == {s \in Related : \E p \in proofs :
           /\ p.hit /\ Session[p.operation] = s
           /\ p.from >= From - Day /\ p.to < To + Day /\ p.to <= now}

Available == Starts # {} /\ Receipts = Required /\ now >= To + 2 * Day

-----------------------------------------------------------------------------
\* Properties.

TypeOK ==
    /\ now \in 0 .. MaxTime /\ committed \in 0 .. Len(log) /\ stored \in 0 .. Len(log)
    /\ refs \subseteq [operation: Operations, received: 0 .. MaxTime]
    /\ \A c \in Consumers :
         /\ consumer[c].pc \in {"idle", "insert", "query", "prove", "commit"}
         /\ consumer[c].message \in 0 .. Len(log) /\ consumer[c].visible \subseteq refs

\* The definition: three operations on one object within a day, whenever they arrived.
Repeated(S) == {T \in kSubset(3, S) :
    /\ \A s, t \in T : Within(TimeOf[s], TimeOf[t], Day)
    /\ (\E a \in UNION {Aliases[o] : o \in T} : \A t \in T : a \in Aliases[t])}
SessionsOf(Ts) == {Session[o] : o \in UNION Ts}

\* The last operation of a witness was projected, at each attempt that succeeded, more than two
\* days after another one was received: its row is past the cutoff, or gone.
FirstReceived(o) == Min({log[n].received : n \in {k \in DOMAIN log : o \in log[k].operations}})
Aged(T) == \E o, p \in T : \A q \in proofs :
             q.operation = p /\ ~q.hit => q.processed - 2 * Day >= FirstReceived(o)

\* A rate that is answered counts every session that took part in a repetition among the events
\* the query sees, and no session that did not take part in one, in whatever order, how often and
\* by whom the messages were projected.  It misses those whose operations lie further apart in
\* time of receipt than the short table reaches back (Aged).
RateIsExact ==
    Available =>
        /\ (SessionsOf({T \in Repeated(Required) : ~Aged(T)}) \cap Related) \subseteq Hits
        /\ Hits \subseteq SessionsOf(Repeated(UNION {log[n].operations : n \in DOMAIN log}))
=============================================================================
