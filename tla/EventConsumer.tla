---------------------------- MODULE EventConsumer ----------------------------
(***************************************************************************)
(* The event consumer (class EventConsumerRuntime): batches of messages    *)
(* from Kafka, dead letters, the facts in ClickHouse, the metadata in      *)
(* MySQL and the offsets of the group, with failing stores, retries and    *)
(* pauses, rebalances, stops and crashes.                                  *)
(*                                                                         *)
(* An action ends where the handler awaits; what an await calls may take   *)
(* effect and still be reported as failed.  Kafka itself (KafkaJS and the  *)
(* broker) is external: it hands out batches from the next offset of a     *)
(* member, hides control records and rejects the commit of a member that   *)
(* has lost the partition.                                                 *)
(***************************************************************************)
EXTENDS Naturals, FiniteSets

CONSTANTS
    Consumers,    \* processes of the group
    Partitions,
    Objects,      \* the partitions of the object topic
    Size,         \* records of a partition
    Hidden,       \* transactional control records: never delivered
    Poison,       \* messages that do not parse
    BatchSize,    \* CONSUMER_BATCH_SIZE
    MaxRetries,   \* CONSUMER_MAX_RETRIES
    MaxMoves,     \* bound: rebalances, stops, crashes and withdrawals
    NoOne

Message == Partitions \X (1 .. Size)

ASSUME ConsumerAssumption ==
    /\ NoOne \notin Consumers
    /\ Partitions # {} /\ Objects \subseteq Partitions
    /\ Size \in Nat /\ MaxMoves \in Nat
    /\ BatchSize \in Nat \ {0} /\ MaxRetries \in Nat \ {0}
    /\ Hidden \subseteq Message /\ Poison \subseteq Message \ Hidden

VARIABLES
    owner,        \* external: the member a partition is assigned to
    committed,    \* external: the offset the group would restart from
    member,       \* the state of each process
    stored,       \* messages with rows in raw_events (or repeated_proofs)
    written,      \* messages with details and ingestion status
    dead,         \* messages in the dead letter topic
    withdrawn,    \* messages expired, or not admitted by the registries any more
    outage,       \* a store or the dead letter topic fails
    moves

vars == <<owner, committed, member, stored, written, dead, withdrawn, outage, moves>>

Offset == 1 .. Size + 1

\* eachBatch() between two awaits: the dead letters of the parser, those of
\* the governance checks, and the writes after the insertion.
Job == [pc: {"idle", "parse", "govern", "write"},
        part: Partitions, first: Offset, upto: Offset,
        todo: SUBSET Message,    \* what the current loop has left
        good: SUBSET Message]    \* messages to store

Member == [running: BOOLEAN, ready: BOOLEAN,
           next: [Partitions -> Offset \cup {0}],   \* offset to fetch; 0 when not assigned
           paused: SUBSET Message,                 \* attempt keys of the paused partitions
           attempts: [Message -> 0 .. MaxRetries],
           job: Job]

Started ==
    [running |-> TRUE, ready |-> TRUE, next |-> [p \in Partitions |-> 0], paused |-> {},
     attempts |-> [m \in Message |-> 0],
     job |-> [pc |-> "idle", part |-> CHOOSE p \in Partitions : TRUE, first |-> 1, upto |-> 1,
              todo |-> {}, good |-> {}]]

Init ==
    /\ owner = [p \in Partitions |-> NoOne]
    /\ committed = [p \in Partitions |-> 1]
    /\ member = [c \in Consumers |-> Started]
    /\ stored = {} /\ written = {} /\ dead = {} /\ withdrawn = {}
    /\ outage = FALSE /\ moves = 0

Stores == <<stored, written, dead>>
Kafka == <<owner, committed>>
World == <<withdrawn, outage, moves>>

-----------------------------------------------------------------------------
\* The member k once its handler has returned, and once its catch block has
\* run: a few failures are thrown back to KafkaJS, which fetches the batch
\* again, and one more pauses the partition.  Attempts are counted per topic,
\* partition and first offset of the batch.

Key(k) == <<k.job.part, k.job.first>>
Returned(k) == [k EXCEPT !.job = Started.job]

\* Mutant: a batch is thrown back for ever.
CaughtMutant(k) == [Returned(k) EXCEPT !.attempts[Key(k)] = @ + 1]

Caught(k) ==
    LET n == k.attempts[Key(k)] + 1
        r == [Returned(k) EXCEPT !.attempts[Key(k)] = n]
    IN  IF ~k.running \/ n < MaxRetries THEN r
        ELSE [r EXCEPT !.paused = @ \cup {Key(k)}, !.ready = FALSE]

\* Where a working member goes next, or its catch block when the call is
\* reported as failed.
Proceed(c, next) ==
    \/ member' = [member EXCEPT ![c] = next]
    \/ outage /\ member' = [member EXCEPT ![c] = Caught(@)]

Idle(c) == member[c].job.pc = "idle"
At(c, pc) == member[c].job.pc = pc
Todo(c) == member[c].job.todo

\* The loops of the handler go through a batch in the order of its offsets.
IsNext(c, m) == m \in Todo(c) /\ \A q \in Todo(c) : m[2] <= q[2]

-----------------------------------------------------------------------------
\* Fetching.

Limit(p) == IF p \in Objects THEN 1 ELSE BatchSize
Visible(p, from, to) == {o \in from .. to : <<p, o>> \notin Hidden}
UpTo(seen, last) == {o \in seen : o <= last}

CanFetch(c, p) ==
    /\ member[c].running /\ Idle(c)
    /\ member[c].next[p] # 0
    /\ \A m \in member[c].paused : m[1] # p

\* What the parser rejects: on the object topic also what has expired.
Rejected(p) == IF p \in Objects THEN Poison \cup withdrawn ELSE Poison

\* Mutant: the unread suffix is resolved with the slice.
SliceMutant(p, seen, first, last, to) ==
    LET batch == {<<p, o>> : o \in UpTo(seen, last)}
    IN  [pc |-> "parse", part |-> p, first |-> first,
         upto |-> to + 1,
         todo |-> batch \cap Rejected(p), good |-> batch \ Rejected(p)]

\* Mutant: a message that does not parse stays among the rows.
SliceStoreMutant(p, seen, first, last, to) ==
    LET batch == {<<p, o>> : o \in UpTo(seen, last)}
    IN  [pc |-> "parse", part |-> p, first |-> first,
         upto |-> (IF UpTo(seen, last) = seen THEN to ELSE last) + 1,
         todo |-> batch \cap Rejected(p), good |-> batch]

\* The slice from "first" to "last" of what the handler sees of a range that
\* ends at "to".  KafkaJS resolves the hidden tail with the last message it has
\* delivered.
Slice(p, seen, first, last, to) ==
    LET batch == {<<p, o>> : o \in UpTo(seen, last)}
    IN  [pc |-> "parse", part |-> p, first |-> first,
         upto |-> (IF UpTo(seen, last) = seen THEN to ELSE last) + 1,
         todo |-> batch \cap Rejected(p), good |-> batch \ Rejected(p)]

Fetch(c, p, to) ==
    LET seen == Visible(p, member[c].next[p], to)
    IN  /\ CanFetch(c, p)
        /\ \E first, last \in seen :
              /\ \A o \in seen : first <= o
              /\ \/ Cardinality(UpTo(seen, last)) = Limit(p)
                 \/ UpTo(seen, last) = seen /\ Cardinality(seen) < Limit(p)
              /\ member' = [member EXCEPT ![c].job = Slice(p, seen, first, last, to)]
        /\ UNCHANGED <<Kafka, Stores, World>>

\* A range of control records never reaches the handler.
Skip(c, p, to) ==
    /\ CanFetch(c, p)
    /\ to >= member[c].next[p] /\ Visible(p, member[c].next[p], to) = {}
    /\ member' = [member EXCEPT ![c].next[p] = to + 1]
    /\ committed' = IF owner[p] = c THEN [committed EXCEPT ![p] = to + 1] ELSE committed
    /\ UNCHANGED <<owner, Stores, World>>

-----------------------------------------------------------------------------
\* The handler.

\* Mutant: a dead letter is resolved at once, as it was before the rows of the
\* slice and their metadata had to be durable.
DeadLetterMutant(c) ==
    /\ At(c, "parse") \/ At(c, "govern")
    /\ \E m \in Todo(c) :
          /\ IsNext(c, m)
          /\ dead' = dead \cup {m}
          /\ LET k == [member[c] EXCEPT !.job.todo = @ \ {m}, !.next[member[c].job.part] = m[2] + 1]
             IN  member' = [member EXCEPT ![c] = k] \/ member' = [member EXCEPT ![c] = Caught(k)]
    /\ UNCHANGED <<Kafka, stored, written, World>>

\* deadLetter() of the next message that does not parse, or that the
\* registries do not admit.
DeadLetter(c) ==
    /\ At(c, "parse") \/ At(c, "govern")
    /\ \E m \in Todo(c) :
          /\ IsNext(c, m)
          /\ dead' = dead \cup {m}
          /\ Proceed(c, [member[c] EXCEPT !.job.todo = @ \ {m}])
    /\ UNCHANGED <<Kafka, stored, written, World>>

\* The registries are read once for the slice and judge each message of it.
ReadRegistries(c) ==
    LET good == member[c].job.good
    IN  /\ At(c, "parse") /\ Todo(c) = {} /\ member[c].job.part \notin Objects
        /\ member' = [member EXCEPT ![c].job.pc = "govern",
                                    ![c].job.todo = good \cap withdrawn,
                                    ![c].job.good = good \ withdrawn]
        /\ UNCHANGED <<Kafka, Stores, World>>

\* The rows of the slice, in one insertion.
Insert(c) ==
    LET good == member[c].job.good
    IN  /\ At(c, "govern") /\ Todo(c) = {}
        /\ stored' = stored \cup good
        /\ Proceed(c, [member[c] EXCEPT !.job.pc = "write", !.job.todo = good])
        /\ UNCHANGED <<Kafka, written, dead, World>>

\* projectRepeatedOperations() for a message of the object topic.
Project(c) ==
    LET good == member[c].job.good
    IN  /\ At(c, "parse") /\ Todo(c) = {} /\ member[c].job.part \in Objects
        /\ stored' = stored \cup good
        /\ written' = written \cup good
        /\ Proceed(c, [member[c] EXCEPT !.job.pc = "write"])
        /\ UNCHANGED <<Kafka, dead, World>>

\* The details and the ingestion status of the next message of the slice.
Write(c) ==
    /\ At(c, "write")
    /\ \E m \in Todo(c) :
          /\ IsNext(c, m)
          /\ written' = written \cup {m}
          /\ Proceed(c, [member[c] EXCEPT !.job.todo = @ \ {m}])
    /\ UNCHANGED <<Kafka, stored, dead, World>>

\* An await fails and has done nothing.
Fail(c) ==
    /\ outage /\ ~Idle(c)
    /\ member' = [member EXCEPT ![c] = Caught(@)]
    /\ UNCHANGED <<Kafka, Stores, World>>

Resolved(k) == [k EXCEPT !.next[k.job.part] = k.job.upto]
Forgotten(k) == IF k.job.part \in Objects THEN k ELSE [k EXCEPT !.attempts[Key(k)] = 0]

\* The slice is resolved and committed, unless the partition has been lost; the
\* attempts are forgotten (not on the object topic).  The heartbeat, or the
\* cleanup after it, may fail.
Finish(c) ==
    LET k == Resolved(member[c])
        p == k.job.part
        mine == owner[p] = c
        late == IF outage THEN {Caught(k), Caught(Forgotten(k))} ELSE {}
    IN  /\ At(c, "write") /\ Todo(c) = {}
        /\ committed' = IF mine THEN [committed EXCEPT ![p] = k.next[p]] ELSE committed
        /\ \E r \in IF mine THEN late \cup {Returned(Forgotten(k))} ELSE {Caught(k)} :
              member' = [member EXCEPT ![c] = r]
        /\ UNCHANGED <<owner, Stores, World>>

\* The slice is resolved and its commit fails.
FinishUncommitted(c) ==
    /\ outage
    /\ At(c, "write") /\ Todo(c) = {}
    /\ member' = [member EXCEPT ![c] = Caught(Resolved(@))]
    /\ UNCHANGED <<Kafka, Stores, World>>

\* KafkaJS commits what has been resolved.
AutoCommit(c, p) ==
    /\ owner[p] = c /\ member[c].next[p] > committed[p]
    /\ committed' = [committed EXCEPT ![p] = member[c].next[p]]
    /\ UNCHANGED <<owner, member, Stores, World>>

\* Mutant: a member that is ready has nothing to resume.
ResumeMutant(c, key) ==
    /\ key \in member[c].paused /\ ~member[c].ready
    /\ member' = [member EXCEPT ![c].paused = @ \ {key}, ![c].attempts[key] = 0, ![c].ready = TRUE]
    /\ UNCHANGED <<Kafka, Stores, World>>

\* The timer of a pause.
Resume(c, key) ==
    /\ key \in member[c].paused
    /\ member' = [member EXCEPT ![c].paused = @ \ {key}, ![c].attempts[key] = 0, ![c].ready = TRUE]
    /\ UNCHANGED <<Kafka, Stores, World>>

-----------------------------------------------------------------------------
\* The group.

\* A member joins, or takes a partition over, and starts from the offset of the
\* group; the member that had the partition may still be at work.
Assign(c, p) ==
    /\ member[c].running /\ Idle(c)
    /\ owner[p] # c
    /\ owner[p] = NoOne \/ moves < MaxMoves
    /\ moves' = IF owner[p] = NoOne THEN moves ELSE moves + 1
    /\ owner' = [owner EXCEPT ![p] = c]
    /\ member' = [member EXCEPT ![c].next[p] = committed[p]]
    /\ UNCHANGED <<committed, Stores, withdrawn, outage>>

\* A member joins the group again: it learns what it has lost, and reads its
\* other partitions from the offset of the group.
Rejoin(c) ==
    LET next == [p \in Partitions |-> IF owner[p] = c THEN committed[p] ELSE 0]
    IN  /\ Idle(c)
        /\ next # member[c].next
        /\ member' = [member EXCEPT ![c].next = next]
        /\ UNCHANGED <<Kafka, Stores, World>>

\* SIGTERM: stop() waits for the handler.
Stop(c) ==
    /\ member[c].running /\ moves < MaxMoves
    /\ moves' = moves + 1
    /\ member' = [member EXCEPT ![c].running = FALSE, ![c].ready = FALSE]
    /\ UNCHANGED <<Kafka, Stores, withdrawn, outage>>

\* The process ends, by itself or killed, and is started again.
Restart(c) ==
    /\ \/ ~member[c].running /\ Idle(c) /\ moves' = moves
       \/ member[c].running /\ moves < MaxMoves /\ moves' = moves + 1
    /\ member' = [member EXCEPT ![c] = Started]
    /\ owner' = [p \in Partitions |-> IF owner[p] = c THEN NoOne ELSE owner[p]]
    /\ UNCHANGED <<committed, Stores, withdrawn, outage>>

\* A registry changes, or time passes: a message accepted before is not
\* admitted any more.
Withdraw(m) ==
    /\ m \notin withdrawn \cup Hidden \cup Poison
    /\ moves < MaxMoves
    /\ moves' = moves + 1
    /\ withdrawn' = withdrawn \cup {m}
    /\ UNCHANGED <<Kafka, member, Stores, outage>>

Outage ==
    /\ outage' = ~outage
    /\ UNCHANGED <<Kafka, member, Stores, withdrawn, moves>>

Step(c) ==
    \/ \E p \in Partitions, to \in 1 .. Size : Fetch(c, p, to) \/ Skip(c, p, to)
    \/ DeadLetter(c) \/ ReadRegistries(c) \/ Insert(c) \/ Project(c) \/ Write(c)
    \/ Finish(c)

Next ==
    \/ \E c \in Consumers :
          \/ Step(c) \/ Fail(c) \/ FinishUncommitted(c) \/ Rejoin(c) \/ Stop(c) \/ Restart(c)
          \/ \E p \in Partitions : AutoCommit(c, p) \/ Assign(c, p)
          \/ \E key \in Message : Resume(c, key)
    \/ \E m \in Message : Withdraw(m)
    \/ Outage

Spec == Init /\ [][Next]_vars

\* A process goes on, its timers fire, it is started again after a stop, and
\* the group assigns its partitions.  Nothing is assumed of the stores.
LiveSpec ==
    /\ Spec
    /\ \A c \in Consumers :
          /\ WF_vars(Step(c))
          /\ \A key \in Message : WF_vars(Resume(c, key))
          /\ WF_vars(~member[c].running /\ Restart(c))
    /\ \A p \in Partitions : WF_vars(owner[p] = NoOne /\ \E c \in Consumers : Assign(c, p))

-----------------------------------------------------------------------------
\* Every variable has its type; in particular an offset never passes the end of the
\* log and attempts never exceed MaxRetries (the catch block of eachBatch).
TypeOK ==
    /\ owner \in [Partitions -> Consumers \cup {NoOne}]
    /\ committed \in [Partitions -> Offset]
    /\ member \in [Consumers -> Member]
    /\ stored \subseteq Message /\ written \subseteq Message /\ dead \subseteq Message
    /\ withdrawn \subseteq Message
    /\ outage \in BOOLEAN /\ moves \in 0 .. MaxMoves

\* Everything below offset n of p is done with.
Done(p, n) == \A o \in 1 .. n - 1 : <<p, o>> \in Hidden \cup written \cup dead

(***************************************************************************)
(* Neither the group's offset nor the offset a member goes on from ever    *)
(* skips a message whose facts, details and status are not written and     *)
(* that is not in the dead letter topic (the comment before resolveOffset  *)
(* in eachBatch: auto-commit must never skip failed writes), whichever     *)
(* call of a slice fails, and whoever has the partition.                   *)
(***************************************************************************)
NothingSkipped ==
    \A p \in Partitions :
        /\ Done(p, committed[p])
        /\ \A c \in Consumers : member[c].next[p] # 0 => Done(p, member[c].next[p])

(***************************************************************************)
(* A message has one outcome, however often it is delivered: only one that *)
(* the registries stopped admitting (or that expired) between deliveries   *)
(* can be both stored and set aside; what does not parse is never stored   *)
(* and a message that is admitted throughout is never set aside.           *)
(***************************************************************************)
OneOutcome ==
    /\ stored \cap Poison = {}
    /\ dead \subseteq Poison \cup withdrawn

(***************************************************************************)
(* The consumer group implements the abstract delivery: facts are stored   *)
(* before what depends on them, and the group's offset only moves forward  *)
(* and only over messages that are done with.                              *)
(***************************************************************************)
Delivery == INSTANCE EventDelivery
DeliverySpec == Delivery!Spec

(***************************************************************************)
(* Once the stores stay up, every message of the log is done with: no      *)
(* failure before that, no poison message, pause, rebalance, stop or crash *)
(* leaves a partition behind.  (The offset of the group may lag: a failed  *)
(* commit of the last message is not tried again before the next one.)     *)
(***************************************************************************)
CatchesUp == <>[]~outage => <>(\A p \in Partitions : Done(p, Size + 1))

(***************************************************************************)
(* The guide says that the consumer becomes not ready when it pauses a     *)
(* partition, until it resumes.                                            *)
(***************************************************************************)
ReadyMeansReading == \A c \in Consumers : member[c].ready => member[c].paused = {}

=============================================================================
