-------------------------- MODULE DiagnosticReceipts --------------------------
(***************************************************************************)
(* The life of one project's diagnostic evidence across the API, Kafka and *)
(* the consumer: admission under a durable receipt                         *)
(* (RuntimeDiagnostics.admit), the publication of the admitted envelope    *)
(* (IngestionManager.accept), its persistence by at-least-once consumers   *)
(* (RuntimeDiagnostics.persist), deletion by an administrator              *)
(* (DiagnosticOperations.remove) and the physical cleanup                  *)
(* (DiagnosticOperations.cleanup, RuntimeDiagnostics.cleanup).             *)
(*                                                                         *)
(* An envelope is abstracted to its status: "captured" is the one that     *)
(* carries raw evidence, and a storage digest is the status it was taken   *)
(* of.  The columns of table diagnostic_receipts are the four functions    *)
(* state, storage, input and createdAt; state[e] = "none" is a missing     *)
(* row.                                                                    *)
(***************************************************************************)
EXTENDS Naturals, FiniteSets, Sequences

CONSTANTS
    Events,        \* event ids of one project, each with a diagnostic envelope
    Pages,         \* page views
    PageOf,        \* the page view of each event
    Client,        \* the status of the envelope the SDK sent with each event
    Requests,      \* ingestion requests in flight at once
    Workers,       \* consumers that may hold the partition, zombies included
    Policies,      \* the diagnostic policies an administrator may publish
    DefaultPolicy, \* DEFAULT_DIAGNOSTIC_POLICY
    PageLimit,     \* DIAGNOSTIC_LIMITS.envelopesPerMinute
    WindowKeep,    \* minutes a rate window outlives before it is deleted
    MaxBatch,      \* bound: events of one request
    MaxMinute,     \* bound: minutes of the server's clock
    Deletable,     \* bound: events an administrator deletes
    ClockAhead,    \* events stamped by a client clock ahead of the server's
    MaxDirectory   \* bound: publications of the organization directory

Status == {"captured", "rate_limited", "too_large", "unavailable"}

Policy == [enabled: BOOLEAN, refuses: [Events -> {"no", "too_large", "policy_suppressed"}], perMinute: Nat]

ASSUME ReceiptAssumption ==
    /\ IsFiniteSet(Events)
    /\ PageOf \in [Events -> Pages]
    /\ Client \in [Events -> Status]
    /\ Policies \subseteq Policy
    /\ DefaultPolicy \in Policies
    /\ PageLimit \in Nat
    /\ WindowKeep \in Nat
    /\ MaxBatch \in Nat
    /\ MaxMinute \in Nat
    /\ Deletable \subseteq Events
    /\ ClockAhead \subseteq Events
    /\ MaxDirectory \in Nat

\* The states a receipt is created in when its raw evidence is not kept.
Suppressed == {"rate_limited", "too_large", "unavailable", "disabled", "deleted", "policy_suppressed"}
Writable == {"pending", "write_failed"}
ReceiptState == {"none", "ready"} \cup Writable \cup Suppressed

VARIABLES
    policy,     \* the row of diagnostic_policies
    state,      \* diagnostic_receipts.state
    storage,    \* diagnostic_receipts.storage_digest
    input,      \* diagnostic_receipts.input_digest
    createdAt,  \* diagnostic_receipts.created_at, in minutes
    admitted,   \* diagnostic_rate_windows.admitted per page and minute
    deletions,  \* the tombstones of diagnostic_deletions
    order,      \* the same tombstones by COALESCE(cleaned_at, created_at)
    sweeping,   \* the tombstone whose details the cleanup has deleted but not marked
    details,    \* events with a row in the ClickHouse table diagnostic_details
    age,        \* of an event's receipt: live, expired or past its 90 days
    minute,     \* the server's clock
    directory,  \* published versions of the organization directory
    req,        \* ingestion requests
    log,        \* the retained messages of the events topic, one per event
    worker      \* consumers inside persist

receiptVars == <<state, storage, input, createdAt>>
vars == <<policy, receiptVars, admitted, deletions, order, sweeping, details, age, minute,
          directory, req, log, worker>>

Message == [event: Events, diagnostic: Status]
Request == [pc: {"idle", "received", "admitted"}, batch: SUBSET Events, minute: 0 .. MaxMinute,
            input: [Events -> Nat], diagnostic: [Events -> Status]]
Consumer == [pc: {"idle", "read", "insert", "inserted", "failed"}, holds: SUBSET Message,
             state: ReceiptState, storage: Status]

NoInput == [e \in Events |-> 0]
IdleRequest == [pc |-> "idle", batch |-> {}, minute |-> 0, input |-> NoInput, diagnostic |-> Client]
\* A consumer holds at most one message and what it read of the receipt.
IdleWorker == [pc |-> "idle", holds |-> {}, state |-> "none", storage |-> "captured"]

Init ==
    /\ policy = DefaultPolicy
    /\ state = [e \in Events |-> "none"]
    /\ storage = Client
    /\ input = NoInput
    /\ createdAt = NoInput
    /\ admitted = [p \in Pages |-> [w \in 0 .. MaxMinute |-> 0]]
    /\ deletions = {}
    /\ order = <<>>
    /\ sweeping = {}
    /\ details = {}
    /\ age = [e \in Events |-> "live"]
    /\ minute = 0
    /\ directory = 0
    /\ req = [r \in Requests |-> IdleRequest]
    /\ log = {}
    /\ worker = [w \in Workers |-> IdleWorker]

-----------------------------------------------------------------------------
\* The API.

\* sanitize() writes the department and role that the directory in force gives
\* the user into the event before its input digest is taken; a publication is
\* in force for the events stamped at or after it.
Attribution(e) == IF e \in ClockAhead THEN directory ELSE 0

\* accept(): the batch is read and sanitized; nowMs is read here and used later.
\* The SDK repeats a batch whenever the answer to it was lost, so an event may
\* be received any number of times, also by two requests at once.
Receive(r, batch) ==
    /\ req[r].pc = "idle"
    /\ batch # {} /\ Cardinality(batch) <= MaxBatch
    /\ \A e \in batch : age[e] # "retired"
    /\ req' = [req EXCEPT ![r] =
                 [pc |-> "received", batch |-> batch, minute |-> minute,
                  input |-> [e \in Events |-> IF e \in batch THEN Attribution(e) ELSE 0],
                  diagnostic |-> Client]]
    /\ UNCHANGED <<policy, receiptVars, admitted, deletions, order, sweeping, details, age, minute,
                   directory, log, worker>>

\* What admitTransaction decides of a new event, before the page budget.
Verdict(e) ==
    IF e \in deletions THEN "deleted"
    ELSE IF ~policy.enabled THEN "disabled"
    ELSE IF policy.refuses[e] # "no" THEN policy.refuses[e]
    ELSE IF Client[e] # "captured" THEN Client[e]
    ELSE "pending"

\* Mutant: the receipt's state taken for the envelope's status.
AbsentMutant(s) == s

\* absent(): the envelope published in place of one that is not kept.
Absent(s) == IF s \in {"rate_limited", "too_large"} THEN s ELSE "unavailable"

\* Mutant: a rate-limited event is decided again in a later window.
NewMutant(r) == {e \in req[r].batch : state[e] \in {"none", "rate_limited"}}
\* Mutant: an event whose detail failed to be written is decided again.
NewOrFailedMutant(r) == {e \in req[r].batch : state[e] \in {"none", "write_failed"}}
New(r) == {e \in req[r].batch : state[e] = "none"}
Candidates(r) == {e \in New(r) : Verdict(e) = "pending"}
OnPage(p, S) == {e \in S : PageOf[e] = p}
Limit == IF policy.perMinute <= PageLimit THEN policy.perMinute ELSE PageLimit
\* Mutant: the counter of the window is not read.
LeftMutant(p, w) == Limit
Left(p, w) == IF admitted[p][w] >= Limit THEN 0 ELSE Limit - admitted[p][w]

\* The candidates that fit in what is left of their page's minute; which ones
\* they are depends on the order of the batch.
WithinBudget(r, kept) ==
    \A p \in Pages :
        LET wanted == Cardinality(OnPage(p, Candidates(r)))
            left == Left(p, req[r].minute)
        IN  Cardinality(OnPage(p, kept)) = IF wanted <= left THEN wanted ELSE left

\* The state of a new receipt.
Decision(r, kept, e) ==
    IF e \in Candidates(r) \ kept THEN "rate_limited" ELSE Verdict(e)

\* The envelope of a new event as it is published and digested.
Outcome(r, kept, e) ==
    LET d == Decision(r, kept, e)
    IN  IF d = "pending" \/ d = Client[e] THEN Client[e] ELSE Absent(d)

\* Mutant: the retry is published as the SDK sent it.
ReplayedMutant(e) == Client[e]

\* The envelope published again for an event that already has a receipt.
Replayed(e) ==
    IF state[e] \in Suppressed \ {"unavailable"} /\ storage[e] # Client[e]
    THEN Absent(state[e])
    ELSE Client[e]

Conflict(r) == \E e \in req[r].batch : state[e] # "none" /\ input[e] # req[r].input[e]

\* admit(): one transaction under the policy's shared lock, the receipts' unique
\* keys and the windows' row locks.
Admit(r, kept) ==
    /\ req[r].pc = "received"
    /\ ~Conflict(r)
    /\ WithinBudget(r, kept)
    /\ state' = [e \in Events |-> IF e \in New(r) THEN Decision(r, kept, e) ELSE state[e]]
    /\ storage' = [e \in Events |-> IF e \in New(r) THEN Outcome(r, kept, e) ELSE storage[e]]
    /\ input' = [e \in Events |-> IF e \in New(r) THEN req[r].input[e] ELSE input[e]]
    /\ createdAt' = [e \in Events |-> IF e \in New(r) THEN req[r].minute ELSE createdAt[e]]
    /\ admitted' = [p \in Pages |-> [admitted[p] EXCEPT ![req[r].minute] =
                                        @ + Cardinality(OnPage(p, kept))]]
    /\ req' = [req EXCEPT ![r].pc = "admitted",
                          ![r].diagnostic = [e \in Events |->
                              IF e \in New(r) THEN Outcome(r, kept, e)
                              ELSE IF e \in req[r].batch THEN Replayed(e)
                              ELSE Client[e]]]
    /\ UNCHANGED <<policy, deletions, order, sweeping, details, age, minute, directory, log, worker>>

\* 409 DIAGNOSTICS_EVENT_CONFLICT: the transaction is rolled back and the whole
\* batch refused.
Refuse(r) ==
    /\ req[r].pc = "received"
    /\ Conflict(r)
    /\ req' = [req EXCEPT ![r] = IdleRequest]
    /\ UNCHANGED <<policy, receiptVars, admitted, deletions, order, sweeping, details, age, minute,
                   directory, log, worker>>

Envelope(r) == {[event |-> e, diagnostic |-> req[r].diagnostic[e]] : e \in req[r].batch}

\* Kafka acknowledges: 202.
Publish(r) ==
    /\ req[r].pc = "admitted"
    /\ log' = log \cup Envelope(r)
    /\ req' = [req EXCEPT ![r] = IdleRequest]
    /\ UNCHANGED <<policy, receiptVars, admitted, deletions, order, sweeping, details, age, minute,
                   directory, worker>>

\* A database error, a crash of the API or a Kafka failure (503).  A publication
\* that reports a failure may have been written.
Fail(r) ==
    /\ req[r].pc # "idle"
    /\ \/ UNCHANGED log
       \/ req[r].pc = "admitted" /\ log' = log \cup Envelope(r)
    /\ req' = [req EXCEPT ![r] = IdleRequest]
    /\ UNCHANGED <<policy, receiptVars, admitted, deletions, order, sweeping, details, age, minute,
                   directory, worker>>

-----------------------------------------------------------------------------
\* The consumer: persist() for one event of a delivered batch.  A message stays
\* in the log until its retention ends, so it may be delivered again to any
\* consumer: after a failure, a crash or a rebalance.

apiVars == <<policy, admitted, deletions, order, sweeping, minute, directory, req>>

ReadReceipt(w, m) ==
    /\ worker[w].pc = "idle"
    /\ m \in log
    /\ worker' = [worker EXCEPT ![w] = [pc |-> "read", holds |-> {m},
                                       state |-> state[m.event], storage |-> storage[m.event]]]
    /\ UNCHANGED <<apiVars, receiptVars, details, age, log>>

\* The digest of the delivered envelope is not the digest the receipt was read with.
Mismatch(w, m) == worker[w].state = "none" \/ worker[w].storage # m.diagnostic

\* Mutant: a receipt in write_failed is taken for decided.
CheckPendingMutant(w) ==
    /\ worker[w].pc = "read"
    /\ \E m \in worker[w].holds :
         IF m.event \notin deletions /\ ~Mismatch(w, m) /\ worker[w].state = "pending" /\ age[m.event] = "live"
         THEN worker' = [worker EXCEPT ![w].pc = "insert"]
         ELSE worker' = [worker EXCEPT ![w] = IdleWorker]
    /\ UNCHANGED <<apiVars, receiptVars, details, age, log>>

\* isDeleted() comes first; a mismatch then throws DIAGNOSTICS_RECEIPT_MISMATCH
\* and the batch is delivered again; a decided or expired receipt needs nothing.
CheckReceipt(w) ==
    /\ worker[w].pc = "read"
    /\ \E m \in worker[w].holds :
         IF /\ m.event \notin deletions
            /\ ~Mismatch(w, m)
            /\ worker[w].state \in Writable
            /\ age[m.event] = "live"
         THEN worker' = [worker EXCEPT ![w].pc = "insert"]
         ELSE worker' = [worker EXCEPT ![w] = IdleWorker]
    /\ UNCHANGED <<apiVars, receiptVars, details, age, log>>

\* ClickHouse acknowledges the row.
InsertDetail(w) ==
    /\ worker[w].pc = "insert"
    /\ details' = details \cup {m.event : m \in worker[w].holds}
    /\ worker' = [worker EXCEPT ![w].pc = "inserted"]
    /\ UNCHANGED <<apiVars, receiptVars, age, log>>

\* The insert, or the update after it, reports an error; a row may be there.
FailInsert(w) ==
    /\ \/ worker[w].pc = "insert" /\ details' \in {details, details \cup {m.event : m \in worker[w].holds}}
       \/ worker[w].pc = "inserted" /\ UNCHANGED details
    /\ worker' = [worker EXCEPT ![w].pc = "failed"]
    /\ UNCHANGED <<apiVars, receiptVars, age, log>>

\* Mutant: the update does not look at the state it overwrites.
SetStateMutant(w, s) ==
    state' = [e \in Events |-> IF state[e] # "none" /\ \E m \in worker[w].holds : m.event = e
                             THEN s ELSE state[e]]

\* UPDATE diagnostic_receipts SET state=s WHERE state IN ('pending','write_failed')
SetState(w, s) ==
    state' = [e \in Events |-> IF state[e] \in Writable /\ \E m \in worker[w].holds : m.event = e
                             THEN s ELSE state[e]]

\* Mutant: the receipt is updated before the row is written.
MarkReadyMutant(w) ==
    /\ worker[w].pc \in {"insert", "inserted"}
    /\ SetState(w, "ready")
    /\ worker' = [worker EXCEPT ![w] = IdleWorker]
    /\ UNCHANGED <<apiVars, storage, input, createdAt, details, age, log>>

MarkReady(w) ==
    /\ worker[w].pc = "inserted"
    /\ SetState(w, "ready")
    /\ worker' = [worker EXCEPT ![w] = IdleWorker]
    /\ UNCHANGED <<apiVars, storage, input, createdAt, details, age, log>>

MarkFailed(w) ==
    /\ worker[w].pc = "failed"
    /\ SetState(w, "write_failed")
    /\ worker' = [worker EXCEPT ![w] = IdleWorker]
    /\ UNCHANGED <<apiVars, storage, input, createdAt, details, age, log>>

\* The consumer dies, or loses MySQL, between any two of its steps.
Crash(w) ==
    /\ worker[w].pc # "idle"
    /\ worker' = [worker EXCEPT ![w] = IdleWorker]
    /\ UNCHANGED <<apiVars, receiptVars, details, age, log>>

-----------------------------------------------------------------------------
\* Administration and maintenance.

\* publish(): the exclusive policy lock orders it with admissions.
PublishPolicy(p) ==
    /\ p # policy
    /\ policy' = p
    /\ UNCHANGED <<receiptVars, admitted, deletions, order, sweeping, details, age, minute,
                   directory, req, log, worker>>

\* remove(): the tombstone first, then the receipt, under the exclusive lock.
Remove(e) ==
    /\ deletions' = deletions \cup {e}
    /\ order' = IF e \in deletions THEN order ELSE Append(order, e)
    /\ state' = [state EXCEPT ![e] = IF @ = "none" THEN @ ELSE "deleted"]
    /\ UNCHANGED <<policy, storage, input, createdAt, admitted, sweeping, details, age, minute,
                   directory, req, log, worker>>

\* cleanup(): delete the details of the tombstone swept longest ago ...
SweepDetails ==
    /\ sweeping = {} /\ order # <<>>
    /\ details' = details \ {Head(order)}
    /\ sweeping' = {Head(order)}
    /\ UNCHANGED <<policy, receiptVars, admitted, deletions, order, age, minute,
                   directory, req, log, worker>>

\* Mutant: the sweeps are ordered by created_at alone.
SweepMarkMutant ==
    /\ sweeping # {}
    /\ sweeping' = {}
    /\ UNCHANGED <<policy, receiptVars, admitted, deletions, order, details, age, minute,
                   directory, req, log, worker>>

\* ... then write its cleaned_at, which sends it to the end of the order.
SweepMark ==
    /\ sweeping # {} /\ order # <<>>
    /\ order' = Append(Tail(order), Head(order))
    /\ sweeping' = {}
    /\ UNCHANGED <<policy, receiptVars, admitted, deletions, details, age, minute,
                   directory, req, log, worker>>

\* The cleanup fails or dies before it wrote cleaned_at.
SweepAbort ==
    /\ sweeping # {}
    /\ sweeping' = {}
    /\ UNCHANGED <<policy, receiptVars, admitted, deletions, order, details, age, minute,
                   directory, req, log, worker>>

\* The other cleanup(): rate windows out of use and receipts 90 days past expiry.
CleanReceipts(S) ==
    /\ S \subseteq {e \in Events : age[e] = "retired"}
    /\ admitted' = [p \in Pages |-> [w \in 0 .. MaxMinute |->
                        IF w + WindowKeep < minute THEN 0 ELSE admitted[p][w]]]
    /\ state' = [e \in Events |-> IF e \in S THEN "none" ELSE state[e]]
    /\ UNCHANGED <<policy, storage, input, createdAt, deletions, order, sweeping, details, age, minute,
                   directory, req, log, worker>>

-----------------------------------------------------------------------------
\* Time and the organization directory.

\* A request spends less than WindowKeep minutes between its clock and its commit.
Tick ==
    /\ minute < MaxMinute
    /\ \A r \in Requests : req[r].pc = "received" => minute < req[r].minute + WindowKeep
    /\ minute' = minute + 1
    /\ UNCHANGED <<policy, receiptVars, admitted, deletions, order, sweeping, details, age,
                   directory, req, log, worker>>

\* expires_at passes.
Expire(e) ==
    /\ age[e] = "live" /\ state[e] # "none"
    /\ age' = [age EXCEPT ![e] = "expired"]
    /\ UNCHANGED <<policy, receiptVars, admitted, deletions, order, sweeping, details, minute,
                   directory, req, log, worker>>

\* ClickHouse drops a row past its TTL.
DropDetail(e) ==
    /\ age[e] # "live" /\ e \in details
    /\ details' = details \ {e}
    /\ UNCHANGED <<policy, receiptVars, admitted, deletions, order, sweeping, age, minute,
                   directory, req, log, worker>>

\* 90 days later: Kafka kept the messages for one day, and the validator refuses
\* an event that old.
Retire(e) ==
    /\ age[e] = "expired"
    /\ \A r \in Requests : e \notin req[r].batch
    /\ \A w \in Workers : \A m \in worker[w].holds : m.event # e
    /\ createdAt[e] + WindowKeep < minute
    /\ age' = [age EXCEPT ![e] = "retired"]
    /\ log' = {m \in log : m.event # e}
    /\ UNCHANGED <<policy, receiptVars, admitted, deletions, order, sweeping, details, minute,
                   directory, req, worker>>

PublishDirectory ==
    /\ directory < MaxDirectory
    /\ directory' = directory + 1
    /\ UNCHANGED <<policy, receiptVars, admitted, deletions, order, sweeping, details, age, minute,
                   req, log, worker>>

-----------------------------------------------------------------------------
Api(r) ==
    \/ \E batch \in SUBSET Events : Receive(r, batch)
    \/ \E kept \in SUBSET Candidates(r) : Admit(r, kept)
    \/ Refuse(r)
    \/ Publish(r)
    \/ Fail(r)

Persist(w) ==
    \/ \E m \in log : ReadReceipt(w, m)
    \/ CheckReceipt(w)
    \/ InsertDetail(w)
    \/ FailInsert(w)
    \/ MarkReady(w)
    \/ MarkFailed(w)
    \/ Crash(w)

Operate ==
    \/ \E p \in Policies : PublishPolicy(p)
    \/ \E e \in Deletable : Remove(e)
    \/ SweepDetails
    \/ SweepMark
    \/ SweepAbort
    \/ \E S \in SUBSET Events : CleanReceipts(S)
    \/ PublishDirectory

Time ==
    \/ Tick
    \/ \E e \in Events : Expire(e) \/ DropDetail(e) \/ Retire(e)

Next ==
    \/ \E r \in Requests : Api(r)
    \/ \E w \in Workers : Persist(w)
    \/ Operate
    \/ Time

Spec == Init /\ [][Next]_vars

-----------------------------------------------------------------------------
\* Fairness of delivery: the partition does not advance past a batch that failed,
\* so each message is delivered again, and neither the consumer nor its stores
\* fail at the same step of the same message for ever.
Holds(w, e) == \E m \in worker[w].holds : m.event = e

Delivery ==
    /\ \A e \in Events :
         /\ SF_vars(\E w \in Workers, m \in log : m.event = e /\ ReadReceipt(w, m))
         /\ \A w \in Workers : /\ SF_vars(Holds(w, e) /\ CheckReceipt(w))
                              /\ SF_vars(Holds(w, e) /\ InsertDetail(w))
                              /\ SF_vars(Holds(w, e) /\ MarkReady(w))
    /\ \A w \in Workers : WF_vars(MarkFailed(w))

\* Fairness of the cleanup: it runs every five minutes and does not fail for ever.
Sweeping == WF_vars(SweepDetails) /\ SF_vars(SweepMark)

-----------------------------------------------------------------------------
\* Every variable has its type: the columns of the tables, the requests and the
\* consumers in flight; in particular the clock stays in its bound.
TypeOK ==
    /\ policy \in Policies
    /\ state \in [Events -> ReceiptState]
    /\ storage \in [Events -> Status]
    /\ input \in [Events -> Nat]
    /\ createdAt \in [Events -> 0 .. MaxMinute]
    /\ admitted \in [Pages -> [0 .. MaxMinute -> Nat]]
    /\ deletions \subseteq Events
    /\ order \in Seq(Events)
    /\ sweeping \subseteq Events
    /\ details \subseteq Events
    /\ age \in [Events -> {"live", "expired", "retired"}]
    /\ minute \in 0 .. MaxMinute
    /\ directory \in Nat
    /\ req \in [Requests -> Request]
    /\ log \subseteq Message
    /\ worker \in [Workers -> Consumer]

\* However often an event was retried, admitted twice or deleted in between, a
\* consumer that reaches the digest check never finds the delivered envelope
\* different from its receipt: DIAGNOSTICS_RECEIPT_MISMATCH would stop the
\* partition for ever, because the batch is delivered again unchanged.
NeverMismatch ==
    \A w \in Workers : worker[w].pc = "read" =>
        \A m \in worker[w].holds : m.event \in deletions \/ ~Mismatch(w, m)

Kept(p, w) ==
    {e \in Events : PageOf[e] = p /\ state[e] # "none" /\ storage[e] = "captured" /\ createdAt[e] = w}

\* The raw envelopes kept of one page in one minute never exceed the limit of
\* the page, whatever requests race or repeat for it, and the counter of a
\* window in use counts each of them exactly once.
BudgetExact ==
    \A p \in Pages, w \in 0 .. MaxMinute :
        /\ Cardinality(Kept(p, w)) <= PageLimit
        /\ w + WindowKeep >= minute => admitted[p][w] = Cardinality(Kept(p, w))

\* Raw evidence that the policy, the budget or the SDK withheld never reaches
\* diagnostic_details, on any retry under any later policy.
WithheldNeverStored ==
    \A e \in details : Client[e] = "captured" /\ storage[e] = "captured"

\* A receipt never leaves 'deleted' once its tombstone is written, although
\* consumers that read it before may still finish their insert and update.
TombstoneFinal ==
    \A e \in deletions : state[e] \in {"none", "deleted"}

\* What the reader is told is ready has its row, until the row's own TTL.
ReadyHasDetail ==
    \A e \in Events : state[e] = "ready" /\ age[e] = "live" => e \in details

-----------------------------------------------------------------------------
\* The inductive invariant behind the four properties above.

\* The receipt says what its envelope became.
ReceiptsDecided ==
    \A e \in Events :
        /\ state[e] \in Writable \cup {"ready"} => storage[e] = "captured" /\ Client[e] = "captured"
        /\ state[e] = "unavailable" => storage[e] = Client[e]
        /\ state[e] \in Suppressed \ {"unavailable", "deleted"} => storage[e] \in {Client[e], Absent(state[e])}
        /\ state[e] = "deleted" => e \in deletions

\* Nothing in flight belongs to an event past its 90 days.
RetiredIsGone ==
    \A e \in Events : age[e] = "retired" =>
        /\ \A r \in Requests : e \notin req[r].batch
        /\ \A m \in log : m.event # e
        /\ \A w \in Workers : \A m \in worker[w].holds : m.event # e

\* An envelope on its way to the log, or in it, is the one its receipt digests.
Digested(e, d) == state[e] # "none" /\ (e \in deletions \/ storage[e] = d)
RequestsDigested ==
    \A r \in Requests : req[r].pc = "admitted" =>
        \A e \in req[r].batch : Digested(e, req[r].diagnostic[e])
LogDigested == \A m \in log : Digested(m.event, m.diagnostic)

\* A consumer that decided to write still holds captured evidence.
ConsumersHoldCaptured ==
    \A w \in Workers :
        /\ worker[w].pc \in {"insert", "inserted", "failed"} => worker[w].state \in Writable
        /\ \A m \in worker[w].holds : worker[w].state \in Writable =>
               /\ Client[m.event] = "captured" /\ storage[m.event] = "captured" /\ state[m.event] # "none"

DetailsHaveReceipt == \A e \in details : state[e] # "none" \/ age[e] = "retired"

Consistent ==
    /\ ReceiptsDecided /\ RetiredIsGone /\ RequestsDigested /\ LogDigested
    /\ ConsumersHoldCaptured /\ DetailsHaveReceipt
    /\ NeverMismatch /\ WithheldNeverStored /\ TombstoneFinal

-----------------------------------------------------------------------------
\* What keeps the budget exact, what is ready readable and every step one of the
\* abstract life of evidence.

\* A consumer works on one message at a time.
OneAtATime == \A w \in Workers : \A m, n \in worker[w].holds : m.event = n.event

\* A request commits in a window that is still counted.
CommitsInWindow == \A r \in Requests : req[r].pc = "received" => minute <= req[r].minute + WindowKeep

\* Only receipts of windows that are not counted any more are purged.
RetiredIsUncounted == \A e \in Events : age[e] = "retired" => createdAt[e] + WindowKeep < minute

\* The cleanup sweeps tombstones and nothing else.
SweepsTombstones == order \in Seq(deletions)

\* A row that was acknowledged is there when its receipt is marked, unless a
\* tombstone or the row's own TTL removed it.
AcknowledgedIsThere ==
    \A w \in Workers : worker[w].pc = "inserted" =>
        \A m \in worker[w].holds : m.event \in details \/ m.event \in deletions \/ age[m.event] # "live"

Accurate ==
    /\ OneAtATime /\ CommitsInWindow /\ RetiredIsUncounted
    /\ SweepsTombstones /\ AcknowledgedIsThere /\ BudgetExact /\ ReadyHasDetail

-----------------------------------------------------------------------------
\* A retry of an event reuses the digest, the admission and the first expiry of
\* its receipt: nothing it does rewrites them.
FirstAdmissionKept ==
    [][\A e \in Events : state[e] # "none" /\ state'[e] # "none" =>
          /\ storage'[e] = storage[e] /\ input'[e] = input[e] /\ createdAt'[e] = createdAt[e]]_vars

\* Every step of the pipeline is one the abstract life of evidence allows.
Seen(e) ==
    IF e \in deletions THEN "deleted"
    ELSE IF age[e] # "live" THEN "expired"
    ELSE IF state[e] = "none" THEN "unknown"
    ELSE IF state[e] \in Writable THEN "kept"
    ELSE IF state[e] = "ready" THEN "readable"
    ELSE "withheld"

Evidence == INSTANCE DiagnosticEvidence WITH evidence <- [e \in Events |-> Seen(e)]
EvidenceSpec == Evidence!Spec

\* Evidence that was admitted and published is stored, unless it is deleted or
\* expires first: it does not stay pending or write_failed for ever.
PublishedIsStored ==
    \A e \in Events : (state[e] \in Writable /\ \E m \in log : m.event = e)
                        ~> (state[e] \notin Writable \/ age[e] # "live")

\* The rows of a deleted event disappear for good, also those a late consumer
\* writes after a first sweep.
DeletedIsReclaimed ==
    \A e \in Events : e \in deletions ~> [](e \notin details)

\* Delivering the same event again reuses its admission; only changed content
\* is a conflict.  The SDK never changes an event, so no request conflicts.
IdenticalRetryAccepted ==
    \A r \in Requests : req[r].pc = "received" => ~Conflict(r)
=============================================================================
