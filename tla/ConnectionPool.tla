----------------------------- MODULE ConnectionPool -----------------------------
(***************************************************************************)
(* The MySQL connection pool and the requests that share it.  A request    *)
(* takes a connection, runs its transaction and answers; some of them      *)
(* (createDraft, activateVersion, updateProject) read their answer through *)
(* the pool while they still hold the transaction's connection.            *)
(***************************************************************************)
EXTENDS Naturals, Sequences, SequencesExt, FiniteSets

CONSTANTS
    Requests,
    Rereaders,   \* the requests that read their answer through the pool
    Limit,       \* connectionLimit
    QueueLimit   \* queueLimit

VARIABLES
    at,      \* where each request is
    held,    \* how many connections each request holds
    queue    \* the requests that wait for a connection, first come first served

vars == <<at, held, queue>>

Init ==
    /\ at = [r \in Requests |-> "idle"]
    /\ held = [r \in Requests |-> 0]
    /\ queue = <<>>

Waiting == ToSet(queue)
Used == Cardinality({r \in Requests : held[r] >= 1}) + Cardinality({r \in Requests : held[r] = 2})

\* pool.getConnection() and pool.query(): a free connection, a place in the queue, or an error.
Ask(r, granted, refused) ==
    \/ /\ Used < Limit
       /\ at' = [at EXCEPT ![r] = granted]
       /\ held' = [held EXCEPT ![r] = @ + 1]
       /\ UNCHANGED queue
    \/ /\ Used = Limit /\ Len(queue) < QueueLimit
       /\ at' = [at EXCEPT ![r] = granted]
       /\ queue' = Append(queue, r)
       /\ UNCHANGED held
    \/ /\ Used = Limit /\ Len(queue) = QueueLimit
       /\ at' = [at EXCEPT ![r] = refused]
       /\ UNCHANGED <<held, queue>>

\* connection.release(): it goes to the first in the queue.
Release(r, next) ==
    /\ at' = [at EXCEPT ![r] = next]
    /\ IF queue = <<>>
       THEN held' = [held EXCEPT ![r] = @ - 1] /\ UNCHANGED queue
       ELSE held' = [[held EXCEPT ![r] = @ - 1] EXCEPT ![Head(queue)] = @ + 1] /\ queue' = Tail(queue)

Runs(r, place) == at[r] = place /\ r \notin Waiting

Begin(r) == at[r] = "idle" /\ Ask(r, "transaction", "idle")

\* commit(), and the answer is at hand: the connection is released.
Commit(r) == Runs(r, "transaction") /\ r \notin Rereaders /\ Release(r, "idle")

\* commit(), then getVersion() or getProject() through the pool.  An error goes through
\* catch and finally: nothing is left to roll back, the connection is released.
CommitAndReread(r) ==
    Runs(r, "transaction") /\ r \in Rereaders /\ Ask(r, "reread", "refused")

Reread(r) == Runs(r, "reread") /\ Release(r, "answered")

Answer(r) == at[r] \in {"answered", "refused"} /\ Release(r, "idle")

Next ==
    \E r \in Requests :
        Begin(r) \/ Commit(r) \/ CommitAndReread(r) \/ Reread(r) \/ Answer(r)

Spec == Init /\ [][Next]_vars

-----------------------------------------------------------------------------
\* The pool is never held entirely by requests that themselves wait for a connection
\* (mysql-store.ts:592 names the deadlock that createProject avoids).
SomebodyRuns == Cardinality({r \in Waiting : held[r] >= 1}) < Limit
=============================================================================
