-------------------------------- MODULE Projects --------------------------------
(***************************************************************************)
(* The creation of projects, which a client repeats under the same request *)
(* id when it got no answer, and their members (MySqlStore).               *)
(*                                                                         *)
(* A transaction takes its row locks one statement after the other, waits  *)
(* for the rows another one holds, and writes when it commits; the victim  *)
(* of a deadlock, like every other failure, writes nothing.                *)
(***************************************************************************)
EXTENDS Naturals, Sequences, FiniteSets

CONSTANTS
    Users,
    Creator,      \* a user; the actor of every creation
    Inputs,       \* digests of what is to be created
    Requests,
    None,
    MaxProjects   \* bound

Roles == {"owner", "viewer"}
Creation == [input : Inputs, project : Nat]
CreateRequest == [op : {"create"}, input : Inputs]
MemberRequest == [op : {"member"}, project : Nat, user : Users, role : Roles \cup {None},
                  rows : SUBSET Users, gaps : SUBSET Users, counts : BOOLEAN, owners : SUBSET Users]
Transaction == CreateRequest \cup MemberRequest

VARIABLES
    creation,   \* the row of project_creation_requests for one request id
    projects,   \* project_members of each project: [Users -> Roles \cup {None}]
    request,    \* transactions and what they hold
    answers     \* history: projects answered to the client, with the input they were asked for

vars == <<creation, projects, request, answers>>

Init ==
    /\ creation = None
    /\ projects = <<>>
    /\ request = [r \in Requests |-> None]
    /\ answers = {}

Idle(r) == request[r] = None
Doing(r, op) == ~Idle(r) /\ request[r].op = op
Finish(r) == request' = [request EXCEPT ![r] = None]

-----------------------------------------------------------------------------
\* createProject()

\* Mutant: the id is looked up without a lock.
ReservableMutant(r) == TRUE

\* INSERT ... ON DUPLICATE KEY UPDATE: the row belongs to one transaction until its end.
Reservable(r) == \A q \in Requests : ~Doing(q, "create")

\* A committed row answers: another input is a conflict, a project is the answer.
Reserve(r) ==
    /\ Idle(r) /\ Reservable(r) /\ Len(projects) < MaxProjects
    /\ \E input \in Inputs :
         IF creation = None
         THEN request' = [request EXCEPT ![r] = [op |-> "create", input |-> input]] /\ UNCHANGED answers
         ELSE /\ creation.input = input
              /\ answers' = answers \cup {creation}
              /\ UNCHANGED request
    /\ UNCHANGED <<creation, projects>>

\* The project, its owner, initialize() and the id of the request commit together; the answer
\* may get lost.
Create(r) ==
    /\ Doing(r, "create")
    /\ projects' = Append(projects, [u \in Users |-> IF u = Creator THEN "owner" ELSE None])
    /\ creation' = [input |-> request[r].input, project |-> Len(projects) + 1]
    /\ answers' \in {answers, answers \cup {creation'}}
    /\ Finish(r)

-----------------------------------------------------------------------------
\* setProjectMember() and removeProjectMember() (role None)

Members(p) == {u \in Users : projects[p][u] # None}

\* Record locks exclude one another; the lock of a row that does not exist only keeps others
\* from inserting it (REPEATABLE READ).
Free(r, p, rows) ==
    \A q \in Requests \ {r} : Doing(q, "member") /\ request[q].project = p => request[q].rows \cap rows = {}

Insertable(r, p, u) ==
    \A q \in Requests \ {r} : Doing(q, "member") /\ request[q].project = p => u \notin request[q].gaps

\* The member's own row.
LockMember(r) ==
    /\ Idle(r)
    /\ \E p \in DOMAIN projects, u \in Users, role \in Roles \cup {None} :
         LET row == {u} \cap Members(p)
         IN  /\ Free(r, p, row)
             /\ role = None => row # {}      \* MEMBERSHIP_NOT_FOUND
             /\ request' = [request EXCEPT ![r] =
                  [op |-> "member", project |-> p, user |-> u, role |-> role, rows |-> row, gaps |-> {u} \ row,
                   counts |-> projects[p][u] = "owner" /\ role # "owner", owners |-> {}]]
    /\ UNCHANGED <<creation, projects, answers>>

\* Mutant: the owners are counted without a lock.
CountableMutant(r, p) == TRUE

\* FOR UPDATE scans, and locks, every row of the project.
Countable(r, p) == Free(r, p, Members(p))

CountOwners(r) ==
    /\ Doing(r, "member")
    /\ LET p == request[r].project
       IN  /\ request[r].counts /\ request[r].owners = {}
           /\ Countable(r, p)
           /\ request' = [request EXCEPT ![r].owners = {u \in Users : projects[p][u] = "owner"},
                                         ![r].rows = Members(p), ![r].gaps = Users \ Members(p)]
    /\ UNCHANGED <<creation, projects, answers>>

\* The last owner stays (LAST_OWNER_REQUIRED).
WriteMember(r) ==
    /\ Doing(r, "member")
    /\ LET q == request[r]
       IN  /\ q.counts => Cardinality(q.owners) > 1
           /\ q.rows = {} => Free(r, q.project, {q.user}) /\ Insertable(r, q.project, q.user)
           /\ projects' = [projects EXCEPT ![q.project][q.user] = q.role]
    /\ Finish(r)
    /\ UNCHANGED <<creation, answers>>

\* A refusal, a deadlock, a lost connection, a crash: the transaction is rolled back.
Rollback(r) ==
    /\ ~Idle(r)
    /\ Finish(r)
    /\ UNCHANGED <<creation, projects, answers>>

Next ==
    \E r \in Requests :
        Reserve(r) \/ Create(r) \/ LockMember(r) \/ CountOwners(r) \/ WriteMember(r) \/ Rollback(r)

Spec == Init /\ [][Next]_vars

-----------------------------------------------------------------------------
\* Properties.

\* The variables keep their types.
TypeOK ==
    /\ creation \in Creation \cup {None}
    /\ projects \in Seq([Users -> Roles \cup {None}])
    /\ request \in [Requests -> Transaction \cup {None}]
    /\ answers \subseteq Creation

\* However owners demote and remove one another at the same time, a project keeps one.
OwnerRemains == \A p \in DOMAIN projects : \E u \in Users : projects[p][u] = "owner"

\* A creation that is repeated, concurrently or after a lost answer, creates one project, and
\* all answers name it.
CreatedOnce == Len(projects) <= 1 /\ Cardinality(answers) <= 1

-----------------------------------------------------------------------------
\* The inductive invariant behind them.

Owners(p) == {u \in Users : projects[p][u] = "owner"}

\* What a transaction on a member's row holds: rows that exist and gaps where none does, its
\* own row among them; what it read there is still true.
Holds(q) ==
    /\ q.project \in DOMAIN projects
    /\ q.rows \subseteq Members(q.project) /\ q.gaps \cap Members(q.project) = {}
    /\ q.user \in q.rows \/ (q.rows = {} /\ q.user \in q.gaps)
    /\ q.counts = (projects[q.project][q.user] = "owner" /\ q.role # "owner")
    /\ q.owners # {} => q.owners = Owners(q.project) /\ q.rows \cup q.gaps = Users

Locks == \A r \in Requests : Doing(r, "member") =>
    /\ Holds(request[r])
    /\ \A s \in Requests \ {r} :
         Doing(s, "member") /\ request[s].project = request[r].project => request[s].rows \cap request[r].rows = {}

\* One creation is under way at most, and none once the row of its id is committed.
Creations ==
    /\ creation = None => projects = <<>> /\ answers = {}
    /\ creation # None => Len(projects) = 1 /\ answers \subseteq {creation}
    /\ \A r, s \in Requests : Doing(r, "create") => creation = None /\ (Doing(s, "create") => r = s)
=============================================================================
