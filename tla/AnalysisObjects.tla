---------------------------- MODULE AnalysisObjects ----------------------------
(***************************************************************************)
(* The modules of a project and the pages and workflows they hold          *)
(* (MySqlStore): who may be disabled, archived and restored while other    *)
(* requests put objects into a module or take them out.                    *)
(*                                                                         *)
(* requireProjectModule() is a read without a lock.  A transaction that    *)
(* depends on it is two steps, the read and the commit, and holds the row  *)
(* of the object it changes in between; every other transaction reads what *)
(* it locks and is one step.                                               *)
(***************************************************************************)
EXTENDS Naturals, FiniteSets

CONSTANTS Modules, Pages, Workflows, Requests, None

Objects == Pages \cup Workflows
Statuses == {"absent", "active", "disabled"}
Operations == {"create", "move", "save", "activate", "enable", "restore"}
ModuleRow == [status : Statuses, archived : BOOLEAN]
ObjectRow == [status : Statuses, archived : BOOLEAN, module : Modules \cup {None}, draft : Modules \cup {None}]
Pending == [object : Objects, op : Operations, module : Modules, found : BOOLEAN, locks : BOOLEAN]

VARIABLES
    module,    \* modules: status and archived_at
    object,    \* page_definitions with the open revision, workflow_definitions with their draft
    request,   \* transactions between requireProjectModule() and their commit
    raced      \* history: objects committed into a module that was archived after the read

vars == <<module, object, request, raced>>

Init ==
    /\ module = [m \in Modules |-> [status |-> "absent", archived |-> FALSE]]
    /\ object = [o \in Objects |-> [status |-> "absent", archived |-> FALSE, module |-> None, draft |-> None]]
    /\ request = [r \in Requests |-> None]
    /\ raced = {}

-----------------------------------------------------------------------------
Open(x) == x.status # "absent" /\ ~x.archived

\* requireProjectModule()
Usable(m) == module[m].status = "active" /\ ~module[m].archived

\* The rows of objects that a transaction between its two steps holds.
Held == {request[r].object : r \in {r \in Requests : request[r] # None /\ request[r].locks}}

\* Modules.

CreateModule(m) ==
    /\ module[m].status = "absent"
    /\ module' = [module EXCEPT ![m].status = "active"]
    /\ UNCHANGED <<object, request, raced>>

UpdateModule(m) ==
    /\ Open(module[m])
    /\ \E status \in {"active", "disabled"} : module' = [module EXCEPT ![m].status = status]
    /\ UNCHANGED <<object, request, raced>>

\* Mutant: the module a draft moves to is not looked at.
DependsMutant(o, m) == Open(object[o]) /\ o \in Pages /\ object[o].module = m

\* The dependencies archiveModule() looks for.
Depends(o, m) == Open(object[o]) /\ m \in {object[o].module, object[o].draft}

ArchiveModule(m) ==
    /\ module[m].status = "disabled" /\ ~module[m].archived
    /\ ~\E o \in Objects : Depends(o, m)
    /\ module' = [module EXCEPT ![m].archived = TRUE]
    /\ UNCHANGED <<object, request, raced>>

RestoreModule(m) ==
    /\ module[m].archived
    /\ module' = [module EXCEPT ![m].archived = FALSE]
    /\ UNCHANGED <<object, request, raced>>

-----------------------------------------------------------------------------
\* Pages and workflows: transactions of one step.

\* updatePageDefinition() without a module, updateWorkflowDefinition() to "disabled".
\* A workflow is enabled in two steps.
UpdateObject(o) ==
    /\ Open(object[o]) /\ o \notin Held
    /\ \E status \in {"active", "disabled"} :
         /\ o \in Workflows => status = "disabled"
         /\ object' = [object EXCEPT ![o].status = status]
    /\ UNCHANGED <<module, request, raced>>

\* archivePageDefinition(), archiveWorkflowDefinition()
ArchiveObject(o) ==
    /\ object[o].status = "disabled" /\ ~object[o].archived /\ o \notin Held
    /\ object' = [object EXCEPT ![o].archived = TRUE]
    /\ UNCHANGED <<module, request, raced>>

-----------------------------------------------------------------------------
\* Transactions of two steps.  What each of them does to the object's row:

Written(o, op, m) ==
    CASE op = "create" -> [status |-> "active", archived |-> FALSE, module |-> m,
                           draft |-> IF o \in Workflows THEN m ELSE None]
      [] op = "move" -> [object[o] EXCEPT !.module = m]        \* updatePageDefinition(moduleId)
      [] op = "save" -> [object[o] EXCEPT !.draft = m]         \* saveWorkflowDraft()
      [] op = "activate" -> [object[o] EXCEPT !.module = m, !.draft = None]
      [] op = "enable" -> [object[o] EXCEPT !.status = "active"]
      [] op = "restore" -> [object[o] EXCEPT !.archived = FALSE]

\* Which of them a row admits, and the modules they ask requireProjectModule() for.
Asks(o, op) ==
    CASE op = "create" -> IF object[o].status = "absent" THEN Modules ELSE {}
      [] op = "move" -> IF o \in Pages /\ Open(object[o]) THEN Modules ELSE {}
      [] op = "save" -> IF o \in Workflows /\ Open(object[o]) THEN Modules ELSE {}
      [] op = "activate" -> IF Open(object[o]) THEN {object[o].draft} \ {None} ELSE {}
      [] op = "enable" -> IF o \in Workflows /\ Open(object[o])
                          THEN {IF object[o].draft = None THEN object[o].module ELSE object[o].draft}
                          ELSE {}
      [] op = "restore" -> IF object[o].archived THEN {object[o].module} ELSE {}

\* Mutant: the module of what is restored is taken for granted.
ReadModuleMutant(r) ==
    \E o \in Objects \ Held, op \in Operations :
        \E m \in Asks(o, op) :
            /\ op = "restore" \/ Usable(m)
            /\ request' = [request EXCEPT ![r] =
                             [object |-> o, op |-> op, module |-> m, found |-> module[m].archived,
                              locks |-> op \notin {"create", "enable"}]]

\* updateWorkflowDefinition() reads before its transaction begins and holds no row.
ReadModule(r) ==
    \E o \in Objects \ Held, op \in Operations :
        \E m \in Asks(o, op) :
            /\ Usable(m)
            /\ request' = [request EXCEPT ![r] =
                             [object |-> o, op |-> op, module |-> m, found |-> module[m].archived,
                              locks |-> op \notin {"create", "enable"}]]

Read(r) == request[r] = None /\ ReadModule(r) /\ UNCHANGED <<module, object, raced>>

\* The row may have changed under a request that holds no lock: the unique key refuses a
\* second creation, and an archived workflow is not found.
StillThere(o, op) ==
    /\ op = "create" => object[o].status = "absent"
    /\ op = "enable" => Open(object[o]) /\ o \notin Held

Commit(r) ==
    /\ request[r] # None
    /\ LET q == request[r]
           after == Written(q.object, q.op, q.module)
       IN  /\ StillThere(q.object, q.op)
           /\ object' = [object EXCEPT ![q.object] = after]
           /\ raced' = IF q.op = "enable" \/ q.op = "save" THEN raced
                       ELSE IF module[q.module].archived /\ ~q.found THEN raced \cup {q.object}
                       ELSE raced \ {q.object}
    /\ request' = [request EXCEPT ![r] = None]
    /\ UNCHANGED module

\* The row is gone or taken, a deadlock, a lost connection, a crash.
Fail(r) ==
    /\ request[r] # None
    /\ request' = [request EXCEPT ![r] = None]
    /\ UNCHANGED <<module, object, raced>>

Next ==
    \/ \E m \in Modules : CreateModule(m) \/ UpdateModule(m) \/ ArchiveModule(m) \/ RestoreModule(m)
    \/ \E o \in Objects : UpdateObject(o) \/ ArchiveObject(o)
    \/ \E r \in Requests : Read(r) \/ Commit(r) \/ Fail(r)

Spec == Init /\ [][Next]_vars

-----------------------------------------------------------------------------
\* Properties.

\* The variables keep their types.
TypeOK ==
    /\ module \in [Modules -> ModuleRow]
    /\ object \in [Objects -> ObjectRow]
    /\ request \in [Requests -> Pending \cup {None}]
    /\ raced \subseteq Objects

\* "A module that still has pages or workflows cannot be archived": whatever requests move,
\* activate, restore and archive, an open page or workflow lies in a module that is not
\* archived, unless the module was disabled and archived between the unlocked read of the
\* request that put it there and its commit.
OpenIsHeld ==
    \A o \in Objects \ raced : Open(object[o]) => ~module[object[o].module].archived

-----------------------------------------------------------------------------
\* The inductive invariant behind it.

\* What exists lies in a module.
Placed == \A o \in Objects : object[o].archived \/ object[o].status # "absent" =>
    object[o].status # "absent" /\ object[o].module \in Modules

\* A transaction found its module in use.  The row it holds is there, no other transaction
\* holds it, and it still lies where a restoration was asked for.
Waiting == \A r \in Requests : request[r] # None =>
    LET q == request[r]
    IN  /\ ~q.found /\ q.locks = (q.op \notin {"create", "enable"})
        /\ q.locks => object[q.object].status # "absent"
        /\ q.op = "restore" => object[q.object].module = q.module
        /\ \A s \in Requests \ {r} :
             request[s] # None /\ request[s].locks /\ q.locks => request[s].object # q.object
=============================================================================
