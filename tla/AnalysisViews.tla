---------------------------- MODULE AnalysisViews ----------------------------
(***************************************************************************)
(* The analysis views of the web application: navigation with its          *)
(* asynchronous access guard, and the read of each view.                   *)
(*                                                                         *)
(* Four views read what the URL asks for: the overview and the business    *)
(* analysis (ProjectOverviewView.vue, BusinessAnalysisView.vue), which     *)
(* keep what they show while they read it again and cancel their reads     *)
(* when the user leaves, and the two page views (PageQualityView.vue,      *)
(* PageOperationsView.vue), which clear first.  A navigation waits for the *)
(* project's access check (router.ts); a later one replaces it.  Answers   *)
(* come in any order, an aborted call may have been answered already.      *)
(*                                                                         *)
(* A location has a view, a scope (project, environment and range), a pick *)
(* (module, trend or page route: part of what is read) and a mark (a field *)
(* of the query that only the quality view reads).                         *)
(***************************************************************************)
EXTENDS Integers, Sequences, FiniteSets

CONSTANTS
    Scopes, Picks, Marks,
    MaxMoves,    \* bound: what the user does
    None         \* no value: an absent field, nothing shown, no navigation

VARIABLES
    location,    \* the committed route
    heading,     \* the navigation that waits for its guard, and whether a read began meanwhile
    data,        \* what is shown: the key it was read for
    loading, error,
    calls,       \* reads in flight: their key, and whether no later one has replaced them
    due,         \* the watcher of the route has not run yet
    chain,       \* the filter changes that wait for each other (filterNavigation, navigation)
    waiting,     \* what the head of the chain waits for
    moves,
    cut,         \* history: a read was cancelled by a navigation that starts no other
    lost,        \* history: a filter change was replaced by a navigation of somebody else
    asked,       \* history: the filter values last asked for
    overtaken    \* history: who replaced a pending navigation of the user out of which view

viewVars == <<data, loading, error, calls, due, cut>>
chainVars == <<chain, waiting, lost, asked>>
vars == <<location, heading, viewVars, chainVars, moves, overtaken>>

Reading == {"overview", "business", "quality", "operations"}
Keeps(v) == v \in {"overview", "business"}
Chains(v) == v \in {"quality", "operations"}

Locations == [view : Reading \cup {"denied", "login"}, scope : Scopes, pick : Picks \cup {None}, mark : Marks]
Authors == {"user", "default", "forbidden", "expired", "chain"}

\* signature: what a view reads for; only the quality view reads the mark.
Key(l) == [scope |-> l.scope, pick |-> l.pick, mark |-> IF l.view = "quality" THEN l.mark ELSE None]

TypeOK ==
    /\ location \in Locations
    /\ heading \in [to : Locations, by : Authors, late : BOOLEAN] \cup {None}
    /\ data = None \/ data.scope \in Scopes
    /\ loading \in BOOLEAN /\ error \in BOOLEAN /\ due \in BOOLEAN
    /\ \A c \in calls : c.fresh \in BOOLEAN
    /\ Cardinality(calls) <= 2
    /\ Len(chain) <= 2 /\ waiting \in {"nothing", "route", "read"}
    /\ moves \in 0 .. MaxMoves

\* A view is opened without a selection, and reads.
Init ==
    /\ location \in [view : Reading, scope : Scopes, pick : {None}, mark : Marks]
    /\ heading = None
    /\ data = None /\ loading = TRUE /\ error = FALSE
    /\ calls = {[key |-> Key(location), fresh |-> TRUE]}
    /\ due = FALSE /\ cut = FALSE
    /\ chain = <<>> /\ waiting = "nothing" /\ lost = FALSE
    /\ asked = [f \in {"pick", "mark"} |-> None]
    /\ moves = 0 /\ overtaken = {}

-----------------------------------------------------------------------------
(* Reading *)

\* Raising the generation: no call in flight may speak any more.  The last one is aborted, which
\* comes too late when its answer is there already.
Replaced(C) == {[c EXCEPT !.fresh = FALSE] : c \in {d \in C : d.fresh}}

\* Mutant: the reads of a view that is left stay valid until it is gone.
CancelMutant == UNCHANGED viewVars

\* cancelLoad
Cancel ==
    /\ calls' = Replaced(calls)
    /\ loading' = FALSE
    /\ cut' = (cut \/ loading)
    /\ UNCHANGED <<data, error, due>>

\* load: the overview and the business analysis keep what they show if it was read for the same.
Load(l, shown) ==
    /\ calls' = Replaced(calls) \cup {[key |-> Key(l), fresh |-> TRUE]}
    /\ loading' = TRUE /\ error' = FALSE
    /\ due' = FALSE /\ cut' = FALSE
    /\ data' = IF Keeps(l.view) /\ shown = Key(l) THEN shown ELSE None

\* The watcher of the route runs after the handler that changed it; that of the quality view
\* runs inside it.
Watch == due /\ Load(location, data) /\ UNCHANGED <<location, heading, chainVars, moves, overtaken>>

\* The window gets the focus again, or the user asks for a new read.
Refresh ==
    /\ Keeps(location.view) /\ ~due
    /\ moves < MaxMoves
    /\ Load(location, data)
    /\ heading' = IF heading = None THEN None ELSE [heading EXCEPT !.late = TRUE]
    /\ moves' = moves + 1
    /\ UNCHANGED <<location, chainVars, overtaken>>

-----------------------------------------------------------------------------
(* Navigation *)

Leaves(l) == l.view # location.view
Pending(by) == heading # None /\ heading.by = by

\* router.push and router.replace: the pending navigation is replaced, also by one that leads to
\* where one is.
Heads(to, by) ==
    /\ heading' = IF to = location THEN None ELSE [to |-> to, by |-> by, late |-> FALSE]
    /\ overtaken' = IF Pending("user") /\ Leaves(heading.to)
                      THEN overtaken \cup {[by |-> by, view |-> location.view, late |-> heading.late]} ELSE overtaken
    /\ lost' = (lost \/ (Pending("chain") /\ by # "chain"))

\* A change of the chain that was replaced is over, the next may run.
Released == IF Pending("chain") /\ waiting = "route" THEN "nothing" ELSE waiting

\* The changes of a view that is gone still run, those of the next one do not wait for them.
Orphaned == [i \in DOMAIN chain |-> [chain[i] EXCEPT !.here = FALSE]]

\* onBeforeRouteLeave runs before the guard.  A default selection that is replaced ends its load.
Leave(to) ==
    IF Keeps(location.view) /\ Leaves(to) THEN Cancel
    ELSE /\ loading' = (loading /\ ~Pending("default"))
         /\ UNCHANGED <<data, error, calls, due, cut>>

\* The navigation of AppShell.vue and the links of the views: another view keeps the query,
\* another environment, range or selection keeps the view.
Go ==
    \E to \in Locations :
        /\ moves < MaxMoves /\ ~due
        /\ to.view \in Reading
        /\ IF location.view \in Reading
             THEN Cardinality({f \in DOMAIN to : to[f] # location[f]}) <= 1
             ELSE to = [location EXCEPT !.view = to.view]
        /\ Chains(location.view) /\ ~Leaves(to) => to.pick = location.pick /\ to.mark = location.mark
        /\ Heads(to, "user")
        /\ Leave(to)
        /\ waiting' = Released
        /\ moves' = moves + 1
        /\ UNCHANGED <<location, chain, asked>>

\* No analysis view is mounted.
Cleared ==
    /\ data' = None /\ loading' = FALSE /\ error' = FALSE
    /\ calls' = Replaced(calls) /\ due' = FALSE /\ cut' = FALSE

\* The guard lets the navigation pass.  A view that is left is unmounted and the new one reads;
\* a view that stays runs onBeforeRouteUpdate, and its watcher later.
Arrive ==
    /\ heading # None
    /\ LET to == heading.to IN
       /\ location' = to
       /\ IF to.view \notin Reading THEN Cleared
          ELSE IF Leaves(to) THEN Load(to, None)
          ELSE IF Key(to) = Key(location)
            THEN IF Keeps(to.view) THEN Cancel ELSE UNCHANGED viewVars
          ELSE IF to.view = "quality" THEN Load(to, None)
          ELSE /\ calls' = IF Keeps(to.view) THEN Replaced(calls) ELSE calls
               /\ loading' = (loading /\ ~Keeps(to.view))
               /\ due' = TRUE
               /\ UNCHANGED <<data, error, cut>>
    /\ heading' = None
    /\ IF Leaves(heading.to)
         THEN /\ asked' = [f \in {"pick", "mark"} |-> None] /\ lost' = FALSE
              /\ chain' = Orphaned
         ELSE UNCHANGED <<asked, lost, chain>>
    /\ waiting' = Released
    /\ UNCHANGED <<moves, overtaken>>

\* The access check is refused or fails: the guard answers with the error page.
Denied ==
    /\ heading # None /\ heading.to.view \in Reading
    /\ location' = [heading.to EXCEPT !.view = "denied"]
    /\ heading' = None
    /\ Cleared
    /\ waiting' = Released /\ lost' = TRUE
    /\ chain' = Orphaned
    /\ UNCHANGED <<asked, moves, overtaken>>

-----------------------------------------------------------------------------
(* Answers *)

\* Mutant: the answer is shown whichever read it belongs to.
CountsMutant(c) == TRUE

\* The answer counts: it belongs to the last read, and in the views that keep their data to what
\* the URL says by now.
Counts(c) == c.fresh /\ (Keeps(location.view) => c.key = Key(location))

Quiet == UNCHANGED <<location, chainVars, moves>>

\* The business analysis selects a module when the URL names none, and waits for the navigation.
Answered(c) ==
    /\ calls' = calls \ {c}
    /\ IF Counts(c)
         THEN /\ data' = c.key
              /\ IF location.view = "business" /\ location.pick = None /\ Picks # {}
                   THEN \E p \in Picks : /\ Heads([location EXCEPT !.pick = p], "default")
                                        /\ waiting' = Released /\ UNCHANGED loading
                   ELSE loading' = FALSE /\ UNCHANGED <<heading, overtaken, lost, waiting>>
         ELSE /\ loading' = (loading /\ ~c.fresh)
              /\ UNCHANGED <<data, heading, overtaken, lost, waiting>>
    /\ UNCHANGED <<location, error, due, cut, chain, asked, moves>>

\* The fact store failed inside an answer: the overview keeps what it shows of the same identity.
Degraded(c) ==
    /\ location.view = "overview" /\ data # None /\ Counts(c)
    /\ calls' = calls \ {c}
    /\ error' = TRUE /\ loading' = FALSE
    /\ UNCHANGED <<heading, overtaken, data, due, cut>> /\ Quiet

\* Mutant: the error of a failed read is not shown.
FailedMutant(c) ==
    /\ calls' = calls \ {c}
    /\ loading' = (loading /\ ~c.fresh)
    /\ UNCHANGED <<heading, overtaken, data, error, due, cut>> /\ Quiet

\* The network or the server fails.
Failed(c) ==
    /\ calls' = calls \ {c}
    /\ loading' = (loading /\ ~c.fresh)
    /\ error' = (error \/ c.fresh)
    /\ UNCHANGED <<heading, overtaken, data, due, cut>> /\ Quiet

\* 403: the view goes to the error page; the operations view only says so.
Forbidden(c) ==
    /\ calls' = calls \ {c}
    /\ IF c.fresh
         THEN /\ data' = None /\ loading' = FALSE /\ error' = TRUE
              /\ IF location.view = "operations" THEN UNCHANGED <<heading, overtaken, lost, waiting>>
                 ELSE /\ Heads([location EXCEPT !.view = "denied"], "forbidden")
                      /\ waiting' = Released
         ELSE UNCHANGED <<data, loading, error, heading, overtaken, lost, waiting>>
    /\ UNCHANGED <<location, due, cut, chain, asked, moves>>

\* 401 and no new session: api.ts says so to everybody, also for a call nobody waits for, and
\* AppShell.vue goes to the login.
Expired(c) ==
    /\ calls' = calls \ {c}
    /\ IF c.fresh
         THEN data' = None /\ loading' = FALSE /\ error' = TRUE
         ELSE UNCHANGED <<data, error>> /\ loading' = (loading /\ ~Pending("default"))
    /\ Heads([location EXCEPT !.view = "login"], "expired")
    /\ waiting' = Released
    /\ UNCHANGED <<location, due, cut, chain, asked, moves>>

Answer ==
    \E c \in calls :
        /\ location.view \in Reading
        /\ \/ Answered(c) \/ Degraded(c) \/ Failed(c)
           \/ Forbidden(c)
           \/ Expired(c)

\* An answer for a view that is gone.
Dropped ==
    /\ location.view \notin Reading
    /\ \E c \in calls : calls' = calls \ {c}
    /\ UNCHANGED <<heading, overtaken, data, loading, error, due, cut>> /\ Quiet

-----------------------------------------------------------------------------
(* The filters of the page views wait for each other *)

\* change, select and refresh of PageQualityView.vue and PageOperationsView.vue.
Change ==
    \E f \in {"pick", "mark"}, v \in Picks \cup Marks :
        /\ Chains(location.view) /\ ~due
        /\ moves < MaxMoves /\ Len(chain) < 2 /\ \A i \in DOMAIN chain : chain[i].here
        /\ IF f = "pick" THEN v \in Picks ELSE v \in Marks /\ location.view = "quality"
        /\ chain' = Append(chain, [field |-> f, value |-> v, here |-> TRUE])
        /\ asked' = [asked EXCEPT ![f] = v]
        /\ moves' = moves + 1
        /\ UNCHANGED <<location, heading, viewVars, waiting, lost, overtaken>>

AskRefresh ==
    /\ location.view = "quality" /\ moves < MaxMoves
    /\ Len(chain) < 2 /\ \A i \in DOMAIN chain : chain[i].here
    /\ chain' = Append(chain, [field |-> "refresh", value |-> None, here |-> TRUE])
    /\ moves' = moves + 1
    /\ UNCHANGED <<location, heading, viewVars, waiting, lost, asked, overtaken>>

\* Mutant: a change does not wait for the one before it.
ReadyMutant == waiting # "read" \/ ~\E c \in calls : c.fresh

\* The promise before it has settled: the route was committed or replaced, or the read has ended.
Ready == waiting = "nothing" \/ (waiting = "read" /\ ~\E c \in calls : c.fresh)

\* The chain outlives the view that began it.
ChainStep ==
    /\ chain # <<>> /\ Ready /\ ~due
    /\ chain' = Tail(chain)
    /\ LET item == Head(chain)
           go(to) == /\ Heads(to, "chain") /\ Leave(to)
                     /\ waiting' = IF to = location THEN "nothing" ELSE "route"
       IN IF item.field = "refresh"
            THEN \E s \in Scopes :
                    IF s # location.scope THEN go([location EXCEPT !.scope = s])
                    ELSE IF item.here
                      THEN /\ Load(location, None) /\ waiting' = "read"
                           /\ UNCHANGED <<heading, overtaken, lost>>
                    ELSE waiting' = "nothing" /\ UNCHANGED <<heading, overtaken, lost, viewVars>>
            ELSE go([location EXCEPT ![item.field] = item.value])
    /\ UNCHANGED <<location, asked, moves>>

Next ==
    \/ Watch \/ Refresh \/ Go \/ Arrive \/ Denied
    \/ Answer \/ Dropped
    \/ Change \/ AskRefresh \/ ChainStep

Spec == Init /\ [][Next]_vars

-----------------------------------------------------------------------------
(* Properties *)

\* What is shown was read for what the URL says (load of the four views): no late answer of an
\* earlier scope, selection or view is shown under a later one.
ShownIsAsked == location.view \in Reading /\ data # None /\ ~due => data = Key(location)

\* A view that says it is loading has a read that will end it, or waits for its own navigation.
LoadingEnds == loading => Pending("default") \/ \E c \in calls : c.fresh

\* A view that shows nothing is loading, has an error or is about to read: except after a
\* navigation that cancelled a read and asks for the same again.
NothingForgotten ==
    location.view \in Reading /\ data = None /\ ~loading /\ ~error /\ ~due => cut

\* "A late default-selection/403 response must never supersede user navigation"
\* (ProjectOverviewView.vue, BusinessAnalysisView.vue): no such answer replaces a pending
\* navigation out of these views, unless the view began to read again while the navigation was
\* pending, as it does when its window gets the focus.
LeaveStands ==
    \A o \in overtaken : Keeps(o.view) /\ ~o.late => o.by \in {"user", "expired", "chain"}

\* Rapid filter changes compose: once the chain is empty the URL has the value last asked for in
\* every field, unless somebody else's navigation replaced one of them (change, select).
ChangesCompose ==
    Chains(location.view) /\ chain = <<>> /\ heading = None /\ ~lost
        => \A f \in {"pick", "mark"} : asked[f] \in {None, location[f]}

ViewsSound == ShownIsAsked /\ LoadingEnds /\ NothingForgotten /\ LeaveStands /\ ChangesCompose
==============================================================================
