---------------------------- MODULE TrackerSession ----------------------------
(***************************************************************************)
(* Sessions, page views and visible time in the browser SDK (class         *)
(* BrowserTracker), and what the server makes of them (pageUsageWindow).   *)
(* Every action is one handler with all it calls.  beforeSend is the       *)
(* host's hook: it may accept events, reject them or throw, and a throw    *)
(* leaves the handler where it is.  One form, one long view and one        *)
(* business operation are open at a time.                                  *)
(***************************************************************************)
EXTENDS Integers, FiniteSetsExt

CONSTANTS
    Routes,      \* page routes the location resolves to
    Users,       \* safe user references
    Timeout,     \* trackerConfig.sessionTimeoutMs
    Hooks,       \* how beforeSend may behave
    Collectors,  \* "forms", "business", "long_views": what the host uses
    MaxTime,     \* bound: the clock
    MaxPages,    \* bound: page views
    MaxSent,     \* bound: events queued
    MaxSegments, \* bound: segments of a page view
    None

VARIABLES
    now,       \* runtime.now()
    visible,   \* document.visibilityState = "visible"
    parked,    \* the page was hidden for good, or is in the back/forward cache
    hook,      \* what beforeSend does
    tab,       \* the fields of BrowserTracker, with the events it queued
    shown      \* history: how long each page view has been visible

vars == <<now, visible, parked, hook, tab, shown>>

User == Users \cup {None}
Context == [session : Nat, user : User]

Tab(events) ==
    [session : Nat, activity : Nat, page : 1 .. MaxPages, route : Routes, user : User,
     since : Nat \cup {None},                \* visibleStartedAt
     sequence : Nat,                         \* usageSequence
     closed : BOOLEAN,                       \* usageClosed
     form : [user : User] \cup {None},       \* who opened the form
     view : BOOLEAN,                         \* a long view is active
     operation : Context \cup {None},        \* what observeBusiness captured
     destroyed : BOOLEAN, sent : {events}]

Throws == hook = "throws"

-----------------------------------------------------------------------------
\* emit().

\* The part of emit() behind the hook.  Settlements enter here.
Put(t, name, payload) ==
    IF t.destroyed \/ hook # "accepts" THEN t
    ELSE [t EXCEPT !.sent = @ \cup
            {[event |-> name, at |-> now, session |-> t.session, page |-> t.page,
              route |-> t.route, user |-> t.user, payload |-> payload]}]

SettleOpenForm(t) ==
    IF t.form = None THEN t
    ELSE Put([t EXCEPT !.form = None], "form_summary", [opened |-> t.form])

\* Mutant: the deadline is stored in place of the last activity.
RefreshSessionMutant(t) == [t EXCEPT !.activity = now + Timeout, !.session = IF now < t.activity THEN @ ELSE @ + 1]

\* refreshSession(): an idle session is settled before it is replaced.
RefreshSession(t) ==
    LET awake == [t EXCEPT !.activity = now]
    IN  IF now - t.activity < Timeout THEN awake
        ELSE [SettleOpenForm(awake) EXCEPT !.session = @ + 1]

\* emit() of page_view and custom events.
Emit(t, name, payload) == IF t.destroyed THEN t ELSE Put(RefreshSession(t), name, payload)

\* A custom event whose content no property is about.
Touch(t) == IF t.destroyed THEN t ELSE RefreshSession(t)

\* Mutant: the segments of the next page view go on counting.
EmitPageViewMutant(t) == Put([RefreshSession(t) EXCEPT !.closed = FALSE], "page_view", None)

EmitPageView(t) ==
    LET r == RefreshSession(t)
    IN  Put([r EXCEPT !.sequence = 0, !.closed = FALSE], "page_view", None)

\* FormCollector.settle(): the form is removed first and its summary is a custom event.
SettleForms(t) ==
    IF t.form = None THEN t
    ELSE Emit([t EXCEPT !.form = None], "form_summary", [opened |-> t.form])

StopLongViews(t) == IF t.view THEN Touch([t EXCEPT !.view = FALSE]) ELSE t

Settles(t, closing) == ~t.closed /\ (t.since # None \/ closing)

\* Mutant: the start of the visible stretch is kept.
SettleVisiblePageMutant(t, closing) ==
    IF ~Settles(t, closing) THEN t
    ELSE Put([t EXCEPT !.closed = closing, !.sequence = @ + 1], "page_leave",
             [duration |-> IF t.since = None THEN 0 ELSE now - t.since,
              sequence |-> t.sequence + 1, closed |-> closing])

SettleVisiblePage(t, closing) ==
    IF ~Settles(t, closing) THEN t
    ELSE Put([t EXCEPT !.closed = closing, !.since = None, !.sequence = @ + 1], "page_leave",
             [duration |-> IF t.since = None THEN 0 ELSE now - t.since,
              sequence |-> t.sequence + 1, closed |-> closing])

\* What a route change, a page hide and destroy() begin with, and where a throw ends it.
EndPage(t) ==
    LET quiet == StopLongViews(SettleForms(t))
    IN  IF Throws /\ t.view THEN quiet ELSE SettleVisiblePage(quiet, TRUE)

EndPageThrows(t) == Throws /\ (t.view \/ Settles(t, TRUE))

Since == IF visible THEN now ELSE None

-----------------------------------------------------------------------------
\* The constructor, in a new document: the session in session storage is taken
\* over unless it is idle (or the storage is not available).
Constructed(old, route, stored) ==
    LET keeps == stored /\ now - old.activity < Timeout
    IN  EmitPageView(
          [session |-> IF keeps THEN old.session ELSE old.session + 1, activity |-> now,
           page |-> old.page + 1, route |-> route, user |-> None, since |-> Since, sequence |-> 0,
           closed |-> FALSE, form |-> None, view |-> FALSE, operation |-> None,
           destroyed |-> Throws,        \* createTracker() answers a no-op tracker
           sent |-> old.sent])

Init ==
    /\ now = 0 /\ parked = FALSE
    /\ visible \in BOOLEAN
    /\ hook = "accepts"
    /\ shown = [p \in 1 .. MaxPages |-> 0]
    /\ \E r \in Routes :
         tab = Constructed([session |-> 0, activity |-> 0, page |-> 0, sent |-> {}], r, FALSE)

Room == Cardinality(tab.sent) < MaxSent /\ tab.sequence < MaxSegments
Live == Room /\ ~parked /\ ~tab.destroyed

Load ==
    /\ parked /\ Room /\ tab.page < MaxPages
    /\ \E r \in Routes, stored \in BOOLEAN : tab' = Constructed(tab, r, stored)
    /\ parked' = FALSE
    /\ UNCHANGED <<now, visible, hook, shown>>

HandlePageRouteChange ==
    /\ Live /\ tab.page < MaxPages
    /\ \E r \in Routes \ {tab.route} :
         LET ended == EndPage(tab)
         IN  tab' = IF EndPageThrows(tab) THEN ended
                    ELSE EmitPageView([ended EXCEPT !.route = r, !.page = @ + 1, !.since = Since])
    /\ UNCHANGED <<now, visible, parked, hook, shown>>

HandleVisibilityChange ==
    /\ visible' = ~visible
    /\ tab.destroyed \/ Room
    /\ tab' = IF tab.destroyed THEN tab
              ELSE IF ~visible THEN [tab EXCEPT !.since = now]
              ELSE SettleVisiblePage(tab, FALSE)
    /\ UNCHANGED <<now, parked, hook, shown>>

HandlePageHide ==
    /\ Live
    /\ tab' = EndPage(tab)
    /\ parked' = TRUE
    /\ UNCHANGED <<now, visible, hook, shown>>

\* pageshow with persisted set: the page returns from the back/forward cache.
HandlePageShow ==
    /\ parked /\ Room /\ ~tab.destroyed /\ tab.page < MaxPages
    /\ tab' = EmitPageView([tab EXCEPT !.page = @ + 1, !.since = Since])
    /\ parked' = FALSE
    /\ UNCHANGED <<now, visible, hook, shown>>

\* destroy() lets a throw escape to the host and is then not done.
Destroy ==
    /\ Live
    /\ tab' = [EndPage(tab) EXCEPT !.destroyed = ~EndPageThrows(tab)]
    /\ UNCHANGED <<now, visible, parked, hook, shown>>

-----------------------------------------------------------------------------
\* Calls of the host application.

Track ==
    /\ Live
    /\ tab' = Touch(tab)
    /\ UNCHANGED <<now, visible, parked, hook, shown>>

\* Mutant: open forms are left to the next user.
SetUserMutant ==
    /\ Live
    /\ \E u \in (Users \cup {None}) \ {tab.user} : tab' = [tab EXCEPT !.user = u]
    /\ UNCHANGED <<now, visible, parked, hook, shown>>

\* A rejected reference settles the forms and leaves the user alone.
SetUser ==
    /\ Live
    /\ \E u \in (Users \cup {None}) \ {tab.user}, safe \in BOOLEAN :
         tab' = [SettleForms(tab) EXCEPT !.user = IF safe \/ u = None THEN u ELSE @]
    /\ UNCHANGED <<now, visible, parked, hook, shown>>

TrackForm ==
    /\ Live /\ "forms" \in Collectors /\ tab.form = None
    /\ tab' = [tab EXCEPT !.form = [user |-> tab.user]]
    /\ UNCHANGED <<now, visible, parked, hook, shown>>

\* The handle's own destroy().
DestroyForm ==
    /\ Live /\ tab.form # None
    /\ tab' = SettleForms(tab)
    /\ UNCHANGED <<now, visible, parked, hook, shown>>

StartLongView ==
    /\ Live /\ "long_views" \in Collectors /\ ~tab.view
    /\ tab' = [Touch(tab) EXCEPT !.view = ~Throws]
    /\ UNCHANGED <<now, visible, parked, hook, shown>>

StopLongView ==
    /\ Live /\ tab.view
    /\ tab' = StopLongViews(tab)
    /\ UNCHANGED <<now, visible, parked, hook, shown>>

\* observeBusiness() up to its await: the session is read before the emission may replace it.
StartBusiness ==
    /\ Live /\ "business" \in Collectors /\ tab.operation = None
    /\ tab' = [Touch(tab)
                 EXCEPT !.operation = [session |-> tab.session, user |-> tab.user]]
    /\ UNCHANGED <<now, visible, parked, hook, shown>>

\* Mutant: the idle time is not looked at.
SameContextMutant(t) == t.operation = [session |-> t.session, user |-> t.user]

SameContext(t) ==
    /\ t.operation = [session |-> t.session, user |-> t.user]
    /\ now - t.activity < Timeout

\* The host's promise settled: terminal().
EndBusiness ==
    /\ Live /\ tab.operation # None
    /\ LET done == [tab EXCEPT !.operation = None]
       IN  tab' = IF SameContext(tab)
                  THEN Emit(done, "feature_ended", [started |-> tab.operation]) ELSE done
    /\ UNCHANGED <<now, visible, parked, hook, shown>>

-----------------------------------------------------------------------------
\* The browser and the host.

Tick ==
    /\ now < MaxTime
    /\ now' = now + 1
    /\ shown' = IF visible /\ ~parked /\ ~tab.destroyed
                THEN [shown EXCEPT ![tab.page] = @ + 1] ELSE shown
    /\ UNCHANGED <<visible, parked, hook, tab>>

HookChanges ==
    /\ hook' \in Hooks \ {hook}
    /\ UNCHANGED <<now, visible, parked, tab, shown>>

Next ==
    \/ Load \/ HandlePageRouteChange \/ HandleVisibilityChange \/ HandlePageHide \/ HandlePageShow
    \/ Destroy \/ Track \/ SetUser \/ TrackForm \/ DestroyForm \/ StartLongView \/ StopLongView
    \/ StartBusiness \/ EndBusiness \/ Tick \/ HookChanges

Spec == Init /\ [][Next]_vars

-----------------------------------------------------------------------------
\* The server: pageUsageWindow() over the events E of a window [from, to).

InWindow(E, from, to) == {e \in E : e.at >= from /\ e.at < to}

SegmentsOf(E, v) ==
    {e \in E : /\ e.event = "page_leave" /\ e.page = v.page /\ e.session = v.session
               /\ e.route = v.route /\ e.at >= v.at /\ e.user = v.user}

\* The sorted segments are numbered 1, 2, ... and the last one, only, is closed.
Complete(S) ==
    /\ S # {}
    /\ {e.payload.sequence : e \in S} = 1 .. Cardinality(S)
    /\ \A e \in S : e.payload.closed <=> e.payload.sequence = Cardinality(S)

\* The visible time of each page view for which it can be told.
Durations(E, from, to) ==
    LET W == InWindow(E, from, to)
    IN  {[page |-> v.page, time |-> MapThenSumSet(LAMBDA e : e.payload.duration, SegmentsOf(W, v))] :
           v \in {e \in W : e.event = "page_view" /\ Complete(SegmentsOf(W, e))}}

Usage == {e \in tab.sent : e.event \in {"page_view", "page_leave"}}

-----------------------------------------------------------------------------
\* Properties.

\* The variables keep their types.
TypeOK ==
    /\ now \in 0 .. MaxTime /\ visible \in BOOLEAN /\ parked \in BOOLEAN /\ hook \in Hooks
    /\ tab \in Tab(tab.sent)
    /\ tab.activity <= now /\ (tab.since # None => tab.since <= now)
    /\ \A e \in tab.sent : e.at \in 0 .. now /\ e.session \in 1 .. tab.session /\ e.page \in 1 .. tab.page
    /\ shown \in [1 .. MaxPages -> 0 .. MaxTime]

\* Whatever the delivery loses, and whichever window is asked for, a duration the server
\* reports for a page view is the time it was visible: hide, page hide, restoration, route
\* changes, rejected and throwing hooks included.
ReportedIsShown ==
    \A E \in SUBSET Usage, from \in 0 .. MaxTime : \A to \in from + 1 .. MaxTime + 1 :
        \A d \in Durations(E, from, to) : d.time = shown[d.page]

\* Nothing lost and no change of session or user within the page view: when its closing
\* page_leave is queued, the server can tell the duration.
ClosedIsReported ==
    \A v \in Usage :
        LET leaves == {e \in Usage : e.event = "page_leave" /\ e.page = v.page}
        IN  /\ v.event = "page_view"
            /\ Hooks = {"accepts"}
            /\ \E e \in leaves : e.payload.closed
            /\ \A e \in leaves : e.session = v.session /\ e.user = v.user
            => \E d \in Durations(Usage, 0, MaxTime + 1) : d.page = v.page

\* A form's summary names the user who filled it in, although setUser(), an idle session and
\* every end of a page settle it from outside.
SummaryKeepsUser ==
    \A e \in tab.sent : e.event = "form_summary" => e.user = e.payload.opened.user

\* The result of a business operation is reported in the session and for the user of its
\* start, or not at all: never after the user changed or the session went idle.
ResultInContext ==
    \A e \in tab.sent : e.event = "feature_ended" =>
        e.session = e.payload.started.session /\ e.user = e.payload.started.user

\* A settlement keeps the session that was current before the handler began
\* (docs/progress/v1.8-r6-decisions.md:11).
SettlementKeepsSession ==
    [][\A e \in tab'.sent \ tab.sent : e.event = "page_leave" => e.session = tab.session]_vars
=============================================================================
