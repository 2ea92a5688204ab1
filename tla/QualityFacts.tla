----------------------------- MODULE QualityFacts -----------------------------
(***************************************************************************)
(* The quality collectors of the SDK (createQualityCollectors), the way of *)
(* their events to the server, and the rates the server answers            *)
(* (reduceQuality).                                                        *)
(*                                                                         *)
(* Each page view counts what it observes and sends its counters with      *)
(* every page_leave; API calls and failed resources also send an event of  *)
(* their own when they settle, which may be after the page was left.  A    *)
(* batch says how many events and batches the tracker has lost so far.     *)
(* Every page is sampled and every collector is on; a batch holds the      *)
(* whole queue.                                                            *)
(***************************************************************************)
EXTENDS Integers, Sequences, FiniteSets, FiniteSetsExt

CONSTANTS
    CallLimit,       \* of counted API and resource calls of a page
    QueueSize,
    None,
    MaxPages, MaxHappenings, MaxHides, MaxFaults   \* bounds

VARIABLES
    pages,     \* State of each page view, with what really happened on it
    visible,
    calls,     \* observeApi() and observeResource() calls under way
    task,      \* a long task the observer has not reported yet
    queue,
    lost,      \* whether the tracker dropped an event or failed a batch
    flight,    \* the batch whose answer flush() awaits
    stored,    \* raw_events: each event with the losses its batch knew of
    strayed,   \* history: kinds of events a beacon lost
    happened,  \* history: number of calls, errors and long tasks
    faults     \* history: number of crashes, lost beacons and failed batches

vars == <<pages, visible, calls, task, queue, lost, flight, stored, strayed, happened, faults>>

Page == [sequence |-> 0, apiStarted |-> 0, apiCompleted |-> 0, resourceStarted |-> 0,
         resourceCompleted |-> 0, resourceFailed |-> 0, longtasks |-> 0, suppressed |-> 0,
         closed |-> FALSE,
         \* history
         tried |-> 0, failed |-> 0, tasks |-> 0, errors |-> 0]

State == [sequence : Nat, apiStarted : Nat, apiCompleted : Nat, resourceStarted : Nat,
          resourceCompleted : Nat, resourceFailed : Nat, longtasks : Nat, suppressed : Nat,
          closed : BOOLEAN, tried : Nat, failed : Nat, tasks : Nat, errors : Nat]

Current == Len(pages)

\* What the tracker sends, and a batch of it.
Sendable ==
    [kind : {"view", "resource error", "error"}, page : Nat, id : Nat]
    \cup [kind : {"api"}, page : Nat, id : Nat, failed : BOOLEAN]
    \cup [kind : {"leave"}, page : Nat, id : Nat, closed : BOOLEAN, losses : BOOLEAN, state : State]
Batches == [order : Seq(Sendable), losses : BOOLEAN]

Event(kind, page, id) == [kind |-> kind, page |-> page, id |-> id]

\* emit(): a full queue drops its oldest event.
Push(q, e) == IF Len(q) = QueueSize THEN Append(Tail(q), e) ELSE Append(q, e)
Drops(q) == Len(q) = QueueSize
Emit(e) == /\ queue' = Push(queue, e)
           /\ lost' = (lost \/ Drops(queue))

Init ==
    /\ pages = <<Page>> /\ visible = TRUE
    /\ calls = {} /\ task = FALSE
    /\ queue = <<Event("view", 1, 0)>> /\ lost = FALSE
    /\ flight = None /\ stored = {} /\ strayed = {} /\ happened = 0 /\ faults = 0

-----------------------------------------------------------------------------
\* Pages.

\* Mutant: the observers are not drained.
LeftMutant(p, closed) == [pages[p] EXCEPT !.sequence = @ + 1, !.closed = closed]

\* leave(): drains the observers, and stamps the losses up to this event.
Left(p, closed) ==
    [pages[p] EXCEPT !.sequence = @ + 1, !.closed = closed,
                     !.longtasks = @ + (IF task THEN 1 ELSE 0)]
Leave(p, closed, losses) ==
    [kind |-> "leave", page |-> p, id |-> pages[p].sequence + 1, closed |-> closed,
     losses |-> losses, state |-> Left(p, closed)]

\* settleVisiblePage()
Settles(closed) == ~pages[Current].closed /\ (visible \/ closed)
Settled(closed) ==
    LET leave == Leave(Current, closed, lost \/ Drops(queue)) IN
    IF Settles(closed)
    THEN [pages |-> [pages EXCEPT ![Current] = Left(Current, closed)],
          queue |-> Push(queue, leave), lost |-> leave.losses, task |-> FALSE]
    ELSE [pages |-> pages, queue |-> queue, lost |-> lost, task |-> task]

\* flush("lifecycle") hands the queue to sendBeacon(), unless a batch is under way: the browser
\* takes it, and may lose it, or refuses it, and it is sent like any other.
Batch(events, losses) == [order |-> events, losses |-> losses]
Rows(batch) == {[event |-> batch.order[n], losses |-> batch.losses] : n \in DOMAIN batch.order}

Fault == faults < MaxFaults /\ faults' = faults + 1

FlushLifecycle(q, losses) ==
    IF flight # None \/ q = <<>>
    THEN queue' = q /\ UNCHANGED <<flight, stored, strayed, faults>>
    ELSE /\ queue' = <<>>
         /\ \/ flight' = Batch(q, losses) /\ UNCHANGED <<stored, strayed, faults>>
            \/ stored' = stored \cup Rows(Batch(q, losses)) /\ UNCHANGED <<flight, strayed, faults>>
            \/ /\ Fault
               /\ strayed' = strayed \cup {q[n].kind : n \in DOMAIN q}
               /\ UNCHANGED <<flight, stored>>

Hide(closed) ==
    /\ IF closed THEN ~pages[Current].closed ELSE visible /\ pages[Current].sequence < MaxHides
    /\ LET s == Settled(closed) IN
       /\ pages' = s.pages /\ lost' = s.lost /\ task' = s.task
       /\ FlushLifecycle(s.queue, s.lost)
    /\ visible' = FALSE
    /\ UNCHANGED <<calls, happened>>

Show ==
    /\ ~visible /\ ~pages[Current].closed
    /\ visible' = TRUE
    /\ UNCHANGED <<pages, calls, task, queue, lost, flight, stored, strayed, happened, faults>>

\* A route change, or the page comes back from the back/forward cache: enter() disconnects the
\* observers; calls keep the state they began with.
Enter ==
    /\ Len(pages) < MaxPages
    /\ LET s == Settled(TRUE) IN
       /\ pages' = Append(s.pages, Page)
       /\ queue' = Push(s.queue, Event("view", Current + 1, 0))
       /\ lost' = (s.lost \/ Drops(s.queue))
    /\ task' = FALSE /\ visible' = TRUE
    /\ UNCHANGED <<calls, flight, stored, strayed, happened, faults>>

\* The document ends with whatever is queued, and another one begins.
Crash ==
    /\ Len(pages) < MaxPages /\ Fault
    /\ pages' = Append([pages EXCEPT ![Current].closed = TRUE], Page)
    /\ queue' = <<Event("view", Current + 1, 0)>> /\ lost' = FALSE
    /\ flight' = None /\ calls' = {} /\ task' = FALSE /\ visible' = TRUE
    /\ UNCHANGED <<stored, strayed, happened>>

-----------------------------------------------------------------------------
\* Collectors.

\* observeApi(): beyond the limit a call is not counted.
StartApi ==
    /\ happened < MaxHappenings /\ ~pages[Current].closed
    /\ happened' = happened + 1
    /\ LET counted == pages[Current].apiStarted < CallLimit IN
       /\ pages' = [pages EXCEPT ![Current].tried = @ + 1,
                                 ![Current].apiStarted = @ + (IF counted THEN 1 ELSE 0)]
       /\ calls' = calls \cup {[kind |-> "api", page |-> Current, id |-> happened', counted |-> counted]}
    /\ UNCHANGED <<visible, task, queue, lost, flight, stored, strayed, faults>>

\* A cancelled call is neither a success nor a failure; a status that is none is suppressed.
EndApi(c, result) ==
    /\ c \in calls /\ c.kind = "api"
    /\ calls' = calls \ {c}
    /\ pages' = [pages EXCEPT
         ![c.page].failed = IF result = "failure" THEN @ + 1 ELSE @,
         ![c.page].apiCompleted = IF c.counted /\ result # "invalid" THEN @ + 1 ELSE @,
         ![c.page].suppressed = IF c.counted /\ result = "invalid" THEN @ + 1 ELSE @]
    /\ IF c.counted /\ result # "invalid"
       THEN Emit([kind |-> "api", page |-> c.page, id |-> c.id, failed |-> result = "failure"])
       ELSE UNCHANGED <<queue, lost>>
    /\ UNCHANGED <<visible, task, flight, stored, strayed, happened, faults>>

\* observeResource(): beyond the limit a call is suppressed.
StartResource ==
    /\ happened < MaxHappenings /\ ~pages[Current].closed
    /\ happened' = happened + 1
    /\ LET counted == pages[Current].resourceStarted < CallLimit IN
       /\ pages' = [pages EXCEPT ![Current].resourceStarted = @ + (IF counted THEN 1 ELSE 0),
                                 ![Current].suppressed = @ + (IF counted THEN 0 ELSE 1)]
       /\ calls' = calls \cup
            {[kind |-> "resource", page |-> Current, id |-> happened', counted |-> counted]}
    /\ UNCHANGED <<visible, task, queue, lost, flight, stored, strayed, faults>>

EndResource(c, fails) ==
    /\ c \in calls /\ c.kind = "resource"
    /\ calls' = calls \ {c}
    /\ pages' = IF c.counted
                THEN [pages EXCEPT ![c.page].resourceCompleted = @ + 1,
                                   ![c.page].resourceFailed = @ + (IF fails THEN 1 ELSE 0)]
                ELSE pages
    /\ IF c.counted /\ fails THEN Emit(Event("resource error", c.page, c.id))
                             ELSE UNCHANGED <<queue, lost>>
    /\ UNCHANGED <<visible, task, flight, stored, strayed, happened, faults>>

CaptureException ==
    /\ happened < MaxHappenings /\ ~pages[Current].closed
    /\ happened' = happened + 1
    /\ pages' = [pages EXCEPT ![Current].errors = @ + 1]
    /\ Emit(Event("error", Current, happened'))
    /\ UNCHANGED <<visible, calls, task, flight, stored, strayed, faults>>

Longtask ==
    /\ happened < MaxHappenings /\ ~pages[Current].closed /\ ~task
    /\ happened' = happened + 1
    /\ pages' = [pages EXCEPT ![Current].tasks = @ + 1]
    /\ task' = TRUE
    /\ UNCHANGED <<visible, calls, queue, lost, flight, stored, strayed, faults>>

Observed ==
    /\ task
    /\ pages' = [pages EXCEPT ![Current].longtasks = @ + 1]
    /\ task' = FALSE
    /\ UNCHANGED <<visible, calls, queue, lost, flight, stored, strayed, happened, faults>>

-----------------------------------------------------------------------------
\* Transport: flush() and send().

Flush ==
    /\ flight = None /\ queue # <<>>
    /\ flight' = Batch(queue, lost) /\ queue' = <<>>
    /\ UNCHANGED <<pages, visible, calls, task, lost, stored, strayed, happened, faults>>

Again(losses) == flight' = IF queue = <<>> THEN None ELSE Batch(queue, losses)

Sent ==
    /\ flight # None
    /\ stored' = stored \cup Rows(flight)
    /\ Again(lost) /\ queue' = <<>>
    /\ UNCHANGED <<pages, visible, calls, task, lost, strayed, happened, faults>>

Refused ==
    /\ flight # None /\ Fault
    /\ lost' = TRUE
    /\ Again(TRUE) /\ queue' = <<>>
    /\ UNCHANGED <<pages, visible, calls, task, stored, strayed, happened>>

\* Three attempts failed, perhaps after one of them was stored: the events go back, and what the
\* queue cannot hold is dropped at its end.
Exhausted ==
    /\ flight # None /\ Fault
    /\ LET all == flight.order \o queue IN queue' = SubSeq(all, 1, Min({QueueSize, Len(all)}))
    /\ lost' = TRUE
    /\ flight' = None
    /\ \/ UNCHANGED stored
       \/ stored' = stored \cup Rows(flight)
    /\ UNCHANGED <<pages, visible, calls, task, strayed, happened>>

-----------------------------------------------------------------------------
Next ==
    \/ \E closed \in BOOLEAN : Hide(closed)
    \/ Show \/ Enter \/ Crash
    \/ StartApi \/ StartResource \/ CaptureException \/ Longtask \/ Observed
    \/ \E c \in calls, result \in {"success", "failure", "aborted", "invalid"} : EndApi(c, result)
    \/ \E c \in calls, fails \in BOOLEAN : EndResource(c, fails)
    \/ Flush \/ Sent \/ Refused \/ Exhausted

Spec == Init /\ [][Next]_vars

-----------------------------------------------------------------------------
\* reduceQuality(), once the day for late events has passed.

Events == {r.event : r \in stored}
OfKind(kind) == {e \in Events : e.kind = kind}
Views == {e.page : e \in OfKind("view")}
Leaves(p) == {e \in OfKind("leave") : e.page = p}
Terminal(p) == CHOOSE e \in Leaves(p) : \A f \in Leaves(p) : f.id <= e.id
Settlements == [p \in {q \in Views : Leaves(q) # {}} |-> Terminal(p)]
Of(kind) == {e \in OfKind(kind) : e.page \in Views}

Sum(f(_)) == MapThenSumSet(LAMBDA p : f(Settlements[p].state), DOMAIN Settlements)
ApiStarted == LET f(s) == s.apiStarted IN Sum(f)
ApiCompleted == LET f(s) == s.apiCompleted IN Sum(f)
ResourceStarted == LET f(s) == s.resourceStarted IN Sum(f)
ResourceCompleted == LET f(s) == s.resourceCompleted IN Sum(f)
ResourceFailed == LET f(s) == s.resourceFailed IN Sum(f)
Longtasks == LET f(s) == s.longtasks IN Sum(f)

BadTerminal(p) == \/ p \notin DOMAIN Settlements
                  \/ ~Settlements[p].closed \/ Settlements[p].losses
                  \/ Settlements[p].state.suppressed > 0
Answers ==
    /\ Views # {}
    /\ \A r \in stored : ~r.losses
    /\ \A p \in Views : ~BadTerminal(p)

ApiErrorRate ==
    [available |-> Answers /\ ApiStarted = ApiCompleted /\ ApiCompleted = Cardinality(Of("api")),
     numerator |-> Cardinality({e \in Of("api") : e.failed}), denominator |-> ApiStarted]
ResourceErrorRate ==
    [available |-> Answers /\ ResourceStarted = ResourceCompleted,
     numerator |-> ResourceFailed, denominator |-> ResourceStarted]
JsErrorRate ==
    [available |-> Answers,
     numerator |-> Cardinality(Of("error")), denominator |-> Cardinality(Views)]
LongtaskCount == [available |-> Answers, numerator |-> Longtasks]

-----------------------------------------------------------------------------
\* Properties.

TypeOK ==
    /\ pages \in Seq(State)
    /\ \A p \in DOMAIN pages : pages[p].apiCompleted <= pages[p].apiStarted
                               /\ pages[p].resourceCompleted <= pages[p].resourceStarted
    /\ queue \in Seq(Sendable) /\ Len(queue) <= QueueSize /\ lost \in BOOLEAN
    /\ flight \in Batches \cup {None}
    /\ \A c \in calls : c.page \in DOMAIN pages /\ c.id \in 1 .. happened

Total(f(_)) == MapThenSumSet(LAMBDA p : f(pages[p]), Views)

\* A rate that is answered is the rate of the page views it counts: all their calls, wherever and
\* whenever they ended, all their errors and long tasks.  Two gaps are left: the calls beyond the
\* limit of a page, and the errors a beacon lost, of which nobody knows (observeApi, send).
RatesAreTrue ==
    /\ ApiErrorRate.available /\ (\A p \in Views : pages[p].tried <= CallLimit) =>
         /\ ApiErrorRate.denominator = (LET f(s) == s.tried IN Total(f))
         /\ ApiErrorRate.numerator = (LET f(s) == s.failed IN Total(f))
    /\ ResourceErrorRate.available =>
         \A p \in Views : Settlements[p].state.resourceFailed = pages[p].resourceFailed
    /\ JsErrorRate.available /\ "error" \notin strayed =>
         JsErrorRate.numerator = (LET f(s) == s.errors IN Total(f))
    /\ LongtaskCount.available =>
         LongtaskCount.numerator = (LET f(s) == s.tasks IN Total(f))

\* Nothing is withheld without a reason: when all page views were closed, nothing was lost and all
\* calls had ended before, every rate is answered.
Complete ==
    /\ ~lost /\ queue = <<>> /\ flight = None /\ strayed = {}
    /\ \A r \in stored : ~r.losses
    /\ Views = DOMAIN pages
    /\ \A p \in Views : /\ Leaves(p) # {} /\ Terminal(p).closed
                        /\ Terminal(p).state.apiStarted = Terminal(p).state.apiCompleted
                        /\ Terminal(p).state.resourceStarted = Terminal(p).state.resourceCompleted
                        /\ pages[p].suppressed = 0
CompleteIsAnswered ==
    Complete => ApiErrorRate.available /\ ResourceErrorRate.available /\ JsErrorRate.available
=============================================================================
