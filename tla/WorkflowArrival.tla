---------------------------- MODULE WorkflowArrival ----------------------------
(***************************************************************************)
(* The events of workflow instances as a query over the stored rows hands  *)
(* them to reduceWorkflowInstances: late, several times, under one id with *)
(* contradictory contents, and in any order that ORDER BY leaves open.     *)
(***************************************************************************)
EXTENDS WorkflowReducer

CONSTANTS
    Events,      \* the events that may arrive, a sequence
    Definition,
    MaxRows, MaxTime   \* bounds

VARIABLES
    now,
    rows   \* what readEvents() returns of what is stored: the index of an event and its receipt

vars == <<now, rows>>

Init == now = 0 /\ rows = <<>>

Read(stored) == [n \in DOMAIN stored |-> [Events[stored[n].event] EXCEPT !.received = stored[n].received]]

\* Mutant: ORDER BY timestamp.
NotAfterMutant(e, f) == e.at <= f.at

\* ORDER BY timestamp,event_id
NotAfter(e, f) == e.at < f.at \/ (e.at = f.at /\ e.id <= f.id)

Ordered(events) == \A m, n \in DOMAIN events : m < n => NotAfter(events[m], events[n])

\* The consumer stores an envelope, or stores it again; clocks may be ahead.  Rows that are equal
\* for the order come in any.
Store ==
    /\ Len(rows) < MaxRows
    /\ \E n \in DOMAIN Events, place \in 1 .. Len(rows) + 1 :
         /\ rows' = InsertAt(rows, place, [event |-> n, received |-> now])
         /\ Ordered(Read(rows'))
    /\ UNCHANGED now

Tick == now < MaxTime /\ now' = now + 1 /\ UNCHANGED rows

Next == Store \/ Tick

Spec == Init /\ [][Next]_vars

-----------------------------------------------------------------------------
\* Properties.

TypeOK == now \in 0 .. MaxTime /\ Len(rows) <= MaxRows

\* Of a set E of stored events, those that a report at t may count: known, of one content, and at
\* their first receipt.
Agreed(E, t) ==
    {e \in E : /\ Known(e, t)
               /\ \A f \in E : Known(f, t) /\ f.id = e.id => Content(e) = Content(f) /\ e.received <= f.received}

\* Of several ends at one time that with the least id.
FirstById(es) ==
    IF Terminals(es) = {} THEN None
    ELSE CHOOSE e \in Earliest(Terminals(es)) : \A f \in Earliest(Terminals(es)) : e.id <= f.id

\* The report at t as a function of the set E.
Report(E, t) ==
    LET of(i) == {e \in Agreed(E, t) : e.instance = i}
    IN  [i \in {e.instance : e \in Agreed(E, t)} |->
            Fact(of(i), FirstById(of(i)), {e \in E : Known(e, t)}, Definition, t)]

\* The facts depend on which rows are stored, not on the order of their arrival, nor on the order in
\* which a query returns rows that are equal for it, nor on how often one was stored.
OrderDoesNotMatter == \A t \in 0 .. now : Facts(Read(rows), Definition, t) = Report(ToSet(Read(rows)), t)

\* A report about an earlier moment says the same however much arrives later.
KeepsReports ==
    \A t \in 0 .. now - 1 : Facts(Read(rows'), Definition, t) = Facts(Read(rows), Definition, t)
=============================================================================
