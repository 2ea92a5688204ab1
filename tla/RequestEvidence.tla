--------------------------- MODULE RequestEvidence ---------------------------
(***************************************************************************)
(* The request evidence that an error carries (createRequestDiagnostics).  *)
(* The application fetches through adapters bound to a tracker; each call  *)
(* has a record while it is recent, the page view is the same and there is *)
(* room.  Answers come late, the text of a response later still, and an    *)
(* error freezes what there is.  Every step of the application is one call *)
(* of the adapter; reset() and prune() are part of it.                     *)
(***************************************************************************)
EXTENDS Integers, FiniteSets

CONSTANTS
    Entries,      \* maximumEntries
    Pending,      \* records that may be pending
    Window,       \* windowMs
    MaxCalls, MaxPages, MaxEpochs, MaxTime   \* bounds

VARIABLES
    now,
    alive, epoch,   \* the tracker the adapter is started for
    page,           \* its page view
    pageId,         \* the page view the adapter has seen
    allowed,        \* whether policy allows bodies of successful requests (successBodyAllowed)
    records,        \* `requests`, in the order of their ids
    refs,           \* responseRefs and responseRecords: the records whose response is known
    calls,          \* fetches whose answer is awaited, and the responses the application has
    sequence,
    evidence        \* history: what the last error froze

vars == <<now, alive, epoch, page, pageId, allowed, records, refs, calls, sequence, evidence>>

\* `body` is what the response carries, `epoch` and `permitted` are history.
Record(id) == [id |-> id, at |-> now, page |-> page, result |-> "pending", request |-> TRUE,
               body |-> 0, epoch |-> epoch, permitted |-> FALSE]
Nothing == [page |-> 0, epoch |-> 0, at |-> 0, records |-> {}, allowed |-> FALSE]

Init ==
    /\ now = 0 /\ alive = TRUE /\ epoch = 1 /\ page = 1 /\ pageId = 1 /\ allowed \in BOOLEAN
    /\ records = {} /\ refs = {} /\ calls = {} /\ sequence = 0
    /\ evidence = Nothing

Ids(rs) == {r.id : r \in rs}

\* reset(): another page view clears the records.
Reset(rs) == IF page = pageId THEN rs ELSE {}

\* prune(): what is old, then the first success, then the first record.
Recent(rs) == {r \in rs : now - r.at <= Window}
First(rs) == CHOOSE r \in rs : \A s \in rs : r.id <= s.id
Evict(rs) == LET successes == {r \in rs : r.result = "success"} IN
             rs \ {First(IF successes = {} THEN rs ELSE successes)}
Bounded(rs) == IF Cardinality(rs) > Entries THEN Evict(rs) ELSE rs

\* A record that is known better.
Instead(r, new) == (records \ {r}) \cup {new}

\* The records after an operation, and what is forgotten with them.
Keep(rs) ==
    /\ records' = Bounded(Recent(rs))
    /\ refs' = refs \cap Ids(records')
    /\ pageId' = page

-----------------------------------------------------------------------------
\* A fetch through an adapter that was bound in epoch e (wrapFetch, begin).
Fetch(e) ==
    /\ sequence < MaxCalls
    /\ sequence' = sequence + 1
    /\ LET rs == Recent(Reset(records))
           begun == /\ e = epoch /\ alive
                    /\ Cardinality({r \in rs : r.result = "pending"}) < Pending IN
       /\ calls' = calls \cup {[id |-> sequence', local |-> IF begun THEN sequence' ELSE 0, answered |-> FALSE]}
       /\ IF e = epoch /\ alive
          THEN Keep(IF begun THEN rs \cup {Record(sequence')} ELSE rs)
          ELSE UNCHANGED <<records, refs, pageId>>
    /\ UNCHANGED <<now, alive, epoch, page, allowed, evidence>>

\* finish(): only a record of this page view that is still there; then the response is known.
Answer(c, result) ==
    /\ c \in calls /\ ~c.answered
    /\ calls' = (calls \ {c}) \cup (IF result \in {"success", "http"} THEN {[c EXCEPT !.answered = TRUE]} ELSE {})
    /\ IF ~alive \/ c.local \notin Ids(records)
       THEN UNCHANGED <<records, refs, pageId>>
       ELSE IF page # pageId THEN records' = {} /\ pageId' = page /\ UNCHANGED refs
       ELSE /\ \E r \in records : r.id = c.local /\ records' = Recent(Instead(r, [r EXCEPT !.result = result]))
            /\ refs' = (refs \cap Ids(records'))
                       \cup (IF result \in {"success", "http"} THEN {c.local} \cap Ids(records') ELSE {})
            /\ UNCHANGED pageId
    /\ UNCHANGED <<now, alive, epoch, page, allowed, sequence, evidence>>

\* responseText(): the application gives the text of a response it has read, whenever it likes.
ResponseText(c, businessFailure) ==
    /\ c \in calls /\ c.answered
    /\ calls' = calls \ {c}
    /\ IF ~alive \/ c.local \notin refs \cap Ids(records)
       THEN UNCHANGED <<records, refs, pageId>>
       ELSE IF page # pageId THEN records' = {} /\ pageId' = page /\ UNCHANGED refs
       ELSE \E r \in records :
              LET result == IF businessFailure THEN "business" ELSE r.result
                  collects == result # "success" \/ allowed IN
              /\ r.id = c.local
              /\ Keep(Instead(r, [r EXCEPT !.result = result,
                                          !.body = IF collects THEN c.id ELSE @,
                                          !.permitted = IF collects THEN allowed ELSE @]))
    /\ UNCHANGED <<now, alive, epoch, page, allowed, sequence, evidence>>

\* errorDiagnostics(): request bodies of successes are withheld unless they are allowed now.
Frozen(rs) == {IF r.result = "success" /\ ~allowed THEN [r EXCEPT !.request = FALSE] ELSE r : r \in rs}

CaptureError ==
    /\ alive
    /\ Keep(Reset(records))
    /\ evidence' = [page |-> page, epoch |-> epoch, at |-> now, records |-> Frozen(records'), allowed |-> allowed]
    /\ UNCHANGED <<now, alive, epoch, page, allowed, calls, sequence>>

-----------------------------------------------------------------------------
Navigate ==
    /\ page < MaxPages
    /\ page' = page + 1
    /\ UNCHANGED <<now, alive, epoch, pageId, allowed, records, refs, calls, sequence, evidence>>

Stop ==
    /\ alive
    /\ alive' = FALSE /\ records' = {} /\ refs' = {}
    /\ UNCHANGED <<now, epoch, page, pageId, allowed, calls, sequence, evidence>>

\* Another tracker: start() refuses it while the first one is alive.
Start ==
    /\ ~alive /\ epoch < MaxEpochs
    /\ alive' = TRUE /\ epoch' = epoch + 1 /\ page' = page + 1 /\ pageId' = page'
    /\ UNCHANGED <<now, allowed, records, refs, calls, sequence, evidence>>

ChangePolicy ==
    /\ allowed' = ~allowed
    /\ UNCHANGED <<now, alive, epoch, page, pageId, records, refs, calls, sequence, evidence>>

Tick ==
    /\ now < MaxTime
    /\ now' = now + 1
    /\ UNCHANGED <<alive, epoch, page, pageId, allowed, records, refs, calls, sequence, evidence>>

Next ==
    \/ \E e \in 1 .. epoch : Fetch(e)
    \/ \E c \in calls : \/ \E result \in {"success", "http", "network"} : Answer(c, result)
                        \/ \E businessFailure \in BOOLEAN : ResponseText(c, businessFailure)
    \/ CaptureError
    \/ Navigate \/ Stop \/ Start \/ ChangePolicy \/ Tick

Spec == Init /\ [][Next]_vars

-----------------------------------------------------------------------------
\* Properties.

TypeOK ==
    /\ Cardinality(records) <= Entries
    /\ pageId <= page /\ refs \subseteq 1 .. sequence
    /\ \A r \in records : r.id \in 1 .. sequence
                          /\ r.result \in {"pending", "success", "http", "network", "business"}

\* The evidence of an error is of its own page view, tracker and last minute, each text is that of
\* its own request, and the bodies of a success were allowed: that of the request when the error
\* happened, that of the response when it was read (reset, finish, responseText, errorDiagnostics).
EvidenceBelongs == \A r \in evidence.records :
    /\ r.page = evidence.page /\ r.epoch = evidence.epoch /\ evidence.at - r.at <= Window
    /\ r.body \in {0, r.id}
    /\ r.result = "success" => /\ r.request => evidence.allowed
                               /\ r.body # 0 => r.permitted
    /\ \A s \in evidence.records : s.id = r.id => s = r
=============================================================================
