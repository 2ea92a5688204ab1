--------------------------- MODULE DiagnosticReading ---------------------------
(***************************************************************************)
(* Reading the evidence DiagnosticReceipts keeps: the detail of an event   *)
(* (RuntimeDiagnostics.read), its export (exportEvidence) and the search   *)
(* in details (search, searchDiagnostics).  A call asks MySQL and          *)
(* ClickHouse one after the other, while the event is persisted, deleted,  *)
(* swept or expires and the reader's grant changes.                        *)
(***************************************************************************)
EXTENDS DiagnosticReceipts

VARIABLES
    plain,    \* events of an SDK that sends no envelopes: facts without a receipt
    grant,    \* what the reader may do: diagnostic_grants, membership and account
    call,     \* the read, export or search under way
    seen      \* history: what was readable at a moment of the call, and for a read or an export
              \* at a moment at which the reader was allowed to

readingVars == <<plain, grant, call, seen>>

Places == {"idle", "open export", "open", "receipt", "base", "deleted", "detail", "map", "again", "recheck",
           "audit", "exporting", "close export", "export deleted", "audit export", "answer",
           "controller", "enter", "facts", "eligible", "texts", "current", "leave", "audit search"}
Call == [pc : Places, kind : {"read", "export", "search"}, event : SUBSET Events,
         receipt : ReceiptState \cup {"other"}, base : BOOLEAN,
         state : ReceiptState \cup {"", "unknown", "not_found", "expired"}, holds : {"nothing", "detail", "legacy"},
         ids : SUBSET Events, texts : SUBSET Events, audited : BOOLEAN]
NoCall == [pc |-> "idle", kind |-> "read", event |-> {}, receipt |-> "none", base |-> FALSE,
           state |-> "", holds |-> "nothing", ids |-> {}, texts |-> {}, audited |-> FALSE]

ReadingInit ==
    /\ Init
    /\ plain \in SUBSET Events
    /\ grant \in {"none", "read", "export"}
    /\ call = NoCall /\ seen = {}

\* allowed()
Allowed(capability) == IF capability = "export" THEN grant = "export" ELSE grant # "none"

Here == CHOOSE e \in Events : e \in call.event
Goto(pc) == call' = [call EXCEPT !.pc = pc]
Reject == call' = NoCall

\* authorize() throws unless the reader is allowed now.
Authorize(capability, pc) == IF Allowed(capability) THEN Goto(pc) ELSE Reject

-----------------------------------------------------------------------------
\* read()

BeginRead(e) ==
    /\ call.pc = "idle"
    /\ \E kind \in {"read", "export"} :
         call' = [NoCall EXCEPT !.kind = kind, !.event = {e},
                                !.pc = IF kind = "export" THEN "open export" ELSE "open"]
    /\ UNCHANGED <<vars, plain, grant>>

OpenExport == call.pc = "open export" /\ Authorize("export", "open")

Open == call.pc = "open" /\ Authorize("read", "receipt")

QueryReceipt ==
    /\ call.pc = "receipt"
    /\ call' = [call EXCEPT !.pc = "base", !.receipt = state[Here]]

\* The event's row, which the consumer writes before the detail; then the state so far.
QueryBase ==
    /\ call.pc = "base"
    /\ \E base \in BOOLEAN :
         /\ base => Here \in plain \/ \E m \in log : m.event = Here
         /\ Here \in plain => base
         /\ call' = [call EXCEPT !.pc = "deleted", !.base = base,
              !.state = IF call.receipt = "none" THEN (IF base THEN "unknown" ELSE "not_found")
                        ELSE IF age[Here] # "live" THEN "expired" ELSE call.receipt,
              !.receipt = IF @ \in {"none", "ready"} THEN @ ELSE "other"]

IsDeleted ==
    /\ call.pc = "deleted"
    /\ call' = [call EXCEPT !.pc = "detail", !.state = IF Here \in deletions THEN "deleted" ELSE @]

\* The detail of what is ready, or what the fact of an event without a receipt says.
QueryDetail ==
    /\ call.pc = "detail"
    /\ LET there == Here \in details /\ age[Here] = "live"
           holds == IF call.state = "ready" /\ there THEN "detail"
                    ELSE IF call.receipt = "none" /\ call.base /\ call.state # "deleted" THEN "legacy"
                    ELSE "nothing"
       IN call' = [call EXCEPT !.holds = holds, !.base = FALSE,
                               !.state = IF @ = "ready" /\ ~there THEN "unavailable" ELSE @,
                               !.pc = IF holds = "nothing" THEN "again" ELSE "map"]

\* SourceMaps.map() authorizes before it looks for files.
Map == call.pc = "map" /\ Authorize("read", "again")

Again == call.pc = "again" /\ Authorize("read", "recheck")

Late == call.receipt # "none" /\ age[Here] # "live"

\* Mutant: what was read is answered without looking at the tombstones again.
RecheckMutant ==
    /\ call.pc = "recheck"
    /\ call' = IF Late THEN [call EXCEPT !.pc = "audit", !.state = "expired", !.holds = "nothing"]
               ELSE [call EXCEPT !.pc = "audit"]

Recheck ==
    /\ call.pc = "recheck"
    /\ call' = IF Here \in deletions \/ Late
               THEN [call EXCEPT !.pc = "audit", !.holds = "nothing",
                                 !.state = IF Here \in deletions THEN "deleted" ELSE "expired"]
               ELSE [call EXCEPT !.pc = "audit"]

Audit ==
    /\ call.pc = "audit"
    /\ call' = [call EXCEPT !.audited = TRUE, !.pc = IF call.kind = "export" THEN "exporting" ELSE "answer"]

\* exportEvidence(), after its read().
Exporting ==
    /\ call.pc = "exporting"
    /\ IF call.state \in {"not_found", "deleted", "expired"} \/ Here \in deletions
       THEN Reject ELSE call' = [call EXCEPT !.pc = "close export", !.audited = FALSE]

CloseExport == call.pc = "close export" /\ Authorize("export", "export deleted")

ExportDeleted ==
    /\ call.pc = "export deleted"
    /\ IF Here \in deletions \/ Late THEN Reject ELSE Goto("audit export")

AuditExport ==
    /\ call.pc = "audit export"
    /\ call' = [call EXCEPT !.audited = TRUE, !.pc = "answer"]

Read == /\ \/ OpenExport \/ Open \/ QueryReceipt \/ QueryBase \/ IsDeleted \/ QueryDetail \/ Map
           \/ Again \/ Recheck \/ Audit \/ Exporting \/ CloseExport \/ ExportDeleted \/ AuditExport
        /\ UNCHANGED <<vars, plain, grant>>

-----------------------------------------------------------------------------
\* search(): the controller authorizes, and the service once more.

BeginSearch ==
    /\ call.pc = "idle"
    /\ call' = [NoCall EXCEPT !.kind = "search", !.pc = "controller"]
    /\ UNCHANGED <<vars, plain, grant>>

Controller == call.pc = "controller" /\ Authorize("read", "enter")
Enter == call.pc = "enter" /\ Authorize("read", "facts")

\* The facts the filters select.
QueryFacts ==
    /\ call.pc = "facts"
    /\ \E ids \in SUBSET (plain \cup {m.event : m \in log}) :
         call' = [call EXCEPT !.pc = "eligible", !.ids = ids]

Eligible(ids) == {e \in ids : state[e] = "ready" /\ age[e] = "live"}

QueryEligible ==
    /\ call.pc = "eligible"
    /\ call' = [call EXCEPT !.pc = "texts", !.ids = Eligible(@)]

QueryTexts ==
    /\ call.pc = "texts"
    /\ call' = [call EXCEPT !.pc = "current", !.texts = {e \in call.ids \cap details : age[e] = "live"}]

\* Whatever matches among the texts of events that are eligible still.
QueryCurrent ==
    /\ call.pc = "current"
    /\ \E found \in SUBSET (call.texts \cap Eligible(call.ids)) :
         call' = [call EXCEPT !.pc = "leave", !.event = found]

LeaveSearch == call.pc = "leave" /\ Authorize("read", "audit search")

AuditSearch ==
    /\ call.pc = "audit search"
    /\ call' = [call EXCEPT !.audited = TRUE, !.holds = "detail", !.pc = "answer"]

Search == /\ \/ Controller \/ Enter \/ QueryFacts \/ QueryEligible \/ QueryTexts \/ QueryCurrent
             \/ LeaveSearch \/ AuditSearch
          /\ UNCHANGED <<vars, plain, grant>>

-----------------------------------------------------------------------------
Answer ==
    /\ call.pc = "answer"
    /\ Reject
    /\ UNCHANGED <<vars, plain, grant>>

\* A database does not answer: the call throws.
Break ==
    /\ call.pc # "idle"
    /\ Reject
    /\ UNCHANGED <<vars, plain, grant>>

\* grant(), a membership or an account that ends.
Grant(capabilities) ==
    /\ capabilities # grant /\ grant' = capabilities
    /\ UNCHANGED <<vars, plain, call>>

\* The pipeline; an event without an envelope is in no batch, and no call lasts the 90 days after
\* which the event it reads is retired.
Pipeline ==
    /\ Next
    /\ \A r \in Requests : req'[r].batch \cap plain = {}
    /\ \A e \in call.event : age'[e] = "retired" => age[e] = "retired"
    /\ UNCHANGED <<plain, grant, call>>

\* What may be read at a moment: a detail, or the fact of an event without a receipt.
ReadableNow == {x \in Events \X {"detail", "legacy"} :
    /\ x[1] \notin deletions
    /\ IF x[2] = "detail" THEN state[x[1]] = "ready" /\ age[x[1]] = "live" /\ x[1] \in details
       ELSE x[1] \in plain \/ \E m \in log : m.event = x[1]}
SeenNow == IF call.kind = "search" \/ Allowed(call.kind) THEN ReadableNow ELSE {}

Remember == seen' = IF call'.pc = "idle" THEN {} ELSE seen \cup SeenNow'

ReadingNext ==
    /\ \/ \E e \in Events : BeginRead(e)
       \/ BeginSearch \/ Read \/ Search \/ Answer \/ Break
       \/ \E capabilities \in {"none", "read", "export"} : Grant(capabilities)
       \/ Pipeline
    /\ Remember

ReadingSpec == ReadingInit /\ [][ReadingNext]_<<vars, readingVars>>

-----------------------------------------------------------------------------
\* Properties.

\* The variables keep their types, and a read or an export is about one event.
ReadingTypeOK ==
    /\ TypeOK
    /\ plain \subseteq Events /\ grant \in {"none", "read", "export"} /\ call \in Call
    /\ seen \subseteq Events \X {"detail", "legacy"}
    /\ call.texts \subseteq call.ids
    /\ call.pc # "idle" /\ call.kind # "search" => \E e \in Events : call.event = {e}

\* The evidence in an answer was readable, and its reader allowed to have it, at one moment of the
\* call, whatever happened before and after it; what a search finds was readable at one moment and
\* its reader allowed at another.  Each answer with evidence has a row in the audit.
ReadAtOneMoment ==
    call.pc = "answer" /\ call.holds # "nothing" =>
        /\ call.audited
        /\ call.event \X {call.holds} \subseteq seen

\* A reader is never told that ready evidence is not available: the detail is written before the
\* receipt is ready, and it only goes when the event is deleted or expires (persist, cleanup).
ReadyIsFound ==
    call.pc = "answer" /\ call.receipt = "ready" => call.state \in {"ready", "deleted", "expired"}
=============================================================================
