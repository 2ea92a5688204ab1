----------------------------- MODULE MCReceiptParts -----------------------------
(***************************************************************************)
(* The evidence of an error, for TLC: what the SDK freezes with it, how    *)
(* the receipts admit and store it, and who may read it.  An initial state *)
(* chooses one part, the others stand still.  "receipts" has the constants *)
(* and variables of DiagnosticReceipts: two requests and a consumer.       *)
(* Those that share a second set of variables are two consumers of which   *)
(* one may be a zombie, evidence that is withheld, requests that race for  *)
(* the budget of a page, and a reader beside the whole pipeline.  The last *)
(* two parts are the web application: what its views and its metric panel  *)
(* show of what they read.                                                 *)
(***************************************************************************)
EXTENDS MCDiagnosticReceipts

CONSTANTS e4, q1, x1, x2, w1, None

VARIABLES
    part,
    policy2, state2, storage2, input2, createdAt2, admitted2, deletions2, order2, sweeping2,
    details2, age2, minute2, directory2, req2, log2, worker2,
    plain, grant, call, seen,                                        \* DiagnosticReading
    now, alive, epoch, view, pageId, allowed, records, refs, calls, sequence, evidence,
                                                                     \* RequestEvidence
    location, heading, data, loading, error, reads, due, chain, waiting, moves, cut, lost,
    asked, overtaken,                                                \* AnalysisViews
    versions, library, list, selected, snapshot, reports, form, timer, preview, fetching,
    saving, answers, presses, late, unlisted                         \* MetricPanel

secondVars == <<policy2, state2, storage2, input2, createdAt2, admitted2, deletions2, order2,
                sweeping2, details2, age2, minute2, directory2, req2, log2, worker2>>
readVars == <<plain, grant, call, seen>>
viewVars == <<location, heading, data, loading, error, reads, due, chain, waiting, moves, cut,
              lost, asked, overtaken>>
panelVars == <<versions, library, list, selected, snapshot, reports, form, timer, preview,
               fetching, saving, answers, presses, late, unlisted>>
webVars == <<viewVars, panelVars>>
requestVars == <<now, alive, epoch, view, pageId, allowed, records, refs, calls, sequence, evidence>>

\* Events e1 and e2 may be exchanged, the requests and the consumers x1 and x2 too.
ProcessSymmetry == Permutations({x1, x2}) \cup Permutations({e1, e2})

NoRefusal(E) == [enabled |-> TRUE, refuses |-> [e \in E |-> "no"], perMinute |-> 20]

\* One event, which two consumers may hold.
Zombies == INSTANCE DiagnosticReceipts WITH
    Events <- {e3}, Pages <- {page}, PageOf <- [e \in {e3} |-> page],
    Client <- [e \in {e3} |-> "captured"], Requests <- {q1}, Workers <- {x1, x2},
    Policies <- {NoRefusal({e3})}, DefaultPolicy <- NoRefusal({e3}), PageLimit <- 1,
    WindowKeep <- 0, MaxBatch <- 1, MaxMinute <- 0, Deletable <- {e3}, ClockAhead <- {},
    MaxDirectory <- 0,
    policy <- policy2, state <- state2, storage <- storage2, input <- input2,
    createdAt <- createdAt2, admitted <- admitted2, deletions <- deletions2, order <- order2,
    sweeping <- sweeping2, details <- details2, age <- age2, minute <- minute2,
    directory <- directory2, req <- req2, log <- log2, worker <- worker2

\* The second event carries no evidence and is stamped ahead of the server; a new policy
\* refuses both.
Withheld == INSTANCE DiagnosticReceipts WITH
    Events <- {e3, e4}, Pages <- {page}, PageOf <- [e \in {e3, e4} |-> page],
    Client <- [e \in {e3, e4} |-> IF e = e4 THEN "rate_limited" ELSE "captured"],
    Requests <- {q1}, Workers <- {w1},
    Policies <- {NoRefusal({e3, e4}),
                 [enabled |-> TRUE, perMinute |-> 20,
                  refuses |-> [e \in {e3, e4} |-> IF e = e3 THEN "too_large" ELSE "policy_suppressed"]]},
    DefaultPolicy <- NoRefusal({e3, e4}), PageLimit <- 1, WindowKeep <- 0, MaxBatch <- 2,
    MaxMinute <- 0, Deletable <- {e3}, ClockAhead <- {e4}, MaxDirectory <- 1,
    policy <- policy2, state <- state2, storage <- storage2, input <- input2,
    createdAt <- createdAt2, admitted <- admitted2, deletions <- deletions2, order <- order2,
    sweeping <- sweeping2, details <- details2, age <- age2, minute <- minute2,
    directory <- directory2, req <- req2, log <- log2, worker <- worker2

\* One event more than the budget of a page allows, for two requests.
Budget(E, Minutes, Published) == INSTANCE DiagnosticReceipts WITH
    Events <- E, Pages <- {page}, PageOf <- [e \in E |-> page],
    Client <- [e \in E |-> "captured"], Requests <- {x1, x2}, Workers <- {},
    Policies <- Published, DefaultPolicy <- NoRefusal(E), PageLimit <- Cardinality(E) - 1,
    WindowKeep <- 1, MaxBatch <- 2, MaxMinute <- Minutes, Deletable <- {}, ClockAhead <- {},
    MaxDirectory <- 0,
    policy <- policy2, state <- state2, storage <- storage2, input <- input2,
    createdAt <- createdAt2, admitted <- admitted2, deletions <- deletions2, order <- order2,
    sweeping <- sweeping2, details <- details2, age <- age2, minute <- minute2,
    directory <- directory2, req <- req2, log <- log2, worker <- worker2

\* A budget of two in one minute, which a policy lowers; a budget of one over three minutes.
Lowered == {[NoRefusal({e1, e2, e3}) EXCEPT !.perMinute = n] : n \in {1, 20}}
Unchanged == {NoRefusal({e1, e2})}

\* One event, whose evidence is admitted, stored, deleted and read.
Reading == INSTANCE DiagnosticReading WITH
    Events <- {e3}, Pages <- {page}, PageOf <- [e \in {e3} |-> page],
    Client <- [e \in {e3} |-> "captured"], Requests <- {q1}, Workers <- {w1},
    Policies <- {NoRefusal({e3})}, DefaultPolicy <- NoRefusal({e3}), PageLimit <- 1,
    WindowKeep <- 0, MaxBatch <- 1, MaxMinute <- 0, Deletable <- {e3}, ClockAhead <- {},
    MaxDirectory <- 0,
    policy <- policy2, state <- state2, storage <- storage2, input <- input2,
    createdAt <- createdAt2, admitted <- admitted2, deletions <- deletions2, order <- order2,
    sweeping <- sweeping2, details <- details2, age <- age2, minute <- minute2,
    directory <- directory2, req <- req2, log <- log2, worker <- worker2

\* The evidence of an error: one record too many for the ring, or as many as it holds.
Ring(n) == INSTANCE RequestEvidence WITH
    Entries <- n, Pending <- 2, Window <- 0, MaxCalls <- 2, MaxPages <- 2, MaxEpochs <- 2,
    MaxTime <- 1, page <- view

\* Two scopes, one module or page route, two marks.
Views == INSTANCE AnalysisViews WITH
    Scopes <- {e1, e2}, Picks <- {page}, Marks <- {x1, x2}, MaxMoves <- 4, calls <- reads

\* Two versions of one library and one of the other, two contents of the editor.
Panel == INSTANCE MetricPanel WITH
    Versions <- {e1, e2, e3}, TypeOf <- [v \in {e1, e2, e3} |-> IF v = e3 THEN "quality" ELSE "operational"],
    Types <- {"operational", "quality"}, Forms <- {x1, x2}, MaxMoves <- 3,
    rows <- versions, type <- library, loading <- fetching, calls <- answers, moves <- presses

NoView ==
    /\ location = 0 /\ heading = 0 /\ data = 0 /\ loading = 0 /\ error = 0 /\ reads = 0 /\ due = 0
    /\ chain = 0 /\ waiting = 0 /\ moves = 0 /\ cut = 0 /\ lost = 0 /\ asked = 0 /\ overtaken = 0
NoPanel ==
    /\ versions = 0 /\ library = 0 /\ list = 0 /\ selected = 0 /\ snapshot = 0 /\ reports = 0
    /\ form = 0 /\ timer = 0 /\ preview = 0 /\ fetching = 0 /\ saving = 0 /\ answers = 0
    /\ presses = 0 /\ late = 0 /\ unlisted = 0
NoRequest ==
    /\ now = 0 /\ alive = 0 /\ epoch = 0 /\ view = 0 /\ pageId = 0 /\ allowed = 0
    /\ records = 0 /\ refs = 0 /\ calls = 0 /\ sequence = 0 /\ evidence = 0
NoReader == plain = 0 /\ grant = 0 /\ call = 0 /\ seen = 0

EvidenceInit ==
    \/ /\ NoReader /\ NoRequest
       /\ \/ part \in {"receipts", "renewed"} /\ Budget({e1, e2}, 2, Unchanged)!Init
          \/ part = "zombies" /\ Zombies!Init
          \/ part = "withheld" /\ Withheld!Init
          \/ part = "shared" /\ Budget({e1, e2, e3}, 0, Lowered)!Init
    \/ part = "reading" /\ Reading!ReadingInit /\ NoRequest
    \/ part \in {"evicted", "requests"} /\ Ring(1)!Init /\ NoReader /\ Zombies!Init

PartsInit ==
    /\ Init
    /\ \/ EvidenceInit /\ NoView /\ NoPanel
       \/ /\ Zombies!Init /\ NoReader /\ NoRequest
          /\ \/ part = "views" /\ Views!Init /\ NoPanel
             \/ part = "panel" /\ Panel!Init /\ NoView

Apart == UNCHANGED <<readVars, requestVars>>

EvidenceNext ==
    \/ part = "receipts" /\ Next /\ Apart /\ UNCHANGED secondVars
    \/ /\ \/ part = "zombies" /\ Zombies!Next
          \/ part = "withheld" /\ Withheld!Next
          \/ part = "shared" /\ Budget({e1, e2, e3}, 0, Lowered)!Next
          \/ part = "renewed" /\ Budget({e1, e2}, 2, Unchanged)!Next
       /\ Apart /\ UNCHANGED vars
    \/ part = "reading" /\ Reading!ReadingNext /\ UNCHANGED <<vars, requestVars>>
    \/ part = "evicted" /\ Ring(1)!Next /\ UNCHANGED <<vars, secondVars, readVars>>
    \/ part = "requests" /\ Ring(2)!Next /\ UNCHANGED <<vars, secondVars, readVars>>

WebNext ==
    \/ part = "views" /\ Views!Next /\ UNCHANGED panelVars
    \/ part = "panel" /\ Panel!Next /\ UNCHANGED viewVars

PartsNext ==
    \/ EvidenceNext /\ UNCHANGED <<part, webVars>>
    \/ WebNext /\ UNCHANGED <<part, vars, secondVars, readVars, requestVars>>

PartsSpec == PartsInit /\ [][PartsNext]_<<part, vars, secondVars, readVars, requestVars, webVars>>

\* The variables of every part keep their types.
EvidenceTypeOK ==
    /\ TypeOK
    /\ part = "reading" => Reading!ReadingTypeOK
    /\ part = "evicted" => Ring(1)!TypeOK
    /\ part = "requests" => Ring(2)!TypeOK
    /\ part = "views" => Views!TypeOK
    /\ part = "panel" => Panel!TypeOK

\* Whichever consumer comes late a tombstone is final and what is ready can be read; what is
\* withheld cannot, and the budget of a page is kept however requests race (remove, persist,
\* admit).  A read, an export or a search shows what could be read at one moment, ready evidence is
\* found, the evidence of an error is its own, and what the views and the metric panel show belongs
\* to what is asked for (RuntimeDiagnostics.read, exportEvidence, search, createRequestDiagnostics,
\* the load functions of the views, MetricLibraryPanel.vue).
ReadersSeeTheTruth ==
    /\ WithheldNeverStored
    /\ part = "zombies" => Zombies!TombstoneFinal /\ Zombies!ReadyHasDetail
    /\ part = "withheld" => /\ Withheld!TombstoneFinal /\ Withheld!ReadyHasDetail
                            /\ Withheld!WithheldNeverStored
    /\ part = "shared" => Budget({e1, e2, e3}, 0, Lowered)!BudgetExact
    /\ part = "renewed" => Budget({e1, e2}, 2, Unchanged)!BudgetExact
    /\ part = "reading" => Reading!ReadAtOneMoment /\ Reading!ReadyIsFound
    /\ part = "evicted" => Ring(1)!EvidenceBelongs
    /\ part = "requests" => Ring(2)!EvidenceBelongs
    /\ part = "views" => Views!ViewsSound
    /\ part = "panel" => Panel!PanelSound
=============================================================================
