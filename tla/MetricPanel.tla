------------------------------ MODULE MetricPanel ------------------------------
(***************************************************************************)
(* The metric library as one administrator works with it in the browser    *)
(* (MetricLibraryPanel.vue), while others change the versions.             *)
(*                                                                         *)
(* The panel keeps a list of versions, a selected one, the snapshot and    *)
(* the reports of that version, and an editor whose formula the server     *)
(* previews.  Each of them is read by a call of its own; calls end in any  *)
(* order, and the user goes on meanwhile.  Watchers run before the next    *)
(* answer, so they belong to the step that triggers them.                  *)
(***************************************************************************)
EXTENDS Integers, FiniteSets

CONSTANTS
    Versions, TypeOf,   \* versions that may come to exist, and their library
    Types, Forms,       \* libraries; contents of the editor
    MaxMoves,           \* bound: what the user and the others do
    None

VARIABLES
    rows,        \* the server's versions: their status
    type,        \* the library shown
    list,        \* the versions as last read
    selected,
    snapshot,    \* the version whose snapshot is shown
    reports,     \* the version whose validation and whose changes are shown
    form,        \* what the editor holds, None when it is closed
    timer,       \* the preview waits for the user to pause
    preview,     \* the form whose preview is shown
    loading, saving,
    calls,
    moves,
    late,        \* history: reports that came when another version was selected
    unlisted     \* history: a selection of a draft the list does not have

shown == <<list, selected, snapshot, reports, late>>
editor == <<form, timer, preview>>
vars == <<rows, type, shown, editor, loading, saving, calls, moves, unlisted>>

ReportKinds == {"validation", "changes"}
Statuses == {"absent", "draft", "active", "superseded", "abandoned"}

\* A call: what it asks for, of which version or library, with which form; whether it belongs to
\* the last load, and to the last snapshot or preview asked for; the validation reported after
\* it, and whether its end enables the buttons again.
Call(kind, of) == [kind |-> kind, of |-> of, form |-> None, load |-> FALSE, last |-> FALSE,
                   after |-> None, frees |-> FALSE]

TypeOK ==
    /\ rows \in [Versions -> Statuses] /\ type \in Types
    /\ \A r \in list : r.id \in Versions /\ r.status \in Statuses
    /\ {selected, snapshot} \subseteq Versions \cup {None}
    /\ reports \in [ReportKinds -> Versions \cup {None}]
    /\ form \in Forms \cup {None} /\ timer \in BOOLEAN
    /\ preview \in Forms \cup {None}
    /\ loading \in BOOLEAN /\ saving \in BOOLEAN /\ moves \in 0 .. MaxMoves

Of(t) == {v \in Versions : TypeOf[v] = t}
Having(t, status) == {v \in Of(t) : rows[v] = status}
Listed(t) == {[id |-> v, status |-> rows[v]] : v \in {w \in Of(t) : rows[w] # "absent"}}

\* A project begins with a draft; the panel is mounted and loads.
Init ==
    /\ \E f \in [Types -> Versions] :
          /\ \A t \in Types : TypeOf[f[t]] = t
          /\ rows = [v \in Versions |-> IF \E t \in Types : f[t] = v THEN "active" ELSE "absent"]
    /\ type \in Types
    /\ list = {} /\ selected = None /\ snapshot = None
    /\ reports = [k \in ReportKinds |-> None]
    /\ form = None /\ timer = FALSE /\ preview = None
    /\ loading = TRUE /\ saving = FALSE
    /\ calls = {[Call("list", type) EXCEPT !.load = TRUE]}
    /\ moves = 0 /\ late = {} /\ unlisted = FALSE

-----------------------------------------------------------------------------
(* Reading *)

Move == moves < MaxMoves /\ moves' = moves + 1
Ids(L) == {r.id : r \in L}
Status(v) == {r.status : r \in {x \in list : x.id = v}}

\* load(): only the last one counts.
Loads(C, report, frees) ==
    {[c EXCEPT !.load = FALSE] : c \in C}
        \cup {[Call("list", type) EXCEPT !.load = TRUE, !.after = report, !.frees = frees]}

\* The snapshots, and the previews, that were asked for before do not count any more.
Outdated(C, kind) == {IF c.kind = kind THEN [c EXCEPT !.last = FALSE] ELSE c : c \in C}

\* loadVersion(), for the caller c that waits for it: what was shown of a version is cleared.
Asked(C, v, c) ==
    Outdated(C, "snapshot")
        \cup IF v = None THEN {} ELSE {[c EXCEPT !.kind = "snapshot", !.of = v, !.last = TRUE]}

\* Mutant: the reports stay.
ClearedMutant == snapshot' = None /\ UNCHANGED <<reports, late>>

Cleared == snapshot' = None /\ reports' = [k \in ReportKinds |-> None] /\ late' = {}

\* The watcher of the selection calls loadVersion().
Selects(C, v) ==
    /\ selected' = v
    /\ IF v = selected THEN calls' = C /\ UNCHANGED <<snapshot, reports, late>>
       ELSE calls' = Asked(C, v, Call("snapshot", v)) /\ Cleared

\* loadVersion() of a caller that may have changed the selection: the watcher follows.
SelectsAndWaits(C, v, c) ==
    /\ selected' = v
    /\ Cleared
    /\ calls' = LET waits == Asked(C, v, c)
                IN IF v = selected THEN waits ELSE Asked(waits, v, Call("snapshot", v))

\* validation.value = ..., [diff.value, impact.value] = ...: whatever is selected by now.
Reports(k, v) ==
    /\ reports' = [reports EXCEPT ![k] = v]
    /\ late' = IF v = selected THEN late ELSE late \cup {v}

\* A call is over and with it the load, the caller's lock of the buttons and its last report.
Over(c) ==
    /\ calls' = calls \ {c}
    /\ loading' = (loading /\ ~c.load)
    /\ saving' = (saving /\ ~c.frees)
    /\ IF c.after = None THEN UNCHANGED <<reports, late>> ELSE Reports("validation", c.after)

\* selectVisibleVersion(): the selection stays if the list has it.
Choices(L) ==
    LET having(status) == {r \in L : r.status = status}
    IN IF selected \in Ids(L) THEN {selected}
       ELSE IF having("draft") # {} THEN Ids(having("draft"))
       ELSE IF having("active") # {} THEN Ids(having("active"))
       ELSE IF L # {} THEN Ids(L) ELSE {None}

ListCame(c) ==
    /\ c.kind = "list" /\ c.load
    /\ list' = Listed(c.of) /\ unlisted' = FALSE
    /\ \E v \in Choices(Listed(c.of)) :
          /\ SelectsAndWaits(calls \ {c}, v, c)
          /\ loading' = (v # None) /\ saving' = (saving /\ (v # None \/ ~c.frees))
    /\ UNCHANGED <<rows, type, editor, moves>>

\* A list that is not the last one asked for, or an error.
ListFailed(c) ==
    /\ c.kind = "list"
    /\ Over(c)
    /\ unlisted' = (unlisted \/ selected \notin Ids(list))
    /\ UNCHANGED <<rows, type, list, selected, snapshot, editor, moves>>

\* Mutant: the answer counts whichever version is selected by now.
CountsMutant(c) == TRUE

Counts(c) == c.last

SnapshotCame(c) ==
    /\ c.kind = "snapshot"
    /\ Over(c)
    /\ \/ snapshot' = IF Counts(c) THEN c.of ELSE snapshot
       \/ UNCHANGED snapshot
    /\ UNCHANGED <<rows, type, list, selected, editor, moves, unlisted>>

ReportCame(c) ==
    /\ c.kind \in ReportKinds
    /\ calls' = calls \ {c}
    /\ saving' = (saving /\ ~c.frees)
    /\ Reports(c.kind, c.of) \/ UNCHANGED <<reports, late>>
    /\ UNCHANGED <<rows, type, list, selected, snapshot, editor, loading, moves, unlisted>>

-----------------------------------------------------------------------------
(* Changing *)

\* The version a change of version v is written to: v itself, or a new draft.
Targets(v) ==
    IF rows[v] = "draft" THEN {v}
    ELSE IF Having(TypeOf[v], "draft") # {} THEN {}
    ELSE Having(TypeOf[v], "absent")

Kept == UNCHANGED <<type, list, editor, moves>>

\* Mutant: editing does not outdate the preview that is under way.
OutdatedPreviewsMutant == calls

\* The watcher of the editor calls scheduleFormulaPreview() when it opens, closes or changes.
OutdatedPreviews == Outdated(calls, "preview")

\* createDraft(), deleteMetric() and saveMetric(): the answer is selected and everything loaded.
Changed(c) ==
    /\ c.kind \in {"create", "delete", "save"}
    /\ \E v \in IF c.kind = "create" THEN Targets(c.of) \ {c.of} ELSE Targets(c.of) :
          /\ rows' = [rows EXCEPT ![v] = "draft"]
          /\ IF c.kind = "save" THEN Selects(Loads(OutdatedPreviews \ {c}, v, c.frees), v)
             ELSE Selects(Loads(calls \ {c}, None, c.frees), v)
    /\ loading' = TRUE
    /\ IF c.kind = "save" THEN form' = None /\ timer' = FALSE /\ preview' = None ELSE UNCHANGED editor
    /\ UNCHANGED <<type, list, saving, moves, unlisted>>

\* METRIC_LIBRARY_DRAFT_EXISTS: the draft is selected, the list is not read again.
DraftExists(c) ==
    /\ c.kind = "create"
    /\ \E v \in Having(TypeOf[c.of], "draft") :
          /\ SelectsAndWaits(calls \ {c}, v, [Call("snapshot", v) EXCEPT !.frees = TRUE])
          /\ unlisted' = (unlisted \/ v \notin Ids(list))
    /\ UNCHANGED <<rows, loading, saving>> /\ Kept

\* The three refreshes of system metrics read the version that is selected by now.
FactsCame(c) ==
    /\ c.kind = "facts" /\ rows[c.of] = "draft"
    /\ SelectsAndWaits(calls \ {c}, selected, Call("snapshot", selected))
    /\ UNCHANGED <<rows, loading, saving, unlisted>> /\ Kept

\* activate(): score, changes and impact are read, the user confirms.
Confirmed(c) ==
    /\ c.kind = "review"
    /\ calls' = (calls \ {c}) \cup {[Call("activate", c.of) EXCEPT !.frees = TRUE]}
    /\ saving' = TRUE
    /\ UNCHANGED <<rows, selected, snapshot, reports, late, loading, unlisted>> /\ Kept

Activated(v) ==
    [w \in Versions |-> IF w = v THEN "active"
                        ELSE IF TypeOf[w] = TypeOf[v] /\ rows[w] = "active" THEN "superseded" ELSE rows[w]]

StatusChanged(c) ==
    /\ \/ c.kind = "activate" /\ rows[c.of] \in {"draft", "superseded"} /\ rows' = Activated(c.of)
       \/ c.kind = "abandon" /\ rows[c.of] = "draft" /\ rows' = [rows EXCEPT ![c.of] = "abandoned"]
    /\ calls' = Loads(calls \ {c}, None, c.frees)
    /\ loading' = TRUE
    /\ UNCHANGED <<selected, snapshot, reports, late, saving, unlisted>> /\ Kept

\* Refused, failed or not confirmed.
Refused(c) ==
    /\ c.kind \in {"create", "delete", "save", "facts", "review", "activate", "abandon"}
    /\ Over(c)
    /\ UNCHANGED <<rows, selected, snapshot, unlisted>> /\ Kept

\* The answer may raise the minimum of the sample, which is an edit of its own.
PreviewCame(c) ==
    /\ c.kind = "preview"
    /\ \/ /\ calls' = calls \ {c}
          /\ preview' = IF c.last THEN c.form ELSE preview
          /\ UNCHANGED <<form, timer>>
       \/ /\ c.last
          /\ form' \in Forms \ {form} /\ timer' = TRUE /\ preview' = None
          /\ calls' = Outdated(calls \ {c}, "preview")
    /\ UNCHANGED <<rows, type, shown, loading, saving, moves, unlisted>>

-----------------------------------------------------------------------------
(* The user *)

\* The buttons of the selected version.
Presses ==
    /\ Move
    /\ selected \in Ids(list)
    /\ \/ /\ ~saving /\ Status(selected) \cap {"abandoned", "draft"} = {}
          /\ calls' = calls \cup {[Call("create", selected) EXCEPT !.frees = TRUE]} /\ saving' = TRUE
       \/ /\ Status(selected) = {"draft"}
          /\ calls' = calls \cup {[Call("validation", selected) EXCEPT !.frees = TRUE]} /\ saving' = TRUE
       \/ /\ \/ calls' = calls \cup {Call("changes", selected)}
             \/ Status(selected) = {"draft"} /\ \E k \in {"facts", "abandon"} :
                   calls' = calls \cup {Call(k, selected)}
             \/ Status(selected) \cap {"draft", "superseded"} # {}
                  /\ calls' = calls \cup {[Call("review", selected) EXCEPT !.frees = TRUE]}
             \/ snapshot # None /\ calls' = calls \cup {Call("delete", selected)}
          /\ UNCHANGED saving
    /\ UNCHANGED <<rows, type, shown, editor, loading, unlisted>>

Select ==
    /\ Move
    /\ \E v \in Ids(list) : Selects(calls, v)
    /\ UNCHANGED <<rows, type, list, editor, loading, saving, unlisted>>

Reload ==
    /\ Move
    /\ calls' = Loads(calls, None, FALSE) /\ loading' = TRUE
    /\ UNCHANGED <<rows, type, shown, editor, saving, unlisted>>

\* The tab of the other library: the same component with other properties.
SwitchType ==
    /\ Move
    /\ type' \in Types \ {type}
    /\ list' = {} /\ selected' = None /\ snapshot' = None
    /\ IF selected # None THEN reports' = [k \in ReportKinds |-> None] /\ late' = {}
       ELSE UNCHANGED <<reports, late>>
    /\ form' = None /\ timer' = FALSE /\ preview' = None
    /\ calls' = LET C == Outdated(OutdatedPreviews, "snapshot")
                IN {[c EXCEPT !.load = FALSE] : c \in C} \cup {[Call("list", type') EXCEPT !.load = TRUE]}
    /\ loading' = TRUE /\ unlisted' = FALSE
    /\ UNCHANGED <<rows, saving>>

\* resetEditor(), openEdit() and each edit: the preview is scheduled anew.
Edit ==
    /\ Move
    /\ \E f \in Forms \ {form} : form' = f
    /\ form = None => selected # None
    /\ timer' = TRUE /\ preview' = None
    /\ calls' = OutdatedPreviews
    /\ reports' = IF form = None THEN [reports EXCEPT !["validation"] = None] ELSE reports
    /\ UNCHANGED <<rows, type, list, selected, snapshot, late, loading, saving, unlisted>>

CloseEditor ==
    /\ form # None
    /\ form' = None /\ timer' = FALSE /\ preview' = None
    /\ calls' = OutdatedPreviews
    /\ UNCHANGED <<rows, type, shown, loading, saving, moves, unlisted>>

PreviewFormula ==
    /\ timer /\ timer' = FALSE
    /\ calls' = IF selected \notin Ids(list) THEN calls
                ELSE OutdatedPreviews \cup {[Call("preview", selected) EXCEPT !.form = form, !.last = TRUE]}
    /\ UNCHANGED <<rows, type, shown, form, preview, loading, saving, moves, unlisted>>

SaveMetric ==
    /\ Move
    /\ form # None /\ preview # None /\ ~saving /\ selected \in Ids(list)
    /\ calls' = calls \cup {[Call("save", selected) EXCEPT !.form = form, !.frees = TRUE]}
    /\ saving' = TRUE
    /\ UNCHANGED <<rows, type, shown, editor, loading, unlisted>>

\* Other administrators create, activate and abandon versions.
Others ==
    /\ Move
    /\ \/ \E t \in Types : Having(t, "draft") = {}
             /\ \E v \in Having(t, "absent") : rows' = [rows EXCEPT ![v] = "draft"]
       \/ \E v \in Versions : rows[v] \in {"draft", "superseded"} /\ rows' = Activated(v)
       \/ \E v \in Versions : rows[v] = "draft" /\ rows' = [rows EXCEPT ![v] = "abandoned"]
    /\ UNCHANGED <<type, shown, editor, loading, saving, calls, unlisted>>

Answer ==
    \E c \in calls :
        \/ ListCame(c) \/ ListFailed(c) \/ SnapshotCame(c) \/ ReportCame(c) \/ PreviewCame(c)
        \/ Changed(c) \/ DraftExists(c) \/ FactsCame(c) \/ Confirmed(c) \/ StatusChanged(c) \/ Refused(c)

Next ==
    \/ Answer
    \/ Presses \/ Select \/ Reload \/ SwitchType
    \/ Edit \/ CloseEditor \/ PreviewFormula \/ SaveMetric
    \/ Others

Spec == Init /\ [][Next]_vars

-----------------------------------------------------------------------------
(* Properties *)

\* The snapshot shown is that of the selected version, whichever answer came last (loadVersion).
SnapshotIsSelected == snapshot # None => snapshot = selected

\* A validation and a comparison stand beside the version they were made of, unless another one
\* was selected before they came (validateSelected, loadChangeReadModels, saveMetric).
ReportsAreSelected == \A k \in ReportKinds : reports[k] \in {None, selected} \cup late

\* The preview is that of the formula in the editor, so that what is saved has been previewed
\* (scheduleFormulaPreview, previewFormula, saveMetric).
PreviewIsOfForm == preview # None => preview = form

\* The selected version is one of the list, so that its status and buttons can be shown: except
\* after the conflict with a draft the list does not have yet, and while the list cannot be read.
SelectedIsListed ==
    selected # None /\ ~unlisted /\ ~(\E c \in calls : c.kind = "list" /\ c.load) => selected \in Ids(list)

\* Whatever is replaced or refused, loading and saving end with a call that is under way.
BusyEnds ==
    /\ loading => \E c \in calls : c.load
    /\ saving => \E c \in calls : c.frees

PanelSound ==
    /\ SnapshotIsSelected /\ ReportsAreSelected /\ PreviewIsOfForm
    /\ SelectedIsListed /\ BusyEnds
==============================================================================
