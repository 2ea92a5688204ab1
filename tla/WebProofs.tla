---------------------------- MODULE WebProofs ----------------------------
(***************************************************************************)
(* The web application: what the analysis views show is what the URL says, *)
(* for any number of scopes, selections, moves and calls, and what the     *)
(* metric panel shows belongs to what is selected and edited, for any      *)
(* number of versions, libraries and moves.                                *)
(*                                                                         *)
(* The views.  The property is not inductive:                              *)
(*   ReadsSound    the last read is for what the URL says or for what the  *)
(*                 watcher is about to read;                               *)
(*   HeadingSound  where a pending navigation leads, by its author: that   *)
(*                 of the user stopped the reads of the view it leaves;    *)
(*   ChainSound    what the URL will have in a field once the waiting      *)
(*                 changes of the filters are through.                     *)
(*                                                                         *)
(* The panel.  A step changes the calls by the operators Outdated, Loads   *)
(* and Asked; the lemmas say what each of them keeps, so that the steps    *)
(* follow from what they make of the calls.                                *)
(***************************************************************************)
EXTENDS AnalysisViews, SequenceTheorems, TLAPS

\* The metric panel, with constants and variables of its own.
CONSTANTS
    Versions, TypeOf, Types, Forms, MaxPresses

VARIABLES
    rows, type, list, selected, snapshot, reports, form, timer, preview, fetching, saving, answers,
    presses, late, unlisted

Panel == INSTANCE MetricPanel WITH
    loading <- fetching, calls <- answers, moves <- presses, MaxMoves <- MaxPresses

-----------------------------------------------------------------------------
\* The views.

Keys == [scope : Scopes, pick : Picks \cup {None}, mark : Marks \cup {None}]
ReadCall == [key : Keys, fresh : BOOLEAN]
Heading == [to : Locations, by : Authors, late : BOOLEAN]
Changes == [field : {"pick"}, value : Picks, here : BOOLEAN] \cup [field : {"mark"}, value : Marks, here : BOOLEAN]
           \cup [field : {"refresh"}, value : {None}, here : BOOLEAN]
Fields == {"pick", "mark"}

\* What is assumed of the constants: None is no value of the others.
ViewConstants == None \notin Picks \cup Marks \cup Keys \cup Heading

NoFresh(C) == \A c \in C : ~c.fresh
Fresh(C) == \E c \in C : c.fresh

ViewTyped ==
    /\ location \in Locations /\ heading \in Heading \cup {None}
    /\ data \in Keys \cup {None} /\ loading \in BOOLEAN /\ error \in BOOLEAN /\ due \in BOOLEAN /\ cut \in BOOLEAN
    /\ calls \subseteq ReadCall
    /\ chain \in Seq(Changes) /\ lost \in BOOLEAN /\ asked \in [Fields -> Picks \cup Marks \cup {None}]

\* The last read is for what the URL says, and the data was.
FreshIsAsked == \A c \in calls : c.fresh =>
    /\ location.view \in Reading
    /\ IF due THEN ~Keeps(location.view) ELSE c.key = Key(location)
ReadsSound == (due => location.view \in Reading) /\ FreshIsAsked /\ ShownIsAsked /\ LoadingEnds /\ NothingForgotten

\* A pending navigation: where it leads, by its author.
DefaultStays == Pending("default") => location.view = "business" /\ heading.to.view = "business" /\ ~due /\ data # None
UserLeaves == Pending("user") =>
    /\ ~due
    /\ Leaves(heading.to) /\ Keeps(location.view) /\ ~heading.late => NoFresh(calls)
ChainStays == Pending("chain") => heading.to.view = location.view /\ waiting = "route"
OthersKeep == heading # None /\ ~Pending("chain") /\ Chains(location.view) /\ ~Leaves(heading.to) =>
    heading.to.pick = location.pick /\ heading.to.mark = location.mark
HeadingSound == DefaultStays /\ UserLeaves /\ ChainStays /\ OthersKeep

\* What the URL will have in a field once the chain is done: the value of the last change of that
\* field, else of the chain's navigation that is pending, else of the URL.
LastOf(f, i) == chain[i].field = f /\ \A j \in DOMAIN chain : chain[j].field = f => j <= i
Composed(f) ==
    /\ \A i \in DOMAIN chain : LastOf(f, i) => chain[i].value = asked[f]
    /\ (\A i \in DOMAIN chain : chain[i].field # f) =>
          asked[f] = IF Pending("chain") THEN heading.to[f] ELSE location[f]
ChainSound ==
    /\ \A i \in DOMAIN chain : chain[i].here => Chains(location.view)
    /\ Chains(location.view) /\ ~lost => \A f \in Fields : asked[f] # None => Composed(f)

ViewInvariant == ViewTyped /\ ReadsSound /\ HeadingSound /\ ChainSound /\ LeaveStands

-----------------------------------------------------------------------------
\* What the data of a view belongs to.
LEMMA KeyTyped ==
    ASSUME NEW l \in Locations
    PROVE  Key(l) \in Keys /\ l.view \in Reading \cup {"denied", "login"}
BY DEF Locations, Key, Keys

\* Of reads that are replaced none is the last one.
LEMMA ReplacedIsStale ==
    ASSUME calls \subseteq ReadCall
    PROVE  Replaced(calls) \subseteq ReadCall /\ NoFresh(Replaced(calls))
<1>1. ASSUME NEW d \in Replaced(calls) PROVE d \in ReadCall /\ ~d.fresh
    <2>1. PICK c \in calls : d = [c EXCEPT !.fresh = FALSE]
        BY DEF Replaced
    <2> QED BY <2>1 DEF ReadCall
<1> QED BY <1>1 DEF NoFresh

\* What cancelling, loading and heading somewhere do, once for all steps that do it.
LEMMA CancelDoes ==
    ASSUME ViewTyped, Cancel
    PROVE  /\ calls' \subseteq ReadCall /\ NoFresh(calls') /\ loading' = FALSE /\ cut' = (cut \/ loading)
           /\ cut' \in BOOLEAN /\ UNCHANGED <<data, error, due>>
BY ReplacedIsStale DEF Cancel, ViewTyped

LEMMA LoadDoes ==
    ASSUME ViewTyped, NEW l \in Locations, NEW s \in Keys \cup {None}, Load(l, s)
    PROVE  /\ calls' \subseteq ReadCall /\ Fresh(calls') /\ \A c \in calls' : c.fresh => c.key = Key(l)
           /\ loading' = TRUE /\ error' = FALSE /\ due' = FALSE /\ cut' = FALSE
           /\ data' \in {None, Key(l)} /\ data' \in Keys \cup {None}
           /\ data' = IF Keeps(l.view) /\ s = Key(l) THEN s ELSE None
<1>1. PICK new : new = [key |-> Key(l), fresh |-> TRUE]
    OBVIOUS
<1>2. calls' = Replaced(calls) \cup {new}
    BY <1>1 DEF Load
<1>3. new \in ReadCall /\ new.fresh = TRUE /\ new.key = Key(l)
    BY <1>1, KeyTyped DEF ReadCall
<1>4. calls' \subseteq ReadCall /\ Fresh(calls') /\ \A c \in calls' : c.fresh => c.key = Key(l)
    BY <1>2, <1>3, ReplacedIsStale DEF ViewTyped, NoFresh, Fresh
<1>5. /\ loading' = TRUE /\ error' = FALSE /\ due' = FALSE /\ cut' = FALSE
      /\ data' = IF Keeps(l.view) /\ s = Key(l) THEN s ELSE None
    BY DEF Load
<1> QED BY <1>4, <1>5, KeyTyped

\* The new heading, and whom it replaces.
LEMMA HeadsDoes ==
    ASSUME ViewConstants, ViewTyped, NEW to \in Locations, NEW by \in Authors, Heads(to, by)
    PROVE  /\ heading' \in Heading \cup {None}
           /\ (heading' = None <=> to = location)
           /\ (heading' # None => heading'.to = to /\ heading'.by = by /\ ~heading'.late)
           /\ \A a : a # by => ~(heading' # None /\ heading'.by = a)
           /\ lost' \in BOOLEAN /\ (lost \/ (Pending("chain") /\ by # "chain") <=> lost')
<1>1. PICK new : new = [to |-> to, by |-> by, late |-> FALSE]
    OBVIOUS
<1>2. new \in Heading /\ new # None /\ new.to = to /\ new.by = by /\ new.late = FALSE
    <2>1. new \in Heading
        BY <1>1 DEF Heading
    <2> QED BY <1>1, <2>1 DEF ViewConstants
<1>3. heading' = IF to = location THEN None ELSE new
    BY <1>1 DEF Heads
<1>4. lost' = (lost \/ (Pending("chain") /\ by # "chain")) /\ lost \in BOOLEAN
    BY DEF Heads, ViewTyped
<1>5. lost' \in BOOLEAN /\ (lost \/ (Pending("chain") /\ by # "chain") <=> lost')
    BY <1>4
<1> QED BY <1>2, <1>3, <1>5

\* Who may replace a navigation of the user.
LEMMA OvertakenStands ==
    ASSUME LeaveStands, NEW to, NEW by, Heads(to, by),
           \/ by \in {"user", "expired", "chain"}
           \/ ~Keeps(location.view)
           \/ Pending("user") /\ Leaves(heading.to) => heading.late
    PROVE  LeaveStands'
<1>1. CASE Pending("user") /\ Leaves(heading.to)
    <2>1. PICK o : o = [by |-> by, view |-> location.view, late |-> heading.late]
        OBVIOUS
    <2>2. overtaken' = overtaken \cup {o}
        BY <1>1, <2>1 DEF Heads
    <2>3. o.by = by /\ o.view = location.view /\ o.late = heading.late
        BY <2>1
    <2> QED BY <1>1, <2>2, <2>3 DEF LeaveStands
<1>2. CASE ~(Pending("user") /\ Leaves(heading.to))
    <2>1. overtaken' = overtaken
        BY <1>2 DEF Heads
    <2> QED BY <2>1 DEF LeaveStands
<1> QED BY <1>1, <1>2

-----------------------------------------------------------------------------
\* What a step leaves of the reads.

\* A new read makes what is shown sound, whatever it was.
LEMMA LoadSounds ==
    ASSUME ViewConstants, ViewInvariant, NEW s \in {None, data}, Load(location', s), location' \in Locations,
           location'.view \in Reading
    PROVE  /\ calls' \subseteq ReadCall /\ data' \in Keys \cup {None} /\ loading' \in BOOLEAN /\ error' \in BOOLEAN
           /\ due' \in BOOLEAN /\ cut' \in BOOLEAN /\ ReadsSound'
<1>1. s \in Keys \cup {None} /\ ViewTyped
    BY DEF ViewInvariant, ViewTyped
<1>2. PICK l \in Locations : l = location'
    OBVIOUS
<1>3. /\ calls' \subseteq ReadCall /\ Fresh(calls') /\ \A c \in calls' : c.fresh => c.key = Key(l)
      /\ loading' = TRUE /\ error' = FALSE /\ due' = FALSE /\ cut' = FALSE
      /\ data' \in {None, Key(l)} /\ data' \in Keys \cup {None}
    BY <1>1, <1>2, LoadDoes
<1>4. Key(l) = Key(location)'
    BY <1>2 DEF Key
<1>5. (due => location.view \in Reading)' /\ FreshIsAsked'
    BY <1>3, <1>4 DEF FreshIsAsked
<1>6. ShownIsAsked'
    BY <1>3, <1>4 DEF ShownIsAsked
<1>7. LoadingEnds' /\ NothingForgotten'
    BY <1>3 DEF LoadingEnds, NothingForgotten, Fresh
<1> QED BY <1>3, <1>5, <1>6, <1>7 DEF ReadsSound

\* A view that stays and cancels its read is sound.
LEMMA CancelSounds ==
    ASSUME ViewInvariant, Cancel, location' \in Locations, Key(location') = Key(location),
           location'.view = location.view
    PROVE  ReadsSound' /\ calls' \subseteq ReadCall /\ cut' \in BOOLEAN /\ loading' = FALSE /\ NoFresh(calls')
<1>1. /\ calls' \subseteq ReadCall /\ NoFresh(calls') /\ loading' = FALSE /\ cut' = (cut \/ loading)
      /\ cut' \in BOOLEAN /\ UNCHANGED <<data, error, due>>
    BY CancelDoes DEF ViewInvariant
<1>2. Key(location)' = Key(location)
    BY DEF Key
<1>3. (due => location.view \in Reading)' /\ FreshIsAsked'
    BY <1>1 DEF FreshIsAsked, NoFresh, ViewInvariant, ReadsSound
<1>4. ShownIsAsked'
    BY <1>1, <1>2 DEF ShownIsAsked, ViewInvariant, ReadsSound
<1>5. LoadingEnds' /\ NothingForgotten'
    BY <1>1 DEF LoadingEnds, NothingForgotten, ViewInvariant, ReadsSound
<1> QED BY <1>1, <1>3, <1>4, <1>5 DEF ReadsSound

\* So is a page that is none of the four views.
LEMMA ClearedSounds ==
    ASSUME ViewInvariant, Cleared, location'.view \notin Reading
    PROVE  /\ calls' \subseteq ReadCall /\ ReadsSound' /\ data' = None /\ loading' = FALSE /\ error' = FALSE
           /\ due' = FALSE /\ cut' = FALSE
<1>1. calls' \subseteq ReadCall /\ NoFresh(calls')
    BY ReplacedIsStale DEF Cleared, ViewInvariant, ViewTyped
<1>2. data' = None /\ loading' = FALSE /\ error' = FALSE /\ due' = FALSE /\ cut' = FALSE
    BY DEF Cleared
<1>3. ReadsSound'
    BY <1>1, <1>2 DEF ReadsSound, FreshIsAsked, ShownIsAsked, LoadingEnds, NothingForgotten, NoFresh
<1> QED BY <1>1, <1>2, <1>3

\* onBeforeRouteLeave: what is left is sound, and nothing is read while the user leaves.
LEMMA LeaveSounds ==
    ASSUME ViewInvariant, NEW to \in Locations, Leave(to), location' = location, ~Pending("default")'
    PROVE  /\ ReadsSound' /\ calls' \subseteq ReadCall /\ UNCHANGED <<data, error, due>>
           /\ loading' \in BOOLEAN /\ cut' \in BOOLEAN
           /\ Keeps(location.view) /\ Leaves(to) => NoFresh(calls')
<1>1. CASE Keeps(location.view) /\ Leaves(to)
    <2>1. Cancel
        BY <1>1 DEF Leave
    <2>2. location' \in Locations
        BY DEF ViewInvariant, ViewTyped
    <2> QED BY <2>1, <2>2, CancelSounds, CancelDoes DEF ViewInvariant
<1>2. CASE ~(Keeps(location.view) /\ Leaves(to))
    <2>1. /\ loading' = (loading /\ ~Pending("default"))
          /\ UNCHANGED <<data, error, calls, due, cut>>
        BY <1>2 DEF Leave
    <2>2. loading' \in BOOLEAN /\ (loading' <=> loading /\ ~Pending("default")) /\ cut' \in BOOLEAN
        BY <2>1 DEF ViewInvariant, ViewTyped
    <2>3. Key(location)' = Key(location)
        BY DEF Key
    <2>4. (due => location.view \in Reading)' /\ FreshIsAsked' /\ ShownIsAsked'
        BY <2>1, <2>3 DEF ViewInvariant, ReadsSound, FreshIsAsked, ShownIsAsked
    <2>5. LoadingEnds'
        BY <2>1, <2>2 DEF ViewInvariant, ReadsSound, LoadingEnds
    <2>6. NothingForgotten'
        BY <2>1, <2>2 DEF ViewInvariant, ReadsSound, NothingForgotten, HeadingSound, DefaultStays
    <2> QED BY <1>2, <2>1, <2>2, <2>4, <2>5, <2>6 DEF ReadsSound, ViewInvariant, ViewTyped
<1> QED BY <1>1, <1>2

\* Another navigation than the chain's leaves the chain as it is.
LEMMA ChainStands ==
    ASSUME ViewConstants, ViewInvariant, NEW to \in Locations, NEW by \in Authors \ {"chain"}, Heads(to, by),
           UNCHANGED <<location, chain, asked>>
    PROVE  ChainSound'
<1>1. ~Pending("chain")' /\ (~lost' => ~lost /\ ~Pending("chain"))
    BY HeadsDoes DEF Pending, ViewInvariant
<1>2. ASSUME NEW f \in Fields, Composed(f), ~Pending("chain") PROVE Composed(f)'
    BY <1>1, <1>2 DEF Composed, LastOf
<1> QED BY <1>1, <1>2 DEF ViewInvariant, ChainSound, Chains

\* A step that leaves the chain, its navigation and the URL alone.
LEMMA ChainRests ==
    ASSUME ViewInvariant, UNCHANGED <<location, chain, asked, lost>>,
           Pending("chain")' <=> Pending("chain"), Pending("chain") => heading'.to = heading.to
    PROVE  ChainSound'
<1>1. ASSUME NEW f \in Fields, Composed(f) PROVE Composed(f)'
    BY <1>1 DEF Composed, LastOf
<1> QED BY <1>1 DEF ViewInvariant, ChainSound, Chains

-----------------------------------------------------------------------------
\* The steps, one by one.
LEMMA WatchStep ==
    ASSUME ViewConstants, ViewInvariant, Watch
    PROVE  ViewInvariant'
<1>1. due /\ Load(location', data) /\ UNCHANGED <<location, heading, chain, waiting, lost, asked, moves, overtaken>>
    BY DEF Watch, chainVars
<1>2. location' \in Locations /\ location'.view \in Reading
    BY <1>1 DEF ViewInvariant, ViewTyped, ReadsSound
<1>3. /\ calls' \subseteq ReadCall /\ data' \in Keys \cup {None} /\ loading' \in BOOLEAN /\ error' \in BOOLEAN
      /\ due' \in BOOLEAN /\ cut' \in BOOLEAN /\ ReadsSound'
    BY <1>1, <1>2, LoadSounds
<1>4. ViewTyped'
    BY <1>1, <1>3 DEF ViewInvariant, ViewTyped
<1>5. HeadingSound'
    BY <1>1 DEF ViewInvariant, HeadingSound, DefaultStays, UserLeaves, ChainStays, OthersKeep, Pending, Leaves
<1>6. ChainSound'
    BY <1>1, ChainRests DEF Pending
<1>7. LeaveStands'
    BY <1>1 DEF ViewInvariant, LeaveStands
<1> QED BY <1>3, <1>4, <1>5, <1>6, <1>7 DEF ViewInvariant

LEMMA RefreshStep ==
    ASSUME ViewConstants, ViewInvariant, Refresh
    PROVE  ViewInvariant'
<1>1. /\ Keeps(location.view) /\ ~due /\ Load(location', data)
      /\ heading' = IF heading = None THEN None ELSE [heading EXCEPT !.late = TRUE]
      /\ UNCHANGED <<location, chain, waiting, lost, asked, overtaken>>
    BY DEF Refresh, chainVars
<1>2. location' \in Locations /\ location'.view \in Reading
    BY <1>1 DEF ViewInvariant, ViewTyped, Keeps, Reading
<1>3. /\ calls' \subseteq ReadCall /\ data' \in Keys \cup {None} /\ loading' \in BOOLEAN /\ error' \in BOOLEAN
      /\ due' \in BOOLEAN /\ cut' \in BOOLEAN /\ ReadsSound'
    BY <1>1, <1>2, LoadSounds
<1>4. /\ heading' \in Heading \cup {None} /\ (heading = None <=> heading' = None)
      /\ heading # None => heading'.to = heading.to /\ heading'.by = heading.by /\ heading'.late = TRUE
    <2>1. CASE heading = None
        BY <1>1, <2>1
    <2>2. CASE heading # None
        <3>1. heading \in Heading /\ heading' = [heading EXCEPT !.late = TRUE]
            BY <1>1, <2>2 DEF ViewInvariant, ViewTyped
        <3>2. heading' \in Heading /\ heading'.to = heading.to /\ heading'.by = heading.by /\ heading'.late = TRUE
            BY <3>1 DEF Heading
        <3> QED BY <2>2, <3>2 DEF ViewConstants
    <2> QED BY <2>1, <2>2
<1>5. \A by : Pending(by)' <=> Pending(by)
    BY <1>4 DEF Pending
<1>6. ViewTyped'
    BY <1>1, <1>3, <1>4 DEF ViewInvariant, ViewTyped
<1>7. DefaultStays'
    <2> SUFFICES ASSUME Pending("default") PROVE DefaultStays'
        BY <1>5 DEF DefaultStays
    <2>1. data # None /\ location.view = "business" /\ heading.to.view = "business" /\ heading # None
        BY DEF ViewInvariant, HeadingSound, DefaultStays, Pending
    <2>2. data = Key(location)
        BY <1>1, <2>1 DEF ViewInvariant, ReadsSound, ShownIsAsked, Reading
    <2>3. data' = data /\ due' = FALSE
        BY <1>1, <2>2 DEF Load
    <2> QED BY <1>1, <1>4, <2>1, <2>3 DEF DefaultStays
<1>8. UserLeaves'
    <2>1. due' = FALSE
        BY <1>1 DEF Load
    <2> QED BY <1>4, <2>1 DEF UserLeaves, Pending
<1>9. ChainStays' /\ OthersKeep'
    BY <1>1, <1>4, <1>5 DEF ViewInvariant, HeadingSound, ChainStays, OthersKeep, Leaves, Pending
<1>10. ChainSound'
    BY <1>1, <1>4, <1>5, ChainRests DEF Pending
<1>11. LeaveStands'
    BY <1>1 DEF ViewInvariant, LeaveStands
<1> QED BY <1>3, <1>6, <1>7, <1>8, <1>9, <1>10, <1>11 DEF ViewInvariant, HeadingSound

LEMMA GoStep ==
    ASSUME ViewConstants, ViewInvariant, Go
    PROVE  ViewInvariant'
<1>1. PICK to \in Locations :
         /\ ~due /\ to.view \in Reading /\ Heads(to, "user") /\ Leave(to) /\ waiting' = Released
         /\ Chains(location.view) /\ ~Leaves(to) => to.pick = location.pick /\ to.mark = location.mark
         /\ UNCHANGED <<location, chain, asked>>
    BY DEF Go
<1>2. "user" \in Authors \ {"chain"}
    BY DEF Authors
<1>3. /\ heading' \in Heading \cup {None}
      /\ (heading' # None => heading'.to = to /\ heading'.by = "user" /\ ~heading'.late)
      /\ lost' \in BOOLEAN
    BY <1>1, <1>2, HeadsDoes DEF ViewInvariant
<1>4. ~Pending("default")' /\ ~Pending("chain")'
    BY <1>3 DEF Pending
<1>5. /\ ReadsSound' /\ calls' \subseteq ReadCall /\ UNCHANGED <<data, error, due>>
      /\ loading' \in BOOLEAN /\ cut' \in BOOLEAN
      /\ Keeps(location.view) /\ Leaves(to) => NoFresh(calls')
    BY <1>1, <1>4, LeaveSounds
<1>6. ViewTyped'
    BY <1>1, <1>3, <1>5 DEF ViewInvariant, ViewTyped
<1>7. HeadingSound'
    BY <1>1, <1>3, <1>4, <1>5 DEF HeadingSound, DefaultStays, UserLeaves, ChainStays, OthersKeep, Pending, Leaves, Keeps, Chains
<1>8. ChainSound'
    BY <1>1, <1>2, ChainStands
<1>9. LeaveStands'
    BY <1>1, OvertakenStands DEF ViewInvariant
<1> QED BY <1>5, <1>6, <1>7, <1>8, <1>9 DEF ViewInvariant

\* What the changes of a view that is left become.
LEMMA OrphanedDoes ==
    ASSUME chain \in Seq(Changes), chain' = Orphaned
    PROVE  chain' \in Seq(Changes) /\ DOMAIN chain' = DOMAIN chain /\ \A i \in DOMAIN chain' : ~chain'[i].here
<1>1. DOMAIN chain' = DOMAIN chain
    BY DEF Orphaned
<1>2. ASSUME NEW i \in DOMAIN chain PROVE chain'[i] \in Changes /\ ~chain'[i].here
    <2>1. chain[i] \in Changes
        OBVIOUS
    <2>2. chain'[i] = [chain[i] EXCEPT !.here = FALSE]
        BY DEF Orphaned
    <2> QED BY <2>1, <2>2 DEF Changes
<1>3. PICK n \in Nat : DOMAIN chain' = 1 .. n
    BY <1>1
<1>4. chain' = [i \in 1 .. n |-> chain'[i]]
    BY <1>1, <1>3 DEF Orphaned
<1> QED BY <1>1, <1>2, <1>3, <1>4

LEMMA ArriveStep ==
    ASSUME ViewConstants, ViewInvariant, Arrive
    PROVE  ViewInvariant'
<1>1. PICK to \in Locations : to = heading.to /\ heading # None
    BY DEF Arrive, ViewInvariant, ViewTyped, Heading
<1>2. /\ location' = to /\ heading' = None /\ waiting' = Released /\ overtaken' = overtaken
      /\ to.view \notin Reading => Cleared
      /\ to.view \in Reading /\ Leaves(to) => Load(to, None)
      /\ to.view \in Reading /\ ~Leaves(to) /\ Key(to) = Key(location) =>
            IF Keeps(to.view) THEN Cancel ELSE UNCHANGED viewVars
      /\ to.view \in Reading /\ ~Leaves(to) /\ Key(to) # Key(location) =>
            IF to.view = "quality" THEN Load(to, None)
            ELSE /\ calls' = IF Keeps(to.view) THEN Replaced(calls) ELSE calls
                 /\ loading' = (loading /\ ~Keeps(to.view)) /\ due' = TRUE
                 /\ UNCHANGED <<data, error, cut>>
    BY <1>1 DEF Arrive
<1>3. IF Leaves(to) THEN /\ asked' = [f \in Fields |-> None] /\ lost' = FALSE /\ chain' = Orphaned
      ELSE UNCHANGED <<asked, lost, chain>>
    BY <1>1 DEF Arrive, Fields
<1>4. /\ calls' \subseteq ReadCall /\ data' \in Keys \cup {None} /\ loading' \in BOOLEAN /\ error' \in BOOLEAN
      /\ due' \in BOOLEAN /\ cut' \in BOOLEAN /\ ReadsSound'
    <2>1. CASE to.view \notin Reading
        BY <1>2, <2>1, ClearedSounds
    <2>2. CASE Load(to, None)
        <3>1. CASE to.view \in Reading
            BY <1>1, <1>2, <2>2, <3>1, LoadSounds
        <3> QED BY <2>1, <3>1
    <2>3. CASE to.view \in Reading /\ ~Leaves(to) /\ Key(to) = Key(location) /\ Keeps(to.view)
        <3>1. Cancel /\ location' \in Locations /\ Key(location') = Key(location) /\ location'.view = location.view
            BY <1>1, <1>2, <2>3 DEF Leaves
        <3> QED BY <3>1, CancelSounds, CancelDoes DEF ViewInvariant, ViewTyped
    <2>4. CASE to.view \in Reading /\ ~Leaves(to) /\ Key(to) = Key(location) /\ ~Keeps(to.view)
        <3>1. UNCHANGED <<data, loading, error, calls, due, cut>> /\ location'.view = location.view
            BY <1>2, <2>4 DEF viewVars, Leaves
        <3>2. Key(location)' = Key(location)
            BY <1>2, <2>4 DEF Key
        <3>3. (due => location.view \in Reading)' /\ FreshIsAsked' /\ ShownIsAsked' /\ NothingForgotten'
            BY <3>1, <3>2 DEF ViewInvariant, ReadsSound, FreshIsAsked, ShownIsAsked, NothingForgotten
        <3>4. ~Pending("default")
            BY <2>4 DEF ViewInvariant, HeadingSound, DefaultStays, Leaves, Keeps
        <3>5. LoadingEnds'
            BY <3>1, <3>4 DEF ViewInvariant, ReadsSound, LoadingEnds
        <3> QED BY <3>1, <3>3, <3>5 DEF ReadsSound, ViewInvariant, ViewTyped
    <2>5. CASE to.view \in Reading /\ ~Leaves(to) /\ Key(to) # Key(location) /\ to.view # "quality"
        <3>1. /\ calls' = IF Keeps(to.view) THEN Replaced(calls) ELSE calls
              /\ loading' = (loading /\ ~Keeps(to.view)) /\ due' = TRUE
              /\ UNCHANGED <<data, error, cut>> /\ location'.view = location.view
            BY <1>2, <2>5 DEF Leaves
        <3>2. calls' \subseteq ReadCall /\ (Keeps(to.view) => NoFresh(calls'))
            BY <3>1, ReplacedIsStale DEF ViewInvariant, ViewTyped
        <3>3. (due => location.view \in Reading)' /\ FreshIsAsked'
            BY <1>2, <2>5, <3>1, <3>2 DEF FreshIsAsked, NoFresh, ViewInvariant, ReadsSound
        <3>4. ShownIsAsked' /\ NothingForgotten'
            BY <3>1 DEF ShownIsAsked, NothingForgotten
        <3>5. LoadingEnds' /\ loading' \in BOOLEAN
            <4>1. CASE Keeps(to.view)
                BY <3>1, <4>1 DEF LoadingEnds
            <4>2. CASE ~Keeps(to.view)
                <5>1. ~Pending("default")
                    BY <1>1, <4>2 DEF ViewInvariant, HeadingSound, DefaultStays, Keeps
                <5>2. loading' = loading /\ calls' = calls
                    BY <3>1, <4>2 DEF ViewInvariant, ViewTyped
                <5> QED BY <5>1, <5>2 DEF ViewInvariant, ViewTyped, ReadsSound, LoadingEnds
            <4> QED BY <4>1, <4>2
        <3> QED BY <3>1, <3>2, <3>3, <3>4, <3>5 DEF ReadsSound, ViewInvariant, ViewTyped
    <2> QED BY <1>2, <2>1, <2>2, <2>3, <2>4, <2>5
<1>5. chain' \in Seq(Changes) /\ lost' \in BOOLEAN /\ asked' \in [Fields -> Picks \cup Marks \cup {None}]
    BY <1>3, OrphanedDoes DEF ViewInvariant, ViewTyped
<1>6. ViewTyped'
    BY <1>2, <1>4, <1>5 DEF ViewTyped
<1>7. HeadingSound'
    BY <1>2 DEF HeadingSound, DefaultStays, UserLeaves, ChainStays, OthersKeep, Pending
<1>8. ChainSound'
    <2>1. CASE Leaves(to)
        <3>1. \A i \in DOMAIN chain' : ~chain'[i].here
            BY <1>3, <2>1, OrphanedDoes DEF ViewInvariant, ViewTyped
        <3>2. \A f \in Fields : asked'[f] = None
            BY <1>3, <2>1
        <3> QED BY <3>1, <3>2 DEF ChainSound
    <2>2. CASE ~Leaves(to)
        <3>1. UNCHANGED <<asked, lost, chain>> /\ location'.view = location.view
            BY <1>2, <1>3, <2>2 DEF Leaves
        <3>2. ASSUME NEW f \in Fields, Composed(f), Chains(location.view)
              PROVE  Composed(f)'
            <4>1. (\A i \in DOMAIN chain' : LastOf(f, i)' => chain'[i].value = asked'[f])
                BY <3>1, <3>2 DEF Composed, LastOf
            <4>2. ASSUME \A i \in DOMAIN chain' : chain'[i].field # f
                  PROVE  asked'[f] = location'[f]
                <5>1. asked[f] = IF Pending("chain") THEN heading.to[f] ELSE location[f]
                    BY <3>1, <3>2, <4>2 DEF Composed
                <5>2. CASE Pending("chain")
                    BY <1>1, <1>2, <3>1, <5>1, <5>2
                <5>3. CASE ~Pending("chain")
                    <6>1. to.pick = location.pick /\ to.mark = location.mark
                        BY <1>1, <2>2, <3>2, <5>3 DEF ViewInvariant, HeadingSound, OthersKeep
                    <6>2. to[f] = location[f]
                        BY <6>1 DEF Fields
                    <6> QED BY <1>2, <3>1, <5>1, <5>3, <6>2
                <5> QED BY <5>2, <5>3
            <4>3. ~Pending("chain")'
                BY <1>2 DEF Pending
            <4> QED BY <4>1, <4>2, <4>3 DEF Composed
        <3> QED BY <3>1, <3>2 DEF ViewInvariant, ChainSound, Chains
    <2> QED BY <2>1, <2>2
<1>9. LeaveStands'
    BY <1>2 DEF ViewInvariant, LeaveStands
<1> QED BY <1>4, <1>6, <1>7, <1>8, <1>9 DEF ViewInvariant

LEMMA DeniedStep ==
    ASSUME ViewConstants, ViewInvariant, Denied
    PROVE  ViewInvariant'
<1>1. /\ location' = [heading.to EXCEPT !.view = "denied"] /\ heading' = None /\ Cleared /\ lost' = TRUE
      /\ chain' = Orphaned /\ UNCHANGED <<asked, overtaken>> /\ heading # None
    BY DEF Denied
<1>2. location' \in Locations /\ location'.view = "denied"
    <2>1. heading.to \in Locations
        BY <1>1 DEF ViewInvariant, ViewTyped, Heading
    <2> QED BY <1>1, <2>1 DEF Locations
<1>3. /\ calls' \subseteq ReadCall /\ ReadsSound' /\ data' = None /\ loading' = FALSE /\ error' = FALSE
      /\ due' = FALSE /\ cut' = FALSE
    BY <1>1, <1>2, ClearedSounds DEF Reading
<1>4. chain' \in Seq(Changes) /\ \A i \in DOMAIN chain' : ~chain'[i].here
    BY <1>1, OrphanedDoes DEF ViewInvariant, ViewTyped
<1>5. ViewTyped'
    BY <1>1, <1>2, <1>3, <1>4 DEF ViewInvariant, ViewTyped
<1>6. HeadingSound' /\ ChainSound'
    BY <1>1, <1>4 DEF HeadingSound, DefaultStays, UserLeaves, ChainStays, OthersKeep, Pending, ChainSound
<1>7. LeaveStands'
    BY <1>1 DEF ViewInvariant, LeaveStands
<1> QED BY <1>3, <1>5, <1>6, <1>7 DEF ViewInvariant

-----------------------------------------------------------------------------
(* Answers *)

\* A read that has ended.
LEMMA EndedRead ==
    ASSUME ViewInvariant, NEW c \in calls, calls' = calls \ {c}, UNCHANGED <<location, due>>
    PROVE  /\ calls' \subseteq ReadCall /\ FreshIsAsked' /\ (due => location.view \in Reading)'
           /\ NoFresh(calls) => NoFresh(calls')
           /\ Fresh(calls) /\ ~c.fresh => Fresh(calls')
           /\ c \in ReadCall /\ c.fresh \in BOOLEAN /\ c.key \in Keys
           /\ c.fresh => ~NoFresh(calls)
<1>1. calls' \subseteq ReadCall /\ c \in ReadCall
    BY DEF ViewInvariant, ViewTyped
<1>2. FreshIsAsked' /\ (due => location.view \in Reading)'
    BY DEF ViewInvariant, ReadsSound, FreshIsAsked, Key
<1>3. (NoFresh(calls) => NoFresh(calls')) /\ (Fresh(calls) /\ ~c.fresh => Fresh(calls')) /\ (c.fresh => ~NoFresh(calls))
    BY DEF NoFresh, Fresh
<1> QED BY <1>1, <1>2, <1>3 DEF ReadCall

\* A pending navigation stands while reads end and what is shown is not cleared.
LEMMA HeadingRests ==
    ASSUME ViewInvariant, UNCHANGED <<location, heading, due, waiting>>, NoFresh(calls) => NoFresh(calls'),
           Pending("default") => data' # None
    PROVE  HeadingSound'
BY DEF ViewInvariant, HeadingSound, DefaultStays, UserLeaves, ChainStays, OthersKeep, Pending, Leaves

LEMMA AnsweredStep ==
    ASSUME ViewConstants, ViewInvariant, NEW c \in calls, location.view \in Reading, Answered(c)
    PROVE  ViewInvariant'
<1>1. calls' = calls \ {c} /\ UNCHANGED <<location, error, due, cut, chain, asked, moves>>
    BY DEF Answered
<1>2. /\ calls' \subseteq ReadCall /\ FreshIsAsked' /\ (due => location.view \in Reading)'
      /\ NoFresh(calls) => NoFresh(calls')
      /\ Fresh(calls) /\ ~c.fresh => Fresh(calls')
      /\ c \in ReadCall /\ c.fresh \in BOOLEAN /\ c.key \in Keys
      /\ c.fresh => ~NoFresh(calls)
    BY <1>1, EndedRead
<1>3. CASE Counts(c)
    <2>1. data' = c.key /\ c.fresh /\ (Keeps(location.view) => c.key = Key(location))
        BY <1>3 DEF Answered, Counts
    <2>2. data' \in Keys /\ data' # None
        BY <1>2, <2>1 DEF ViewConstants
    <2>3. ShownIsAsked' /\ NothingForgotten'
        <3>1. ~due => c.key = Key(location)
            BY <2>1 DEF ViewInvariant, ReadsSound, FreshIsAsked
        <3> QED BY <1>1, <2>1, <2>2, <3>1 DEF ShownIsAsked, NothingForgotten, Key
    <2>4. CASE location.view = "business" /\ location.pick = None /\ Picks # {}
        <3>1. PICK p \in Picks : Heads([location EXCEPT !.pick = p], "default") /\ waiting' = Released /\ loading' = loading
            BY <1>3, <2>4 DEF Answered
        <3>2. PICK to : to = [location EXCEPT !.pick = p]
            OBVIOUS
        <3>3. to \in Locations /\ to # location /\ to.view = location.view /\ "default" \in Authors \ {"chain"}
            BY <2>4, <3>2 DEF ViewInvariant, ViewTyped, Locations, ViewConstants, Authors
        <3>4. /\ heading' \in Heading /\ heading' # None /\ heading'.to = to /\ heading'.by = "default"
              /\ lost' \in BOOLEAN
            BY <3>1, <3>2, <3>3, HeadsDoes DEF ViewInvariant
        <3>5. ViewTyped'
            BY <1>1, <1>2, <2>2, <3>1, <3>4 DEF ViewInvariant, ViewTyped
        <3>6. LoadingEnds'
            BY <3>4 DEF LoadingEnds, Pending
        <3>7. ~due
            BY <2>1, <2>4 DEF ViewInvariant, ReadsSound, FreshIsAsked, Keeps
        <3>8. HeadingSound'
            BY <1>1, <2>2, <2>4, <3>3, <3>4, <3>7 DEF HeadingSound, DefaultStays, UserLeaves, ChainStays, OthersKeep,
                                                     Pending, Chains
        <3>9. ChainSound'
            BY <1>1, <3>1, <3>2, <3>3, ChainStands
        <3>10. LeaveStands'
            <4>1. Pending("user") /\ Leaves(heading.to) => heading.late
                BY <1>2, <2>1, <2>4 DEF ViewInvariant, HeadingSound, UserLeaves, Keeps
            <4> QED BY <3>1, <4>1, OvertakenStands DEF ViewInvariant
        <3> QED BY <1>2, <2>3, <3>5, <3>6, <3>8, <3>9, <3>10 DEF ViewInvariant, ReadsSound
    <2>5. CASE ~(location.view = "business" /\ location.pick = None /\ Picks # {})
        <3>1. loading' = FALSE /\ UNCHANGED <<heading, overtaken, lost, waiting>>
            BY <1>3, <2>5 DEF Answered
        <3>2. ViewTyped'
            BY <1>1, <1>2, <2>2, <3>1 DEF ViewInvariant, ViewTyped
        <3>3. LoadingEnds'
            BY <3>1 DEF LoadingEnds
        <3>4. HeadingSound'
            BY <1>1, <1>2, <2>2, <3>1, HeadingRests
        <3>5. ChainSound'
            BY <1>1, <3>1, ChainRests DEF Pending
        <3>6. LeaveStands'
            BY <3>1 DEF ViewInvariant, LeaveStands
        <3> QED BY <1>2, <2>3, <3>2, <3>3, <3>4, <3>5, <3>6 DEF ViewInvariant, ReadsSound
    <2> QED BY <2>4, <2>5
<1>4. CASE ~Counts(c)
    <2>1. loading' = (loading /\ ~c.fresh) /\ UNCHANGED <<data, heading, overtaken, lost, waiting>>
        BY <1>4 DEF Answered
    <2>2. loading' \in BOOLEAN /\ (loading' <=> loading /\ ~c.fresh)
        BY <2>1 DEF ViewInvariant, ViewTyped
    <2>3. ViewTyped'
        BY <1>1, <1>2, <2>1, <2>2 DEF ViewInvariant, ViewTyped
    <2>4. c.fresh => due
        BY <1>4 DEF Counts, ViewInvariant, ReadsSound, FreshIsAsked
    <2>5. ShownIsAsked'
        BY <1>1, <2>1 DEF ViewInvariant, ReadsSound, ShownIsAsked, Key
    <2>6. LoadingEnds'
        BY <1>2, <2>1, <2>2 DEF ViewInvariant, ReadsSound, LoadingEnds, Pending, Fresh
    <2>7. NothingForgotten'
        BY <1>1, <2>1, <2>2, <2>4 DEF ViewInvariant, ReadsSound, NothingForgotten
    <2>8. HeadingSound'
        BY <1>1, <1>2, <2>1, HeadingRests DEF ViewInvariant, HeadingSound, DefaultStays
    <2>9. ChainSound'
        BY <1>1, <2>1, ChainRests DEF Pending
    <2>10. LeaveStands'
        BY <2>1 DEF ViewInvariant, LeaveStands
    <2> QED BY <1>2, <2>3, <2>5, <2>6, <2>7, <2>8, <2>9, <2>10 DEF ViewInvariant, ReadsSound
<1> QED BY <1>3, <1>4

LEMMA DegradedStep ==
    ASSUME ViewConstants, ViewInvariant, NEW c \in calls, location.view \in Reading, Degraded(c)
    PROVE  ViewInvariant'
<1>1. /\ calls' = calls \ {c} /\ data # None /\ error' = TRUE /\ loading' = FALSE
      /\ UNCHANGED <<location, heading, overtaken, data, due, cut, chain, waiting, lost, asked>>
    BY DEF Degraded, Quiet, chainVars
<1>2. /\ calls' \subseteq ReadCall /\ FreshIsAsked' /\ (due => location.view \in Reading)'
      /\ NoFresh(calls) => NoFresh(calls')
    BY <1>1, EndedRead
<1>3. ViewTyped'
    BY <1>1, <1>2 DEF ViewInvariant, ViewTyped
<1>4. ReadsSound'
    BY <1>1, <1>2 DEF ViewInvariant, ReadsSound, ShownIsAsked, LoadingEnds, NothingForgotten, Key
<1>5. HeadingSound'
    BY <1>1, <1>2, HeadingRests
<1>6. ChainSound'
    BY <1>1, ChainRests DEF Pending
<1>7. LeaveStands'
    BY <1>1 DEF ViewInvariant, LeaveStands
<1> QED BY <1>3, <1>4, <1>5, <1>6, <1>7 DEF ViewInvariant

LEMMA FailedStep ==
    ASSUME ViewConstants, ViewInvariant, NEW c \in calls, location.view \in Reading, Failed(c)
    PROVE  ViewInvariant'
<1>1. /\ calls' = calls \ {c} /\ loading' = (loading /\ ~c.fresh) /\ error' = (error \/ c.fresh)
      /\ UNCHANGED <<location, heading, overtaken, data, due, cut, chain, waiting, lost, asked>>
    BY DEF Failed, Quiet, chainVars
<1>2. /\ calls' \subseteq ReadCall /\ FreshIsAsked' /\ (due => location.view \in Reading)'
      /\ NoFresh(calls) => NoFresh(calls')
      /\ Fresh(calls) /\ ~c.fresh => Fresh(calls') /\ c.fresh \in BOOLEAN
    BY <1>1, EndedRead
<1>3. /\ loading' \in BOOLEAN /\ (loading' <=> loading /\ ~c.fresh)
      /\ error' \in BOOLEAN /\ (error' <=> error \/ c.fresh)
    BY <1>1, <1>2 DEF ViewInvariant, ViewTyped
<1>4. ViewTyped'
    BY <1>1, <1>2, <1>3 DEF ViewInvariant, ViewTyped
<1>5. ShownIsAsked' /\ NothingForgotten'
    BY <1>1, <1>3 DEF ViewInvariant, ReadsSound, ShownIsAsked, NothingForgotten, Key
<1>6. LoadingEnds'
    BY <1>1, <1>2, <1>3 DEF ViewInvariant, ReadsSound, LoadingEnds, Pending, Fresh
<1>7. HeadingSound'
    BY <1>1, <1>2, HeadingRests DEF ViewInvariant, HeadingSound, DefaultStays
<1>8. ChainSound'
    BY <1>1, ChainRests DEF Pending
<1>9. LeaveStands'
    BY <1>1 DEF ViewInvariant, LeaveStands
<1> QED BY <1>2, <1>4, <1>5, <1>6, <1>7, <1>8, <1>9 DEF ViewInvariant, ReadsSound

LEMMA ForbiddenStep ==
    ASSUME ViewConstants, ViewInvariant, NEW c \in calls, location.view \in Reading, Forbidden(c)
    PROVE  ViewInvariant'
<1>1. calls' = calls \ {c} /\ UNCHANGED <<location, due, cut, chain, asked>>
    BY DEF Forbidden
<1>2. /\ calls' \subseteq ReadCall /\ FreshIsAsked' /\ (due => location.view \in Reading)'
      /\ NoFresh(calls) => NoFresh(calls')
      /\ Fresh(calls) /\ ~c.fresh => Fresh(calls') /\ c.fresh \in BOOLEAN
      /\ c.fresh => ~NoFresh(calls)
    BY <1>1, EndedRead
<1>3. CASE c.fresh
    <2>1. data' = None /\ loading' = FALSE /\ error' = TRUE
        BY <1>3 DEF Forbidden
    <2>2. ReadsSound'
        BY <1>2, <2>1 DEF ReadsSound, ShownIsAsked, LoadingEnds, NothingForgotten
    <2>3. CASE location.view = "operations"
        <3>1. UNCHANGED <<heading, overtaken, lost, waiting>>
            BY <1>3, <2>3 DEF Forbidden
        <3>2. ViewTyped'
            BY <1>1, <1>2, <2>1, <3>1 DEF ViewInvariant, ViewTyped
        <3>3. HeadingSound'
            BY <1>1, <1>2, <2>3, <3>1, HeadingRests DEF ViewInvariant, HeadingSound, DefaultStays
        <3>4. ChainSound'
            BY <1>1, <3>1, ChainRests DEF Pending
        <3>5. LeaveStands'
            BY <3>1 DEF ViewInvariant, LeaveStands
        <3> QED BY <2>2, <3>2, <3>3, <3>4, <3>5 DEF ViewInvariant
    <2>4. CASE location.view # "operations"
        <3>1. PICK to : to = [location EXCEPT !.view = "denied"]
            OBVIOUS
        <3>2. Heads(to, "forbidden") /\ waiting' = Released
            BY <1>3, <2>4, <3>1 DEF Forbidden
        <3>3. to \in Locations /\ to.view = "denied" /\ "forbidden" \in Authors \ {"chain"}
            BY <3>1 DEF ViewInvariant, ViewTyped, Locations, Authors
        <3>4. /\ heading' \in Heading \cup {None} /\ lost' \in BOOLEAN
              /\ heading' # None => heading'.to = to /\ heading'.by = "forbidden"
            BY <3>2, <3>3, HeadsDoes DEF ViewInvariant
        <3>5. ViewTyped'
            BY <1>1, <1>2, <2>1, <3>4 DEF ViewInvariant, ViewTyped
        <3>6. HeadingSound'
            BY <1>1, <3>3, <3>4 DEF HeadingSound, DefaultStays, UserLeaves, ChainStays, OthersKeep, Pending, Leaves,
                                    Chains
        <3>7. ChainSound'
            BY <1>1, <3>2, <3>3, ChainStands
        <3>8. LeaveStands'
            <4>1. Keeps(location.view) /\ Pending("user") /\ Leaves(heading.to) => heading.late
                BY <1>2, <1>3 DEF ViewInvariant, HeadingSound, UserLeaves
            <4> QED BY <3>2, <4>1, OvertakenStands DEF ViewInvariant
        <3> QED BY <2>2, <3>5, <3>6, <3>7, <3>8 DEF ViewInvariant
    <2> QED BY <2>3, <2>4
<1>4. CASE ~c.fresh
    <2>1. UNCHANGED <<data, loading, error, heading, overtaken, lost, waiting>>
        BY <1>4 DEF Forbidden
    <2>2. ViewTyped'
        BY <1>1, <1>2, <2>1 DEF ViewInvariant, ViewTyped
    <2>3. ReadsSound'
        BY <1>1, <1>2, <1>4, <2>1 DEF ViewInvariant, ReadsSound, ShownIsAsked, LoadingEnds, NothingForgotten, Key,
                                      Pending, Fresh
    <2>4. HeadingSound'
        BY <1>1, <1>2, <2>1, HeadingRests DEF ViewInvariant, HeadingSound, DefaultStays
    <2>5. ChainSound'
        BY <1>1, <2>1, ChainRests DEF Pending
    <2>6. LeaveStands'
        BY <2>1 DEF ViewInvariant, LeaveStands
    <2> QED BY <2>2, <2>3, <2>4, <2>5, <2>6 DEF ViewInvariant
<1> QED BY <1>3, <1>4

LEMMA ExpiredStep ==
    ASSUME ViewConstants, ViewInvariant, NEW c \in calls, location.view \in Reading, Expired(c)
    PROVE  ViewInvariant'
<1>1. PICK to : to = [location EXCEPT !.view = "login"]
    OBVIOUS
<1>2. /\ calls' = calls \ {c} /\ UNCHANGED <<location, due, cut, chain, asked>>
      /\ Heads(to, "expired") /\ waiting' = Released
    BY <1>1 DEF Expired
<1>3. /\ calls' \subseteq ReadCall /\ FreshIsAsked' /\ (due => location.view \in Reading)'
      /\ NoFresh(calls) => NoFresh(calls')
      /\ Fresh(calls) /\ ~c.fresh => Fresh(calls') /\ c.fresh \in BOOLEAN
    BY <1>2, EndedRead
<1>4. to \in Locations /\ to.view = "login" /\ "expired" \in Authors \ {"chain"}
    BY <1>1 DEF ViewInvariant, ViewTyped, Locations, Authors
<1>5. /\ heading' \in Heading \cup {None} /\ lost' \in BOOLEAN
      /\ heading' # None => heading'.to = to /\ heading'.by = "expired"
    BY <1>2, <1>4, HeadsDoes DEF ViewInvariant
<1>6. ReadsSound' /\ data' \in Keys \cup {None} /\ loading' \in BOOLEAN /\ error' \in BOOLEAN
    <2>1. CASE c.fresh
        <3>1. data' = None /\ loading' = FALSE /\ error' = TRUE
            BY <2>1 DEF Expired
        <3> QED BY <1>3, <3>1 DEF ReadsSound, ShownIsAsked, LoadingEnds, NothingForgotten
    <2>2. CASE ~c.fresh
        <3>1. UNCHANGED <<data, error>> /\ loading' = (loading /\ ~Pending("default"))
            BY <2>2 DEF Expired
        <3>2. loading' \in BOOLEAN /\ (loading' <=> loading /\ ~Pending("default"))
            BY <3>1 DEF ViewInvariant, ViewTyped
        <3>3. ShownIsAsked'
            BY <1>2, <3>1 DEF ViewInvariant, ReadsSound, ShownIsAsked, Key
        <3>4. LoadingEnds'
            BY <1>3, <2>2, <3>2 DEF ViewInvariant, ReadsSound, LoadingEnds, Fresh
        <3>5. NothingForgotten'
            BY <1>2, <3>1, <3>2 DEF ViewInvariant, ReadsSound, NothingForgotten, HeadingSound, DefaultStays
        <3> QED BY <1>3, <3>1, <3>2, <3>3, <3>4, <3>5 DEF ReadsSound, ViewInvariant, ViewTyped
    <2> QED BY <1>3, <2>1, <2>2
<1>7. ViewTyped'
    BY <1>2, <1>3, <1>5, <1>6 DEF ViewInvariant, ViewTyped
<1>8. HeadingSound'
    BY <1>2, <1>4, <1>5 DEF HeadingSound, DefaultStays, UserLeaves, ChainStays, OthersKeep, Pending, Leaves, Chains
<1>9. ChainSound'
    BY <1>2, <1>4, ChainStands
<1>10. LeaveStands'
    BY <1>2, OvertakenStands DEF ViewInvariant
<1> QED BY <1>6, <1>7, <1>8, <1>9, <1>10 DEF ViewInvariant

LEMMA DroppedStep ==
    ASSUME ViewConstants, ViewInvariant, Dropped
    PROVE  ViewInvariant'
<1>1. PICK c \in calls : calls' = calls \ {c}
    BY DEF Dropped
<1>2. /\ UNCHANGED <<location, heading, overtaken, data, loading, error, due, cut, chain, waiting, lost, asked>>
      /\ location.view \notin Reading
    BY DEF Dropped, Quiet, chainVars
<1>3. /\ calls' \subseteq ReadCall /\ FreshIsAsked' /\ (due => location.view \in Reading)'
      /\ NoFresh(calls) => NoFresh(calls')
    BY <1>1, <1>2, EndedRead
<1>4. ViewTyped'
    BY <1>2, <1>3 DEF ViewInvariant, ViewTyped
<1>5. ReadsSound'
    BY <1>2, <1>3 DEF ViewInvariant, ReadsSound, FreshIsAsked, ShownIsAsked, LoadingEnds, NothingForgotten, Pending
<1>6. HeadingSound'
    BY <1>2, <1>3, HeadingRests DEF ViewInvariant, HeadingSound, DefaultStays
<1>7. ChainSound'
    BY <1>2, ChainRests DEF Pending
<1>8. LeaveStands'
    BY <1>2 DEF ViewInvariant, LeaveStands
<1> QED BY <1>4, <1>5, <1>6, <1>7, <1>8 DEF ViewInvariant

-----------------------------------------------------------------------------
(* The filters *)

\* A change that joins the chain.
LEMMA AppendedDoes ==
    ASSUME chain \in Seq(Changes), NEW item \in Changes, chain' = Append(chain, item), NEW n, n = Len(chain) + 1
    PROVE  /\ chain' \in Seq(Changes) /\ n \notin DOMAIN chain /\ DOMAIN chain' = DOMAIN chain \cup {n}
           /\ chain'[n] = item /\ \A i \in DOMAIN chain : chain'[i] = chain[i] /\ i < n /\ i \in Int
           /\ n \in Int
OBVIOUS

\* A change at the end of the chain is what its field will have.
LEMMA ChainGrows ==
    ASSUME ViewInvariant, NEW item \in Changes, chain' = Append(chain, item), Chains(location.view),
           UNCHANGED <<location, heading, lost>>,
           asked' = IF item.field \in Fields THEN [asked EXCEPT ![item.field] = item.value] ELSE asked
    PROVE  ChainSound' /\ chain' \in Seq(Changes) /\ asked' \in [Fields -> Picks \cup Marks \cup {None}]
<1>1. PICK n : n = Len(chain) + 1
    OBVIOUS
<1>2. chain \in Seq(Changes) /\ asked \in [Fields -> Picks \cup Marks \cup {None}]
    BY DEF ViewInvariant, ViewTyped
<1>3. /\ chain' \in Seq(Changes) /\ n \notin DOMAIN chain /\ DOMAIN chain' = DOMAIN chain \cup {n}
      /\ chain'[n] = item /\ \A i \in DOMAIN chain : chain'[i] = chain[i] /\ i < n /\ i \in Int
      /\ n \in Int
    BY <1>1, <1>2, AppendedDoes
<1>4. item.value \in Picks \cup Marks \cup {None}
    BY DEF Changes
<1>5. asked' \in [Fields -> Picks \cup Marks \cup {None}]
    BY <1>2, <1>4
<1>6. ASSUME NEW f \in Fields, item.field = f PROVE Composed(f)'
    <2>1. asked'[f] = item.value
        BY <1>2, <1>6
    <2>2. ASSUME NEW i \in DOMAIN chain', LastOf(f, i)' PROVE i = n
        BY <1>3, <1>6, <2>2 DEF LastOf
    <2> QED BY <1>3, <1>6, <2>1, <2>2 DEF Composed
<1>7. ASSUME NEW f \in Fields, item.field # f, Composed(f) PROVE Composed(f)'
    <2>1. asked'[f] = asked[f]
        BY <1>2, <1>7
    <2>2. ASSUME NEW i \in DOMAIN chain', LastOf(f, i)' PROVE chain'[i].value = asked'[f]
        <3>1. i \in DOMAIN chain
            BY <1>3, <1>7, <2>2 DEF LastOf
        <3>2. LastOf(f, i)
            BY <1>3, <2>2, <3>1 DEF LastOf
        <3> QED BY <1>3, <1>7, <2>1, <3>1, <3>2 DEF Composed
    <2>3. ASSUME \A i \in DOMAIN chain' : chain'[i].field # f
          PROVE  asked'[f] = (IF Pending("chain") THEN heading.to[f] ELSE location[f])'
        <3>1. \A i \in DOMAIN chain : chain[i].field # f
            BY <1>3, <2>3
        <3> QED BY <1>7, <2>1, <3>1 DEF Composed, Pending
    <2> QED BY <2>2, <2>3 DEF Composed
<1>8. \A f \in Fields : asked'[f] # None /\ item.field # f => asked[f] # None
    BY <1>2
<1>9. ChainSound'
    BY <1>3, <1>6, <1>7, <1>8 DEF ViewInvariant, ChainSound, Chains
<1> QED BY <1>3, <1>5, <1>9

LEMMA ChangeStep ==
    ASSUME ViewConstants, ViewInvariant, Change
    PROVE  ViewInvariant'
<1>1. PICK f \in Fields, v \in Picks \cup Marks :
         /\ Chains(location.view) /\ (IF f = "pick" THEN v \in Picks ELSE v \in Marks)
         /\ chain' = Append(chain, [field |-> f, value |-> v, here |-> TRUE])
         /\ asked' = [asked EXCEPT ![f] = v]
         /\ UNCHANGED <<location, heading, data, loading, error, calls, due, cut, waiting, lost, overtaken>>
    BY DEF Change, Fields, viewVars
<1>2. PICK item : item = [field |-> f, value |-> v, here |-> TRUE]
    OBVIOUS
<1>3. item \in Changes /\ item.field = f /\ item.value = v
    BY <1>1, <1>2 DEF Changes, Fields
<1>4. ChainSound' /\ chain' \in Seq(Changes) /\ asked' \in [Fields -> Picks \cup Marks \cup {None}]
    BY <1>1, <1>2, <1>3, ChainGrows
<1>5. ViewTyped'
    BY <1>1, <1>4 DEF ViewInvariant, ViewTyped
<1>6. ReadsSound' /\ HeadingSound' /\ LeaveStands'
    BY <1>1 DEF ViewInvariant, ReadsSound, FreshIsAsked, ShownIsAsked, LoadingEnds, NothingForgotten, HeadingSound,
                DefaultStays, UserLeaves, ChainStays, OthersKeep, Pending, Leaves, NoFresh, Key, LeaveStands
<1> QED BY <1>4, <1>5, <1>6 DEF ViewInvariant

LEMMA AskRefreshStep ==
    ASSUME ViewConstants, ViewInvariant, AskRefresh
    PROVE  ViewInvariant'
<1>1. /\ location.view = "quality"
      /\ chain' = Append(chain, [field |-> "refresh", value |-> None, here |-> TRUE])
      /\ UNCHANGED <<location, heading, data, loading, error, calls, due, cut, waiting, lost, asked, overtaken>>
    BY DEF AskRefresh, viewVars
<1>2. PICK item : item = [field |-> "refresh", value |-> None, here |-> TRUE]
    OBVIOUS
<1>3. item \in Changes /\ item.field \notin Fields
    BY <1>2 DEF Changes, Fields
<1>4. ChainSound' /\ chain' \in Seq(Changes) /\ asked' \in [Fields -> Picks \cup Marks \cup {None}]
    BY <1>1, <1>2, <1>3, ChainGrows DEF Chains
<1>5. ViewTyped'
    BY <1>1, <1>4 DEF ViewInvariant, ViewTyped
<1>6. ReadsSound' /\ HeadingSound' /\ LeaveStands'
    BY <1>1 DEF ViewInvariant, ReadsSound, FreshIsAsked, ShownIsAsked, LoadingEnds, NothingForgotten, HeadingSound,
                DefaultStays, UserLeaves, ChainStays, OthersKeep, Pending, Leaves, NoFresh, Key, LeaveStands
<1> QED BY <1>4, <1>5, <1>6 DEF ViewInvariant

\* The head of the chain is taken.
LEMMA TailDoes ==
    ASSUME chain \in Seq(Changes), chain # <<>>, chain' = Tail(chain)
    PROVE  /\ chain' \in Seq(Changes) /\ Head(chain) \in Changes /\ Head(chain) = chain[1] /\ 1 \in DOMAIN chain
           /\ DOMAIN chain \subseteq Int
           /\ \A i \in DOMAIN chain : i # 1 => i - 1 \in DOMAIN chain' /\ i > 1
           /\ \A i \in DOMAIN chain' : i \in Int /\ i + 1 \in DOMAIN chain /\ chain'[i] = chain[i + 1]
OBVIOUS

\* The first change of the chain becomes its navigation, the others follow.
LEMMA ChainShrinks ==
    ASSUME ViewInvariant, chain # <<>>, chain' = Tail(chain), ~Pending("chain"), UNCHANGED <<location, asked>>,
           lost' \/ ~lost, NEW to, to = (IF Pending("chain")' THEN heading.to' ELSE location),
           LET item == Head(chain) IN
           \A f \in Fields : to[f] = IF item.field = f THEN item.value ELSE location[f]
    PROVE  ChainSound' /\ chain' \in Seq(Changes)
<1>1. PICK item : item = Head(chain)
    OBVIOUS
<1>2. /\ chain' \in Seq(Changes) /\ item \in Changes /\ item = chain[1] /\ 1 \in DOMAIN chain
      /\ DOMAIN chain \subseteq Int
      /\ \A i \in DOMAIN chain : i # 1 => i - 1 \in DOMAIN chain' /\ i > 1
      /\ \A i \in DOMAIN chain' : i \in Int /\ i + 1 \in DOMAIN chain /\ chain'[i] = chain[i + 1]
    BY <1>1, TailDoes DEF ViewInvariant, ViewTyped
<1>3. \A f \in Fields : to[f] = IF item.field = f THEN item.value ELSE location[f]
    BY <1>1
<1>4. ASSUME NEW f \in Fields, Composed(f) PROVE Composed(f)'
    <2>1. ASSUME NEW i \in DOMAIN chain', LastOf(f, i)' PROVE chain'[i].value = asked'[f]
        <3>1. i + 1 \in DOMAIN chain /\ chain'[i] = chain[i + 1] /\ i \in Int
            BY <1>2
        <3>2. ASSUME NEW j \in DOMAIN chain, chain[j].field = f PROVE j <= i + 1
            <4>1. CASE j = 1
                <5>1. i + 1 = 1 \/ i + 1 > 1
                    BY <1>2, <3>1
                <5> QED BY <3>1, <4>1, <5>1
            <4>2. CASE j # 1
                <5>1. j - 1 \in DOMAIN chain' /\ j \in Int
                    BY <1>2, <4>2
                <5>2. chain'[j - 1] = chain[j]
                    <6>1. (j - 1) + 1 = j
                        BY <5>1
                    <6> QED BY <1>2, <5>1, <6>1
                <5>3. j - 1 <= i
                    BY <2>1, <3>2, <5>1, <5>2 DEF LastOf
                <5> QED BY <3>1, <5>1, <5>3
            <4> QED BY <4>1, <4>2
        <3>3. LastOf(f, i + 1)
            BY <2>1, <3>1, <3>2 DEF LastOf
        <3> QED BY <1>4, <3>1, <3>3 DEF Composed
    <2>2. ASSUME \A i \in DOMAIN chain' : chain'[i].field # f
          PROVE  asked'[f] = to[f]
        <3>1. \A i \in DOMAIN chain : i # 1 => chain[i].field # f
            <4> SUFFICES ASSUME NEW i \in DOMAIN chain, i # 1 PROVE chain[i].field # f
                OBVIOUS
            <4>1. i - 1 \in DOMAIN chain' /\ i \in Int
                BY <1>2
            <4>2. (i - 1) + 1 = i
                BY <4>1
            <4>3. chain'[i - 1] = chain[i]
                BY <1>2, <4>1, <4>2
            <4> QED BY <2>2, <4>1, <4>3
        <3>2. CASE item.field = f
            <4>1. LastOf(f, 1)
                BY <1>2, <3>1, <3>2 DEF LastOf
            <4>2. chain[1].value = asked[f]
                BY <1>2, <1>4, <4>1 DEF Composed
            <4> QED BY <1>2, <1>3, <3>2, <4>2
        <3>3. CASE item.field # f
            <4>1. \A i \in DOMAIN chain : chain[i].field # f
                BY <1>2, <3>1, <3>3
            <4>2. asked[f] = location[f]
                BY <1>4, <4>1 DEF Composed
            <4> QED BY <1>3, <3>3, <4>2
        <3> QED BY <3>2, <3>3
    <2>3. to = (IF Pending("chain") THEN heading.to ELSE location)'
        OBVIOUS
    <2>4. (IF Pending("chain") THEN heading.to[f] ELSE location[f])' = to[f]
        BY <2>3
    <2> QED BY <2>1, <2>2, <2>4 DEF Composed
<1>5. \A i \in DOMAIN chain' : chain'[i].here => Chains(location.view)
    BY <1>2 DEF ViewInvariant, ChainSound
<1> QED BY <1>2, <1>4, <1>5 DEF ViewInvariant, ChainSound, Chains

LEMMA ChainStepStep ==
    ASSUME ViewConstants, ViewInvariant, ChainStep
    PROVE  ViewInvariant'
<1>1. PICK item : item = Head(chain)
    OBVIOUS
<1> DEFINE Goes(to) == /\ Heads(to, "chain") /\ Leave(to)
                       /\ waiting' = IF to = location THEN "nothing" ELSE "route"
<1>2. /\ chain # <<>> /\ Ready /\ ~due /\ chain' = Tail(chain) /\ UNCHANGED <<location, asked>>
      /\ IF item.field = "refresh"
         THEN \/ \E s \in Scopes : Goes([location EXCEPT !.scope = s])
              \/ /\ item.here /\ Load(location, None) /\ waiting' = "read"
                 /\ UNCHANGED <<heading, overtaken, lost>>
              \/ waiting' = "nothing" /\ UNCHANGED <<heading, overtaken, lost, viewVars>>
         ELSE Goes([location EXCEPT ![item.field] = item.value])
    BY <1>1 DEF ChainStep
<1> HIDE DEF Goes
<1>3. item \in Changes /\ item = chain[1] /\ 1 \in DOMAIN chain /\ location \in Locations
    BY <1>1, <1>2, TailDoes DEF ViewInvariant, ViewTyped
<1>4. ~Pending("chain")
    BY <1>2 DEF Ready, ViewInvariant, HeadingSound, ChainStays
<1>5. item.field = "refresh" => \A f \in Fields : item.field # f
    BY DEF Fields
<1>6. ASSUME NEW to \in Locations, Goes(to), to.view = location.view,
             \A f \in Fields : to[f] = IF item.field = f THEN item.value ELSE location[f]
      PROVE  ViewInvariant'
    <2>1. Heads(to, "chain") /\ Leave(to) /\ waiting' = IF to = location THEN "nothing" ELSE "route"
        BY <1>6 DEF Goes
    <2>2. /\ heading' \in Heading \cup {None}
          /\ (heading' = None <=> to = location)
          /\ (heading' # None => heading'.to = to /\ heading'.by = "chain" /\ ~heading'.late)
          /\ lost' \in BOOLEAN /\ (lost <=> lost')
        BY <1>4, <2>1, HeadsDoes DEF ViewInvariant, Authors
    <2>3. ~Pending("default")' /\ ~Pending("user")'
        BY <2>2 DEF Pending
    <2>4. /\ ReadsSound' /\ calls' \subseteq ReadCall /\ UNCHANGED <<data, error, due>>
          /\ loading' \in BOOLEAN /\ cut' \in BOOLEAN
        BY <1>2, <2>1, <2>3, LeaveSounds
    <2>5. ChainSound' /\ chain' \in Seq(Changes)
        <3>1. to = IF Pending("chain")' THEN heading.to' ELSE location
            BY <2>2 DEF Pending
        <3> QED BY <1>1, <1>2, <1>4, <1>6, <2>2, <3>1, ChainShrinks
    <2>6. ViewTyped'
        BY <1>2, <2>2, <2>4, <2>5 DEF ViewInvariant, ViewTyped
    <2>7. HeadingSound'
        BY <1>2, <1>6, <2>1, <2>2, <2>3 DEF HeadingSound, DefaultStays, UserLeaves, ChainStays, OthersKeep, Pending
    <2>8. LeaveStands'
        BY <2>1, OvertakenStands DEF ViewInvariant
    <2> QED BY <2>4, <2>5, <2>6, <2>7, <2>8 DEF ViewInvariant
<1>7. ASSUME UNCHANGED <<heading, overtaken, lost>>, item.field = "refresh",
             \/ UNCHANGED viewVars /\ waiting' = "nothing"
             \/ item.here /\ Load(location, None) /\ waiting' = "read"
      PROVE  ViewInvariant'
    <2>1. ChainSound' /\ chain' \in Seq(Changes)
        <3>1. location = IF Pending("chain")' THEN heading.to' ELSE location
            BY <1>4, <1>7 DEF Pending
        <3>2. \A f \in Fields : location[f] = IF item.field = f THEN item.value ELSE location[f]
            BY <1>5, <1>7
        <3> QED BY <1>1, <1>2, <1>4, <1>7, <3>1, <3>2, ChainShrinks
    <2>2. LeaveStands'
        BY <1>7 DEF ViewInvariant, LeaveStands
    <2>3. CASE UNCHANGED viewVars
        <3>1. UNCHANGED <<data, loading, error, calls, due, cut, location, heading>>
            BY <1>2, <1>7, <2>3 DEF viewVars
        <3>2. ReadsSound'
            BY <3>1 DEF ViewInvariant, ReadsSound, FreshIsAsked, ShownIsAsked, LoadingEnds, NothingForgotten, Pending, Key
        <3>3. HeadingSound'
            BY <1>4, <3>1 DEF ViewInvariant, HeadingSound, DefaultStays, UserLeaves, ChainStays, OthersKeep, Pending,
                              Leaves, NoFresh
        <3>4. ViewTyped'
            BY <1>2, <1>7, <2>1, <3>1 DEF ViewInvariant, ViewTyped
        <3> QED BY <2>1, <2>2, <3>2, <3>3, <3>4 DEF ViewInvariant
    <2>4. CASE item.here /\ Load(location, None)
        <3>1. Chains(location.view)
            BY <1>3, <2>4 DEF ViewInvariant, ChainSound
        <3>2. location' = location /\ location' \in Locations /\ location'.view \in Reading /\ Load(location', None)
            BY <1>2, <1>3, <2>4, <3>1 DEF Chains, Reading
        <3>3. /\ calls' \subseteq ReadCall /\ data' \in Keys \cup {None} /\ loading' \in BOOLEAN /\ error' \in BOOLEAN
              /\ due' \in BOOLEAN /\ cut' \in BOOLEAN /\ ReadsSound'
            BY <3>2, LoadSounds
        <3>4. due' = FALSE
            BY <2>4 DEF Load
        <3>5. HeadingSound'
            BY <1>4, <1>7, <3>1, <3>2, <3>4 DEF ViewInvariant, HeadingSound, DefaultStays, UserLeaves, ChainStays,
                                         OthersKeep, Pending, Leaves, Chains, Keeps
        <3>6. ViewTyped'
            BY <1>2, <1>7, <2>1, <3>3 DEF ViewInvariant, ViewTyped
        <3> QED BY <2>1, <2>2, <3>3, <3>5, <3>6 DEF ViewInvariant
    <2> QED BY <1>7, <2>3, <2>4
<1>8. CASE item.field = "refresh"
    <2>1. ASSUME NEW s \in Scopes, Goes([location EXCEPT !.scope = s]) PROVE ViewInvariant'
        <3>1. PICK to : to = [location EXCEPT !.scope = s]
            OBVIOUS
        <3>2. to \in Locations /\ to.view = location.view /\ to.pick = location.pick /\ to.mark = location.mark
            BY <1>3, <3>1 DEF Locations
        <3>3. \A f \in Fields : to[f] = IF item.field = f THEN item.value ELSE location[f]
            BY <1>5, <1>8, <3>2 DEF Fields
        <3> QED BY <1>6, <2>1, <3>1, <3>2, <3>3
    <2> QED BY <1>2, <1>7, <1>8, <2>1
<1>9. CASE item.field # "refresh"
    <2>1. PICK to : to = [location EXCEPT ![item.field] = item.value]
        OBVIOUS
    <2>2. \/ item.field = "pick" /\ item.value \in Picks
          \/ item.field = "mark" /\ item.value \in Marks
        BY <1>3, <1>9 DEF Changes
    <2>3. CASE item.field = "pick" /\ item.value \in Picks
        <3>1. to \in Locations /\ to.view = location.view /\ to.pick = item.value /\ to.mark = location.mark
            BY <1>3, <2>1, <2>3 DEF Locations
        <3>2. \A f \in Fields : to[f] = IF item.field = f THEN item.value ELSE location[f]
            BY <2>3, <3>1 DEF Fields
        <3> QED BY <1>2, <1>6, <1>9, <2>1, <3>1, <3>2
    <2>4. CASE item.field = "mark" /\ item.value \in Marks
        <3>1. to \in Locations /\ to.view = location.view /\ to.pick = location.pick /\ to.mark = item.value
            BY <1>3, <2>1, <2>4 DEF Locations
        <3>2. \A f \in Fields : to[f] = IF item.field = f THEN item.value ELSE location[f]
            BY <2>4, <3>1 DEF Fields
        <3> QED BY <1>2, <1>6, <1>9, <2>1, <3>1, <3>2
    <2> QED BY <2>2, <2>3, <2>4
<1> QED BY <1>8, <1>9

-----------------------------------------------------------------------------
\* The first view reads what its URL says.
LEMMA ViewsBegin ==
    ASSUME ViewConstants, Init
    PROVE  ViewInvariant
<1>1. PICK c : c = [key |-> Key(location), fresh |-> TRUE]
    OBVIOUS
<1>2. /\ location \in Locations /\ location.view \in Reading /\ heading = None /\ data = None /\ loading = TRUE
      /\ error = FALSE /\ calls = {c} /\ due = FALSE /\ cut = FALSE /\ chain = <<>> /\ waiting = "nothing"
      /\ lost = FALSE /\ asked = [f \in Fields |-> None] /\ overtaken = {}
    BY <1>1 DEF Init, Locations, Fields
<1>3. c \in ReadCall /\ c.fresh = TRUE /\ c.key = Key(location)
    BY <1>1, <1>2, KeyTyped DEF ReadCall
<1>4. ViewTyped
    <2>1. chain \in Seq(Changes)
        BY <1>2
    <2>2. asked \in [Fields -> Picks \cup Marks \cup {None}]
        BY <1>2
    <2> QED BY <1>2, <1>3, <2>1, <2>2 DEF ViewTyped
<1>5. ReadsSound
    BY <1>2, <1>3 DEF ReadsSound, FreshIsAsked, ShownIsAsked, LoadingEnds, NothingForgotten
<1>6. HeadingSound /\ LeaveStands
    BY <1>2 DEF HeadingSound, DefaultStays, UserLeaves, ChainStays, OthersKeep, Pending, LeaveStands
<1>7. ChainSound
    <2>1. \A f \in Fields : asked[f] = None
        BY <1>2
    <2> QED BY <1>2, <2>1 DEF ChainSound
<1> QED BY <1>4, <1>5, <1>6, <1>7 DEF ViewInvariant

LEMMA ViewsStep ==
    ASSUME ViewConstants, ViewInvariant, [Next]_vars
    PROVE  ViewInvariant'
<1>1. CASE Answer
    <2>1. PICK c \in calls : /\ location.view \in Reading
                             /\ Answered(c) \/ Degraded(c) \/ Failed(c) \/ Forbidden(c) \/ Expired(c)
        BY <1>1 DEF Answer
    <2> QED BY <2>1, AnsweredStep, DegradedStep, FailedStep, ForbiddenStep, ExpiredStep
<1>2. CASE UNCHANGED vars
    <2>1. UNCHANGED <<location, heading, data, loading, error, calls, due, cut, chain, waiting, lost, asked, overtaken>>
        BY <1>2 DEF vars, viewVars, chainVars
    <2>2. ViewTyped' /\ LeaveStands'
        BY <2>1 DEF ViewInvariant, ViewTyped, LeaveStands
    <2>3. ReadsSound' /\ HeadingSound'
        BY <2>1 DEF ViewInvariant, ReadsSound, FreshIsAsked, ShownIsAsked, LoadingEnds, NothingForgotten, HeadingSound,
                    DefaultStays, UserLeaves, ChainStays, OthersKeep, Pending, Leaves, NoFresh, Key
    <2>4. ChainSound'
        BY <2>1, ChainRests DEF Pending
    <2> QED BY <2>2, <2>3, <2>4 DEF ViewInvariant
<1>3. CASE Watch \/ Refresh \/ Go \/ Arrive \/ Denied \/ Dropped \/ Change \/ AskRefresh \/ ChainStep
    BY <1>3, WatchStep, RefreshStep, GoStep, ArriveStep, DeniedStep, DroppedStep, ChangeStep, AskRefreshStep,
       ChainStepStep
<1> QED BY <1>1, <1>2, <1>3 DEF Next

\* The invariant says what the property does.
LEMMA ViewsMean ==
    ASSUME ViewInvariant
    PROVE  ViewsSound
<1>1. ChangesCompose
    <2> SUFFICES ASSUME Chains(location.view), chain = <<>>, heading = None, ~lost, NEW f \in Fields, asked[f] # None
                 PROVE  asked[f] = location[f]
        BY DEF ChangesCompose, Fields
    <2>1. Composed(f)
        BY DEF ViewInvariant, ChainSound
    <2> QED BY <2>1 DEF Composed, Pending
<1> QED BY <1>1 DEF ViewInvariant, ReadsSound, ViewsSound

\* Whatever the order of the answers, and whoever navigates meanwhile: a view shows what was read for
\* what the URL says, ends its loading and forgets no read; a late default selection or refusal replaces
\* no navigation of the user; and rapid changes of the filters compose (load, onBeforeRouteLeave, select
\* and change of the four views, beforeEach of router.ts).
THEOREM ViewsStaySound ==
    ASSUME ViewConstants
    PROVE  Spec => []ViewsSound
<1>1. Init => ViewInvariant
    BY ViewsBegin
<1>2. ViewInvariant /\ [Next]_vars => ViewInvariant'
    BY ViewsStep
<1>3. ViewInvariant => ViewsSound
    BY ViewsMean
<1> QED BY <1>1, <1>2, <1>3, PTL DEF Spec

-----------------------------------------------------------------------------
\* The panel.

\* What a call is; only lists and snapshots load, only what a button began frees it.
CallRecord == [kind : {"list", "snapshot", "validation", "changes", "facts", "abandon", "review",
                       "create", "delete", "save", "activate", "preview"},
               of : Versions \cup Types \cup {None}, form : Forms \cup {None}, load : BOOLEAN,
               last : BOOLEAN, after : Versions \cup {None}, frees : BOOLEAN]
Fitting(c) ==
    /\ c.kind # "list" => c.of \in Versions
    /\ c.load => c.kind \in {"list", "snapshot"}
    /\ c.frees => c.kind \notin {"facts", "preview"}
CallsFit(C) == \A c \in C : c \in CallRecord /\ Fitting(c)

\* The answers that will be shown are those of the selected version and of the form.
OfSelected(C, v) == \A c \in C : c.kind = "snapshot" /\ c.last => c.of = v
OfForm(C, f) == \A c \in C : c.kind = "preview" /\ c.last => c.form = f

\* A load is under way, a list is, a button waits.
Loading(C) == \E c \in C : c.load
Listing(C) == \E c \in C : c.kind = "list" /\ c.load
Waiting(C) == \E c \in C : c.frees

\* The invariant: what the server, the editor, the buttons and the list are; what the answers
\* under way are for; and what is shown of the selected version.
ServerTyped ==
    /\ rows \in [Versions -> Panel!Statuses] /\ type \in Types /\ presses \in 0 .. MaxPresses
    /\ \A r \in list : r.id \in Versions /\ r.status \in Panel!Statuses
    /\ unlisted \in BOOLEAN
EditorSound ==
    /\ form \in Forms \cup {None} /\ timer \in BOOLEAN
    /\ preview \in {None, form}
BusySound ==
    /\ fetching \in BOOLEAN /\ saving \in BOOLEAN
    /\ fetching => Loading(answers)
    /\ saving => Waiting(answers)
ListSound == selected # None /\ ~unlisted /\ ~Listing(answers) => selected \in Panel!Ids(list)
CallsSound == CallsFit(answers) /\ OfSelected(answers, selected) /\ OfForm(answers, form)
ShownSound ==
    /\ selected \in Versions \cup {None} /\ snapshot \in {None, selected}
    /\ reports \in [Panel!ReportKinds -> Versions \cup {None}] /\ late \subseteq Versions
    /\ \A k \in Panel!ReportKinds : reports[k] \in {None, selected} \cup late
PanelInvariant == ServerTyped /\ EditorSound /\ BusySound /\ ListSound /\ CallsSound /\ ShownSound

\* What is assumed of the constants.
PanelConstants == MaxPresses \in Nat /\ None \notin Versions

\* Calls whose answers will not be shown any more are calls all the same.
LEMMA OutdatedKeeps ==
    ASSUME NEW C, NEW kind \in {"snapshot", "preview"}, CallsFit(C), NEW O, O = Panel!Outdated(C, kind)
    PROVE  /\ CallsFit(O)
           /\ \A v : OfSelected(C, v) \/ kind = "snapshot" => OfSelected(O, v)
           /\ \A f : OfForm(C, f) \/ kind = "preview" => OfForm(O, f)
           /\ Loading(C) => Loading(O)
           /\ Listing(C) <=> Listing(O)
           /\ Waiting(C) => Waiting(O)
<1>1. ASSUME NEW c \in C
      PROVE  \E d \in O : /\ d.kind = c.kind /\ d.of = c.of /\ d.form = c.form /\ d.load = c.load
                          /\ d.frees = c.frees
    <2>1. c \in CallRecord
        BY DEF CallsFit
    <2>2. PICK d \in O : d = IF c.kind = kind THEN [c EXCEPT !.last = FALSE] ELSE c
        BY DEF Panel!Outdated
    <2> QED BY <2>1, <2>2 DEF CallRecord
<1>2. ASSUME NEW d \in O
      PROVE  \E c \in C : /\ d.kind = c.kind /\ d.of = c.of /\ d.form = c.form /\ d.load = c.load
                          /\ d.frees = c.frees /\ d \in CallRecord
                          /\ d.last => c.last /\ c.kind # kind
    <2>1. PICK c \in C : d = IF c.kind = kind THEN [c EXCEPT !.last = FALSE] ELSE c
        BY DEF Panel!Outdated
    <2>2. c \in CallRecord
        BY DEF CallsFit
    <2> QED BY <2>1, <2>2 DEF CallRecord
<1>3. CallsFit(O)
    BY <1>2 DEF CallsFit, Fitting
<1>4. \A v : OfSelected(C, v) \/ kind = "snapshot" => OfSelected(O, v)
    BY <1>2 DEF OfSelected
<1>5. \A f : OfForm(C, f) \/ kind = "preview" => OfForm(O, f)
    BY <1>2 DEF OfForm
<1>6. Loading(C) => Loading(O)
    BY <1>1 DEF Loading
<1>7. Listing(C) <=> Listing(O)
    BY <1>1, <1>2 DEF Listing
<1>8. Waiting(C) => Waiting(O)
    BY <1>1 DEF Waiting
<1> QED BY <1>3, <1>4, <1>5, <1>6, <1>7, <1>8

\* A load is one more call, and those before it do not load any more.
LEMMA LoadsKeeps ==
    ASSUME NEW C, CallsFit(C), type \in Types, NEW report \in Versions \cup {None}, NEW frees \in BOOLEAN,
           NEW L, L = Panel!Loads(C, report, frees)
    PROVE  /\ CallsFit(L)
           /\ \A v : OfSelected(C, v) => OfSelected(L, v)
           /\ \A f : OfForm(C, f) => OfForm(L, f)
           /\ Loading(L) /\ Listing(L)
           /\ Waiting(C) \/ frees => Waiting(L)
<1>1. PICK new : new = [Panel!Call("list", type) EXCEPT !.load = TRUE, !.after = report, !.frees = frees]
    OBVIOUS
<1>2. L = {[c EXCEPT !.load = FALSE] : c \in C} \cup {new}
    BY <1>1 DEF Panel!Loads
<1>3. /\ new \in CallRecord /\ new.kind = "list" /\ new.load = TRUE /\ new.last = FALSE /\ new.frees = frees
      /\ new \in L
    <2>1. new = [kind |-> "list", of |-> type, form |-> None, load |-> TRUE, last |-> FALSE,
                 after |-> report, frees |-> frees]
        BY <1>1 DEF Panel!Call
    <2> QED BY <1>2, <2>1 DEF CallRecord
<1>4. ASSUME NEW c \in C
      PROVE  \E d \in L : d.frees = c.frees
    <2>1. c \in CallRecord
        BY DEF CallsFit
    <2>2. PICK d \in L : d = [c EXCEPT !.load = FALSE]
        BY <1>2
    <2> QED BY <2>1, <2>2 DEF CallRecord
<1>5. ASSUME NEW d \in L, d # new
      PROVE  \E c \in C : /\ d.kind = c.kind /\ d.of = c.of /\ d.form = c.form /\ d.load = FALSE
                          /\ d.frees = c.frees /\ d \in CallRecord /\ d.last = c.last
    <2>1. PICK c \in C : d = [c EXCEPT !.load = FALSE]
        BY <1>2, <1>5
    <2>2. c \in CallRecord
        BY DEF CallsFit
    <2> QED BY <2>1, <2>2 DEF CallRecord
<1>6. CallsFit(L)
    <2>1. ASSUME NEW d \in L PROVE d \in CallRecord /\ Fitting(d)
        BY <1>3, <1>5 DEF CallsFit, Fitting
    <2> QED BY <2>1 DEF CallsFit
<1>7. \A v : OfSelected(C, v) => OfSelected(L, v)
    <2> SUFFICES ASSUME NEW v, OfSelected(C, v), NEW d \in L, d.kind = "snapshot", d.last
                 PROVE  d.of = v
        BY DEF OfSelected
    <2>1. d # new
        BY <1>3
    <2>2. PICK c \in C : d.kind = c.kind /\ d.of = c.of /\ d.last = c.last
        BY <1>5, <2>1
    <2> QED BY <2>2 DEF OfSelected
<1>8. \A f : OfForm(C, f) => OfForm(L, f)
    <2> SUFFICES ASSUME NEW f, OfForm(C, f), NEW d \in L, d.kind = "preview", d.last
                 PROVE  d.form = f
        BY DEF OfForm
    <2>1. d # new
        BY <1>3
    <2>2. PICK c \in C : d.kind = c.kind /\ d.form = c.form /\ d.last = c.last
        BY <1>5, <2>1
    <2> QED BY <2>2 DEF OfForm
<1>9. Loading(L) /\ Listing(L)
    BY <1>3 DEF Loading, Listing
<1>10. Waiting(C) \/ frees => Waiting(L)
    BY <1>3, <1>4 DEF Waiting
<1> QED BY <1>6, <1>7, <1>8, <1>9, <1>10

\* The snapshot and the reports of a selected version are asked for.
LEMMA AskedKeeps ==
    ASSUME NEW C, CallsFit(C), NEW v \in Versions \cup {None}, NEW c \in CallRecord, NEW A, A = Panel!Asked(C, v, c)
    PROVE  /\ CallsFit(A)
           /\ OfSelected(A, v)
           /\ \A f : OfForm(C, f) => OfForm(A, f)
           /\ Loading(C) \/ (v # None /\ c.load) => Loading(A)
           /\ Listing(C) <=> Listing(A)
           /\ Waiting(C) \/ (v # None /\ c.frees) => Waiting(A)
<1>1. PICK O : O = Panel!Outdated(C, "snapshot")
    OBVIOUS
<1>2. /\ CallsFit(O) /\ OfSelected(O, v) /\ (\A f : OfForm(C, f) => OfForm(O, f))
      /\ (Loading(C) => Loading(O)) /\ (Listing(C) <=> Listing(O)) /\ (Waiting(C) => Waiting(O))
    BY <1>1, OutdatedKeeps
<1>3. CASE v = None
    <2>1. A = O
        BY <1>1, <1>3 DEF Panel!Asked
    <2> QED BY <1>2, <1>3, <2>1
<1>4. CASE v # None
    <2>1. PICK new : new = [c EXCEPT !.kind = "snapshot", !.of = v, !.last = TRUE]
        OBVIOUS
    <2>2. A = O \cup {new}
        BY <1>1, <1>4, <2>1 DEF Panel!Asked
    <2>3. /\ new \in CallRecord /\ new.kind = "snapshot" /\ new.of = v /\ new.load = c.load /\ new.frees = c.frees
        BY <2>1 DEF CallRecord
    <2>4. CallsFit(A)
        BY <1>2, <1>4, <2>2, <2>3 DEF CallsFit, Fitting
    <2>5. OfSelected(A, v)
        BY <1>2, <2>2, <2>3 DEF OfSelected
    <2>6. \A f : OfForm(C, f) => OfForm(A, f)
        BY <1>2, <2>2, <2>3 DEF OfForm
    <2>7. Loading(C) \/ (v # None /\ c.load) => Loading(A)
        BY <1>2, <2>2, <2>3 DEF Loading
    <2>8. Listing(C) <=> Listing(A)
        BY <1>2, <2>2, <2>3 DEF Listing
    <2>9. Waiting(C) \/ (v # None /\ c.frees) => Waiting(A)
        BY <1>2, <2>2, <2>3 DEF Waiting
    <2> QED BY <2>4, <2>5, <2>6, <2>7, <2>8, <2>9
<1> QED BY <1>3, <1>4

\* A change of the selection clears what was shown of the last one.
LEMMA ClearedShows ==
    ASSUME Panel!Cleared, selected' \in Versions \cup {None}
    PROVE  ShownSound'
BY DEF Panel!Cleared, ShownSound, Panel!ReportKinds

\* Mere removal of a call.
LEMMA LessKeeps ==
    ASSUME NEW C, NEW c, CallsFit(C), NEW D, D = C \ {c}
    PROVE  /\ CallsFit(D)
           /\ \A v : OfSelected(C, v) => OfSelected(D, v)
           /\ \A f : OfForm(C, f) => OfForm(D, f)
           /\ Loading(C) /\ ~c.load => Loading(D)
           /\ Listing(C) /\ ~(c.kind = "list" /\ c.load) => Listing(D)
           /\ Listing(D) => Listing(C)
           /\ Waiting(C) /\ ~c.frees => Waiting(D)
<1>1. CallsFit(D) /\ (\A v : OfSelected(C, v) => OfSelected(D, v)) /\ (\A f : OfForm(C, f) => OfForm(D, f))
    BY DEF CallsFit, OfSelected, OfForm
<1>2. (Loading(C) /\ ~c.load => Loading(D)) /\ (Waiting(C) /\ ~c.frees => Waiting(D))
    BY DEF Loading, Waiting
<1>3. (Listing(C) /\ ~(c.kind = "list" /\ c.load) => Listing(D)) /\ (Listing(D) => Listing(C))
    BY DEF Listing
<1> QED BY <1>1, <1>2, <1>3

LEMMA SelectsShows ==
    ASSUME PanelInvariant, NEW C, CallsFit(C), NEW v \in Versions \cup {None},
           Panel!Selects(C, v), OfSelected(C, selected)
    PROVE  /\ selected' = v /\ ShownSound' /\ CallsFit(answers') /\ OfSelected(answers', v)
           /\ \A f : OfForm(C, f) => OfForm(answers', f)
           /\ Loading(C) => Loading(answers')
           /\ Listing(C) <=> Listing(answers')
           /\ Waiting(C) => Waiting(answers')
<1>1. CASE v = selected
    <2>1. selected' = v /\ answers' = C /\ UNCHANGED <<snapshot, reports, late>>
        BY <1>1 DEF Panel!Selects
    <2>2. ShownSound'
        BY <1>1, <2>1 DEF PanelInvariant, ShownSound
    <2> QED BY <1>1, <2>1, <2>2
<1>2. CASE v # selected
    <2>1. PICK c : c = Panel!Call("snapshot", v)
        OBVIOUS
    <2>2. selected' = v /\ answers' = Panel!Asked(C, v, c) /\ Panel!Cleared
        BY <1>2, <2>1 DEF Panel!Selects
    <2>3. c \in CallRecord
        BY <2>1 DEF Panel!Call, CallRecord
    <2> QED BY <2>2, <2>3, ClearedShows, AskedKeeps
<1> QED BY <1>1, <1>2

LEMMA SelectsAndWaitsShows ==
    ASSUME NEW C, CallsFit(C), NEW v \in Versions \cup {None}, NEW c \in CallRecord, Panel!SelectsAndWaits(C, v, c)
    PROVE  /\ selected' = v /\ ShownSound' /\ CallsFit(answers') /\ OfSelected(answers', v)
           /\ \A f : OfForm(C, f) => OfForm(answers', f)
           /\ Loading(C) \/ (v # None /\ c.load) => Loading(answers')
           /\ Listing(C) <=> Listing(answers')
           /\ Waiting(C) \/ (v # None /\ c.frees) => Waiting(answers')
<1>1. selected' = v /\ ShownSound'
    BY ClearedShows DEF Panel!SelectsAndWaits
<1>2. PICK W : W = Panel!Asked(C, v, c)
    OBVIOUS
<1>3. /\ CallsFit(W) /\ OfSelected(W, v) /\ (\A f : OfForm(C, f) => OfForm(W, f))
      /\ (Loading(C) \/ (v # None /\ c.load) => Loading(W)) /\ (Listing(C) <=> Listing(W))
      /\ (Waiting(C) \/ (v # None /\ c.frees) => Waiting(W))
    BY <1>2, AskedKeeps
<1>4. PICK d : d = Panel!Call("snapshot", v)
    OBVIOUS
<1>5. d \in CallRecord
    BY <1>4 DEF Panel!Call, CallRecord
<1>6. answers' = W \/ answers' = Panel!Asked(W, v, d)
    BY <1>2, <1>4 DEF Panel!SelectsAndWaits
<1>7. CASE answers' = W
    BY <1>1, <1>3, <1>7
<1>8. CASE answers' = Panel!Asked(W, v, d)
    <2>1. /\ CallsFit(answers') /\ OfSelected(answers', v) /\ (\A f : OfForm(W, f) => OfForm(answers', f))
          /\ (Loading(W) => Loading(answers')) /\ (Listing(W) <=> Listing(answers'))
          /\ (Waiting(W) => Waiting(answers'))
        BY <1>3, <1>5, <1>8, AskedKeeps
    <2> QED BY <1>1, <1>3, <2>1
<1> QED BY <1>6, <1>7, <1>8

\* A report that comes is of the selected version, or late.
LEMMA ReportsShow ==
    ASSUME PanelInvariant, NEW k \in Panel!ReportKinds, NEW v \in Versions, Panel!Reports(k, v),
           selected' = selected, snapshot' \in {None, selected}
    PROVE  ShownSound'
<1>1. reports' \in [Panel!ReportKinds -> Versions \cup {None}] /\ late' \subseteq Versions
    BY DEF Panel!Reports, PanelInvariant, ShownSound
<1>2. late \subseteq late' /\ v \in {selected} \cup late'
    BY DEF Panel!Reports
<1>3. ASSUME NEW j \in Panel!ReportKinds PROVE reports'[j] \in {None, selected} \cup late'
    <2>1. reports'[j] = v \/ reports'[j] = reports[j]
        BY DEF Panel!Reports, PanelInvariant, ShownSound
    <2> QED BY <1>2, <2>1 DEF PanelInvariant, ShownSound
<1> QED BY <1>1, <1>3 DEF PanelInvariant, ShownSound

\* What a call was kept for ends with it.
LEMMA OverKeeps ==
    ASSUME PanelInvariant, NEW c \in answers, Panel!Over(c), UNCHANGED <<selected, form>>, snapshot' \in {None,
           selected}
    PROVE  /\ BusySound' /\ CallsSound' /\ ShownSound'
           /\ ~(c.kind = "list" /\ c.load) /\ Listing(answers) => Listing(answers')
<1>1. c \in CallRecord /\ CallsFit(answers)
    BY DEF PanelInvariant, CallsSound, CallsFit
<1>2. answers' = answers \ {c}
    BY DEF Panel!Over
<1>3. BusySound'
    <2>1. fetching' = (fetching /\ ~c.load) /\ saving' = (saving /\ ~c.frees)
        BY DEF Panel!Over
    <2>2. (Loading(answers) /\ ~c.load => Loading(answers')) /\ (Waiting(answers) /\ ~c.frees => Waiting(answers'))
        BY <1>1, <1>2, LessKeeps
    <2> QED BY <2>1, <2>2 DEF PanelInvariant, BusySound
<1>4. CallsSound'
    BY <1>1, <1>2, LessKeeps DEF PanelInvariant, CallsSound
<1>5. ShownSound'
    <2>1. CASE c.after = None
        BY <2>1 DEF Panel!Over, PanelInvariant, ShownSound
    <2>2. CASE c.after # None
        <3>1. c.after \in Versions /\ Panel!Reports("validation", c.after)
            BY <1>1, <2>2 DEF CallRecord, Panel!Over
        <3> QED BY <3>1, ReportsShow DEF Panel!ReportKinds
    <2> QED BY <2>1, <2>2
<1> QED BY <1>1, <1>2, <1>3, <1>4, <1>5, LessKeeps

\* The rows of a list, and the one that is chosen of them.
LEMMA ListedTyped ==
    ASSUME rows \in [Versions -> Panel!Statuses], NEW t, NEW r \in Panel!Listed(t)
    PROVE  r.id \in Versions /\ r.status \in Panel!Statuses
<1>1. PICK v \in Panel!Of(t) : r = [id |-> v, status |-> rows[v]]
    BY DEF Panel!Listed
<1> QED BY <1>1 DEF Panel!Of

LEMMA Chosen ==
    ASSUME NEW L, NEW v \in Panel!Choices(L)
    PROVE  v = None \/ \E r \in L : v = r.id
BY DEF Panel!Choices, Panel!Ids

-----------------------------------------------------------------------------
(* The answers *)

LEMMA CallTyped ==
    ASSUME PanelInvariant, NEW c \in answers
    PROVE  /\ CallsFit(answers) /\ c \in CallRecord /\ Fitting(c)
           /\ OfSelected(answers, selected) /\ OfForm(answers, form)
BY DEF PanelInvariant, CallsSound, CallsFit

\* The steps: an answer each, then what the user presses.
LEMMA ListCameStep ==
    ASSUME PanelInvariant, NEW c \in answers, Panel!ListCame(c)
    PROVE  PanelInvariant'
<1>1. PICK L : L = Panel!Listed(c.of)
    OBVIOUS
<1>2. PICK C : C = answers \ {c}
    OBVIOUS
<1>3. PICK v \in Panel!Choices(L) : /\ Panel!SelectsAndWaits(C, v, c)
                              /\ fetching' = (v # None) /\ saving' = (saving /\ (v # None \/ ~c.frees))
    BY <1>1, <1>2 DEF Panel!ListCame
<1>4. c \in CallRecord /\ CallsFit(C) /\ (OfForm(answers, form) => OfForm(C, form))
      /\ (Waiting(answers) /\ ~c.frees => Waiting(C)) /\ OfForm(answers, form)
    BY <1>2, CallTyped, LessKeeps
<1>5. /\ c.load /\ list' = L /\ unlisted' = FALSE
      /\ UNCHANGED <<rows, type, form, timer, preview, presses>>
    BY <1>1 DEF Panel!ListCame, Panel!editor
<1>6. \A r \in L : r.id \in Versions /\ r.status \in Panel!Statuses
    BY <1>1, ListedTyped DEF PanelInvariant, ServerTyped
<1>7. v = None \/ v \in Panel!Ids(L)
    BY Chosen DEF Panel!Ids
<1>8. v \in Versions \cup {None}
    BY <1>6, Chosen
<1>9. /\ selected' = v /\ ShownSound' /\ CallsFit(answers') /\ OfSelected(answers', v)
      /\ (OfForm(C, form) => OfForm(answers', form))
      /\ (v # None => Loading(answers'))
      /\ (Waiting(C) \/ (v # None /\ c.frees) => Waiting(answers'))
    BY <1>3, <1>4, <1>5, <1>8, SelectsAndWaitsShows
<1>10. ServerTyped' /\ EditorSound'
    BY <1>5, <1>6 DEF PanelInvariant, ServerTyped, EditorSound
<1>11. BusySound'
    <2>1. saving => Waiting(answers)
        BY DEF PanelInvariant, BusySound
    <2>2. c.frees \in BOOLEAN /\ saving \in BOOLEAN
        BY <1>4 DEF CallRecord, PanelInvariant, BusySound
    <2>3. saving' => Waiting(answers')
        BY <1>3, <1>4, <1>9, <2>1, <2>2
    <2> QED BY <1>3, <1>9, <2>2, <2>3 DEF BusySound
<1>12. ListSound'
    BY <1>5, <1>7, <1>9 DEF ListSound, Panel!Ids
<1>13. CallsSound'
    BY <1>4, <1>5, <1>9 DEF CallsSound
<1> QED BY <1>9, <1>10, <1>11, <1>12, <1>13 DEF PanelInvariant

LEMMA ListFailedStep ==
    ASSUME PanelInvariant, NEW c \in answers, Panel!ListFailed(c)
    PROVE  PanelInvariant'
<1>1. /\ Panel!Over(c) /\ unlisted' = (unlisted \/ selected \notin Panel!Ids(list))
      /\ UNCHANGED <<rows, type, list, selected, snapshot, form, timer, preview, presses>>
    BY DEF Panel!ListFailed, Panel!editor
<1>2. BusySound' /\ CallsSound' /\ ShownSound'
    BY <1>1, OverKeeps DEF PanelInvariant, ShownSound
<1>3. ServerTyped' /\ EditorSound'
    BY <1>1 DEF PanelInvariant, ServerTyped, EditorSound
<1>4. ListSound'
    BY <1>1 DEF ListSound, Panel!Ids
<1> QED BY <1>2, <1>3, <1>4 DEF PanelInvariant

\* A step that leaves the list, the selection and the lists under way alone.
LEMMA ListStands ==
    ASSUME PanelInvariant, UNCHANGED <<selected, list, unlisted>>, Listing(answers) => Listing(answers')
    PROVE  ListSound'
BY DEF PanelInvariant, ListSound, Panel!Ids

LEMMA SnapshotCameStep ==
    ASSUME PanelInvariant, NEW c \in answers, Panel!SnapshotCame(c)
    PROVE  PanelInvariant'
<1>1. /\ c.kind = "snapshot" /\ Panel!Over(c)
      /\ snapshot' = snapshot \/ (snapshot' = c.of /\ c.last)
      /\ UNCHANGED <<rows, type, list, selected, form, timer, preview, presses, unlisted>>
    BY DEF Panel!SnapshotCame, Panel!Counts, Panel!editor
<1>2. snapshot' \in {None, selected}
    BY <1>1, CallTyped DEF OfSelected, PanelInvariant, ShownSound
<1>3. BusySound' /\ CallsSound' /\ ShownSound' /\ (Listing(answers) => Listing(answers'))
    BY <1>1, <1>2, OverKeeps
<1>4. ServerTyped' /\ EditorSound'
    BY <1>1 DEF PanelInvariant, ServerTyped, EditorSound
<1> QED BY <1>1, <1>3, <1>4, ListStands DEF PanelInvariant

LEMMA ReportCameStep ==
    ASSUME PanelInvariant, NEW c \in answers, Panel!ReportCame(c)
    PROVE  PanelInvariant'
<1>1. /\ c.kind \in Panel!ReportKinds /\ answers' = answers \ {c} /\ saving' = (saving /\ ~c.frees)
      /\ Panel!Reports(c.kind, c.of) \/ UNCHANGED <<reports, late>>
      /\ UNCHANGED <<rows, type, list, selected, snapshot, form, timer, preview, fetching, presses, unlisted>>
    BY DEF Panel!ReportCame, Panel!editor
<1>2. c.of \in Versions /\ ~c.load /\ c \in CallRecord
    BY <1>1, CallTyped DEF Fitting, Panel!ReportKinds
<1>3. /\ CallsFit(answers') /\ OfSelected(answers', selected) /\ OfForm(answers', form)
      /\ (Loading(answers) => Loading(answers')) /\ (Listing(answers) => Listing(answers'))
      /\ (Waiting(answers) /\ ~c.frees => Waiting(answers'))
    BY <1>1, <1>2, CallTyped, LessKeeps
<1>4. ShownSound'
    <2>1. snapshot' \in {None, selected}
        BY <1>1 DEF PanelInvariant, ShownSound
    <2>2. CASE Panel!Reports(c.kind, c.of)
        BY <1>1, <1>2, <2>1, <2>2, ReportsShow
    <2>3. CASE UNCHANGED <<reports, late>>
        BY <1>1, <2>3 DEF PanelInvariant, ShownSound
    <2> QED BY <1>1, <2>2, <2>3
<1>5. BusySound'
    BY <1>1, <1>3 DEF PanelInvariant, BusySound
<1>6. ServerTyped' /\ EditorSound' /\ CallsSound'
    BY <1>1, <1>3 DEF PanelInvariant, ServerTyped, EditorSound, CallsSound
<1> QED BY <1>1, <1>3, <1>4, <1>5, <1>6, ListStands DEF PanelInvariant

LEMMA PreviewCameStep ==
    ASSUME PanelInvariant, NEW c \in answers, Panel!PreviewCame(c)
    PROVE  PanelInvariant'
<1>1. /\ c.kind = "preview"
      /\ UNCHANGED <<rows, type, list, selected, snapshot, reports, late, fetching, saving, presses, unlisted>>
    BY DEF Panel!PreviewCame, Panel!shown
<1>2. PICK C : C = answers \ {c}
    OBVIOUS
<1>3. ~c.load /\ ~c.frees /\ c.last \in BOOLEAN
    BY <1>1, CallTyped DEF Fitting, CallRecord
<1>4. /\ CallsFit(C) /\ OfSelected(C, selected) /\ OfForm(C, form)
      /\ (Loading(answers) => Loading(C)) /\ (Listing(answers) => Listing(C)) /\ (Waiting(answers) => Waiting(C))
    BY <1>1, <1>2, <1>3, CallTyped, LessKeeps
<1>5. \/ /\ answers' = C
         /\ preview' = IF c.last THEN c.form ELSE preview
         /\ UNCHANGED <<form, timer>>
      \/ /\ form' \in Forms \ {form} /\ timer' = TRUE /\ preview' = None
         /\ answers' = Panel!Outdated(C, "preview")
    BY <1>2 DEF Panel!PreviewCame
<1>6. /\ CallsFit(answers') /\ OfSelected(answers', selected) /\ OfForm(answers', form')
      /\ (Loading(answers) => Loading(answers')) /\ (Listing(answers) => Listing(answers'))
      /\ (Waiting(answers) => Waiting(answers'))
    <2>1. CASE answers' = C /\ form' = form
        BY <1>4, <2>1
    <2>2. CASE answers' = Panel!Outdated(C, "preview")
        BY <1>4, <2>2, OutdatedKeeps
    <2> QED BY <1>5, <2>1, <2>2
<1>7. EditorSound'
    <2>1. c.last => c.form = form
        BY <1>1, CallTyped DEF OfForm
    <2> QED BY <1>3, <1>5, <2>1 DEF PanelInvariant, EditorSound
<1>8. ServerTyped' /\ BusySound' /\ CallsSound' /\ ShownSound'
    BY <1>1, <1>6 DEF PanelInvariant, ServerTyped, BusySound, CallsSound, ShownSound
<1> QED BY <1>1, <1>6, <1>7, <1>8, ListStands DEF PanelInvariant

LEMMA TargetsTyped ==
    ASSUME NEW v \in Versions, NEW w \in Panel!Targets(v)
    PROVE  w \in Versions
BY DEF Panel!Targets, Panel!Having, Panel!Of

LEMMA ChangedStep ==
    ASSUME PanelInvariant, NEW c \in answers, Panel!Changed(c)
    PROVE  PanelInvariant'
<1>1. PICK O : O = IF c.kind = "save" THEN Panel!OutdatedPreviews ELSE answers
    OBVIOUS
<1>2. PICK C : C = O \ {c}
    OBVIOUS
<1>4. c.kind # "list" /\ c \in CallRecord /\ c.of \in Versions /\ c.frees \in BOOLEAN
    BY CallTyped DEF Panel!Changed, Fitting, CallRecord
<1>5. \E v \in Versions, r \in Versions \cup {None} :
         rows' = [rows EXCEPT ![v] = "draft"] /\ Panel!Selects(Panel!Loads(C, r, c.frees), v)
    <2>1. CASE c.kind = "save"
        <3>1. PICK v \in Panel!Targets(c.of) :
                 rows' = [rows EXCEPT ![v] = "draft"] /\ Panel!Selects(Panel!Loads(Panel!OutdatedPreviews \ {c}, v, c.frees), v)
            BY <2>1 DEF Panel!Changed
        <3> QED BY <1>1, <1>2, <1>4, <2>1, <3>1, TargetsTyped
    <2>2. CASE c.kind # "save"
        <3>1. PICK v \in Panel!Targets(c.of) :
                 rows' = [rows EXCEPT ![v] = "draft"] /\ Panel!Selects(Panel!Loads(answers \ {c}, None, c.frees), v)
            BY <2>2 DEF Panel!Changed
        <3> QED BY <1>1, <1>2, <1>4, <2>2, <3>1, TargetsTyped
    <2> QED BY <2>1, <2>2
<1>6. PICK v \in Versions, r \in Versions \cup {None} :
         rows' = [rows EXCEPT ![v] = "draft"] /\ Panel!Selects(Panel!Loads(C, r, c.frees), v)
    BY <1>5
<1>7. PICK L : L = Panel!Loads(C, r, c.frees)
    OBVIOUS
<1>8. /\ fetching' = TRUE /\ UNCHANGED <<type, list, saving, presses, unlisted>>
      /\ IF c.kind = "save" THEN form' = None /\ timer' = FALSE /\ preview' = None
         ELSE UNCHANGED <<form, timer, preview>>
    BY DEF Panel!Changed, Panel!editor
<1>9. /\ CallsFit(O) /\ OfSelected(O, selected) /\ OfForm(O, form')
      /\ (Waiting(answers) => Waiting(O))
    <2>1. CASE c.kind = "save"
        BY <1>1, <2>1, CallTyped, OutdatedKeeps DEF Panel!OutdatedPreviews
    <2>2. CASE c.kind # "save"
        BY <1>1, <1>8, <2>2, CallTyped
    <2> QED BY <2>1, <2>2
<1>10. /\ CallsFit(C) /\ OfSelected(C, selected) /\ OfForm(C, form')
       /\ (Waiting(O) /\ ~c.frees => Waiting(C))
    BY <1>2, <1>9, LessKeeps
<1>11. /\ CallsFit(L) /\ OfSelected(L, selected) /\ OfForm(L, form')
       /\ Loading(L) /\ Listing(L) /\ (Waiting(C) \/ c.frees => Waiting(L))
    <2>1. type \in Types
        BY DEF PanelInvariant, ServerTyped
    <2>2. PICK frees \in BOOLEAN : frees = c.frees
        BY <1>4
    <2>3. L = Panel!Loads(C, r, frees)
        BY <1>7, <2>2
    <2>4. /\ CallsFit(L) /\ OfSelected(L, selected) /\ OfForm(L, form')
          /\ Loading(L) /\ Listing(L) /\ (Waiting(C) \/ frees => Waiting(L))
        BY <1>10, <2>1, <2>3, LoadsKeeps
    <2> QED BY <2>2, <2>4
<1>12. /\ selected' = v /\ ShownSound' /\ CallsFit(answers') /\ OfSelected(answers', v) /\ OfForm(answers', form')
       /\ Loading(answers') /\ Listing(answers') /\ (Waiting(L) => Waiting(answers'))
    BY <1>6, <1>7, <1>11, SelectsShows
<1>13. BusySound'
    <2>1. Waiting(answers) => Waiting(answers')
        BY <1>9, <1>10, <1>11, <1>12
    <2> QED BY <1>8, <1>12, <2>1 DEF PanelInvariant, BusySound
<1>14. ServerTyped'
    BY <1>6, <1>8 DEF PanelInvariant, ServerTyped, Panel!Statuses
<1>15. EditorSound'
    BY <1>8 DEF PanelInvariant, EditorSound
<1>16. ListSound'
    BY <1>12 DEF ListSound
<1> QED BY <1>12, <1>13, <1>14, <1>15, <1>16 DEF PanelInvariant, CallsSound

LEMMA DraftExistsStep ==
    ASSUME PanelConstants, PanelInvariant, NEW c \in answers, Panel!DraftExists(c)
    PROVE  PanelInvariant'
<1>1. PICK v \in Versions : /\ Panel!SelectsAndWaits(answers \ {c}, v, [Panel!Call("snapshot", v) EXCEPT !.frees = TRUE])
                            /\ unlisted' = (unlisted \/ v \notin Panel!Ids(list))
    BY DEF Panel!DraftExists, Panel!Having, Panel!Of
<1>2. /\ c.kind = "create"
      /\ UNCHANGED <<rows, type, list, form, timer, preview, fetching, saving, presses>>
    BY DEF Panel!DraftExists, Panel!Kept, Panel!editor
<1>3. PICK C, d : C = answers \ {c} /\ d = [Panel!Call("snapshot", v) EXCEPT !.frees = TRUE]
    OBVIOUS
<1>4. d \in CallRecord /\ d.frees = TRUE
    BY <1>3 DEF Panel!Call, CallRecord
<1>5. /\ CallsFit(C) /\ OfForm(C, form) /\ (Loading(answers) => Loading(C))
    BY <1>2, <1>3, CallTyped, LessKeeps DEF Fitting
<1>6. v \in Versions \cup {None} /\ v # None
    BY DEF PanelConstants
<1>7. /\ selected' = v /\ ShownSound' /\ CallsFit(answers') /\ OfSelected(answers', v) /\ OfForm(answers', form)
      /\ (Loading(C) => Loading(answers')) /\ Waiting(answers')
    BY <1>1, <1>3, <1>4, <1>5, <1>6, SelectsAndWaitsShows
<1>8. ServerTyped' /\ EditorSound'
    BY <1>1, <1>2 DEF PanelInvariant, ServerTyped, EditorSound
<1>9. BusySound' /\ CallsSound'
    BY <1>2, <1>5, <1>7 DEF PanelInvariant, BusySound, CallsSound
<1>10. ListSound'
    BY <1>1, <1>2, <1>7 DEF ListSound, Panel!Ids
<1> QED BY <1>7, <1>8, <1>9, <1>10 DEF PanelInvariant

LEMMA FactsCameStep ==
    ASSUME PanelInvariant, NEW c \in answers, Panel!FactsCame(c)
    PROVE  PanelInvariant'
<1>1. /\ c.kind = "facts" /\ Panel!SelectsAndWaits(answers \ {c}, selected, Panel!Call("snapshot", selected))
      /\ UNCHANGED <<rows, type, list, form, timer, preview, fetching, saving, presses, unlisted>>
    BY DEF Panel!FactsCame, Panel!Kept, Panel!editor
<1>2. PICK C, d : C = answers \ {c} /\ d = Panel!Call("snapshot", selected)
    OBVIOUS
<1>3. selected \in Versions \cup {None}
    BY DEF PanelInvariant, ShownSound
<1>4. d \in CallRecord
    BY <1>2, <1>3 DEF Panel!Call, CallRecord
<1>5. /\ CallsFit(C) /\ OfForm(C, form) /\ (Loading(answers) => Loading(C))
      /\ (Listing(answers) => Listing(C)) /\ (Waiting(answers) => Waiting(C))
    BY <1>1, <1>2, CallTyped, LessKeeps DEF Fitting
<1>6. /\ selected' = selected /\ ShownSound' /\ CallsFit(answers') /\ OfSelected(answers', selected)
      /\ OfForm(answers', form) /\ (Loading(C) => Loading(answers')) /\ (Listing(C) => Listing(answers'))
      /\ (Waiting(C) => Waiting(answers'))
    BY <1>1, <1>2, <1>3, <1>4, <1>5, SelectsAndWaitsShows
<1>7. ServerTyped' /\ EditorSound'
    BY <1>1 DEF PanelInvariant, ServerTyped, EditorSound
<1>8. BusySound' /\ CallsSound'
    BY <1>1, <1>5, <1>6 DEF PanelInvariant, BusySound, CallsSound
<1>9. ListSound'
    BY <1>1, <1>5, <1>6, ListStands
<1> QED BY <1>6, <1>7, <1>8, <1>9 DEF PanelInvariant

LEMMA ConfirmedStep ==
    ASSUME PanelInvariant, NEW c \in answers, Panel!Confirmed(c)
    PROVE  PanelInvariant'
<1>1. PICK C, d : C = answers \ {c} /\ d = [Panel!Call("activate", c.of) EXCEPT !.frees = TRUE]
    OBVIOUS
<1>2. /\ c.kind = "review" /\ answers' = C \cup {d} /\ saving' = TRUE
      /\ UNCHANGED <<rows, type, list, selected, snapshot, reports, late, form, timer, preview, fetching,
                     presses, unlisted>>
    BY <1>1 DEF Panel!Confirmed, Panel!Kept, Panel!editor
<1>3. c.of \in Versions /\ ~c.load
    BY <1>2, CallTyped DEF Fitting
<1>4. d \in CallRecord /\ Fitting(d) /\ d.kind = "activate" /\ d.frees = TRUE
    BY <1>1, <1>3 DEF Panel!Call, CallRecord, Fitting
<1>5. /\ CallsFit(C) /\ OfSelected(C, selected) /\ OfForm(C, form)
      /\ (Loading(answers) => Loading(C)) /\ (Listing(answers) => Listing(C))
    BY <1>1, <1>3, CallTyped, LessKeeps
<1>6. CallsSound'
    BY <1>2, <1>4, <1>5 DEF CallsSound, CallsFit, OfSelected, OfForm
<1>7. BusySound'
    BY <1>2, <1>4, <1>5 DEF PanelInvariant, BusySound, Loading, Waiting
<1>8. Listing(answers) => Listing(answers')
    BY <1>2, <1>5 DEF Listing
<1>9. ServerTyped' /\ EditorSound' /\ ShownSound'
    BY <1>2 DEF PanelInvariant, ServerTyped, EditorSound, ShownSound
<1> QED BY <1>2, <1>6, <1>7, <1>8, <1>9, ListStands DEF PanelInvariant

LEMMA ActivatedTyped ==
    ASSUME rows \in [Versions -> Panel!Statuses], NEW v
    PROVE  Panel!Activated(v) \in [Versions -> Panel!Statuses]
BY DEF Panel!Activated, Panel!Statuses

LEMMA StatusChangedStep ==
    ASSUME PanelInvariant, NEW c \in answers, Panel!StatusChanged(c)
    PROVE  PanelInvariant'
<1>1. PICK C : C = answers \ {c}
    OBVIOUS
<1>2. /\ answers' = Panel!Loads(C, None, c.frees) /\ fetching' = TRUE
      /\ UNCHANGED <<type, list, selected, snapshot, reports, late, form, timer, preview, saving,
                     presses, unlisted>>
    BY <1>1 DEF Panel!StatusChanged, Panel!Kept, Panel!editor
<1>3. rows' = Panel!Activated(c.of) \/ rows' = [rows EXCEPT ![c.of] = "abandoned"]
    BY DEF Panel!StatusChanged
<1>4. /\ CallsFit(C) /\ OfSelected(C, selected) /\ OfForm(C, form)
      /\ (Waiting(answers) /\ ~c.frees => Waiting(C)) /\ c.frees \in BOOLEAN
    BY <1>1, CallTyped, LessKeeps DEF CallRecord
<1>5. /\ CallsFit(answers') /\ OfSelected(answers', selected) /\ OfForm(answers', form)
      /\ Loading(answers') /\ Listing(answers') /\ (Waiting(C) \/ c.frees => Waiting(answers'))
    <2>1. type \in Types
        BY DEF PanelInvariant, ServerTyped
    <2>2. PICK frees \in BOOLEAN : frees = c.frees
        BY <1>4
    <2>3. answers' = Panel!Loads(C, None, frees)
        BY <1>2, <2>2
    <2>4. /\ CallsFit(answers') /\ OfSelected(answers', selected) /\ OfForm(answers', form)
          /\ Loading(answers') /\ Listing(answers') /\ (Waiting(C) \/ frees => Waiting(answers'))
        BY <1>4, <2>1, <2>3, LoadsKeeps
    <2> QED BY <2>2, <2>4
<1>6. ServerTyped'
    <2>1. rows' \in [Versions -> Panel!Statuses]
        BY <1>3, ActivatedTyped DEF PanelInvariant, ServerTyped, Panel!Statuses
    <2> QED BY <1>2, <2>1 DEF PanelInvariant, ServerTyped
<1>7. BusySound'
    BY <1>2, <1>4, <1>5 DEF PanelInvariant, BusySound
<1>8. EditorSound' /\ CallsSound' /\ ShownSound'
    BY <1>2, <1>5 DEF PanelInvariant, EditorSound, CallsSound, ShownSound
<1>9. ListSound'
    BY <1>5 DEF ListSound
<1> QED BY <1>6, <1>7, <1>8, <1>9 DEF PanelInvariant

LEMMA RefusedStep ==
    ASSUME PanelInvariant, NEW c \in answers, Panel!Refused(c)
    PROVE  PanelInvariant'
<1>1. /\ c.kind # "list" /\ Panel!Over(c)
      /\ UNCHANGED <<rows, type, list, selected, snapshot, form, timer, preview, presses, unlisted>>
    BY DEF Panel!Refused, Panel!Kept, Panel!editor
<1>2. BusySound' /\ CallsSound' /\ ShownSound' /\ (Listing(answers) => Listing(answers'))
    BY <1>1, OverKeeps DEF PanelInvariant, ShownSound
<1>3. ServerTyped' /\ EditorSound'
    BY <1>1 DEF PanelInvariant, ServerTyped, EditorSound
<1> QED BY <1>1, <1>2, <1>3, ListStands DEF PanelInvariant

-----------------------------------------------------------------------------
(* The user, and the others *)

LEMMA Moved == ASSUME PanelConstants, PanelInvariant, Panel!Move PROVE presses' \in 0 .. MaxPresses
BY DEF PanelConstants, PanelInvariant, ServerTyped, Panel!Move

\* A button adds one call, which need not be an answer that is shown.
LEMMA AddedKeeps ==
    ASSUME CallsSound, NEW d \in CallRecord, Fitting(d), ~d.last, UNCHANGED <<selected, form>>,
           answers' = answers \cup {d}
    PROVE  /\ CallsSound' /\ (Loading(answers) => Loading(answers')) /\ (Listing(answers) => Listing(answers'))
           /\ (Waiting(answers) \/ d.frees => Waiting(answers'))
BY DEF CallsSound, CallsFit, OfSelected, OfForm, Loading, Listing, Waiting

LEMMA PressesStep ==
    ASSUME PanelConstants, PanelInvariant, Panel!Presses
    PROVE  PanelInvariant'
<1>1. selected \in Versions
    BY DEF Panel!Presses, Panel!Ids, PanelInvariant, ServerTyped
<1>2. \/ \E k \in {"create", "validation", "review"} :
            answers' = answers \cup {[Panel!Call(k, selected) EXCEPT !.frees = TRUE]} /\ saving' \in {saving, TRUE}
      \/ \E k \in {"changes", "facts", "abandon", "delete"} :
            answers' = answers \cup {Panel!Call(k, selected)} /\ saving' = saving
    BY DEF Panel!Presses
<1>3. PICK d \in CallRecord :
         /\ answers' = answers \cup {d} /\ d.kind # "list" /\ d.of \in Versions /\ ~d.load /\ ~d.last
         /\ (saving' = saving \/ (saving' = TRUE /\ d.frees))
         /\ (d.frees => d.kind \notin {"facts", "preview"})
    <2>1. CASE \E k \in {"create", "validation", "review"} :
                  /\ answers' = answers \cup {[Panel!Call(k, selected) EXCEPT !.frees = TRUE]}
                  /\ saving' \in {saving, TRUE}
        <3>1. PICK k \in {"create", "validation", "review"} :
                  /\ answers' = answers \cup {[Panel!Call(k, selected) EXCEPT !.frees = TRUE]}
                  /\ saving' \in {saving, TRUE}
            BY <2>1
        <3>2. PICK d : d = [Panel!Call(k, selected) EXCEPT !.frees = TRUE]
            OBVIOUS
        <3>3. d \in CallRecord /\ d.kind = k /\ d.of = selected /\ ~d.load /\ ~d.last /\ d.frees = TRUE
            BY <1>1, <3>2 DEF Panel!Call, CallRecord
        <3> QED BY <1>1, <3>1, <3>2, <3>3
    <2>2. CASE \E k \in {"changes", "facts", "abandon", "delete"} :
                  answers' = answers \cup {Panel!Call(k, selected)} /\ saving' = saving
        <3>1. PICK k \in {"changes", "facts", "abandon", "delete"} :
                  answers' = answers \cup {Panel!Call(k, selected)} /\ saving' = saving
            BY <2>2
        <3>2. PICK d : d = Panel!Call(k, selected)
            OBVIOUS
        <3>3. d \in CallRecord /\ d.kind = k /\ d.of = selected /\ ~d.load /\ ~d.last /\ ~d.frees
            BY <1>1, <3>2 DEF Panel!Call, CallRecord
        <3> QED BY <1>1, <3>1, <3>2, <3>3
    <2> QED BY <1>2, <2>1, <2>2
<1>4. /\ UNCHANGED <<rows, type, list, selected, snapshot, reports, late, form, timer, preview, fetching, unlisted>>
      /\ presses' \in 0 .. MaxPresses
    BY Moved DEF Panel!Presses, Panel!shown, Panel!editor
<1>5. Fitting(d)
    BY <1>3 DEF Fitting
<1>6. /\ CallsSound' /\ (Loading(answers) => Loading(answers')) /\ (Listing(answers) => Listing(answers'))
      /\ (Waiting(answers) \/ d.frees => Waiting(answers'))
    BY <1>3, <1>4, <1>5, AddedKeeps DEF PanelInvariant
<1>7. BusySound'
    <2>1. saving \in BOOLEAN /\ (saving => Waiting(answers)) /\ fetching \in BOOLEAN /\ (fetching => Loading(answers))
        BY DEF PanelInvariant, BusySound
    <2>2. CASE saving' = saving
        BY <1>4, <1>6, <2>1, <2>2 DEF BusySound
    <2>3. CASE saving' = TRUE /\ d.frees
        BY <1>4, <1>6, <2>1, <2>3 DEF BusySound
    <2> QED BY <1>3, <2>2, <2>3
<1>8. ServerTyped' /\ EditorSound' /\ ShownSound'
    BY <1>4 DEF PanelInvariant, ServerTyped, EditorSound, ShownSound
<1> QED BY <1>4, <1>6, <1>7, <1>8, ListStands DEF PanelInvariant

LEMMA SelectStep ==
    ASSUME PanelConstants, PanelInvariant, Panel!Select
    PROVE  PanelInvariant'
<1>1. /\ UNCHANGED <<rows, type, list, form, timer, preview, fetching, saving, unlisted>>
      /\ presses' \in 0 .. MaxPresses
    BY Moved DEF Panel!Select, Panel!editor
<1>2. PICK v \in Panel!Ids(list) : Panel!Selects(answers, v)
    BY DEF Panel!Select
<1>3. v \in Versions
    BY DEF Panel!Ids, PanelInvariant, ServerTyped
<1>4. /\ selected' = v /\ ShownSound' /\ CallsFit(answers') /\ OfSelected(answers', v)
      /\ OfForm(answers', form) /\ (Loading(answers) => Loading(answers')) /\ (Waiting(answers) => Waiting(answers'))
    <2>1. CallsFit(answers) /\ OfSelected(answers, selected) /\ OfForm(answers, form)
        BY DEF PanelInvariant, CallsSound
    <2> QED BY <1>2, <1>3, <2>1, SelectsShows
<1>5. ServerTyped' /\ EditorSound'
    BY <1>1 DEF PanelInvariant, ServerTyped, EditorSound
<1>6. BusySound' /\ CallsSound'
    BY <1>1, <1>4 DEF PanelInvariant, BusySound, CallsSound
<1>7. ListSound'
    BY <1>1, <1>2, <1>4 DEF ListSound, Panel!Ids
<1> QED BY <1>4, <1>5, <1>6, <1>7 DEF PanelInvariant

LEMMA ReloadStep ==
    ASSUME PanelConstants, PanelInvariant, Panel!Reload
    PROVE  PanelInvariant'
<1>1. /\ answers' = Panel!Loads(answers, None, FALSE) /\ fetching' = TRUE /\ presses' \in 0 .. MaxPresses
      /\ UNCHANGED <<rows, type, list, selected, snapshot, reports, late, form, timer, preview, saving, unlisted>>
    BY Moved DEF Panel!Reload, Panel!shown, Panel!editor
<1>2. /\ CallsFit(answers') /\ OfSelected(answers', selected) /\ OfForm(answers', form)
      /\ Loading(answers') /\ Listing(answers') /\ (Waiting(answers) => Waiting(answers'))
    BY <1>1, LoadsKeeps DEF PanelInvariant, CallsSound, ServerTyped
<1>3. ServerTyped' /\ EditorSound' /\ ShownSound'
    BY <1>1 DEF PanelInvariant, ServerTyped, EditorSound, ShownSound
<1>4. BusySound' /\ CallsSound'
    BY <1>1, <1>2 DEF PanelInvariant, BusySound, CallsSound
<1>5. ListSound'
    BY <1>2 DEF ListSound
<1> QED BY <1>3, <1>4, <1>5 DEF PanelInvariant

LEMMA SwitchTypeStep ==
    ASSUME PanelConstants, PanelInvariant, Panel!SwitchType
    PROVE  PanelInvariant'
<1>1. PICK O : O = Panel!Outdated(Panel!OutdatedPreviews, "snapshot")
    OBVIOUS
<1>2. PICK new : new = [Panel!Call("list", type') EXCEPT !.load = TRUE]
    OBVIOUS
<1>3. /\ answers' = {[c EXCEPT !.load = FALSE] : c \in O} \cup {new}
      /\ type' \in Types /\ list' = {} /\ selected' = None /\ snapshot' = None
      /\ form' = None /\ timer' = FALSE /\ preview' = None /\ fetching' = TRUE /\ unlisted' = FALSE
      /\ UNCHANGED <<rows, saving>> /\ presses' \in 0 .. MaxPresses
    BY <1>1, <1>2, Moved DEF Panel!SwitchType
<1>4. new \in CallRecord /\ new.kind = "list" /\ new.load = TRUE /\ ~new.frees
    BY <1>2, <1>3 DEF Panel!Call, CallRecord
<1>5. CallsFit(O) /\ OfSelected(O, None) /\ OfForm(O, None) /\ (Waiting(answers) => Waiting(O))
    <2>1. PICK P : P = Panel!OutdatedPreviews
        OBVIOUS
    <2>2. CallsFit(P) /\ OfForm(P, None) /\ (Waiting(answers) => Waiting(P))
        BY <2>1, OutdatedKeeps DEF Panel!OutdatedPreviews, PanelInvariant, CallsSound
    <2> QED BY <1>1, <2>1, <2>2, OutdatedKeeps
<1>6. ASSUME NEW d \in answers', d # new
      PROVE  \E c \in O : /\ d.kind = c.kind /\ d.of = c.of /\ d.form = c.form /\ d.load = FALSE
                          /\ d.frees = c.frees /\ d \in CallRecord /\ d.last = c.last
    <2>1. PICK c \in O : d = [c EXCEPT !.load = FALSE]
        BY <1>3, <1>6
    <2>2. c \in CallRecord
        BY <1>5 DEF CallsFit
    <2> QED BY <2>1, <2>2 DEF CallRecord
<1>7. ASSUME NEW c \in O, c.frees PROVE \E d \in answers' : d.frees
    <2>1. c \in CallRecord
        BY <1>5 DEF CallsFit
    <2>2. PICK d \in answers' : d = [c EXCEPT !.load = FALSE]
        BY <1>3
    <2> QED BY <1>7, <2>1, <2>2 DEF CallRecord
<1>8. CallsSound'
    <2>1. ASSUME NEW d \in answers' PROVE d \in CallRecord /\ Fitting(d)
        BY <1>4, <1>5, <1>6 DEF CallsFit, Fitting
    <2>2. ASSUME NEW d \in answers', d.kind = "snapshot", d.last PROVE d.of = None
        <3>1. PICK c \in O : d.kind = c.kind /\ d.of = c.of /\ d.last = c.last
            BY <1>4, <1>6, <2>2
        <3> QED BY <1>5, <2>2, <3>1 DEF OfSelected
    <2>3. ASSUME NEW d \in answers', d.kind = "preview", d.last PROVE d.form = None
        <3>1. PICK c \in O : d.kind = c.kind /\ d.form = c.form /\ d.last = c.last
            BY <1>4, <1>6, <2>3
        <3> QED BY <1>5, <2>3, <3>1 DEF OfForm
    <2> QED BY <1>3, <2>1, <2>2, <2>3 DEF CallsSound, CallsFit, OfSelected, OfForm
<1>9. BusySound'
    <2>1. Loading(answers')
        BY <1>3, <1>4 DEF Loading
    <2>2. Waiting(answers) => Waiting(answers')
        BY <1>5, <1>7 DEF Waiting
    <2> QED BY <1>3, <2>1, <2>2 DEF PanelInvariant, BusySound
<1>10. ShownSound'
    <2>1. CASE selected # None
        <3>1. reports' = [k \in Panel!ReportKinds |-> None] /\ late' = {}
            BY <2>1 DEF Panel!SwitchType
        <3> QED BY <1>3, <3>1 DEF ShownSound
    <2>2. CASE selected = None
        <3>1. UNCHANGED <<reports, late>>
            BY <2>2 DEF Panel!SwitchType
        <3> QED BY <1>3, <2>2, <3>1 DEF PanelInvariant, ShownSound
    <2> QED BY <2>1, <2>2
<1>11. ServerTyped' /\ EditorSound' /\ ListSound'
    BY <1>3 DEF PanelInvariant, ServerTyped, EditorSound, ListSound
<1> QED BY <1>8, <1>9, <1>10, <1>11 DEF PanelInvariant

\* The editor opens, closes or changes: no preview under way is shown.
LEMMA EditedKeeps ==
    ASSUME PanelInvariant, answers' = Panel!OutdatedPreviews, UNCHANGED <<selected, fetching, saving>>
    PROVE  CallsSound' /\ BusySound' /\ (Listing(answers) => Listing(answers'))
<1>1. /\ CallsFit(answers') /\ OfSelected(answers', selected) /\ OfForm(answers', form')
      /\ (Loading(answers) => Loading(answers')) /\ (Listing(answers) => Listing(answers'))
      /\ (Waiting(answers) => Waiting(answers'))
    BY OutdatedKeeps DEF Panel!OutdatedPreviews, PanelInvariant, CallsSound
<1> QED BY <1>1 DEF PanelInvariant, CallsSound, BusySound

LEMMA EditStep ==
    ASSUME PanelConstants, PanelInvariant, Panel!Edit
    PROVE  PanelInvariant'
<1>1. /\ form' \in Forms /\ timer' = TRUE /\ preview' = None /\ answers' = Panel!OutdatedPreviews
      /\ reports' \in {reports, [reports EXCEPT !["validation"] = None]}
      /\ UNCHANGED <<rows, type, list, selected, snapshot, late, fetching, saving, unlisted>>
      /\ presses' \in 0 .. MaxPresses
    BY Moved DEF Panel!Edit
<1>2. CallsSound' /\ BusySound' /\ (Listing(answers) => Listing(answers'))
    BY <1>1, EditedKeeps
<1>3. ShownSound'
    BY <1>1 DEF PanelInvariant, ShownSound
<1>4. ServerTyped' /\ EditorSound'
    BY <1>1 DEF PanelInvariant, ServerTyped, EditorSound
<1> QED BY <1>1, <1>2, <1>3, <1>4, ListStands DEF PanelInvariant

LEMMA CloseEditorStep ==
    ASSUME PanelInvariant, Panel!CloseEditor
    PROVE  PanelInvariant'
<1>1. /\ form' = None /\ timer' = FALSE /\ preview' = None /\ answers' = Panel!OutdatedPreviews
      /\ UNCHANGED <<rows, type, list, selected, snapshot, reports, late, fetching, saving, presses, unlisted>>
    BY DEF Panel!CloseEditor, Panel!shown
<1>2. CallsSound' /\ BusySound' /\ (Listing(answers) => Listing(answers'))
    BY <1>1, EditedKeeps
<1>3. ServerTyped' /\ EditorSound' /\ ShownSound'
    BY <1>1 DEF PanelInvariant, ServerTyped, EditorSound, ShownSound
<1> QED BY <1>1, <1>2, <1>3, ListStands DEF PanelInvariant

LEMMA PreviewFormulaStep ==
    ASSUME PanelInvariant, Panel!PreviewFormula
    PROVE  PanelInvariant'
<1>1. /\ timer' = FALSE
      /\ UNCHANGED <<rows, type, list, selected, snapshot, reports, late, form, preview, fetching, saving, presses, unlisted>>
    BY DEF Panel!PreviewFormula, Panel!shown
<1>2. ServerTyped' /\ EditorSound' /\ ShownSound'
    BY <1>1 DEF PanelInvariant, ServerTyped, EditorSound, ShownSound
<1>3. CallsSound' /\ BusySound' /\ (Listing(answers) => Listing(answers'))
    <2>1. CASE selected \notin Panel!Ids(list)
        <3>1. answers' = answers
            BY <2>1 DEF Panel!PreviewFormula
        <3> QED BY <1>1, <3>1 DEF PanelInvariant, CallsSound, BusySound
    <2>2. CASE selected \in Panel!Ids(list)
        <3>1. PICK O, d : O = Panel!OutdatedPreviews
                          /\ d = [Panel!Call("preview", selected) EXCEPT !.form = form, !.last = TRUE]
            OBVIOUS
        <3>2. answers' = O \cup {d}
            BY <2>2, <3>1 DEF Panel!PreviewFormula
        <3>3. selected \in Versions /\ form \in Forms \cup {None}
            BY <2>2 DEF Panel!Ids, PanelInvariant, ServerTyped, EditorSound
        <3>4. /\ d \in CallRecord /\ Fitting(d) /\ d.kind = "preview" /\ d.form = form
            BY <3>1, <3>3 DEF Panel!Call, CallRecord, Fitting
        <3>5. /\ CallsFit(O) /\ OfSelected(O, selected) /\ OfForm(O, form)
              /\ (Loading(answers) => Loading(O)) /\ (Listing(answers) => Listing(O))
              /\ (Waiting(answers) => Waiting(O))
            BY <3>1, OutdatedKeeps DEF Panel!OutdatedPreviews, PanelInvariant, CallsSound
        <3>6. CallsSound'
            BY <1>1, <3>2, <3>4, <3>5 DEF CallsSound, CallsFit, OfSelected, OfForm
        <3>7. (Loading(O) => Loading(answers')) /\ (Listing(O) => Listing(answers')) /\ (Waiting(O) => Waiting(answers'))
            BY <3>2 DEF Loading, Listing, Waiting
        <3> QED BY <1>1, <3>5, <3>6, <3>7 DEF PanelInvariant, BusySound
    <2> QED BY <2>1, <2>2
<1> QED BY <1>1, <1>2, <1>3, ListStands DEF PanelInvariant

LEMMA SaveMetricStep ==
    ASSUME PanelConstants, PanelInvariant, Panel!SaveMetric
    PROVE  PanelInvariant'
<1>1. PICK d : d = [Panel!Call("save", selected) EXCEPT !.form = form, !.frees = TRUE]
    OBVIOUS
<1>2. /\ answers' = answers \cup {d} /\ saving' = TRUE /\ presses' \in 0 .. MaxPresses
      /\ UNCHANGED <<rows, type, list, selected, snapshot, reports, late, form, timer, preview, fetching, unlisted>>
    BY <1>1, Moved DEF Panel!SaveMetric, Panel!shown, Panel!editor
<1>3. selected \in Versions /\ form \in Forms \cup {None}
    BY DEF Panel!SaveMetric, Panel!Ids, PanelInvariant, ServerTyped, EditorSound
<1>4. d \in CallRecord /\ Fitting(d) /\ ~d.last /\ d.frees = TRUE
    BY <1>1, <1>3 DEF Panel!Call, CallRecord, Fitting
<1>5. /\ CallsSound' /\ (Loading(answers) => Loading(answers')) /\ (Listing(answers) => Listing(answers'))
      /\ Waiting(answers')
    BY <1>2, <1>4, AddedKeeps DEF PanelInvariant
<1>6. ServerTyped' /\ EditorSound' /\ ShownSound' /\ BusySound'
    BY <1>2, <1>5 DEF PanelInvariant, ServerTyped, EditorSound, ShownSound, BusySound
<1> QED BY <1>2, <1>5, <1>6, ListStands DEF PanelInvariant

LEMMA OthersStep ==
    ASSUME PanelConstants, PanelInvariant, Panel!Others
    PROVE  PanelInvariant'
<1>1. /\ UNCHANGED <<type, list, selected, snapshot, reports, late, form, timer, preview, fetching, saving, answers, unlisted>>
      /\ presses' \in 0 .. MaxPresses
    BY Moved DEF Panel!Others, Panel!shown, Panel!editor
<1>2. rows' \in [Versions -> Panel!Statuses]
    <2>1. \E v \in Versions : \/ rows' = Panel!Activated(v) \/ rows' = [rows EXCEPT ![v] = "draft"]
                              \/ rows' = [rows EXCEPT ![v] = "abandoned"]
        BY DEF Panel!Others, Panel!Having, Panel!Of
    <2> QED BY <2>1, ActivatedTyped DEF PanelInvariant, ServerTyped, Panel!Statuses
<1>3. ServerTyped' /\ EditorSound' /\ BusySound' /\ CallsSound' /\ ShownSound'
    BY <1>1, <1>2 DEF PanelInvariant, ServerTyped, EditorSound, BusySound, CallsSound, ShownSound
<1> QED BY <1>1, <1>3, ListStands DEF PanelInvariant

-----------------------------------------------------------------------------
LEMMA PanelBegins ==
    ASSUME PanelConstants, Panel!Init
    PROVE  PanelInvariant
<1>1. PICK c : c = [Panel!Call("list", type) EXCEPT !.load = TRUE]
    OBVIOUS
<1>2. /\ answers = {c} /\ fetching = TRUE /\ saving = FALSE /\ type \in Types
      /\ list = {} /\ selected = None /\ snapshot = None /\ reports = [k \in Panel!ReportKinds |-> None]
      /\ form = None /\ timer = FALSE /\ preview = None /\ presses = 0 /\ late = {} /\ unlisted = FALSE
    BY <1>1 DEF Panel!Init
<1>3. c \in CallRecord /\ Fitting(c) /\ c.kind = "list" /\ c.load = TRUE
    BY <1>1, <1>2 DEF Panel!Call, CallRecord, Fitting
<1>4. rows \in [Versions -> Panel!Statuses]
    BY DEF Panel!Init, Panel!Statuses
<1>5. ServerTyped /\ EditorSound /\ ListSound /\ ShownSound
    <2>1. ServerTyped /\ EditorSound /\ ListSound
        <3>1. 0 \in 0 .. MaxPresses
            BY DEF PanelConstants
        <3>2. ServerTyped
            BY <1>2, <1>4, <3>1 DEF ServerTyped
        <3> QED BY <1>2, <3>2 DEF EditorSound, ListSound
    <2>2. ShownSound
        <3>1. \A k \in Panel!ReportKinds : reports[k] = None
            BY <1>2
        <3>2. reports \in [Panel!ReportKinds -> Versions \cup {None}]
            BY <1>2
        <3> QED BY <1>2, <3>1, <3>2 DEF ShownSound
    <2> QED BY <2>1, <2>2
<1>6. BusySound
    BY <1>2, <1>3 DEF BusySound, Loading
<1>7. CallsSound
    BY <1>2, <1>3 DEF CallsSound, CallsFit, OfSelected, OfForm
<1> QED BY <1>5, <1>6, <1>7 DEF PanelInvariant

LEMMA PanelMeans ==
    ASSUME PanelInvariant
    PROVE  Panel!PanelSound
<1>1. Panel!SnapshotIsSelected /\ Panel!ReportsAreSelected /\ Panel!PreviewIsOfForm
    BY DEF PanelInvariant, EditorSound, ShownSound, Panel!SnapshotIsSelected, Panel!ReportsAreSelected,
       Panel!PreviewIsOfForm
<1>2. Panel!SelectedIsListed /\ Panel!BusyEnds
    BY DEF PanelInvariant, ListSound, BusySound, Listing, Loading, Waiting, Panel!SelectedIsListed, Panel!BusyEnds
<1> QED BY <1>1, <1>2 DEF Panel!PanelSound

LEMMA PanelSteps ==
    ASSUME PanelConstants, PanelInvariant, [Panel!Next]_Panel!vars
    PROVE  PanelInvariant'
<1>1. CASE Panel!Answer
    <2>1. PICK c \in answers :
             \/ Panel!ListCame(c) \/ Panel!ListFailed(c) \/ Panel!SnapshotCame(c) \/ Panel!ReportCame(c)
                \/ Panel!PreviewCame(c)
             \/ Panel!Changed(c) \/ Panel!DraftExists(c) \/ Panel!FactsCame(c) \/ Panel!Confirmed(c)
                \/ Panel!StatusChanged(c) \/ Panel!Refused(c)
        BY <1>1 DEF Panel!Answer
    <2> QED BY <2>1, ListCameStep, ListFailedStep, SnapshotCameStep, ReportCameStep, PreviewCameStep, ChangedStep,
               DraftExistsStep, FactsCameStep, ConfirmedStep, StatusChangedStep, RefusedStep
<1>2. CASE Panel!Presses \/ Panel!Select \/ Panel!Reload \/ Panel!SwitchType \/ Panel!Edit
           \/ Panel!CloseEditor \/ Panel!PreviewFormula \/ Panel!SaveMetric \/ Panel!Others
    BY <1>2, PressesStep, SelectStep, ReloadStep, SwitchTypeStep, EditStep, CloseEditorStep, PreviewFormulaStep,
       SaveMetricStep, OthersStep
<1>3. CASE UNCHANGED Panel!vars
    BY <1>3 DEF Panel!vars, Panel!shown, Panel!editor, PanelInvariant, ServerTyped, EditorSound, BusySound,
       ListSound, CallsSound,
                ShownSound, Panel!Ids
<1> QED BY <1>1, <1>2, <1>3 DEF Panel!Next

LEMMA PanelInvariance ==
    ASSUME PanelConstants
    PROVE  Panel!Spec => []PanelInvariant
<1>1. Panel!Init => PanelInvariant
    BY PanelBegins
<1>2. PanelInvariant /\ [Panel!Next]_Panel!vars => PanelInvariant'
    BY PanelSteps
<1> QED BY <1>1, <1>2, PTL DEF Panel!Spec

\* The variables of the panel keep their types (MetricLibraryPanel.vue).
THEOREM PanelTypes ==
    ASSUME PanelConstants
    PROVE  Panel!Spec => []Panel!TypeOK
<1>1. PanelInvariant => Panel!TypeOK
    BY DEF PanelInvariant, ServerTyped, EditorSound, BusySound, ShownSound, Panel!TypeOK
<1> QED BY <1>1, PanelInvariance, PTL

\* Whatever the order of the answers and whatever the user does meanwhile: the snapshot, the
\* reports and the preview belong to the selected version and the form, the selection is one of
\* the list, and the buttons are locked only while a call is under way that will free them
\* (load, loadVersion, previewFormula of MetricLibraryPanel.vue).
THEOREM PanelStaysSound ==
    ASSUME PanelConstants
    PROVE  Panel!Spec => []Panel!PanelSound
<1>1. PanelInvariant => Panel!PanelSound
    BY PanelMeans
<1> QED BY <1>1, PanelInvariance, PTL
=============================================================================
