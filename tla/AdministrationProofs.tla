------------------------- MODULE AdministrationProofs -------------------------
(***************************************************************************)
(* Source maps, the metric library, projects with their members, modules   *)
(* with their pages and workflows, the admission periods of a workflow,    *)
(* and the versions of a configuration: each for any number of requests,   *)
(* and source maps for any contents, faults, quota and page.  No property  *)
(* is inductive; the invariants that carry them say what a transaction     *)
(* between two steps can rely on:                                          *)
(*   Holder           what the lock of the project row protects;           *)
(*   Sound, Loose     what an upload knows that has lost the lock;         *)
(*   Kept, Swept      which unlinks are still to come for a file that      *)
(*                    nobody has disturbed;                                *)
(*   Singles          a draft is created only under the project's lock,    *)
(*                    when there is none, and what becomes active          *)
(*                    supersedes what was active;                          *)
(*   HistoryIsSound   what is superseded was sound, because it may become  *)
(*                    active again without being derived again;            *)
(*   ReviewsWereMade  a digest in a score, or on its way into one, was     *)
(*                    computed by review();                                *)
(*   Locks, Creations   the rows and gaps a member's transaction holds, and *)
(*                      the one creation that is under way;                *)
(*   Placed, Waiting    where an object lies while a request that has      *)
(*                      looked at its module waits to commit;              *)
(*   Fitting, Standing  that what is committed, and what is about to be,   *)
(*                      has periods that follow one another and keeps      *)
(*                      admitting the starts it admitted;                  *)
(*   Consecutive        that versions follow one another without a gap.    *)
(***************************************************************************)
EXTENDS MCAdministration, FiniteSetTheorems, SequenceTheorems, WellFoundedInduction, TLAPS

-----------------------------------------------------------------------------
\* Source maps: quota, tombstones and files.

Active(u) == upload[u].pc \in {"locked", "installed", "inserted", "failed", "unlink"}

\* What an upload knows, with the lock or without it: its row, if it found or
\* committed one, is still there with the content it was accepted for.
Sound(u) ==
    LET a == upload[u].artifact
    IN  /\ upload[u].pc # "idle" => a \in Artifacts /\ upload[u].content \in Contents
        /\ upload[u].pc = "unlink" => ~upload[u].existing
        /\ upload[u].pc \notin {"idle", "locked"} => a \notin old
        /\ upload[u].pc # "idle" /\ (upload[u].existing \/ upload[u].pc = "committed") =>
              row[a].state # "none" /\ row[a].content = upload[u].content /\ age[a] # "purgeable"

\* Nobody else is on the way to the file of u.
Alone(u) ==
    LET a == upload[u].artifact
    IN  /\ a \notin removing \cup cleanup.look
        /\ \A v \in Uploads \ {u} : Active(v) => upload[v].artifact # a

\* What the holder of the lock may rely on.
Holder(u) ==
    LET a == upload[u].artifact
    IN  lock = u =>
          /\ Active(u)
          /\ ~upload[u].existing => a \notin Rows /\ Cardinality(Rows) < Quota
          /\ ~upload[u].existing /\ upload[u].pc \in {"installed", "inserted"} /\ a \notin disturbed =>
                file[a] = upload[u].content /\ Alone(u)

\* An upload that has lost the lock and may still touch a file others rely on is known.
Loose(u) ==
    LET a == upload[u].artifact
    IN  /\ lock # u /\ ~upload[u].existing
        /\ upload[u].pc \in {"locked", "installed", "inserted", "unlink"}
        /\ row[a].state = "ready"
        => a \in disturbed

Kept(a) ==
    row[a].state = "ready" /\ a \notin disturbed =>
        file[a] = row[a].content /\ a \notin removing /\ (cleanup.pc = "unlink" => a \notin cleanup.look)

Swept ==
    /\ cleanup.todo \subseteq Dead
    /\ cleanup.pc # "sweep" => cleanup.todo = {}
    /\ \A a, b \in cleanup.look : a = b

AllSound == \A u \in Uploads : Sound(u)

Guarded ==
    /\ QuotaKept /\ Swept
    /\ \A u \in Uploads : Holder(u) /\ Loose(u)
    /\ \A a \in Artifacts : Kept(a)

IInv == TypeOK /\ AllSound /\ Guarded

-----------------------------------------------------------------------------
\* Types.

\* A set of identities that is not empty has a last one.
LEMMA LastOf ==
    ASSUME NEW S \in SUBSET Artifacts, S # {}
    PROVE  (CHOOSE a \in S : \A b \in S : b <= a) \in S
<1> USE StoreAssumption
<1> DEFINE R == OpToRel(<, Nat)
           T == {Count - a : a \in S}
<1> HIDE DEF R
<1>1. T \subseteq Nat /\ T # {}
  <2>1. \A a \in S : Count - a \in Nat
    BY DEF Artifacts
  <2>2. PICK a \in S : TRUE
    OBVIOUS
  <2> QED BY <2>1, <2>2
<1>2. PICK least \in T : \A other \in T : ~ (<<other, least>> \in R)
  <2> HIDE DEF T
  <2> QED BY <1>1, WFMin, NatLessThanWellFounded DEF R
<1>3. PICK a \in S : least = Count - a
  BY <1>2
<1>4. ASSUME NEW b \in S PROVE b <= a
  <2>1. Count - b \in T /\ Count - b \in Nat /\ least \in Nat
    BY <1>1, <1>2
  <2>2. ~ (Count - b < least)
    BY <1>2, <2>1 DEF R, OpToRel
  <2> QED BY <1>3, <2>1, <2>2 DEF Artifacts
<1> QED BY <1>4

LEMMA Sizes == Page \in Nat /\ Page > 0 /\ Count \in Nat /\ Quota \in Nat
<1>1. Page \in Nat \ {0} /\ Count \in Nat /\ Quota \in Nat
  BY ZenonT(20), StoreAssumption
<1> QED BY <1>1

LEMMA ArtifactsFinite == IsFiniteSet(Artifacts)
  BY StoreAssumption, FS_Interval DEF Artifacts

LEMMA GotoType ==
    ASSUME TypeOK, NEW u \in Uploads,
           NEW pc \in {"idle", "locked", "installed", "inserted", "committed", "failed", "unlink"}
    PROVE  [upload EXCEPT ![u].pc = pc] \in [Uploads -> Upload]
<1>1. [upload[u] EXCEPT !.pc = pc] \in Upload
  BY DEF TypeOK, Upload
<1> QED BY <1>1 DEF TypeOK

LEMMA ReturnType ==
    ASSUME TypeOK, NEW u \in Uploads, Return(u)
    PROVE  upload' \in [Uploads -> Upload] /\ lock' \in Uploads \cup {NoOne}
<1>1. IdleUpload \in Upload
  BY DEF IdleUpload, Upload
<1> QED BY <1>1 DEF TypeOK, Return, Release

LEMMA UnlinkedType ==
    ASSUME TypeOK, NEW a \in Artifacts, Unlinked(a)
    PROVE  file' \in [Artifacts -> Contents \cup {None}] /\ old' \subseteq Files'
  BY DEF TypeOK, Unlinked, Files

LEMMA FaultType == ASSUME TypeOK, Fault PROVE faults' \in 0 .. MaxFaults
  BY StoreAssumption DEF TypeOK, Fault

LEMMA UploadType ==
    ASSUME TypeOK, NEW u \in Uploads, Sound(u),
           \/ \E a \in Artifacts, c \in Contents : Begin(u, a, c)
           \/ UploadStep(u) \/ CommitFails(u) \/ LoseConnection(u) \/ CheckOutcomeFails(u)
    PROVE  TypeOK'
<1> USE StoreAssumption
<1>1. ASSUME NEW a \in Artifacts, NEW c \in Contents, Begin(u, a, c) PROVE TypeOK'
  <2>1. [pc |-> "locked", artifact |-> a, content |-> c, existing |-> a \in Rows] \in Upload
    BY DEF Upload
  <2>2. upload' \in [Uploads -> Upload]
    BY <1>1, <2>1 DEF Begin, TypeOK
  <2> QED BY <1>1, <2>2 DEF Begin, TypeOK, Files
<1>2. CASE Install(u)
  <2>1. upload[u].artifact \in Artifacts /\ upload[u].content \in Contents
    BY <1>2 DEF Install, Sound
  <2>2. upload' \in [Uploads -> Upload]
    BY <1>2, GotoType DEF Install, Goto
  <2>3. file' \in [Artifacts -> Contents \cup {None}] /\ old' \subseteq Files'
    BY <1>2, <2>1 DEF Install, TypeOK, Files
  <2>4. disturbed' \subseteq Artifacts
    BY <1>2, <2>1 DEF Install, TypeOK
  <2> QED BY <1>2, <2>2, <2>3, <2>4 DEF Install, TypeOK
<1>3. ASSUME Committed(u), upload[u].pc # "idle"
      PROVE  row' \in [Artifacts -> Row] /\ age' \in [Artifacts -> {"live", "expired", "purgeable"}]
  <2>1. [state |-> "ready", content |-> upload[u].content] \in Row
    BY <1>3 DEF Sound, Row
  <2> QED BY <1>3, <2>1 DEF Committed, TypeOK
<1>4. CASE Insert(u)
  BY <1>4, GotoType DEF Insert, Goto, TypeOK, Files
<1>5. CASE Commit(u)
  <2>1. upload' \in [Uploads -> Upload]
    BY <1>5, GotoType DEF Commit, Goto
  <2> QED BY <1>3, <1>5, <2>1 DEF Commit, TypeOK, Files
<1>6. CASE CommitFails(u)
  <2>1. upload' \in [Uploads -> Upload]
    BY <1>6, GotoType DEF CommitFails, Goto
  <2>2. row' \in [Artifacts -> Row] /\ age' \in [Artifacts -> {"live", "expired", "purgeable"}]
    BY <1>3, <1>6 DEF CommitFails, TypeOK
  <2> QED BY <1>6, <2>1, <2>2, FaultType DEF CommitFails, TypeOK, Files
<1>7. CASE Answer(u)
  BY <1>7, ReturnType DEF Answer, TypeOK, Files
<1>8. CASE Fail(u)
  <2>1. CASE upload[u].pc = "locked"
    <3>1. Return(u)
      BY <1>8, <2>1 DEF Fail
    <3> QED BY <1>8, <3>1, ReturnType DEF Fail, TypeOK, Files
  <2>2. CASE upload[u].pc # "locked"
    <3>1. Goto(u, "failed") /\ UNCHANGED lock
      BY <1>8, <2>2 DEF Fail
    <3> QED BY <1>8, <3>1, GotoType DEF Fail, Goto, TypeOK, Files
  <2> QED BY <2>1, <2>2
<1>9. CASE CheckOutcome(u)
  <2>1. CASE Return(u)
    BY <1>9, <2>1, ReturnType DEF CheckOutcome, TypeOK, Files
  <2>2. CASE Goto(u, "unlink") /\ UNCHANGED lock
    BY <1>9, <2>2, GotoType DEF CheckOutcome, Goto, TypeOK, Files
  <2> QED BY <1>9, <2>1, <2>2 DEF CheckOutcome
<1>10. CASE CheckOutcomeFails(u)
  <2>1. upload' \in [Uploads -> Upload]
    BY <1>10, GotoType DEF CheckOutcomeFails, Goto
  <2>2. disturbed' \subseteq Artifacts
    BY <1>10 DEF CheckOutcomeFails, TypeOK, Rows
  <2> QED BY <1>10, <2>1, <2>2, FaultType DEF CheckOutcomeFails, TypeOK, Files
<1>11. CASE LoseConnection(u)
  BY <1>11, FaultType DEF LoseConnection, TypeOK, Files
<1>12. CASE UnlinkUncommitted(u)
  <2>1. upload[u].artifact \in Artifacts
    BY <1>12 DEF UnlinkUncommitted, Sound
  <2>2. file' \in [Artifacts -> Contents \cup {None}] /\ old' \subseteq Files' /\ faults' \in 0 .. MaxFaults
    BY <1>12, <2>1, UnlinkedType, FaultType DEF UnlinkUncommitted, TypeOK, Files
  <2> QED BY <1>12, <2>2, ReturnType DEF UnlinkUncommitted, TypeOK
<1> QED BY <1>1, <1>2, <1>4, <1>5, <1>6, <1>7, <1>8, <1>9, <1>10, <1>11, <1>12 DEF UploadStep

LEMMA IdentityType ==
    ASSUME TypeOK, NEW a \in Artifacts,
           Remove(a) \/ UnlinkRemoved(a) \/ Expire(a) \/ Retire(a) \/ GrowOld(a)
    PROVE  TypeOK'
<1>1. CASE Remove(a)
  <2>1. [row[a] EXCEPT !.state = "deleted"] \in Row
    BY DEF TypeOK, Row
  <2>2. row' \in [Artifacts -> Row]
    BY <1>1, <2>1 DEF Remove, TypeOK
  <2> QED BY <1>1, <2>2 DEF Remove, TypeOK, Files
<1>2. CASE UnlinkRemoved(a)
  <2>1. file' \in [Artifacts -> Contents \cup {None}] /\ old' \subseteq Files' /\ faults' \in 0 .. MaxFaults
    BY <1>2, UnlinkedType, FaultType DEF UnlinkRemoved, TypeOK, Files
  <2> QED BY <1>2, <2>1 DEF UnlinkRemoved, TypeOK
<1>3. CASE Expire(a) \/ Retire(a)
  BY <1>3 DEF Expire, Retire, TypeOK, Files
<1>4. CASE GrowOld(a)
  BY <1>4 DEF GrowOld, TypeOK, Files
<1> QED BY <1>1, <1>2, <1>3, <1>4

LEMMA PageType ==
    ASSUME TypeOK, NEW S \in SUBSET Artifacts, NEW cursor \in 0 .. Count
    PROVE  PageOf(S, cursor) \subseteq S /\ NextCursor(PageOf(S, cursor), cursor) \in 0 .. Count
<1> USE StoreAssumption
<1>1. PageOf(S, cursor) \subseteq S
  BY DEF PageOf
<1>2. ASSUME Cardinality(PageOf(S, cursor)) = Page
      PROVE  NextCursor(PageOf(S, cursor), cursor) \in 0 .. Count
  <2>1. PageOf(S, cursor) # {}
    BY <1>2, FS_EmptySet, Sizes
  <2> DEFINE page == PageOf(S, cursor)
            last == CHOOSE a \in page : \A b \in page : b <= a
  <2>2. NextCursor(page, cursor) = last
    BY <1>2 DEF NextCursor
  <2>3. page \in SUBSET Artifacts /\ page # {}
    BY <1>1, <2>1
  <2>4. last \in page
    <3> HIDE DEF page
    <3> QED BY <2>3, LastOf
  <2>5. last \in 0 .. Count
    <3> HIDE DEF last, page
    <3> QED BY <2>3, <2>4, Sizes DEF Artifacts
  <2> HIDE DEF last
  <2> QED BY <2>2, <2>5
<1> QED BY <1>1, <1>2 DEF NextCursor

LEMMA CleanupType ==
    ASSUME TypeOK, CleanupStep \/ AbortCleanup
    PROVE  TypeOK'
<1> USE StoreAssumption
<1>1. CASE StartCleanup
  <2>1. \A a \in Artifacts : [row[a] EXCEPT !.state = "expired"] \in Row
    BY DEF TypeOK, Row
  <2>2. row' \in [Artifacts -> Row]
    BY <1>1, <2>1 DEF StartCleanup, TypeOK
  <2> DEFINE page == PageOf(Dead', cleanup.cursor)
  <2>3. page \subseteq Artifacts /\ NextCursor(page, cleanup.cursor) \in 0 .. Count
    <3>1. Dead' \in SUBSET Artifacts /\ cleanup.cursor \in 0 .. Count
      BY DEF Dead, TypeOK, Cleanup
    <3> QED BY <3>1, PageType
  <2>4. cleanup' = [cleanup EXCEPT !.pc = "sweep", !.todo = page, !.cursor = NextCursor(page, cleanup.cursor)]
    BY <1>1 DEF StartCleanup
  <2> HIDE DEF page
  <2>5. cleanup' \in Cleanup
    BY <2>3, <2>4 DEF TypeOK, Cleanup
  <2> QED BY <1>1, <2>2, <2>5 DEF StartCleanup, TypeOK, Files
<1>2. ASSUME NEW a \in Artifacts, SweepUnlink(a) PROVE TypeOK'
  <2>1. file' \in [Artifacts -> Contents \cup {None}] /\ old' \subseteq Files'
    BY <1>2, UnlinkedType DEF SweepUnlink
  <2>2. cleanup' \in Cleanup
    BY <1>2 DEF SweepUnlink, TypeOK, Cleanup
  <2> QED BY <1>2, <2>1, <2>2 DEF SweepUnlink, TypeOK
<1>3. CASE StartWalk
  <2>1. cleanup' \in Cleanup
    BY <1>3 DEF StartWalk, TypeOK, Cleanup, Files
  <2> QED BY <1>3, <2>1 DEF StartWalk, TypeOK, Files
<1>4. ASSUME NEW a \in Artifacts, WalkNext(a) PROVE TypeOK'
  <2>1. cleanup \in Cleanup /\ cleanup.seen + 1 \in 0 .. Page
    BY <1>4, Sizes DEF WalkNext, TypeOK, Cleanup
  <2> DEFINE found == a \in old
  <2>2. cleanup' = [cleanup EXCEPT !.directory = @ \ {a}, !.seen = cleanup.seen + 1,
                                  !.pc = IF found THEN "select" ELSE "walk",
                                  !.look = IF found THEN {a} ELSE {}]
    BY <1>4 DEF WalkNext
  <2> HIDE DEF found
  <2>3. cleanup' \in Cleanup
    BY <2>1, <2>2 DEF Cleanup
  <2> QED BY <1>4, <2>3 DEF WalkNext, TypeOK, Files
<1>5. CASE WalkSelect
  <2>1. cleanup' \in Cleanup
    BY <1>5 DEF WalkSelect, TypeOK, Cleanup
  <2> QED BY <1>5, <2>1 DEF WalkSelect, TypeOK, Files
<1>6. CASE WalkUnlink
  <2>1. PICK a \in cleanup.look : Unlinked(a)
    BY <1>6 DEF WalkUnlink
  <2>2. a \in Artifacts
    BY <2>1 DEF TypeOK, Cleanup
  <2>3. cleanup' \in Cleanup
    BY <1>6 DEF WalkUnlink, TypeOK, Cleanup
  <2> QED BY <1>6, <2>1, <2>2, <2>3, UnlinkedType DEF WalkUnlink, TypeOK
<1>7. CASE EndWalk
  <2>1. cleanup \in Cleanup /\ 0 \in 0 .. Page
    BY Sizes DEF TypeOK
  <2>2. PICK more \in BOOLEAN : cleanup' = [cleanup EXCEPT !.pc = "purge", !.open = more, !.seen = 0]
    BY <1>7 DEF EndWalk
  <2>3. cleanup' \in Cleanup
    BY <2>1, <2>2 DEF Cleanup
  <2> QED BY <1>7, <2>3 DEF EndWalk, TypeOK, Files
<1>8. CASE Purge
  <2>1. row' \in [Artifacts -> Row] /\ age' \in [Artifacts -> {"live", "expired", "purgeable"}]
    BY <1>8 DEF Purge, TypeOK, NoRow, Row
  <2>2. cleanup' \in Cleanup
    BY <1>8 DEF Purge, TypeOK, Cleanup
  <2> QED BY <1>8, <2>1, <2>2 DEF Purge, TypeOK, Files
<1>9. CASE AbortCleanup
  <2>1. cleanup' \in Cleanup
    <3>1. cleanup \in Cleanup /\ 0 \in 0 .. Page
      BY Sizes DEF TypeOK
    <3> QED BY <1>9, <3>1 DEF AbortCleanup, Cleanup
  <2> QED BY <1>9, <2>1, FaultType DEF AbortCleanup, TypeOK, Files
<1> QED BY <1>1, <1>2, <1>3, <1>4, <1>5, <1>6, <1>7, <1>8, <1>9 DEF CleanupStep

LEMMA CrashType == ASSUME TypeOK, Crash PROVE TypeOK'
<1> USE StoreAssumption
<1>1. IdleUpload \in Upload /\ NewCleanup \in Cleanup
  BY DEF IdleUpload, NewCleanup, Upload, Cleanup
<1> QED BY <1>1, FaultType DEF Crash, TypeOK, Files

LEMMA TypeStep == ASSUME TypeOK, AllSound, [Next]_vars PROVE TypeOK'
<1>1. CASE UNCHANGED vars
  BY <1>1 DEF vars, TypeOK, Files
<1> QED BY <1>1, UploadType, IdentityType, CleanupType, CrashType DEF Next, AllSound

-----------------------------------------------------------------------------
\* What uploads know.

\* Sound(v) looks only at v's own upload, its row, its age and whether its file is old.
LEMMA SoundKept ==
    ASSUME NEW v, Sound(v), upload'[v] = upload[v],
           upload[v].pc # "idle" =>
              LET a == upload[v].artifact
              IN  /\ a \in old' => a \in old \/ upload[v].pc = "locked"
                  /\ row[a].state # "none" /\ age[a] # "purgeable" =>
                        row'[a].state # "none" /\ row'[a].content = row[a].content /\ age'[a] # "purgeable"
    PROVE  Sound(v)'
  BY DEF Sound

\* A new state of u alone leaves the others as they are.
LEMMA OthersSound ==
    ASSUME TypeOK, AllSound, NEW u \in Uploads, UNCHANGED <<row, age>>, old' \subseteq old,
           \A v \in Uploads \ {u} : upload'[v] = upload[v]
    PROVE  \A v \in Uploads \ {u} : Sound(v)'
<1> SUFFICES ASSUME NEW v \in Uploads \ {u} PROVE Sound(v)'
  OBVIOUS
<1>1. Sound(v)
  BY DEF AllSound
<1> QED BY <1>1, SoundKept

LEMMA GotoOthers ==
    ASSUME TypeOK, NEW u \in Uploads, NEW pc, Goto(u, pc) \/ Return(u)
    PROVE  \A v \in Uploads \ {u} : upload'[v] = upload[v]
  BY DEF TypeOK, Goto, Return

LEMMA GotoSelf ==
    ASSUME TypeOK, NEW u \in Uploads, NEW pc, Goto(u, pc)
    PROVE  /\ upload'[u].pc = pc
           /\ upload'[u].artifact = upload[u].artifact
           /\ upload'[u].content = upload[u].content
           /\ upload'[u].existing = upload[u].existing
  BY DEF TypeOK, Goto, Upload

LEMMA ReturnSelf ==
    ASSUME TypeOK, NEW u \in Uploads, Return(u)
    PROVE  upload'[u].pc = "idle" /\ upload'[u].existing = FALSE /\ lock' # u
<1>1. NoOne # u
  BY ZenonT(20), StoreAssumption
<1> QED BY <1>1 DEF TypeOK, Return, Release, IdleUpload

\* What the commit of u does to the rows, if it takes effect.
LEMMA CommittedRows ==
    ASSUME TypeOK, NEW u \in Uploads, Sound(u), upload[u].pc # "idle", Committed(u)
    PROVE  \/ upload[u].existing /\ UNCHANGED <<row, age>>
           \/ /\ ~upload[u].existing
              /\ row' = [row EXCEPT ![upload[u].artifact] = [state |-> "ready", content |-> upload[u].content]]
              /\ age' = [age EXCEPT ![upload[u].artifact] = "live"]
              /\ row'[upload[u].artifact].state = "ready" /\ row'[upload[u].artifact].content = upload[u].content
              /\ age'[upload[u].artifact] = "live"
  BY DEF Committed, TypeOK, Sound

\* A commit, reported or not, or a failed one.
Ends(u) ==
    /\ lock = u /\ upload[u].pc = "inserted" /\ lock' = NoOne
    /\ \/ Goto(u, "committed") /\ Committed(u)
       \/ Goto(u, "failed") /\ (Committed(u) \/ UNCHANGED <<row, age>>)
    /\ UNCHANGED <<file, old, removing, cleanup, disturbed>>

LEMMA CommitEnds == ASSUME NEW u, Commit(u) \/ CommitFails(u) PROVE Ends(u)
  BY DEF Commit, CommitFails, Ends

LEMMA CommitSound ==
    ASSUME TypeOK, AllSound, NEW u \in Uploads, Holder(u), Ends(u)
    PROVE  AllSound'
<1> DEFINE a == upload[u].artifact
<1>1. Sound(u) /\ lock = u /\ upload[u].pc = "inserted" /\ old' = old
  BY DEF AllSound, Ends
<1>2. PICK pc \in {"committed", "failed"} : Goto(u, pc)
  BY DEF Ends
<1>3. \/ UNCHANGED <<row, age>>
      \/ /\ ~upload[u].existing
         /\ row' = [row EXCEPT ![a] = [state |-> "ready", content |-> upload[u].content]]
         /\ age' = [age EXCEPT ![a] = "live"]
  BY <1>1, CommittedRows DEF Ends
<1>4. ~upload[u].existing => row[a].state = "none"
  BY <1>1 DEF Holder, Rows, Sound
<1>5. Sound(u)'
  <2>1. ASSUME Committed(u)
        PROVE  row'[a].state # "none" /\ row'[a].content = upload[u].content /\ age'[a] # "purgeable"
    <3>1. CASE upload[u].existing /\ UNCHANGED <<row, age>>
      BY <1>1, <3>1 DEF Sound
    <3>2. CASE row'[a].state = "ready" /\ row'[a].content = upload[u].content /\ age'[a] = "live"
      BY <3>2
    <3> QED BY <1>1, <2>1, <3>1, <3>2, CommittedRows
  <2>2. /\ upload'[u].pc = pc /\ upload'[u].artifact = a
        /\ upload'[u].content = upload[u].content /\ upload'[u].existing = upload[u].existing
    BY <1>2, GotoSelf
  <2>3. pc = "committed" => Committed(u)
    <3>1. CASE Goto(u, "committed") /\ Committed(u)
      BY <3>1
    <3>2. CASE Goto(u, "failed")
      BY <2>2, <3>2, GotoSelf
    <3> QED BY <3>1, <3>2, <1>1 DEF Ends
  <2>4. Committed(u) \/ UNCHANGED <<row, age>>
    BY DEF Ends
  <2>5. a \in Artifacts /\ upload[u].content \in Contents /\ a \notin old
    BY <1>1 DEF Sound
  <2> HIDE DEF a
  <2>6. upload[u].existing => row'[a].state # "none" /\ row'[a].content = upload[u].content /\ age'[a] # "purgeable"
    <3>1. CASE UNCHANGED <<row, age>>
      BY <1>1, <3>1 DEF Sound, a
    <3> QED BY <2>1, <2>4, <3>1
  <2> QED BY <1>1, <1>2, <2>1, <2>2, <2>3, <2>5, <2>6 DEF Sound
<1>6. ASSUME NEW v \in Uploads \ {u} PROVE Sound(v)'
  <2>1. Sound(v) /\ upload'[v] = upload[v]
    BY <1>2, GotoOthers DEF AllSound
  <2>2. \A b \in Artifacts \ {a} : row'[b] = row[b] /\ age'[b] = age[b]
    BY <1>3 DEF TypeOK
  <2>3. row[a].state # "none" => row'[a] = row[a] /\ age'[a] = age[a]
    BY <1>3, <1>4
  <2>4. upload[v].pc # "idle" => upload[v].artifact \in Artifacts
    BY <2>1 DEF Sound
  <2> QED BY <1>1, <2>1, <2>2, <2>3, <2>4, SoundKept
<1> QED BY <1>5, <1>6 DEF AllSound

LEMMA UploadSound ==
    ASSUME TypeOK, AllSound, NEW u \in Uploads, Holder(u),
           \/ \E a \in Artifacts, c \in Contents : Begin(u, a, c)
           \/ UploadStep(u) \/ CommitFails(u) \/ LoseConnection(u) \/ CheckOutcomeFails(u)
    PROVE  AllSound'
<1>0. Sound(u)
  BY DEF AllSound
<1>1. ASSUME NEW a \in Artifacts, NEW c \in Contents, Begin(u, a, c) PROVE AllSound'
  <2>1. upload'[u] = [pc |-> "locked", artifact |-> a, content |-> c, existing |-> a \in Rows]
    BY <1>1 DEF Begin, TypeOK
  <2>2. a \in Rows => row[a].state # "none" /\ row[a].content = c /\ age[a] # "purgeable"
    BY <1>1 DEF Begin, Acceptable, Rows
  <2>3. Sound(u)'
    <3>1. /\ upload'[u].pc = "locked" /\ upload'[u].artifact = a /\ upload'[u].content = c
          /\ upload'[u].existing = (a \in Rows)
      BY <2>1
    <3>2. UNCHANGED <<row, age>>
      BY <1>1 DEF Begin
    <3> QED BY <2>2, <3>1, <3>2 DEF Sound
  <2>4. \A v \in Uploads \ {u} : upload'[v] = upload[v]
    BY <1>1 DEF Begin, TypeOK
  <2> QED BY <1>1, <2>3, <2>4, OthersSound DEF Begin, AllSound
<1>2. CASE Install(u)
  <2>1. Goto(u, "installed") /\ UNCHANGED <<row, age>> /\ old' = old \ {upload[u].artifact} /\ upload[u].pc = "locked"
    BY <1>2 DEF Install
  <2>2. Sound(u)'
    BY <1>0, <2>1, GotoSelf DEF Sound
  <2> QED BY <2>1, <2>2, OthersSound, GotoOthers DEF AllSound
<1>3. CASE Commit(u) \/ CommitFails(u)
  BY <1>3, CommitEnds, CommitSound
<1>4. CASE Insert(u)
  <2>1. Goto(u, "inserted") /\ UNCHANGED <<row, age, old>> /\ upload[u].pc = "installed"
    BY <1>4 DEF Insert
  <2>2. Sound(u)'
    BY <1>0, <2>1, GotoSelf DEF Sound
  <2> QED BY <2>1, <2>2, OthersSound, GotoOthers DEF AllSound
<1>5. ASSUME Return(u), UNCHANGED <<row, age>>, old' \subseteq old PROVE AllSound'
  <2>1. Sound(u)'
    BY <1>5, ReturnSelf DEF Sound
  <2> QED BY <1>5, <2>1, OthersSound, GotoOthers DEF AllSound
<1>6. CASE Answer(u)
  BY <1>5, <1>6 DEF Answer
<1>7. CASE UnlinkUncommitted(u)
  BY <1>5, <1>7 DEF UnlinkUncommitted, Unlinked
<1>8. ASSUME Goto(u, "failed"), upload[u].pc \notin {"idle", "locked"}, UNCHANGED <<row, age, old>> PROVE AllSound'
  <2>1. Sound(u)'
    BY <1>0, <1>8, GotoSelf DEF Sound
  <2> QED BY <1>8, <2>1, OthersSound, GotoOthers DEF AllSound
<1>9. CASE Fail(u)
  BY <1>5, <1>8, <1>9 DEF Fail
<1>10. ASSUME Goto(u, "unlink"), upload[u].pc = "failed", ~upload[u].existing, UNCHANGED <<row, age, old>>
       PROVE AllSound'
  <2>1. Sound(u)'
    BY <1>0, <1>10, GotoSelf DEF Sound
  <2> QED BY <1>10, <2>1, OthersSound, GotoOthers DEF AllSound
<1>11. CASE CheckOutcome(u)
  BY <1>5, <1>10, <1>11 DEF CheckOutcome
<1>12. CASE CheckOutcomeFails(u)
  BY <1>10, <1>12 DEF CheckOutcomeFails
<1>13. CASE LoseConnection(u)
  BY <1>13 DEF LoseConnection, AllSound, Sound
<1> QED BY <1>1, <1>2, <1>3, <1>4, <1>6, <1>7, <1>9, <1>11, <1>12, <1>13 DEF UploadStep

LEMMA IdentitySound ==
    ASSUME TypeOK, AllSound, NEW a \in Artifacts,
           Remove(a) \/ UnlinkRemoved(a) \/ Expire(a) \/ Retire(a) \/ GrowOld(a)
    PROVE  AllSound'
<1> SUFFICES ASSUME NEW v \in Uploads PROVE Sound(v)'
  BY DEF AllSound
<1>1. Sound(v)
  BY DEF AllSound
<1>2. CASE Remove(a)
  BY <1>1, <1>2, SoundKept DEF Remove, TypeOK, Sound, Row
<1>3. CASE UnlinkRemoved(a)
  BY <1>1, <1>3, SoundKept DEF UnlinkRemoved, Unlinked
<1>4. CASE Expire(a)
  BY <1>1, <1>4, SoundKept DEF Expire, TypeOK
<1>5. CASE Retire(a)
  BY <1>1, <1>5, SoundKept DEF Retire, Busy, TypeOK
<1>6. CASE GrowOld(a)
  BY <1>1, <1>6, SoundKept DEF GrowOld
<1> QED BY <1>2, <1>3, <1>4, <1>5, <1>6

LEMMA CleanupSound ==
    ASSUME TypeOK, AllSound, CleanupStep \/ AbortCleanup
    PROVE  AllSound'
<1> SUFFICES ASSUME NEW v \in Uploads PROVE Sound(v)'
  BY DEF AllSound
<1>1. Sound(v) /\ (upload[v].pc # "idle" => upload[v].artifact \in Artifacts)
  BY DEF AllSound, Sound
<1>2. CASE StartCleanup
  <2>1. \A a \in Artifacts : row[a].state # "none" => row'[a].state # "none" /\ row'[a].content = row[a].content
    BY <1>2 DEF StartCleanup, TypeOK, Row
  <2> QED BY <1>1, <1>2, <2>1, SoundKept DEF StartCleanup
<1>3. CASE Purge
  <2>1. \A a \in Artifacts : age[a] # "purgeable" => row'[a] = row[a] /\ age'[a] = age[a]
    BY <1>3 DEF Purge
  <2> QED BY <1>1, <1>3, <2>1, SoundKept DEF Purge
<1>4. ASSUME UNCHANGED <<row, age, upload>>, old' \subseteq old PROVE Sound(v)'
  BY <1>1, <1>4, SoundKept
<1>5. ASSUME NEW a \in Artifacts, SweepUnlink(a) \/ WalkNext(a) PROVE Sound(v)'
  BY <1>4, <1>5 DEF SweepUnlink, WalkNext, Unlinked
<1>6. CASE StartWalk \/ WalkSelect \/ WalkUnlink \/ EndWalk \/ AbortCleanup
  BY <1>4, <1>6 DEF StartWalk, WalkSelect, WalkUnlink, EndWalk, AbortCleanup, Unlinked
<1> QED BY <1>2, <1>3, <1>5, <1>6 DEF CleanupStep

LEMMA SoundStep ==
    ASSUME TypeOK, AllSound, \A u \in Uploads : Holder(u), [Next]_vars
    PROVE  AllSound'
<1>1. CASE UNCHANGED vars
  BY <1>1 DEF vars, AllSound, Sound
<1>2. CASE Crash
  BY <1>2 DEF Crash, AllSound, Sound, IdleUpload
<1> QED BY <1>1, <1>2, UploadSound, IdentitySound, CleanupSound DEF Next

-----------------------------------------------------------------------------
\* What the lock protects.

LEMMA NobodyIsOne == NoOne \notin Uploads
  BY ZenonT(20), StoreAssumption

LEMMA FewerRows ==
    ASSUME NEW R \in SUBSET Artifacts, NEW S \in SUBSET R
    PROVE  Cardinality(S) \in Nat /\ Cardinality(R) \in Nat /\ Cardinality(S) <= Cardinality(R)
  BY ArtifactsFinite, FS_Subset, FS_CardinalityType

\* A step that leaves rows, files and the two walks alone leaves the files kept.
LEMMA FilesKept ==
    ASSUME Guarded, UNCHANGED <<row, file, removing, cleanup>>, disturbed \subseteq disturbed'
    PROVE  QuotaKept' /\ Swept' /\ \A a \in Artifacts : Kept(a)'
<1>1. Rows' = Rows /\ Dead' = Dead
  BY DEF Rows, Dead
<1> QED BY <1>1 DEF Guarded, QuotaKept, Swept, Kept

\* An upload that does not step keeps what it relies on while rows and files
\* stay, unless another one gets active on its file.
LEMMA OtherHolds ==
    ASSUME NEW v \in Uploads, Holder(v), Loose(v), upload'[v] = upload[v],
           UNCHANGED <<row, file, removing, cleanup>>, disturbed \subseteq disturbed',
           lock' = v <=> lock = v,
           lock = v /\ ~upload[v].existing /\ Alone(v) => Alone(v)'
    PROVE  Holder(v)' /\ Loose(v)'
<1>1. Rows' = Rows
  BY DEF Rows
<1>2. Holder(v)'
  BY <1>1 DEF Holder, Active
<1>3. Loose(v)'
  BY DEF Loose
<1> QED BY <1>2, <1>3

\* The others are as alone as before when u stays on its file or leaves it.
LEMMA AloneKept ==
    ASSUME NEW u \in Uploads, NEW v \in Uploads \ {u}, Alone(v),
           \A w \in Uploads \ {u} : upload'[w] = upload[w],
           removing' \subseteq removing, cleanup'.look \subseteq cleanup.look,
           Active(u)' => upload'[u].artifact = upload[u].artifact /\ (Active(u) \/ upload[v].artifact # upload[u].artifact)
    PROVE  Alone(v)'
  BY DEF Alone, Active

\* A step of u that changes rows and files in nothing but the upload of u.
LEMMA OthersHold ==
    ASSUME TypeOK, AllSound, Guarded, NEW u \in Uploads, NEW pc, Goto(u, pc) \/ Return(u),
           UNCHANGED <<row, file, removing, cleanup>>, disturbed \subseteq disturbed',
           \A v \in Uploads \ {u} : lock' = v <=> lock = v,
           Active(u)' => Active(u) \/ upload[u].artifact \in Rows
    PROVE  \A v \in Uploads \ {u} : Holder(v)' /\ Loose(v)'
<1> SUFFICES ASSUME NEW v \in Uploads \ {u} PROVE Holder(v)' /\ Loose(v)'
  OBVIOUS
<1>1. \A w \in Uploads \ {u} : upload'[w] = upload[w]
  BY GotoOthers
<1>2. Active(u)' => upload'[u].artifact = upload[u].artifact
  BY GotoSelf, ReturnSelf DEF Active
<1>3. Holder(v) /\ Loose(v)
  BY DEF Guarded
<1>4. lock = v /\ ~upload[v].existing /\ Alone(v) => Alone(v)'
  <2>1. lock = v /\ ~upload[v].existing => upload[v].artifact \notin Rows
    BY <1>3 DEF Holder
  <2> QED BY <1>1, <1>2, <2>1, AloneKept
<1> QED BY <1>1, <1>3, <1>4, OtherHolds

LEMMA ReturnHolds ==
    ASSUME TypeOK, AllSound, Guarded, NEW u \in Uploads, Return(u),
           UNCHANGED <<row, file, removing, cleanup, disturbed>>
    PROVE  Guarded'
<1>1. upload'[u].pc = "idle" /\ lock' # u /\ ~Active(u)'
  BY ReturnSelf DEF Active
<1>2. Holder(u)' /\ Loose(u)'
  BY <1>1 DEF Holder, Loose
<1>3. \A v \in Uploads \ {u} : lock' = v <=> lock = v
  BY NobodyIsOne DEF Return, Release
<1>4. \A v \in Uploads \ {u} : Holder(v)' /\ Loose(v)'
  BY <1>1, <1>3, OthersHold
<1>5. QuotaKept' /\ Swept' /\ \A a \in Artifacts : Kept(a)'
  BY FilesKept
<1> QED BY <1>2, <1>4, <1>5 DEF Guarded

LEMMA BeginHolds ==
    ASSUME TypeOK, AllSound, Guarded, NEW u \in Uploads, NEW a \in Artifacts, NEW c \in Contents, Begin(u, a, c)
    PROVE  Guarded'
<1>1. UNCHANGED <<row, file, removing, cleanup, disturbed>> /\ lock = NoOne /\ lock' = u
  BY DEF Begin
<1>2. /\ upload'[u].pc = "locked" /\ upload'[u].artifact = a
      /\ upload'[u].existing = (a \in Rows)
  BY DEF Begin, TypeOK
<1>3. a \notin Rows => Cardinality(Rows) < Quota
  BY DEF Begin, Acceptable, Rows
<1>4. Rows' = Rows
  BY <1>1 DEF Rows
<1>5. Holder(u)' /\ Loose(u)'
  BY <1>1, <1>2, <1>3, <1>4 DEF Holder, Loose, Active
<1>6. ASSUME NEW v \in Uploads \ {u} PROVE Holder(v)' /\ Loose(v)'
  <2>1. upload'[v] = upload[v] /\ lock # v /\ lock' # v
    BY <1>1, NobodyIsOne DEF Begin, TypeOK
  <2>2. Holder(v) /\ Loose(v)
    BY DEF Guarded
  <2> QED BY <1>1, <2>1, <2>2, OtherHolds
<1>7. QuotaKept' /\ Swept' /\ \A b \in Artifacts : Kept(b)'
  BY <1>1, FilesKept
<1> QED BY <1>5, <1>6, <1>7 DEF Guarded

LEMMA InsertHolds ==
    ASSUME TypeOK, AllSound, Guarded, NEW u \in Uploads, Insert(u)
    PROVE  Guarded'
<1>1. /\ UNCHANGED <<row, file, removing, cleanup, disturbed, lock>> /\ lock = u
      /\ upload[u].pc = "installed" /\ Goto(u, "inserted")
  BY DEF Insert
<1>2. /\ upload'[u].pc = "inserted" /\ upload'[u].artifact = upload[u].artifact
      /\ upload'[u].content = upload[u].content /\ upload'[u].existing = upload[u].existing
  BY <1>1, GotoSelf
<1>3. Active(u)
  BY <1>1 DEF Active
<1>4. \A v \in Uploads \ {u} : Holder(v)' /\ Loose(v)'
  BY <1>1, <1>3, OthersHold
<1>5. Holder(u)' /\ Loose(u)'
  <2>1. Holder(u) /\ Rows' = Rows
    BY <1>1 DEF Guarded, Rows
  <2>2. Alone(u) => Alone(u)'
    <3>1. \A w \in Uploads \ {u} : upload'[w] = upload[w]
      BY <1>1, GotoOthers
    <3> QED BY <1>1, <1>2, <3>1 DEF Alone, Active
  <2> QED BY <1>1, <1>2, <2>1, <2>2 DEF Holder, Loose, Active
<1>6. QuotaKept' /\ Swept' /\ \A b \in Artifacts : Kept(b)'
  BY <1>1, FilesKept
<1> QED BY <1>4, <1>5, <1>6 DEF Guarded

\* A file is installed over one that others rely on only when its content is
\* theirs, or the identity becomes a disturbed one.
LEMMA InstallHolds ==
    ASSUME TypeOK, AllSound, Guarded, NEW u \in Uploads, Install(u)
    PROVE  Guarded'
<1> DEFINE a == upload[u].artifact
<1>1. /\ upload[u].pc = "locked" /\ Goto(u, "installed") /\ UNCHANGED <<row, lock, removing, cleanup>>
      /\ disturbed' = IF Threatened(u, a) THEN disturbed \cup {a}
                      ELSE IF lock = u THEN disturbed \ {a} ELSE disturbed
  BY DEF Install
<1>2. /\ upload'[u].pc = "installed" /\ upload'[u].artifact = a
      /\ upload'[u].content = upload[u].content /\ upload'[u].existing = upload[u].existing
  BY <1>1, GotoSelf
<1>3. \A v \in Uploads \ {u} : upload'[v] = upload[v]
  BY <1>1, GotoOthers
<1>4. Rows' = Rows /\ Dead' = Dead
  BY <1>1 DEF Rows, Dead
<1>5. Sound(u) /\ Holder(u) /\ Loose(u) /\ a \in Artifacts
  BY <1>1 DEF AllSound, Guarded, Sound
<1>6. file'[a] = upload[u].content /\ \A b \in Artifacts \ {a} : file'[b] = file[b]
  BY <1>5 DEF Install, TypeOK
<1>7. QuotaKept' /\ Swept'
  BY <1>1, <1>4 DEF Guarded, QuotaKept, Swept
<1>8. ~Threatened(u, a) =>
         a \notin removing \cup cleanup.look /\ \A v \in Uploads \ {u} : Active(v) => upload[v].artifact # a
  BY DEF Threatened, Active
<1>9. Threatened(u, a) => a \in disturbed'
  BY <1>1
<1>10. \A b \in Artifacts \ {a} : b \in disturbed' <=> b \in disturbed
  BY <1>1
<1> HIDE DEF a
<1>11. Holder(u)'
  BY <1>1, <1>2, <1>3, <1>4, <1>5, <1>6, <1>8, <1>9 DEF Holder, Alone, Active, a
<1>12. Loose(u)'
  BY <1>1, <1>2, <1>5 DEF Loose, a
<1>13. ASSUME NEW v \in Uploads \ {u} PROVE Holder(v)' /\ Loose(v)'
  <2>1. Holder(v) /\ Loose(v) /\ Sound(v) /\ upload'[v] = upload[v]
    BY <1>3 DEF AllSound, Guarded
  <2>2. upload[v].pc # "idle" => upload[v].artifact \in Artifacts
    BY <2>1 DEF Sound
  <2>3. Active(v) /\ upload[v].artifact = a => a \in disturbed'
    BY <1>8, <1>9
  <2>4. Alone(v) => Alone(v)'
    BY <1>1, <1>2, <1>3, AloneKept DEF Active, a
  <2>5. Holder(v)'
    BY <1>1, <1>4, <1>6, <1>10, <2>1, <2>2, <2>3, <2>4 DEF Holder, Active
  <2>6. Loose(v)'
    BY <1>1, <1>10, <2>1, <2>2, <2>3 DEF Loose, Active
  <2> QED BY <2>5, <2>6
<1>14. ASSUME NEW b \in Artifacts PROVE Kept(b)'
  <2>1. Kept(b)
    BY DEF Guarded
  <2>2. CASE b # a
    BY <1>1, <1>6, <1>10, <2>1, <2>2 DEF Kept
  <2>3. CASE b = a /\ row[a].state = "ready" /\ a \notin disturbed'
    <3>1. upload[u].existing
      BY <1>1, <1>5, <2>3 DEF Holder, Loose, Rows, a
    <3>2. row[a].content = upload[u].content
      BY <1>1, <1>5, <3>1 DEF Sound, a
    <3> QED BY <1>1, <1>6, <1>8, <1>9, <2>3, <3>2 DEF Kept
  <2> QED BY <1>1, <2>2, <2>3 DEF Kept
<1> QED BY <1>7, <1>11, <1>12, <1>13, <1>14 DEF Guarded

\* A new row has the file of its upload, and nobody is on the way to it.
LEMMA EndsHolds ==
    ASSUME TypeOK, AllSound, Guarded, NEW u \in Uploads, Ends(u)
    PROVE  Guarded'
<1> DEFINE a == upload[u].artifact
<1>1. lock = u /\ upload[u].pc = "inserted" /\ lock' = NoOne /\ UNCHANGED <<file, old, removing, cleanup, disturbed>>
  BY DEF Ends
<1>2. PICK pc \in {"committed", "failed"} : Goto(u, pc)
  BY DEF Ends
<1>3. upload'[u].pc \in {"committed", "failed"} /\ \A v \in Uploads \ {u} : upload'[v] = upload[v]
  BY <1>2, GotoSelf, GotoOthers
<1>4. Sound(u) /\ Holder(u) /\ a \in Artifacts
  BY <1>1 DEF AllSound, Guarded, Sound
<1>5. \/ UNCHANGED row
      \/ /\ ~upload[u].existing
         /\ row' = [row EXCEPT ![a] = [state |-> "ready", content |-> upload[u].content]]
  BY <1>1, <1>4, CommittedRows DEF Ends
<1>6. \A v \in Uploads : Holder(v)'
  BY <1>1, NobodyIsOne DEF Holder
<1>7. CASE UNCHANGED row
  <2>1. QuotaKept' /\ Swept' /\ \A b \in Artifacts : Kept(b)'
    BY <1>1, <1>7, FilesKept
  <2>2. ASSUME NEW v \in Uploads PROVE Loose(v)'
    <3>1. Loose(v)
      BY DEF Guarded
    <3> QED BY <1>1, <1>3, <1>7, <3>1 DEF Loose
  <2> QED BY <1>6, <2>1, <2>2 DEF Guarded
<1>8. CASE /\ ~upload[u].existing
           /\ row' = [row EXCEPT ![a] = [state |-> "ready", content |-> upload[u].content]]
  <2> HIDE DEF a
  <2>1. row'[a].state = "ready" /\ row'[a].content = upload[u].content /\ \A b \in Artifacts \ {a} : row'[b] = row[b]
    BY <1>4, <1>8 DEF TypeOK
  <2>2. a \notin Rows /\ Cardinality(Rows) < Quota
    BY <1>1, <1>4, <1>8 DEF Holder, a
  <2>3. a \notin disturbed => file[a] = upload[u].content /\ Alone(u)
    BY <1>1, <1>4, <1>8 DEF Holder, a
  <2>4. Rows' = Rows \cup {a}
    BY <1>4, <2>1 DEF Rows
  <2>5. Dead \subseteq Dead'
    BY <2>1, <2>2 DEF Rows, Dead
  <2>6. QuotaKept'
    <3>1. Rows \in SUBSET Artifacts
      BY DEF Rows
    <3>2. IsFiniteSet(Rows)
      BY <3>1, ArtifactsFinite, FS_Subset
    <3>3. Cardinality(Rows) \in Nat
      BY <3>2, FS_CardinalityType
    <3>4. Cardinality(Rows') = Cardinality(Rows) + 1
      BY <2>2, <2>4, <3>2, FS_AddElement
    <3> QED BY <2>2, <3>3, <3>4, Sizes DEF QuotaKept
  <2>7. Swept'
    BY <1>1, <2>5 DEF Guarded, Swept
  <2>8. ASSUME NEW v \in Uploads PROVE Loose(v)'
    <3>1. Loose(v) /\ Sound(v)
      BY DEF Guarded, AllSound
    <3>2. CASE v = u
      BY <1>3, <3>2 DEF Loose
    <3>3. CASE v # u
      <4>1. upload'[v] = upload[v] /\ lock # v
        BY <1>1, <1>3, <3>3
      <4>2. Active(v) /\ upload[v].artifact = a => a \in disturbed
        BY <2>3, <3>3 DEF Alone, a
      <4>3. upload[v].pc # "idle" => upload[v].artifact \in Artifacts
        BY <3>1 DEF Sound
      <4> QED BY <1>1, <2>1, <3>1, <4>1, <4>2, <4>3 DEF Loose, Active
    <3> QED BY <3>2, <3>3
  <2>9. ASSUME NEW b \in Artifacts PROVE Kept(b)'
    <3>1. Kept(b)
      BY DEF Guarded
    <3>2. CASE b = a
      BY <1>1, <2>1, <2>3, <3>2 DEF Kept, Alone, a
    <3>3. CASE b # a
      BY <1>1, <2>1, <3>1, <3>3 DEF Kept
    <3> QED BY <3>2, <3>3
  <2> QED BY <1>6, <2>6, <2>7, <2>8, <2>9 DEF Guarded
<1> QED BY <1>5, <1>7, <1>8

\* The catch block, and what sends an upload there.
LEMMA CatchHolds ==
    ASSUME TypeOK, AllSound, Guarded, NEW u \in Uploads,
           Fail(u) \/ CheckOutcome(u) \/ CheckOutcomeFails(u) \/ LoseConnection(u)
    PROVE  Guarded'
<1> DEFINE a == upload[u].artifact
<1>0. Sound(u) /\ Holder(u) /\ Loose(u)
  BY DEF AllSound, Guarded
<1>1. CASE Return(u) /\ UNCHANGED <<row, file, removing, cleanup, disturbed>>
  BY <1>1, ReturnHolds
<1>2. ASSUME NEW pc \in {"failed", "unlink"}, Goto(u, pc),
             UNCHANGED <<row, file, removing, cleanup, lock>>, disturbed \subseteq disturbed',
             Active(u) \/ a \in Rows,
             pc = "unlink" /\ row[a].state = "ready" => a \in disturbed'
      PROVE  Guarded'
  <2>1. upload'[u].pc = pc /\ upload'[u].artifact = a /\ upload'[u].existing = upload[u].existing
    BY <1>2, GotoSelf
  <2>2. Active(u)' /\ Rows' = Rows
    BY <1>2, <2>1 DEF Active, Rows
  <2>3. Holder(u)'
    BY <1>0, <1>2, <2>1, <2>2 DEF Holder
  <2>4. Loose(u)'
    BY <1>2, <2>1 DEF Loose
  <2>5. \A v \in Uploads \ {u} : Holder(v)' /\ Loose(v)'
    BY <1>2, OthersHold
  <2>6. QuotaKept' /\ Swept' /\ \A b \in Artifacts : Kept(b)'
    BY <1>2, FilesKept
  <2> QED BY <2>3, <2>4, <2>5, <2>6 DEF Guarded
<1>3. CASE Fail(u)
  <2>1. CASE upload[u].pc = "locked"
    BY <1>1, <1>3, <2>1 DEF Fail
  <2>2. CASE upload[u].pc # "locked"
    <3>1. /\ Goto(u, "failed") /\ UNCHANGED <<row, file, removing, cleanup, lock, disturbed>>
          /\ upload[u].pc \in {"installed", "inserted", "committed"}
      BY <1>3, <2>2 DEF Fail
    <3>2. Active(u) \/ a \in Rows
      BY <1>0, <3>1 DEF Active, Sound, Rows
    <3> QED BY <1>2, <3>1, <3>2
  <2> QED BY <2>1, <2>2
<1>4. CASE CheckOutcome(u)
  <2>1. CASE upload[u].existing \/ a \in Rows
    BY <1>1, <1>4, <2>1 DEF CheckOutcome
  <2>2. CASE ~(upload[u].existing \/ a \in Rows)
    <3>1. /\ Goto(u, "unlink") /\ UNCHANGED <<row, file, removing, cleanup, lock, disturbed>>
          /\ upload[u].pc = "failed"
      BY <1>4, <2>2 DEF CheckOutcome
    <3>2. Active(u) /\ row[a].state # "ready"
      BY <1>0, <2>2, <3>1 DEF Active, Sound, Rows
    <3> QED BY <1>2, <3>1, <3>2
  <2> QED BY <2>1, <2>2
<1>5. CASE CheckOutcomeFails(u)
  <2>1. /\ Goto(u, "unlink") /\ UNCHANGED <<row, file, removing, cleanup, lock>>
        /\ upload[u].pc = "failed" /\ disturbed \subseteq disturbed' /\ (a \in Rows => a \in disturbed')
    BY <1>5 DEF CheckOutcomeFails
  <2>2. Active(u) /\ (row[a].state = "ready" => a \in disturbed')
    BY <1>0, <2>1 DEF Active, Sound, Rows
  <2> QED BY <1>2, <2>1, <2>2
<1>6. CASE LoseConnection(u)
  <2>1. lock = u /\ lock' = NoOne /\ UNCHANGED <<row, file, upload, removing, cleanup, disturbed>>
    BY <1>6 DEF LoseConnection
  <2>2. \A v \in Uploads : Holder(v)'
    BY <2>1, NobodyIsOne DEF Holder
  <2>3. ASSUME NEW v \in Uploads PROVE Loose(v)'
    <3>1. Loose(v) /\ Sound(v) /\ Holder(v)
      BY DEF Guarded, AllSound
    <3> QED BY <2>1, <3>1 DEF Loose, Sound, Holder, Rows
  <2>4. QuotaKept' /\ Swept' /\ \A b \in Artifacts : Kept(b)'
    BY <2>1, FilesKept
  <2> QED BY <2>2, <2>3, <2>4 DEF Guarded
<1> QED BY <1>3, <1>4, <1>5, <1>6

\* The catch block unlinks its file without a row: nobody relies on that file.
LEMMA UnlinkHolds ==
    ASSUME TypeOK, AllSound, Guarded, NEW u \in Uploads, UnlinkUncommitted(u)
    PROVE  Guarded'
<1> DEFINE a == upload[u].artifact
<1>1. upload[u].pc = "unlink" /\ Return(u) /\ UNCHANGED <<row, removing, cleanup, disturbed>>
  BY DEF UnlinkUncommitted
<1>2. CASE UNCHANGED file
  BY <1>1, <1>2, ReturnHolds
<1>3. CASE Unlinked(a)
  <2>1. Sound(u) /\ Holder(u) /\ Loose(u)
    BY DEF AllSound, Guarded
  <2>2. a \in Artifacts /\ ~upload[u].existing /\ Active(u)
    BY <1>1, <2>1 DEF Sound, Active
  <2>3. row[a].state = "ready" => a \in disturbed
    BY <1>1, <2>1, <2>2 DEF Holder, Loose, Rows
  <2>4. \A b \in Artifacts \ {a} : file'[b] = file[b]
    BY <1>3 DEF Unlinked, TypeOK
  <2>5. \A v \in Uploads \ {u} : upload'[v] = upload[v]
    BY <1>1, GotoOthers
  <2>6. upload'[u].pc = "idle" /\ lock' # u /\ \A v \in Uploads \ {u} : lock' = v <=> lock = v
    BY <1>1, ReturnSelf, NobodyIsOne DEF Return, Release
  <2>7. Rows' = Rows /\ Dead' = Dead
    BY <1>1 DEF Rows, Dead
  <2> HIDE DEF a
  <2>8. QuotaKept' /\ Swept'
    BY <1>1, <2>7 DEF Guarded, QuotaKept, Swept
  <2>9. ASSUME NEW b \in Artifacts PROVE Kept(b)'
    <3>1. Kept(b)
      BY DEF Guarded
    <3> QED BY <1>1, <2>3, <2>4, <3>1 DEF Kept
  <2>10. Holder(u)' /\ Loose(u)'
    BY <2>6 DEF Holder, Loose
  <2>11. ASSUME NEW v \in Uploads \ {u} PROVE Holder(v)' /\ Loose(v)'
    <3>1. Holder(v) /\ Loose(v) /\ Sound(v) /\ upload'[v] = upload[v]
      BY <2>5 DEF AllSound, Guarded
    <3>2. Alone(v) => upload[v].artifact # a
      BY <2>2 DEF Alone, a
    <3>3. Alone(v) => Alone(v)'
      BY <1>1, <2>5, <2>6, AloneKept DEF Active
    <3>4. upload[v].pc # "idle" => upload[v].artifact \in Artifacts
      BY <3>1 DEF Sound
    <3>5. Holder(v)'
      BY <1>1, <2>4, <2>6, <2>7, <3>1, <3>2, <3>3, <3>4 DEF Holder, Active
    <3>6. Loose(v)'
      BY <1>1, <2>6, <3>1 DEF Loose
    <3> QED BY <3>5, <3>6
  <2> QED BY <2>8, <2>9, <2>10, <2>11 DEF Guarded
<1> QED BY <1>1, <1>2, <1>3 DEF UnlinkUncommitted

\* Uploads rely neither on the files of rows, nor on those of removals and of
\* the walk, which takes up nothing but old files.
LEMMA UploadsHold ==
    ASSUME AllSound, Guarded, UNCHANGED <<upload, lock, disturbed>>,
           Rows' \subseteq Rows, removing' \subseteq removing,
           \A a \in Artifacts : row'[a].state = "ready" => row[a].state = "ready",
           \A a \in Artifacts \ (Rows \cup removing \cup cleanup.look) : file'[a] = file[a],
           cleanup'.look \subseteq cleanup.look \cup old
    PROVE  \A u \in Uploads : Holder(u)' /\ Loose(u)'
<1> SUFFICES ASSUME NEW u \in Uploads PROVE Holder(u)' /\ Loose(u)'
  OBVIOUS
<1>1. Holder(u) /\ Loose(u) /\ Sound(u)
  BY DEF AllSound, Guarded
<1>2. upload[u].pc # "idle" => upload[u].artifact \in Artifacts
  BY <1>1 DEF Sound
<1>3. Cardinality(Rows') \in Nat /\ Cardinality(Rows) \in Nat /\ Cardinality(Rows') <= Cardinality(Rows)
  <2>1. Rows \in SUBSET Artifacts
    BY DEF Rows
  <2> QED BY <2>1, FewerRows
<1>4. Alone(u) /\ upload[u].pc \in {"installed", "inserted"} => Alone(u)'
  BY <1>1 DEF Alone, Active, Sound
<1>5. lock = u /\ ~upload[u].existing => upload[u].artifact \notin Rows' /\ Cardinality(Rows') < Quota
  BY <1>1, <1>3, Sizes DEF Holder
<1>6. Alone(u) => upload[u].artifact \notin removing \cup cleanup.look
  BY DEF Alone
<1>7. Holder(u)'
  BY <1>1, <1>2, <1>4, <1>5, <1>6 DEF Holder, Active
<1>8. Loose(u)'
  BY <1>1, <1>2 DEF Loose
<1> QED BY <1>7, <1>8

LEMMA QuotaStep ==
    ASSUME QuotaKept, Rows' \subseteq Rows
    PROVE  QuotaKept'
<1>1. Rows \in SUBSET Artifacts
  BY DEF Rows
<1> QED BY <1>1, FewerRows, Sizes DEF QuotaKept

LEMMA IdentityHolds ==
    ASSUME TypeOK, AllSound, Guarded, NEW a \in Artifacts,
           Remove(a) \/ UnlinkRemoved(a) \/ Expire(a) \/ Retire(a) \/ GrowOld(a)
    PROVE  Guarded'
<1>1. CASE Remove(a)
  <2>1. /\ lock = NoOne /\ lock' = NoOne /\ a \in Rows /\ removing' = removing \cup {a}
        /\ UNCHANGED <<file, upload, cleanup, disturbed>>
    BY <1>1 DEF Remove
  <2>2. row'[a].state = "deleted" /\ \A b \in Artifacts \ {a} : row'[b] = row[b]
    BY <1>1 DEF Remove, TypeOK, Row
  <2>3. Rows' = Rows /\ Dead \subseteq Dead'
    BY <2>1, <2>2 DEF Rows, Dead
  <2>4. QuotaKept' /\ Swept'
    BY <2>1, <2>3 DEF Guarded, QuotaKept, Swept
  <2>5. ASSUME NEW b \in Artifacts PROVE Kept(b)'
    <3>1. Kept(b)
      BY DEF Guarded
    <3> QED BY <2>1, <2>2, <3>1 DEF Kept
  <2>6. ASSUME NEW u \in Uploads PROVE Holder(u)' /\ Loose(u)'
    <3>1. Loose(u) /\ Sound(u)
      BY DEF Guarded, AllSound
    <3>2. upload[u].pc # "idle" => upload[u].artifact \in Artifacts
      BY <3>1 DEF Sound
    <3>3. Loose(u)'
      BY <2>1, <2>2, <3>1, <3>2, NobodyIsOne DEF Loose
    <3> QED BY <2>1, <3>3, NobodyIsOne DEF Holder
  <2> QED BY <2>4, <2>5, <2>6 DEF Guarded
<1>2. CASE UnlinkRemoved(a)
  <2>1. a \in removing /\ removing' = removing \ {a} /\ UNCHANGED <<row, lock, upload, cleanup, disturbed>>
    BY <1>2 DEF UnlinkRemoved
  <2>2. \A b \in Artifacts \ {a} : file'[b] = file[b]
    BY <1>2 DEF UnlinkRemoved, Unlinked, TypeOK
  <2>3. Rows' = Rows /\ Dead' = Dead
    BY <2>1 DEF Rows, Dead
  <2>4. QuotaKept' /\ Swept'
    BY <2>1, <2>3 DEF Guarded, QuotaKept, Swept
  <2>5. ASSUME NEW b \in Artifacts PROVE Kept(b)'
    <3>1. Kept(b)
      BY DEF Guarded
    <3> QED BY <2>1, <2>2, <3>1 DEF Kept
  <2>6. \A u \in Uploads : Holder(u)' /\ Loose(u)'
    BY <2>1, <2>2, <2>3, UploadsHold
  <2> QED BY <2>4, <2>5, <2>6 DEF Guarded
<1>3. CASE Expire(a) \/ Retire(a) \/ GrowOld(a)
  <2>1. UNCHANGED <<row, file, lock, upload, removing, cleanup, disturbed>>
    BY <1>3 DEF Expire, Retire, GrowOld
  <2>2. Rows' = Rows
    BY <2>1 DEF Rows
  <2>3. \A u \in Uploads : Holder(u)' /\ Loose(u)'
    BY <2>1, <2>2, UploadsHold
  <2> QED BY <2>1, <2>3, FilesKept DEF Guarded
<1> QED BY <1>1, <1>2, <1>3

\* A step of the cleanup that leaves the rows alone and unlinks the file of
\* nothing but a dead row or an identity the walk has found without one.
LEMMA WalkHolds ==
    ASSUME TypeOK, AllSound, Guarded, UNCHANGED <<row, upload, lock, removing, disturbed>>,
           \A a \in Artifacts :
              file'[a] = file[a] \/ a \in Dead \/ (cleanup.pc = "unlink" /\ a \in cleanup.look),
           cleanup'.look \subseteq cleanup.look \cup old,
           \A a, b \in cleanup'.look : a = b,
           cleanup'.pc = "unlink" => \A a \in cleanup'.look : a \notin Rows,
           cleanup'.todo \subseteq cleanup.todo,
           cleanup'.pc # "sweep" => cleanup'.todo = {}
    PROVE  Guarded'
<1>1. Rows' = Rows /\ Dead' = Dead /\ Dead \subseteq Rows
  BY DEF Rows, Dead
<1>2. QuotaKept' /\ Swept'
  BY <1>1 DEF Guarded, QuotaKept, Swept
<1>3. ASSUME NEW a \in Artifacts PROVE Kept(a)'
  <2>1. Kept(a)
    BY DEF Guarded
  <2> QED BY <2>1 DEF Kept, Rows, Dead
<1>4. \A u \in Uploads : Holder(u)' /\ Loose(u)'
  BY <1>1, UploadsHold
<1> QED BY <1>2, <1>3, <1>4 DEF Guarded

LEMMA CleanupHolds ==
    ASSUME TypeOK, AllSound, Guarded, CleanupStep \/ AbortCleanup
    PROVE  Guarded'
<1>0. Swept /\ QuotaKept /\ cleanup \in Cleanup
  BY DEF Guarded, TypeOK
<1>1. CASE StartCleanup
  <2>1. /\ UNCHANGED <<file, upload, lock, removing, disturbed>> /\ cleanup.pc = "idle"
        /\ cleanup'.pc = "sweep" /\ cleanup'.todo = PageOf(Dead', cleanup.cursor) /\ cleanup'.look = cleanup.look
    BY <1>0, <1>1 DEF StartCleanup, Cleanup
  <2>2. \A a \in Artifacts : row'[a] = IF Expired(a) THEN [row[a] EXCEPT !.state = "expired"] ELSE row[a]
    BY <1>1 DEF StartCleanup
  <2>3. \A a \in Artifacts :
           row'[a] = row[a] \/ (row[a].state = "ready" /\ row'[a].state = "expired")
    <3>1. ASSUME NEW a \in Artifacts, Expired(a)
          PROVE  row[a].state = "ready" /\ row'[a].state = "expired"
      <4>1. row[a] \in Row /\ row'[a] = [row[a] EXCEPT !.state = "expired"]
        BY <2>2, <3>1 DEF TypeOK
      <4> QED BY <3>1, <4>1 DEF Expired, Row
    <3> QED BY <2>2, <3>1
  <2>4. Rows' = Rows
    BY <2>3 DEF Rows
  <2>5. cleanup'.todo \subseteq Dead'
    BY <2>1 DEF PageOf
  <2>6. QuotaKept' /\ Swept'
    BY <1>0, <2>1, <2>4, <2>5 DEF QuotaKept, Swept
  <2>7. ASSUME NEW a \in Artifacts PROVE Kept(a)'
    <3>1. Kept(a)
      BY DEF Guarded
    <3> QED BY <2>1, <2>3, <3>1 DEF Kept
  <2>8. \A u \in Uploads : Holder(u)' /\ Loose(u)'
    BY <2>1, <2>3, <2>4, UploadsHold
  <2> QED BY <2>6, <2>7, <2>8 DEF Guarded
<1>2. ASSUME NEW a \in Artifacts, SweepUnlink(a) PROVE Guarded'
  <2>1. \A b \in Artifacts : file'[b] = file[b] \/ b \in Dead
    BY <1>0, <1>2 DEF SweepUnlink, Unlinked, Swept, TypeOK
  <2>2. cleanup'.pc = "sweep" /\ cleanup'.look = cleanup.look /\ cleanup'.todo \subseteq cleanup.todo
    BY <1>0, <1>2 DEF SweepUnlink, Cleanup
  <2> QED BY <1>0, <1>2, <2>1, <2>2, WalkHolds DEF SweepUnlink, Swept
<1>3. CASE StartWalk
  <2>1. cleanup'.pc = "walk" /\ cleanup'.look = cleanup.look /\ cleanup'.todo = {}
    BY <1>0, <1>3 DEF StartWalk, Cleanup
  <2> QED BY <1>0, <1>3, <2>1, WalkHolds DEF StartWalk, Swept
<1>4. ASSUME NEW a \in Artifacts, WalkNext(a) PROVE Guarded'
  <2>1. /\ cleanup'.pc \in {"walk", "select"} /\ cleanup'.todo = {}
        /\ cleanup'.look \subseteq {a} /\ cleanup'.look \subseteq old
    BY <1>0, <1>4 DEF WalkNext, Cleanup, Swept
  <2> QED BY <1>4, <2>1, WalkHolds DEF WalkNext
<1>5. CASE WalkSelect
  <2>1. CASE cleanup.look \subseteq Rows
    <3>1. cleanup'.pc = "walk" /\ cleanup'.look = {} /\ cleanup'.todo = {}
      BY <1>0, <1>5, <2>1 DEF WalkSelect, Cleanup, Swept
    <3> QED BY <1>5, <3>1, WalkHolds DEF WalkSelect
  <2>2. CASE ~(cleanup.look \subseteq Rows)
    <3>1. cleanup'.pc = "unlink" /\ cleanup'.look = cleanup.look /\ cleanup'.todo = {}
      BY <1>0, <1>5, <2>2 DEF WalkSelect, Cleanup, Swept
    <3>2. \A a \in cleanup'.look : a \notin Rows
      BY <1>0, <2>2, <3>1 DEF Swept
    <3> QED BY <1>0, <1>5, <3>1, <3>2, WalkHolds DEF WalkSelect, Swept
  <2> QED BY <2>1, <2>2
<1>6. CASE WalkUnlink
  <2>1. cleanup.pc = "unlink" /\ cleanup'.pc = "walk" /\ cleanup'.look = {} /\ cleanup'.todo = {}
    BY <1>0, <1>6 DEF WalkUnlink, Cleanup, Swept
  <2>2. \A b \in Artifacts : file'[b] = file[b] \/ b \in cleanup.look
    BY <1>6 DEF WalkUnlink, Unlinked, TypeOK
  <2> QED BY <1>6, <2>1, <2>2, WalkHolds DEF WalkUnlink
<1>7. CASE EndWalk
  <2>1. cleanup'.pc = "purge" /\ cleanup'.look = cleanup.look /\ cleanup'.todo = {}
    BY <1>0, <1>7 DEF EndWalk, Cleanup, Swept
  <2> QED BY <1>0, <1>7, <2>1, WalkHolds DEF EndWalk, Swept
<1>8. CASE Purge
  <2>1. /\ UNCHANGED <<file, upload, lock, removing, disturbed>>
        /\ cleanup'.pc = "idle" /\ cleanup'.todo = {} /\ cleanup'.look = cleanup.look
    BY <1>0, <1>8 DEF Purge, Cleanup, Swept
  <2>2. \A a \in Artifacts : row'[a] = row[a] \/ row'[a] = NoRow
    BY <1>8 DEF Purge
  <2>3. Rows' \subseteq Rows
    BY <2>2 DEF Rows, NoRow
  <2>4. QuotaKept' /\ Swept'
    BY <1>0, <2>1, <2>3, QuotaStep DEF Swept
  <2>5. ASSUME NEW a \in Artifacts PROVE Kept(a)'
    <3>1. Kept(a)
      BY DEF Guarded
    <3> QED BY <2>1, <2>2, <3>1 DEF Kept, NoRow
  <2>6. \A u \in Uploads : Holder(u)' /\ Loose(u)'
    BY <2>1, <2>2, <2>3, UploadsHold DEF NoRow
  <2> QED BY <2>4, <2>5, <2>6 DEF Guarded
<1>9. CASE AbortCleanup
  <2>1. cleanup'.pc = "idle" /\ cleanup'.look = {} /\ cleanup'.todo = {}
    BY <1>0, <1>9 DEF AbortCleanup, Cleanup
  <2> QED BY <1>9, <2>1, WalkHolds DEF AbortCleanup
<1> QED BY <1>1, <1>2, <1>3, <1>4, <1>5, <1>6, <1>7, <1>8, <1>9 DEF CleanupStep

LEMMA CrashHolds ==
    ASSUME Guarded, Crash
    PROVE  Guarded'
<1>1. /\ UNCHANGED <<row, file, disturbed>> /\ lock' = NoOne /\ removing' = {}
      /\ cleanup'.pc = "idle" /\ cleanup'.todo = {} /\ cleanup'.look = {}
      /\ \A u \in Uploads : upload'[u].pc = "idle"
  BY DEF Crash, NewCleanup, IdleUpload
<1>2. Rows' = Rows /\ Dead' = Dead
  BY <1>1 DEF Rows, Dead
<1>3. QuotaKept' /\ Swept'
  BY <1>1, <1>2 DEF Guarded, QuotaKept, Swept
<1>4. \A a \in Artifacts : Kept(a)'
  BY <1>1 DEF Guarded, Kept
<1>5. \A u \in Uploads : Holder(u)' /\ Loose(u)'
  BY <1>1, NobodyIsOne DEF Holder, Loose
<1> QED BY <1>3, <1>4, <1>5 DEF Guarded

LEMMA UploadHolds ==
    ASSUME TypeOK, AllSound, Guarded, NEW u \in Uploads,
           \/ \E a \in Artifacts, c \in Contents : Begin(u, a, c)
           \/ UploadStep(u) \/ CommitFails(u) \/ LoseConnection(u) \/ CheckOutcomeFails(u)
    PROVE  Guarded'
<1>1. CASE Answer(u)
  BY <1>1, ReturnHolds DEF Answer
<1>2. CASE Commit(u) \/ CommitFails(u)
  BY <1>2, CommitEnds, EndsHolds
<1> QED BY <1>1, <1>2, BeginHolds, InstallHolds, InsertHolds, CatchHolds, UnlinkHolds DEF UploadStep

LEMMA GuardedStep == ASSUME TypeOK, AllSound, Guarded, [Next]_vars PROVE Guarded'
<1>1. CASE UNCHANGED vars
  BY <1>1 DEF vars, Guarded, QuotaKept, Swept, Holder, Loose, Kept, Alone, Active, Rows, Dead
<1> QED BY <1>1, UploadHolds, IdentityHolds, CleanupHolds, CrashHolds DEF Next

-----------------------------------------------------------------------------
\* The theorems.

LEMMA InitInvariant == ASSUME Init PROVE IInv
<1> USE StoreAssumption
<1>1. NoRow \in Row /\ IdleUpload \in Upload /\ NewCleanup \in Cleanup /\ 0 \in 0 .. MaxFaults
  <2>1. 0 \in 0 .. Count /\ 0 \in 0 .. Page
    BY Sizes
  <2> QED BY <2>1 DEF NoRow, Row, IdleUpload, Upload, NewCleanup, Cleanup
<1>2. TypeOK
  BY <1>1 DEF Init, TypeOK, Files
<1>3. AllSound
  BY DEF Init, AllSound, Sound, IdleUpload
<1>4. Rows = {}
  BY DEF Init, Rows, NoRow
<1>5. QuotaKept
  BY <1>4, FS_EmptySet, Sizes DEF QuotaKept
<1>6. Swept
  BY DEF Init, Swept, NewCleanup
<1>7. \A u \in Uploads : Holder(u) /\ Loose(u)
  BY NobodyIsOne DEF Init, Holder, Loose, IdleUpload
<1>8. \A a \in Artifacts : Kept(a)
  BY DEF Init, Kept, NoRow
<1> QED BY <1>2, <1>3, <1>5, <1>6, <1>7, <1>8 DEF IInv, Guarded

LEMMA InvariantStep == ASSUME IInv, [Next]_vars PROVE IInv'
<1>1. TypeOK /\ AllSound /\ Guarded /\ \A u \in Uploads : Holder(u)
  BY DEF IInv, Guarded
<1> QED BY <1>1, TypeStep, SoundStep, GuardedStep DEF IInv

\* What the lock, the uploads that lost it and the undisturbed files are, is kept by every step.
THEOREM Invariance == Spec => []IInv
<1>1. Init => IInv
  BY InitInvariant
<1>2. IInv /\ [Next]_vars => IInv'
  BY InvariantStep
<1> QED BY <1>1, <1>2, PTL DEF Spec

\* Every variable keeps its type (class SourceMaps).
THEOREM StoreTypes == Spec => []TypeOK
<1>1. IInv => TypeOK
  BY DEF IInv
<1> QED BY <1>1, Invariance, PTL

(***************************************************************************)
(* The identities of a project, tombstones included, never exceed its      *)
(* quota, whatever races, lost connections and ambiguous commits come      *)
(* between the count and the commit (uploadInternal).                      *)
(***************************************************************************)
THEOREM QuotaIsKept == Spec => []QuotaKept
<1>1. IInv => QuotaKept
  BY DEF IInv, Guarded
<1> QED BY <1>1, Invariance, PTL

(***************************************************************************)
(* A ready row has the file its digest describes, unless an upload without *)
(* its transaction, a removal, a walk or an unreadable row could come      *)
(* between (uploadInternal, remove, cleanupInternal).                      *)
(***************************************************************************)
THEOREM ReadyFilesExist == Spec => []ReadyHasFile
<1>1. IInv => ReadyHasFile
  BY DEF IInv, Guarded, ReadyHasFile, Kept
<1> QED BY <1>1, Invariance, PTL

\* What becomes of one row in a step.
RowMoves(a) ==
    /\ row[a].state = "deleted" => row'[a].state \in {"deleted", "none"}
    /\ row[a].state = "expired" => row'[a].state \in {"expired", "deleted", "none"}
    /\ row[a].state # "none" /\ row'[a].state = "none" => age[a] = "purgeable"

LEMMA RowsMove ==
    ASSUME IInv, [Next]_vars, NEW a \in Artifacts
    PROVE  RowMoves(a)
<1>0. row[a] \in Row /\ TypeOK /\ \A u \in Uploads : Sound(u) /\ Holder(u)
  BY DEF IInv, TypeOK, AllSound, Guarded
<1>1. CASE row'[a] = row[a]
  BY <1>0, <1>1 DEF RowMoves, Row
<1>2. ASSUME NEW u \in Uploads, Ends(u) PROVE RowMoves(a)
  <2>1. Sound(u) /\ Holder(u) /\ lock = u /\ upload[u].pc = "inserted"
    BY <1>0, <1>2 DEF Ends
  <2>2. CASE UNCHANGED row
    BY <1>1, <2>2
  <2>3. CASE /\ ~upload[u].existing
             /\ row' = [row EXCEPT ![upload[u].artifact] = [state |-> "ready", content |-> upload[u].content]]
    <3>1. upload[u].artifact \notin Rows
      BY <2>1, <2>3 DEF Holder
    <3>2. CASE a = upload[u].artifact
      <4>1. row[a].state = "none"
        BY <3>1, <3>2 DEF Rows
      <4> QED BY <4>1 DEF RowMoves
    <3>3. CASE a # upload[u].artifact
      <4>1. row'[a] = row[a]
        BY <1>0, <2>3, <3>3 DEF TypeOK
      <4> QED BY <1>1, <4>1
    <3> QED BY <3>2, <3>3
  <2> QED BY <1>0, <1>2, <2>1, <2>2, <2>3, CommittedRows DEF Ends
<1>3. ASSUME NEW b \in Artifacts, Remove(b) PROVE RowMoves(a)
  <2>1. row'[a] = row[a] \/ row'[a].state = "deleted"
    BY <1>0, <1>3 DEF Remove, TypeOK, Row
  <2> QED BY <1>1, <2>1 DEF RowMoves
<1>4. CASE StartCleanup
  <2>1. row'[a] = IF Expired(a) THEN [row[a] EXCEPT !.state = "expired"] ELSE row[a]
    BY <1>4 DEF StartCleanup
  <2>2. CASE Expired(a)
    <3>1. row[a].state = "ready" /\ row'[a].state = "expired"
      BY <1>0, <2>1, <2>2 DEF Expired, Row
    <3> QED BY <3>1 DEF RowMoves
  <2> QED BY <1>1, <2>1, <2>2
<1>5. CASE Purge
  <2>1. row'[a] = row[a] \/ (row'[a] = NoRow /\ age[a] = "purgeable")
    BY <1>5 DEF Purge
  <2> QED BY <1>1, <2>1 DEF RowMoves, NoRow
<1>6. CASE UNCHANGED row
  BY <1>1, <1>6
<1>7. ASSUME NEW u \in Uploads,
             \/ \E b \in Artifacts, c \in Contents : Begin(u, b, c)
             \/ UploadStep(u) \/ CommitFails(u) \/ LoseConnection(u) \/ CheckOutcomeFails(u)
      PROVE  RowMoves(a)
  <2>1. CASE Commit(u) \/ CommitFails(u)
    BY <1>2, <2>1, CommitEnds
  <2> QED BY <1>6, <1>7, <2>1
       DEF UploadStep, Begin, Install, Insert, Answer, Fail, CheckOutcome, UnlinkUncommitted,
           LoseConnection, CheckOutcomeFails
<1>8. ASSUME NEW b \in Artifacts, UnlinkRemoved(b) \/ Expire(b) \/ Retire(b) \/ GrowOld(b)
      PROVE  RowMoves(a)
  BY <1>6, <1>8 DEF UnlinkRemoved, Expire, Retire, GrowOld
<1>9. CASE CleanupStep \/ AbortCleanup \/ Crash
  BY <1>4, <1>5, <1>6, <1>9
     DEF CleanupStep, AbortCleanup, Crash, SweepUnlink, StartWalk, WalkNext, WalkSelect, WalkUnlink, EndWalk
<1> QED BY <1>3, <1>6, <1>7, <1>8, <1>9 DEF Next, vars

(***************************************************************************)
(* No late commit, retry or cleanup revives an identity that was deleted   *)
(* or has expired, and no row goes before it may be purged (remove,        *)
(* cleanupInternal).                                                       *)
(***************************************************************************)
THEOREM TombstonesAreFinal == Spec => TombstonesStay
<1> DEFINE Moves == \A a \in Artifacts :
                       /\ row[a].state = "deleted" => row'[a].state \in {"deleted", "none"}
                       /\ row[a].state = "expired" => row'[a].state \in {"expired", "deleted", "none"}
                       /\ row[a].state # "none" /\ row'[a].state = "none" => age[a] = "purgeable"
<1>1. IInv /\ [Next]_vars => [Moves]_vars
  BY RowsMove DEF RowMoves
<1> QED BY <1>1, Invariance, PTL DEF Spec, TombstonesStay

-----------------------------------------------------------------------------
\* The metric library.  MetricShapes tells the steps apart by what they make of
\* the versions: they stay, one is added, a draft is edited, a review is
\* recorded, or one is activated.

\* The instances speak of the same cardinality.
LEMMA CardinalityHere ==
    \A S : /\ Members!Cardinality(S) = Cardinality(S) /\ Effective!Cardinality(S) = Cardinality(S)
          /\ Metrics!Cardinality(S) = Cardinality(S)
BY DEF Members!Cardinality, Effective!Cardinality, Metrics!Cardinality, Cardinality

\* A set within one element has none or that one.
LEMMA AtMostOne ==
    ASSUME NEW S, NEW x0, S \subseteq {x0}
    PROVE  Cardinality(S) \in {0, 1}
<1>1. CASE S = {}
    BY <1>1, FS_EmptySet
<1>2. CASE S = {x0}
    BY <1>2, FS_Singleton
<1> QED BY <1>1, <1>2

-----------------------------------------------------------------------------
\* What None is not, and what the sets of keys are.
LEMMA MetricSets ==
    /\ None \notin Nat /\ None \notin Metrics!Digests /\ None \notin Metrics!Score /\ None \notin Metrics!Metric
    /\ Business \cap System = {} /\ Template \subseteq System /\ Initially \in [System -> Metrics!Statuses]
    /\ Formulas \subseteq SUBSET Metrics!Keys /\ Surfaces \subseteq SUBSET Metrics!Keys
    /\ Families \subseteq [keys : SUBSET System, resets : BOOLEAN]
    /\ Business \subseteq Metrics!Keys /\ System \subseteq Metrics!Keys
BY AdministrationAssumption DEF Metrics!Keys

\* Deriving the statuses keeps what is defined and what it depends on, and is done once.
LEMMA DeriveKeeps ==
    ASSUME NEW M \in Metrics!Definitions, NEW D, D = Metrics!Derive(M)
    PROVE  /\ D \in Metrics!Definitions /\ Metrics!Defined(D) = Metrics!Defined(M)
           /\ Metrics!Deps(D) = Metrics!Deps(M) /\ \A k \in Metrics!Defined(D) : D[k].deps = M[k].deps
           /\ Metrics!Derive(D) = D
<1> DEFINE S(k) == Metrics!Derived(M, k)
<1>1. \A k \in Metrics!Keys : D[k] = IF k \in System \/ M[k] = None THEN M[k] ELSE [M[k] EXCEPT !.status = S(k)]
    BY DEF Metrics!Derive
<1>2. DOMAIN D = Metrics!Keys /\ D = [k \in Metrics!Keys |-> D[k]]
    BY DEF Metrics!Derive
<1>3. \A k : S(k) \in Metrics!Statuses
    BY DEF Metrics!Derived, Metrics!Worst, Metrics!Statuses
<1> HIDE DEF S
<1>4. ASSUME NEW k \in Metrics!Keys
      PROVE  /\ D[k] \in Metrics!Metric \cup {None} /\ (D[k] = None <=> M[k] = None)
             /\ M[k] # None => D[k].deps = M[k].deps /\ D[k] \in Metrics!Metric
             /\ k \notin System /\ M[k] # None => D[k].status = S(k)
             /\ k \in System => D[k] = M[k]
    <2>1. M[k] \in Metrics!Metric \cup {None}
        BY DEF Metrics!Definitions
    <2>2. CASE k \in System \/ M[k] = None
        BY <1>1, <2>1, <2>2
    <2>3. CASE k \notin System /\ M[k] # None
        <3>1. D[k] = [M[k] EXCEPT !.status = S(k)] /\ M[k] \in Metrics!Metric
            BY <1>1, <2>1, <2>3
        <3>2. D[k] \in Metrics!Metric /\ D[k].deps = M[k].deps /\ D[k].status = S(k)
            BY <1>3, <3>1 DEF Metrics!Metric
        <3> QED BY <2>3, <3>2, MetricSets
    <2> QED BY <2>2, <2>3
<1>5. D \in Metrics!Definitions
    BY <1>2, <1>4 DEF Metrics!Definitions
<1>6. Metrics!Defined(D) = Metrics!Defined(M)
    BY <1>4 DEF Metrics!Defined
<1>7. \A k \in Metrics!Defined(D) : D[k].deps = M[k].deps
    BY <1>4, <1>6 DEF Metrics!Defined
<1>8. Metrics!Deps(D) = Metrics!Deps(M)
    BY <1>6, <1>7 DEF Metrics!Deps
<1>9. \A k : Metrics!Derived(D, k) = S(k)
    <2> SUFFICES ASSUME NEW k
                 PROVE  {D[j].status : j \in Metrics!Closure(D, {k}) \cap System}
                          = {M[j].status : j \in Metrics!Closure(M, {k}) \cap System}
        BY DEF Metrics!Derived, S
    <2>1. Metrics!Closure(D, {k}) = Metrics!Closure(M, {k})
        BY <1>8 DEF Metrics!Closure
    <2>2. \A j \in System : D[j] = M[j]
        BY <1>4, MetricSets
    <2> QED BY <2>1, <2>2
<1>10. Metrics!Derive(D) = D
    <2>1. ASSUME NEW k \in Metrics!Keys, k \notin System, D[k] # None
          PROVE  [D[k] EXCEPT !.status = S(k)] = D[k]
        <3>1. D[k] \in Metrics!Metric /\ D[k].status = S(k)
            BY <1>4, <2>1
        <3> QED BY <3>1 DEF Metrics!Metric
    <2>2. \A k \in Metrics!Keys :
            (IF k \in System \/ D[k] = None THEN D[k] ELSE [D[k] EXCEPT !.status = S(k)]) = D[k]
        BY <2>1
    <2> QED BY <1>2, <1>9, <2>2 DEF Metrics!Derive
<1> QED BY <1>5, <1>6, <1>7, <1>8, <1>10

\* What resolves and can be scored does so with derived statuses too.
LEMMA DeriveStaysValid ==
    ASSUME NEW M \in Metrics!Definitions, NEW D, D = Metrics!Derive(M)
    PROVE  /\ Metrics!Valid(M) => Metrics!Valid(D)
           /\ \A L : Metrics!Scorable(M, L) => Metrics!Scorable(D, L)
<1>1. /\ Metrics!Defined(D) = Metrics!Defined(M) /\ Metrics!Deps(D) = Metrics!Deps(M)
      /\ \A k \in Metrics!Defined(D) : D[k].deps = M[k].deps
    BY DeriveKeeps
<1>2. \A L : Metrics!Closure(D, L) = Metrics!Closure(M, L)
    BY <1>1 DEF Metrics!Closure
<1>3. \A k \in Metrics!Defined(D) : Metrics!Cyclic(D, k) <=> Metrics!Cyclic(M, k)
    BY <1>1, <1>2 DEF Metrics!Cyclic
<1> QED BY <1>1, <1>2, <1>3 DEF Metrics!Valid, Metrics!Scorable

\* The metrics a draft begins with.
LEMMA SystemMetricsAre ==
    ASSUME NEW c \in [System -> Metrics!Statuses], NEW M, M = Metrics!SystemMetrics(c)
    PROVE  M \in Metrics!Definitions /\ Metrics!Defined(M) = System
<1>1. M = [k \in Metrics!Keys |-> IF k \in System THEN [deps |-> {}, status |-> c[k]] ELSE None]
    BY DEF Metrics!SystemMetrics
<1>2. \A k \in System : [deps |-> {}, status |-> c[k]] \in Metrics!Metric
    BY DEF Metrics!Metric
<1>3. \A k \in System : [deps |-> {}, status |-> c[k]] # None
    BY <1>2, MetricSets
<1>4. M \in Metrics!Definitions
    BY <1>1, <1>2 DEF Metrics!Definitions
<1>5. Metrics!Defined(M) = System
    BY <1>1, <1>3, MetricSets DEF Metrics!Defined
<1> QED BY <1>4, <1>5

\* The score of a entry, with its review or without.
LEMMA DiscardedScore ==
    ASSUME NEW score \in Metrics!Score \cup {None}, NEW after, after = Metrics!Discard(score)
    PROVE  /\ after \in Metrics!Score \cup {None} /\ (after = None <=> score = None)
           /\ score # None => after.leaves = score.leaves /\ after.reviewed = None
<1>1. CASE score = None
    BY <1>1 DEF Metrics!Discard
<1>2. CASE score # None
    <2>1. after = [score EXCEPT !.reviewed = None] /\ score \in Metrics!Score
        BY <1>2 DEF Metrics!Discard
    <2>2. after \in Metrics!Score /\ after.leaves = score.leaves /\ after.reviewed = None
        BY <2>1 DEF Metrics!Score
    <2> QED BY <1>2, <2>2, MetricSets
<1> QED BY <1>1, <1>2

\* A entry is made of its fields.
LEMMA RowFields ==
    ASSUME NEW entry \in Metrics!Row
    PROVE  /\ entry.metrics \in Metrics!Definitions /\ entry.bindings \subseteq Metrics!Keys
           /\ entry.score \in Metrics!Score \cup {None}
           /\ entry.score # None => entry.score.leaves \subseteq Metrics!Keys /\ entry.score \in Metrics!Score
           /\ \A k \in Metrics!Keys : entry.metrics[k] # None => entry.metrics[k] \in Metrics!Metric
BY DEF Metrics!Row, Metrics!Score, Metrics!Definitions

\* A draft begins with what it was made from, without a review.
LEMMA CopyCopies ==
    ASSUME Metrics!TypeOK, NEW source \in (DOMAIN versions) \cup {None}, NEW entry, entry = Metrics!Copy(source)
    PROVE  /\ entry \in Metrics!Row /\ entry.status = "draft" /\ Metrics!Complete(entry)
           /\ entry.score # None => entry.score.reviewed = None
<1>1. CASE source = None
    <2> DEFINE M == Metrics!SystemMetrics(catalog)
    <2>1. entry = [status |-> "draft", source |-> None, metrics |-> M, bindings |-> {}, score |-> None]
        BY <1>1 DEF Metrics!Copy
    <2>2. M \in Metrics!Definitions /\ Metrics!Defined(M) = System
        BY SystemMetricsAre DEF Metrics!TypeOK
    <2> HIDE DEF M
    <2>3. /\ entry \in Metrics!Row /\ entry.status = "draft" /\ entry.metrics = M /\ entry.bindings = {} /\ entry.score = None
        BY <2>1, <2>2 DEF Metrics!Row
    <2> QED BY <2>2, <2>3 DEF Metrics!Complete, Metrics!ScoreLeaves
<1>2. CASE source # None
    <2> DEFINE from == versions[source]
               score == Metrics!Discard(from.score)
    <2>1. from \in Metrics!Row /\ Metrics!Complete(from) /\ source \in Nat
        BY <1>2 DEF Metrics!TypeOK
    <2>2. entry = [from EXCEPT !.status = "draft", !.source = source, !.score = score]
        BY <1>2 DEF Metrics!Copy
    <2>3. /\ score \in Metrics!Score \cup {None} /\ (score = None <=> from.score = None)
          /\ from.score # None => score.leaves = from.score.leaves /\ score.reviewed = None
        BY <2>1, RowFields, DiscardedScore
    <2> HIDE DEF from, score
    <2>4. /\ entry \in Metrics!Row /\ entry.status = "draft" /\ entry.metrics = from.metrics
          /\ entry.bindings = from.bindings /\ entry.score = score
        BY <2>1, <2>2, <2>3 DEF Metrics!Row
    <2> QED BY <2>1, <2>3, <2>4 DEF Metrics!Complete, Metrics!ScoreLeaves
<1> QED BY <1>1, <1>2

\* What a entry may become while it is a draft, or by a review.
Becomes(entry, after) ==
    /\ after \in Metrics!Row /\ Metrics!Complete(after)
    /\ entry.score # None => after.score # None
    /\ after.score # None =>
         \/ after.score.reviewed \in seen' \cup {None}
         \/ entry.score # None /\ after.score.reviewed = entry.score.reviewed

\* A write keeps a entry complete, whatever the draft was when the request was checked.
LEMMA WrittenBecomes ==
    ASSUME NEW entry \in Metrics!Row, Metrics!Complete(entry), NEW w \in Metrics!Writes,
           NEW after, after = Metrics!Written(entry, w), after # None
    PROVE  Becomes(entry, after) /\ after.status = entry.status
<1> USE DEF Metrics!Written
<1>0. /\ entry.metrics \in Metrics!Definitions /\ entry.bindings \subseteq Metrics!Keys
      /\ entry.score \in Metrics!Score \cup {None}
      /\ \A k \in Metrics!Keys : entry.metrics[k] # None => entry.metrics[k] \in Metrics!Metric
      /\ System \cup entry.bindings \cup Metrics!ScoreLeaves(entry) \subseteq Metrics!Defined(entry.metrics)
    BY RowFields DEF Metrics!Complete
<1>1. CASE w.kind = "metric"
    <2> DEFINE before == entry.metrics[w.key]
               m == [deps |-> w.keys, status |-> IF before = None THEN "not_collected" ELSE before.status]
               M == [entry.metrics EXCEPT ![w.key] = m]
    <2>1. after = [entry EXCEPT !.metrics = M]
        BY <1>1 DEF Metrics!SaveBusinessMetric
    <2>2. w.key \in Metrics!Keys /\ w.keys \subseteq Metrics!Keys
        BY <1>1, MetricSets DEF Metrics!Writes
    <2>3. m \in Metrics!Metric
        BY <1>0, <2>2 DEF Metrics!Metric, Metrics!Statuses
    <2> HIDE DEF m
    <2>4. M \in Metrics!Definitions /\ Metrics!Defined(entry.metrics) \subseteq Metrics!Defined(M)
        BY <1>0, <2>2, <2>3, MetricSets DEF Metrics!Definitions, Metrics!Defined
    <2> HIDE DEF M
    <2>5. /\ after \in Metrics!Row /\ after.status = entry.status /\ after.metrics = M
          /\ after.bindings = entry.bindings /\ after.score = entry.score
        BY <2>1, <2>4 DEF Metrics!Row
    <2> QED BY <1>0, <2>4, <2>5 DEF Becomes, Metrics!Complete, Metrics!ScoreLeaves
<1>2. CASE w.kind = "delete"
    <2> DEFINE M == [entry.metrics EXCEPT ![w.key] = None]
    <2>1. after = [entry EXCEPT !.metrics = M] /\ w.key \notin entry.bindings \cup Metrics!ScoreLeaves(entry)
        BY <1>2 DEF Metrics!DeleteBusinessMetric
    <2>2. w.key \in Metrics!Keys \ System
        BY <1>2, MetricSets DEF Metrics!Writes
    <2>3. M \in Metrics!Definitions /\ Metrics!Defined(entry.metrics) \ {w.key} \subseteq Metrics!Defined(M)
        BY <1>0, <2>2 DEF Metrics!Definitions, Metrics!Defined
    <2> HIDE DEF M
    <2>4. /\ after \in Metrics!Row /\ after.status = entry.status /\ after.metrics = M
          /\ after.bindings = entry.bindings /\ after.score = entry.score
        BY <2>1, <2>3 DEF Metrics!Row
    <2> QED BY <1>0, <2>1, <2>2, <2>3, <2>4 DEF Becomes, Metrics!Complete, Metrics!ScoreLeaves
<1>3. CASE w.kind = "bindings"
    <2> DEFINE score == Metrics!Discard(entry.score)
    <2>1. /\ after = [entry EXCEPT !.bindings = w.keys, !.score = score]
          /\ \A k \in w.keys : k \in Metrics!Defined(entry.metrics)
        BY <1>3 DEF Metrics!SaveDisplayBindings
    <2>2. w.keys \in SUBSET Metrics!Keys
        BY <2>1 DEF Metrics!Defined
    <2>3. /\ score \in Metrics!Score \cup {None} /\ (score = None <=> entry.score = None)
          /\ entry.score # None => score.leaves = entry.score.leaves /\ score.reviewed = None
        BY <1>0, DiscardedScore
    <2> HIDE DEF score
    <2>4. /\ after \in Metrics!Row /\ after.status = entry.status /\ after.metrics = entry.metrics
          /\ after.bindings = w.keys /\ after.score = score
        BY <2>1, <2>2, <2>3 DEF Metrics!Row
    <2>5. Metrics!ScoreLeaves(after) = Metrics!ScoreLeaves(entry)
        BY <2>3, <2>4 DEF Metrics!ScoreLeaves
    <2>6. Metrics!Complete(after)
        BY <1>0, <2>1, <2>4, <2>5 DEF Metrics!Complete
    <2> QED BY <2>3, <2>4, <2>6 DEF Becomes
<1>4. CASE w.kind = "score"
    <2> DEFINE score == [leaves |-> w.keys, confirmed |-> w.confirmed, reviewed |-> None]
    <2>1. after = [entry EXCEPT !.score = score] /\ w.keys \subseteq Metrics!Defined(entry.metrics)
        BY <1>4 DEF Metrics!SaveScore
    <2>2. w.confirmed \in BOOLEAN /\ w.keys \in SUBSET Metrics!Keys
        BY <1>4, <2>1 DEF Metrics!Writes, Metrics!Defined
    <2>3. score \in Metrics!Score /\ score.leaves = w.keys /\ score.reviewed = None
        BY <2>2 DEF Metrics!Score
    <2> HIDE DEF score
    <2>4. /\ after \in Metrics!Row /\ after.status = entry.status /\ after.metrics = entry.metrics
          /\ after.bindings = entry.bindings /\ after.score = score
        BY <2>1, <2>3 DEF Metrics!Row
    <2>5. score # None
        BY <2>3, MetricSets
    <2>6. Metrics!ScoreLeaves(after) = w.keys
        BY <2>3, <2>4, <2>5 DEF Metrics!ScoreLeaves
    <2>7. Metrics!Complete(after)
        BY <1>0, <2>1, <2>4, <2>6 DEF Metrics!Complete
    <2> QED BY <2>3, <2>4, <2>5, <2>7 DEF Becomes
<1> QED BY <1>1, <1>2, <1>3, <1>4 DEF Metrics!Writes

\* Rows that a refresh takes from the catalog.
LEMMA RefreshBecomes ==
    ASSUME catalog \in [System -> Metrics!Statuses], NEW entry \in Metrics!Row, Metrics!Complete(entry),
           NEW f \in Families, NEW after, after = Metrics!Refreshed(entry, f)
    PROVE  Becomes(entry, after) /\ after.status = entry.status
<1> DEFINE M == [k \in Metrics!Keys |-> IF k \in f.keys THEN [deps |-> {}, status |-> catalog[k]] ELSE entry.metrics[k]]
           score == IF f.resets THEN Metrics!Discard(entry.score) ELSE entry.score
<1>a. after = [entry EXCEPT !.metrics = M, !.score = score]
    BY DEF Metrics!Refreshed
<1>0. /\ entry.metrics \in Metrics!Definitions /\ entry.bindings \subseteq Metrics!Keys
      /\ entry.score \in Metrics!Score \cup {None}
      /\ System \cup entry.bindings \cup Metrics!ScoreLeaves(entry) \subseteq Metrics!Defined(entry.metrics)
    BY RowFields DEF Metrics!Complete
<1>1. f.keys \subseteq System
    BY MetricSets
<1>2. \A k \in f.keys : [deps |-> {}, status |-> catalog[k]] \in Metrics!Metric
    BY <1>1 DEF Metrics!Metric
<1>3. M \in Metrics!Definitions /\ Metrics!Defined(entry.metrics) \subseteq Metrics!Defined(M)
    BY <1>0, <1>2, MetricSets DEF Metrics!Definitions, Metrics!Defined
<1>4. /\ score \in Metrics!Score \cup {None} /\ (score = None <=> entry.score = None)
      /\ entry.score # None => score.leaves = entry.score.leaves /\ score.reviewed \in {None, entry.score.reviewed}
    BY <1>0, DiscardedScore
<1> HIDE DEF M, score
<1>5. /\ after \in Metrics!Row /\ after.status = entry.status /\ after.metrics = M
      /\ after.bindings = entry.bindings /\ after.score = score
    BY <1>a, <1>3, <1>4 DEF Metrics!Row
<1>6. Metrics!ScoreLeaves(after) = Metrics!ScoreLeaves(entry)
    BY <1>4, <1>5 DEF Metrics!ScoreLeaves
<1>7. Metrics!Complete(after)
    BY <1>0, <1>3, <1>5, <1>6 DEF Metrics!Complete
<1> QED BY <1>4, <1>5, <1>7 DEF Becomes

-----------------------------------------------------------------------------
\* The metric library: what a step makes of the versions.

Stays == UNCHANGED <<versions, periods>>

Grows(entry) ==
    /\ versions' = Append(versions, entry) /\ Len(versions) < MaxVersions /\ Metrics!Having("draft") = {}
    /\ entry \in Metrics!Row /\ entry.status = "draft" /\ Metrics!Complete(entry)
    /\ entry.score # None => entry.score.reviewed = None
    /\ UNCHANGED periods

Replaces(v, entry) ==
    versions' = [versions EXCEPT ![v] = entry] /\ Becomes(versions[v], entry) /\ UNCHANGED periods

\* A draft is written, refreshed or given up.
Edits(v, entry) ==
    /\ Replaces(v, entry)
    /\ versions[v].status = "draft" /\ entry.status \in {"draft", "abandoned"}

\* A review is recorded, whatever the version is by now.
Reviews(v, entry) ==
    /\ Replaces(v, entry)
    /\ entry.status = versions[v].status /\ entry.metrics = versions[v].metrics /\ entry.bindings = versions[v].bindings
    /\ versions[v].score # None /\ entry.score # None /\ entry.score.leaves = versions[v].score.leaves

\* What a request is made of.
LEMMA RequestFields ==
    ASSUME Metrics!TypeOK, NEW a \in Admins, request[a] # None
    PROVE  /\ request[a] \in Metrics!Pending /\ request[a].version \in DOMAIN versions
           /\ request[a].step = "write" => request[a].write \in Metrics!Writes
           /\ request[a].step = "bindings" => request[a].bindings \in SUBSET Metrics!Keys
           /\ request[a].step = "definitions" =>
                request[a].bindings \in SUBSET Metrics!Keys /\ request[a].metrics \in Metrics!Definitions
           /\ request[a].step = "review" => request[a].digest \in Metrics!Digests
<1>1. request[a] \in Metrics!Pending /\ request[a].version \in DOMAIN versions
    BY DEF Metrics!TypeOK
<1> QED BY <1>1 DEF Metrics!Pending

\* A request may create the draft it is for; from then on it waits to write.
LEMMA PrepareShape ==
    ASSUME Metrics!TypeOK, NEW a \in Admins, Metrics!Prepare(a)
    PROVE  /\ Stays \/ \E entry : Grows(entry)
           /\ UNCHANGED <<catalog, seen>>
           /\ \E w \in Metrics!Writes, target \in DOMAIN versions' :
                request' = [request EXCEPT ![a] = [step |-> "write", write |-> w, version |-> target]]
<1>1. PICK v \in DOMAIN versions, w \in Metrics!Writes :
        LET before == Metrics!Reusable(v)
            target == IF versions[v].status = "draft" THEN v
                      ELSE IF before # {} THEN CHOOSE d \in before : TRUE ELSE Len(versions) + 1
            all == IF target \in DOMAIN versions THEN versions ELSE Append(versions, Metrics!Copy(v))
        IN  /\ target \in DOMAIN versions \/ Metrics!Creatable(v)
            /\ Metrics!Prevalid(all[target].metrics, w)
            /\ versions[v].status # "abandoned"
            /\ versions' = all
            /\ request' = [request EXCEPT ![a] = [step |-> "write", write |-> w, version |-> target]]
    BY DEF Metrics!Prepare
<1> DEFINE before == Metrics!Reusable(v)
           target == IF versions[v].status = "draft" THEN v
                     ELSE IF before # {} THEN CHOOSE d \in before : TRUE ELSE Len(versions) + 1
<1>2. /\ target \in DOMAIN versions \/ Metrics!Creatable(v)
      /\ versions' = IF target \in DOMAIN versions THEN versions ELSE Append(versions, Metrics!Copy(v))
      /\ request' = [request EXCEPT ![a] = [step |-> "write", write |-> w, version |-> target]]
    BY <1>1
<1>3. target \in DOMAIN versions \/ target = Len(versions) + 1
    BY DEF Metrics!Reusable, Metrics!Having
<1> HIDE DEF target
<1>4. UNCHANGED <<periods, catalog, seen>>
    BY DEF Metrics!Prepare
<1>5. CASE target \in DOMAIN versions
    BY <1>2, <1>4, <1>5 DEF Stays
<1>6. CASE target \notin DOMAIN versions
    <2>1. Grows(Metrics!Copy(v))
        BY <1>2, <1>4, <1>6, CopyCopies DEF Grows, Metrics!Creatable
    <2>2. target \in DOMAIN versions'
        BY <1>2, <1>3, <1>6 DEF Metrics!TypeOK
    <2> QED BY <1>2, <1>4, <2>1, <2>2
<1> QED BY <1>5, <1>6

\* A write edits a draft, or changes nothing.
LEMMA WriteShape ==
    ASSUME Metrics!TypeOK, NEW a \in Admins, Metrics!Write(a)
    PROVE  Stays \/ \E v \in DOMAIN versions : \E entry : Edits(v, entry)
<1> DEFINE v == request[a].version
           entry == Metrics!Written(versions[v], request[a].write)
<1>1. /\ versions' = IF Metrics!StillDraft(v) /\ entry # None THEN [versions EXCEPT ![v] = entry] ELSE versions
      /\ UNCHANGED <<periods, seen>>
    BY DEF Metrics!Write
<1>2. v \in DOMAIN versions /\ request[a].write \in Metrics!Writes
    BY RequestFields DEF Metrics!Write, Metrics!At
<1>3. versions[v] \in Metrics!Row /\ Metrics!Complete(versions[v])
    BY <1>2 DEF Metrics!TypeOK
<1>4. CASE ~(Metrics!StillDraft(v) /\ entry # None)
    BY <1>1, <1>4 DEF Stays
<1>5. CASE Metrics!StillDraft(v) /\ entry # None
    <2>1. Becomes(versions[v], entry) /\ entry.status = versions[v].status
        BY <1>2, <1>3, <1>5, WrittenBecomes
    <2> HIDE DEF entry
    <2>2. Edits(v, entry)
        BY <1>1, <1>5, <2>1 DEF Edits, Replaces, Metrics!StillDraft
    <2> QED BY <1>2, <2>2
<1> QED BY <1>4, <1>5

\* A refresh edits a draft.
LEMMA RefreshShape ==
    ASSUME Metrics!TypeOK, NEW v \in DOMAIN versions, Metrics!Refresh(v)
    PROVE  \E entry : Edits(v, entry)
<1>1. PICK f \in Families : versions' = [versions EXCEPT ![v] = Metrics!Refreshed(versions[v], f)]
    BY DEF Metrics!Refresh
<1>2. /\ versions[v] \in Metrics!Row /\ Metrics!Complete(versions[v])
      /\ catalog \in [System -> Metrics!Statuses]
    BY DEF Metrics!TypeOK
<1>3. Becomes(versions[v], Metrics!Refreshed(versions[v], f)) /\ Metrics!Refreshed(versions[v], f).status = versions[v].status
    BY <1>2, RefreshBecomes
<1>4. Edits(v, Metrics!Refreshed(versions[v], f))
    BY <1>1, <1>3 DEF Edits, Replaces, Metrics!Refresh, Metrics!StillDraft
<1> QED BY <1>4

\* Giving a draft up is an edit too.
LEMMA AbandonShape ==
    ASSUME Metrics!TypeOK, NEW v \in DOMAIN versions, Metrics!AbandonDraft(v)
    PROVE  \E entry : Edits(v, entry)
<1> DEFINE before == versions[v]
           entry == [before EXCEPT !.status = "abandoned"]
<1>1. versions \in Seq(Metrics!Row) /\ before \in Metrics!Row /\ Metrics!Complete(before)
    BY DEF Metrics!TypeOK
<1>2. versions' = [versions EXCEPT ![v] = entry]
    BY DEF Metrics!AbandonDraft
<1>3. /\ entry \in Metrics!Row /\ entry.status = "abandoned" /\ entry.metrics = before.metrics
      /\ entry.bindings = before.bindings /\ entry.score = before.score
    BY <1>1 DEF Metrics!Row
<1> HIDE DEF entry
<1>4. Becomes(before, entry)
    BY <1>1, <1>3 DEF Becomes, Metrics!Complete, Metrics!ScoreLeaves
<1>5. Edits(v, entry)
    BY <1>2, <1>3, <1>4 DEF Edits, Replaces, Metrics!AbandonDraft, Metrics!StillDraft
<1> QED BY <1>5

\* A recorded review changes only the review.
LEMMA ReviewShape ==
    ASSUME Metrics!TypeOK, Metrics!ReviewsWereMade, NEW a \in Admins, Metrics!RecordReview(a)
    PROVE  \E v \in DOMAIN versions : \E entry : Reviews(v, entry)
<1> DEFINE v == request[a].version
           d == request[a].digest
           before == versions[v]
           score == [before.score EXCEPT !.reviewed = d]
           entry == [before EXCEPT !.score = score]
<1>1. /\ v \in DOMAIN versions /\ d \in Metrics!Digests /\ d \in seen /\ before.score # None
    BY RequestFields DEF Metrics!RecordReview, Metrics!At, Metrics!ReviewsWereMade
<1>2. versions \in Seq(Metrics!Row) /\ before \in Metrics!Row /\ Metrics!Complete(before)
    BY <1>1 DEF Metrics!TypeOK
<1>3. versions' = [versions EXCEPT ![v].score.reviewed = d] /\ UNCHANGED <<periods, seen>>
    BY DEF Metrics!RecordReview
<1>4. versions' = [versions EXCEPT ![v] = entry]
    BY <1>3
<1>5. before.score \in Metrics!Score
    BY <1>1, <1>2, RowFields
<1> HIDE DEF v, d, before
<1>6. score \in Metrics!Score /\ score.leaves = before.score.leaves /\ score.reviewed = d /\ score # None
    BY <1>1, <1>5, MetricSets DEF Metrics!Score
<1> HIDE DEF score
<1>7. /\ entry \in Metrics!Row /\ entry.status = before.status /\ entry.metrics = before.metrics
      /\ entry.bindings = before.bindings /\ entry.score = score
    BY <1>2, <1>6 DEF Metrics!Row
<1> HIDE DEF entry
<1>8. Metrics!ScoreLeaves(entry) = Metrics!ScoreLeaves(before)
    BY <1>1, <1>6, <1>7 DEF Metrics!ScoreLeaves
<1>9. Becomes(before, entry)
    BY <1>1, <1>2, <1>3, <1>6, <1>7, <1>8 DEF Becomes, Metrics!Complete
<1>10. Reviews(v, entry)
    BY <1>1, <1>3, <1>4, <1>6, <1>7, <1>9 DEF Reviews, Replaces, before
<1> QED BY <1>1, <1>10

\* What a step can make of the versions.
LEMMA MetricShapes ==
    ASSUME Metrics!TypeOK, Metrics!ReviewsWereMade, [Metrics!Next]_(Metrics!vars)
    PROVE  \/ Stays
           \/ \E entry : Grows(entry)
           \/ \E v \in DOMAIN versions : \E entry : Edits(v, entry) \/ Reviews(v, entry)
           \/ \E v \in DOMAIN versions : Metrics!Activate(v)
<1>1. CASE Metrics!CreateDraft
    <2>1. PICK requested \in (DOMAIN versions) \cup {None} :
            /\ Metrics!Creatable(requested)
            /\ versions' = Append(versions, Metrics!Copy(Metrics!Source(requested)))
            /\ UNCHANGED <<catalog, periods, request, saves, seen>>
        BY <1>1 DEF Metrics!CreateDraft
    <2>2. Metrics!Source(requested) \in (DOMAIN versions) \cup {None}
        BY DEF Metrics!Source, Metrics!Having
    <2>3. Grows(Metrics!Copy(Metrics!Source(requested)))
        BY <2>1, <2>2, CopyCopies DEF Grows, Metrics!Creatable
    <2> QED BY <2>3
<1>2. CASE Metrics!Upgrade \/ UNCHANGED Metrics!vars
    BY <1>2 DEF Metrics!Upgrade, Metrics!vars, Stays
<1>3. ASSUME NEW a \in Admins, Metrics!Fail(a) \/ Metrics!ReadBindings(a) \/ Metrics!ReadDefinitions(a) \/ Metrics!ReadScore(a)
      PROVE  Stays
    BY <1>3 DEF Metrics!Fail, Metrics!ReadBindings, Metrics!ReadDefinitions, Metrics!ReadScore, Stays
<1> QED BY <1>1, <1>2, <1>3, PrepareShape, WriteShape, RefreshShape, AbandonShape, ReviewShape DEF Metrics!Next

\* The versions after one was added.
LEMMA GrownVersions ==
    ASSUME Metrics!TypeOK, NEW entry, Grows(entry)
    PROVE  /\ versions' \in Seq(Metrics!Row) /\ Len(versions') \in 1 .. MaxVersions
           /\ DOMAIN versions' = 1 .. Len(versions) + 1 /\ DOMAIN versions = 1 .. Len(versions)
           /\ versions'[Len(versions) + 1] = entry
           /\ \A v \in DOMAIN versions : v \in DOMAIN versions' /\ versions'[v] = versions[v]
           /\ \A v \in DOMAIN versions' : v \in DOMAIN versions \/ v = Len(versions) + 1
<1>1. /\ versions \in Seq(Metrics!Row) /\ entry \in Metrics!Row /\ versions' = Append(versions, entry)
      /\ Len(versions) < MaxVersions /\ Len(versions) \in Nat /\ MaxVersions \in Nat
    BY AdministrationAssumption DEF Metrics!TypeOK, Grows
<1>2. /\ versions' \in Seq(Metrics!Row) /\ Len(versions') = Len(versions) + 1
      /\ DOMAIN versions' = 1 .. Len(versions) + 1 /\ DOMAIN versions = 1 .. Len(versions)
      /\ versions'[Len(versions) + 1] = entry
      /\ \A v \in 1 .. Len(versions) : versions'[v] = versions[v]
    BY <1>1
<1> QED BY <1>1, <1>2

\* The versions after one was replaced.
LEMMA ReplacedVersions ==
    ASSUME Metrics!TypeOK, NEW v \in DOMAIN versions, NEW entry, Replaces(v, entry)
    PROVE  /\ versions' \in Seq(Metrics!Row) /\ Len(versions') = Len(versions) /\ DOMAIN versions' = DOMAIN versions
           /\ versions'[v] = entry /\ versions[v] \in Metrics!Row
           /\ \A u \in DOMAIN versions : u # v => versions'[u] = versions[u]
<1>1. versions \in Seq(Metrics!Row) /\ entry \in Metrics!Row /\ versions' = [versions EXCEPT ![v] = entry]
    BY DEF Metrics!TypeOK, Replaces, Becomes
<1>2. v \in 1 .. Len(versions) /\ versions[v] \in Metrics!Row
    BY <1>1
<1>3. versions' \in Seq(Metrics!Row) /\ Len(versions') = Len(versions) /\ DOMAIN versions' = DOMAIN versions
    BY <1>1, <1>2, ExceptSeq
<1> QED BY <1>1, <1>2, <1>3

\* The version that was active is superseded, and the other one takes its place.
LEMMA ActivatedVersions ==
    ASSUME Metrics!TypeOK, NEW v \in DOMAIN versions, Metrics!Activate(v)
    PROVE  /\ versions' \in Seq(Metrics!Row) /\ Len(versions') = Len(versions) /\ DOMAIN versions' = DOMAIN versions
           /\ versions'[v] \in Metrics!Row /\ versions'[v].status = "active"
           /\ versions'[v].metrics = Metrics!Activated(versions[v])
           /\ versions'[v].bindings = versions[v].bindings /\ versions'[v].score = versions[v].score
           /\ \A u \in DOMAIN versions : u # v =>
                /\ versions'[u] \in Metrics!Row
                /\ versions'[u].status = IF versions[u].status = "active" THEN "superseded" ELSE versions[u].status
                /\ versions'[u].metrics = versions[u].metrics
                /\ versions'[u].bindings = versions[u].bindings /\ versions'[u].score = versions[u].score
<1> DEFINE S == [u \in DOMAIN versions |-> Metrics!Supersede(versions[u])]
           M == Metrics!Activated(versions[v])
           entry == [versions[v] EXCEPT !.status = "active", !.metrics = M]
<1>1. /\ versions \in Seq(Metrics!Row) /\ Len(versions) \in Nat /\ DOMAIN versions = 1 .. Len(versions)
      /\ \A u \in DOMAIN versions : versions[u] \in Metrics!Row
    BY DEF Metrics!TypeOK
<1>2. versions[v].status # "active" /\ versions' = [S EXCEPT ![v].status = "active", ![v].metrics = M]
    BY DEF Metrics!Activate
<1>3. M \in Metrics!Definitions
    BY <1>1, RowFields, DeriveKeeps DEF Metrics!Activated
<1>4. DOMAIN S = DOMAIN versions /\ S = [u \in DOMAIN versions |-> S[u]] /\ S[v] = versions[v]
    BY <1>2 DEF Metrics!Supersede
<1>5. ASSUME NEW u \in DOMAIN versions
      PROVE  /\ S[u] \in Metrics!Row
             /\ S[u].status = IF versions[u].status = "active" THEN "superseded" ELSE versions[u].status
             /\ S[u].metrics = versions[u].metrics
             /\ S[u].bindings = versions[u].bindings /\ S[u].score = versions[u].score
    <2>1. CASE versions[u].status = "active"
        BY <1>1, <2>1 DEF Metrics!Supersede, Metrics!Row
    <2>2. CASE versions[u].status # "active"
        BY <1>1, <2>2 DEF Metrics!Supersede
    <2> QED BY <2>1, <2>2
<1> HIDE DEF S, M
<1>6. S \in Seq(Metrics!Row) /\ Len(S) = Len(versions)
    <2>1. S \in [1 .. Len(versions) -> Metrics!Row]
        BY <1>1, <1>4, <1>5
    <2> QED BY <1>1, <1>4, <2>1
<1>7. versions' = [S EXCEPT ![v] = entry]
    BY <1>1, <1>2, <1>4 DEF Metrics!Row
<1>8. /\ entry \in Metrics!Row /\ entry.status = "active" /\ entry.metrics = M
      /\ entry.bindings = versions[v].bindings /\ entry.score = versions[v].score
    BY <1>1, <1>3 DEF Metrics!Row
<1> HIDE DEF entry
<1>9. versions' \in Seq(Metrics!Row) /\ Len(versions') = Len(S) /\ DOMAIN versions' = DOMAIN S
    <2>1. v \in 1 .. Len(S)
        BY <1>1, <1>6
    <2> QED BY <1>6, <1>7, <1>8, <2>1, ExceptSeq
<1>10. versions'[v] = entry /\ \A u \in DOMAIN versions : u # v => versions'[u] = S[u]
    BY <1>4, <1>7
<1> QED BY <1>4, <1>5, <1>6, <1>8, <1>9, <1>10 DEF M

\* Rows are added or replaced, never removed; a score is never taken away, and its review is
\* one that was made.
RowsStand ==
    /\ versions' \in Seq(Metrics!Row) /\ Len(versions') \in 1 .. MaxVersions
    /\ \A v \in DOMAIN versions' : Metrics!Complete(versions'[v])
    /\ \A v \in DOMAIN versions : v \in DOMAIN versions' /\ (versions[v].score # None => versions'[v].score # None)
    /\ \A v \in DOMAIN versions' : versions'[v].score # None => versions'[v].score.reviewed \in seen' \cup {None}

\* No step breaks a row.
LEMMA RowsStandAtEachStep ==
    ASSUME Metrics!TypeOK, Metrics!ReviewsWereMade, [Metrics!Next]_(Metrics!vars)
    PROVE  RowsStand
<1>0. /\ versions \in Seq(Metrics!Row) /\ Len(versions) \in 1 .. MaxVersions
      /\ \A v \in DOMAIN versions : Metrics!Complete(versions[v])
      /\ \A v \in DOMAIN versions : versions[v].score # None => versions[v].score.reviewed \in seen \cup {None}
      /\ DOMAIN versions = 1 .. Len(versions)
    BY DEF Metrics!TypeOK, Metrics!ReviewsWereMade
<1>1. seen \subseteq seen'
    <2>1. ASSUME NEW a \in Admins, \/ Metrics!Prepare(a) \/ Metrics!Write(a) \/ Metrics!Fail(a) \/ Metrics!ReadBindings(a)
                                  \/ Metrics!ReadDefinitions(a) \/ Metrics!ReadScore(a) \/ Metrics!RecordReview(a)
          PROVE  seen \subseteq seen'
        BY <2>1 DEF Metrics!Prepare, Metrics!Write, Metrics!Fail, Metrics!ReadBindings, Metrics!ReadDefinitions,
                    Metrics!ReadScore, Metrics!RecordReview
    <2>2. ASSUME NEW v \in DOMAIN versions, Metrics!Refresh(v) \/ Metrics!AbandonDraft(v) \/ Metrics!Activate(v)
          PROVE  seen \subseteq seen'
        BY <2>2 DEF Metrics!Refresh, Metrics!AbandonDraft, Metrics!Activate
    <2>3. CASE Metrics!CreateDraft \/ Metrics!Upgrade \/ UNCHANGED Metrics!vars
        BY <2>3 DEF Metrics!CreateDraft, Metrics!Upgrade, Metrics!vars
    <2> QED BY <2>1, <2>2, <2>3 DEF Metrics!Next
<1>2. CASE Stays
    <2>1. versions' = versions
        BY <1>2 DEF Stays
    <2>2. \A v \in DOMAIN versions' : Metrics!Complete(versions'[v])
        BY <1>0, <2>1
    <2>3. \A v \in DOMAIN versions' : versions'[v].score # None => versions'[v].score.reviewed \in seen' \cup {None}
        BY <1>0, <1>1, <2>1
    <2> QED BY <1>0, <2>1, <2>2, <2>3 DEF RowsStand
<1>3. ASSUME NEW entry, Grows(entry)
      PROVE  RowsStand
    <2>1. /\ Metrics!Complete(entry) /\ (entry.score # None => entry.score.reviewed = None)
        BY <1>3 DEF Grows
    <2>2. /\ versions' \in Seq(Metrics!Row) /\ Len(versions') \in 1 .. MaxVersions
          /\ versions'[Len(versions) + 1] = entry
          /\ \A v \in DOMAIN versions : v \in DOMAIN versions' /\ versions'[v] = versions[v]
          /\ \A v \in DOMAIN versions' : v \in DOMAIN versions \/ v = Len(versions) + 1
        BY <1>3, GrownVersions
    <2>3. \A v \in DOMAIN versions' : Metrics!Complete(versions'[v])
        BY <1>0, <2>1, <2>2
    <2>4. \A v \in DOMAIN versions' : versions'[v].score # None => versions'[v].score.reviewed \in seen' \cup {None}
        BY <1>0, <1>1, <2>1, <2>2
    <2>5. \A v \in DOMAIN versions : v \in DOMAIN versions' /\ (versions[v].score # None => versions'[v].score # None)
        BY <2>2
    <2> QED BY <2>2, <2>3, <2>4, <2>5 DEF RowsStand
<1>4. ASSUME NEW v \in DOMAIN versions, NEW entry, Replaces(v, entry)
      PROVE  RowsStand
    <2>1. Becomes(versions[v], entry)
        BY <1>4 DEF Replaces
    <2>2. /\ versions' \in Seq(Metrics!Row) /\ Len(versions') = Len(versions) /\ DOMAIN versions' = DOMAIN versions
          /\ versions'[v] = entry
          /\ \A u \in DOMAIN versions : u # v => versions'[u] = versions[u]
        BY <1>4, ReplacedVersions
    <2>3. \A u \in DOMAIN versions' : Metrics!Complete(versions'[u])
        BY <1>0, <2>1, <2>2 DEF Becomes
    <2>4. ASSUME NEW u \in DOMAIN versions', versions'[u].score # None
          PROVE  versions'[u].score.reviewed \in seen' \cup {None}
        <3>1. CASE u = v
            BY <1>0, <1>1, <2>1, <2>2, <2>4, <3>1 DEF Becomes
        <3>2. CASE u # v
            BY <1>0, <1>1, <2>2, <2>4, <3>2
        <3> QED BY <3>1, <3>2
    <2>5. \A u \in DOMAIN versions : u \in DOMAIN versions' /\ (versions[u].score # None => versions'[u].score # None)
        BY <2>1, <2>2 DEF Becomes
    <2> QED BY <1>0, <2>2, <2>3, <2>4, <2>5 DEF RowsStand
<1>5. ASSUME NEW v \in DOMAIN versions, Metrics!Activate(v)
      PROVE  RowsStand
    <2>1. /\ versions' \in Seq(Metrics!Row) /\ Len(versions') = Len(versions) /\ DOMAIN versions' = DOMAIN versions
          /\ versions'[v].metrics = Metrics!Activated(versions[v])
          /\ \A u \in DOMAIN versions :
               /\ u # v => versions'[u].metrics = versions[u].metrics
               /\ versions'[u].bindings = versions[u].bindings /\ versions'[u].score = versions[u].score
        BY <1>5, ActivatedVersions
    <2>2. Metrics!Defined(Metrics!Activated(versions[v])) = Metrics!Defined(versions[v].metrics)
        <3>1. versions[v].metrics \in Metrics!Definitions
            BY <1>0, RowFields
        <3> QED BY <3>1, DeriveKeeps DEF Metrics!Activated
    <2>3. ASSUME NEW u \in DOMAIN versions
          PROVE  Metrics!Complete(versions'[u])
        <3>1. Metrics!Complete(versions[u])
            BY <1>0
        <3>2. Metrics!Defined(versions'[u].metrics) = Metrics!Defined(versions[u].metrics)
            BY <2>1, <2>2
        <3>3. Metrics!ScoreLeaves(versions'[u]) = Metrics!ScoreLeaves(versions[u])
            BY <2>1 DEF Metrics!ScoreLeaves
        <3> QED BY <2>1, <3>1, <3>2, <3>3 DEF Metrics!Complete
    <2>4. \A u \in DOMAIN versions' : versions'[u].score # None => versions'[u].score.reviewed \in seen' \cup {None}
        BY <1>0, <1>1, <2>1
    <2>5. \A u \in DOMAIN versions : u \in DOMAIN versions' /\ (versions[u].score # None => versions'[u].score # None)
        BY <2>1
    <2> QED BY <1>0, <2>1, <2>3, <2>4, <2>5 DEF RowsStand
<1> QED BY <1>2, <1>3, <1>4, <1>5, MetricShapes DEF Edits, Reviews

\* The variables of the library keep their types.
LEMMA MetricTypes ==
    ASSUME Metrics!TypeOK, Metrics!ReviewsWereMade, [Metrics!Next]_(Metrics!vars)
    PROVE  Metrics!TypeOK'
<1>1. /\ versions' \in Seq(Metrics!Row) /\ Len(versions') \in 1 .. MaxVersions
      /\ \A v \in DOMAIN versions' : Metrics!Complete(versions'[v])
      /\ \A v \in DOMAIN versions : v \in DOMAIN versions'
    BY RowsStandAtEachStep DEF RowsStand
<1>2. periods' \in Seq(Metrics!Period)
    <2>1. periods \in Seq(Metrics!Period) /\ versions \in Seq(Metrics!Row)
        BY DEF Metrics!TypeOK
    <2>2. ASSUME NEW v \in DOMAIN versions, Metrics!Activate(v)
          PROVE  periods' \in Seq(Metrics!Period)
        <3> DEFINE P == [p \in DOMAIN periods |-> [periods[p] EXCEPT !.open = FALSE]]
        <3>1. periods' = Append(P, [version |-> v, open |-> TRUE])
            BY <2>2 DEF Metrics!Activate, Metrics!NextPeriods
        <3>a. \A p \in DOMAIN periods : periods[p] \in Metrics!Period
            BY <2>1
        <3>2. \A p \in DOMAIN periods : [periods[p] EXCEPT !.open = FALSE] \in Metrics!Period
            BY <3>a DEF Metrics!Period
        <3>3. P \in [1 .. Len(periods) -> Metrics!Period] /\ Len(periods) \in Nat
            BY <2>1, <3>2
        <3>4. P \in Seq(Metrics!Period)
            BY <3>3
        <3>5. [version |-> v, open |-> TRUE] \in Metrics!Period
            BY <2>1 DEF Metrics!Period
        <3> HIDE DEF P
        <3> QED BY <3>1, <3>4, <3>5
    <2> QED BY <2>1, <2>2, MetricShapes DEF Stays, Grows, Edits, Reviews, Replaces
<1> DEFINE Others ==
             /\ catalog' \in [System -> Metrics!Statuses] /\ saves' \in 0 .. MaxSaves
             /\ seen' \subseteq Metrics!Digests
             /\ request' \in [Admins -> Metrics!Pending \cup {None}]
             /\ \A a \in Admins : request'[a] # None => request'[a].version \in DOMAIN versions'
<1>3. Others
    <2>0. /\ catalog \in [System -> Metrics!Statuses] /\ saves \in 0 .. MaxSaves /\ MaxSaves \in Nat
          /\ seen \subseteq Metrics!Digests
          /\ request \in [Admins -> Metrics!Pending \cup {None}]
          /\ \A a \in Admins : request[a] # None => request[a].version \in DOMAIN versions
          /\ DOMAIN versions \subseteq Nat
          /\ \A v \in DOMAIN versions : versions[v] \in Metrics!Row
        BY AdministrationAssumption DEF Metrics!TypeOK
    <2>1. ASSUME NEW a \in Admins, Metrics!Prepare(a)
          PROVE  Others
        <3>1. /\ UNCHANGED <<catalog, seen>>
              /\ \E w \in Metrics!Writes, target \in DOMAIN versions' :
                   request' = [request EXCEPT ![a] = [step |-> "write", write |-> w, version |-> target]]
            BY <2>1, PrepareShape
        <3>2. PICK w \in Metrics!Writes, target \in DOMAIN versions' :
                request' = [request EXCEPT ![a] = [step |-> "write", write |-> w, version |-> target]]
            BY <3>1
        <3>3. target \in Nat
            BY <1>1
        <3>4. [step |-> "write", write |-> w, version |-> target] \in Metrics!Pending
            BY <3>3 DEF Metrics!Pending
        <3>5. saves' \in 0 .. MaxSaves
            BY <2>0, <2>1 DEF Metrics!Prepare
        <3>6. request' \in [Admins -> Metrics!Pending \cup {None}]
            BY <2>0, <3>2, <3>4
        <3>7. request'[a].version = target /\ \A b \in Admins \ {a} : request'[b] = request[b]
            BY <2>0, <3>2
        <3> QED BY <1>1, <2>0, <3>1, <3>5, <3>6, <3>7
    <2>2. ASSUME NEW a \in Admins, Metrics!Write(a) \/ Metrics!Fail(a) \/ Metrics!RecordReview(a)
          PROVE  Others
        BY <1>1, <2>0, <2>2 DEF Metrics!Write, Metrics!Fail, Metrics!RecordReview
    <2>3. ASSUME NEW a \in Admins, Metrics!ReadBindings(a)
          PROVE  Others
        <3>1. PICK v \in DOMAIN versions :
                request' = [request EXCEPT ![a] = [step |-> "bindings", version |-> v, bindings |-> versions[v].bindings]]
            BY <2>3 DEF Metrics!ReadBindings
        <3>2. versions[v].bindings \in SUBSET Metrics!Keys /\ v \in Nat
            BY <2>0, RowFields
        <3>3. [step |-> "bindings", version |-> v, bindings |-> versions[v].bindings] \in Metrics!Pending
            BY <3>2 DEF Metrics!Pending
        <3>4. request' \in [Admins -> Metrics!Pending \cup {None}]
            BY <2>0, <3>1, <3>3
        <3>5. request'[a].version = v /\ \A b \in Admins \ {a} : request'[b] = request[b]
            BY <2>0, <3>1
        <3>6. saves' \in 0 .. MaxSaves
            BY <2>0, <2>3 DEF Metrics!ReadBindings
        <3> QED BY <1>1, <2>0, <2>3, <3>4, <3>5, <3>6 DEF Metrics!ReadBindings
    <2>4. ASSUME NEW a \in Admins, Metrics!ReadDefinitions(a)
          PROVE  Others
        <3> DEFINE r == request[a]
                   q == [step |-> "definitions", version |-> r.version, bindings |-> r.bindings,
                         metrics |-> versions[r.version].metrics]
        <3>1. request' = [request EXCEPT ![a] = q] /\ UNCHANGED <<catalog, versions, periods, saves, seen>>
            BY <2>4 DEF Metrics!ReadDefinitions
        <3>2. r.version \in DOMAIN versions /\ r.bindings \in SUBSET Metrics!Keys
            BY <2>4, RequestFields DEF Metrics!ReadDefinitions, Metrics!At
        <3>3. versions[r.version].metrics \in Metrics!Definitions /\ r.version \in Nat
            BY <2>0, <3>2, RowFields
        <3>4. q \in Metrics!Pending /\ q.version = r.version
            BY <3>2, <3>3 DEF Metrics!Pending
        <3> HIDE DEF q, r
        <3>5. request' \in [Admins -> Metrics!Pending \cup {None}]
            BY <2>0, <3>1, <3>4
        <3>6. request'[a].version = r.version /\ \A b \in Admins \ {a} : request'[b] = request[b]
            BY <2>0, <3>1, <3>4
        <3> QED BY <1>1, <2>0, <3>1, <3>2, <3>5, <3>6
    <2>5. ASSUME NEW a \in Admins, Metrics!ReadScore(a)
          PROVE  Others
        <3> DEFINE r == request[a]
                   d == Metrics!Digest(r.version, r.metrics, Metrics!ScoreLeaves(versions[r.version]), r.bindings)
                   q == [step |-> "review", version |-> r.version, digest |-> d]
        <3>1. /\ request' = [request EXCEPT ![a] = q] /\ seen' = seen \cup {d}
              /\ UNCHANGED <<catalog, versions, periods, saves>>
            BY <2>5 DEF Metrics!ReadScore
        <3>2. /\ r.version \in DOMAIN versions /\ r.bindings \in SUBSET Metrics!Keys
              /\ r.metrics \in Metrics!Definitions
            BY <2>5, RequestFields DEF Metrics!ReadScore, Metrics!At
        <3>3. Metrics!ScoreLeaves(versions[r.version]) \in SUBSET Metrics!Keys /\ r.version \in Nat
            BY <2>0, <3>2, RowFields DEF Metrics!ScoreLeaves
        <3>4. d \in Metrics!Digests
            BY <3>2, <3>3 DEF Metrics!Digest, Metrics!Digests
        <3> HIDE DEF d
        <3>5. q \in Metrics!Pending /\ q.version = r.version
            BY <3>3, <3>4 DEF Metrics!Pending
        <3> HIDE DEF q, r
        <3>6. request' \in [Admins -> Metrics!Pending \cup {None}]
            BY <2>0, <3>1, <3>5
        <3>7. request'[a].version = r.version /\ \A b \in Admins \ {a} : request'[b] = request[b]
            BY <2>0, <3>1, <3>5
        <3> QED BY <1>1, <2>0, <3>1, <3>2, <3>4, <3>6, <3>7
    <2>6. ASSUME NEW v \in DOMAIN versions, Metrics!Refresh(v) \/ Metrics!AbandonDraft(v) \/ Metrics!Activate(v)
          PROVE  Others
        BY <1>1, <2>0, <2>6 DEF Metrics!Refresh, Metrics!AbandonDraft, Metrics!Activate
    <2>7. CASE Metrics!CreateDraft
        BY <1>1, <2>0, <2>7 DEF Metrics!CreateDraft
    <2>8. CASE Metrics!Upgrade
        <3>1. PICK k \in System : catalog' = [catalog EXCEPT ![k] = "implemented"]
            BY <2>8 DEF Metrics!Upgrade
        <3>2. catalog' \in [System -> Metrics!Statuses]
            BY <2>0, <3>1 DEF Metrics!Statuses
        <3> QED BY <1>1, <2>0, <2>8, <3>2 DEF Metrics!Upgrade
    <2>9. CASE UNCHANGED Metrics!vars
        BY <1>1, <2>0, <2>9 DEF Metrics!vars
    <2> QED BY <2>1, <2>2, <2>3, <2>4, <2>5, <2>6, <2>7, <2>8, <2>9 DEF Metrics!Next
<1> QED BY <1>1, <1>2, <1>3 DEF Metrics!TypeOK

\* What is one stays one: a draft is created where there is none, and what is activated
\* supersedes what was active.
LEMMA SinglesStep ==
    ASSUME Metrics!TypeOK, Metrics!ReviewsWereMade, Metrics!Singles, [Metrics!Next]_(Metrics!vars)
    PROVE  Metrics!Singles'
<1> DEFINE Open == {periods[p].version : p \in {q \in DOMAIN periods : periods[q].open}}
<1>0. /\ \A u, v \in DOMAIN versions : versions[u].status = "draft" /\ versions[v].status = "draft" => u = v
      /\ \A u, v \in DOMAIN versions : versions[u].status = "active" /\ versions[v].status = "active" => u = v
      /\ Open = Metrics!Having("active")
    BY DEF Metrics!Singles, Metrics!Single, Metrics!Having
<1> DEFINE Goal ==
             /\ \A u, v \in DOMAIN versions' : versions'[u].status = "draft" /\ versions'[v].status = "draft" => u = v
             /\ \A u, v \in DOMAIN versions' : versions'[u].status = "active" /\ versions'[v].status = "active" => u = v
             /\ Open' = {v \in DOMAIN versions' : versions'[v].status = "active"}
<1>1. SUFFICES Goal
    BY DEF Metrics!Singles, Metrics!Single, Metrics!Having
<1>2. CASE Stays
    BY <1>0, <1>2 DEF Stays, Metrics!Having
<1>3. ASSUME NEW entry, Grows(entry)
      PROVE  Goal
    <2>1. entry.status = "draft" /\ UNCHANGED periods /\ \A v \in DOMAIN versions : versions[v].status # "draft"
        BY <1>3 DEF Grows, Metrics!Having
    <2>2. /\ versions'[Len(versions) + 1] = entry /\ Len(versions) + 1 \in DOMAIN versions'
          /\ \A v \in DOMAIN versions : v \in DOMAIN versions' /\ versions'[v] = versions[v]
          /\ \A v \in DOMAIN versions' : v \in DOMAIN versions \/ v = Len(versions) + 1
        BY <1>3, GrownVersions DEF Metrics!TypeOK
    <2>3. {v \in DOMAIN versions' : versions'[v].status = "active"} = Metrics!Having("active")
        BY <2>1, <2>2 DEF Metrics!Having
    <2>4. Open' = Open
        BY <2>1
    <2> QED BY <1>0, <2>1, <2>2, <2>3, <2>4
<1>4. ASSUME NEW v \in DOMAIN versions, NEW entry, Replaces(v, entry),
             entry.status = versions[v].status \/ (versions[v].status = "draft" /\ entry.status = "abandoned")
      PROVE  Goal
    <2>1. UNCHANGED periods
        BY <1>4 DEF Replaces
    <2>2. /\ DOMAIN versions' = DOMAIN versions /\ versions'[v] = entry
          /\ \A u \in DOMAIN versions : u # v => versions'[u] = versions[u]
        BY <1>4, ReplacedVersions
    <2>3. \A u \in DOMAIN versions :
            /\ versions'[u].status = "draft" => versions[u].status = "draft"
            /\ versions'[u].status = "active" <=> versions[u].status = "active"
        BY <1>4, <2>2
    <2>4. {u \in DOMAIN versions' : versions'[u].status = "active"} = Metrics!Having("active")
        BY <2>2, <2>3 DEF Metrics!Having
    <2>5. Open' = Open
        BY <2>1
    <2> HIDE DEF Open
    <2>6. ASSUME NEW u \in DOMAIN versions', NEW k \in DOMAIN versions', versions'[u].status = versions'[k].status,
                 versions'[u].status \in {"draft", "active"}
          PROVE  u = k
        <3>1. u \in DOMAIN versions /\ k \in DOMAIN versions
            BY <2>2
        <3>2. CASE versions'[u].status = "draft"
            BY <1>0, <2>3, <2>6, <3>1, <3>2
        <3>3. CASE versions'[u].status = "active"
            BY <1>0, <2>3, <2>6, <3>1, <3>3
        <3> QED BY <2>6, <3>2, <3>3
    <2> QED BY <1>0, <2>4, <2>5, <2>6
<1>5. ASSUME NEW v \in DOMAIN versions, Metrics!Activate(v)
      PROVE  Goal
    <2>1. /\ DOMAIN versions' = DOMAIN versions /\ versions'[v].status = "active"
          /\ \A u \in DOMAIN versions : u # v =>
               versions'[u].status = IF versions[u].status = "active" THEN "superseded" ELSE versions[u].status
        BY <1>5, ActivatedVersions
    <2>2. {u \in DOMAIN versions' : versions'[u].status = "active"} = {v}
        BY <2>1
    <2>3. Open' = {v}
        <3> DEFINE P == [p \in DOMAIN periods |-> [periods[p] EXCEPT !.open = FALSE]]
                   n == Len(periods)
                   new == [version |-> v, open |-> TRUE]
        <3>1. periods' = Append(P, new)
            BY <1>5 DEF Metrics!Activate, Metrics!NextPeriods
        <3>2. n \in Nat /\ DOMAIN periods = 1 .. n /\ \A p \in 1 .. n : periods[p] \in Metrics!Period
            BY DEF Metrics!TypeOK
        <3>3. ASSUME NEW p \in 1 .. n
              PROVE  P[p] \in Metrics!Period /\ P[p].open = FALSE
            BY <3>2 DEF Metrics!Period
        <3>4. P \in Seq(Metrics!Period) /\ Len(P) = n
            <4>1. P = [p \in 1 .. n |-> P[p]] /\ DOMAIN P = 1 .. n
                BY <3>2
            <4>2. P \in [1 .. n -> Metrics!Period]
                BY <3>3, <4>1
            <4> QED BY <3>2, <4>1, <4>2
        <3>5. new \in Metrics!Period /\ new.version = v /\ new.open = TRUE
            BY DEF Metrics!Period, Metrics!TypeOK
        <3> HIDE DEF P, n, new
        <3>6. /\ DOMAIN periods' = 1 .. n + 1 /\ periods'[n + 1] = new
              /\ \A p \in 1 .. n : periods'[p] = P[p]
            BY <3>1, <3>2, <3>4, <3>5
        <3>7. {q \in DOMAIN periods' : periods'[q].open} = {n + 1}
            <4>1. \A q \in DOMAIN periods' : q = n + 1 \/ q \in 1 .. n
                BY <3>2, <3>6
            <4>2. \A q \in 1 .. n : ~periods'[q].open
                BY <3>3, <3>6
            <4>3. periods'[n + 1].open /\ n + 1 \in DOMAIN periods'
                BY <3>2, <3>5, <3>6
            <4>4. n + 1 \notin 1 .. n
                BY <3>2
            <4> QED BY <4>1, <4>2, <4>3, <4>4
        <3> QED BY <3>5, <3>6, <3>7
    <2> HIDE DEF Open
    <2>4. \A u \in DOMAIN versions' :
            /\ versions'[u].status = "draft" => versions[u].status = "draft"
            /\ versions'[u].status = "active" => u = v
        BY <2>1
    <2> QED BY <1>0, <2>1, <2>2, <2>3, <2>4
<1> HIDE DEF Open
<1> QED BY <1>2, <1>3, <1>4, <1>5, MetricShapes DEF Edits, Reviews

\* What Sound is about.
LEMMA SoundStays ==
    ASSUME NEW entry, NEW after, Metrics!Sound(entry),
           after.metrics = entry.metrics, after.bindings = entry.bindings, after.score # None => entry.score # None,
           after.score # None => after.score.leaves = entry.score.leaves
    PROVE  Metrics!Sound(after)
BY DEF Metrics!Sound

\* An activated version is sound: a draft is derived now, and what was active before was sound.
LEMMA ActivatedIsSound ==
    ASSUME Metrics!TypeOK, Metrics!HistoryIsSound, NEW v \in DOMAIN versions, Metrics!Activate(v),
           NEW after, after.metrics = Metrics!Activated(versions[v]), after.bindings = versions[v].bindings,
           after.score = versions[v].score
    PROVE  Metrics!Sound(after)
<1> DEFINE entry == versions[v]
<1>1. entry \in Metrics!Row /\ entry.metrics \in Metrics!Definitions
    BY RowFields DEF Metrics!TypeOK
<1>2. /\ entry.status \in {"draft", "superseded"} /\ Metrics!ScoreAllows(v) /\ Metrics!Valid(entry.metrics)
      /\ \A k \in entry.bindings : Metrics!Activated(entry)[k].status # "not_collected"
    BY DEF Metrics!Activate
<1>3. entry.score # None => Metrics!Scorable(entry.metrics, entry.score.leaves)
    BY <1>2 DEF Metrics!ScoreAllows
<1>4. CASE entry.status = "draft"
    <2>1. after.metrics = Metrics!Derive(entry.metrics) /\ Metrics!Activated(entry) = Metrics!Derive(entry.metrics)
        BY <1>4 DEF Metrics!Activated
    <2>2. /\ Metrics!Derive(after.metrics) = after.metrics /\ Metrics!Valid(after.metrics)
          /\ \A L : Metrics!Scorable(entry.metrics, L) => Metrics!Scorable(after.metrics, L)
        BY <1>1, <1>2, <2>1, DeriveKeeps, DeriveStaysValid
    <2> QED BY <1>2, <1>3, <2>1, <2>2 DEF Metrics!Sound
<1>5. CASE entry.status = "superseded"
    <2>1. after.metrics = entry.metrics /\ Metrics!Activated(entry) = entry.metrics
        BY <1>5 DEF Metrics!Activated
    <2>2. Metrics!Sound(entry)
        BY <1>5 DEF Metrics!HistoryIsSound, Metrics!Having
    <2> QED BY <2>1, <2>2, SoundStays
<1> QED BY <1>2, <1>4, <1>5

\* Sound rows stay as they are, and an activated one is sound.
LEMMA HistoryStep ==
    ASSUME Metrics!TypeOK, Metrics!ReviewsWereMade, Metrics!HistoryIsSound, [Metrics!Next]_(Metrics!vars)
    PROVE  Metrics!HistoryIsSound'
<1>0. \A v \in DOMAIN versions : versions[v].status \in {"active", "superseded"} => Metrics!Sound(versions[v])
    BY DEF Metrics!HistoryIsSound, Metrics!Having
<1> DEFINE Goal == \A v \in DOMAIN versions' :
                     versions'[v].status \in {"active", "superseded"} => Metrics!Sound(versions'[v])
<1>1. SUFFICES Goal
    BY DEF Metrics!HistoryIsSound, Metrics!Having, Metrics!Sound
<1>2. CASE Stays
    BY <1>0, <1>2 DEF Stays
<1>3. ASSUME NEW entry, Grows(entry)
      PROVE  Goal
    <2>1. entry.status = "draft"
        BY <1>3 DEF Grows
    <2> QED BY <1>0, <1>3, <2>1, GrownVersions
<1>4. ASSUME NEW v \in DOMAIN versions, NEW entry, Edits(v, entry)
      PROVE  Goal
    BY <1>0, <1>4, ReplacedVersions DEF Edits
<1>5. ASSUME NEW v \in DOMAIN versions, NEW entry, Reviews(v, entry)
      PROVE  Goal
    <2>1. versions[v].status \in {"active", "superseded"} => Metrics!Sound(entry)
        BY <1>0, <1>5, SoundStays DEF Reviews
    <2> QED BY <1>0, <1>5, <2>1, ReplacedVersions DEF Reviews
<1>6. ASSUME NEW v \in DOMAIN versions, Metrics!Activate(v)
      PROVE  Goal
    <2>1. /\ DOMAIN versions' = DOMAIN versions
          /\ versions'[v].metrics = Metrics!Activated(versions[v])
          /\ versions'[v].bindings = versions[v].bindings /\ versions'[v].score = versions[v].score
          /\ \A u \in DOMAIN versions : u # v =>
               /\ versions'[u].status = IF versions[u].status = "active" THEN "superseded" ELSE versions[u].status
               /\ versions'[u].metrics = versions[u].metrics
               /\ versions'[u].bindings = versions[u].bindings /\ versions'[u].score = versions[u].score
        BY <1>6, ActivatedVersions
    <2>2. Metrics!Sound(versions'[v])
        BY <1>6, <2>1, ActivatedIsSound
    <2>3. ASSUME NEW u \in DOMAIN versions, u # v, versions'[u].status \in {"active", "superseded"}
          PROVE  Metrics!Sound(versions'[u])
        <3>1. Metrics!Sound(versions[u])
            BY <1>0, <2>1, <2>3
        <3> QED BY <2>1, <2>3, <3>1, SoundStays
    <2> QED BY <2>1, <2>2, <2>3
<1> QED BY <1>2, <1>3, <1>4, <1>5, <1>6, MetricShapes

\* A digest enters a request when review() computes it, and a score from a request.
LEMMA ReviewsStep ==
    ASSUME Metrics!TypeOK, Metrics!ReviewsWereMade, [Metrics!Next]_(Metrics!vars)
    PROVE  Metrics!ReviewsWereMade'
<1>1. /\ \A v \in DOMAIN versions : versions[v].score # None => versions'[v].score # None
      /\ \A v \in DOMAIN versions' : versions'[v].score # None => versions'[v].score.reviewed \in seen' \cup {None}
    BY RowsStandAtEachStep DEF RowsStand
<1> DEFINE Goal == \A a \in Admins : request'[a] # None /\ request'[a].step = "review" =>
                     request'[a].digest \in seen' /\ versions'[request'[a].version].score # None
<1>2. SUFFICES Goal
    BY <1>1 DEF Metrics!ReviewsWereMade, Metrics!At
<1>3. \A a \in Admins : request[a] # None /\ request[a].step = "review" =>
        request[a].digest \in seen /\ versions'[request[a].version].score # None
    BY <1>1 DEF Metrics!ReviewsWereMade, Metrics!At, Metrics!TypeOK
<1>4. request \in [Admins -> Metrics!Pending \cup {None}]
    BY DEF Metrics!TypeOK
<1>5. ASSUME NEW a \in Admins, Metrics!Prepare(a)
      PROVE  Goal
    <2>1. UNCHANGED seen
        BY <1>5, PrepareShape
    <2>2. PICK w, target : request' = [request EXCEPT ![a] = [step |-> "write", write |-> w, version |-> target]]
        BY <1>5, PrepareShape
    <2>3. request'[a].step = "write" /\ \A b \in Admins : b # a => request'[b] = request[b]
        BY <1>4, <2>2
    <2> QED BY <1>3, <2>1, <2>3
<1>6. ASSUME NEW a \in Admins, Metrics!Write(a) \/ Metrics!Fail(a) \/ Metrics!RecordReview(a)
      PROVE  Goal
    BY <1>3, <1>4, <1>6 DEF Metrics!Write, Metrics!Fail, Metrics!RecordReview
<1>7. ASSUME NEW a \in Admins, Metrics!ReadBindings(a)
      PROVE  Goal
    <2>1. PICK v \in DOMAIN versions :
            request' = [request EXCEPT ![a] = [step |-> "bindings", version |-> v, bindings |-> versions[v].bindings]]
        BY <1>7 DEF Metrics!ReadBindings
    <2>2. request'[a].step = "bindings" /\ \A b \in Admins : b # a => request'[b] = request[b]
        BY <1>4, <2>1
    <2>3. UNCHANGED seen
        BY <1>7 DEF Metrics!ReadBindings
    <2> QED BY <1>3, <2>2, <2>3
<1>8. ASSUME NEW a \in Admins, Metrics!ReadDefinitions(a)
      PROVE  Goal
    <2> DEFINE q == [step |-> "definitions", version |-> request[a].version, bindings |-> request[a].bindings,
                     metrics |-> versions[request[a].version].metrics]
    <2>1. request' = [request EXCEPT ![a] = q] /\ UNCHANGED seen /\ q.step = "definitions"
        BY <1>8 DEF Metrics!ReadDefinitions
    <2> HIDE DEF q
    <2>2. request'[a].step = "definitions" /\ \A b \in Admins : b # a => request'[b] = request[b]
        BY <1>4, <2>1
    <2> QED BY <1>3, <2>1, <2>2
<1>9. ASSUME NEW a \in Admins, Metrics!ReadScore(a)
      PROVE  Goal
    <2> DEFINE r == request[a]
               d == Metrics!Digest(r.version, r.metrics, Metrics!ScoreLeaves(versions[r.version]), r.bindings)
               q == [step |-> "review", version |-> r.version, digest |-> d]
    <2>1. /\ request' = [request EXCEPT ![a] = q] /\ seen' = seen \cup {d} /\ UNCHANGED versions
          /\ versions[r.version].score # None
        BY <1>9 DEF Metrics!ReadScore
    <2>2. q.digest = d /\ q.version = r.version
        OBVIOUS
    <2> HIDE DEF d, q, r
    <2>3. request'[a] = q /\ \A b \in Admins : b # a => request'[b] = request[b]
        BY <1>4, <2>1
    <2> QED BY <1>3, <2>1, <2>2, <2>3
<1>10. CASE \/ Metrics!CreateDraft \/ Metrics!Upgrade \/ UNCHANGED Metrics!vars
            \/ \E v \in DOMAIN versions : Metrics!Refresh(v) \/ Metrics!AbandonDraft(v) \/ Metrics!Activate(v)
    <2>1. UNCHANGED <<request, seen>>
        BY <1>10 DEF Metrics!CreateDraft, Metrics!Upgrade, Metrics!vars, Metrics!Refresh, Metrics!AbandonDraft,
                     Metrics!Activate
    <2> QED BY <1>3, <2>1
<1> QED BY <1>5, <1>6, <1>7, <1>8, <1>9, <1>10 DEF Metrics!Next

\* One draft and one active version, counted.
LEMMA SinglesAreOne ==
    ASSUME Metrics!TypeOK, Metrics!Singles
    PROVE  Metrics!OneOfEach
<1>1. ASSUME NEW status, Metrics!Single(status)
      PROVE  Metrics!Cardinality(Metrics!Having(status)) <= 1
    <2>1. CASE Metrics!Having(status) = {}
        BY <2>1, AtMostOne, CardinalityHere
    <2>2. ASSUME NEW v \in Metrics!Having(status)
          PROVE  Metrics!Cardinality(Metrics!Having(status)) <= 1
        <3>1. Metrics!Having(status) \subseteq {v}
            BY <1>1, <2>2 DEF Metrics!Single
        <3>2. Cardinality(Metrics!Having(status)) \in {0, 1}
            BY <3>1, AtMostOne
        <3> QED BY <3>2, CardinalityHere
    <2> QED BY <2>1, <2>2
<1> QED BY <1>1 DEF Metrics!Singles, Metrics!OneOfEach

\* What the metric library keeps from step to step.
MetricInvariant ==
    Metrics!TypeOK /\ Metrics!Singles /\ Metrics!HistoryIsSound /\ Metrics!ReviewsWereMade

\* A library begins with one draft of the catalog's metrics and an unreviewed score.
LEMMA MetricsBegin ==
    ASSUME Metrics!Init
    PROVE  MetricInvariant
<1> DEFINE M == Metrics!SystemMetrics(Initially)
           score == [leaves |-> Template, confirmed |-> FALSE, reviewed |-> None]
           entry == [status |-> "draft", source |-> None, metrics |-> M, bindings |-> {}, score |-> score]
<1>1. M \in Metrics!Definitions /\ Metrics!Defined(M) = System
    BY SystemMetricsAre, MetricSets
<1>2. Template \subseteq Metrics!Keys /\ Template \subseteq System
    BY MetricSets
<1>3. score \in Metrics!Score /\ score.leaves = Template /\ score.reviewed = None
    BY <1>2 DEF Metrics!Score
<1>4. versions = <<entry>> /\ periods = <<>> /\ request = [a \in Admins |-> None] /\ saves = 0 /\ seen = {}
      /\ catalog = Initially
    BY DEF Metrics!Init
<1> HIDE DEF M, score
<1>5. /\ entry \in Metrics!Row /\ entry.status = "draft" /\ entry.metrics = M /\ entry.bindings = {}
      /\ entry.score = score
    BY <1>1, <1>3 DEF Metrics!Row
<1> HIDE DEF entry
<1>6. Metrics!Complete(entry)
    BY <1>1, <1>2, <1>3, <1>5 DEF Metrics!Complete, Metrics!ScoreLeaves
<1>7. /\ versions \in Seq(Metrics!Row) /\ Len(versions) = 1 /\ DOMAIN versions = {1} /\ versions[1] = entry
      /\ periods \in Seq(Metrics!Period) /\ DOMAIN periods = {}
    BY <1>4, <1>5
<1>8. MaxVersions \in Nat \ {0} /\ MaxSaves \in Nat /\ Initially \in [System -> Metrics!Statuses]
    BY AdministrationAssumption
<1>9. Metrics!TypeOK
    <2>1. request \in [Admins -> Metrics!Pending \cup {None}] /\ \A a \in Admins : request[a] = None
        BY <1>4
    <2>2. Len(versions) \in 1 .. MaxVersions /\ saves \in 0 .. MaxSaves
        BY <1>4, <1>7, <1>8
    <2>3. \A v \in DOMAIN versions : Metrics!Complete(versions[v])
        BY <1>6, <1>7
    <2> QED BY <1>4, <1>7, <1>8, <2>1, <2>2, <2>3 DEF Metrics!TypeOK
<1>10. Metrics!Singles
    <2>1. Metrics!Having("draft") = {1} /\ Metrics!Having("active") = {}
        BY <1>5, <1>7 DEF Metrics!Having
    <2> QED BY <1>7, <2>1 DEF Metrics!Singles, Metrics!Single
<1>11. Metrics!HistoryIsSound
    BY <1>5, <1>7 DEF Metrics!HistoryIsSound, Metrics!Having
<1>12. Metrics!ReviewsWereMade
    BY <1>3, <1>4, <1>5, <1>7 DEF Metrics!ReviewsWereMade, Metrics!At
<1> QED BY <1>9, <1>10, <1>11, <1>12 DEF MetricInvariant

\* The invariant is inductive.
LEMMA MetricInvariantStep ==
    ASSUME MetricInvariant, [Metrics!Next]_(Metrics!vars)
    PROVE  MetricInvariant'
BY MetricTypes, SinglesStep, HistoryStep, ReviewsStep DEF MetricInvariant

\* Only the review of a version that is not a draft is ever written.
LEMMA HistoryIsKept ==
    ASSUME MetricInvariant, [Metrics!Next]_(Metrics!vars)
    PROVE  Metrics!KeepsHistory
<1> USE DEF MetricInvariant
<1> SUFFICES ASSUME NEW v \in DOMAIN versions, versions[v].status # "draft"
             PROVE  /\ versions'[v].metrics = versions[v].metrics
                    /\ versions'[v].bindings = versions[v].bindings
                    /\ Metrics!ScoreLeaves(versions'[v]) = Metrics!ScoreLeaves(versions[v])
                    /\ versions[v].status = "abandoned" => versions'[v].status = "abandoned"
                    /\ versions'[v].status # "draft"
    BY DEF Metrics!KeepsHistory
<1> DEFINE Stay == /\ versions'[v].metrics = versions[v].metrics
                   /\ versions'[v].bindings = versions[v].bindings
                   /\ Metrics!ScoreLeaves(versions'[v]) = Metrics!ScoreLeaves(versions[v])
                   /\ versions[v].status = "abandoned" => versions'[v].status = "abandoned"
                   /\ versions'[v].status # "draft"
<1>1. CASE versions'[v] = versions[v]
    BY <1>1
<1>2. CASE Stays
    BY <1>1, <1>2 DEF Stays
<1>3. ASSUME NEW entry, Grows(entry)
      PROVE  Stay
    BY <1>1, <1>3, GrownVersions
<1>4. ASSUME NEW u \in DOMAIN versions, NEW entry, Edits(u, entry)
      PROVE  Stay
    BY <1>1, <1>4, ReplacedVersions DEF Edits
<1>5. ASSUME NEW u \in DOMAIN versions, NEW entry, Reviews(u, entry)
      PROVE  Stay
    <2>1. CASE u # v
        BY <1>1, <1>5, <2>1, ReplacedVersions DEF Reviews
    <2>2. CASE u = v
        <3>1. versions'[v] = entry
            BY <1>5, <2>2, ReplacedVersions DEF Reviews
        <3>2. Metrics!ScoreLeaves(entry) = Metrics!ScoreLeaves(versions[v])
            BY <1>5, <2>2 DEF Reviews, Metrics!ScoreLeaves
        <3> QED BY <1>5, <2>2, <3>1, <3>2 DEF Reviews
    <2> QED BY <2>1, <2>2
<1>6. ASSUME NEW u \in DOMAIN versions, Metrics!Activate(u)
      PROVE  Stay
    <2>1. /\ versions'[u].status = "active" /\ versions'[u].metrics = Metrics!Activated(versions[u])
          /\ versions'[v].bindings = versions[v].bindings /\ versions'[v].score = versions[v].score
          /\ u # v =>
               /\ versions'[v].status = IF versions[v].status = "active" THEN "superseded" ELSE versions[v].status
               /\ versions'[v].metrics = versions[v].metrics
        BY <1>6, ActivatedVersions
    <2>2. Metrics!ScoreLeaves(versions'[v]) = Metrics!ScoreLeaves(versions[v])
        BY <2>1 DEF Metrics!ScoreLeaves
    <2>3. CASE u # v
        BY <2>1, <2>2, <2>3
    <2>4. CASE u = v
        <3>1. versions[v].status = "superseded"
            BY <1>6, <2>4 DEF Metrics!Activate
        <3>2. versions'[v].metrics = versions[v].metrics
            BY <2>1, <2>4, <3>1 DEF Metrics!Activated
        <3> QED BY <2>1, <2>2, <2>4, <3>1, <3>2
    <2> QED BY <2>3, <2>4
<1> QED BY <1>2, <1>3, <1>4, <1>5, <1>6, MetricShapes

\* What becomes active passed activateVersion(), which compares the review with the contents.
LEMMA ReviewedIsActivated ==
    ASSUME MetricInvariant, [Metrics!Next]_(Metrics!vars)
    PROVE  Metrics!ActivatesReviewed
<1> USE DEF MetricInvariant
<1> SUFFICES ASSUME NEW v \in DOMAIN versions, versions[v].status # "active", versions'[v].status = "active",
                    versions[v].score # None
             PROVE  Metrics!DigestOf(v) \in seen
    BY DEF Metrics!ActivatesReviewed
<1>1. versions'[v] # versions[v]
    OBVIOUS
<1>2. ~Stays
    BY <1>1 DEF Stays
<1>3. ASSUME NEW entry, Grows(entry)
      PROVE  FALSE
    BY <1>1, <1>3, GrownVersions
<1>4. ASSUME NEW u \in DOMAIN versions, NEW entry, Edits(u, entry) \/ Reviews(u, entry)
      PROVE  FALSE
    <2>1. versions'[u] = entry /\ (u # v => versions'[v] = versions[v])
        BY <1>4, ReplacedVersions DEF Edits, Reviews
    <2>2. u = v
        BY <1>1, <2>1
    <2> QED BY <1>4, <2>1, <2>2 DEF Edits, Reviews
<1>5. PICK u \in DOMAIN versions : Metrics!Activate(u)
    BY <1>2, <1>3, <1>4, MetricShapes
<1>6. u = v
    BY <1>5, ActivatedVersions
<1>7. versions[v].score.reviewed = Metrics!DigestOf(v)
    BY <1>5, <1>6 DEF Metrics!Activate, Metrics!ScoreAllows, Metrics!Reviewed
<1>8. versions[v].score.reviewed \in seen \cup {None}
    BY DEF Metrics!ReviewsWereMade
<1>9. Metrics!DigestOf(v) \in Metrics!Digests
    <2>1. versions[v] \in Metrics!Row /\ v \in Nat
        BY DEF Metrics!TypeOK
    <2>2. Metrics!ScoreLeaves(versions[v]) \in SUBSET Metrics!Keys
        BY <2>1, RowFields DEF Metrics!ScoreLeaves
    <2>3. versions[v].metrics \in Metrics!Definitions /\ versions[v].bindings \in SUBSET Metrics!Keys
        BY <2>1, RowFields
    <2> QED BY <2>1, <2>2, <2>3 DEF Metrics!DigestOf, Metrics!Digest, Metrics!Digests
<1> QED BY <1>7, <1>8, <1>9, MetricSets

-----------------------------------------------------------------------------
\* The theorems.

\* In a step of the whole system the library takes a step of its own, or stands still.
LEMMA MetricPart ==
    ASSUME [AdministrationNext]_administrationVars, part' = "metrics"
    PROVE  part = "metrics" /\ [Metrics!Next]_(Metrics!vars)
BY DEF AdministrationNext, administrationVars, Elsewhere, metricVars, Metrics!vars

\* The invariant of the part.
LibraryInvariant == part = "metrics" => MetricInvariant

\* ... and an invariant of the whole.
LEMMA LibraryInvariantHolds == AdministrationSpec => []LibraryInvariant
<1>1. AdministrationInit => LibraryInvariant
    BY MetricsBegin DEF AdministrationInit, LibraryInvariant
<1>2. LibraryInvariant /\ [AdministrationNext]_administrationVars => LibraryInvariant'
    BY MetricPart, MetricInvariantStep DEF LibraryInvariant
<1> QED BY <1>1, <1>2, PTL DEF AdministrationSpec

\* However requests overlap, a library has one draft and one active version at most, and what
\* is active resolves, is derived from its own metrics and can be evaluated (createDraft,
\* activateVersion).
THEOREM LibraryVersions == AdministrationSpec => []MetricVersions
<1>1. LibraryInvariant => MetricVersions
    <2>1. Metrics!HistoryIsSound => Metrics!ActiveIsSound
        BY DEF Metrics!HistoryIsSound, Metrics!ActiveIsSound
    <2> QED BY <2>1, SinglesAreOne DEF LibraryInvariant, MetricInvariant, MetricVersions
<1> QED BY <1>1, LibraryInvariantHolds, PTL

\* No request, late as it may be, changes a version that is not a draft, and a scored version
\* becomes active only with contents that a review was made of (assertDraft, review).
THEOREM LibraryHistory == AdministrationSpec => MetricHistory
<1> DEFINE Keeps == part = "metrics" => Metrics!KeepsHistory /\ Metrics!ActivatesReviewed
<1>1. LibraryInvariant /\ [AdministrationNext]_administrationVars => [Keeps]_administrationVars
    <2> SUFFICES ASSUME LibraryInvariant, AdministrationNext, part = "metrics"
                 PROVE  Metrics!KeepsHistory /\ Metrics!ActivatesReviewed
        OBVIOUS
    <2>1. MetricInvariant /\ [Metrics!Next]_(Metrics!vars)
        BY DEF LibraryInvariant, AdministrationNext
    <2> QED BY <2>1, HistoryIsKept, ReviewedIsActivated
<1> QED BY <1>1, LibraryInvariantHolds, PTL DEF AdministrationSpec, MetricHistory

-----------------------------------------------------------------------------
\* Projects and their members.

\* What None is not.
LEMMA MemberSets ==
    /\ None \notin Members!Transaction /\ None \notin Members!Creation /\ None \notin Members!Roles
    /\ Creator \in Users
BY AdministrationAssumption

\* What a request on a member is made of.
LEMMA MemberRequestFields ==
    ASSUME Members!TypeOK, NEW r \in MemberRequests, Members!Doing(r, "member")
    PROVE  request[r] \in Members!MemberRequest
<1>1. request[r] \in Members!Transaction /\ request[r].op = "member"
    BY DEF Members!TypeOK, Members!Doing, Members!Idle
<1>2. request[r] \notin Members!CreateRequest
    BY <1>1 DEF Members!CreateRequest
<1> QED BY <1>1, <1>2 DEF Members!Transaction

\* What the write of a member's row changes.
LEMMA WriteWrites ==
    ASSUME Members!TypeOK, Members!Locks, NEW r \in MemberRequests, Members!WriteMember(r)
    PROVE  /\ projects' \in Seq([Users -> Members!Roles \cup {None}])
           /\ DOMAIN projects' = DOMAIN projects
           /\ \A p \in DOMAIN projects, u \in Users :
                projects'[p][u] = IF p = request[r].project /\ u = request[r].user THEN request[r].role
                                  ELSE projects[p][u]
<1> DEFINE q == request[r]
<1>1. /\ q \in Members!MemberRequest /\ q.project \in DOMAIN projects
      /\ projects' = [projects EXCEPT ![q.project][q.user] = q.role]
    BY MemberRequestFields DEF Members!WriteMember, Members!Locks, Members!Holds
<1>2. q.user \in Users /\ q.role \in Members!Roles \cup {None}
    BY <1>1 DEF Members!MemberRequest
<1>3. projects \in Seq([Users -> Members!Roles \cup {None}])
    BY DEF Members!TypeOK
<1> HIDE DEF q
<1>4. projects[q.project] \in [Users -> Members!Roles \cup {None}]
    BY <1>1, <1>3
<1>5. [projects[q.project] EXCEPT ![q.user] = q.role] \in [Users -> Members!Roles \cup {None}]
    BY <1>2, <1>4
<1>6. projects' = [projects EXCEPT ![q.project] = [projects[q.project] EXCEPT ![q.user] = q.role]]
    BY <1>1
<1>7. projects' \in Seq([Users -> Members!Roles \cup {None}]) /\ DOMAIN projects' = DOMAIN projects
    BY <1>1, <1>3, <1>5, <1>6, ExceptSeq
<1>8. ASSUME NEW p \in DOMAIN projects, NEW u \in Users
      PROVE  projects'[p][u] = IF p = q.project /\ u = q.user THEN q.role ELSE projects[p][u]
    BY <1>2, <1>3, <1>4, <1>6
<1> QED BY <1>7, <1>8 DEF q

\* The variables of the projects keep their types.
LEMMA MemberTypes ==
    ASSUME Members!TypeOK, Members!Locks, [Members!Next]_(Members!vars)
    PROVE  Members!TypeOK'
<1> USE DEF Members!TypeOK
<1>1. ASSUME NEW r \in MemberRequests, Members!Reserve(r)
      PROVE Members!TypeOK'
    BY <1>1 DEF Members!Reserve, Members!Transaction, Members!CreateRequest, Members!Creation
<1>2. ASSUME NEW r \in MemberRequests, Members!Create(r)
      PROVE Members!TypeOK'
    <2>1. request[r] \in Members!CreateRequest
        BY <1>2 DEF Members!Create, Members!Doing, Members!Idle, Members!Transaction, Members!MemberRequest
    <2>2. creation' \in Members!Creation
        BY <1>2, <2>1 DEF Members!Create, Members!CreateRequest, Members!Creation
    <2>3. projects' \in Seq([Users -> Members!Roles \cup {None}])
        BY <1>2, MemberSets DEF Members!Create, Members!Roles
    <2> QED BY <1>2, <2>2, <2>3 DEF Members!Create, Members!Finish
<1>3. ASSUME NEW r \in MemberRequests, Members!LockMember(r)
      PROVE Members!TypeOK'
    <2>1. PICK p \in DOMAIN projects, u \in Users, role \in Members!Roles \cup {None} :
            /\ UNCHANGED <<creation, projects, answers>>
            /\ request' = [request EXCEPT ![r] =
                 [op |-> "member", project |-> p, user |-> u, role |-> role,
                  rows |-> {u} \cap Members!Members(p), gaps |-> {u} \ ({u} \cap Members!Members(p)),
                  counts |-> projects[p][u] = "owner" /\ role # "owner", owners |-> {}]]
        BY <1>3 DEF Members!LockMember
    <2>2. p \in Nat
        BY <2>1
    <2>3. request'[r] \in Members!MemberRequest
        BY <2>1, <2>2 DEF Members!MemberRequest
    <2> QED BY <2>1, <2>3 DEF Members!Transaction
<1>4. ASSUME NEW r \in MemberRequests, Members!CountOwners(r)
      PROVE Members!TypeOK'
    <2> DEFINE q == request[r]
    <2>1. /\ UNCHANGED <<creation, projects, answers>>
          /\ request' = [request EXCEPT ![r] =
               [q EXCEPT !.owners = Members!Owners(q.project), !.rows = Members!Members(q.project),
                         !.gaps = Users \ Members!Members(q.project)]]
        BY <1>4 DEF Members!CountOwners, Members!Owners
    <2>2. q \in Members!MemberRequest
        BY <1>4, MemberRequestFields DEF Members!CountOwners
    <2>3. \A p : Members!Owners(p) \in SUBSET Users /\ Members!Members(p) \in SUBSET Users
        BY DEF Members!Owners, Members!Members
    <2> HIDE DEF q
    <2>4. request'[r] \in Members!MemberRequest
        BY <2>1, <2>2, <2>3 DEF Members!MemberRequest
    <2> QED BY <2>1, <2>4 DEF Members!Transaction
<1>5. ASSUME NEW r \in MemberRequests, Members!WriteMember(r)
      PROVE Members!TypeOK'
    BY <1>5, WriteWrites DEF Members!WriteMember, Members!Finish
<1>6. ASSUME NEW r \in MemberRequests, Members!Rollback(r)
      PROVE Members!TypeOK'
    BY <1>6 DEF Members!Rollback, Members!Finish
<1>7. CASE UNCHANGED Members!vars
    BY <1>7 DEF Members!vars
<1> QED BY <1>1, <1>2, <1>3, <1>4, <1>5, <1>6, <1>7 DEF Members!Next

\* Nobody writes a row that another transaction holds, nor fills its gap.
LEMMA OthersStand ==
    ASSUME Members!TypeOK, Members!Locks, NEW r \in MemberRequests, Members!WriteMember(r),
           NEW s \in MemberRequests, s # r, Members!Doing(s, "member"),
           request[s].project = request[r].project
    PROVE  request[r].user \notin request[s].rows \cup request[s].gaps
<1>1. /\ Members!Doing(r, "member") /\ Members!Holds(request[r]) /\ Members!Holds(request[s])
      /\ request[r].rows \cap request[s].rows = {}
    BY DEF Members!WriteMember, Members!Locks
<1>2. CASE request[r].user \in request[r].rows
    BY <1>1, <1>2 DEF Members!Holds
<1>3. CASE request[r].user \notin request[r].rows
    <2>1. request[r].rows = {}
        BY <1>1, <1>3 DEF Members!Holds
    <2> QED BY <1>1, <2>1 DEF Members!WriteMember, Members!Free, Members!Insertable
<1> QED BY <1>2, <1>3

\* What is held stays true, whatever the others do meanwhile.
LEMMA LocksStep ==
    ASSUME Members!TypeOK, Members!Locks, [Members!Next]_(Members!vars)
    PROVE  Members!Locks'
<1> USE DEF Members!Locks
<1>1. ASSUME NEW r \in MemberRequests, Members!Reserve(r) \/ Members!Create(r) \/ Members!Rollback(r)
      PROVE  Members!Locks'
    <2>1. ASSUME NEW s \in MemberRequests, Members!Doing(s, "member")'
          PROVE  Members!Doing(s, "member") /\ request'[s] = request[s]
        BY <1>1, <2>1, MemberSets DEF Members!TypeOK, Members!Reserve, Members!Create, Members!Rollback, Members!Finish, Members!Doing, Members!Idle
    <2>2. /\ \A p \in DOMAIN projects : p \in DOMAIN projects' /\ projects'[p] = projects[p]
        BY <1>1 DEF Members!TypeOK, Members!Reserve, Members!Create, Members!Rollback
    <2>3. ASSUME NEW s \in MemberRequests, Members!Doing(s, "member")'
          PROVE  Members!Holds(request[s])'
        BY <2>1, <2>2, <2>3 DEF Members!Holds, Members!Members, Members!Owners
    <2> QED BY <2>1, <2>3
<1>2. ASSUME NEW r \in MemberRequests, Members!LockMember(r)
      PROVE  Members!Locks'
    <2>1. PICK p \in DOMAIN projects, u \in Users, role \in Members!Roles \cup {None} :
            /\ Members!Free(r, p, {u} \cap Members!Members(p))
            /\ request' = [request EXCEPT ![r] =
                 [op |-> "member", project |-> p, user |-> u, role |-> role,
                  rows |-> {u} \cap Members!Members(p), gaps |-> {u} \ ({u} \cap Members!Members(p)),
                  counts |-> projects[p][u] = "owner" /\ role # "owner", owners |-> {}]]
        BY <1>2 DEF Members!LockMember
    <2>2. UNCHANGED projects
        BY <1>2 DEF Members!LockMember
    <2>3. \A s \in MemberRequests \ {r} : request'[s] = request[s]
        BY <2>1 DEF Members!TypeOK
    <2>4. /\ request'[r].project = p /\ request'[r].rows = {u} \cap Members!Members(p)
          /\ request'[r].gaps = {u} \ Members!Members(p) /\ request'[r].user = u /\ request'[r].role = role
          /\ request'[r].counts = (projects[p][u] = "owner" /\ role # "owner") /\ request'[r].owners = {}
        BY <2>1 DEF Members!TypeOK
    <2>5. Members!Holds(request[r])'
        <3>1. request'[r].rows \subseteq Members!Members(p)
            BY <2>4
        <3>2. request'[r].gaps \cap Members!Members(p) = {}
            BY <2>4
        <3>3. request'[r].user \in request'[r].rows \/ (request'[r].rows = {} /\ request'[r].user \in request'[r].gaps)
            <4>1. CASE u \in Members!Members(p)
                BY <2>4, <4>1
            <4>2. CASE u \notin Members!Members(p)
                BY <2>4, <4>2
            <4> QED BY <4>1, <4>2
        <3>4. request'[r].counts = (projects'[p][u] = "owner" /\ role # "owner")
            BY <2>2, <2>4
        <3>5. Members!Members(p)' = Members!Members(p)
            BY <2>2 DEF Members!Members
        <3> QED BY <2>1, <2>2, <2>4, <3>1, <3>2, <3>3, <3>4, <3>5 DEF Members!Holds
    <2>6. ASSUME NEW s \in MemberRequests, Members!Doing(s, "member")'
          PROVE  Members!Holds(request[s])'
        BY <2>2, <2>3, <2>5, <2>6 DEF Members!Holds, Members!Members, Members!Owners, Members!Doing, Members!Idle
    <2>7. ASSUME NEW s \in MemberRequests \ {r}, Members!Doing(s, "member"), request[s].project = p
          PROVE  request[s].rows \cap request'[r].rows = {}
        BY <2>1, <2>4, <2>7 DEF Members!Free
    <2> QED BY <2>3, <2>4, <2>6, <2>7 DEF Members!Doing, Members!Idle
<1>3. ASSUME NEW r \in MemberRequests, Members!CountOwners(r)
      PROVE  Members!Locks'
    <2> DEFINE p == request[r].project
    <2>1. /\ UNCHANGED projects
          /\ Members!Doing(r, "member") /\ request[r].counts /\ Members!Free(r, p, Members!Members(p))
          /\ request' = [request EXCEPT ![r] =
               [@ EXCEPT !.owners = Members!Owners(p), !.rows = Members!Members(p), !.gaps = Users \ Members!Members(p)]]
        BY <1>3 DEF Members!CountOwners, Members!Owners, Members!Countable
    <2>2. request[r] \in Members!MemberRequest /\ Members!Holds(request[r])
        BY <2>1, MemberRequestFields
    <2>3. \A s \in MemberRequests \ {r} : request'[s] = request[s]
        BY <2>1 DEF Members!TypeOK
    <2>4. /\ request'[r].project = p /\ request'[r].rows = Members!Members(p)
          /\ request'[r].gaps = Users \ Members!Members(p)
          /\ request'[r].owners = Members!Owners(p)
          /\ request'[r].user = request[r].user /\ request'[r].role = request[r].role
          /\ request'[r].counts = request[r].counts
        BY <2>1, <2>2 DEF Members!TypeOK, Members!MemberRequest
    <2>5. request[r].user \in Members!Members(p)
        BY <2>1, <2>2, MemberSets DEF Members!Holds, Members!Members, Members!MemberRequest, Members!Roles
    <2>6. Members!Members(p) \subseteq Users
        BY DEF Members!Members
    <2> HIDE DEF p
    <2>7. Members!Holds(request[r])'
        BY <2>1, <2>2, <2>4, <2>5, <2>6 DEF Members!Holds, Members!Members, Members!Owners
    <2>8. ASSUME NEW s \in MemberRequests, Members!Doing(s, "member")'
          PROVE  Members!Holds(request[s])'
        BY <2>1, <2>3, <2>7, <2>8 DEF Members!Holds, Members!Members, Members!Owners, Members!Doing, Members!Idle
    <2>9. ASSUME NEW s \in MemberRequests \ {r}, Members!Doing(s, "member"), request[s].project = p
          PROVE  request[s].rows \cap request'[r].rows = {}
        BY <2>1, <2>4, <2>9 DEF Members!Free
    <2> QED BY <2>3, <2>4, <2>8, <2>9 DEF Members!Doing, Members!Idle
<1>4. ASSUME NEW r \in MemberRequests, Members!WriteMember(r)
      PROVE  Members!Locks'
    <2>1. request' = [request EXCEPT ![r] = None]
        BY <1>4 DEF Members!WriteMember, Members!Finish
    <2>2. ASSUME NEW s \in MemberRequests, Members!Doing(s, "member")'
          PROVE  s # r /\ Members!Doing(s, "member") /\ request'[s] = request[s]
        BY <2>1, <2>2 DEF Members!TypeOK, Members!Doing, Members!Idle
    <2>3. ASSUME NEW s \in MemberRequests, Members!Doing(s, "member")'
          PROVE  Members!Holds(request[s])'
        <3> DEFINE q == request[s]
        <3>1. s # r /\ Members!Holds(q) /\ q \in Members!MemberRequest /\ request'[s] = q
            BY <2>2, <2>3, MemberRequestFields
        <3>2. q.project = request[r].project => request[r].user \notin q.rows \cup q.gaps
            BY <1>4, <2>2, <2>3, OthersStand
        <3>3. /\ DOMAIN projects' = DOMAIN projects
              /\ \A u \in Users : u \in q.rows \cup q.gaps => projects'[q.project][u] = projects[q.project][u]
            BY <1>4, <3>1, <3>2, WriteWrites DEF Members!Holds
        <3>4. q.user \in Users /\ q.rows \subseteq Users /\ q.gaps \subseteq Users
            BY <3>1 DEF Members!MemberRequest
        <3>5. /\ q.project \in DOMAIN projects' /\ (q.user \in q.rows \/ (q.rows = {} /\ q.user \in q.gaps))
              /\ q.rows \subseteq Members!Members(q.project)' /\ q.gaps \cap Members!Members(q.project)' = {}
            BY <3>1, <3>3, <3>4 DEF Members!Holds, Members!Members
        <3>6. q.counts = (projects'[q.project][q.user] = "owner" /\ q.role # "owner")
            BY <3>1, <3>3, <3>4 DEF Members!Holds
        <3>7. q.owners # {} => q.owners = Members!Owners(q.project)' /\ q.rows \cup q.gaps = Users
            BY <3>1, <3>3, <3>4 DEF Members!Holds, Members!Owners
        <3> QED BY <3>1, <3>5, <3>6, <3>7 DEF Members!Holds, Members!Members, Members!Owners
    <2> QED BY <2>2, <2>3
<1>5. CASE UNCHANGED Members!vars
    BY <1>5 DEF Members!vars, Members!Doing, Members!Idle, Members!Holds, Members!Members, Members!Owners
<1> QED BY <1>1, <1>2, <1>3, <1>4, <1>5 DEF Members!Next

\* The last owner is not written over: who counts holds every row of the project.
LEMMA OwnerStep ==
    ASSUME Members!TypeOK, Members!Locks, Members!OwnerRemains, [Members!Next]_(Members!vars)
    PROVE  Members!OwnerRemains'
<1> USE DEF Members!OwnerRemains
<1>1. ASSUME NEW r \in MemberRequests, Members!WriteMember(r), NEW p \in DOMAIN projects'
      PROVE  \E u \in Users : projects'[p][u] = "owner"
    <2> DEFINE q == request[r]
    <2>1. /\ p \in DOMAIN projects
          /\ \A u \in Users : projects'[p][u] = IF p = q.project /\ u = q.user THEN q.role ELSE projects[p][u]
        BY <1>1, WriteWrites
    <2>2. q \in Members!MemberRequest /\ Members!Holds(q)
        BY <1>1, MemberRequestFields DEF Members!WriteMember, Members!Locks
    <2>3. CASE p # q.project \/ ~q.counts
        BY <2>1, <2>2, <2>3 DEF Members!Holds, Members!MemberRequest
    <2>4. CASE p = q.project /\ q.counts
        <3>1. Cardinality(q.owners) > 1
            BY <1>1, <2>4, CardinalityHere DEF Members!WriteMember
        <3>2. ~ q.owners \subseteq {q.user}
            BY <3>1, AtMostOne
        <3>3. q.owners = Members!Owners(p)
            BY <2>2, <2>4, <3>2 DEF Members!Holds
        <3>4. PICK u \in Members!Owners(p) : u # q.user
            BY <3>2, <3>3
        <3> QED BY <2>1, <3>4 DEF Members!Owners
    <2> QED BY <2>3, <2>4
<1>2. ASSUME NEW r \in MemberRequests, Members!Create(r), NEW p \in DOMAIN projects'
      PROVE  \E u \in Users : projects'[p][u] = "owner"
    <2>1. /\ projects' = Append(projects, [u \in Users |-> IF u = Creator THEN "owner" ELSE None])
          /\ projects \in Seq([Users -> Members!Roles \cup {None}])
        BY <1>2 DEF Members!Create, Members!TypeOK
    <2>2. CASE p \in DOMAIN projects
        BY <2>1, <2>2
    <2>3. CASE p \notin DOMAIN projects
        <3>1. projects'[p] = [u \in Users |-> IF u = Creator THEN "owner" ELSE None]
            BY <2>1, <2>3
        <3> QED BY <3>1, MemberSets
    <2> QED BY <2>2, <2>3
<1>3. CASE UNCHANGED projects
    BY <1>3
<1> QED BY <1>1, <1>2, <1>3
        DEF Members!Next, Members!vars, Members!Reserve, Members!LockMember, Members!CountOwners, Members!Rollback

\* One creation, and one project, for one request id.
LEMMA CreationsStep ==
    ASSUME Members!TypeOK, Members!Locks, Members!Creations, [Members!Next]_(Members!vars)
    PROVE  Members!Creations'
<1> USE DEF Members!Creations
<1>1. ASSUME NEW r \in MemberRequests, Members!Reserve(r)
      PROVE  Members!Creations'
    <2>1. CASE creation = None
        <3>1. UNCHANGED <<creation, projects, answers>> /\ \E input : request' = [request EXCEPT ![r] = [op |-> "create", input |-> input]]
            BY <1>1, <2>1 DEF Members!Reserve
        <3>2. \A s \in MemberRequests : ~Members!Doing(s, "create")
            BY <1>1 DEF Members!Reserve, Members!Reservable
        <3>3. \A s \in MemberRequests : s # r => request'[s] = request[s]
            BY <3>1 DEF Members!TypeOK
        <3>4. \A s \in MemberRequests : Members!Doing(s, "create")' => s = r
            BY <3>2, <3>3 DEF Members!Doing, Members!Idle
        <3> QED BY <2>1, <3>1, <3>4
    <2>2. CASE creation # None
        BY <1>1, <2>2 DEF Members!Reserve, Members!Doing, Members!Idle
    <2> QED BY <2>1, <2>2
<1>2. ASSUME NEW r \in MemberRequests, Members!Create(r)
      PROVE  Members!Creations'
    <2>1. /\ creation = None /\ projects = <<>> /\ answers = {}
          /\ \A s \in MemberRequests : Members!Doing(s, "create") => s = r
        BY <1>2 DEF Members!Create
    <2>2. answers' \subseteq {creation'} /\ Len(projects') = 1
        BY <1>2, <2>1 DEF Members!Create
    <2>3. request[r] \in Members!CreateRequest
        BY <1>2 DEF Members!TypeOK, Members!Create, Members!Doing, Members!Idle, Members!Transaction, Members!MemberRequest
    <2>4. creation' # None
        BY <1>2, <2>1, <2>3, MemberSets DEF Members!Create, Members!CreateRequest, Members!Creation
    <2>5. \A s \in MemberRequests : ~Members!Doing(s, "create")'
        BY <1>2, <2>1 DEF Members!Create, Members!Finish, Members!TypeOK, Members!Doing, Members!Idle
    <2> QED BY <2>2, <2>4, <2>5
<1>3. ASSUME NEW r \in MemberRequests, Members!WriteMember(r)
      PROVE  Members!Creations'
    <2>1. UNCHANGED <<creation, answers>> /\ request' = [request EXCEPT ![r] = None]
        BY <1>3 DEF Members!WriteMember, Members!Finish
    <2>2. projects' \in Seq([Users -> Members!Roles \cup {None}]) /\ DOMAIN projects' = DOMAIN projects
        BY <1>3, WriteWrites
    <2>3. Len(projects') = Len(projects)
        BY <2>2 DEF Members!TypeOK
    <2>4. projects = <<>> => projects' = <<>>
        BY <2>2, <2>3
    <2>5. \A s \in MemberRequests : Members!Doing(s, "create")' => Members!Doing(s, "create")
        BY <2>1 DEF Members!TypeOK, Members!Doing, Members!Idle
    <2> QED BY <2>1, <2>3, <2>4, <2>5
<1>5. ASSUME NEW r \in MemberRequests, Members!LockMember(r) \/ Members!CountOwners(r) \/ Members!Rollback(r)
      PROVE  Members!Creations'
    <2>1. UNCHANGED <<creation, answers, projects>>
        BY <1>5 DEF Members!LockMember, Members!CountOwners, Members!Rollback
    <2>2. CASE Members!LockMember(r)
        <3>1. \A s \in MemberRequests : Members!Doing(s, "create")' => Members!Doing(s, "create")
            BY <2>2 DEF Members!TypeOK, Members!LockMember, Members!Doing, Members!Idle
        <3> QED BY <2>1, <3>1
    <2>3. CASE Members!CountOwners(r)
        <3>1. \A s \in MemberRequests : Members!Doing(s, "create")' => Members!Doing(s, "create")
            BY <2>3, MemberRequestFields
               DEF Members!TypeOK, Members!CountOwners, Members!MemberRequest, Members!Doing, Members!Idle
        <3> QED BY <2>1, <3>1
    <2>4. CASE Members!Rollback(r)
        <3>1. \A s \in MemberRequests : Members!Doing(s, "create")' => Members!Doing(s, "create")
            BY <2>4 DEF Members!TypeOK, Members!Rollback, Members!Finish, Members!Doing, Members!Idle
        <3> QED BY <2>1, <3>1
    <2> QED BY <1>5, <2>2, <2>3, <2>4
<1>4. CASE UNCHANGED Members!vars
    BY <1>4 DEF Members!vars, Members!Doing, Members!Idle
<1> QED BY <1>1, <1>2, <1>3, <1>4, <1>5 DEF Members!Next

-----------------------------------------------------------------------------
\* Modules with their pages and workflows.

\* What None is not.
LEMMA ObjectSets ==
    None \notin Objects!Pending /\ None \notin Modules
BY AdministrationAssumption

\* What the look at the module leaves behind.
LEMMA ReadReads ==
    ASSUME Objects!TypeOK, Objects!Placed, NEW r \in Requests, Objects!Read(r)
    PROVE  \E o \in Objects!Objects \ Objects!Held, op \in Objects!Operations, m \in Modules :
             /\ m \in Objects!Asks(o, op) /\ Objects!Usable(m)
             /\ request' = [request EXCEPT ![r] =
                    [object |-> o, op |-> op, module |-> m, found |-> FALSE, locks |-> op \notin {"create", "enable"}]]
             /\ UNCHANGED <<module, object, raced>>
<1>1. PICK o \in Objects!Objects \ Objects!Held, op \in Objects!Operations : \E m \in Objects!Asks(o, op) :
            /\ Objects!Usable(m)
            /\ request' = [request EXCEPT ![r] =
                 [object |-> o, op |-> op, module |-> m, found |-> module[m].archived, locks |-> op \notin {"create", "enable"}]]
    BY DEF Objects!Read, Objects!ReadModule
<1>2. PICK m \in Objects!Asks(o, op) :
            /\ Objects!Usable(m)
            /\ request' = [request EXCEPT ![r] =
                 [object |-> o, op |-> op, module |-> m, found |-> module[m].archived, locks |-> op \notin {"create", "enable"}]]
    BY <1>1
<1>3. object[o] \in Objects!ObjectRow
    BY DEF Objects!TypeOK
<1>4. m \in Modules
    BY <1>2, <1>3, ObjectSets DEF Objects!Asks, Objects!Operations, Objects!Placed, Objects!Open, Objects!ObjectRow
<1>5. module[m].archived = FALSE
    BY <1>2, <1>4 DEF Objects!Usable, Objects!TypeOK, Objects!ModuleRow
<1> QED BY <1>2, <1>4, <1>5 DEF Objects!Read

\* What each operation makes of a row.
LEMMA WrittenRow ==
    ASSUME NEW o, NEW op \in Objects!Operations, NEW m \in Modules, object[o] \in Objects!ObjectRow,
           NEW after, after = Objects!Written(o, op, m)
    PROVE  /\ after \in Objects!ObjectRow
           /\ op \in {"create", "move", "activate"} => after.module = m
           /\ op \in {"save", "enable", "restore"} => after.module = object[o].module
           /\ op \in {"create", "enable"} \/ object[o].status # "absent" => after.status # "absent"
<1> USE DEF Objects!ObjectRow, Objects!Statuses
<1>1. CASE op = "create"
    <2>1. PICK d \in Modules \cup {None} : after = [status |-> "active", archived |-> FALSE, module |-> m, draft |-> d]
        BY <1>1 DEF Objects!Written
    <2>2. after \in Objects!ObjectRow
        BY <2>1
    <2>3. after.module = m /\ after.status # "absent"
        BY <2>1
    <2> QED BY <1>1, <2>2, <2>3
<1>2. CASE op = "move"
    <2>1. after = [object[o] EXCEPT !.module = m]
        BY <1>2 DEF Objects!Written
    <2> QED BY <1>2, <2>1
<1>3. CASE op = "save"
    <2>1. after = [object[o] EXCEPT !.draft = m]
        BY <1>3 DEF Objects!Written
    <2> QED BY <1>3, <2>1
<1>4. CASE op = "activate"
    <2>1. after = [object[o] EXCEPT !.module = m, !.draft = None]
        BY <1>4 DEF Objects!Written
    <2> QED BY <1>4, <2>1
<1>5. CASE op = "enable"
    <2>1. after = [object[o] EXCEPT !.status = "active"]
        BY <1>5 DEF Objects!Written
    <2> QED BY <1>5, <2>1
<1>6. CASE op = "restore"
    <2>1. after = [object[o] EXCEPT !.archived = FALSE]
        BY <1>6 DEF Objects!Written
    <2> QED BY <1>6, <2>1
<1> QED BY <1>1, <1>2, <1>3, <1>4, <1>5, <1>6 DEF Objects!Operations

\* What a commit does, and to a row that nobody else holds.
LEMMA CommitCommits ==
    ASSUME Objects!TypeOK, Objects!Waiting, NEW r \in Requests, Objects!Commit(r)
    PROVE  /\ request[r] \in Objects!Pending /\ object[request[r].object] \in Objects!ObjectRow
           /\ Objects!Written(request[r].object, request[r].op, request[r].module) \in Objects!ObjectRow
           /\ object' = [object EXCEPT ![request[r].object] =
                            Objects!Written(request[r].object, request[r].op, request[r].module)]
           /\ \A s \in Requests \ {r} : request[s] # None /\ request[s].locks => request[s].object # request[r].object
<1> DEFINE q == request[r]
<1>1. q \in Objects!Pending /\ q # None
    BY DEF Objects!Commit, Objects!TypeOK
<1>2. object[q.object] \in Objects!ObjectRow
    BY <1>1 DEF Objects!TypeOK, Objects!Pending
<1>3. Objects!Written(q.object, q.op, q.module) \in Objects!ObjectRow
    BY <1>1, <1>2 DEF Objects!Written, Objects!Pending, Objects!ObjectRow, Objects!Statuses, Objects!Operations
<1>4. ASSUME NEW s \in Requests \ {r}, request[s] # None, request[s].locks
      PROVE  request[s].object # q.object
    <2>1. CASE q.locks
        BY <1>1, <1>4, <2>1 DEF Objects!Waiting
    <2>2. CASE q.op = "create"
        BY <1>1, <1>4, <2>2 DEF Objects!Waiting, Objects!Commit, Objects!StillThere
    <2>3. CASE q.op = "enable"
        BY <1>1, <1>4, <2>3 DEF Objects!Waiting, Objects!Commit, Objects!StillThere, Objects!Held
    <2> QED BY <1>1, <2>1, <2>2, <2>3 DEF Objects!Waiting
<1> QED BY <1>1, <1>2, <1>3, <1>4 DEF Objects!Commit

\* What the steps of administrators on modules and on rows nobody holds change.
LEMMA OtherSteps ==
    ASSUME Objects!TypeOK,
           \/ \E m \in Modules : \/ Objects!CreateModule(m) \/ Objects!UpdateModule(m)
                                 \/ Objects!ArchiveModule(m) \/ Objects!RestoreModule(m)
           \/ \E o \in Objects!Objects : Objects!UpdateObject(o) \/ Objects!ArchiveObject(o)
           \/ UNCHANGED Objects!vars
    PROVE  /\ module' \in [Modules -> Objects!ModuleRow] /\ object' \in [Objects!Objects -> Objects!ObjectRow]
           /\ UNCHANGED <<request, raced>>
           /\ \A o \in Objects!Objects :
                /\ object'[o].module = object[o].module
                /\ object'[o].status # "absent" <=> object[o].status # "absent"
                /\ object'[o].archived => object[o].archived \/ object[o].status # "absent"
                /\ Objects!Open(object'[o]) => Objects!Open(object[o])
           /\ \A m \in Modules : module'[m].archived =>
                module[m].archived \/ \A o \in Objects!Objects : Objects!Open(object'[o]) => object[o].module # m
<1> USE DEF Objects!TypeOK
<1>1. ASSUME NEW m \in Modules,
             Objects!CreateModule(m) \/ Objects!UpdateModule(m) \/ Objects!RestoreModule(m) \/ Objects!ArchiveModule(m)
      PROVE  /\ module' \in [Modules -> Objects!ModuleRow] /\ UNCHANGED <<object, request, raced>>
             /\ \A k \in Modules : module'[k].archived => module[k].archived \/ (k = m /\ Objects!ArchiveModule(m))
    <2>1. CASE Objects!CreateModule(m)
        BY <2>1 DEF Objects!CreateModule, Objects!ModuleRow, Objects!Statuses
    <2>2. CASE Objects!UpdateModule(m)
        <3>1. PICK status \in {"active", "disabled"} : module' = [module EXCEPT ![m].status = status]
            BY <2>2 DEF Objects!UpdateModule
        <3> QED BY <2>2, <3>1 DEF Objects!UpdateModule, Objects!ModuleRow, Objects!Statuses
    <2>3. CASE Objects!RestoreModule(m)
        BY <2>3 DEF Objects!RestoreModule, Objects!ModuleRow
    <2>4. CASE Objects!ArchiveModule(m)
        BY <2>4 DEF Objects!ArchiveModule, Objects!ModuleRow
    <2> QED BY <1>1, <2>1, <2>2, <2>3, <2>4
<1>2. ASSUME NEW m \in Modules, Objects!ArchiveModule(m), NEW o \in Objects!Objects, Objects!Open(object[o])
      PROVE  object[o].module # m
    BY <1>2 DEF Objects!ArchiveModule, Objects!Depends
<1>3. CASE \E m \in Modules : \/ Objects!CreateModule(m) \/ Objects!UpdateModule(m)
                              \/ Objects!ArchiveModule(m) \/ Objects!RestoreModule(m)
    BY <1>1, <1>2, <1>3
<1>4. ASSUME NEW o \in Objects!Objects, Objects!UpdateObject(o) \/ Objects!ArchiveObject(o)
      PROVE  /\ UNCHANGED <<module, request, raced>> /\ object' \in [Objects!Objects -> Objects!ObjectRow]
             /\ \A k \in Objects!Objects \ {o} : object'[k] = object[k]
             /\ object'[o].module = object[o].module
             /\ object[o].status # "absent" /\ object'[o].status # "absent"
             /\ Objects!Open(object'[o]) => Objects!Open(object[o])
    <2>1. object[o] \in Objects!ObjectRow
        OBVIOUS
    <2>2. CASE Objects!UpdateObject(o)
        <3>1. PICK status \in {"active", "disabled"} : object' = [object EXCEPT ![o].status = status]
            BY <2>2 DEF Objects!UpdateObject
        <3> QED BY <2>1, <2>2, <3>1 DEF Objects!UpdateObject, Objects!ObjectRow, Objects!Statuses, Objects!Open
    <2>3. CASE Objects!ArchiveObject(o)
        BY <2>1, <2>3 DEF Objects!ArchiveObject, Objects!ObjectRow, Objects!Open
    <2> QED BY <1>4, <2>2, <2>3
<1>5. CASE \E o \in Objects!Objects : Objects!UpdateObject(o) \/ Objects!ArchiveObject(o)
    BY <1>4, <1>5
<1>6. CASE UNCHANGED Objects!vars
    BY <1>6 DEF Objects!vars
<1> QED BY <1>3, <1>5, <1>6

\* The variables of modules and objects keep their types.
LEMMA ObjectTypes ==
    ASSUME Objects!TypeOK, Objects!Placed, Objects!Waiting, [Objects!Next]_(Objects!vars)
    PROVE  Objects!TypeOK'
<1> USE DEF Objects!TypeOK
<1>1. ASSUME NEW r \in Requests, Objects!Read(r)
      PROVE  Objects!TypeOK'
    <2>1. PICK o \in Objects!Objects, op \in Objects!Operations, m \in Modules :
             /\ request' = [request EXCEPT ![r] =
                    [object |-> o, op |-> op, module |-> m, found |-> FALSE, locks |-> op \notin {"create", "enable"}]]
             /\ UNCHANGED <<module, object, raced>>
        BY <1>1, ReadReads
    <2>2. [object |-> o, op |-> op, module |-> m, found |-> FALSE, locks |-> op \notin {"create", "enable"}]
            \in Objects!Pending
        BY DEF Objects!Pending
    <2> QED BY <2>1, <2>2
<1>2. ASSUME NEW r \in Requests, Objects!Commit(r)
      PROVE  Objects!TypeOK'
    <2>1. request[r].object \in Objects!Objects
        BY <1>2, CommitCommits DEF Objects!Pending
    <2> QED BY <1>2, <2>1, CommitCommits DEF Objects!Commit
<1>3. ASSUME NEW r \in Requests, Objects!Fail(r)
      PROVE  Objects!TypeOK'
    BY <1>3 DEF Objects!Fail
<1> QED BY <1>1, <1>2, <1>3, OtherSteps DEF Objects!Next

\* An object that exists keeps lying in a module.
LEMMA PlacedStep ==
    ASSUME Objects!TypeOK, Objects!Placed, Objects!Waiting, [Objects!Next]_(Objects!vars)
    PROVE  Objects!Placed'
<1> USE DEF Objects!Placed
<1>1. ASSUME NEW r \in Requests, Objects!Read(r) \/ Objects!Fail(r)
      PROVE  Objects!Placed'
    BY <1>1 DEF Objects!Read, Objects!Fail
<1>2. ASSUME NEW r \in Requests, Objects!Commit(r), NEW o \in Objects!Objects,
             object'[o].archived \/ object'[o].status # "absent"
      PROVE  object'[o].status # "absent" /\ object'[o].module \in Modules
    <2> DEFINE q == request[r]
    <2>1. /\ q \in Objects!Pending /\ object[q.object] \in Objects!ObjectRow /\ q # None
          /\ object' = [object EXCEPT ![q.object] = Objects!Written(q.object, q.op, q.module)]
        BY <1>2, CommitCommits DEF Objects!Commit
    <2>2. q.op \in {"move", "save", "activate", "restore"} => object[q.object].status # "absent"
        BY <2>1 DEF Objects!Waiting
    <2>3. q.op = "enable" => object[q.object].status # "absent"
        BY <1>2 DEF Objects!Commit, Objects!StillThere, Objects!Open
    <2>4. CASE o = q.object
        <3>1. object'[o] = Objects!Written(o, q.op, q.module)
            BY <2>1, <2>4 DEF Objects!TypeOK, Objects!Pending
        <3>2. q.op \in Objects!Operations /\ q.module \in Modules
            BY <2>1 DEF Objects!Pending
        <3>3. /\ q.op \in {"create", "enable"} \/ object[o].status # "absent"
              /\ q.op \in {"create", "move", "activate"} \/ object[o].module \in Modules
            BY <2>2, <2>3, <2>4, <3>2 DEF Objects!Operations
        <3> QED BY <2>1, <2>4, <3>1, <3>2, <3>3, WrittenRow DEF Objects!Operations
    <2>5. CASE o # q.object
        BY <1>2, <2>1, <2>5 DEF Objects!TypeOK
    <2> QED BY <2>4, <2>5
<1> QED BY <1>1, <1>2, OtherSteps DEF Objects!Next

\* What a waiting transaction found stays true: its row is held.
LEMMA WaitingStep ==
    ASSUME Objects!TypeOK, Objects!Placed, Objects!Waiting, [Objects!Next]_(Objects!vars)
    PROVE  Objects!Waiting'
<1> USE DEF Objects!Waiting
<1>1. ASSUME NEW r \in Requests, Objects!Read(r)
      PROVE  Objects!Waiting'
    <2>1. PICK o \in Objects!Objects \ Objects!Held, op \in Objects!Operations, m \in Modules :
             /\ m \in Objects!Asks(o, op)
             /\ request' = [request EXCEPT ![r] =
                    [object |-> o, op |-> op, module |-> m, found |-> FALSE, locks |-> op \notin {"create", "enable"}]]
             /\ UNCHANGED <<module, object, raced>>
        BY <1>1, ReadReads
    <2>2. /\ request'[r] = [object |-> o, op |-> op, module |-> m, found |-> FALSE, locks |-> op \notin {"create", "enable"}]
          /\ \A s \in Requests \ {r} : request'[s] = request[s]
        BY <2>1 DEF Objects!TypeOK
    <2>3. object[o] \in Objects!ObjectRow
        BY <2>1 DEF Objects!TypeOK
    <2>4. op \notin {"create", "enable"} => object[o].status # "absent"
        BY <2>1, <2>3 DEF Objects!Asks, Objects!Operations, Objects!Open, Objects!Placed, Objects!ObjectRow
    <2>5. op = "restore" => object[o].module = m
        BY <2>1 DEF Objects!Asks
    <2>6. \A s \in Requests \ {r} : request[s] # None /\ request[s].locks => request[s].object # o
        BY <2>1 DEF Objects!Held
    <2>7. UNCHANGED object
        BY <2>1
    <2>8. ASSUME NEW k \in Requests, request'[k] # None
          PROVE  /\ ~request'[k].found /\ request'[k].locks = (request'[k].op \notin {"create", "enable"})
                 /\ request'[k].locks => object[request'[k].object].status # "absent"
                 /\ request'[k].op = "restore" => object[request'[k].object].module = request'[k].module
        <3>1. CASE k = r
            <4>1. /\ request'[r].object = o /\ request'[r].op = op /\ request'[r].module = m
                  /\ request'[r].found = FALSE /\ request'[r].locks = (op \notin {"create", "enable"})
                BY <2>2
            <4> QED BY <2>4, <2>5, <3>1, <4>1
        <3>2. CASE k # r
            BY <2>2, <2>8, <3>2
        <3> QED BY <3>1, <3>2
    <2>9. ASSUME NEW k \in Requests, NEW s \in Requests \ {k}, request'[k] # None, request'[s] # None,
                 request'[k].locks, request'[s].locks
          PROVE  request'[k].object # request'[s].object
        BY <2>2, <2>6, <2>9
    <2> QED BY <2>7, <2>8, <2>9
<1>2. ASSUME NEW r \in Requests, Objects!Commit(r)
      PROVE  Objects!Waiting'
    <2> DEFINE q == request[r]
    <2>1. /\ q \in Objects!Pending
          /\ object' = [object EXCEPT ![q.object] = Objects!Written(q.object, q.op, q.module)]
          /\ \A s \in Requests \ {r} : request[s] # None /\ request[s].locks => request[s].object # q.object
        BY <1>2, CommitCommits
    <2>2. \A s \in Requests : request'[s] # None => s # r /\ request'[s] = request[s]
        BY <1>2 DEF Objects!Commit, Objects!TypeOK
    <2>3. ASSUME NEW s \in Requests, request'[s] # None, request[s].locks
          PROVE  object'[request[s].object] = object[request[s].object]
        BY <2>1, <2>2, <2>3 DEF Objects!TypeOK, Objects!Pending
    <2>4. ASSUME NEW s \in Requests, request'[s] # None
          PROVE  request[s] # None /\ (request[s].op = "restore" => request[s].locks)
        BY <2>2, <2>4
    <2> QED BY <2>2, <2>3, <2>4
<1>3. ASSUME NEW r \in Requests, Objects!Fail(r)
      PROVE  Objects!Waiting'
    BY <1>3 DEF Objects!Fail, Objects!TypeOK
<1>4. CASE \/ \E m \in Modules : \/ Objects!CreateModule(m) \/ Objects!UpdateModule(m)
                                 \/ Objects!ArchiveModule(m) \/ Objects!RestoreModule(m)
           \/ \E o \in Objects!Objects : Objects!UpdateObject(o) \/ Objects!ArchiveObject(o)
           \/ UNCHANGED Objects!vars
    <2>1. UNCHANGED request /\ \A o \in Objects!Objects : /\ object'[o].module = object[o].module
                                                          /\ object'[o].status # "absent" <=> object[o].status # "absent"
        BY <1>4, OtherSteps
    <2>2. \A r \in Requests : request[r] # None => request[r].object \in Objects!Objects
        BY DEF Objects!TypeOK, Objects!Pending
    <2> QED BY <2>1, <2>2
<1> QED BY <1>1, <1>2, <1>3, <1>4 DEF Objects!Next

\* Archiving a module looks for what lies in it; a request puts an object only where it found
\* a module in use, and what overtakes it is remembered in raced.
LEMMA OpenStep ==
    ASSUME Objects!TypeOK, Objects!Placed, Objects!Waiting, Objects!OpenIsHeld, [Objects!Next]_(Objects!vars)
    PROVE  Objects!OpenIsHeld'
<1> USE DEF Objects!OpenIsHeld
<1>1. ASSUME NEW r \in Requests, Objects!Read(r) \/ Objects!Fail(r)
      PROVE  Objects!OpenIsHeld'
    BY <1>1 DEF Objects!Read, Objects!Fail
<1>2. ASSUME NEW r \in Requests, Objects!Commit(r),
             NEW o \in Objects!Objects, o \notin raced', Objects!Open(object'[o])
      PROVE  ~module'[object'[o].module].archived
    <2> DEFINE q == request[r]
    <2>1. /\ q \in Objects!Pending /\ object[q.object] \in Objects!ObjectRow /\ q # None
          /\ object' = [object EXCEPT ![q.object] = Objects!Written(q.object, q.op, q.module)]
          /\ module' = module
        BY <1>2, CommitCommits DEF Objects!Commit
    <2>2. CASE o # q.object
        <3>1. o \notin raced
            BY <1>2, <2>2 DEF Objects!Commit
        <3>2. object'[o] = object[o]
            BY <2>1, <2>2 DEF Objects!TypeOK
        <3> QED BY <1>2, <2>1, <3>1, <3>2
    <2>3. CASE o = q.object /\ q.op \in {"enable", "save"}
        <3>1. o \notin raced
            BY <1>2, <2>3 DEF Objects!Commit
        <3>2. object'[o] = Objects!Written(o, q.op, q.module)
            BY <2>1, <2>3 DEF Objects!TypeOK, Objects!Pending
        <3>3. object'[o].module = object[o].module /\ Objects!Open(object[o])
            BY <1>2, <2>1, <2>3, <3>2 DEF Objects!Written, Objects!Commit, Objects!StillThere, Objects!Open, Objects!ObjectRow
        <3> QED BY <2>1, <3>1, <3>3
    <2>4. CASE o = q.object /\ q.op \notin {"enable", "save"}
        <3>1. ~module[q.module].archived
            BY <1>2, <2>1, <2>4 DEF Objects!Commit, Objects!Waiting
        <3>2. object'[o] = Objects!Written(o, q.op, q.module)
            BY <2>1, <2>4 DEF Objects!TypeOK, Objects!Pending
        <3>3. q.op = "restore" => object[o].module = q.module
            BY <2>1, <2>4 DEF Objects!Waiting
        <3>4. object'[o].module = q.module
            <4>1. q.op \in {"create", "move", "activate", "restore"} /\ q.op \in Objects!Operations /\ q.module \in Modules
                BY <2>1, <2>4 DEF Objects!Pending, Objects!Operations
            <4> QED BY <2>1, <2>4, <3>2, <3>3, <4>1, WrittenRow, SMTT(30)
        <3> QED BY <2>1, <3>1, <3>4
    <2> QED BY <2>2, <2>3, <2>4
<1>3. CASE \/ \E m \in Modules : \/ Objects!CreateModule(m) \/ Objects!UpdateModule(m)
                                 \/ Objects!ArchiveModule(m) \/ Objects!RestoreModule(m)
           \/ \E o \in Objects!Objects : Objects!UpdateObject(o) \/ Objects!ArchiveObject(o)
           \/ UNCHANGED Objects!vars
    <2>1. ASSUME NEW o \in Objects!Objects \ raced', Objects!Open(object'[o])
          PROVE  ~module'[object'[o].module].archived
        <3>1. o \notin raced /\ Objects!Open(object[o]) /\ object'[o].module = object[o].module
            BY <1>3, <2>1, OtherSteps
        <3>2. object[o].module \in Modules
            BY <3>1 DEF Objects!Open, Objects!Placed
        <3> QED BY <1>3, <2>1, <3>1, <3>2, OtherSteps
    <2> QED BY <2>1
<1> QED BY <1>1, <1>2, <1>3 DEF Objects!Next

-----------------------------------------------------------------------------
\* The versions of a workflow.

\* What None is not, and the bounds.
LEMMA AdmissionSets ==
    /\ None \notin Nat /\ None \notin Admission!Workflow
    /\ MaxTime \in Nat /\ Skew \in Nat /\ MaxChanges \in Nat
BY AdministrationAssumption

\* What a transaction may make of a workflow: it fits, and past starts stay admitted.
Follows(w, after) ==
    /\ after \in Admission!Workflow /\ Admission!Fits(after)
    /\ \A v \in Nat, t \in Nat : t < now /\ Admission!AdmittedBy(w, v, t) => Admission!AdmittedBy(after, v, t)

\* The periods after a change at this moment: what was open ends now.
LEMMA ClosedPeriods ==
    ASSUME now \in Nat, NEW w \in Admission!Workflow, Admission!Fits(w), NEW P, P = Admission!Closed(w.periods)
    PROVE  /\ P \in SUBSET Admission!Period
           /\ \A p \in P : p.from <= now /\ p.to # None /\ p.to <= now
           /\ \A p, q \in P : p = q \/ Admission!Before(p, q) \/ Admission!Before(q, p)
           /\ \A q \in w.periods : \E p \in P :
                p.version = q.version /\ p.from = q.from /\ p.to = IF q.to = None THEN now ELSE q.to
<1> DEFINE Close(p) == [p EXCEPT !.to = IF @ = None THEN now ELSE @]
<1>1. P = {Close(p) : p \in w.periods}
    BY DEF Admission!Closed
<1>2. ASSUME NEW p \in w.periods
      PROVE  /\ Close(p) \in Admission!Period /\ Close(p).version = p.version /\ Close(p).from = p.from
             /\ Close(p).to = IF p.to = None THEN now ELSE p.to
             /\ p \in Admission!Period
    BY DEF Admission!Workflow, Admission!Period
<1> HIDE DEF Close
<1>3. ASSUME NEW p \in w.periods
      PROVE  Close(p).from <= now /\ Close(p).to # None /\ Close(p).to <= now
    BY <1>2, AdmissionSets DEF Admission!Fits, Admission!Period
<1>4. ASSUME NEW p \in w.periods, NEW q \in w.periods
      PROVE  Close(p) = Close(q) \/ Admission!Before(Close(p), Close(q)) \/ Admission!Before(Close(q), Close(p))
    BY <1>2, <1>3 DEF Admission!Fits, Admission!Before
<1> QED BY <1>1, <1>2, <1>3, <1>4

\* Periods of which none is open but one of the version, and that keep those the workflow had.
OpenAt(w, v, Q) ==
    /\ Q \in SUBSET Admission!Period
    /\ \A p \in Q : p.from <= now /\ (p.to # None => p.to <= now) /\ (p.to = None => p.version = v)
    /\ \A p, q \in Q : p = q \/ Admission!Before(p, q) \/ Admission!Before(q, p)
    /\ \E p \in Q : p.version = v /\ p.to = None
    /\ \A q \in w.periods : \E p \in Q :
         p.version = q.version /\ p.from = q.from /\ p.to = IF q.to = None THEN now ELSE q.to

\* A new period may begin where all others have ended.
LEMMA OpenedPeriods ==
    ASSUME now \in Nat, NEW w \in Admission!Workflow, Admission!Fits(w), NEW v \in Nat,
           NEW n, n = [version |-> v, from |-> now, to |-> None]
    PROVE  OpenAt(w, v, Admission!Closed(w.periods) \cup {n})
<1> SUFFICES ASSUME NEW Q, Q = Admission!Closed(w.periods) \cup {n} PROVE OpenAt(w, v, Q)
    OBVIOUS
<1> DEFINE P == Admission!Closed(w.periods)
<1>1. /\ P \in SUBSET Admission!Period
      /\ \A p \in P : p.from <= now /\ p.to # None /\ p.to <= now
      /\ \A p, q \in P : p = q \/ Admission!Before(p, q) \/ Admission!Before(q, p)
      /\ \A q \in w.periods : \E p \in P :
           p.version = q.version /\ p.from = q.from /\ p.to = IF q.to = None THEN now ELSE q.to
    BY ClosedPeriods
<1>2. n \in Admission!Period /\ n.version = v /\ n.from = now /\ n.to = None
    BY DEF Admission!Period
<1>3. Q = P \cup {n}
    OBVIOUS
<1> HIDE DEF P
<1>4. \A p \in P : Admission!Before(p, n)
    BY <1>1, <1>2 DEF Admission!Before
<1>5. now <= now
    OBVIOUS
<1> QED BY <1>1, <1>2, <1>3, <1>4, <1>5 DEF OpenAt

\* A start in the past that a period covered is covered by what becomes of the period.
LEMMA StaysAdmitted ==
    ASSUME now \in Nat, NEW w \in Admission!Workflow, NEW after \in Admission!Workflow,
           \A q \in w.periods : \E p \in after.periods :
             p.version = q.version /\ p.from = q.from /\ p.to = IF q.to = None THEN now ELSE q.to,
           \A v \in DOMAIN w.versions : w.versions[v].from # None =>
             v \in DOMAIN after.versions /\ after.versions[v].from = w.versions[v].from
    PROVE  \A v \in Nat, t \in Nat : t < now /\ Admission!AdmittedBy(w, v, t) => Admission!AdmittedBy(after, v, t)
<1> SUFFICES ASSUME NEW v \in Nat, NEW t \in Nat, t < now, Admission!AdmittedBy(w, v, t)
             PROVE  Admission!AdmittedBy(after, v, t)
    OBVIOUS
<1>1. PICK q \in w.periods : q.version = v /\ t >= q.from /\ (q.to = None \/ t < q.to)
    BY DEF Admission!AdmittedBy
<1>2. PICK p \in after.periods : p.version = q.version /\ p.from = q.from /\ p.to = IF q.to = None THEN now ELSE q.to
    OBVIOUS
<1>3. p.version = v /\ t >= p.from /\ t < p.to
    BY <1>1, <1>2
<1> QED BY <1>3 DEF Admission!AdmittedBy

\* A change of the status closes what is open, and opens a period for the active version.
LEMMA StatusFollows ==
    ASSUME now \in Nat, NEW w \in Admission!Workflow, Admission!Fits(w), ~w.archived,
           NEW status \in {"active", "disabled"}, NEW after, after = Admission!WithStatus(w, status)
    PROVE  Follows(w, after)
<1>1. CASE w.status = status
    BY <1>1 DEF Admission!WithStatus, Follows
<1>2. CASE w.status # status /\ status = "disabled"
    <2> DEFINE P == Admission!Closed(w.periods)
    <2>1. after = [w EXCEPT !.status = status, !.periods = P]
        BY <1>2 DEF Admission!WithStatus
    <2>2. /\ P \in SUBSET Admission!Period
          /\ \A p \in P : p.from <= now /\ p.to # None /\ p.to <= now
          /\ \A p, q \in P : p = q \/ Admission!Before(p, q) \/ Admission!Before(q, p)
          /\ \A q \in w.periods : \E p \in P :
               p.version = q.version /\ p.from = q.from /\ p.to = IF q.to = None THEN now ELSE q.to
        BY ClosedPeriods
    <2> HIDE DEF P
    <2>3. /\ after \in Admission!Workflow /\ after.status = "disabled" /\ after.periods = P
          /\ after.versions = w.versions /\ after.archived = w.archived
        BY <1>2, <2>1, <2>2 DEF Admission!Workflow
    <2>4. Admission!Fits(after)
        BY <2>2, <2>3 DEF Admission!Fits, Admission!ActiveVersions
    <2>5. \A u \in Nat, t \in Nat : t < now /\ Admission!AdmittedBy(w, u, t) => Admission!AdmittedBy(after, u, t)
        BY <2>2, <2>3, StaysAdmitted
    <2> QED BY <2>3, <2>4, <2>5 DEF Follows
<1>3. CASE w.status # status /\ status = "active"
    <2> DEFINE Q == Admission!Closed(w.periods) \cup Admission!Opened(w)
    <2>1. after = [w EXCEPT !.status = status, !.periods = Q]
        BY <1>3 DEF Admission!WithStatus
    <2>2. /\ Admission!Opened(w) = {[version |-> v, from |-> now, to |-> None] : v \in Admission!ActiveVersions(w)}
          /\ \A v \in Admission!ActiveVersions(w) : Admission!ActiveVersions(w) = {v} /\ v \in Nat
        BY DEF Admission!Opened, Admission!ActiveVersions, Admission!Fits, Admission!Workflow
    <2>3. /\ Q \in SUBSET Admission!Period
          /\ \A p \in Q : p.from <= now /\ (p.to # None => p.to <= now)
          /\ \A p \in Q : p.to = None => p.version \in Admission!ActiveVersions(w)
          /\ \A p, q \in Q : p = q \/ Admission!Before(p, q) \/ Admission!Before(q, p)
          /\ \A v \in Admission!ActiveVersions(w) : \E p \in Q : p.version = v /\ p.to = None
          /\ \A q \in w.periods : \E p \in Q :
               p.version = q.version /\ p.from = q.from /\ p.to = IF q.to = None THEN now ELSE q.to
        <3>1. CASE Admission!ActiveVersions(w) = {}
            <4>1. Q = Admission!Closed(w.periods)
                BY <2>2, <3>1
            <4> HIDE DEF Q
            <4> QED BY <3>1, <4>1, ClosedPeriods
        <3>2. ASSUME NEW v \in Admission!ActiveVersions(w)
              PROVE  <2>3
            <4> DEFINE n == [version |-> v, from |-> now, to |-> None]
            <4>1. Q = Admission!Closed(w.periods) \cup {n}
                BY <2>2
            <4>2. Admission!ActiveVersions(w) = {v} /\ v \in Nat
                BY <2>2
            <4>n. n = [version |-> v, from |-> now, to |-> None]
                OBVIOUS
            <4> HIDE DEF Q, n
            <4>3. OpenAt(w, v, Q)
                BY <4>1, <4>2, <4>n, OpenedPeriods
            <4> QED BY <4>2, <4>3 DEF OpenAt
        <3> QED BY <3>1, <3>2
    <2> HIDE DEF Q
    <2>a. Q \in SUBSET Admission!Period
        BY <2>3
    <2>4. /\ after \in Admission!Workflow /\ after.status = "active" /\ after.periods = Q
          /\ after.versions = w.versions /\ after.archived = w.archived
        BY <1>3, <2>1, <2>a DEF Admission!Workflow
    <2>5. Admission!ActiveVersions(after) = Admission!ActiveVersions(w)
        BY <2>4 DEF Admission!ActiveVersions
    <2>6. Admission!Fits(after)
        BY <2>3, <2>4, <2>5 DEF Admission!Fits
    <2>7. \A u \in Nat, t \in Nat : t < now /\ Admission!AdmittedBy(w, u, t) => Admission!AdmittedBy(after, u, t)
        BY <2>3, <2>4, StaysAdmitted
    <2> QED BY <2>4, <2>6, <2>7 DEF Follows
<1> QED BY <1>1, <1>2, <1>3

\* A new draft changes nothing that admits.
LEMMA DraftFollows ==
    ASSUME now \in Nat, NEW w \in Admission!Workflow, Admission!Fits(w), NEW after, after = Admission!WithDraft(w)
    PROVE  Follows(w, after)
<1>1. CASE w.versions[Len(w.versions)].status = "draft"
    BY <1>1 DEF Admission!WithDraft, Follows
<1>2. CASE w.versions[Len(w.versions)].status # "draft"
    <2> DEFINE V == Append(w.versions, Admission!Draft)
    <2>1. /\ after = [w EXCEPT !.versions = V] /\ w.versions \in Seq(Admission!Version)
          /\ Admission!Draft \in Admission!Version
        BY <1>2 DEF Admission!WithDraft, Admission!Workflow, Admission!Draft, Admission!Version
    <2>2. /\ V \in Seq(Admission!Version) /\ DOMAIN V = 1 .. Len(w.versions) + 1
          /\ \A v \in DOMAIN w.versions : v \in DOMAIN V /\ V[v] = w.versions[v]
          /\ V[Len(w.versions) + 1] = Admission!Draft
          /\ DOMAIN w.versions = 1 .. Len(w.versions)
        BY <2>1
    <2> HIDE DEF V
    <2>3. \A v \in DOMAIN V : v \in DOMAIN w.versions \/ V[v] = Admission!Draft
        BY <2>1, <2>2
    <2>4. /\ after \in Admission!Workflow /\ after.status = w.status /\ after.periods = w.periods
          /\ after.versions = V /\ after.archived = w.archived
        BY <2>1, <2>2 DEF Admission!Workflow
    <2>5. Admission!ActiveVersions(after) = Admission!ActiveVersions(w)
        BY <2>2, <2>3, <2>4 DEF Admission!ActiveVersions, Admission!Draft
    <2>6. \A v \in DOMAIN V : V[v].status = "draft" => V[v].from = None
        BY <2>2, <2>3 DEF Admission!Draft, Admission!Fits
    <2>7. Admission!Fits(after)
        BY <2>4, <2>5, <2>6 DEF Admission!Fits
    <2>8. \A u, t : Admission!AdmittedBy(w, u, t) => Admission!AdmittedBy(after, u, t)
        BY <2>2, <2>4 DEF Admission!AdmittedBy
    <2> QED BY <2>4, <2>7, <2>8 DEF Follows
<1> QED BY <1>1, <1>2

\* Archived or restored, a disabled workflow admits nothing new.
LEMMA ArchiveFollows ==
    ASSUME now \in Nat, NEW w \in Admission!Workflow, Admission!Fits(w), w.status = "disabled",
           NEW archived \in BOOLEAN, NEW after, after = [w EXCEPT !.archived = archived]
    PROVE  Follows(w, after)
<1>1. /\ after \in Admission!Workflow /\ after.status = w.status /\ after.periods = w.periods
      /\ after.versions = w.versions
    BY DEF Admission!Workflow
<1>2. Admission!Fits(after)
    BY <1>1 DEF Admission!Fits, Admission!ActiveVersions
<1>3. \A u, t : Admission!AdmittedBy(w, u, t) => Admission!AdmittedBy(after, u, t)
    BY <1>1 DEF Admission!AdmittedBy
<1> QED BY <1>1, <1>2, <1>3 DEF Follows

\* The version that takes over is the only active one, from this moment on.
LEMMA PromotedVersions ==
    ASSUME now \in Nat, NEW w \in Admission!Workflow, NEW v \in DOMAIN w.versions, NEW V, V = Admission!Promoted(w, v)
    PROVE  /\ V \in Seq(Admission!Version) /\ DOMAIN V = DOMAIN w.versions
           /\ V[v].status = "active" /\ V[v].from = now
           /\ \A k \in DOMAIN V : k # v =>
                /\ V[k].status # "active" /\ V[k].from = w.versions[k].from
                /\ V[k].status = "draft" => w.versions[k].status = "draft"
<1>1. w.versions \in Seq(Admission!Version) /\ V = [k \in DOMAIN w.versions |->
        IF k = v THEN [status |-> "active", from |-> now]
        ELSE IF w.versions[k].status = "active" THEN [w.versions[k] EXCEPT !.status = "retired"]
        ELSE w.versions[k]]
    BY DEF Admission!Workflow, Admission!Promoted
<1>2. \A k \in DOMAIN w.versions : w.versions[k] \in Admission!Version
    BY <1>1
<1>3. ASSUME NEW k \in DOMAIN w.versions
      PROVE  V[k] \in Admission!Version
    BY <1>1, <1>2, SMTT(30) DEF Admission!Version
<1>4. V \in Seq(Admission!Version)
    <2>1. V = [k \in DOMAIN w.versions |-> V[k]]
        BY <1>1
    <2>2. DOMAIN w.versions = 1 .. Len(w.versions) /\ Len(w.versions) \in Nat
        BY <1>1
    <2>3. V \in [1 .. Len(w.versions) -> Admission!Version]
        BY <1>3, <2>1, <2>2
    <2> QED BY <2>2, <2>3
<1>5. ASSUME NEW k \in DOMAIN w.versions, k # v
      PROVE  /\ V[k].status # "active" /\ V[k].from = w.versions[k].from
             /\ V[k].status = "draft" => w.versions[k].status = "draft"
    BY <1>1, <1>2, <1>5 DEF Admission!Version
<1> QED BY <1>1, <1>4, <1>5

\* An activation retires the active version at this moment and opens its own period.
LEMMA ActivationFollows ==
    ASSUME now \in Nat, NEW w \in Admission!Workflow, Admission!Fits(w), ~w.archived,
           NEW v \in DOMAIN w.versions, w.versions[v].status = "draft", NEW after, after = Admission!Activated(w, v)
    PROVE  Follows(w, after)
<1> SUFFICES ASSUME NEW V, V = Admission!Promoted(w, v),
                    NEW Q, Q = Admission!Closed(w.periods) \cup Admission!OpenedFor(w, v)
             PROVE  Follows(w, after)
    OBVIOUS
<1>1. after = [w EXCEPT !.versions = V, !.periods = Q] /\ v \in Nat
    BY DEF Admission!Activated, Admission!Workflow
<1>2. /\ V \in Seq(Admission!Version) /\ DOMAIN V = DOMAIN w.versions
      /\ V[v].status = "active" /\ V[v].from = now
      /\ \A k \in DOMAIN V : k # v =>
           /\ V[k].status # "active" /\ V[k].from = w.versions[k].from
           /\ V[k].status = "draft" => w.versions[k].status = "draft"
    BY PromotedVersions
<1>3. /\ Q \in SUBSET Admission!Period
      /\ \A p \in Q : p.from <= now /\ (p.to # None => p.to <= now)
      /\ \A p \in Q : p.to = None => p.version = v
      /\ \A p, q \in Q : p = q \/ Admission!Before(p, q) \/ Admission!Before(q, p)
      /\ IF w.status = "active" THEN \E p \in Q : p.version = v /\ p.to = None ELSE \A p \in Q : p.to # None
      /\ \A q \in w.periods : \E p \in Q :
           p.version = q.version /\ p.from = q.from /\ p.to = IF q.to = None THEN now ELSE q.to
    <2>1. CASE w.status = "active"
        <3> DEFINE n == [version |-> v, from |-> now, to |-> None]
        <3>1. Q = Admission!Closed(w.periods) \cup {n}
            BY <2>1 DEF Admission!OpenedFor
        <3>2. n = [version |-> v, from |-> now, to |-> None]
            OBVIOUS
        <3> HIDE DEF n
        <3>3. OpenAt(w, v, Q)
            BY <1>1, <3>1, <3>2, OpenedPeriods
        <3> QED BY <2>1, <3>3 DEF OpenAt
    <2>2. CASE w.status # "active"
        <3>1. Q = Admission!Closed(w.periods)
            BY <2>2 DEF Admission!OpenedFor
        <3> QED BY <2>2, <3>1, ClosedPeriods
    <2> QED BY <2>1, <2>2
<1>4. /\ after \in Admission!Workflow /\ after.status = w.status /\ after.periods = Q
      /\ after.versions = V /\ after.archived = FALSE
    BY <1>1, <1>2, <1>3 DEF Admission!Workflow
<1>5. Admission!ActiveVersions(after) = {v}
    BY <1>2, <1>4, v \in DOMAIN V DEF Admission!ActiveVersions
<1>6. ASSUME NEW k \in DOMAIN V, V[k].status = "draft"
      PROVE  V[k].from = None
    <2>1. k # v
        BY <1>2, <1>6
    <2> QED BY <1>2, <1>6, <2>1 DEF Admission!Fits
<1>7. Admission!Fits(after)
    BY <1>3, <1>4, <1>5, <1>6 DEF Admission!Fits
<1>8. ASSUME NEW k \in DOMAIN w.versions, w.versions[k].from # None
      PROVE  k \in DOMAIN V /\ V[k].from = w.versions[k].from
    <2>1. k # v
        BY <1>8 DEF Admission!Fits
    <2> QED BY <1>2, <2>1
<1>9. \A u \in Nat, t \in Nat : t < now /\ Admission!AdmittedBy(w, u, t) => Admission!AdmittedBy(after, u, t)
    BY <1>3, <1>4, <1>8, StaysAdmitted
<1> QED BY <1>4, <1>7, <1>9 DEF Follows

-----------------------------------------------------------------------------
\* The steps of the workflow's part.

\* A transaction that begins follows from what is committed.
LEMMA BeginFollows ==
    ASSUME Admission!TypeOK, Admission!Fitting,
           \/ Admission!UpdateStatus \/ Admission!SaveDraft \/ Admission!Activate
           \/ Admission!Archive \/ Admission!Restore
    PROVE  /\ writing = None /\ Follows(workflow, writing') /\ changes' \in 0 .. MaxChanges
           /\ UNCHANGED <<now, workflow, event>>
<1> USE DEF Admission!Begin
<1>1. now \in Nat /\ workflow \in Admission!Workflow /\ Admission!Fits(workflow) /\ changes \in 0 .. MaxChanges
    BY AdmissionSets DEF Admission!TypeOK, Admission!Fitting
<1>2. CASE Admission!UpdateStatus
    <2>1. PICK status \in {"active", "disabled"} : Admission!Begin(Admission!WithStatus(workflow, status))
        BY <1>2 DEF Admission!UpdateStatus
    <2>2. changes' \in 0 .. MaxChanges
        BY <1>1, <1>2, AdmissionSets DEF Admission!UpdateStatus
    <2> QED BY <1>1, <1>2, <2>1, <2>2, StatusFollows DEF Admission!UpdateStatus
<1>3. CASE Admission!SaveDraft
    BY <1>1, <1>3, DraftFollows DEF Admission!SaveDraft
<1>4. CASE Admission!Activate
    <2>1. PICK v \in DOMAIN workflow.versions :
            workflow.versions[v].status = "draft" /\ Admission!Begin(Admission!Activated(workflow, v))
        BY <1>4 DEF Admission!Activate
    <2> QED BY <1>1, <1>4, <2>1, ActivationFollows DEF Admission!Activate
<1>5. CASE Admission!Archive
    BY <1>1, <1>5, ArchiveFollows DEF Admission!Archive
<1>6. CASE Admission!Restore
    <2>1. workflow.status = "disabled"
        BY <1>1, <1>6 DEF Admission!Restore, Admission!Fits
    <2> QED BY <1>1, <1>6, <2>1, ArchiveFollows DEF Admission!Restore
<1> QED BY <1>2, <1>3, <1>4, <1>5, <1>6

\* What an event carries.
LEMMA EventFields ==
    ASSUME Admission!TypeOK, event.phase # "none"
    PROVE  /\ event.version \in Nat /\ event.at \in Nat /\ event.read \in Nat /\ event.during \in BOOLEAN
           /\ event.phase \in {"accepted", "refused", "stored", "dead"}
           /\ event \in [phase : {"accepted", "refused", "stored", "dead"}, version : Nat, at : Nat, read : Nat,
                        during : BOOLEAN]
BY DEF Admission!TypeOK

\* What the API answers to a start.
LEMMA ReceiveReceives ==
    ASSUME Admission!TypeOK, Admission!Receive
    PROVE  \E v \in Nat, at \in Nat :
             /\ event' = [phase |-> IF Admission!AdmittedBy(workflow, v, at) THEN "accepted" ELSE "refused",
                          version |-> v, at |-> at, read |-> now, during |-> writing # None]
             /\ UNCHANGED <<now, workflow, writing, changes>>
<1>1. PICK v \in DOMAIN workflow.versions, at \in 0 .. now + Skew :
        /\ event' = [phase |-> IF Admission!AdmittedBy(workflow, v, at) THEN "accepted" ELSE "refused",
                     version |-> v, at |-> at, read |-> now, during |-> writing # None]
        /\ UNCHANGED <<now, workflow, writing, changes>>
    BY DEF Admission!Receive, Admission!Admits
<1>2. v \in Nat /\ at \in Nat
    BY AdmissionSets DEF Admission!TypeOK, Admission!Workflow
<1> QED BY <1>1, <1>2

\* The variables of the workflow keep their types.
LEMMA AdmissionTypes ==
    ASSUME Admission!TypeOK, Admission!Fitting, [Admission!Next]_(Admission!vars)
    PROVE  Admission!TypeOK'
<1> USE DEF Admission!TypeOK
<1>1. CASE \/ Admission!UpdateStatus \/ Admission!SaveDraft \/ Admission!Activate
           \/ Admission!Archive \/ Admission!Restore
    BY <1>1, BeginFollows DEF Follows
<1>2. CASE Admission!Commit \/ Admission!Rollback
    BY <1>2 DEF Admission!Commit, Admission!Rollback
<1>3. CASE Admission!Receive
    <2>1. PICK v \in Nat, at \in Nat :
            /\ event' = [phase |-> IF Admission!AdmittedBy(workflow, v, at) THEN "accepted" ELSE "refused",
                         version |-> v, at |-> at, read |-> now, during |-> writing # None]
            /\ UNCHANGED <<now, workflow, writing, changes>>
        BY <1>3, ReceiveReceives
    <2>2. now \in Nat
        BY AdmissionSets
    <2>3. event' \in [phase : {"accepted", "refused", "stored", "dead"}, version : Nat, at : Nat, read : Nat,
                      during : BOOLEAN]
        BY <2>1, <2>2
    <2> QED BY <2>1, <2>3
<1>4. CASE Admission!Consume
    <2>1. event.phase # "none"
        BY <1>4 DEF Admission!Consume
    <2>2. event' = [event EXCEPT !.phase = IF Admission!Admits(event.version, event.at) THEN "stored" ELSE "dead"]
        BY <1>4 DEF Admission!Consume
    <2>3. event' \in [phase : {"accepted", "refused", "stored", "dead"}, version : Nat, at : Nat, read : Nat,
                      during : BOOLEAN]
        BY <2>1, <2>2, EventFields
    <2> QED BY <1>4, <2>3 DEF Admission!Consume
<1>5. CASE Admission!Tick
    BY <1>5, AdmissionSets DEF Admission!Tick
<1>6. CASE UNCHANGED Admission!vars
    BY <1>6 DEF Admission!vars
<1> QED BY <1>1, <1>2, <1>3, <1>4, <1>5, <1>6 DEF Admission!Next

\* What fits goes on fitting when time passes.
LEMMA FitsLater ==
    ASSUME NEW w \in Admission!Workflow, Admission!Fits(w), now \in Nat, now' = now \/ now' = now + 1
    PROVE  Admission!Fits(w)'
<1>1. ASSUME NEW p \in w.periods
      PROVE  p.from <= now' /\ (p.to # None => p.to <= now')
    <2>1. p.from \in Nat /\ p.to \in Nat \cup {None} /\ p.from <= now /\ (p.to # None => p.to <= now)
        BY DEF Admission!Workflow, Admission!Period, Admission!Fits
    <2> QED BY <2>1
<1> QED BY <1>1 DEF Admission!Fits, Admission!Before, Admission!ActiveVersions

\* What is committed fits, and so does what is about to be.
LEMMA FittingStep ==
    ASSUME Admission!TypeOK, Admission!Fitting, [Admission!Next]_(Admission!vars)
    PROVE  Admission!Fitting'
<1> USE DEF Admission!Fitting
<1>0. now \in Nat /\ workflow \in Admission!Workflow /\ (writing # None => writing \in Admission!Workflow)
    BY AdmissionSets DEF Admission!TypeOK
<1>1. CASE \/ Admission!UpdateStatus \/ Admission!SaveDraft \/ Admission!Activate
           \/ Admission!Archive \/ Admission!Restore
    <2>1. /\ Follows(workflow, writing') /\ UNCHANGED <<now, workflow>>
        BY <1>1, BeginFollows
    <2>2. Admission!Fits(writing)' /\ Admission!Fits(workflow)'
        BY <2>1 DEF Follows, Admission!Fits, Admission!ActiveVersions, Admission!Before
    <2> QED BY <2>2
<1>2. CASE Admission!Commit \/ Admission!Rollback \/ Admission!Tick \/ Admission!Receive \/ Admission!Consume
           \/ UNCHANGED Admission!vars
    <2>1. /\ now' = now \/ now' = now + 1
          /\ workflow' = workflow \/ (writing # None /\ workflow' = writing)
          /\ writing' = None \/ writing' = writing
        BY <1>2 DEF Admission!Commit, Admission!Rollback, Admission!Tick, Admission!Receive, Admission!Consume,
                    Admission!vars
    <2>2. ASSUME NEW w \in Admission!Workflow, Admission!Fits(w)
          PROVE  Admission!Fits(w)'
        BY <1>0, <2>1, <2>2, FitsLater
    <2> QED BY <1>0, <2>1, <2>2
<1> QED BY <1>1, <1>2 DEF Admission!Next

\* A start that is admitted stays so: what commits was begun after the start, and follows from
\* what admitted it.
LEMMA StandingStep ==
    ASSUME Admission!TypeOK, Admission!Fitting, Admission!Standing, [Admission!Next]_(Admission!vars)
    PROVE  Admission!Standing'
<1>0. now \in Nat
    BY AdmissionSets DEF Admission!TypeOK
<1>1. CASE \/ Admission!UpdateStatus \/ Admission!SaveDraft \/ Admission!Activate
           \/ Admission!Archive \/ Admission!Restore
    <2>1. /\ Follows(workflow, writing') /\ UNCHANGED <<now, workflow, event>>
        BY <1>1, BeginFollows
    <2>2. ASSUME event.phase # "none", event.phase # "refused", event.at < event.read, ~event.during
          PROVE  Admission!AdmittedBy(writing', event.version, event.at)
        <3>1. /\ event.version \in Nat /\ event.at \in Nat /\ event.at < now
              /\ Admission!AdmittedBy(workflow, event.version, event.at)
            BY <1>0, <2>2, EventFields DEF Admission!Standing
        <3> QED BY <2>1, <3>1 DEF Follows
    <2> QED BY <2>1, <2>2 DEF Admission!Standing, Admission!AdmittedBy
<1>2. CASE Admission!Commit
    BY <1>2 DEF Admission!Standing, Admission!Commit, Admission!AdmittedBy
<1>3. CASE Admission!Rollback
    BY <1>3 DEF Admission!Standing, Admission!Rollback, Admission!AdmittedBy
<1>4. CASE Admission!Receive
    <2>1. PICK v \in Nat, at \in Nat :
            /\ event' = [phase |-> IF Admission!AdmittedBy(workflow, v, at) THEN "accepted" ELSE "refused",
                         version |-> v, at |-> at, read |-> now, during |-> writing # None]
            /\ UNCHANGED <<now, workflow, writing, changes>>
        BY <1>4, ReceiveReceives
    <2>2. /\ event'.read = now /\ now' = now /\ event'.version = v /\ event'.at = at
          /\ event'.during = (writing # None)
          /\ event'.phase = IF Admission!AdmittedBy(workflow, v, at) THEN "accepted" ELSE "refused"
        BY <2>1
    <2>3. now <= now'
        BY <1>0, <2>2
    <2> QED BY <2>1, <2>2, <2>3 DEF Admission!Standing, Admission!AdmittedBy
<1>5. CASE Admission!Consume
    <2>1. /\ event' = [event EXCEPT !.phase = IF Admission!AdmittedBy(workflow, event.version, event.at)
                                            THEN "stored" ELSE "dead"]
          /\ UNCHANGED <<now, workflow, writing>> /\ event.phase \in {"accepted", "stored"}
        BY <1>5 DEF Admission!Consume, Admission!Admits
    <2>2. /\ event'.read = event.read /\ event'.version = event.version /\ event'.at = event.at
          /\ event'.during = event.during
          /\ event'.phase = IF Admission!AdmittedBy(workflow, event.version, event.at) THEN "stored" ELSE "dead"
        BY <2>1, EventFields
    <2>3. event.phase # "none" /\ event.phase # "refused"
        BY <2>1
    <2> QED BY <2>1, <2>2, <2>3 DEF Admission!Standing, Admission!AdmittedBy
<1>6. CASE Admission!Tick
    <2>1. event.phase # "none" => event.read <= now'
        BY <1>0, <1>6, EventFields DEF Admission!Tick, Admission!Standing
    <2> QED BY <1>6, <2>1 DEF Admission!Standing, Admission!Tick, Admission!AdmittedBy
<1>7. CASE UNCHANGED Admission!vars
    BY <1>7 DEF Admission!vars, Admission!Standing, Admission!AdmittedBy
<1> QED BY <1>1, <1>2, <1>3, <1>4, <1>5, <1>6, <1>7 DEF Admission!Next

\* What fits admits one version at a time.
LEMMA FittingAdmitsOne ==
    ASSUME Admission!TypeOK, Admission!Fitting
    PROVE  Admission!OneVersionAdmits
<1>1. workflow \in Admission!Workflow /\ Admission!Fits(workflow)
    BY DEF Admission!TypeOK, Admission!Fitting
<1>2. ASSUME NEW p \in workflow.periods, NEW q \in workflow.periods, NEW t \in 0 .. MaxTime,
             Admission!Covers(p, t), Admission!Covers(q, t)
      PROVE  p = q
    <2>1. /\ p.from \in Nat /\ p.to \in Nat \cup {None} /\ q.from \in Nat /\ q.to \in Nat \cup {None}
          /\ t \in Nat
        BY <1>1, AdmissionSets DEF Admission!Workflow, Admission!Period
    <2>2. ~Admission!Before(p, q) /\ ~Admission!Before(q, p)
        BY <1>2, <2>1 DEF Admission!Before, Admission!Covers
    <2> QED BY <1>1, <2>2 DEF Admission!Fits
<1>3. workflow.status \in {"active", "disabled"} /\ workflow.archived \in BOOLEAN
    BY <1>1 DEF Admission!Workflow
<1>4. CASE workflow.status = "active"
    <2>1. ~workflow.archived
        BY <1>1, <1>4 DEF Admission!Fits
    <2>2. {p.version : p \in {p \in workflow.periods : p.to = None}} = Admission!ActiveVersions(workflow)
        BY <1>1, <1>4 DEF Admission!Fits
    <2> QED BY <1>2, <1>4, <2>1, <2>2 DEF Admission!OneVersionAdmits, Admission!ActiveVersions
<1>5. CASE workflow.status # "active"
    <2>1. {p.version : p \in {p \in workflow.periods : p.to = None}} = {}
        BY <1>1, <1>5 DEF Admission!Fits
    <2> QED BY <1>2, <1>5, <2>1 DEF Admission!OneVersionAdmits
<1> QED BY <1>3, <1>4, <1>5

\* An admitted start is not refused later.
LEMMA StandingStands ==
    ASSUME Admission!TypeOK, Admission!Standing
    PROVE  Admission!AcceptedStartStands
<1> SUFFICES ASSUME event.phase = "dead"
             PROVE  event.at >= event.read \/ event.during
    BY DEF Admission!AcceptedStartStands
<1>1. event.at \in Nat /\ event.read \in Nat
    BY EventFields
<1> QED BY <1>1 DEF Admission!Standing

-----------------------------------------------------------------------------
\* What is in force at which time.

\* What None is not, and the bound of time.
LEMMA EffectiveSets ==
    None \notin Nat /\ MaxTime \in Nat
BY AdministrationAssumption

\* A version that begins where the last one of a chain ends from now on.
Extends(s, after, n, f) ==
    /\ n \in Nat /\ DOMAIN s = 1 .. n /\ Len(s) = n /\ (s = <<>> <=> n = 0)
    /\ DOMAIN after = 1 .. n + 1 /\ Len(after) = n + 1 /\ after # <<>>
    /\ f \in Nat
    /\ \A v \in 1 .. n + 1 : after[v].from \in Nat
    /\ \A v \in 1 .. n : s[v].to \in Nat \cup {None}
    /\ \A v \in 1 .. n : s[v].from < f
    /\ \A v \in 1 .. n : after[v].from = s[v].from
    /\ \A v \in 1 .. n : after[v].to = IF v = n THEN f ELSE s[v].to
    /\ after[n + 1].from = f /\ after[n + 1].to = None

\* The chain goes on with it.
LEMMA ChainGrows ==
    ASSUME NEW s, NEW after, NEW n, NEW f, Extends(s, after, n, f), Effective!Chained(s)
    PROVE  Effective!Chained(after)
<1> USE DEF Extends
<1>0. None \notin Nat /\ MaxTime \in Nat
    BY EffectiveSets
<1>1. \A v \in DOMAIN after : after[v].to = None <=> v = Len(after)
    BY <1>0 DEF Effective!Chained
<1>2. ASSUME NEW u \in DOMAIN after, NEW v \in DOMAIN after, u < v
      PROVE  after[u].from < after[v].from /\ after[u].to <= after[v].from
    <2>1. u \in 1 .. n /\ v \in 1 .. n + 1
        BY <1>2
    <2>2. CASE v = n + 1
        <3>1. CASE u = n
            BY <2>1, <2>2, <3>1
        <3>2. CASE u # n
            <4>1. n \in 1 .. n /\ u < n
                BY <2>1, <3>2
            <4>2. s[u].to <= s[n].from /\ s[u].to # None
                BY <2>1, <3>2, <4>1 DEF Effective!Chained
            <4>3. s[n].from \in Nat /\ s[u].to \in Nat
                BY <2>1, <4>1, <4>2
            <4>4. s[n].from < f
                BY <4>1
            <4> QED BY <2>1, <2>2, <3>2, <4>2, <4>3, <4>4
        <3> QED BY <3>1, <3>2
    <2>3. CASE v # n + 1
        <3>1. v \in 1 .. n /\ u # n
            BY <1>2, <2>1, <2>3
        <3> QED BY <1>2, <2>1, <3>1 DEF Effective!Chained
    <2> QED BY <2>2, <2>3
<1>3. ASSUME NEW t \in Effective!Times, t >= after[1].from
      PROVE  Effective!InForce(after, t) # {}
    <2>0. t \in Nat
        BY <1>0 DEF Effective!Times
    <2>1. CASE t >= f
        <3>1. n + 1 \in Effective!InForce(after, t)
            BY <2>1 DEF Effective!InForce
        <3> QED BY <3>1
    <2>2. CASE t < f
        <3>1. n # 0 /\ 1 \in 1 .. n
            BY <1>3, <2>0, <2>2
        <3>2. Effective!InForce(s, t) # {}
            BY <1>3, <3>1 DEF Effective!Chained
        <3>3. PICK v \in 1 .. n : s[v].from <= t /\ (s[v].to = None \/ s[v].to > t)
            BY <3>2 DEF Effective!InForce
        <3>4. v \in DOMAIN after /\ after[v].from <= t /\ after[v].to > t
            <4>1. v \in DOMAIN after /\ after[v].from <= t
                BY <3>3
            <4>2. after[v].to > t
                <5>1. CASE v = n
                    BY <2>0, <2>2, <5>1
                <5>2. CASE v # n
                    <6>1. s[v].to # None
                        BY <5>2 DEF Effective!Chained
                    <6> QED BY <3>3, <5>2, <6>1
                <5> QED BY <5>1, <5>2
            <4> QED BY <4>1, <4>2
        <3> QED BY <3>4 DEF Effective!InForce
    <2> QED BY <2>0, <2>1, <2>2
<1> QED BY <1>1, <1>2, <1>3 DEF Effective!Chained

\* The time a revision takes is later than that of the one it follows.
LEMMA EffectiveLater ==
    ASSUME now \in Nat, NEW current \in Nat, NEW requested \in Effective!Times \cup {None},
           NEW f, f = Effective!EffectiveFrom(current, requested), f # None
    PROVE  f \in Nat /\ f > current
<1>1. Effective!Times \subseteq Nat
    BY EffectiveSets DEF Effective!Times
<1> QED BY <1>1 DEF Effective!EffectiveFrom

\* A revision follows the last one.
LEMMA ReviseRevises ==
    ASSUME Effective!TypeOK, Effective!Consecutive, Effective!Revise
    PROVE  /\ revisions' \in Seq(Effective!Revision) /\ revisions' # <<>>
           /\ Effective!Chained(revisions')
           /\ UNCHANGED <<now, settings, request>>
<1> DEFINE n == Len(revisions)
<1>1. PICK requested \in Effective!Times \cup {None} :
        /\ Effective!EffectiveFrom(revisions[n].from, requested) # None
        /\ revisions' = Append([revisions EXCEPT ![n].to = Effective!EffectiveFrom(revisions[n].from, requested)],
                               [from |-> Effective!EffectiveFrom(revisions[n].from, requested), to |-> None])
    BY DEF Effective!Revise
<1> DEFINE f == Effective!EffectiveFrom(revisions[n].from, requested)
<1>2. /\ revisions \in Seq(Effective!Revision) /\ n \in Nat \ {0} /\ DOMAIN revisions = 1 .. n /\ now \in Nat
      /\ \A v \in 1 .. n : revisions[v] \in Effective!Revision
    BY EffectiveSets DEF Effective!TypeOK, Effective!Times
<1>3. f \in Nat /\ f > revisions[n].from /\ f = Effective!EffectiveFrom(revisions[n].from, requested)
    BY <1>1, <1>2, EffectiveLater DEF Effective!Revision
<1> HIDE DEF n, f
<1> DEFINE R == [revisions EXCEPT ![n].to = f]
<1>4. /\ R \in Seq(Effective!Revision) /\ DOMAIN R = 1 .. n /\ Len(R) = n
      /\ \A v \in 1 .. n : R[v].from = revisions[v].from /\ R[v].to = IF v = n THEN f ELSE revisions[v].to
    <2>1. [revisions[n] EXCEPT !.to = f] \in Effective!Revision
        BY <1>2, <1>3 DEF Effective!Revision
    <2>2. R = [revisions EXCEPT ![n] = [revisions[n] EXCEPT !.to = f]]
        OBVIOUS
    <2>3. n \in 1 .. Len(revisions)
        BY <1>2 DEF n
    <2>4. R \in Seq(Effective!Revision) /\ DOMAIN R = 1 .. n
        BY <1>2, <2>1, <2>2, <2>3, ExceptSeq
    <2>5. ASSUME NEW v \in 1 .. n
          PROVE  R[v].from = revisions[v].from /\ R[v].to = IF v = n THEN f ELSE revisions[v].to
        BY <1>2, <2>2 DEF Effective!Revision
    <2> QED BY <1>2, <2>4, <2>5
<1> DEFINE new == [from |-> f, to |-> None]
<1>5. new \in Effective!Revision /\ new.from = f /\ new.to = None
    BY <1>3 DEF Effective!Revision
<1>6. revisions' = Append(R, new)
    BY <1>1, <1>3
<1> HIDE DEF R, new
<1>7. /\ revisions' \in Seq(Effective!Revision) /\ DOMAIN revisions' = 1 .. n + 1 /\ Len(revisions') = n + 1
      /\ revisions'[n + 1] = new /\ \A v \in 1 .. n : revisions'[v] = R[v]
    BY <1>2, <1>4, <1>5, <1>6
<1>8. revisions' # <<>>
    BY <1>2, <1>7
<1>9. \A v \in 1 .. n : revisions[v].from < f
    <2> SUFFICES ASSUME NEW v \in 1 .. n, v # n
                 PROVE  revisions[v].from < f
        BY <1>3
    <2>1. v < n /\ n \in 1 .. n
        BY <1>2
    <2>2. revisions[v].from < revisions[n].from /\ revisions[v].from \in Nat /\ revisions[n].from \in Nat
        BY <1>2, <2>1 DEF Effective!Consecutive, Effective!Chained, Effective!Revision
    <2> QED BY <1>3, <2>2
<1>10. Effective!Chained(revisions')
    <2>1. \A v \in 1 .. n : revisions[v].to \in Nat \cup {None}
        BY <1>2 DEF Effective!Revision
    <2>2. \A v \in 1 .. n + 1 : revisions'[v].from \in Nat
        <3>1. \A v \in 1 .. n + 1 : revisions'[v] \in Effective!Revision
            BY <1>7
        <3> QED BY <3>1 DEF Effective!Revision
    <2>3. /\ \A v \in 1 .. n : revisions'[v].from = revisions[v].from
          /\ \A v \in 1 .. n : revisions'[v].to = IF v = n THEN f ELSE revisions[v].to
        BY <1>4, <1>7
    <2>4. revisions'[n + 1].from = f /\ revisions'[n + 1].to = None
        BY <1>5, <1>7
    <2>5. Len(revisions) = n /\ (revisions = <<>> <=> n = 0) /\ Effective!Chained(revisions)
        BY <1>2 DEF n, Effective!Consecutive
    <2>6. n \in Nat /\ f \in Nat /\ DOMAIN revisions = 1 .. n
        BY <1>2, <1>3
    <2>7. DOMAIN revisions' = 1 .. n + 1 /\ Len(revisions') = n + 1
        BY <1>7
    <2>8. Extends(revisions, revisions', n, f)
        BY <1>8, <1>9, <2>1, <2>2, <2>3, <2>4, <2>5, <2>6, <2>7 DEF Extends
    <2> QED BY <2>5, <2>8, ChainGrows
<1> QED BY <1>7, <1>8, <1>10 DEF Effective!Revise

\* Settings that pass the comparison follow the latest ones and take their place.
LEMMA CreateCreates ==
    ASSUME Effective!TypeOK, Effective!Consecutive, NEW r \in Requests, Effective!CreateSettings(r)
    PROVE  /\ settings' \in Seq(Effective!Setting)
           /\ Effective!Chained(settings') /\ Effective!OneActive'
<1> DEFINE n == Len(settings)
           f == request[r]
<1>1. /\ settings \in Seq(Effective!Setting) /\ n \in Nat /\ DOMAIN settings = 1 .. n
      /\ \A v \in 1 .. n : settings[v] \in Effective!Setting
    BY DEF Effective!TypeOK
<1>2. f \in Nat
    BY EffectiveSets DEF Effective!TypeOK, Effective!Times, Effective!CreateSettings
<1>3. CASE ~Effective!AfterLatest(f)
    BY <1>3 DEF Effective!CreateSettings, Effective!TypeOK, Effective!Consecutive, Effective!OneActive
<1>4. CASE Effective!AfterLatest(f)
    <2> DEFINE S == Effective!Superseded(f)
               new == [status |-> "active", from |-> f, to |-> None]
    <2>1. settings' = Append(S, new)
        BY <1>4 DEF Effective!CreateSettings
    <2>2. \A v \in 1 .. n : f > settings[v].from
        BY <1>1, <1>4 DEF Effective!AfterLatest
    <2>3. S = [v \in 1 .. n |->
                 IF settings[v].status = "active" /\ settings[v].from < f
                 THEN [settings[v] EXCEPT !.status = "superseded", !.to = f] ELSE settings[v]]
        BY <1>1 DEF Effective!Superseded
    <2> HIDE DEF n, f, S
    <2>4. ASSUME NEW v \in 1 .. n
          PROVE  /\ S[v] \in Effective!Setting /\ S[v].from = settings[v].from
                 /\ S[v].to = IF v = n THEN f ELSE settings[v].to
                 /\ S[v].status = "superseded"
        <3>1. settings[v] \in Effective!Setting /\ settings[v].from < f
            BY <1>1, <1>2, <2>2 DEF Effective!Setting
        <3>2. settings[v].status = "active" <=> v = n
            BY <1>1 DEF Effective!Consecutive, Effective!OneActive, n
        <3>3. CASE v = n
            <4>1. S[v] = [settings[v] EXCEPT !.status = "superseded", !.to = f]
                BY <2>3, <3>1, <3>2, <3>3
            <4> QED BY <1>2, <3>1, <3>3, <4>1 DEF Effective!Setting
        <3>4. CASE v # n
            <4>1. S[v] = settings[v]
                BY <2>3, <3>2, <3>4
            <4> QED BY <3>1, <3>2, <3>4, <4>1 DEF Effective!Setting
        <3> QED BY <3>3, <3>4
    <2>5. S \in Seq(Effective!Setting) /\ DOMAIN S = 1 .. n /\ Len(S) = n
        <3>1. S = [v \in 1 .. n |-> S[v]] /\ DOMAIN S = 1 .. n
            BY <2>3
        <3>2. S \in [1 .. n -> Effective!Setting]
            BY <2>4, <3>1
        <3> QED BY <1>1, <3>1, <3>2
    <2>6. new \in Effective!Setting /\ new.from = f /\ new.to = None /\ new.status = "active"
        BY <1>2 DEF Effective!Setting
    <2> HIDE DEF new
    <2>7. /\ settings' \in Seq(Effective!Setting) /\ DOMAIN settings' = 1 .. n + 1 /\ Len(settings') = n + 1
          /\ settings'[n + 1] = new /\ \A v \in 1 .. n : settings'[v] = S[v]
        BY <1>1, <2>1, <2>5, <2>6
    <2>8. Effective!Chained(settings')
        <3>1. /\ \A v \in 1 .. n : settings[v].to \in Nat \cup {None}
              /\ \A v \in 1 .. n : settings[v].from < f
            BY <1>1, <1>2, <2>2 DEF Effective!Setting
        <3>2. \A v \in 1 .. n + 1 : settings'[v].from \in Nat
            <4>1. \A v \in 1 .. n + 1 : settings'[v] \in Effective!Setting
                BY <2>7
            <4> QED BY <4>1 DEF Effective!Setting
        <3>3. /\ \A v \in 1 .. n : settings'[v].from = settings[v].from
              /\ \A v \in 1 .. n : settings'[v].to = IF v = n THEN f ELSE settings[v].to
            BY <2>4, <2>7
        <3>4. settings'[n + 1].from = f /\ settings'[n + 1].to = None
            BY <2>6, <2>7
        <3>5. Len(settings) = n /\ (settings = <<>> <=> n = 0) /\ Effective!Chained(settings)
            BY <1>1 DEF n, Effective!Consecutive
        <3>6. settings' # <<>>
            BY <1>1, <2>7
        <3>7. n \in Nat /\ DOMAIN settings = 1 .. n
            BY <1>1
        <3>8. DOMAIN settings' = 1 .. n + 1 /\ Len(settings') = n + 1
            BY <2>7
        <3>9. Extends(settings, settings', n, f)
            BY <1>2, <3>1, <3>2, <3>3, <3>4, <3>5, <3>6, <3>7, <3>8 DEF Extends
        <3> QED BY <3>5, <3>9, ChainGrows
    <2>9. ASSUME NEW v \in 1 .. n + 1
          PROVE  settings'[v].status = "active" <=> v = n + 1
        <3>1. CASE v = n + 1
            BY <2>6, <2>7, <3>1
        <3>2. CASE v # n + 1
            <4>1. v \in 1 .. n
                BY <1>1, <3>2
            <4> QED BY <2>4, <2>7, <3>2, <4>1
        <3> QED BY <3>1, <3>2
    <2> QED BY <2>7, <2>8, <2>9 DEF Effective!OneActive
<1> QED BY <1>3, <1>4

\* Revisions and settings stay consecutive, whatever times are asked for.
LEMMA EffectiveStep ==
    ASSUME Effective!TypeOK, Effective!Consecutive, [Effective!Next]_(Effective!vars)
    PROVE  Effective!TypeOK' /\ Effective!Consecutive'
<1> USE DEF Effective!TypeOK, Effective!Consecutive
<1>1. CASE Effective!Revise
    BY <1>1, ReviseRevises DEF Effective!OneActive
<1>2. ASSUME NEW r \in Requests, Effective!Enter(r)
      PROVE  Effective!TypeOK' /\ Effective!Consecutive'
    <2>1. PICK requested \in Effective!Times \cup {None} :
            request' = [request EXCEPT ![r] = IF requested = None THEN now ELSE requested]
        BY <1>2 DEF Effective!Enter
    <2> QED BY <1>2, <2>1 DEF Effective!Enter, Effective!OneActive
<1>3. ASSUME NEW r \in Requests, Effective!CreateSettings(r)
      PROVE  Effective!TypeOK' /\ Effective!Consecutive'
    BY <1>3, CreateCreates DEF Effective!CreateSettings
<1>4. CASE Effective!Tick
    BY <1>4, EffectiveSets DEF Effective!Tick, Effective!OneActive, Effective!Times
<1>5. CASE UNCHANGED Effective!vars
    BY <1>5 DEF Effective!vars, Effective!OneActive
<1> QED BY <1>1, <1>2, <1>3, <1>4, <1>5 DEF Effective!Next

\* A chain has one version for every time from its first one on.
LEMMA ChainCounts ==
    ASSUME NEW s, s \in Seq(Effective!Revision) \cup Seq(Effective!Setting), s # <<>>,
           Effective!Chained(s), NEW t \in Effective!Times
    PROVE  Cardinality(Effective!InForce(s, t)) = IF t >= s[1].from THEN 1 ELSE 0
<1>1. /\ Len(s) \in Nat /\ DOMAIN s = 1 .. Len(s) /\ 1 \in DOMAIN s
      /\ \A v \in DOMAIN s : s[v].from \in Nat /\ s[v].to \in Nat \cup {None}
    <2>1. /\ Len(s) \in Nat /\ DOMAIN s = 1 .. Len(s) /\ 1 \in DOMAIN s
          /\ \A v \in DOMAIN s : s[v] \in Effective!Revision \/ s[v] \in Effective!Setting
        <3>1. CASE s \in Seq(Effective!Revision)
            BY <3>1
        <3>2. CASE s \in Seq(Effective!Setting)
            BY <3>2
        <3> QED BY <3>1, <3>2
    <2> QED BY <2>1 DEF Effective!Revision, Effective!Setting
<1>2. t \in Nat
    BY EffectiveSets DEF Effective!Times
<1>3. ASSUME NEW u \in Effective!InForce(s, t), NEW v \in Effective!InForce(s, t)
      PROVE  u = v
    <2>1. /\ u \in DOMAIN s /\ v \in DOMAIN s /\ s[u].from <= t /\ s[v].from <= t
          /\ s[u].to = None \/ s[u].to > t
          /\ s[v].to = None \/ s[v].to > t
        BY DEF Effective!InForce
    <2>2. u \in Nat /\ v \in Nat
        BY <1>1, <2>1
    <2>3. ASSUME NEW i \in DOMAIN s, NEW j \in DOMAIN s, i < j, s[j].from <= t
          PROVE  s[i].to # None /\ s[i].to <= t
        <3>1. i # Len(s)
            BY <1>1, <2>3
        <3> QED BY <1>1, <1>2, <2>3, <3>1 DEF Effective!Chained
    <2>4. ~(u < v) /\ ~(v < u)
        BY <1>1, <1>2, <2>1, <2>3
    <2> QED BY <2>2, <2>4
<1>4. CASE t >= s[1].from
    <2>1. PICK v : v \in Effective!InForce(s, t)
        BY <1>4 DEF Effective!Chained
    <2>2. Effective!InForce(s, t) = {v}
        BY <1>3, <2>1
    <2> QED BY <1>4, <2>2, FS_Singleton
<1>5. CASE ~(t >= s[1].from)
    <2>1. ASSUME NEW v \in Effective!InForce(s, t)
          PROVE  FALSE
        <3>1. v \in DOMAIN s /\ s[v].from <= t
            BY DEF Effective!InForce
        <3>2. v = 1 \/ (1 < v /\ s[1].from < s[v].from)
            BY <1>1, <3>1 DEF Effective!Chained
        <3> QED BY <1>1, <1>2, <1>5, <3>1, <3>2
    <2> QED BY <1>5, <2>1, FS_EmptySet
<1> QED BY <1>4, <1>5

\* In consecutive versions one is in force at every time.
LEMMA ConsecutiveIsOne ==
    ASSUME Effective!TypeOK, Effective!Consecutive
    PROVE  Effective!OneInForce
<1> SUFFICES ASSUME NEW s \in {revisions, settings}, s # <<>>
             PROVE  /\ \A t \in Effective!Times :
                         Effective!Cardinality(Effective!InForce(s, t)) = IF t >= s[1].from THEN 1 ELSE 0
                    /\ \A v \in DOMAIN s : s[v].to = None <=> v = Len(s)
                    /\ \A v \in DOMAIN settings : settings[v].status = "active" <=> v = Len(settings)
    BY DEF Effective!OneInForce
<1>1. s \in Seq(Effective!Revision) \cup Seq(Effective!Setting) /\ Effective!Chained(s)
    BY DEF Effective!TypeOK, Effective!Consecutive
<1>2. \A t \in Effective!Times :
        Effective!Cardinality(Effective!InForce(s, t)) = IF t >= s[1].from THEN 1 ELSE 0
    BY <1>1, ChainCounts, CardinalityHere
<1> QED BY <1>1, <1>2 DEF Effective!Chained, Effective!Consecutive, Effective!OneActive

-----------------------------------------------------------------------------
\* The theorems.  In a step of the whole system one part takes a step of its own and the others
\* stand still.

\* A step that leaves the projects to themselves is one of theirs, or leaves them alone.
LEMMA MemberPart ==
    ASSUME [AdministrationNext]_administrationVars, part' = "projects"
    PROVE  part = "projects" /\ [Members!Next]_(Members!vars)
BY DEF AdministrationNext, administrationVars, Elsewhere, projectVars, Members!vars

\* The same for modules, pages and workflows ...
LEMMA ObjectPart ==
    ASSUME [AdministrationNext]_administrationVars, part' = "objects"
    PROVE  part = "objects" /\ [Objects!Next]_(Objects!vars)
BY DEF AdministrationNext, administrationVars, Elsewhere, objectVars, Objects!vars

\* ... for the workflow whose starts are admitted ...
LEMMA AdmissionPart ==
    ASSUME [AdministrationNext]_administrationVars, part' = "admission"
    PROVE  part = "admission" /\ [Admission!Next]_(Admission!vars)
BY DEF AdministrationNext, administrationVars, Elsewhere, admissionVars, Admission!vars

\* ... for revisions and settings ...
LEMMA EffectivePart ==
    ASSUME [AdministrationNext]_administrationVars, part' = "effective"
    PROVE  part = "effective" /\ [Effective!Next]_(Effective!vars)
BY DEF AdministrationNext, administrationVars, Elsewhere, effectiveVars, Effective!vars

\* ... and for the source maps, by IInv above.
LEMMA StorePart == AdministrationSpec => Spec
<1>1. AdministrationInit => Init
    BY DEF AdministrationInit
<1>2. [AdministrationNext]_administrationVars => [Next]_vars
    BY DEF AdministrationNext, administrationVars, Elsewhere
<1> QED BY <1>1, <1>2, PTL DEF AdministrationSpec, Spec

\* The invariants of the parts.
MemberInvariant ==
    part = "projects" => Members!TypeOK /\ Members!Locks /\ Members!Creations /\ Members!OwnerRemains

ObjectInvariant ==
    part = "objects" => Objects!TypeOK /\ Objects!Placed /\ Objects!Waiting /\ Objects!OpenIsHeld

AdmissionInvariant ==
    part = "admission" => Admission!TypeOK /\ Admission!Fitting /\ Admission!Standing

EffectiveInvariant ==
    part = "effective" => Effective!TypeOK /\ Effective!Consecutive

\* The projects begin with nothing.
LEMMA MembersBegin ==
    ASSUME Members!Init
    PROVE  Members!TypeOK /\ Members!Locks /\ Members!Creations /\ Members!OwnerRemains
<1>1. /\ creation = None /\ projects = <<>> /\ request = [r \in MemberRequests |-> None] /\ answers = {}
      /\ projects \in Seq([Users -> Members!Roles \cup {None}]) /\ DOMAIN projects = {}
    BY DEF Members!Init
<1>2. \A r \in MemberRequests : ~Members!Doing(r, "create") /\ ~Members!Doing(r, "member")
    BY <1>1 DEF Members!Doing, Members!Idle
<1> QED BY <1>1, <1>2 DEF Members!TypeOK, Members!Locks, Members!Creations, Members!OwnerRemains

\* What the transactions on members rely on.
LEMMA MemberInvariantHolds == AdministrationSpec => []MemberInvariant
<1>1. AdministrationInit => MemberInvariant
    BY MembersBegin DEF AdministrationInit, MemberInvariant
<1>2. MemberInvariant /\ [AdministrationNext]_administrationVars => MemberInvariant'
    BY MemberPart, MemberTypes, LocksStep, OwnerStep, CreationsStep DEF MemberInvariant
<1> QED BY <1>1, <1>2, PTL DEF AdministrationSpec

\* Modules and objects begin absent.
LEMMA ObjectsBegin ==
    ASSUME Objects!Init
    PROVE  Objects!TypeOK /\ Objects!Placed /\ Objects!Waiting /\ Objects!OpenIsHeld
<1>1. /\ module = [m \in Modules |-> [status |-> "absent", archived |-> FALSE]]
      /\ object = [o \in Objects!Objects |-> [status |-> "absent", archived |-> FALSE, module |-> None, draft |-> None]]
      /\ request = [r \in Requests |-> None] /\ raced = {}
    BY DEF Objects!Init
<1>2. Objects!TypeOK
    BY <1>1 DEF Objects!TypeOK, Objects!ModuleRow, Objects!ObjectRow, Objects!Statuses
<1>3. \A o \in Objects!Objects : object[o].archived = FALSE /\ object[o].status = "absent"
    BY <1>1
<1> QED BY <1>1, <1>2, <1>3 DEF Objects!Placed, Objects!Waiting, Objects!OpenIsHeld, Objects!Open

\* What the transactions on objects rely on.
LEMMA ObjectInvariantHolds == AdministrationSpec => []ObjectInvariant
<1>1. AdministrationInit => ObjectInvariant
    BY ObjectsBegin DEF AdministrationInit, ObjectInvariant
<1>2. ObjectInvariant /\ [AdministrationNext]_administrationVars => ObjectInvariant'
    BY ObjectPart, ObjectTypes, PlacedStep, WaitingStep, OpenStep DEF ObjectInvariant
<1> QED BY <1>1, <1>2, PTL DEF AdministrationSpec

\* A workflow begins with a draft, which admits nothing.
LEMMA AdmissionBegins ==
    ASSUME Admission!Init
    PROVE  Admission!TypeOK /\ Admission!Fitting /\ Admission!Standing
<1>1. /\ now = 0 /\ writing = None /\ changes = 0 /\ event = [phase |-> "none"]
      /\ workflow = [status |-> "active", archived |-> FALSE, versions |-> <<Admission!Draft>>, periods |-> {}]
    BY DEF Admission!Init
<1>2. /\ Admission!Draft \in Admission!Version
      /\ Admission!Draft.status = "draft" /\ Admission!Draft.from = None
    BY DEF Admission!Draft, Admission!Version
<1>3. <<Admission!Draft>> \in Seq(Admission!Version) /\ DOMAIN <<Admission!Draft>> = {1}
    BY <1>2
<1>4. /\ workflow \in Admission!Workflow /\ workflow.status = "active" /\ workflow.archived = FALSE
      /\ workflow.periods = {} /\ workflow.versions = <<Admission!Draft>>
    BY <1>1, <1>3 DEF Admission!Workflow
<1>5. Admission!TypeOK
    BY <1>1, <1>4, AdmissionSets DEF Admission!TypeOK
<1>6. Admission!ActiveVersions(workflow) = {}
    BY <1>2, <1>3, <1>4 DEF Admission!ActiveVersions
<1>7. Admission!Fits(workflow)
    BY <1>2, <1>3, <1>4, <1>6 DEF Admission!Fits
<1> QED BY <1>1, <1>5, <1>7 DEF Admission!Fitting, Admission!Standing

\* What the admission of starts relies on.
LEMMA AdmissionInvariantHolds == AdministrationSpec => []AdmissionInvariant
<1>1. AdministrationInit => AdmissionInvariant
    BY AdmissionBegins DEF AdministrationInit, AdmissionInvariant
<1>2. AdmissionInvariant /\ [AdministrationNext]_administrationVars => AdmissionInvariant'
    BY AdmissionPart, AdmissionTypes, FittingStep, StandingStep DEF AdmissionInvariant
<1> QED BY <1>1, <1>2, PTL DEF AdministrationSpec

\* A module or page begins with one revision.
LEMMA EffectiveBegins ==
    ASSUME Effective!Init
    PROVE  Effective!TypeOK /\ Effective!Consecutive
<1>1. PICK from \in Effective!Times : revisions = <<[from |-> from, to |-> None]>>
    BY DEF Effective!Init
<1>2. now = 0 /\ settings = <<>> /\ request = [r \in Requests |-> None]
    BY DEF Effective!Init
<1>3. Effective!Times \subseteq Nat /\ 0 \in Effective!Times
    BY EffectiveSets DEF Effective!Times
<1> DEFINE new == [from |-> from, to |-> None]
<1>4. new \in Effective!Revision /\ new.from = from /\ new.to = None
    BY <1>3 DEF Effective!Revision
<1> HIDE DEF new
<1>5. /\ revisions \in Seq(Effective!Revision) /\ revisions # <<>> /\ Len(revisions) = 1
      /\ DOMAIN revisions = {1} /\ revisions[1] = new
    BY <1>1, <1>4 DEF new
<1>6. settings \in Seq(Effective!Setting) /\ DOMAIN settings = {}
    BY <1>2
<1>7. Effective!TypeOK
    BY <1>2, <1>3, <1>5, <1>6 DEF Effective!TypeOK
<1>8. Effective!Chained(revisions)
    <2>1. ASSUME NEW t \in Effective!Times, t >= revisions[1].from
          PROVE  Effective!InForce(revisions, t) # {}
        <3>1. 1 \in Effective!InForce(revisions, t)
            BY <1>3, <1>4, <1>5, <2>1 DEF Effective!InForce
        <3> QED BY <3>1
    <2> QED BY <1>4, <1>5, <2>1 DEF Effective!Chained
<1>9. Effective!Chained(settings) /\ Effective!OneActive
    BY <1>2, <1>6 DEF Effective!Chained, Effective!OneActive
<1> QED BY <1>7, <1>8, <1>9 DEF Effective!Consecutive

\* What the choice of a version by time relies on.
LEMMA EffectiveInvariantHolds == AdministrationSpec => []EffectiveInvariant
<1>1. AdministrationInit => EffectiveInvariant
    BY EffectiveBegins DEF AdministrationInit, EffectiveInvariant
<1>2. EffectiveInvariant /\ [AdministrationNext]_administrationVars => EffectiveInvariant'
    BY EffectivePart, EffectiveStep DEF EffectiveInvariant
<1> QED BY <1>1, <1>2, PTL DEF AdministrationSpec

\* The variables of every part keep their types.
THEOREM AdministrationTypes == AdministrationSpec => []PartsTypeOK
<1>1. TypeOK /\ LibraryInvariant /\ ObjectInvariant /\ AdmissionInvariant /\ EffectiveInvariant /\ MemberInvariant
        => PartsTypeOK
    BY DEF PartsTypeOK, LibraryInvariant, MetricInvariant, ObjectInvariant, AdmissionInvariant,
           EffectiveInvariant, MemberInvariant
<1> QED BY <1>1, StorePart, StoreTypes, LibraryInvariantHolds, ObjectInvariantHolds, AdmissionInvariantHolds,
           EffectiveInvariantHolds, MemberInvariantHolds, PTL

\* An open page or workflow lies in a module that is not archived, unless the module was
\* archived between a request's look at it and its commit (archiveModule, requireProjectModule).
THEOREM ObjectsAreHeld == AdministrationSpec => []OpenIsHeld
<1>1. ObjectInvariant => OpenIsHeld
    BY DEF ObjectInvariant, OpenIsHeld
<1> QED BY <1>1, ObjectInvariantHolds, PTL

\* At every time one version of a configuration is in force and at most one version of a
\* workflow admits starts; a start accepted under it is not refused later (updateModule,
\* createOperationalSettingsVersion, activateWorkflowDefinitionVersion).
THEOREM VersionsInForce == AdministrationSpec => []OneInForce
<1>1. AdmissionInvariant /\ EffectiveInvariant => OneInForce
    BY FittingAdmitsOne, StandingStands, ConsecutiveIsOne
       DEF AdmissionInvariant, EffectiveInvariant, OneInForce
<1> QED BY <1>1, AdmissionInvariantHolds, EffectiveInvariantHolds, PTL

\* A project that is created again under the same request id is created once, and keeps an
\* owner however its owners remove one another (createProject, removeProjectMember).
THEOREM ProjectsAreKept == AdministrationSpec => []ProjectsKept
<1>1. Members!TypeOK /\ Members!Creations => Members!CreatedOnce
    <2> SUFFICES ASSUME Members!TypeOK, Members!Creations
                 PROVE  Len(projects) <= 1 /\ Members!Cardinality(answers) <= 1
        BY DEF Members!CreatedOnce
    <2>1. Len(projects) <= 1 /\ answers \subseteq {creation}
        <3>1. CASE creation = None
            <4>1. projects = <<>> /\ answers = {}
                BY <3>1 DEF Members!Creations
            <4> QED BY <4>1
        <3>2. CASE creation # None
            <4>1. Len(projects) = 1 /\ answers \subseteq {creation}
                BY <3>2 DEF Members!Creations
            <4> QED BY <4>1
        <3> QED BY <3>1, <3>2
    <2>2. Cardinality(answers) \in {0, 1}
        BY <2>1, AtMostOne
    <2> QED BY <2>1, <2>2, CardinalityHere
<1>2. MemberInvariant => ProjectsKept
    BY <1>1 DEF MemberInvariant, ProjectsKept
<1> QED BY <1>2, MemberInvariantHolds, PTL
=============================================================================
