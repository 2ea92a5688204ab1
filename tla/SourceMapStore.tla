---------------------------- MODULE SourceMapStore ----------------------------
(***************************************************************************)
(* The source maps of one project (class SourceMaps): metadata rows in     *)
(* MySQL and files on a disk, kept together without a common transaction.  *)
(* Uploads run in a transaction under the lock of the project row, and     *)
(* install the file before they commit; removal commits a tombstone and    *)
(* then unlinks; a cleanup pass expires rows, unlinks the files of rows    *)
(* that are not ready, walks the directory for orphans and deletes rows    *)
(* 90 days past their expiry.                                              *)
(*                                                                         *)
(* One process serves the API.  An action ends where the code awaits.  A   *)
(* file is abstracted to its content; temporary files, which only the      *)
(* upload that writes them and the walk touch, are left out.               *)
(***************************************************************************)
EXTENDS Naturals, FiniteSets

CONSTANTS
    Count,      \* identities: (release, build, asset) of the project, by id
    Contents,   \* map_sha256
    Builds,     \* what may be uploaded: a build that is not reproducible has several contents
    Uploads,    \* uploads active at once
    Quota,      \* SOURCEMAP_LIMITS.projectFiles
    Page,       \* rows of a sweep, and directory entries of a walk
    MaxFaults,  \* bound: lost connections, failed calls, crashes
    Expiring,   \* bound: identities whose expiry passes
    NoOne, None

Artifacts == 1 .. Count

ASSUME StoreAssumption ==
    /\ Count \in Nat /\ Quota \in Nat /\ MaxFaults \in Nat
    /\ Page \in Nat \ {0}
    /\ Builds \subseteq Artifacts \X Contents
    /\ Expiring \subseteq Artifacts
    /\ NoOne \notin Uploads /\ None \notin Contents

VARIABLES
    row,        \* state and map_sha256 of each row of diagnostic_sourcemaps
    age,        \* of a row: live, expired, or 90 days past its expiry
    file,       \* what is on the disk under each identity
    old,        \* files whose mtime is more than an hour ago
    lock,       \* the upload whose transaction holds the project row
    upload,     \* uploadInternal() of each active upload
    removing,   \* identities remove() has yet to unlink
    cleanup,    \* cleanupInternal(), its cursor and its open directory
    disturbed,  \* history: identities whose file was written or is unlinked outside the lock
    faults

vars == <<row, age, file, old, lock, upload, removing, cleanup, disturbed, faults>>

Row == [state: {"none", "ready", "expired", "deleted"}, content: Contents \cup {None}]
NoRow == [state |-> "none", content |-> None]

Upload == [pc: {"idle", "locked", "installed", "inserted", "committed", "failed", "unlink"},
           artifact: Artifacts \cup {0}, content: Contents \cup {None}, existing: BOOLEAN]
IdleUpload == [pc |-> "idle", artifact |-> 0, content |-> None, existing |-> FALSE]

Cleanup == [pc: {"idle", "sweep", "walk", "select", "unlink", "purge"},
            todo: SUBSET Artifacts,   \* rows of the page that are not unlinked yet
            cursor: 0 .. Count,       \* cleanupCursor
            open: BOOLEAN, directory: SUBSET Artifacts,   \* cleanupDirectory: the entries to come
            seen: 0 .. Page,
            look: SUBSET Artifacts]   \* the old file whose row is looked up
NewCleanup == [pc |-> "idle", todo |-> {}, cursor |-> 0, open |-> FALSE, directory |-> {}, seen |-> 0,
               look |-> {}]

Init ==
    /\ row = [a \in Artifacts |-> NoRow]
    /\ age = [a \in Artifacts |-> "live"]
    /\ file = [a \in Artifacts |-> None]
    /\ old = {}
    /\ lock = NoOne
    /\ upload = [u \in Uploads |-> IdleUpload]
    /\ removing = {}
    /\ cleanup = NewCleanup
    /\ disturbed = {}
    /\ faults = 0

Rows == {a \in Artifacts : row[a].state # "none"}
Dead == {a \in Artifacts : row[a].state \in {"expired", "deleted"}}
Files == {a \in Artifacts : file[a] # None}

Fault == faults < MaxFaults /\ faults' = faults + 1

Goto(u, pc) == upload' = [upload EXCEPT ![u].pc = pc]
\* The rollback or commit that ends a transaction gives the project row back.
Release(u) == IF lock = u THEN NoOne ELSE lock
Return(u) == upload' = [upload EXCEPT ![u] = IdleUpload] /\ lock' = Release(u)

-----------------------------------------------------------------------------
\* upload()

\* What stops an upload under the lock: an identity that is not ready any more,
\* other content under the same identity, a file that is not the one the row
\* describes, or the quota, which counts tombstones too.
Acceptable(a, c) ==
    \/ row[a].state = "none" /\ Cardinality(Rows) < Quota
    \/ /\ row[a].state = "ready" /\ age[a] = "live"
       /\ row[a].content = c
       /\ file[a] \in {None, c}

\* The transaction of an upload has the lock, and nothing stops the upload.
\* What precedes it changes no state: the credential, the checksums, the map.
Begin(u, a, c) ==
    /\ upload[u].pc = "idle"
    /\ lock = NoOne
    /\ <<a, c>> \in Builds /\ Acceptable(a, c)
    /\ lock' = u
    /\ upload' = [upload EXCEPT ![u] = [pc |-> "locked", artifact |-> a, content |-> c,
                                       existing |-> a \in Rows]]
    /\ UNCHANGED <<row, age, file, old, removing, cleanup, disturbed, faults>>

\* Somebody without the lock may still write or unlink the file of a.
Threatened(u, a) ==
    \/ \E v \in Uploads \ {u} :
          upload[v].artifact = a /\ upload[v].pc \in {"locked", "installed", "inserted", "failed", "unlink"}
    \/ a \in removing \cup cleanup.look

\* The temporary file is renamed to its final name.  Nothing here asks whether
\* the transaction still exists.
Install(u) ==
    LET a == upload[u].artifact
    IN  /\ upload[u].pc = "locked"
        /\ file' = [file EXCEPT ![a] = upload[u].content]
        /\ old' = old \ {a}
        /\ disturbed' = IF Threatened(u, a) THEN disturbed \cup {a}
                        ELSE IF lock = u THEN disturbed \ {a} ELSE disturbed
        /\ Goto(u, "installed")
        /\ UNCHANGED <<row, age, lock, removing, cleanup, faults>>

\* Mutant: the row is inserted through the pool instead of the transaction.
InsertMutant(u) ==
    LET a == upload[u].artifact
    IN  /\ upload[u].pc = "installed"
        /\ row' = IF upload[u].existing \/ a \in Rows THEN row
                  ELSE [row EXCEPT ![a] = [state |-> "ready", content |-> upload[u].content]]
        /\ upload' = [upload EXCEPT ![u].pc = "inserted", ![u].existing = TRUE]
        /\ UNCHANGED <<age, file, old, lock, removing, cleanup, disturbed, faults>>

\* The row and its audit entry, not committed yet.
Insert(u) ==
    /\ upload[u].pc = "installed" /\ lock = u
    /\ Goto(u, "inserted")
    /\ UNCHANGED <<row, age, file, old, lock, removing, cleanup, disturbed, faults>>

Committed(u) ==
    LET a == upload[u].artifact
    IN  IF upload[u].existing THEN UNCHANGED <<row, age>>
        ELSE /\ row' = [row EXCEPT ![a] = [state |-> "ready", content |-> upload[u].content]]
             /\ age' = [age EXCEPT ![a] = "live"]

Commit(u) ==
    /\ upload[u].pc = "inserted" /\ lock = u
    /\ Committed(u)
    /\ lock' = NoOne
    /\ Goto(u, "committed")
    /\ UNCHANGED <<file, old, removing, cleanup, disturbed, faults>>

\* The row is read again for the answer.
Answer(u) ==
    /\ upload[u].pc = "committed"
    /\ Return(u)
    /\ UNCHANGED <<row, age, file, old, removing, cleanup, disturbed, faults>>

\* commit() reports an error: it may have taken effect, and the transaction is
\* over either way.
CommitFails(u) ==
    /\ upload[u].pc = "inserted" /\ lock = u
    /\ Fault
    /\ Committed(u) \/ UNCHANGED <<row, age>>
    /\ lock' = NoOne
    /\ Goto(u, "failed")
    /\ UNCHANGED <<file, old, removing, cleanup, disturbed>>

\* The connection of the transaction is lost: MySQL rolls back and frees the row.
LoseConnection(u) ==
    /\ lock = u /\ Fault
    /\ lock' = NoOne
    /\ UNCHANGED <<row, age, file, old, upload, removing, cleanup, disturbed>>

\* A statement fails, as it must once the connection is lost, or the disk does;
\* or the answer cannot be read after the commit.
Fail(u) ==
    /\ upload[u].pc \in {"locked", "installed", "inserted", "committed"}
    /\ IF upload[u].pc = "locked" THEN Return(u)
       ELSE Goto(u, "failed") /\ UNCHANGED lock
    /\ UNCHANGED <<row, age, file, old, removing, cleanup, disturbed, faults>>

\* Mutant: the outcome of an ambiguous commit is not looked up.
CheckOutcomeMutant(u) ==
    /\ upload[u].pc = "failed"
    /\ IF upload[u].existing THEN Return(u) ELSE Goto(u, "unlink") /\ UNCHANGED lock
    /\ UNCHANGED <<row, age, file, old, removing, cleanup, disturbed, faults>>

\* The catch block keeps the file of a row it finds.
CheckOutcome(u) ==
    /\ upload[u].pc = "failed"
    /\ IF upload[u].existing \/ upload[u].artifact \in Rows
       THEN Return(u)
       ELSE Goto(u, "unlink") /\ UNCHANGED lock
    /\ UNCHANGED <<row, age, file, old, removing, cleanup, disturbed, faults>>

\* The row cannot be read: the file is taken for an uncommitted one.
CheckOutcomeFails(u) ==
    /\ upload[u].pc = "failed" /\ ~upload[u].existing
    /\ Fault
    /\ Goto(u, "unlink")
    /\ disturbed' = IF upload[u].artifact \in Rows THEN disturbed \cup {upload[u].artifact} ELSE disturbed
    /\ UNCHANGED <<row, age, file, old, lock, removing, cleanup>>

Unlinked(a) == file' = [file EXCEPT ![a] = None] /\ old' = old \ {a}

UnlinkUncommitted(u) ==
    /\ upload[u].pc = "unlink"
    /\ \/ Unlinked(upload[u].artifact) /\ UNCHANGED faults
       \/ Fault /\ UNCHANGED <<file, old>>
    /\ Return(u)
    /\ UNCHANGED <<row, age, removing, cleanup, disturbed>>

-----------------------------------------------------------------------------
\* remove()

\* The tombstone is committed under the lock ...
Remove(a) ==
    /\ lock = NoOne /\ a \in Rows
    /\ row' = [row EXCEPT ![a].state = "deleted"]
    /\ removing' = removing \cup {a}
    /\ UNCHANGED <<age, file, old, lock, upload, cleanup, disturbed, faults>>

\* ... and the file is unlinked after it, or is not.
UnlinkRemoved(a) ==
    /\ a \in removing
    /\ removing' = removing \ {a}
    /\ \/ Unlinked(a) /\ UNCHANGED faults
       \/ Fault /\ UNCHANGED <<file, old>>
    /\ UNCHANGED <<row, age, lock, upload, cleanup, disturbed>>

-----------------------------------------------------------------------------
\* cleanup()

\* Mutant: every row past its expiry becomes expired.
ExpiredMutant(a) == age[a] # "live" /\ row[a].state # "none"
Expired(a) == age[a] # "live" /\ row[a].state = "ready"

\* The first rows of S after the cursor.
PageOf(S, cursor) ==
    {a \in S : cursor < a /\ Cardinality({b \in S : cursor < b /\ b <= a}) <= Page}

NextCursor(page, cursor) ==
    IF Cardinality(page) = Page THEN CHOOSE a \in page : \A b \in page : b <= a ELSE 0

\* Rows past their expiry are marked, and a page of the rows that are not ready
\* is selected.
StartCleanup ==
    /\ cleanup.pc = "idle"
    /\ row' = [a \in Artifacts |-> IF Expired(a) THEN [row[a] EXCEPT !.state = "expired"] ELSE row[a]]
    /\ LET page == PageOf(Dead', cleanup.cursor)
       IN  cleanup' = [cleanup EXCEPT !.pc = "sweep", !.todo = page,
                                      !.cursor = NextCursor(page, cleanup.cursor)]
    /\ UNCHANGED <<age, file, old, lock, upload, removing, disturbed, faults>>

SweepUnlink(a) ==
    /\ cleanup.pc = "sweep" /\ a \in cleanup.todo /\ \A b \in cleanup.todo : a <= b
    /\ Unlinked(a)
    /\ cleanup' = [cleanup EXCEPT !.todo = @ \ {a}]
    /\ UNCHANGED <<row, age, lock, upload, removing, disturbed, faults>>

\* opendir(), unless an earlier pass has left the directory open.
StartWalk ==
    /\ cleanup.pc = "sweep" /\ cleanup.todo = {}
    /\ cleanup' = [cleanup EXCEPT !.pc = "walk", !.open = TRUE,
                                  !.directory = IF cleanup.open THEN @ ELSE Files]
    /\ UNCHANGED <<row, age, file, old, lock, upload, removing, disturbed, faults>>

\* One entry: a file more than an hour old is looked up.
WalkNext(a) ==
    /\ cleanup.pc = "walk" /\ a \in cleanup.directory /\ cleanup.seen < Page
    /\ cleanup' = [cleanup EXCEPT !.directory = @ \ {a}, !.seen = @ + 1,
                                  !.pc = IF a \in old THEN "select" ELSE "walk",
                                  !.look = IF a \in old THEN {a} ELSE {}]
    /\ UNCHANGED <<row, age, file, old, lock, upload, removing, disturbed, faults>>

WalkSelect ==
    /\ cleanup.pc = "select"
    /\ cleanup' = IF cleanup.look \subseteq Rows THEN [cleanup EXCEPT !.pc = "walk", !.look = {}]
                  ELSE [cleanup EXCEPT !.pc = "unlink"]
    /\ UNCHANGED <<row, age, file, old, lock, upload, removing, disturbed, faults>>

WalkUnlink ==
    /\ cleanup.pc = "unlink"
    /\ \E a \in cleanup.look : Unlinked(a)
    /\ cleanup' = [cleanup EXCEPT !.pc = "walk", !.look = {}]
    /\ UNCHANGED <<row, age, lock, upload, removing, disturbed, faults>>

\* The end of the directory closes it; the budget of the pass leaves it open.
EndWalk ==
    /\ cleanup.pc = "walk"
    /\ cleanup.directory = {} \/ cleanup.seen = Page
    /\ cleanup' = [cleanup EXCEPT !.pc = "purge", !.open = cleanup.seen = Page, !.seen = 0]
    /\ UNCHANGED <<row, age, file, old, lock, upload, removing, disturbed, faults>>

\* Tombstones 90 days past their expiry make room for new identities.
Purge ==
    /\ cleanup.pc = "purge"
    /\ LET purged == {a \in Dead : age[a] = "purgeable"}
       IN  /\ row' = [a \in Artifacts |-> IF a \in purged THEN NoRow ELSE row[a]]
           /\ age' = [a \in Artifacts |-> IF a \in purged THEN "live" ELSE age[a]]
    /\ cleanup' = [cleanup EXCEPT !.pc = "idle"]
    /\ UNCHANGED <<file, old, lock, upload, removing, disturbed, faults>>

\* A statement, an unlink or a read of the directory fails: the rest of the pass
\* is left to the next one.
AbortCleanup ==
    /\ cleanup.pc # "idle" /\ Fault
    /\ cleanup' = [cleanup EXCEPT !.pc = "idle", !.todo = {}, !.look = {}, !.seen = 0]
    /\ UNCHANGED <<row, age, file, old, lock, upload, removing, disturbed>>

-----------------------------------------------------------------------------
\* The process and time.

\* The process dies: files stay as they are and open transactions roll back.
Crash ==
    /\ Fault
    /\ upload' = [u \in Uploads |-> IdleUpload]
    /\ lock' = NoOne
    /\ removing' = {}
    /\ cleanup' = NewCleanup
    /\ UNCHANGED <<row, age, file, old, disturbed>>

Busy(a) == a \in removing \/ \E u \in Uploads : upload[u].artifact = a

\* expires_at passes; 90 more days pass, which no request outlives.
Expire(a) ==
    /\ age[a] = "live" /\ a \in Rows \cap Expiring
    /\ age' = [age EXCEPT ![a] = "expired"]
    /\ UNCHANGED <<row, file, old, lock, upload, removing, cleanup, disturbed, faults>>

Retire(a) ==
    /\ age[a] = "expired" /\ ~Busy(a)
    /\ age' = [age EXCEPT ![a] = "purgeable"]
    /\ UNCHANGED <<row, file, old, lock, upload, removing, cleanup, disturbed, faults>>

\* An hour passes after a file was written, which no upload takes.
GrowOld(a) ==
    /\ a \in Files \ old
    /\ \A u \in Uploads : upload[u].artifact = a => upload[u].pc = "locked"
    /\ old' = old \cup {a}
    /\ UNCHANGED <<row, age, file, lock, upload, removing, cleanup, disturbed, faults>>

UploadStep(u) ==
    \/ Install(u) \/ Insert(u) \/ Commit(u) \/ Answer(u) \/ Fail(u)
    \/ CheckOutcome(u) \/ UnlinkUncommitted(u)

CleanupStep ==
    \/ StartCleanup \/ StartWalk \/ WalkSelect \/ WalkUnlink \/ EndWalk \/ Purge
    \/ \E a \in Artifacts : SweepUnlink(a) \/ WalkNext(a)

Next ==
    \/ \E u \in Uploads :
          \/ \E a \in Artifacts, c \in Contents : Begin(u, a, c)
          \/ UploadStep(u) \/ CommitFails(u) \/ LoseConnection(u) \/ CheckOutcomeFails(u)
    \/ \E a \in Artifacts : Remove(a) \/ UnlinkRemoved(a) \/ Expire(a) \/ Retire(a) \/ GrowOld(a)
    \/ CleanupStep \/ AbortCleanup
    \/ Crash

Spec == Init /\ [][Next]_vars

-----------------------------------------------------------------------------
\* Every variable has its type; in particular the cursor names an identity, and
\* only a file that exists has an mtime.
TypeOK ==
    /\ row \in [Artifacts -> Row]
    /\ age \in [Artifacts -> {"live", "expired", "purgeable"}]
    /\ file \in [Artifacts -> Contents \cup {None}]
    /\ old \subseteq Files
    /\ lock \in Uploads \cup {NoOne}
    /\ upload \in [Uploads -> Upload]
    /\ removing \subseteq Artifacts
    /\ cleanup \in Cleanup
    /\ disturbed \subseteq Artifacts
    /\ faults \in 0 .. MaxFaults

(***************************************************************************)
(* The identities of a project, tombstones included, never exceed its      *)
(* quota, although uploads race, lose their connection between the count   *)
(* and the commit, or commit without knowing it (uploadInternal: serialize *)
(* project quota/identity decisions).                                      *)
(***************************************************************************)
QuotaKept == Cardinality(Rows) <= Quota

(***************************************************************************)
(* A ready row has the file its digest describes, through any interleaving *)
(* of uploads, retries, removals and cleanup passes, except where the file *)
(* was installed while an upload that has lost its transaction, a removal  *)
(* or a directory walk could still touch it, or where a committed row      *)
(* could not be read after its commit.  An undisturbed retry repairs it.   *)
(***************************************************************************)
ReadyHasFile ==
    \A a \in Artifacts : row[a].state = "ready" /\ a \notin disturbed => file[a] = row[a].content

(***************************************************************************)
(* No retry, late commit or cleanup revives an identity that was deleted   *)
(* or has expired: its row stays a tombstone, with its content, until it   *)
(* is purged (remove: failure to unlink never restores access).            *)
(***************************************************************************)
TombstonesStay ==
    [][\A a \in Artifacts :
          /\ row[a].state = "deleted" => row'[a].state \in {"deleted", "none"}
          /\ row[a].state = "expired" => row'[a].state \in {"expired", "deleted", "none"}
          /\ row[a].state # "none" /\ row'[a].state = "none" => age[a] = "purgeable"]_vars

=============================================================================
