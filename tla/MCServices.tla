------------------------------- MODULE MCServices -------------------------------
(***************************************************************************)
(* The services behind the browser, and what they conclude from what it    *)
(* sends, for TLC.  The parts share no state, so an initial state chooses  *)
(* one of them and the others stand still: the event consumer, with the    *)
(* module's own constants and variables, repeated operations, the refresh  *)
(* tokens of two tabs, the quality counters of pages that fail or are      *)
(* hidden, the credentials of an export interface, and the admission of    *)
(* batches.                                                                *)
(***************************************************************************)
EXTENDS MCEventConsumer, Integers, Sequences

CONSTANTS
    Tabs, MaxSessions,                                         \* AuthSessions
    Scopes, MaxMinute, MaxCredentials, MaxCalls, MaxChanges,   \* ExportInterfaces
    Repeating,                                                 \* RepeatedOperations: a user's day
    Viewing,                                                   \* QualityFacts: a user's pages
    Processes, Ttl, Minute,                                    \* EventIngestion,
    Plain, Chaining,                                           \* and two sets of batches
    t1, t2

\* The members may be exchanged, and with them the calls; the tabs too.
ServicesSymmetry == Permutations(Consumers) \cup Permutations(Tabs)

VARIABLES
    part,        \* which component this behaviour is about
    now, log, offset, rows, refs, proofs, projecting,               \* RepeatedOperations
    sessions, cookie, tab, call,                                    \* AuthSessions
    calls, pages, visible, task, queue, lost, flight, raw, strayed,
    happened, faults,                                               \* QualityFacts
    interface, credentials, window, caller, retired, accepted,      \* ExportInterfaces
    project, dropping, blocked, cache, limiter, chain, queued,
    request, published                                              \* EventIngestion

messageVars == <<log, offset, rows, refs, proofs, projecting>>
repeatedVars == <<now, messageVars>>
authVars == <<sessions, cookie, tab, call>>
qualityVars == <<calls, pages, visible, task, queue, lost, flight, raw, strayed, happened, faults>>
exportVars == <<interface, credentials, window, caller, retired, accepted>>
ingestVars == <<project, dropping, blocked, cache, limiter, chain, queued, request, published>>

Repetitions == INSTANCE RepeatedOperations WITH
    Operations <- Repeating.operations, Batches <- Repeating.batches, TimeOf <- Repeating.timeOf,
    Session <- Repeating.session, Aliases <- Repeating.aliases, Day <- Repeating.day,
    From <- Repeating.from, To <- Repeating.to,
    MaxTime <- Repeating.time, MaxMessages <- Repeating.messages,
    committed <- offset, stored <- rows, consumer <- projecting

Sessions == INSTANCE AuthSessions WITH NoTab <- NoOne, Calls <- Consumers

\* Several pages, or one that is hidden and shown again.
Pages == INSTANCE QualityFacts WITH
    CallLimit <- Viewing.limit, QueueSize <- Viewing.size, None <- NoOne, MaxPages <- Viewing.pages,
    MaxHappenings <- Viewing.happenings, MaxHides <- 0, MaxFaults <- Viewing.faults, stored <- raw
Hidings == INSTANCE QualityFacts WITH
    CallLimit <- Viewing.limit, QueueSize <- Viewing.size, None <- NoOne, MaxPages <- 1,
    MaxHappenings <- Viewing.happenings, MaxHides <- Viewing.hides, MaxFaults <- Viewing.faults,
    stored <- raw

Exports == INSTANCE ExportInterfaces WITH Callers <- Consumers

Admission == INSTANCE EventIngestion WITH
    Requests <- Plain.batches, ProcessOf <- Plain.processOf, Features <- Plain.features,
    Objects <- Plain.objects, PerWindow <- Plain.perWindow, ChainLimit <- Plain.chain,
    MaxTime <- Plain.time, MaxChanges <- Plain.changes, MayBlock <- Plain.blocks, None <- NoOne
Chained == INSTANCE EventIngestion WITH
    Requests <- Chaining.batches, ProcessOf <- Chaining.processOf, Features <- Chaining.features,
    Objects <- Chaining.objects, PerWindow <- Chaining.perWindow, ChainLimit <- Chaining.chain,
    MaxTime <- Chaining.time, MaxChanges <- Chaining.changes, MayBlock <- Chaining.blocks, None <- NoOne

\* The instance that is checked.  A scope that outlives the time of the model and allows two
\* queries, and one that does not.
TwoScopes == {[queries |-> {1, 2}, expires |-> 2, limit |-> 2], [queries |-> {1}, expires |-> 1, limit |-> 1]}

\* Four operations of one user: one before the three others, and two that carry the digests of
\* two key epochs; a request carries two of them.
FourOperations == [operations |-> 1 .. 4, batches |-> {{1}, {2, 3}, {4}}, timeOf |-> <<0, 0, 1, 2>>,
                   session |-> <<1, 2, 3, 4>>, aliases |-> <<{1}, {1, 2}, {1, 2}, {2}>>, day |-> 1,
                   from |-> 0, to |-> 1, time |-> 3, messages |-> 3]

\* Two pages, or one that is hidden once; one call of a page is counted.
TwoPages == [limit |-> 1, size |-> 3, pages |-> 2, hides |-> 1, happenings |-> 2, faults |-> 1]

\* Two batches and a project that changes, or three that carry object facts.
TwoPlain == [batches |-> 1 .. 2, processOf |-> [r \in 1 .. 2 |-> "api"], features |-> {2}, objects |-> {},
             perWindow |-> 1, chain |-> 1, time |-> 2, changes |-> 2, blocks |-> FALSE]
ThreeChained == [batches |-> 1 .. 3, processOf |-> [r \in 1 .. 3 |-> "api"], features |-> {2}, objects |-> 1 .. 3,
                 perWindow |-> 3, chain |-> 2, time |-> 0, changes |-> 1, blocks |-> TRUE]

\* What operations, batches and their processes are; a scope ends at some time; NoOne is nothing else.
Timed(b) ==
    /\ IsFiniteSet(b.operations) /\ b.timeOf \in [b.operations -> Int]
    /\ b.batches \subseteq SUBSET b.operations
    /\ b.day \in Nat /\ b.time \in Nat /\ b.from \in Int /\ b.to \in Int
Batched(b) ==
    /\ b.processOf \in [b.batches -> Processes]
    /\ b.perWindow \in Nat /\ b.chain \in Nat /\ b.time \in Nat /\ b.changes \in Nat
ASSUME ServicesAssumption ==
    /\ Timed(Repeating) /\ Viewing.limit \in Nat /\ Viewing.size \in Nat \ {0}
    /\ Batched(Plain) /\ Batched(Chaining)
    /\ Ttl \in Nat /\ Minute \in Nat
    /\ NoOne \notin Admission!Copied \cup Admission!Window \cup Pages!Batches
    /\ \A s \in Scopes : s.expires \in Nat /\ s.limit \in Nat
    /\ {MaxSessions, MaxMinute, MaxCredentials, MaxCalls, MaxChanges} \subseteq Nat

NoMessages ==
    /\ log = NoOne /\ offset = NoOne /\ rows = NoOne
    /\ refs = NoOne /\ proofs = NoOne /\ projecting = NoOne
NoRepetitions == now = NoOne /\ NoMessages
NoSessions == sessions = NoOne /\ cookie = NoOne /\ tab = NoOne /\ call = NoOne
NoQuality ==
    /\ calls = NoOne /\ pages = NoOne /\ visible = NoOne /\ task = NoOne /\ queue = NoOne /\ lost = NoOne
    /\ flight = NoOne /\ raw = NoOne /\ strayed = NoOne /\ happened = NoOne /\ faults = NoOne
NoExports ==
    /\ interface = NoOne /\ credentials = NoOne /\ window = NoOne /\ caller = NoOne
    /\ retired = NoOne /\ accepted = NoOne
NoIngestion ==
    /\ project = NoOne /\ dropping = NoOne /\ blocked = NoOne /\ cache = NoOne /\ limiter = NoOne
    /\ chain = NoOne /\ queued = NoOne /\ request = NoOne /\ published = NoOne
ServicesInit ==
    /\ Init
    /\ \/ /\ NoIngestion
          /\ \/ part = "consumer" /\ NoRepetitions /\ NoSessions /\ NoQuality /\ NoExports
             \/ part = "repetitions" /\ Repetitions!Init /\ NoSessions /\ NoQuality /\ NoExports
             \/ part = "sessions" /\ Sessions!Init /\ NoRepetitions /\ NoQuality /\ NoExports
             \/ part \in {"pages", "hidings"} /\ Pages!Init /\ NoRepetitions /\ NoSessions /\ NoExports
             \/ part = "exports" /\ Exports!Init /\ NoMessages /\ NoSessions /\ NoQuality
       \/ /\ NoMessages /\ NoSessions /\ NoQuality /\ NoExports
          /\ \/ part = "admission" /\ Admission!Init
             \/ part = "chained" /\ Chained!Init

\* All that stands still while one part moves, but its own variables and the time.
Elsewhere == UNCHANGED <<part, vars>>

ServicesNext ==
    \/ part = "consumer" /\ Next
       /\ UNCHANGED <<part, repeatedVars, authVars, qualityVars, exportVars, ingestVars>>
    \/ part = "repetitions" /\ Repetitions!Next
       /\ Elsewhere /\ UNCHANGED <<authVars, qualityVars, exportVars, ingestVars>>
    \/ part = "sessions" /\ Sessions!Next
       /\ Elsewhere /\ UNCHANGED <<repeatedVars, qualityVars, exportVars, ingestVars>>
    \/ part = "pages" /\ Pages!Next
       /\ Elsewhere /\ UNCHANGED <<repeatedVars, authVars, exportVars, ingestVars>>
    \/ part = "hidings" /\ Hidings!Next
       /\ Elsewhere /\ UNCHANGED <<repeatedVars, authVars, exportVars, ingestVars>>
    \/ part = "exports" /\ Exports!Next
       /\ Elsewhere /\ UNCHANGED <<messageVars, authVars, qualityVars, ingestVars>>
    \/ /\ \/ part = "admission" /\ Admission!Next
          \/ part = "chained" /\ Chained!Next
       /\ Elsewhere /\ UNCHANGED <<messageVars, authVars, qualityVars, exportVars>>

ServicesSpec ==
    ServicesInit /\ [][ServicesNext]_<<part, vars, repeatedVars, authVars, qualityVars, exportVars, ingestVars>>

-----------------------------------------------------------------------------
\* The properties of the parts.

\* The variables of every part keep their types.
ServicesTypeOK ==
    /\ TypeOK
    /\ part = "repetitions" => Repetitions!TypeOK
    /\ part = "sessions" => Sessions!TypeOK
    /\ part = "pages" => Pages!TypeOK
    /\ part = "hidings" => Hidings!TypeOK
    /\ part = "exports" => Exports!TypeOK
    /\ part = "admission" => Admission!TypeOK
    /\ part = "chained" => Chained!TypeOK

\* A refresh token has one successor, is refused for a reason, and none survives a logout
\* (consumeSession, revokeSession); an export credential that was of no use once never is again,
\* reads what its own scope allows, and keeps to the limit (changeInterface, authorizeExport).
CredentialsSound ==
    /\ part = "sessions" => Sessions!OneSuccessor /\ Sessions!RefusedForAReason /\ Sessions!LogoutEnds
    /\ part = "exports" => Exports!ExportsSound

\* A batch is judged by a project that was in force at most the life of a copy ago, a version that
\* is blocked stays out, and object facts wait in a chain that no failure breaks
\* (IngestionManager.accept, project, publishWithObjects).
AdmissionSound ==
    /\ part = "admission" => Admission!NeverStale
    /\ part = "chained" => Chained!BlockHolds /\ Chained!ChainSound

\* A rate that is answered is exact: a rate of repeated operations counts every session it should
\* and no other (projectRepeatedOperations, readRepeatedRate); what the collectors count reaches
\* the answers unchanged, what was lost withholds them and nothing else does
\* (createQualityCollectors, reduceQuality).
RatesAreTrue ==
    /\ part = "repetitions" => Repetitions!RateIsExact
    /\ part = "pages" => Pages!RatesAreTrue /\ Pages!CompleteIsAnswered
    /\ part = "hidings" => Hidings!RatesAreTrue /\ Hidings!CompleteIsAnswered
=============================================================================
