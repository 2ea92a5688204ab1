--------------------------- MODULE EffectiveVersions ---------------------------
(***************************************************************************)
(* What is in force at which time (MySqlStore): the revisions of a module  *)
(* or page, whose transactions read the clock while they hold its row, and *)
(* the versions of a project's operational settings, whose requests read   *)
(* the clock when they arrive and wait for the project's row afterwards.   *)
(* Either may name a time of its own, past or future.                      *)
(***************************************************************************)
EXTENDS Integers, Sequences, FiniteSets

CONSTANTS Requests, None, MaxTime, MaxVersions   \* bounds: clock, versions of each

Times == 0 .. MaxTime

VARIABLES
    now,
    revisions,   \* module_revisions or page_definition_revisions of one object: [from, to]
    settings,    \* project_operational_settings: [status, from, to]
    request      \* createOperationalSettingsVersion() in front of the lock: its effectiveFrom

vars == <<now, revisions, settings, request>>

Revision == [from : Nat, to : Nat \cup {None}]
Setting == [status : {"active", "superseded"}, from : Nat, to : Nat \cup {None}]

Init ==
    /\ now = 0
    /\ \E from \in Times : revisions = <<[from |-> from, to |-> None]>>
    /\ settings = <<>>
    /\ request = [r \in Requests |-> None]

-----------------------------------------------------------------------------
\* Mutant: a change in the same millisecond, or of a revision that is not in force yet, takes
\* the time it asked for.
EffectiveFromMutant(current, requested) == IF requested = None THEN now ELSE requested

\* revisionEffectiveFrom(); None when the request is refused
EffectiveFrom(current, requested) ==
    LET candidate == IF requested = None THEN now ELSE requested
    IN  IF candidate > current THEN candidate
        ELSE IF requested # None THEN None ELSE current + 1

\* updateModule(), updatePageDefinition()
Revise ==
    /\ Len(revisions) < MaxVersions
    /\ \E requested \in Times \cup {None} :
         LET last == Len(revisions)
             from == EffectiveFrom(revisions[last].from, requested)
         IN  /\ from # None
             /\ revisions' = Append([revisions EXCEPT ![last].to = from], [from |-> from, to |-> None])
    /\ UNCHANGED <<now, settings, request>>

-----------------------------------------------------------------------------
Enter(r) ==
    /\ request[r] = None
    /\ \E requested \in Times \cup {None} :
         request' = [request EXCEPT ![r] = IF requested = None THEN now ELSE requested]
    /\ UNCHANGED <<now, revisions, settings>>

\* Mutant: the latest version is not compared with the request that waited.
AfterLatestMutant(from) == TRUE

\* SETTINGS_EFFECTIVE_FROM_NOT_AFTER_LATEST
AfterLatest(from) == \A v \in DOMAIN settings : from > settings[v].from

Superseded(from) ==
    [v \in DOMAIN settings |->
        IF settings[v].status = "active" /\ settings[v].from < from
        THEN [settings[v] EXCEPT !.status = "superseded", !.to = from] ELSE settings[v]]

\* The transaction, from the lock to the commit.
CreateSettings(r) ==
    /\ request[r] # None /\ Len(settings) < MaxVersions
    /\ settings' = IF AfterLatest(request[r])
                   THEN Append(Superseded(request[r]),
                               [status |-> "active", from |-> request[r], to |-> None])
                   ELSE settings
    /\ request' = [request EXCEPT ![r] = None]
    /\ UNCHANGED <<now, revisions>>

Tick ==
    /\ now < MaxTime
    /\ now' = now + 1
    /\ UNCHANGED <<revisions, settings, request>>

Next == Revise \/ Tick \/ \E r \in Requests : Enter(r) \/ CreateSettings(r)

Spec == Init /\ [][Next]_vars

-----------------------------------------------------------------------------
\* Properties.

\* The variables keep their types.
TypeOK ==
    /\ now \in Times
    /\ revisions \in Seq(Revision) /\ revisions # <<>>
    /\ settings \in Seq(Setting)
    /\ request \in [Requests -> Times \cup {None}]

\* The WHERE clause of listModules(), listPageDefinitions() and getOperationalSettings().
InForce(versions, t) ==
    {v \in DOMAIN versions : versions[v].from <= t /\ (versions[v].to = None \/ versions[v].to > t)}

\* From the first version on exactly one is in force at every time, the latest one for good,
\* and of the settings that one is the only one called active: however requests overlap and
\* whatever times they ask for, an analysis of any day finds the configuration of that day.
OneInForce ==
    \A versions \in {revisions, settings} : versions # <<>> =>
        /\ \A t \in Times :
             Cardinality(InForce(versions, t)) = IF t >= versions[1].from THEN 1 ELSE 0
        /\ \A v \in DOMAIN versions : versions[v].to = None <=> v = Len(versions)
        /\ \A v \in DOMAIN settings : settings[v].status = "active" <=> v = Len(settings)

-----------------------------------------------------------------------------
\* The inductive invariant behind them.

\* Every version but the last ends before the next one begins, and no time is left between.
Chained(versions) ==
    /\ \A v \in DOMAIN versions : versions[v].to = None <=> v = Len(versions)
    /\ \A u, v \in DOMAIN versions : u < v =>
         versions[u].from < versions[v].from /\ versions[u].to <= versions[v].from
    /\ \A t \in Times : versions # <<>> /\ t >= versions[1].from => InForce(versions, t) # {}

OneActive == \A v \in DOMAIN settings : settings[v].status = "active" <=> v = Len(settings)

Consecutive == Chained(revisions) /\ Chained(settings) /\ OneActive
=============================================================================
