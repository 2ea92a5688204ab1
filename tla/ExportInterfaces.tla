--------------------------- MODULE ExportInterfaces ---------------------------
(***************************************************************************)
(* The export interface of one kind of a project (SettingsService): a      *)
(* scope, a limit of calls per minute and credentials that are shown once. *)
(* Administrators change it while external callers read through it.  Each  *)
(* transaction locks the interface's row first, so it is one step; a read  *)
(* is authorized, made and recorded in three.  The clocks of the API       *)
(* processes agree on the minute.                                          *)
(***************************************************************************)
EXTENDS Integers, Sequences, FiniteSets

CONSTANTS
    Callers,       \* external reads that may be under way at a time
    Scopes,        \* what a scope allows and until when: [queries, expires, limit]
    MaxMinute, MaxCredentials, MaxCalls, MaxChanges   \* bounds

VARIABLES
    now,           \* minute
    interface,     \* export_interfaces
    credentials,   \* export_credentials, in the order they were issued
    window,        \* export_rate_windows
    caller,        \* ExternalSettingsController.read
    retired,       \* history: credentials that could not be used at some moment
    accepted       \* history: [credential, scope, minute, call] of each authorized read

vars == <<now, interface, credentials, window, caller, retired, accepted>>

Idle == [pc |-> "idle", credential |-> 0, query |-> 0]

\* The row of createInterface(); `change` is history, the number of its scope.
Created(scope) == [enabled |-> FALSE, scope |-> scope, change |-> 1, status |-> "none"]

Init ==
    /\ now = 0
    /\ \E scope \in Scopes : scope.expires > 0 /\ interface = Created(scope)
    /\ credentials = <<>> /\ window = [start |-> -1, calls |-> 0]
    /\ caller = [c \in Callers |-> Idle] /\ retired = {} /\ accepted = {}

\* A credential that authorizes something now.
Usable(n) ==
    /\ interface.enabled /\ ~credentials[n].revoked
    /\ credentials[n].expires > now

Remember == retired' = retired \cup {n \in DOMAIN credentials : ~Usable(n)'}

-----------------------------------------------------------------------------
\* The administrator.

RevokeAll == [n \in DOMAIN credentials |-> [credentials[n] EXCEPT !.revoked = TRUE]]

\* updateInterface()
ChangeScope(scope) ==
    /\ scope.expires > now /\ interface.change < MaxChanges
    /\ interface' = [interface EXCEPT !.scope = scope, !.enabled = FALSE, !.change = @ + 1]
    /\ credentials' = RevokeAll
    /\ UNCHANGED <<now, window, caller, accepted>>

\* changeInterface(): enable and rotate issue a credential.
Issued == [revoked |-> FALSE, expires |-> interface.scope.expires, change |-> interface.change]

Enable ==
    /\ interface.scope.expires > now /\ Len(credentials) < MaxCredentials
    /\ credentials' = Append(RevokeAll, Issued)
    /\ interface' = [interface EXCEPT !.enabled = TRUE]
    /\ UNCHANGED <<now, window, caller, accepted>>

Rotate == interface.enabled /\ Enable

Disable ==
    /\ interface' = [interface EXCEPT !.enabled = FALSE]
    /\ UNCHANGED <<now, credentials, window, caller, accepted>>

Revoke ==
    /\ interface' = [interface EXCEPT !.enabled = FALSE]
    /\ credentials' = RevokeAll
    /\ UNCHANGED <<now, window, caller, accepted>>

-----------------------------------------------------------------------------
\* An external read.

\* One call more in this minute's window.
Counted == [start |-> now, calls |-> IF window.start = now THEN window.calls + 1 ELSE 1]

\* authorizeExport(): the code that is answered.
Code(n, query) ==
    IF Counted.calls > interface.scope.limit THEN "limited"
    ELSE IF n = 0 THEN "invalid"
    ELSE IF ~interface.enabled THEN "disabled"
    ELSE IF credentials[n].revoked THEN "revoked"
    ELSE IF credentials[n].expires <= now THEN "expired"
    ELSE IF query \notin interface.scope.queries THEN "forbidden"
    ELSE "authorized"

\* With a token that was issued once, or with another one.
Authorize(c, n, query) ==
    /\ caller[c].pc = "idle" /\ Counted.calls <= MaxCalls
    /\ window' = Counted
    /\ interface' = [interface EXCEPT !.status = Code(n, query)]
    /\ IF Code(n, query) = "authorized"
       THEN /\ caller' = [caller EXCEPT ![c] = [pc |-> "read", credential |-> n, query |-> query]]
            /\ accepted' = accepted \cup
                 {[credential |-> n, issued |-> credentials[n].change, change |-> interface.change,
                   minute |-> now, call |-> window'.calls]}
       ELSE UNCHANGED <<caller, accepted>>
    /\ UNCHANGED <<now, credentials>>

\* finishExport(), whether the read was answered or failed; or the process stopped before it.
Finish(c, code) ==
    /\ caller[c].pc = "read"
    /\ caller' = [caller EXCEPT ![c] = Idle]
    /\ interface' = IF code = "stopped" THEN interface ELSE [interface EXCEPT !.status = code]
    /\ UNCHANGED <<now, credentials, window, accepted>>

Tick ==
    /\ now < MaxMinute
    /\ now' = now + 1
    /\ UNCHANGED <<interface, credentials, window, caller, accepted>>

Next ==
    /\ \/ \E scope \in Scopes : ChangeScope(scope)
       \/ Enable \/ Rotate \/ Disable \/ Revoke
       \/ \E c \in Callers :
            \/ \E n \in 0 .. Len(credentials), query \in UNION {s.queries : s \in Scopes} :
                 Authorize(c, n, query)
            \/ \E code \in {"success", "unavailable", "stopped"} : Finish(c, code)
       \/ Tick
    /\ Remember

Spec == Init /\ [][Next]_vars

-----------------------------------------------------------------------------
\* Properties.

Interface == [enabled : BOOLEAN, scope : Scopes, change : Nat,
              status : {"none", "limited", "invalid", "disabled", "revoked", "expired", "forbidden",
                        "authorized", "success", "unavailable"}]
Credential == [revoked : BOOLEAN, expires : Nat, change : Nat]
Caller == [pc : {"idle", "read"}, credential : Nat, query : {0} \cup UNION {s.queries : s \in Scopes}]
Accepted == [credential : Nat, issued : Nat, change : Nat, minute : Nat, call : Nat]

TypeOK ==
    /\ now \in Nat /\ interface \in Interface /\ credentials \in Seq(Credential)
    /\ window \in [start : {-1} \cup Nat, calls : Nat]
    /\ caller \in [Callers -> Caller] /\ \A c \in Callers : caller[c].credential \in 0 .. Len(credentials)
    /\ retired \subseteq DOMAIN credentials /\ accepted \subseteq Accepted

\* A token that was of no use at some moment, because the interface was disabled or changed or the
\* token revoked, rotated or past its time, never authorizes again, whatever is enabled later; so
\* one token at most is in use (changeInterface, updateInterface).
RetiredStays ==
    /\ \A n \in retired : ~Usable(n)
    /\ \A n, k \in DOMAIN credentials : Usable(n) /\ Usable(k) => n = k

\* What is read was allowed by the very scope the token was issued for (updateInterface).
OwnScope == \A a \in accepted : a.issued = a.change

\* The limit of a minute is kept, however calls and changes interleave: those of the same minute
\* that were authorized carry different numbers, none beyond the limit of some scope.
RateKept ==
    /\ \A a, b \in accepted : a.minute = b.minute /\ a.call = b.call => a = b
    /\ \A a \in accepted : \E s \in Scopes : a.call <= s.limit

ExportsSound == RetiredStays /\ OwnScope /\ RateKept
===============================================================================
