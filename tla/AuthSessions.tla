----------------------------- MODULE AuthSessions -----------------------------
(***************************************************************************)
(* Refresh tokens.  A refresh consumes its session in a transaction that   *)
(* locks the row, and issues the successor afterwards (AuthManager).  The  *)
(* tabs of a browser share the cookie; each keeps its access token and its *)
(* user, and refreshes by itself whenever a request is answered by 401:    *)
(* refreshes, a logout and a login may overlap, and an answer may be lost. *)
(***************************************************************************)
EXTENDS Integers, Sequences, FiniteSets

CONSTANTS
    Tabs, NoTab,
    Calls,        \* requests that may be under way at a time
    MaxSessions   \* bound

VARIABLES
    sessions,   \* auth_sessions; an index is a refresh token
    cookie,     \* external: fi_refresh, 0 when there is none
    tab,        \* session storage of each tab: access token and user
    call        \* what is under way

vars == <<sessions, cookie, tab, call>>

Idle == [pc |-> "idle", tab |-> NoTab, token |-> 0, next |-> 0, quiet |-> FALSE]

\* `delivered` and `out` are history: the browser got the token; the family was logged out
\* while nothing else was under way.
Row(family, from) == [family |-> family, from |-> from, ended |-> "no",
                      delivered |-> FALSE, out |-> FALSE]

\* Everybody is logged out; a tab that was just opened.
Init ==
    /\ sessions = <<>> /\ cookie = 0
    /\ tab = [t \in Tabs |-> [access |-> "none", user |-> FALSE]]
    /\ call = [c \in Calls |-> Idle]

Live(s) == s # 0 /\ sessions[s].ended = "no"

\* A logout shares the time with no other call.
Shared(others) == [c \in Calls |-> IF call[c].pc # "idle" \/ c \in others
                                   THEN [call[c] EXCEPT !.quiet = FALSE] ELSE call[c]]
Start(c, t, pc, token) ==
    /\ call[c].pc = "idle"
    /\ call' = [Shared({}) EXCEPT ![c] =
         [Idle EXCEPT !.pc = pc, !.tab = t, !.token = token,
                      !.quiet = \A d \in Calls : call[d].pc = "idle"]]

Step(c, pc) == call' = [call EXCEPT ![c].pc = pc]
Over(c) == call' = [call EXCEPT ![c] = Idle]

-----------------------------------------------------------------------------
\* The web application.

\* A request without a valid access token: it will be answered by 401 (request).
Request(c, t) ==
    /\ tab[t].user /\ tab[t].access # "valid"
    /\ Start(c, t, "unauthorized", 0)
    /\ UNCHANGED <<sessions, cookie, tab>>

\* A tab is opened or loaded again without an access token (restore).
Restore(c, t) ==
    /\ tab[t].access = "none"
    /\ Start(c, t, "unauthorized", 0)
    /\ UNCHANGED <<sessions, cookie, tab>>

\* refreshAccessToken(): whatever cookie there is now.
SendRefresh(c) ==
    /\ call[c].pc = "unauthorized"
    /\ call' = [call EXCEPT ![c].token = cookie,
                            ![c].pc = IF cookie = 0 THEN "refused" ELSE "refresh"]
    /\ UNCHANGED <<sessions, cookie, tab>>

Refused(c) ==
    /\ call[c].pc = "refused"
    /\ tab' = [tab EXCEPT ![call[c].tab] = [access |-> "none", user |-> FALSE]]
    /\ Over(c)
    /\ UNCHANGED <<sessions, cookie>>

\* The answer of a refresh or a login: the cookie, then the tab.
Answered(c) ==
    /\ call[c].pc = "issued"
    /\ cookie' = call[c].next
    /\ sessions' = [sessions EXCEPT ![call[c].next].delivered = TRUE]
    /\ tab' = [tab EXCEPT ![call[c].tab] = [access |-> "valid", user |-> TRUE]]
    /\ Over(c)

Login(c, t) ==
    /\ ~tab[t].user
    /\ Start(c, t, "login", 0)
    /\ UNCHANGED <<sessions, cookie, tab>>

Logout(c, t) ==
    /\ tab[t].user
    /\ Start(c, t, "logout", cookie)
    /\ UNCHANGED <<sessions, cookie, tab>>

\* The answer clears the cookie; the tab forgets its user even when there is none.
LoggedOut(c) ==
    /\ call[c].pc = "revoked"
    /\ cookie' = 0
    /\ sessions' = [s \in DOMAIN sessions |->
         IF call[c].quiet /\ call[c].token # 0 /\ sessions[s].family = sessions[call[c].token].family
         THEN [sessions[s] EXCEPT !.out = TRUE] ELSE sessions[s]]
    /\ tab' = [tab EXCEPT ![call[c].tab] = [access |-> "none", user |-> FALSE]]
    /\ Over(c)

\* The connection breaks or the process stops: fetch() rejects.
Lost(c) ==
    /\ call[c].pc \notin {"idle", "unauthorized"}
    /\ tab' = IF call[c].pc \in {"logout", "revoked"}
              THEN [tab EXCEPT ![call[c].tab] = [access |-> "none", user |-> FALSE]] ELSE tab
    /\ Over(c)
    /\ UNCHANGED <<sessions, cookie>>

-----------------------------------------------------------------------------
\* The API.

Locked(s) == \E c \in Calls : call[c].pc = "locked" /\ call[c].token = s

\* Mutant: the row is read without a lock.
SelectMutant(c) ==
    /\ call[c].pc = "refresh"
    /\ call' = [call EXCEPT ![c].pc = IF Live(call[c].token) THEN "locked" ELSE "refused",
                            ![c].token = IF Live(@) THEN @ ELSE 0]
    /\ UNCHANGED <<sessions, cookie, tab>>

\* consumeSession(): SELECT ... FOR UPDATE finds the row, or nothing.
Select(c) ==
    /\ call[c].pc = "refresh" /\ ~Locked(call[c].token)
    /\ call' = [call EXCEPT ![c].pc = IF Live(call[c].token) THEN "locked" ELSE "refused",
                            ![c].token = IF Live(@) THEN @ ELSE 0]
    /\ UNCHANGED <<sessions, cookie, tab>>

Consume(c) ==
    /\ call[c].pc = "locked"
    /\ sessions' = [sessions EXCEPT ![call[c].token].ended = "refresh"]
    /\ Step(c, "consumed")
    /\ UNCHANGED <<cookie, tab>>

\* issue(), after the transaction or the password.
Issue(c) ==
    /\ call[c].pc \in {"consumed", "login"}
    /\ Len(sessions) < MaxSessions
    /\ LET new == Len(sessions) + 1
           from == call[c].token IN
       /\ sessions' = Append(sessions, Row(IF from = 0 THEN new ELSE sessions[from].family, from))
       /\ call' = [call EXCEPT ![c].pc = "issued", ![c].next = new, ![c].token = 0]
    /\ UNCHANGED <<cookie, tab>>

\* revokeSession()
Revoke(c) ==
    /\ call[c].pc = "logout" /\ ~Locked(call[c].token)
    /\ sessions' = IF Live(call[c].token)
                   THEN [sessions EXCEPT ![call[c].token].ended = "logout"] ELSE sessions
    /\ Step(c, "revoked")
    /\ UNCHANGED <<cookie, tab>>

\* Fifteen minutes and seven days.
ExpireAccess(t) ==
    /\ tab[t].access = "valid"
    /\ tab' = [tab EXCEPT ![t].access = "expired"]
    /\ UNCHANGED <<sessions, cookie, call>>

\* Whatever nobody holds is of no use to anybody.
ExpireSession(s) ==
    /\ Live(s) /\ s \in {cookie} \cup {call[c].token : c \in Calls}
    /\ sessions' = [sessions EXCEPT ![s].ended = "expired"]
    /\ UNCHANGED <<cookie, tab, call>>

Next ==
    \/ \E c \in Calls, t \in Tabs : Request(c, t) \/ Restore(c, t) \/ Login(c, t) \/ Logout(c, t)
    \/ \E c \in Calls : \/ SendRefresh(c) \/ Refused(c) \/ Answered(c) \/ LoggedOut(c) \/ Lost(c)
                        \/ Select(c) \/ Consume(c) \/ Issue(c) \/ Revoke(c)
    \/ \E t \in Tabs : ExpireAccess(t)
    \/ \E s \in DOMAIN sessions : ExpireSession(s)

Spec == Init /\ [][Next]_vars

-----------------------------------------------------------------------------
\* Properties.

Session == [family : Nat, from : Nat, ended : {"no", "refresh", "logout", "expired"},
            delivered : BOOLEAN, out : BOOLEAN]
Tab == [access : {"none", "valid", "expired"}, user : BOOLEAN]
Call == [pc : {"idle", "unauthorized", "refused", "refresh", "locked", "consumed", "issued",
               "login", "logout", "revoked"},
         tab : Tabs \cup {NoTab}, token : Nat, next : Nat, quiet : BOOLEAN]

TypeOK ==
    /\ sessions \in Seq(Session) /\ cookie \in 0 .. Len(sessions)
    /\ \A s \in DOMAIN sessions : sessions[s].from \in 0 .. s - 1 /\ sessions[s].family \in 1 .. s
    /\ tab \in [Tabs -> Tab] /\ call \in [Calls -> Call]
    /\ \A c \in Calls : call[c].token \in 0 .. Len(sessions) /\ call[c].next \in 0 .. Len(sessions)

\* A refresh token is exchanged at most once, however many requests carry it (consumeSession).
OneSuccessor == \A s, r \in DOMAIN sessions :
    sessions[s].from = sessions[r].from /\ sessions[s].from # 0 => s = r

\* A browser is only refused a token that it logged out, that expired, or whose exchange it has
\* not been told of: the exchange of another tab or request overlaps, or its answer was lost.
Unknown(s) == \A r \in DOMAIN sessions : sessions[r].from = s => ~sessions[r].delivered
RefusedForAReason == \A c \in Calls :
    call[c].pc = "unauthorized" /\ cookie # 0 /\ sessions[cookie].ended = "refresh"
        => Unknown(cookie)

\* After a logout that nothing overlapped no tab holds a session of that login again.
LogoutEnds == \A s \in DOMAIN sessions :
    sessions[s].out => cookie # s /\ (sessions[s].delivered => ~Live(s))

SessionsSound == OneSuccessor /\ RefusedForAReason /\ LogoutEnds
=============================================================================
