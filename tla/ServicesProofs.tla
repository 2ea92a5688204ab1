---------------------------- MODULE ServicesProofs ----------------------------
(***************************************************************************)
(* Refresh tokens, export interfaces, the admission of batches, the rate   *)
(* of repeated operations and those of quality, for any number of tabs,    *)
(* calls, batches, operations, processes and pages.  The invariants that   *)
(* carry the properties:                                                   *)
(*   Exchanges       a token is exchanged by one call at a time, and once; *)
(*   Told, Families  what the browser holds it was told of, and every      *)
(*                   session of a login but the last has a successor;      *)
(*   Quiet, Departed a logout that nothing overlaps revokes the session of *)
(*                   the cookie, and nothing of it is on its way;          *)
(*   LastIssued      of the credentials of an interface only the last one  *)
(*                   may be in use, and for its own scope;                 *)
(*   InWindow        what was authorized was counted;                      *)
(*   WellJudged,     what a batch is judged by, and what a process keeps a *)
(*   WellCopied      copy of, was in force late enough;                    *)
(*   Chain           the batches that wait in the chain of a process;      *)
(*   Handled, Dealt  every message behind the offset was dealt with at a   *)
(*                   time: its rows were there, what they show was written *)
(*                   then, and no message before it was left to do;        *)
(*   Founded         a witness is of three operations on one object within *)
(*                   a day, a receipt of a pass that had seen all before;  *)
(*   Census          the events that were made of errors and calls, and    *)
(*                   what each page counted of them;                       *)
(*   Carried         where these events are: stored or on their way, or    *)
(*                   what is left of their page knows that they are not.   *)
(***************************************************************************)
EXTENDS MCServices, TLAPS, SequenceTheorems, FiniteSetTheorems, WellFoundedInduction

-----------------------------------------------------------------------------
\* Sequences.

\* A function on 1 .. n is a sequence of n elements.
LEMMA MapSeq ==
    ASSUME NEW S, NEW n \in Nat, NEW f \in [1 .. n -> S]
    PROVE  f \in Seq(S) /\ Len(f) = n
OBVIOUS

\* What is appended comes last.
LEMMA Appended ==
    ASSUME NEW S, NEW s \in Seq(S), NEW e \in S, NEW new, new = Append(s, e)
    PROVE  /\ new \in Seq(S) /\ Len(new) = Len(s) + 1 /\ DOMAIN new = DOMAIN s \cup {Len(s) + 1}
           /\ new[Len(s) + 1] = e /\ \A i \in DOMAIN s : new[i] = s[i]
<1>1. new \in Seq(S) /\ Len(new) = Len(s) + 1 /\ Len(s) \in Nat /\ DOMAIN s = 1 .. Len(s)
    OBVIOUS
<1>2. DOMAIN new = 1 .. Len(s) + 1
    BY <1>1
<1>3. new[Len(s) + 1] = e
    BY <1>1
<1>4. \A i \in 1 .. Len(s) : new[i] = s[i]
    OBVIOUS
<1> QED BY <1>1, <1>2, <1>3, <1>4

\* Without its first element a sequence is one shorter.
LEMMA Shortened ==
    ASSUME NEW S, NEW s \in Seq(S), s # <<>>, NEW new, new = Tail(s)
    PROVE  /\ new \in Seq(S) /\ Len(s) > 0 /\ Len(new) = Len(s) - 1 /\ Head(s) = s[1]
           /\ \A i \in 1 .. Len(new) : new[i] = s[i + 1]
<1>1. new \in Seq(S) /\ Len(s) \in Nat /\ Len(s) > 0
    OBVIOUS
<1>2. Len(new) = Len(s) - 1
    BY <1>1
<1>3. Head(s) = s[1]
    BY <1>1
<1>4. \A i \in 1 .. Len(new) : new[i] = s[i + 1]
    BY <1>1, <1>2
<1> QED BY <1>1, <1>2, <1>3, <1>4

-----------------------------------------------------------------------------
\* Refresh tokens.

Exchanging(c) == call[c].pc \in {"locked", "consumed"}

\* A token is exchanged by one call at a time, and once.
Exchanges ==
    /\ \A c \in Consumers :
         /\ call[c].pc = "locked" => call[c].token # 0 /\ sessions[call[c].token].ended \in {"no", "expired"}
         /\ call[c].pc = "consumed" =>
              /\ call[c].token # 0 /\ sessions[call[c].token].ended = "refresh"
              /\ \A s \in DOMAIN sessions : sessions[s].from # call[c].token
         /\ call[c].pc = "login" => call[c].token = 0
    /\ \A c, d \in Consumers : c # d /\ Exchanging(c) /\ Exchanging(d) => call[c].token # call[d].token
    /\ \A s \in DOMAIN sessions : sessions[s].from # 0 => sessions[sessions[s].from].ended = "refresh"
    /\ Sessions!OneSuccessor

\* The browser holds, sends and exchanges what it was told of, and is told of a session once.
Told ==
    /\ cookie # 0 => sessions[cookie].delivered
    /\ \A c \in Consumers :
         /\ call[c].token # 0 => sessions[call[c].token].delivered
         /\ call[c].pc = "issued" => call[c].next # 0 /\ ~sessions[call[c].next].delivered
    /\ \A c, d \in Consumers : c # d /\ call[c].pc = "issued" /\ call[d].pc = "issued" => call[c].next # call[d].next
    /\ \A s \in DOMAIN sessions : sessions[s].from # 0 =>
         /\ sessions[sessions[s].from].delivered
         /\ sessions[s].delivered => cookie # sessions[s].from

\* The sessions of a login follow one another.
Families ==
    \A s, r \in DOMAIN sessions : s < r /\ sessions[s].family = sessions[r].family =>
        \E t \in DOMAIN sessions : t <= r /\ sessions[t].from = s /\ sessions[t].family = sessions[s].family

\* A logout that nothing overlaps revokes the cookie's session.
Quiet ==
    \A c \in Consumers :
      /\ call[c].quiet => call[c].pc # "idle" /\ \A d \in Consumers \ {c} : call[d].pc = "idle"
      /\ call[c].quiet /\ call[c].pc \in {"logout", "revoked"} => call[c].token = cookie
      /\ call[c].pc = "revoked" => ~Sessions!Live(call[c].token)

\* What was logged out is not on its way to the browser.
Departed ==
    \A s \in DOMAIN sessions : sessions[s].out =>
        /\ cookie # s /\ (sessions[s].delivered => ~Sessions!Live(s))
        /\ \A c \in Consumers : call[c].pc = "issued" => call[c].next # s

SessionInvariant == Sessions!TypeOK /\ Exchanges /\ Told /\ Families /\ Quiet /\ Departed

\* What the variables are, field by field.
LEMMA SessionFields ==
    ASSUME Sessions!TypeOK
    PROVE  /\ Len(sessions) \in Nat /\ DOMAIN sessions = 1 .. Len(sessions) /\ cookie \in 0 .. Len(sessions)
           /\ \A s \in DOMAIN sessions :
                /\ sessions[s] \in Sessions!Session /\ sessions[s].delivered \in BOOLEAN /\ sessions[s].out \in BOOLEAN
                /\ sessions[s].from \in 0 .. s - 1 /\ sessions[s].family \in 1 .. s
                /\ sessions[s].ended \in {"no", "refresh", "logout", "expired"}
           /\ \A c \in Consumers :
                /\ call[c] \in Sessions!Call /\ call[c].quiet \in BOOLEAN
                /\ call[c].token \in 0 .. Len(sessions) /\ call[c].next \in 0 .. Len(sessions)
<1>1. sessions \in Seq(Sessions!Session) /\ call \in [Consumers -> Sessions!Call]
    BY DEF Sessions!TypeOK
<1>2. Len(sessions) \in Nat /\ DOMAIN sessions = 1 .. Len(sessions)
    BY <1>1
<1>3. ASSUME NEW s \in DOMAIN sessions
      PROVE  /\ sessions[s] \in Sessions!Session /\ sessions[s].delivered \in BOOLEAN
             /\ sessions[s].out \in BOOLEAN
             /\ sessions[s].ended \in {"no", "refresh", "logout", "expired"}
    <2>1. sessions[s] \in Sessions!Session
        BY <1>1, <1>2
    <2> QED BY <2>1 DEF Sessions!Session
<1>4. ASSUME NEW c \in Consumers
      PROVE  call[c] \in Sessions!Call /\ call[c].quiet \in BOOLEAN
    BY <1>1 DEF Sessions!Call
<1>5. /\ cookie \in 0 .. Len(sessions)
      /\ \A s \in DOMAIN sessions : sessions[s].from \in 0 .. s - 1 /\ sessions[s].family \in 1 .. s
      /\ \A c \in Consumers : call[c].token \in 0 .. Len(sessions) /\ call[c].next \in 0 .. Len(sessions)
    BY DEF Sessions!TypeOK
<1> QED BY <1>2, <1>3, <1>4, <1>5

\* What begins is a call.
LEMMA BegunCall ==
    ASSUME NEW idle, NEW new, NEW t \in Tabs, NEW pc \in {"unauthorized", "login", "logout"},
           NEW token \in Nat, NEW quiet \in BOOLEAN, idle = Sessions!Idle,
           new = [idle EXCEPT !.pc = pc, !.tab = t, !.token = token, !.quiet = quiet]
    PROVE  new \in Sessions!Call
BY DEF Sessions!Idle, Sessions!Call

\* A call begins; what is under way is no longer alone.
LEMMA StartStarts ==
    ASSUME Sessions!TypeOK, NEW c \in Consumers, NEW t \in Tabs, NEW pc \in {"unauthorized", "login", "logout"},
           NEW token \in 0 .. Len(sessions), Sessions!Start(c, t, pc, token)
    PROVE  /\ call' \in [Consumers -> Sessions!Call]
           /\ call[c].pc = "idle"
           /\ call'[c].pc = pc /\ call'[c].token = token /\ call'[c].next = 0
           /\ call'[c].quiet => \A d \in Consumers : call[d].pc = "idle"
           /\ \A d \in Consumers \ {c} :
                /\ call'[d].pc = call[d].pc /\ call'[d].token = call[d].token /\ call'[d].next = call[d].next
                /\ call'[d].quiet => call[d].quiet /\ call[d].pc = "idle"
<1> DEFINE shared == Sessions!Shared({})
           alone == \A d \in Consumers : call[d].pc = "idle"
<1>0. alone \in BOOLEAN
    OBVIOUS
<1>1. PICK idle, new :
        /\ idle = Sessions!Idle
        /\ new = [idle EXCEPT !.pc = pc, !.tab = t, !.token = token, !.quiet = alone]
        /\ call' = [shared EXCEPT ![c] = new] /\ call[c].pc = "idle"
    BY Zenon DEF Sessions!Start
<1> HIDE DEF alone
<1>2. new.pc = pc /\ new.token = token /\ new.next = 0 /\ (new.quiet => alone)
    BY <1>0, <1>1 DEF Sessions!Idle
<1>3. new \in Sessions!Call
    <2>1. token \in Nat
        BY SessionFields
    <2> QED BY <1>0, <1>1, <2>1, BegunCall
<1>4. \A d \in Consumers : call[d] \in Sessions!Call
    BY DEF Sessions!TypeOK
<1>5. \A d \in Consumers :
        shared[d] = IF call[d].pc # "idle" THEN [call[d] EXCEPT !.quiet = FALSE] ELSE call[d]
    BY DEF Sessions!Shared
<1>6. \A d \in Consumers : /\ shared[d] \in Sessions!Call
                           /\ shared[d].pc = call[d].pc /\ shared[d].token = call[d].token
                           /\ shared[d].next = call[d].next
                           /\ shared[d].quiet => call[d].quiet /\ call[d].pc = "idle"
    BY <1>4, <1>5, ZenonT(30) DEF Sessions!Call
<1>7. shared \in [Consumers -> Sessions!Call]
    BY <1>6 DEF Sessions!Shared
<1> HIDE DEF shared
<1>8. /\ call' \in [Consumers -> Sessions!Call] /\ call'[c] = new
      /\ \A d \in Consumers \ {c} : call'[d] = shared[d]
    BY <1>1, <1>3, <1>7
<1>9. call'[c].quiet => \A d \in Consumers : call[d].pc = "idle"
    BY <1>2, <1>8 DEF alone
<1> QED BY <1>1, <1>2, <1>6, <1>8, <1>9

\* A call begins: nobody is told of anything, and whoever was alone no longer is.
LEMMA StartKeeps ==
    ASSUME SessionInvariant, NEW c \in Consumers, NEW t \in Tabs, NEW pc \in {"unauthorized", "login", "logout"},
           NEW token, IF pc = "logout" THEN token = cookie ELSE token = 0,
           Sessions!Start(c, t, pc, token), UNCHANGED <<sessions, cookie, tab>>
    PROVE  SessionInvariant'
<1>1. Sessions!TypeOK /\ token \in 0 .. Len(sessions)
    BY SessionFields DEF SessionInvariant
<1>2. /\ call' \in [Consumers -> Sessions!Call]
      /\ call[c].pc = "idle"
      /\ call'[c].pc = pc /\ call'[c].token = token /\ call'[c].next = 0
      /\ call'[c].quiet => \A d \in Consumers : call[d].pc = "idle"
      /\ \A d \in Consumers \ {c} :
           /\ call'[d].pc = call[d].pc /\ call'[d].token = call[d].token /\ call'[d].next = call[d].next
           /\ call'[d].quiet => call[d].quiet /\ call[d].pc = "idle"
    BY <1>1, StartStarts
<1>f. \A d \in Consumers : call[d].token \in 0 .. Len(sessions) /\ call[d].next \in 0 .. Len(sessions)
    BY <1>1, SessionFields
<1>a. \A d \in Consumers : call'[d].token \in 0 .. Len(sessions) /\ call'[d].next \in 0 .. Len(sessions)
    <2> TAKE d \in Consumers
    <2>1. CASE d = c
        BY <2>1, <1>1, <1>2, SessionFields
    <2>2. CASE d # c
        BY <2>2, <1>2, <1>f
    <2> QED BY <2>1, <2>2
<1>3. Sessions!TypeOK'
    BY <1>1, <1>2, <1>a DEF Sessions!TypeOK
<1>4. Exchanges'
    BY <1>1, <1>2, SessionFields, SMTT(30) DEF SessionInvariant, Exchanges, Exchanging, Sessions!OneSuccessor
<1>5. Told'
    <2>1. Told /\ pc # "issued"
        BY DEF SessionInvariant
    <2>2. token # 0 => sessions[token].delivered
        BY <2>1 DEF Told
    <2>3. (cookie # 0 => sessions[cookie].delivered)'
        BY <2>1 DEF Told
    <2>4. (\A d \in Consumers : call[d].token # 0 => sessions[call[d].token].delivered)'
        BY <1>2, <2>1, <2>2 DEF Told
    <2>5. (\A d \in Consumers : call[d].pc = "issued" => call[d].next # 0 /\ ~sessions[call[d].next].delivered)'
        BY <1>2, <2>1, <2>2 DEF Told
    <2>6. (\A d, e \in Consumers :
             d # e /\ call[d].pc = "issued" /\ call[e].pc = "issued" => call[d].next # call[e].next)'
        BY <1>2, <2>1 DEF Told
    <2>7. (\A s \in DOMAIN sessions : sessions[s].from # 0 =>
             /\ sessions[sessions[s].from].delivered
             /\ sessions[s].delivered => cookie # sessions[s].from)'
        BY <2>1 DEF Told
    <2> QED BY <2>3, <2>4, <2>5, <2>6, <2>7 DEF Told
<1>6. Families'
    BY DEF SessionInvariant, Families
<1>7. Quiet'
    BY <1>1, <1>2, SessionFields DEF SessionInvariant, Quiet, Sessions!Live
<1>8. Departed'
    BY <1>1, <1>2, SessionFields, SMTT(30) DEF SessionInvariant, Departed, Sessions!Live
<1> QED BY <1>3, <1>4, <1>5, <1>6, <1>7, <1>8 DEF SessionInvariant

\* One call changes.
LEMMA OneCallChanges ==
    ASSUME Sessions!TypeOK, NEW c \in Consumers, NEW n \in Sessions!Call, call' = [call EXCEPT ![c] = n]
    PROVE  /\ call' \in [Consumers -> Sessions!Call] /\ call'[c] = n
           /\ \A d \in Consumers \ {c} : call'[d] = call[d]
BY DEF Sessions!TypeOK

\* A call goes on without a write, and takes the lock of a row only if it is live and nobody has it.
LEMMA CallKeeps ==
    ASSUME SessionInvariant, NEW c \in Consumers, NEW n \in Sessions!Call, call' = [call EXCEPT ![c] = n],
           UNCHANGED <<sessions, cookie>>, tab' \in [Tabs -> Sessions!Tab],
           n.token \in {0, cookie, call[c].token}, n.next \in {0, call[c].next},
           n.pc \notin {"consumed", "issued", "login", "logout", "revoked"},
           n.pc = "locked" => Sessions!Live(n.token) /\ ~Sessions!Locked(n.token),
           call[c].pc # "idle", n.quiet => call[c].quiet /\ n.pc # "idle"
    PROVE  SessionInvariant'
<1>1. Sessions!TypeOK
    BY DEF SessionInvariant
<1>2. /\ call' \in [Consumers -> Sessions!Call] /\ call'[c] = n
      /\ \A d \in Consumers \ {c} : call'[d] = call[d]
    BY <1>1, OneCallChanges
<1>3. Sessions!TypeOK'
    <2>1. \A d \in Consumers : call'[d].token \in 0 .. Len(sessions) /\ call'[d].next \in 0 .. Len(sessions)
        BY <1>1, <1>2, SessionFields
    <2> QED BY <1>1, <1>2, <2>1 DEF Sessions!TypeOK
<1>4. Exchanges'
    <2>1. Exchanges
        BY DEF SessionInvariant
    <2>2. \A d \in Consumers \ {c} : n.pc = "locked" /\ Exchanging(d) => call[d].token # n.token
        BY <2>1 DEF Exchanges, Exchanging, Sessions!Live, Sessions!Locked
    <2>3. n.pc = "locked" => n.token # 0 /\ sessions[n.token].ended = "no"
        BY DEF Sessions!Live
    <2>4. (\A d \in Consumers :
             /\ call[d].pc = "locked" => call[d].token # 0 /\ sessions[call[d].token].ended \in {"no", "expired"}
             /\ call[d].pc = "consumed" =>
                  /\ call[d].token # 0 /\ sessions[call[d].token].ended = "refresh"
                  /\ \A s \in DOMAIN sessions : sessions[s].from # call[d].token
             /\ call[d].pc = "login" => call[d].token = 0)'
        BY <1>2, <2>1, <2>3 DEF Exchanges
    <2>5. (\A d, e \in Consumers : d # e /\ Exchanging(d) /\ Exchanging(e) => call[d].token # call[e].token)'
        BY <1>2, <2>1, <2>2 DEF Exchanges, Exchanging
    <2> QED BY <2>1, <2>4, <2>5 DEF Exchanges, Sessions!OneSuccessor
<1>5. Told'
    <2>1. Told
        BY DEF SessionInvariant
    <2>2. n.token # 0 => sessions[n.token].delivered
        BY <2>1 DEF Told
    <2> QED BY <1>2, <2>1, <2>2 DEF Told
<1>6. Families'
    BY DEF SessionInvariant, Families
<1>7. Quiet'
    BY <1>2 DEF SessionInvariant, Quiet, Sessions!Live
<1>8. Departed'
    BY <1>2 DEF SessionInvariant, Departed, Sessions!Live
<1> QED BY <1>3, <1>4, <1>5, <1>6, <1>7, <1>8 DEF SessionInvariant

\* The end of a session changes nothing else.
LEMMA EndEnds ==
    ASSUME Sessions!TypeOK, NEW t \in DOMAIN sessions, NEW e \in {"refresh", "logout", "expired"},
           sessions' = [sessions EXCEPT ![t].ended = e]
    PROVE  /\ sessions' \in Seq(Sessions!Session) /\ Len(sessions') = Len(sessions)
           /\ DOMAIN sessions' = DOMAIN sessions /\ sessions'[t].ended = e
           /\ \A s \in DOMAIN sessions :
                /\ sessions'[s].from = sessions[s].from /\ sessions'[s].family = sessions[s].family
                /\ sessions'[s].delivered = sessions[s].delivered /\ sessions'[s].out = sessions[s].out
                /\ s # t => sessions'[s].ended = sessions[s].ended
<1>1. PICK row : row = [sessions[t] EXCEPT !.ended = e] /\ sessions' = [sessions EXCEPT ![t] = row]
    OBVIOUS
<1>2. sessions[t] \in Sessions!Session /\ t \in 1 .. Len(sessions) /\ sessions \in Seq(Sessions!Session)
    BY SessionFields DEF Sessions!TypeOK
<1>3. /\ row \in Sessions!Session /\ row.ended = e
      /\ row.from = sessions[t].from /\ row.family = sessions[t].family
      /\ row.delivered = sessions[t].delivered /\ row.out = sessions[t].out
    BY <1>1, <1>2 DEF Sessions!Session
<1>4. /\ sessions' \in Seq(Sessions!Session) /\ Len(sessions') = Len(sessions)
      /\ \A s \in 1 .. Len(sessions) : sessions'[s] = IF s = t THEN row ELSE sessions[s]
    BY <1>1, <1>2, <1>3, ExceptSeq
<1> QED BY <1>2, <1>3, <1>4, SessionFields

\* A session expires.
LEMMA ExpireKeeps ==
    ASSUME SessionInvariant, NEW t \in DOMAIN sessions, Sessions!ExpireSession(t)
    PROVE  SessionInvariant'
<1>1. Sessions!TypeOK
    BY DEF SessionInvariant
<1>2. sessions' = [sessions EXCEPT ![t].ended = "expired"] /\ sessions[t].ended = "no"
    BY DEF Sessions!ExpireSession, Sessions!Live
<1>u. UNCHANGED <<cookie, tab, call>>
    BY DEF Sessions!ExpireSession
<1>3. /\ sessions' \in Seq(Sessions!Session) /\ Len(sessions') = Len(sessions)
      /\ DOMAIN sessions' = DOMAIN sessions /\ sessions'[t].ended = "expired"
      /\ \A s \in DOMAIN sessions :
           /\ sessions'[s].from = sessions[s].from /\ sessions'[s].family = sessions[s].family
           /\ sessions'[s].delivered = sessions[s].delivered /\ sessions'[s].out = sessions[s].out
           /\ s # t => sessions'[s].ended = sessions[s].ended
    BY <1>1, <1>2, EndEnds
<1>4. Sessions!TypeOK'
    BY <1>1, <1>3, <1>u, SessionFields DEF Sessions!TypeOK
<1>5. Exchanges'
    BY <1>1, <1>2, <1>3, <1>u, SessionFields DEF SessionInvariant, Exchanges, Exchanging, Sessions!OneSuccessor
<1>6. Told'
    <2>1. Told
        BY DEF SessionInvariant
    <2>2. (cookie # 0 => sessions[cookie].delivered)'
        BY <2>1, <1>1, <1>3, <1>u, SessionFields DEF Told
    <2>3. (\A d \in Consumers :
             /\ call[d].token # 0 => sessions[call[d].token].delivered
             /\ call[d].pc = "issued" => call[d].next # 0 /\ ~sessions[call[d].next].delivered)'
        <3> SUFFICES ASSUME NEW d \in Consumers
                     PROVE  (/\ call[d].token # 0 => sessions[call[d].token].delivered
                             /\ call[d].pc = "issued" => call[d].next # 0 /\ ~sessions[call[d].next].delivered)'
            OBVIOUS
        <3>1. /\ call[d].token # 0 => call[d].token \in DOMAIN sessions
              /\ call[d].next # 0 => call[d].next \in DOMAIN sessions
            BY <1>1, SessionFields
        <3>2. /\ call[d].token # 0 => sessions[call[d].token].delivered
              /\ call[d].pc = "issued" => call[d].next # 0 /\ ~sessions[call[d].next].delivered
            BY <2>1 DEF Told
        <3> QED BY <3>1, <3>2, <1>3, <1>u
    <2>4. (\A d, g \in Consumers :
             d # g /\ call[d].pc = "issued" /\ call[g].pc = "issued" => call[d].next # call[g].next)'
        BY <2>1, <1>u DEF Told
    <2>5. (\A s \in DOMAIN sessions : sessions[s].from # 0 =>
             /\ sessions[sessions[s].from].delivered
             /\ sessions[s].delivered => cookie # sessions[s].from)'
        BY <2>1, <1>1, <1>3, <1>u, SessionFields DEF Told
    <2> QED BY <2>2, <2>3, <2>4, <2>5 DEF Told
<1>7. Families'
    BY <1>3 DEF SessionInvariant, Families
<1>8. Quiet'
    <2>1. Quiet
        BY DEF SessionInvariant
    <2>2. \A s \in DOMAIN sessions : sessions[s].ended # "no" => sessions'[s].ended # "no"
        BY <1>3
    <2> QED BY <2>1, <2>2, <1>1, <1>3, <1>u, SessionFields DEF Quiet, Sessions!Live
<1>9. Departed'
    BY <1>1, <1>3, <1>u, SessionFields DEF SessionInvariant, Departed, Sessions!Live
<1> QED BY <1>4, <1>5, <1>6, <1>7, <1>8, <1>9 DEF SessionInvariant

\* consumeSession() and revokeSession() end the session whose token the call carries.
LEMMA EndKeeps ==
    ASSUME SessionInvariant, NEW c \in Consumers, Sessions!Consume(c) \/ (Sessions!Revoke(c) /\ Sessions!Live(call[c].token))
    PROVE  SessionInvariant'
<1> DEFINE t == call[c].token
<1>1. Sessions!TypeOK
    BY DEF SessionInvariant
<1>f. t \in DOMAIN sessions /\ call[c].pc \in {"locked", "logout"}
    BY <1>1, SessionFields DEF SessionInvariant, Exchanges, Sessions!Consume, Sessions!Revoke, Sessions!Live
<1>2. PICK e \in {"refresh", "logout"} :
        /\ sessions' = [sessions EXCEPT ![t].ended = e] /\ UNCHANGED <<cookie, tab>>
        /\ call' = [call EXCEPT ![c] = [call[c] EXCEPT !.pc = IF e = "refresh" THEN "consumed" ELSE "revoked"]]
        /\ call[c].pc = IF e = "refresh" THEN "locked" ELSE "logout"
        /\ e = "logout" => Sessions!Live(t) /\ ~Sessions!Locked(t)
    <2>1. CASE Sessions!Consume(c)
        BY <2>1 DEF Sessions!Consume, Sessions!Step
    <2>2. CASE Sessions!Revoke(c) /\ Sessions!Live(t)
        BY <2>2 DEF Sessions!Revoke, Sessions!Step
    <2> QED BY <2>1, <2>2
<1>n. PICK n : /\ n = [call[c] EXCEPT !.pc = IF e = "refresh" THEN "consumed" ELSE "revoked"]
               /\ call' = [call EXCEPT ![c] = n]
    BY <1>2
<1> HIDE DEF t
<1>3. /\ sessions' \in Seq(Sessions!Session) /\ Len(sessions') = Len(sessions)
      /\ DOMAIN sessions' = DOMAIN sessions /\ sessions'[t].ended = e
      /\ \A s \in DOMAIN sessions :
           /\ sessions'[s].from = sessions[s].from /\ sessions'[s].family = sessions[s].family
           /\ sessions'[s].delivered = sessions[s].delivered /\ sessions'[s].out = sessions[s].out
           /\ s # t => sessions'[s].ended = sessions[s].ended
    BY <1>1, <1>2, <1>f, EndEnds
<1>4. /\ n \in Sessions!Call /\ n.token = t /\ n.next = call[c].next /\ n.quiet = call[c].quiet
      /\ n.pc = IF e = "refresh" THEN "consumed" ELSE "revoked"
    BY <1>1, <1>n, SessionFields DEF Sessions!Call, t
<1>5. /\ call' \in [Consumers -> Sessions!Call] /\ call'[c] = n
      /\ \A d \in Consumers \ {c} : call'[d] = call[d]
    BY <1>1, <1>n, <1>4, OneCallChanges
<1>g. t = call[c].token
    BY DEF t
<1>6. Sessions!TypeOK'
    <2>1. \A d \in Consumers : call'[d].token \in 0 .. Len(sessions) /\ call'[d].next \in 0 .. Len(sessions)
        BY <1>1, <1>4, <1>5, <1>g, SessionFields
    <2> QED BY <1>1, <1>2, <1>3, <1>5, <2>1, SessionFields DEF Sessions!TypeOK
<1>7. Exchanges'
    <2>1. Exchanges
        BY DEF SessionInvariant
    <2>2. sessions[t].ended # "refresh"
        BY <2>1, <1>2, <1>g DEF Exchanges, Sessions!Live
    <2>3. \A s \in DOMAIN sessions : sessions[s].from # t
        BY <2>1, <2>2, <1>1, <1>f, SessionFields DEF Exchanges
    <2>4. \A d \in Consumers \ {c} : Exchanging(d) => call[d].token # t
        <3>1. CASE e = "refresh"
            BY <3>1, <2>1, <1>2, <1>g DEF Exchanges, Exchanging
        <3>2. CASE e = "logout"
            BY <3>2, <2>1, <2>2, <1>2 DEF Exchanges, Exchanging, Sessions!Locked
        <3> QED BY <3>1, <3>2
    <2>5. (\A d \in Consumers :
             /\ call[d].pc = "locked" => call[d].token # 0 /\ sessions[call[d].token].ended \in {"no", "expired"}
             /\ call[d].pc = "consumed" =>
                  /\ call[d].token # 0 /\ sessions[call[d].token].ended = "refresh"
                  /\ \A s \in DOMAIN sessions : sessions[s].from # call[d].token
             /\ call[d].pc = "login" => call[d].token = 0)'
        <3>1. ASSUME NEW d \in Consumers \ {c}, Exchanging(d)
              PROVE  call[d].token \in DOMAIN sessions /\ call[d].token # t
            BY <3>1, <2>1, <2>4, <1>1, SessionFields DEF Exchanges, Exchanging
        <3>2. t # 0 /\ t \in DOMAIN sessions
            BY <1>f, <1>1, SessionFields
        <3>3. ASSUME NEW d \in Consumers \ {c}
              PROVE  (/\ call[d].pc = "locked" => call[d].token # 0 /\ sessions[call[d].token].ended \in {"no", "expired"}
                      /\ call[d].pc = "consumed" =>
                           /\ call[d].token # 0 /\ sessions[call[d].token].ended = "refresh"
                           /\ \A s \in DOMAIN sessions : sessions[s].from # call[d].token
                      /\ call[d].pc = "login" => call[d].token = 0)'
            BY <3>1, <2>1, <1>3, <1>5 DEF Exchanges, Exchanging
        <3>4. (/\ call[c].pc = "locked" => call[c].token # 0 /\ sessions[call[c].token].ended \in {"no", "expired"}
               /\ call[c].pc = "consumed" =>
                    /\ call[c].token # 0 /\ sessions[call[c].token].ended = "refresh"
                    /\ \A s \in DOMAIN sessions : sessions[s].from # call[c].token
               /\ call[c].pc = "login" => call[c].token = 0)'
            <4>1. CASE e = "refresh"
                <5>1. call'[c].pc = "consumed" /\ call'[c].token = t /\ sessions'[t].ended = "refresh"
                    BY <4>1, <1>3, <1>4, <1>5
                <5>2. \A s \in DOMAIN sessions' : sessions'[s].from # t
                    BY <2>3, <1>3
                <5> QED BY <5>1, <5>2, <3>2
            <4>2. CASE e = "logout"
                BY <4>2, <1>4, <1>5
            <4> QED BY <4>1, <4>2
        <3> QED BY <3>3, <3>4
    <2>6. (\A d, g \in Consumers : d # g /\ Exchanging(d) /\ Exchanging(g) => call[d].token # call[g].token)'
        BY <2>1, <2>4, <1>4, <1>5, <1>g DEF Exchanges, Exchanging
    <2>7. (\A s \in DOMAIN sessions : sessions[s].from # 0 => sessions[sessions[s].from].ended = "refresh")'
        BY <2>1, <2>3, <1>1, <1>3, SessionFields, SMTT(30) DEF Exchanges
    <2>8. Sessions!OneSuccessor'
        BY <2>1, <1>3 DEF Exchanges, Sessions!OneSuccessor
    <2> QED BY <2>5, <2>6, <2>7, <2>8 DEF Exchanges
<1>8. Told'
    <2>1. Told /\ n.pc # "issued"
        BY <1>4 DEF SessionInvariant
    <2> QED BY <2>1, <1>1, <1>2, <1>3, <1>4, <1>5, <1>g, SessionFields DEF Told
<1>9. Families'
    BY <1>3, SMTT(30) DEF SessionInvariant, Families
<1>10. Quiet'
    <2>1. Quiet
        BY DEF SessionInvariant
    <2>2. \A s \in DOMAIN sessions : sessions[s].ended # "no" => sessions'[s].ended # "no"
        BY <1>2, <1>3
    <2> QED BY <2>1, <2>2, <1>1, <1>2, <1>3, <1>4, <1>5, <1>f, <1>g, SessionFields DEF Quiet, Sessions!Live
<1>11. Departed'
    <2>1. Departed
        BY DEF SessionInvariant
    <2>2. \A s \in DOMAIN sessions : sessions[s].ended # "no" => sessions'[s].ended # "no"
        BY <1>2, <1>3
    <2> QED BY <2>1, <2>2, <1>1, <1>2, <1>3, <1>4, <1>5, SessionFields DEF Departed, Sessions!Live
<1> QED BY <1>6, <1>7, <1>8, <1>9, <1>10, <1>11 DEF SessionInvariant

\* issue() adds a session that nobody has been told of.
LEMMA IssueKeeps ==
    ASSUME SessionInvariant, NEW c \in Consumers, Sessions!Issue(c)
    PROVE  SessionInvariant'
<1> DEFINE new == Len(sessions) + 1
           from == call[c].token
<1>1. Sessions!TypeOK
    BY DEF SessionInvariant
<1>2. PICK row, n :
        /\ row = Sessions!Row(IF from = 0 THEN new ELSE sessions[from].family, from)
        /\ sessions' = Append(sessions, row)
        /\ n = [call[c] EXCEPT !.pc = "issued", !.next = new, !.token = 0]
        /\ call' = [call EXCEPT ![c] = n] /\ UNCHANGED <<cookie, tab>>
        /\ call[c].pc \in {"consumed", "login"}
    BY Zenon DEF Sessions!Issue
<1>3. /\ from \in 0 .. Len(sessions) /\ new \in Nat /\ new \notin DOMAIN sessions /\ new > Len(sessions)
      /\ call[c].pc = "consumed" <=> from # 0
      /\ from # 0 => /\ from \in DOMAIN sessions /\ sessions[from].delivered /\ sessions[from].ended = "refresh"
                     /\ \A s \in DOMAIN sessions : sessions[s].from # from
    BY <1>1, <1>2, SessionFields DEF SessionInvariant, Exchanges, Told
<1> HIDE DEF from, new
<1>4. /\ row \in Sessions!Session /\ row.from = from /\ ~row.delivered /\ ~row.out /\ row.ended = "no"
      /\ row.family = IF from = 0 THEN new ELSE sessions[from].family
      /\ row.family \in 1 .. new
    <2>1. PICK f \in Nat : f = IF from = 0 THEN new ELSE sessions[from].family
        BY <1>1, <1>3, SessionFields
    <2>2. f \in 1 .. new
        BY <2>1, <1>1, <1>3, SessionFields DEF new
    <2> QED BY <1>2, <1>3, <2>1, <2>2 DEF Sessions!Row, Sessions!Session
<1>5. /\ sessions' \in Seq(Sessions!Session) /\ Len(sessions') = new /\ DOMAIN sessions' = 1 .. new
      /\ sessions'[new] = row /\ \A s \in DOMAIN sessions : sessions'[s] = sessions[s]
      /\ DOMAIN sessions' = DOMAIN sessions \cup {new}
    BY <1>1, <1>2, <1>4, SessionFields DEF Sessions!TypeOK, new
<1>6. n \in Sessions!Call /\ n.pc = "issued" /\ n.next = new /\ n.token = 0 /\ n.quiet = call[c].quiet
    BY <1>1, <1>2, <1>3, SessionFields DEF Sessions!Call
<1>7. /\ call' \in [Consumers -> Sessions!Call] /\ call'[c] = n
      /\ \A d \in Consumers \ {c} : call'[d] = call[d]
    BY <1>1, <1>2, <1>6, OneCallChanges
<1>8. Sessions!TypeOK'
    <2>1. \A d \in Consumers : call'[d].token \in 0 .. new /\ call'[d].next \in 0 .. new
        BY <1>1, <1>3, <1>6, <1>7, SessionFields DEF new
    <2>2. \A s \in DOMAIN sessions' : sessions'[s].from \in 0 .. s - 1 /\ sessions'[s].family \in 1 .. s
        BY <1>1, <1>3, <1>4, <1>5, SessionFields DEF new
    <2>3. cookie' \in 0 .. new
        BY <1>1, <1>2, <1>3, SessionFields DEF new
    <2> QED BY <1>1, <1>2, <1>5, <1>7, <2>1, <2>2, <2>3 DEF Sessions!TypeOK
<1>9. Exchanges'
    <2>1. Exchanges
        BY DEF SessionInvariant
    <2>2. \A d \in Consumers \ {c} : Exchanging(d) =>
            call[d].token \in DOMAIN sessions /\ (from # 0 => call[d].token # from)
        BY <2>1, <1>1, <1>2, <1>3, SessionFields DEF Exchanges, Exchanging, from
    <2>3. (\A d \in Consumers :
             /\ call[d].pc = "locked" => call[d].token # 0 /\ sessions[call[d].token].ended \in {"no", "expired"}
             /\ call[d].pc = "consumed" =>
                  /\ call[d].token # 0 /\ sessions[call[d].token].ended = "refresh"
                  /\ \A s \in DOMAIN sessions : sessions[s].from # call[d].token
             /\ call[d].pc = "login" => call[d].token = 0)'
        <3> SUFFICES ASSUME NEW d \in Consumers \ {c}
                     PROVE  (/\ call[d].pc = "locked" => call[d].token # 0 /\ sessions[call[d].token].ended \in {"no", "expired"}
                             /\ call[d].pc = "consumed" =>
                                  /\ call[d].token # 0 /\ sessions[call[d].token].ended = "refresh"
                                  /\ \A s \in DOMAIN sessions : sessions[s].from # call[d].token
                             /\ call[d].pc = "login" => call[d].token = 0)'
            BY <1>6, <1>7
        <3>1. ASSUME call[d].pc = "consumed", NEW s \in DOMAIN sessions'
              PROVE  sessions'[s].from # call[d].token
            <4>1. CASE s = new
                BY <3>1, <4>1, <2>1, <2>2, <1>4, <1>5 DEF Exchanges, Exchanging
            <4>2. CASE s # new
                BY <3>1, <4>2, <2>1, <1>5 DEF Exchanges
            <4> QED BY <4>1, <4>2
        <3>2. Exchanging(d) => sessions'[call[d].token] = sessions[call[d].token]
            BY <2>2, <1>5
        <3> QED BY <2>1, <3>1, <3>2, <1>7 DEF Exchanges, Exchanging
    <2>4. (\A d, g \in Consumers : d # g /\ Exchanging(d) /\ Exchanging(g) => call[d].token # call[g].token)'
        BY <2>1, <1>6, <1>7 DEF Exchanges, Exchanging
    <2>5. (\A s \in DOMAIN sessions : sessions[s].from # 0 => sessions[sessions[s].from].ended = "refresh")'
        <3>1. ASSUME NEW s \in DOMAIN sessions, sessions[s].from # 0
              PROVE  sessions[s].from \in DOMAIN sessions /\ sessions[sessions[s].from].ended = "refresh"
            BY <3>1, <2>1, <1>1, SessionFields DEF Exchanges
        <3>2. ASSUME NEW s \in DOMAIN sessions', sessions'[s].from # 0
              PROVE  sessions'[sessions'[s].from].ended = "refresh"
            <4>1. CASE s = new
                BY <4>1, <3>2, <1>3, <1>4, <1>5
            <4>2. CASE s # new
                BY <4>2, <3>2, <3>1, <1>5
            <4> QED BY <4>1, <4>2
        <3> QED BY <3>2
    <2>6. Sessions!OneSuccessor'
        <3>1. \A s \in DOMAIN sessions : sessions[s].from = from => from = 0
            BY <1>3
        <3>2. Sessions!OneSuccessor
            BY <2>1 DEF Exchanges
        <3> QED BY <3>1, <3>2, <1>4, <1>5 DEF Sessions!OneSuccessor
    <2> QED BY <2>3, <2>4, <2>5, <2>6 DEF Exchanges
<1>10. Told'
    <2>1. Told
        BY DEF SessionInvariant
    <2>2. (cookie # 0 => sessions[cookie].delivered)'
        BY <2>1, <1>1, <1>2, <1>5, SessionFields DEF Told
    <2>3. (\A d \in Consumers :
             /\ call[d].token # 0 => sessions[call[d].token].delivered
             /\ call[d].pc = "issued" => call[d].next # 0 /\ ~sessions[call[d].next].delivered)'
        BY <2>1, <1>1, <1>3, <1>4, <1>5, <1>6, <1>7, SessionFields DEF Told, new
    <2>4. (\A d, g \in Consumers :
             d # g /\ call[d].pc = "issued" /\ call[g].pc = "issued" => call[d].next # call[g].next)'
        BY <2>1, <1>1, <1>3, <1>6, <1>7, SessionFields DEF Told
    <2>5. (\A s \in DOMAIN sessions : sessions[s].from # 0 =>
             /\ sessions[sessions[s].from].delivered
             /\ sessions[s].delivered => cookie # sessions[s].from)'
        BY <2>1, <1>1, <1>2, <1>3, <1>4, <1>5, SessionFields DEF Told
    <2> QED BY <2>2, <2>3, <2>4, <2>5 DEF Told
<1>11. Families'
    <2>1. Families
        BY DEF SessionInvariant
    <2> SUFFICES ASSUME NEW s \in DOMAIN sessions', NEW r \in DOMAIN sessions', s < r,
                        sessions'[s].family = sessions'[r].family
                 PROVE  \E t \in DOMAIN sessions' :
                          t <= r /\ sessions'[t].from = s /\ sessions'[t].family = sessions'[s].family
        BY DEF Families
    <2>2. CASE r # new
        <3>1. s \in DOMAIN sessions /\ r \in DOMAIN sessions
            BY <2>2, <1>3, <1>5, SessionFields, <1>1 DEF new
        <3>2. PICK t \in DOMAIN sessions : t <= r /\ sessions[t].from = s /\ sessions[t].family = sessions[s].family
            BY <2>1, <3>1, <1>5 DEF Families
        <3> QED BY <3>1, <3>2, <1>5
    <2>3. CASE r = new
        <3>1. s \in DOMAIN sessions /\ sessions[s].family \in 1 .. s
            BY <2>3, <1>1, <1>3, <1>5, SessionFields DEF new
        <3>2. from # 0 /\ from \in DOMAIN sessions /\ sessions[s].family = sessions[from].family
            BY <2>3, <3>1, <1>1, <1>3, <1>4, <1>5, SessionFields DEF new
        <3>3. CASE s = from
            BY <3>3, <2>3, <1>3, <1>4, <1>5, <3>2
        <3>4. CASE s < from
            <4>1. PICK t \in DOMAIN sessions :
                    t <= from /\ sessions[t].from = s /\ sessions[t].family = sessions[s].family
                BY <2>1, <3>1, <3>2, <3>4 DEF Families
            <4>2. t <= new
                BY <4>1, <1>1, <1>3, SessionFields DEF new
            <4> QED BY <4>1, <4>2, <2>3, <3>1, <1>5
        <3>5. CASE s > from
            BY <2>1, <3>1, <3>2, <3>5, <1>3 DEF Families
        <3> QED BY <3>1, <3>2, <3>3, <3>4, <3>5, <1>1, SessionFields
    <2> QED BY <2>2, <2>3
<1>12. Quiet'
    BY <1>1, <1>2, <1>5, <1>6, <1>7, SessionFields DEF SessionInvariant, Quiet, Sessions!Live
<1>13. Departed'
    <2>1. Departed
        BY DEF SessionInvariant
    <2> QED BY <2>1, <1>1, <1>2, <1>3, <1>4, <1>5, <1>6, <1>7, SessionFields DEF Departed, Sessions!Live
<1> QED BY <1>8, <1>9, <1>10, <1>11, <1>12, <1>13 DEF SessionInvariant

\* The answer of a refresh or a login reaches the browser.
LEMMA AnswerKeeps ==
    ASSUME SessionInvariant, NEW c \in Consumers, Sessions!Answered(c)
    PROVE  SessionInvariant'
<1> DEFINE new == call[c].next
<1>1. Sessions!TypeOK
    BY DEF SessionInvariant
<1>2. /\ call[c].pc = "issued" /\ new \in DOMAIN sessions /\ ~sessions[new].delivered
      /\ cookie' = new /\ call' = [call EXCEPT ![c] = Sessions!Idle]
    BY <1>1, SessionFields DEF SessionInvariant, Told, Sessions!Answered, Sessions!Over
<1>3. PICK row : row = [sessions[new] EXCEPT !.delivered = TRUE] /\ sessions' = [sessions EXCEPT ![new] = row]
    BY DEF Sessions!Answered
<1>4. /\ row \in Sessions!Session /\ row.from = sessions[new].from /\ row.family = sessions[new].family
      /\ row.ended = sessions[new].ended /\ row.out = sessions[new].out /\ row.delivered
    BY <1>1, <1>2, <1>3, SessionFields DEF Sessions!Session
<1>5. /\ sessions' \in Seq(Sessions!Session) /\ Len(sessions') = Len(sessions)
      /\ \A s \in 1 .. Len(sessions) : sessions'[s] = IF s = new THEN row ELSE sessions[s]
    <2>1. sessions \in Seq(Sessions!Session) /\ new \in 1 .. Len(sessions)
        BY <1>1, <1>2, SessionFields DEF Sessions!TypeOK
    <2> QED BY <2>1, <1>3, <1>4, ExceptSeq
<1> HIDE DEF new
<1>6. /\ DOMAIN sessions' = DOMAIN sessions
      /\ \A s \in DOMAIN sessions :
           /\ sessions'[s].from = sessions[s].from /\ sessions'[s].family = sessions[s].family
           /\ sessions'[s].ended = sessions[s].ended /\ sessions'[s].out = sessions[s].out
           /\ sessions'[s].delivered <=> sessions[s].delivered \/ s = new
    BY <1>1, <1>2, <1>4, <1>5, SessionFields
<1>7. Sessions!Idle \in Sessions!Call
    BY DEF Sessions!Idle, Sessions!Call
<1>8. /\ call' \in [Consumers -> Sessions!Call] /\ call'[c] = Sessions!Idle
      /\ \A d \in Consumers \ {c} : call'[d] = call[d]
    BY <1>1, <1>2, <1>7, OneCallChanges
<1>9. call'[c].pc = "idle" /\ call'[c].token = 0 /\ call'[c].next = 0 /\ ~call'[c].quiet
    BY <1>8 DEF Sessions!Idle
<1>10. Sessions!TypeOK'
    <2>1. \A d \in Consumers : call'[d].token \in 0 .. Len(sessions) /\ call'[d].next \in 0 .. Len(sessions)
        BY <1>1, <1>8, <1>9, SessionFields
    <2>2. tab' \in [Tabs -> Sessions!Tab]
        BY DEF Sessions!TypeOK, Sessions!Answered, Sessions!Tab, SessionInvariant
    <2>3. cookie' \in 0 .. Len(sessions)
        BY <1>1, <1>2, SessionFields
    <2> QED BY <1>1, <1>5, <1>6, <1>8, <2>1, <2>2, <2>3, SessionFields DEF Sessions!TypeOK
<1>11. Exchanges'
    <2>1. Exchanges
        BY DEF SessionInvariant
    <2>2. (\A d \in Consumers :
             /\ call[d].pc = "locked" => call[d].token # 0 /\ sessions[call[d].token].ended \in {"no", "expired"}
             /\ call[d].pc = "consumed" =>
                  /\ call[d].token # 0 /\ sessions[call[d].token].ended = "refresh"
                  /\ \A s \in DOMAIN sessions : sessions[s].from # call[d].token
             /\ call[d].pc = "login" => call[d].token = 0)'
        BY <2>1, <1>1, <1>6, <1>8, <1>9, SessionFields DEF Exchanges
    <2>3. (\A d, g \in Consumers : d # g /\ Exchanging(d) /\ Exchanging(g) => call[d].token # call[g].token)'
        BY <2>1, <1>8, <1>9 DEF Exchanges, Exchanging
    <2>4. (\A s \in DOMAIN sessions : sessions[s].from # 0 => sessions[sessions[s].from].ended = "refresh")'
        BY <2>1, <1>1, <1>6, SessionFields DEF Exchanges
    <2>5. Sessions!OneSuccessor'
        BY <2>1, <1>6 DEF Exchanges, Sessions!OneSuccessor
    <2> QED BY <2>2, <2>3, <2>4, <2>5 DEF Exchanges
<1>12. Told'
    <2>1. Told
        BY DEF SessionInvariant
    <2>2. (cookie # 0 => sessions[cookie].delivered)'
        BY <1>2, <1>6
    <2>3. \A d \in Consumers \ {c} : call[d].pc = "issued" => call[d].next # new /\ call[d].next \in DOMAIN sessions
        BY <2>1, <1>1, <1>2, SessionFields DEF Told, new
    <2>4. (\A d \in Consumers :
             /\ call[d].token # 0 => sessions[call[d].token].delivered
             /\ call[d].pc = "issued" => call[d].next # 0 /\ ~sessions[call[d].next].delivered)'
        BY <2>1, <2>3, <1>1, <1>6, <1>8, <1>9, SessionFields DEF Told
    <2>5. (\A d, g \in Consumers :
             d # g /\ call[d].pc = "issued" /\ call[g].pc = "issued" => call[d].next # call[g].next)'
        BY <2>1, <1>8, <1>9 DEF Told
    <2>6. (\A s \in DOMAIN sessions : sessions[s].from # 0 =>
             /\ sessions[sessions[s].from].delivered
             /\ sessions[s].delivered => cookie # sessions[s].from)'
        <3> SUFFICES ASSUME NEW s \in DOMAIN sessions, sessions[s].from # 0
                     PROVE  sessions'[sessions[s].from].delivered /\ new # sessions[s].from
            BY <1>2, <1>6
        <3>1. sessions[s].from \in DOMAIN sessions /\ sessions[sessions[s].from].delivered
            BY <2>1, <1>1, SessionFields DEF Told
        <3> QED BY <3>1, <1>2, <1>6
    <2> QED BY <2>2, <2>4, <2>5, <2>6 DEF Told
<1>13. Families'
    BY <1>6 DEF SessionInvariant, Families
<1>14. Quiet'
    <2>1. Quiet
        BY DEF SessionInvariant
    <2>2. \A d \in Consumers \ {c} : ~call[d].quiet
        BY <2>1, <1>2 DEF Quiet
    <2>3. ASSUME NEW d \in Consumers \ {c}, call[d].pc = "revoked"
          PROVE  call[d].token = 0 \/ sessions'[call[d].token].ended # "no"
        <3>1. call[d].token = 0 \/ (call[d].token \in DOMAIN sessions /\ sessions[call[d].token].ended # "no")
            BY <2>1, <2>3, <1>1, SessionFields DEF Quiet, Sessions!Live
        <3> QED BY <3>1, <1>6
    <2> QED BY <2>1, <2>2, <2>3, <1>8, <1>9 DEF Quiet, Sessions!Live
<1>15. Departed'
    <2>1. Departed
        BY DEF SessionInvariant
    <2>2. \A s \in DOMAIN sessions : sessions[s].out => s # new
        BY <2>1, <1>2 DEF Departed, new
    <2> QED BY <2>1, <2>2, <1>1, <1>2, <1>6, <1>8, <1>9, SessionFields DEF Departed, Sessions!Live
<1> QED BY <1>10, <1>11, <1>12, <1>13, <1>14, <1>15 DEF SessionInvariant

\* The session of a logout that nothing overlapped, and whatever the browser was told of in its
\* family, is of no use any more.
LEMMA LogoutIsFinal ==
    ASSUME SessionInvariant, NEW c \in Consumers, call[c].pc = "revoked", call[c].quiet, call[c].token # 0,
           NEW s \in DOMAIN sessions, sessions[s].family = sessions[cookie].family, sessions[s].delivered
    PROVE  sessions[s].ended # "no"
<1>1. Sessions!TypeOK /\ Exchanges /\ Told /\ Families /\ Quiet
    BY DEF SessionInvariant
<1>2. call[c].token = cookie /\ cookie \in DOMAIN sessions /\ sessions[cookie].ended # "no"
    BY <1>1, SessionFields DEF Quiet, Sessions!Live
<1>3. s \in Nat /\ cookie \in Nat
    BY <1>1, SessionFields
<1>4. CASE s = cookie
    BY <1>2, <1>4
<1>5. CASE s < cookie
    <2>1. PICK t \in DOMAIN sessions : sessions[t].from = s
        BY <1>1, <1>2, <1>5 DEF Families
    <2> QED BY <1>1, <1>3, <2>1, SessionFields DEF Exchanges
<1>6. CASE s > cookie
    <2>1. PICK t \in DOMAIN sessions : t <= s /\ sessions[t].from = cookie /\ sessions[t].family = sessions[cookie].family
        BY <1>1, <1>2, <1>6 DEF Families
    <2>2. ~sessions[t].delivered
        BY <1>1, <1>2, <2>1, SessionFields DEF Told
    <2>3. t < s
        BY <1>1, <1>3, <2>1, <2>2, SessionFields
    <2>4. PICK u \in DOMAIN sessions : sessions[u].from = t
        BY <1>1, <2>1, <2>3 DEF Families
    <2> QED BY <1>1, <2>1, <2>2, <2>4, SessionFields DEF Told
<1> QED BY <1>3, <1>4, <1>5, <1>6

\* The answer of a logout.
LEMMA LoggedOutKeeps ==
    ASSUME SessionInvariant, NEW c \in Consumers, Sessions!LoggedOut(c)
    PROVE  SessionInvariant'
<1> DEFINE gone(s) == call[c].quiet /\ call[c].token # 0 /\ sessions[s].family = sessions[call[c].token].family
<1>1. Sessions!TypeOK
    BY DEF SessionInvariant
<1>2. /\ call[c].pc = "revoked" /\ cookie' = 0 /\ call' = [call EXCEPT ![c] = Sessions!Idle]
      /\ sessions' = [s \in DOMAIN sessions |-> IF gone(s) THEN [sessions[s] EXCEPT !.out = TRUE] ELSE sessions[s]]
    BY DEF Sessions!LoggedOut, Sessions!Over
<1>3. /\ DOMAIN sessions' = DOMAIN sessions
      /\ \A s \in DOMAIN sessions : sessions'[s] = IF gone(s) THEN [sessions[s] EXCEPT !.out = TRUE] ELSE sessions[s]
    BY <1>2
<1>4. \A s \in DOMAIN sessions : sessions[s] \in Sessions!Session
    BY <1>1, SessionFields
<1> HIDE DEF gone
<1>5. ASSUME NEW s \in DOMAIN sessions
      PROVE  /\ sessions'[s] \in Sessions!Session
             /\ sessions'[s].from = sessions[s].from /\ sessions'[s].family = sessions[s].family
             /\ sessions'[s].ended = sessions[s].ended /\ sessions'[s].delivered = sessions[s].delivered
             /\ sessions'[s].out => sessions[s].out \/ gone(s)
    <2>1. CASE gone(s)
        BY <1>3, <1>4, <2>1 DEF Sessions!Session
    <2>2. CASE ~gone(s)
        BY <1>3, <1>4, <2>2 DEF Sessions!Session
    <2> QED BY <2>1, <2>2
<1>6. sessions' \in Seq(Sessions!Session) /\ Len(sessions') = Len(sessions)
    <2>1. sessions' \in [1 .. Len(sessions) -> Sessions!Session] /\ Len(sessions) \in Nat
        BY <1>1, <1>2, <1>3, <1>5, SessionFields
    <2> QED BY <2>1, MapSeq
<1>7. Sessions!Idle \in Sessions!Call
    BY DEF Sessions!Idle, Sessions!Call
<1>8. /\ call' \in [Consumers -> Sessions!Call] /\ call'[c] = Sessions!Idle
      /\ \A d \in Consumers \ {c} : call'[d] = call[d]
    BY <1>1, <1>2, <1>7, OneCallChanges
<1>9. call'[c].pc = "idle" /\ call'[c].token = 0 /\ call'[c].next = 0 /\ ~call'[c].quiet
    BY <1>8 DEF Sessions!Idle
<1>f. \A d \in Consumers :
        /\ call[d].token # 0 => call[d].token \in DOMAIN sessions
        /\ call[d].next # 0 => call[d].next \in DOMAIN sessions
    BY <1>1, SessionFields
<1>10. Sessions!TypeOK'
    <2>1. \A d \in Consumers : call'[d].token \in 0 .. Len(sessions) /\ call'[d].next \in 0 .. Len(sessions)
        BY <1>1, <1>8, <1>9, SessionFields
    <2>2. tab' \in [Tabs -> Sessions!Tab]
        BY <1>1 DEF Sessions!TypeOK, Sessions!LoggedOut, Sessions!Tab
    <2> QED BY <1>1, <1>2, <1>3, <1>5, <1>6, <1>8, <2>1, <2>2, SessionFields DEF Sessions!TypeOK
<1>11. Exchanges'
    <2>1. Exchanges
        BY DEF SessionInvariant
    <2>2. (\A d \in Consumers :
             /\ call[d].pc = "locked" => call[d].token # 0 /\ sessions[call[d].token].ended \in {"no", "expired"}
             /\ call[d].pc = "consumed" =>
                  /\ call[d].token # 0 /\ sessions[call[d].token].ended = "refresh"
                  /\ \A s \in DOMAIN sessions : sessions[s].from # call[d].token
             /\ call[d].pc = "login" => call[d].token = 0)'
        <3> SUFFICES ASSUME NEW d \in Consumers \ {c}
                     PROVE  (/\ call[d].pc = "locked" => call[d].token # 0 /\ sessions[call[d].token].ended \in {"no", "expired"}
                             /\ call[d].pc = "consumed" =>
                                  /\ call[d].token # 0 /\ sessions[call[d].token].ended = "refresh"
                                  /\ \A s \in DOMAIN sessions : sessions[s].from # call[d].token
                             /\ call[d].pc = "login" => call[d].token = 0)'
            BY <1>9
        <3>1. /\ call[d].pc = "locked" => call[d].token # 0 /\ sessions[call[d].token].ended \in {"no", "expired"}
              /\ call[d].pc = "consumed" =>
                   /\ call[d].token # 0 /\ sessions[call[d].token].ended = "refresh"
                   /\ \A s \in DOMAIN sessions : sessions[s].from # call[d].token
              /\ call[d].pc = "login" => call[d].token = 0
            BY <2>1 DEF Exchanges
        <3>2. call[d].token # 0 => sessions'[call[d].token].ended = sessions[call[d].token].ended
            BY <1>f, <1>5
        <3>3. \A s \in DOMAIN sessions : sessions'[s].from = sessions[s].from
            BY <1>5
        <3> QED BY <3>1, <3>2, <3>3, <1>3, <1>8
    <2>3. (\A d, g \in Consumers : d # g /\ Exchanging(d) /\ Exchanging(g) => call[d].token # call[g].token)'
        BY <2>1, <1>8, <1>9 DEF Exchanges, Exchanging
    <2>4. (\A s \in DOMAIN sessions : sessions[s].from # 0 => sessions[sessions[s].from].ended = "refresh")'
        BY <2>1, <1>1, <1>3, <1>5, SessionFields DEF Exchanges
    <2>5. Sessions!OneSuccessor'
        BY <2>1, <1>3, <1>5 DEF Exchanges, Sessions!OneSuccessor
    <2> QED BY <2>2, <2>3, <2>4, <2>5 DEF Exchanges
<1>12. Told'
    <2>1. Told
        BY DEF SessionInvariant
    <2>2. (\A d \in Consumers :
             /\ call[d].token # 0 => sessions[call[d].token].delivered
             /\ call[d].pc = "issued" => call[d].next # 0 /\ ~sessions[call[d].next].delivered)'
        <3> SUFFICES ASSUME NEW d \in Consumers \ {c}
                     PROVE  (/\ call[d].token # 0 => sessions[call[d].token].delivered
                             /\ call[d].pc = "issued" => call[d].next # 0 /\ ~sessions[call[d].next].delivered)'
            BY <1>9
        <3>1. /\ call[d].token # 0 => sessions[call[d].token].delivered
              /\ call[d].pc = "issued" => call[d].next # 0 /\ ~sessions[call[d].next].delivered
            BY <2>1 DEF Told
        <3>2. /\ call[d].token # 0 => sessions'[call[d].token].delivered = sessions[call[d].token].delivered
              /\ call[d].next # 0 => sessions'[call[d].next].delivered = sessions[call[d].next].delivered
            BY <1>f, <1>5
        <3> QED BY <3>1, <3>2, <1>8
    <2>3. (\A d, g \in Consumers :
             d # g /\ call[d].pc = "issued" /\ call[g].pc = "issued" => call[d].next # call[g].next)'
        BY <2>1, <1>8, <1>9 DEF Told
    <2>4. (\A s \in DOMAIN sessions : sessions[s].from # 0 =>
             /\ sessions[sessions[s].from].delivered
             /\ sessions[s].delivered => cookie # sessions[s].from)'
        BY <2>1, <1>1, <1>2, <1>3, <1>5, SessionFields DEF Told
    <2> QED BY <1>2, <2>2, <2>3, <2>4 DEF Told
<1>13. Families'
    <2>1. Families
        BY DEF SessionInvariant
    <2> QED BY <2>1, <1>3, <1>5 DEF Families
<1>14. Quiet'
    <2>1. Quiet
        BY DEF SessionInvariant
    <2>2. \A d \in Consumers \ {c} : ~call[d].quiet
        BY <2>1, <1>2 DEF Quiet
    <2>3. ASSUME NEW d \in Consumers \ {c}, call[d].pc = "revoked"
          PROVE  call[d].token = 0 \/ sessions'[call[d].token].ended # "no"
        <3>1. call[d].token = 0 \/ (call[d].token \in DOMAIN sessions /\ sessions[call[d].token].ended # "no")
            BY <2>1, <2>3, <1>f DEF Quiet, Sessions!Live
        <3> QED BY <3>1, <1>5
    <2> QED BY <2>1, <2>2, <2>3, <1>8, <1>9 DEF Quiet, Sessions!Live
<1>15. Departed'
    <2>1. Departed
        BY DEF SessionInvariant
    <2> SUFFICES ASSUME NEW s \in DOMAIN sessions, sessions'[s].out
                 PROVE  /\ s # 0 /\ (sessions[s].delivered => sessions[s].ended # "no")
                        /\ \A d \in Consumers \ {c} : call[d].pc = "issued" => call[d].next # s
        BY <1>2, <1>3, <1>5, <1>8, <1>9 DEF Departed, Sessions!Live
    <2>2. s # 0
        BY <1>1, SessionFields
    <2>3. CASE sessions[s].out
        BY <2>1, <2>2, <2>3 DEF Departed, Sessions!Live
    <2>4. CASE gone(s)
        <3>1. call[c].token = cookie /\ \A d \in Consumers \ {c} : call[d].pc = "idle"
            BY <1>2, <2>4 DEF SessionInvariant, Quiet, gone
        <3> QED BY <1>2, <2>2, <2>4, <3>1, LogoutIsFinal DEF gone
    <2> QED BY <1>5, <2>3, <2>4
<1> QED BY <1>10, <1>11, <1>12, <1>13, <1>14, <1>15 DEF SessionInvariant

\* A revocation of a token that is of no use any more.
LEMMA RevokeKeeps ==
    ASSUME SessionInvariant, NEW c \in Consumers, Sessions!Revoke(c), ~Sessions!Live(call[c].token)
    PROVE  SessionInvariant'
<1>1. Sessions!TypeOK
    BY DEF SessionInvariant
<1>2. PICK n : /\ n = [call[c] EXCEPT !.pc = "revoked"] /\ call' = [call EXCEPT ![c] = n]
               /\ UNCHANGED <<sessions, cookie, tab>> /\ call[c].pc = "logout"
    BY DEF Sessions!Revoke, Sessions!Step
<1>3. /\ n \in Sessions!Call /\ n.token = call[c].token /\ n.next = call[c].next
      /\ n.quiet = call[c].quiet /\ n.pc = "revoked"
    BY <1>1, <1>2, SessionFields DEF Sessions!Call
<1>4. /\ call' \in [Consumers -> Sessions!Call] /\ call'[c] = n
      /\ \A d \in Consumers \ {c} : call'[d] = call[d]
    BY <1>1, <1>2, <1>3, OneCallChanges
<1>5. Sessions!TypeOK'
    <2>1. \A d \in Consumers : call'[d].token \in 0 .. Len(sessions) /\ call'[d].next \in 0 .. Len(sessions)
        BY <1>1, <1>3, <1>4, SessionFields
    <2> QED BY <1>1, <1>2, <1>4, <2>1 DEF Sessions!TypeOK
<1>6. Exchanges'
    BY <1>2, <1>3, <1>4 DEF SessionInvariant, Exchanges, Exchanging, Sessions!OneSuccessor
<1>7. Told'
    BY <1>2, <1>3, <1>4 DEF SessionInvariant, Told
<1>8. Families'
    BY <1>2 DEF SessionInvariant, Families
<1>9. Quiet'
    BY <1>2, <1>3, <1>4 DEF SessionInvariant, Quiet, Sessions!Live
<1>10. Departed'
    BY <1>2, <1>3, <1>4 DEF SessionInvariant, Departed, Sessions!Live
<1> QED BY <1>5, <1>6, <1>7, <1>8, <1>9, <1>10 DEF SessionInvariant

\* Initially nobody holds anything.
LEMMA SessionsBegin == Sessions!Init => SessionInvariant
<1> SUFFICES ASSUME Sessions!Init PROVE SessionInvariant
    OBVIOUS
<1>1. Sessions!Idle \in Sessions!Call /\ \A c \in Consumers : call[c] = Sessions!Idle
    BY DEF Sessions!Init, Sessions!Idle, Sessions!Call
<1>2. Sessions!TypeOK
    BY <1>1 DEF Sessions!Init, Sessions!TypeOK, Sessions!Idle, Sessions!Tab
<1>3. \A c \in Consumers : call[c].pc = "idle" /\ call[c].token = 0 /\ ~call[c].quiet
    BY <1>1 DEF Sessions!Idle
<1>4. DOMAIN sessions = {} /\ cookie = 0
    BY DEF Sessions!Init
<1> QED BY <1>2, <1>3, <1>4
        DEF SessionInvariant, Exchanges, Exchanging, Told, Families, Quiet, Departed, Sessions!OneSuccessor

\* Every step of the sessions keeps the invariant.
LEMMA SessionsKept == SessionInvariant /\ Sessions!Next => SessionInvariant'
<1> SUFFICES ASSUME SessionInvariant, Sessions!Next PROVE SessionInvariant'
    OBVIOUS
<1>1. Sessions!TypeOK
    BY DEF SessionInvariant
<1>2. ASSUME NEW c \in Consumers, NEW t \in Tabs,
             Sessions!Request(c, t) \/ Sessions!Restore(c, t) \/ Sessions!Login(c, t) \/ Sessions!Logout(c, t)
      PROVE  SessionInvariant'
    <2>1. CASE Sessions!Request(c, t) \/ Sessions!Restore(c, t)
        BY <2>1, StartKeeps DEF Sessions!Request, Sessions!Restore
    <2>2. CASE Sessions!Login(c, t)
        BY <2>2, StartKeeps DEF Sessions!Login
    <2>3. CASE Sessions!Logout(c, t)
        BY <2>3, StartKeeps DEF Sessions!Logout
    <2> QED BY <1>2, <2>1, <2>2, <2>3
<1>3. ASSUME NEW c \in Consumers, Sessions!SendRefresh(c) PROVE SessionInvariant'
    <2>1. PICK n : /\ n = [call[c] EXCEPT !.token = cookie, !.pc = IF cookie = 0 THEN "refused" ELSE "refresh"]
                   /\ call' = [call EXCEPT ![c] = n]
                   /\ UNCHANGED <<sessions, cookie, tab>> /\ call[c].pc = "unauthorized"
        BY <1>3 DEF Sessions!SendRefresh
    <2>2. /\ n \in Sessions!Call /\ n.token = cookie /\ n.next = call[c].next /\ n.quiet = call[c].quiet
          /\ n.pc \in {"refused", "refresh"}
        <3>1. cookie \in Nat /\ call[c] \in Sessions!Call
            BY <1>1, SessionFields
        <3>2. CASE cookie = 0
            BY <2>1, <3>1, <3>2 DEF Sessions!Call
        <3>3. CASE cookie # 0
            BY <2>1, <3>1, <3>3 DEF Sessions!Call
        <3> QED BY <3>2, <3>3
    <2> QED BY <1>1, <2>1, <2>2, CallKeeps DEF Sessions!TypeOK
<1>4. ASSUME NEW c \in Consumers, Sessions!Refused(c) \/ Sessions!Lost(c) PROVE SessionInvariant'
    <2>1. /\ call' = [call EXCEPT ![c] = Sessions!Idle]
          /\ UNCHANGED <<sessions, cookie>> /\ call[c].pc # "idle"
        BY <1>4 DEF Sessions!Refused, Sessions!Lost, Sessions!Over
    <2>2. tab' \in [Tabs -> Sessions!Tab]
        <3>1. tab \in [Tabs -> Sessions!Tab] /\ [access |-> "none", user |-> FALSE] \in Sessions!Tab
            BY <1>1 DEF Sessions!TypeOK, Sessions!Tab
        <3>2. tab' = tab \/ tab' = [tab EXCEPT ![call[c].tab] = [access |-> "none", user |-> FALSE]]
            BY <1>4, Zenon DEF Sessions!Refused, Sessions!Lost
        <3> QED BY <3>1, <3>2
    <2>3. /\ Sessions!Idle \in Sessions!Call /\ Sessions!Idle.token = 0 /\ Sessions!Idle.next = 0
          /\ Sessions!Idle.quiet = FALSE /\ Sessions!Idle.pc = "idle"
        BY DEF Sessions!Idle, Sessions!Call
    <2> QED BY <2>1, <2>2, <2>3, CallKeeps
<1>5. ASSUME NEW c \in Consumers, Sessions!Select(c) PROVE SessionInvariant'
    <2>1. PICK n : /\ n = [call[c] EXCEPT !.pc = IF Sessions!Live(call[c].token) THEN "locked" ELSE "refused",
                                          !.token = IF Sessions!Live(call[c].token) THEN call[c].token ELSE 0]
                   /\ call' = [call EXCEPT ![c] = n]
                   /\ UNCHANGED <<sessions, cookie, tab>> /\ call[c].pc = "refresh"
                   /\ ~Sessions!Locked(call[c].token)
        BY <1>5 DEF Sessions!Select
    <2>2. CASE Sessions!Live(call[c].token)
        <3>1. /\ n \in Sessions!Call /\ n.token = call[c].token /\ n.next = call[c].next
              /\ n.quiet = call[c].quiet /\ n.pc = "locked"
            BY <1>1, <2>1, <2>2, SessionFields DEF Sessions!Call
        <3> QED BY <1>1, <2>1, <2>2, <3>1, CallKeeps DEF Sessions!TypeOK
    <2>3. CASE ~Sessions!Live(call[c].token)
        <3>1. /\ n \in Sessions!Call /\ n.token = 0 /\ n.next = call[c].next
              /\ n.quiet = call[c].quiet /\ n.pc = "refused"
            BY <1>1, <2>1, <2>3, SessionFields DEF Sessions!Call
        <3> QED BY <1>1, <2>1, <3>1, CallKeeps DEF Sessions!TypeOK
    <2> QED BY <2>2, <2>3
<1>6. ASSUME NEW t \in Tabs, Sessions!ExpireAccess(t) PROVE SessionInvariant'
    <2>1. Sessions!TypeOK'
        BY <1>1, <1>6 DEF Sessions!TypeOK, Sessions!ExpireAccess, Sessions!Tab
    <2> QED BY <2>1, <1>6 DEF SessionInvariant, Exchanges, Exchanging, Told, Families, Quiet, Departed,
                Sessions!OneSuccessor, Sessions!Live, Sessions!ExpireAccess
<1> QED BY <1>2, <1>3, <1>4, <1>5, <1>6, AnswerKeeps, LoggedOutKeeps, EndKeeps, RevokeKeeps, IssueKeeps,
           ExpireKeeps DEF Sessions!Next

\* The invariant says what the property does.
LEMMA SessionsSound ==
    SessionInvariant => Sessions!OneSuccessor /\ Sessions!RefusedForAReason /\ Sessions!LogoutEnds
BY SessionFields DEF SessionInvariant, Exchanges, Told, Departed, Sessions!RefusedForAReason, Sessions!Unknown,
   Sessions!LogoutEnds

-----------------------------------------------------------------------------
\* Export interfaces.

\* Only the credential that was issued last may be in use, for the scope it was issued for.
LastIssued == \A n \in DOMAIN credentials : ~credentials[n].revoked =>
    n = Len(credentials) /\ credentials[n].change = interface.change

\* What was authorized was counted.
InWindow ==
    /\ window.start <= now
    /\ \A a \in accepted : a.minute <= window.start /\ (a.minute = window.start => a.call <= window.calls)

ExportInvariant ==
    /\ Exports!TypeOK /\ LastIssued /\ InWindow
    /\ Exports!RetiredStays /\ Exports!OwnScope /\ Exports!RateKept

\* What the variables are, field by field.
LEMMA ExportFields ==
    ASSUME Exports!TypeOK
    PROVE  /\ Len(credentials) \in Nat /\ DOMAIN credentials = 1 .. Len(credentials) /\ now \in Nat
           /\ \A n \in DOMAIN credentials : credentials[n] \in Exports!Credential
           /\ interface \in Exports!Interface /\ interface.enabled \in BOOLEAN /\ interface.change \in Nat
           /\ interface.scope \in Scopes /\ interface.scope.expires \in Nat /\ interface.scope.limit \in Nat
           /\ window.start \in Int /\ window.calls \in Nat
<1>1. /\ credentials \in Seq(Exports!Credential) /\ interface \in Exports!Interface /\ now \in Nat
      /\ window \in [start : {-1} \cup Nat, calls : Nat]
    BY DEF Exports!TypeOK
<1>2. interface.enabled \in BOOLEAN /\ interface.change \in Nat /\ interface.scope \in Scopes
    BY <1>1 DEF Exports!Interface
<1>3. interface.scope.expires \in Nat /\ interface.scope.limit \in Nat
    BY <1>2, ServicesAssumption
<1> QED BY <1>1, <1>2, <1>3

\* Everything is revoked.
LEMMA AllRevoked ==
    ASSUME Exports!TypeOK
    PROVE  /\ Exports!RevokeAll \in Seq(Exports!Credential) /\ Len(Exports!RevokeAll) = Len(credentials)
           /\ \A n \in 1 .. Len(credentials) : Exports!RevokeAll[n].revoked
<1> DEFINE all == Exports!RevokeAll
<1>1. DOMAIN all = 1 .. Len(credentials) /\ Len(credentials) \in Nat
    BY ExportFields DEF Exports!RevokeAll
<1>2. ASSUME NEW n \in 1 .. Len(credentials)
      PROVE  all[n] \in Exports!Credential /\ all[n].revoked
    <2>1. all[n] = [credentials[n] EXCEPT !.revoked = TRUE] /\ credentials[n] \in Exports!Credential
        BY ExportFields DEF Exports!RevokeAll
    <2> QED BY <2>1 DEF Exports!Credential
<1>3. all = [n \in 1 .. Len(credentials) |-> all[n]]
    BY <1>1 DEF Exports!RevokeAll
<1> HIDE DEF all
<1>4. all \in [1 .. Len(credentials) -> Exports!Credential]
    BY <1>2, <1>3
<1>5. all \in Seq(Exports!Credential) /\ Len(all) = Len(credentials)
    BY <1>1, <1>4
<1> QED BY <1>2, <1>5 DEF all

\* A step that accepts nothing keeps what was accepted in order.
LEMMA AcceptsNothing ==
    ASSUME ExportInvariant, UNCHANGED <<window, accepted>>, now' \in Nat, now' >= now
    PROVE  InWindow' /\ Exports!OwnScope' /\ Exports!RateKept'
<1>1. InWindow'
    BY ExportFields DEF ExportInvariant, InWindow
<1> QED BY <1>1 DEF ExportInvariant, Exports!OwnScope, Exports!RateKept

\* A change of the interface that revokes every credential, or disables it, retires what it should.
LEMMA RevokeAllKeeps ==
    ASSUME ExportInvariant, credentials' = Exports!RevokeAll, interface' \in Exports!Interface,
           UNCHANGED <<now, window, caller, accepted>>, Exports!Remember
    PROVE  ExportInvariant'
<1>1. Exports!TypeOK
    BY DEF ExportInvariant
<1>2. /\ credentials' \in Seq(Exports!Credential) /\ Len(credentials') = Len(credentials)
      /\ DOMAIN credentials' = DOMAIN credentials /\ \A n \in DOMAIN credentials : credentials'[n].revoked
    BY <1>1, AllRevoked, ExportFields
<1>3. Exports!TypeOK'
    <2>1. retired' \subseteq DOMAIN credentials
        BY <1>1 DEF Exports!TypeOK, Exports!Remember
    <2> QED BY <1>1, <1>2, <2>1 DEF Exports!TypeOK
<1>4. LastIssued'
    BY <1>2 DEF LastIssued
<1>5. Exports!RetiredStays'
    BY <1>2, <1>3 DEF Exports!TypeOK, Exports!RetiredStays, Exports!Usable
<1>6. InWindow' /\ Exports!OwnScope' /\ Exports!RateKept'
    BY <1>1, AcceptsNothing, ExportFields
<1> QED BY <1>3, <1>4, <1>5, <1>6 DEF ExportInvariant

\* A step that changes no credential and enables nothing.
LEMMA NothingIssued ==
    ASSUME ExportInvariant, UNCHANGED credentials, interface' \in Exports!Interface,
           interface'.enabled => interface.enabled, interface'.change = interface.change,
           now' \in Nat, now' >= now, Exports!Remember
    PROVE  /\ LastIssued' /\ Exports!RetiredStays' /\ retired' \subseteq DOMAIN credentials
<1>1. Exports!TypeOK /\ LastIssued /\ Exports!RetiredStays
    BY DEF ExportInvariant
<1>2. LastIssued'
    BY <1>1 DEF LastIssued
<1>3. ASSUME NEW n \in DOMAIN credentials, Exports!Usable(n)' PROVE Exports!Usable(n)
    <2>1. credentials[n].expires \in Nat /\ now \in Nat
        BY <1>1, ExportFields DEF Exports!Credential
    <2> QED BY <1>3, <2>1 DEF Exports!Usable
<1>4. retired \subseteq DOMAIN credentials
    BY <1>1 DEF Exports!TypeOK
<1>5. retired' = retired \cup {n \in DOMAIN credentials : ~Exports!Usable(n)'}
    BY DEF Exports!Remember
<1>6. Exports!RetiredStays'
    <2>1. \A n \in retired' : ~Exports!Usable(n)'
        BY <1>1, <1>3, <1>4, <1>5 DEF Exports!RetiredStays
    <2>2. \A n, k \in DOMAIN credentials' : Exports!Usable(n)' /\ Exports!Usable(k)' => n = k
        BY <1>1, <1>3 DEF Exports!RetiredStays
    <2> QED BY <2>1, <2>2 DEF Exports!RetiredStays
<1> QED BY <1>2, <1>4, <1>5, <1>6

\* enable and rotate issue a credential for the scope there is, and revoke every other one.
LEMMA EnableKeeps ==
    ASSUME ExportInvariant, Exports!Enable, Exports!Remember
    PROVE  ExportInvariant'
<1> DEFINE new == Len(credentials) + 1
<1>1. Exports!TypeOK
    BY DEF ExportInvariant
<1>2. PICK all, issued :
        /\ all = Exports!RevokeAll /\ issued = Exports!Issued /\ credentials' = Append(all, issued)
        /\ interface' = [interface EXCEPT !.enabled = TRUE]
        /\ UNCHANGED <<now, window, caller, accepted>>
    BY Zenon DEF Exports!Enable
<1>3. /\ all \in Seq(Exports!Credential) /\ Len(all) = Len(credentials)
      /\ \A n \in 1 .. Len(credentials) : all[n].revoked
    BY <1>1, <1>2, AllRevoked
<1>4. issued \in Exports!Credential /\ issued.change = interface.change
    BY <1>1, <1>2, ExportFields DEF Exports!Issued, Exports!Credential
<1>5. /\ credentials' \in Seq(Exports!Credential) /\ Len(credentials') = new
      /\ DOMAIN credentials' = DOMAIN credentials \cup {new} /\ new \notin DOMAIN credentials
      /\ \A n \in DOMAIN credentials : credentials'[n].revoked
      /\ credentials'[new] = issued
    BY <1>1, <1>2, <1>3, <1>4, ExportFields
<1>6. interface' \in Exports!Interface /\ interface'.change = interface.change
    BY <1>1, <1>2, ExportFields DEF Exports!Interface
<1> HIDE DEF new
<1>7. retired \subseteq DOMAIN credentials
    BY <1>1 DEF Exports!TypeOK
<1>8. retired' = retired \cup {n \in DOMAIN credentials : ~Exports!Usable(n)'}
    BY DEF Exports!Remember
<1>9. Exports!TypeOK'
    <2>1. \A c \in Consumers : caller[c].credential \in 0 .. new
        BY <1>1, ExportFields DEF Exports!TypeOK, new
    <2>2. retired' \subseteq DOMAIN credentials'
        BY <1>5, <1>7, <1>8
    <2> QED BY <1>1, <1>2, <1>5, <1>6, <2>1, <2>2 DEF Exports!TypeOK
<1>10. LastIssued'
    BY <1>4, <1>5, <1>6 DEF LastIssued
<1>11. Exports!RetiredStays'
    <2>1. \A n \in DOMAIN credentials : ~Exports!Usable(n)'
        BY <1>5 DEF Exports!Usable
    <2> QED BY <2>1, <1>5, <1>7, <1>8 DEF Exports!RetiredStays
<1>12. InWindow' /\ Exports!OwnScope' /\ Exports!RateKept'
    BY <1>1, <1>2, AcceptsNothing, ExportFields
<1> QED BY <1>9, <1>10, <1>11, <1>12 DEF ExportInvariant

\* A read that is authorized carries the next number of its minute, and the scope of its credential.
LEMMA AuthorizeKeeps ==
    ASSUME ExportInvariant, NEW c \in Consumers, NEW n \in 0 .. Len(credentials),
           NEW query \in UNION {s.queries : s \in Scopes}, Exports!Authorize(c, n, query), Exports!Remember
    PROVE  ExportInvariant'
<1> DEFINE code == Exports!Code(n, query)
<1>1. Exports!TypeOK
    BY DEF ExportInvariant
<1>2. /\ window' = Exports!Counted /\ interface' = [interface EXCEPT !.status = code]
      /\ UNCHANGED <<now, credentials>>
    BY DEF Exports!Authorize
<1>3. /\ window' \in [start : {-1} \cup Nat, calls : Nat] /\ window'.start = now /\ window'.calls \in Nat
      /\ window'.calls = IF window.start = now THEN window.calls + 1 ELSE 1
    BY <1>1, <1>2, ExportFields DEF Exports!Counted
<1>4. /\ interface' \in Exports!Interface /\ interface'.enabled = interface.enabled
      /\ interface'.change = interface.change
    <2>1. code \in {"limited", "invalid", "disabled", "revoked", "expired", "forbidden", "authorized"}
        BY DEF Exports!Code
    <2> HIDE DEF code
    <2> QED BY <1>1, <1>2, <2>1, ExportFields DEF Exports!Interface
<1>5. LastIssued' /\ Exports!RetiredStays' /\ retired' \subseteq DOMAIN credentials
    BY <1>1, <1>2, <1>4, NothingIssued, ExportFields
<1>6. InWindow /\ Exports!OwnScope /\ Exports!RateKept
    BY DEF ExportInvariant
<1>f. accepted \subseteq Exports!Accepted
    BY <1>1 DEF Exports!TypeOK
<1>7. ASSUME NEW a \in accepted
      PROVE  a.minute <= now /\ (a.minute = now => a.call < window'.calls)
    <2>1. a.minute <= window.start /\ (a.minute = window.start => a.call <= window.calls) /\ window.start <= now
        BY <1>6 DEF InWindow
    <2>2. a.minute \in Nat /\ a.call \in Nat
        BY <1>f DEF Exports!Accepted
    <2> QED BY <2>1, <2>2, <1>1, <1>3, ExportFields
<1>8. CASE code # "authorized"
    <2>1. UNCHANGED <<caller, accepted>>
        BY <1>8 DEF Exports!Authorize
    <2>2. Exports!TypeOK'
        BY <1>1, <1>2, <1>3, <1>4, <1>5, <2>1 DEF Exports!TypeOK
    <2>3. InWindow'
        <3>1. now \in Nat
            BY <1>1, ExportFields
        <3>2. ASSUME NEW a \in accepted
              PROVE  a.minute <= now /\ (a.minute = now => a.call <= window'.calls)
            <4>1. a.call \in Nat
                BY <1>f DEF Exports!Accepted
            <4> QED BY <4>1, <1>3, <1>7
        <3> QED BY <3>1, <3>2, <1>2, <1>3, <2>1 DEF InWindow
    <2> QED BY <1>5, <1>6, <2>1, <2>2, <2>3 DEF ExportInvariant, Exports!OwnScope, Exports!RateKept
<1>9. CASE code = "authorized"
    <2>1. PICK item :
            /\ item = [credential |-> n, issued |-> credentials[n].change, change |-> interface.change,
                       minute |-> now, call |-> window'.calls]
            /\ accepted' = accepted \cup {item}
            /\ caller' = [caller EXCEPT ![c] = [pc |-> "read", credential |-> n, query |-> query]]
        BY <1>9 DEF Exports!Authorize
    <2>2. /\ n # 0 /\ ~credentials[n].revoked /\ Exports!Counted.calls <= interface.scope.limit
        <3>1. n # 0 /\ ~credentials[n].revoked /\ ~(Exports!Counted.calls > interface.scope.limit)
            BY <1>9, Zenon DEF Exports!Code
        <3>2. Exports!Counted.calls \in Nat /\ interface.scope.limit \in Nat
            BY <1>1, <1>2, <1>3, ExportFields
        <3> QED BY <3>1, <3>2
    <2>3. n \in DOMAIN credentials /\ credentials[n].change = interface.change /\ n \in Nat
        BY <1>1, <2>2, ExportFields DEF ExportInvariant, LastIssued
    <2>4. /\ item \in Exports!Accepted /\ item.issued = item.change /\ item.minute = now
          /\ item.call = window'.calls
        BY <1>1, <1>3, <2>1, <2>3, ExportFields DEF Exports!Accepted
    <2>5. Exports!TypeOK'
        <3>1. [pc |-> "read", credential |-> n, query |-> query] \in Exports!Caller
            BY <2>3 DEF Exports!Caller
        <3>2. caller' \in [Consumers -> Exports!Caller] /\ \A d \in Consumers : caller'[d].credential \in 0 .. Len(credentials)
            BY <1>1, <2>1, <3>1 DEF Exports!TypeOK
        <3> QED BY <1>1, <1>2, <1>3, <1>4, <1>5, <2>1, <2>4, <3>2 DEF Exports!TypeOK
    <2>6. InWindow'
        <3>1. now \in Nat
            BY <1>1, ExportFields
        <3>2. ASSUME NEW a \in accepted'
              PROVE  a.minute <= now /\ (a.minute = now => a.call <= window'.calls)
            <4>1. CASE a \in accepted
                <5>1. a.call \in Nat
                    BY <4>1, <1>f DEF Exports!Accepted
                <5> QED BY <4>1, <5>1, <1>3, <1>7
            <4>2. CASE a = item
                BY <4>2, <2>4, <3>1, <1>3
            <4> QED BY <3>2, <4>1, <4>2, <2>1
        <3> QED BY <3>1, <3>2, <1>2, <1>3 DEF InWindow
    <2>7. Exports!OwnScope'
        BY <1>6, <2>1, <2>4 DEF Exports!OwnScope
    <2>8. Exports!RateKept'
        <3>1. \A a \in accepted : ~(a.minute = item.minute /\ a.call = item.call)
            <4> SUFFICES ASSUME NEW a \in accepted, a.minute = item.minute, a.call = item.call PROVE FALSE
                OBVIOUS
            <4>1. a.call \in Nat
                BY <1>f DEF Exports!Accepted
            <4> QED BY <4>1, <1>3, <1>7, <2>4
        <3>2. item.call <= interface.scope.limit /\ interface.scope \in Scopes
            BY <1>1, <1>2, <2>2, <2>4, ExportFields
        <3>3. \A a, b \in accepted' : a.minute = b.minute /\ a.call = b.call => a = b
            BY <1>6, <2>1, <3>1 DEF Exports!RateKept
        <3>4. \A a \in accepted' : \E s \in Scopes : a.call <= s.limit
            BY <1>6, <2>1, <3>2 DEF Exports!RateKept
        <3> QED BY <3>3, <3>4 DEF Exports!RateKept
    <2> QED BY <1>5, <2>5, <2>6, <2>7, <2>8 DEF ExportInvariant
<1> QED BY <1>8, <1>9

\* An interface begins disabled and without credentials.
LEMMA ExportsBegin == Exports!Init => ExportInvariant
<1> SUFFICES ASSUME Exports!Init PROVE ExportInvariant
    OBVIOUS
<1>1. PICK scope \in Scopes : interface = Exports!Created(scope)
    BY DEF Exports!Init
<1>2. interface \in Exports!Interface
    BY <1>1 DEF Exports!Created, Exports!Interface
<1>3. /\ now = 0 /\ credentials = <<>> /\ window = [start |-> -1, calls |-> 0]
      /\ caller = [c \in Consumers |-> Exports!Idle] /\ retired = {} /\ accepted = {}
    BY DEF Exports!Init
<1>4. Exports!TypeOK
    BY <1>2, <1>3 DEF Exports!TypeOK, Exports!Idle, Exports!Caller
<1> QED BY <1>3, <1>4 DEF ExportInvariant, LastIssued, InWindow, Exports!RetiredStays, Exports!OwnScope,
        Exports!RateKept

\* Every step of the export interface keeps the invariant.
LEMMA ExportsKept == ExportInvariant /\ Exports!Next => ExportInvariant'
<1> SUFFICES ASSUME ExportInvariant, Exports!Next PROVE ExportInvariant'
    OBVIOUS
<1>0. Exports!Remember
    BY DEF Exports!Next
<1>1. Exports!TypeOK
    BY DEF ExportInvariant
<1>2. ASSUME NEW scope \in Scopes, Exports!ChangeScope(scope) PROVE ExportInvariant'
    <2>1. interface' \in Exports!Interface
        <3>1. interface' = [interface EXCEPT !.scope = scope, !.enabled = FALSE, !.change = interface.change + 1]
            BY <1>2, Zenon DEF Exports!ChangeScope
        <3>2. interface.change + 1 \in Nat
            BY <1>1, ExportFields
        <3> QED BY <1>1, <3>1, <3>2, ExportFields DEF Exports!Interface
    <2> QED BY <1>0, <1>2, <2>1, RevokeAllKeeps DEF Exports!ChangeScope
<1>3. CASE Exports!Enable \/ Exports!Rotate
    BY <1>0, <1>3, EnableKeeps DEF Exports!Rotate
<1>4. CASE Exports!Revoke
    <2>1. interface' \in Exports!Interface
        BY <1>1, <1>4, ExportFields DEF Exports!Revoke, Exports!Interface
    <2> QED BY <1>0, <1>4, <2>1, RevokeAllKeeps DEF Exports!Revoke
<1>5. ASSUME NEW c \in Consumers, NEW n \in 0 .. Len(credentials), NEW query \in UNION {s.queries : s \in Scopes},
             Exports!Authorize(c, n, query)
      PROVE  ExportInvariant'
    BY <1>0, <1>5, AuthorizeKeeps
<1>6. CASE \/ Exports!Disable \/ Exports!Tick
           \/ \E c \in Consumers : \E code \in {"success", "unavailable", "stopped"} : Exports!Finish(c, code)
    <2>1. /\ UNCHANGED <<credentials, window, accepted>> /\ now' \in Nat /\ now' >= now
          /\ interface' \in Exports!Interface /\ (interface'.enabled => interface.enabled)
          /\ interface'.change = interface.change
        <3>1. CASE Exports!Disable
            <4>1. interface' = [interface EXCEPT !.enabled = FALSE] /\ UNCHANGED <<now, credentials, window, accepted>>
                BY <3>1 DEF Exports!Disable
            <4>2. interface' \in Exports!Interface /\ interface'.change = interface.change /\ ~interface'.enabled
                BY <1>1, <4>1, ExportFields DEF Exports!Interface
            <4> QED BY <1>1, <4>1, <4>2, ExportFields
        <3>2. CASE Exports!Tick
            BY <1>1, <3>2, ExportFields DEF Exports!Tick
        <3>3. ASSUME NEW c \in Consumers, NEW code \in {"success", "unavailable", "stopped"}, Exports!Finish(c, code)
              PROVE  /\ UNCHANGED <<now, credentials, window, accepted>> /\ interface' \in Exports!Interface
                     /\ interface'.enabled = interface.enabled /\ interface'.change = interface.change
            <4>1. CASE code = "stopped"
                BY <1>1, <3>3, <4>1, ExportFields DEF Exports!Finish
            <4>2. CASE code # "stopped"
                BY <1>1, <3>3, <4>2, ExportFields DEF Exports!Finish, Exports!Interface
            <4> QED BY <4>1, <4>2
        <3> QED BY <1>1, <1>6, <3>1, <3>2, <3>3, ExportFields
    <2>2. caller' \in [Consumers -> Exports!Caller] /\ \A c \in Consumers : caller'[c].credential \in 0 .. Len(credentials)
        <3>1. Exports!Idle \in Exports!Caller /\ Exports!Idle.credential = 0
            BY DEF Exports!Idle, Exports!Caller
        <3>2. caller' = caller \/ \E c \in Consumers : caller' = [caller EXCEPT ![c] = Exports!Idle]
            BY <1>6 DEF Exports!Disable, Exports!Tick, Exports!Finish
        <3> QED BY <1>1, <3>1, <3>2, ExportFields DEF Exports!TypeOK
    <2>3. LastIssued' /\ Exports!RetiredStays' /\ retired' \subseteq DOMAIN credentials
        BY <1>0, <2>1, NothingIssued
    <2>4. InWindow' /\ Exports!OwnScope' /\ Exports!RateKept'
        BY <2>1, AcceptsNothing
    <2>5. Exports!TypeOK'
        BY <1>1, <2>1, <2>2, <2>3 DEF Exports!TypeOK
    <2> QED BY <2>3, <2>4, <2>5 DEF ExportInvariant
<1> QED BY <1>2, <1>3, <1>4, <1>5, <1>6 DEF Exports!Next

-----------------------------------------------------------------------------
\* The admission of batches: the project they are judged by.

\* What a batch was judged by was in force Ttl before it came, what it reads from the database when
\* it came.
WellJudged(q) ==
    /\ q \in Admission!Accept /\ q.started <= now
    /\ q.row <= Len(project) /\ q.features <= Len(project)
    /\ q.row # 0 => Admission!Since(q.row, q.started - Ttl)
    /\ q.features # 0 => Admission!Since(q.features, q.started - Ttl)
    /\ q.pc = "new" => q.row = 0 /\ q.features = 0
    /\ q.pc \in {"features", "loaded"} => q.row # 0 /\ Admission!Since(q.row, q.started)
    /\ q.pc = "loaded" => q.features # 0 /\ Admission!Since(q.features, q.started)

\* A copy was in force Ttl before its end, which comes at most Ttl from now.
WellCopied(o) ==
    /\ o \in Admission!Copied /\ o.expires <= now + Ttl
    /\ o.row \in 1 .. Len(project) /\ o.features \in 1 .. Len(project)
    /\ Admission!Since(o.row, o.expires - Ttl) /\ Admission!Since(o.features, o.expires - Ttl)

AdmissionInvariant ==
    /\ now \in Nat /\ project \in Seq(Admission!Project) /\ Len(project) > 0
    /\ cache \in [Processes -> Admission!Copied \cup {NoOne}]
    /\ \A p \in Processes : cache[p] # NoOne => WellCopied(cache[p])
    /\ request \in [Plain.batches -> Admission!Accept]
    /\ \A r \in Plain.batches : WellJudged(request[r])

\* What a copy or a batch says stays true of it while the project and the time stand still.
LEMMA StandsStill ==
    ASSUME UNCHANGED <<now, project>>
    PROVE  /\ \A q : WellJudged(q) => WellJudged(q)'
           /\ \A o : WellCopied(o) => WellCopied(o)'
BY DEF WellJudged, WellCopied, Admission!Since

\* A change ends the version in force and adds the next one.
LEMMA ProjectGrows ==
    ASSUME now \in Nat, project \in Seq(Admission!Project), Len(project) > 0,
           NEW open \in {"closed", "open"}, NEW feature \in BOOLEAN,
           project' = Append([project EXCEPT ![Len(project)].until = now], Admission!Version(open, feature))
    PROVE  /\ project' \in Seq(Admission!Project) /\ Len(project') = Len(project) + 1
           /\ \A v \in 1 .. Len(project), t \in Int : Admission!Since(v, t) /\ t <= now => Admission!Since(v, t)'
<1>1. PICK last, next, closed :
        /\ last = [project[Len(project)] EXCEPT !.until = now] /\ next = Admission!Version(open, feature)
        /\ closed = [project EXCEPT ![Len(project)] = last]
        /\ project' = Append(closed, next)
    OBVIOUS
<1>2. last \in Admission!Project /\ last.until = now
    <2>1. project[Len(project)] \in Admission!Project
        BY <1>1
    <2> QED BY <1>1, <2>1 DEF Admission!Project
<1>3. next \in Admission!Project
    BY <1>1 DEF Admission!Version, Admission!Project
<1>4. /\ closed \in Seq(Admission!Project) /\ Len(closed) = Len(project)
      /\ \A v \in 1 .. Len(project) : closed[v] = IF v = Len(project) THEN last ELSE project[v]
    BY <1>1, <1>2, ExceptSeq
<1>5. /\ project' \in Seq(Admission!Project) /\ Len(project') = Len(project) + 1
      /\ \A v \in 1 .. Len(project) : project'[v] = closed[v]
    <2>1. /\ project' \in Seq(Admission!Project) /\ Len(project') = Len(closed) + 1
          /\ \A v \in 1 .. Len(closed) : project'[v] = closed[v]
        <3>1. closed \in Seq(Admission!Project) /\ next \in Admission!Project
            BY <1>3, <1>4
        <3>2. project' = Append(closed, next)
            BY <1>1
        <3>3. Append(closed, next) \in Seq(Admission!Project) /\ Len(Append(closed, next)) = Len(closed) + 1
            BY <3>1
        <3>4. \A v \in 1 .. Len(closed) : Append(closed, next)[v] = closed[v]
            BY <3>1
        <3> QED BY <3>2, <3>3, <3>4
    <2> QED BY <2>1, <1>4
<1>6. ASSUME NEW v \in 1 .. Len(project), NEW t \in Int, Admission!Since(v, t), t <= now
      PROVE  project'[v].until >= t
    <2>1. CASE v = Len(project)
        BY <1>1, <1>2, <1>4, <1>5, <1>6, <2>1
    <2>2. CASE v # Len(project)
        BY <1>4, <1>5, <1>6, <2>2 DEF Admission!Since
    <2> QED BY <2>1, <2>2
<1> QED BY <1>5, <1>6 DEF Admission!Since

\* And while the time goes on, or the project changes.
LEMMA GoesOn ==
    ASSUME AdmissionInvariant,
           \/ UNCHANGED project /\ now' = now + 1
           \/ /\ UNCHANGED now
              /\ \E open \in {"closed", "open"}, feature \in BOOLEAN :
                   project' = Append([project EXCEPT ![Len(project)].until = now], Admission!Version(open, feature))
    PROVE  /\ now' \in Nat /\ project' \in Seq(Admission!Project) /\ Len(project') > 0
           /\ \A q : WellJudged(q) => WellJudged(q)'
           /\ \A o : WellCopied(o) => WellCopied(o)'
<1>1. now \in Nat /\ project \in Seq(Admission!Project) /\ Len(project) > 0 /\ Len(project) \in Nat /\ Ttl \in Nat
    BY ServicesAssumption DEF AdmissionInvariant
<1>2. /\ now' \in Nat /\ now' >= now /\ Len(project') >= Len(project) /\ Len(project') \in Nat
      /\ project' \in Seq(Admission!Project)
      /\ \A v \in 1 .. Len(project), t \in Int : Admission!Since(v, t) /\ t <= now => Admission!Since(v, t)'
    <2>1. CASE UNCHANGED project /\ now' = now + 1
        BY <1>1, <2>1 DEF Admission!Since
    <2>2. ASSUME UNCHANGED now, NEW open \in {"closed", "open"}, NEW feature \in BOOLEAN,
                 project' = Append([project EXCEPT ![Len(project)].until = now], Admission!Version(open, feature))
          PROVE  /\ project' \in Seq(Admission!Project) /\ Len(project') = Len(project) + 1
                 /\ \A v \in 1 .. Len(project), t \in Int : Admission!Since(v, t) /\ t <= now => Admission!Since(v, t)'
        BY <1>1, <2>2, ProjectGrows
    <2> QED BY <1>1, <2>1, <2>2, SMTT(30)
<1>3. ASSUME NEW q, WellJudged(q) PROVE WellJudged(q)'
    <2>1. /\ q.started \in Nat /\ q.row \in Nat /\ q.features \in Nat /\ q.started <= now
          /\ q.row <= Len(project) /\ q.features <= Len(project)
        BY <1>3 DEF WellJudged, Admission!Accept
    <2>2. ASSUME NEW v \in Nat, v <= Len(project), v # 0
          PROVE  /\ Admission!Since(v, q.started - Ttl) => Admission!Since(v, q.started - Ttl)'
                 /\ Admission!Since(v, q.started) => Admission!Since(v, q.started)'
        BY <1>1, <1>2, <2>1, <2>2
    <2>3. q.started <= now' /\ q.row <= Len(project') /\ q.features <= Len(project')
        BY <1>1, <1>2, <2>1
    <2> QED BY <1>3, <2>1, <2>2, <2>3 DEF WellJudged
<1>4. ASSUME NEW o, WellCopied(o) PROVE WellCopied(o)'
    <2>1. /\ o.expires \in Nat /\ o.expires <= now + Ttl
          /\ o.row \in 1 .. Len(project) /\ o.features \in 1 .. Len(project)
        BY <1>4 DEF WellCopied, Admission!Copied
    <2>2. /\ o.expires <= now' + Ttl /\ o.row \in 1 .. Len(project') /\ o.features \in 1 .. Len(project')
          /\ o.expires - Ttl \in Int /\ o.expires - Ttl <= now
        BY <1>1, <1>2, <2>1, SMTT(30)
    <2> QED BY <1>2, <1>4, <2>1, <2>2 DEF WellCopied
<1> QED BY <1>1, <1>2, <1>3, <1>4

\* A batch that was answered, or has not come, is judged by nothing.
LEMMA Unjudged ==
    ASSUME AdmissionInvariant,
           NEW code \in {"none", "accepted", "unavailable", "refused"}, NEW failed \in BOOLEAN, NEW q,
           \/ q = Admission!NoRequest
           \/ q = Admission!Answered(code)
           \/ q = [Admission!Answered(code) EXCEPT !.failed = failed]
    PROVE  WellJudged(q)
<1>1. Admission!NoRequest \in Admission!Accept
    BY DEF Admission!NoRequest, Admission!Accept
<1>2. PICK fresh, answered :
        /\ fresh = Admission!NoRequest /\ answered = [fresh EXCEPT !.pc = "answered", !.code = code]
        /\ q = fresh \/ q = answered \/ q = [answered EXCEPT !.failed = failed]
    BY DEF Admission!Answered
<1>3. fresh.started = 0 /\ fresh.row = 0 /\ fresh.features = 0 /\ fresh.pc = "new"
    BY <1>2 DEF Admission!NoRequest
<1>4. /\ answered \in Admission!Accept /\ answered.pc = "answered"
      /\ answered.started = 0 /\ answered.row = 0 /\ answered.features = 0
    BY <1>1, <1>2, <1>3 DEF Admission!Accept
<1>5. /\ q \in Admission!Accept /\ q.pc \in {"new", "answered"}
      /\ q.started = 0 /\ q.row = 0 /\ q.features = 0
    BY <1>1, <1>2, <1>3, <1>4, ZenonT(30) DEF Admission!Accept
<1>6. now \in Nat /\ Len(project) \in Nat
    BY DEF AdmissionInvariant
<1> QED BY <1>5, <1>6 DEF WellJudged

\* One batch goes on, with a copy that its process may have made.
LEMMA BatchKeeps ==
    ASSUME AdmissionInvariant, NEW r, NEW q, WellJudged(q), request' = [request EXCEPT ![r] = q],
           UNCHANGED <<now, project>>,
           \/ UNCHANGED cache
           \/ \E p \in Processes : \E o : cache' = [cache EXCEPT ![p] = o] /\ (o = NoOne \/ WellCopied(o))
    PROVE  AdmissionInvariant'
<1>1. /\ request' \in [Plain.batches -> Admission!Accept]
      /\ \A s \in Plain.batches : request'[s] = IF s = r THEN q ELSE request[s]
    BY DEF AdmissionInvariant, WellJudged
<1>2. \A s \in Plain.batches : WellJudged(request'[s])
    BY <1>1 DEF AdmissionInvariant
<1>3. /\ cache' \in [Processes -> Admission!Copied \cup {NoOne}]
      /\ \A p \in Processes : cache'[p] # NoOne => WellCopied(cache'[p])
    <2>1. CASE UNCHANGED cache
        BY <2>1 DEF AdmissionInvariant
    <2>2. ASSUME NEW p \in Processes, NEW o, cache' = [cache EXCEPT ![p] = o], o = NoOne \/ WellCopied(o)
          PROVE  /\ cache' \in [Processes -> Admission!Copied \cup {NoOne}]
                 /\ \A x \in Processes : cache'[x] # NoOne => WellCopied(cache'[x])
        <3>1. o \in Admission!Copied \cup {NoOne} /\ cache \in [Processes -> Admission!Copied \cup {NoOne}]
            BY <2>2 DEF WellCopied, AdmissionInvariant
        <3>2. \A x \in Processes : cache'[x] = IF x = p THEN o ELSE cache[x]
            BY <2>2, <3>1
        <3>3. \A x \in Processes : cache[x] # NoOne => WellCopied(cache[x])
            BY DEF AdmissionInvariant
        <3> QED BY <2>2, <3>1, <3>2, <3>3
    <2> QED BY <2>1, <2>2
<1>4. /\ \A s \in Plain.batches : WellJudged(request[s])'
      /\ \A p \in Processes : cache'[p] # NoOne => WellCopied(cache[p])'
    <2>1. /\ \A q_1 : WellJudged(q_1) => WellJudged(q_1)'
          /\ \A o : WellCopied(o) => WellCopied(o)'
        BY StandsStill
    <2> QED BY <1>2, <1>3, <2>1
<1> QED BY <1>1, <1>3, <1>4 DEF AdmissionInvariant

\* Nothing is cached, and no batch has come.
LEMMA AdmissionBegins == Admission!Init => AdmissionInvariant
<1> SUFFICES ASSUME Admission!Init PROVE AdmissionInvariant
    OBVIOUS
<1>1. PICK open \in {"missing", "open"} : project = <<Admission!Version(open, open = "open")>>
    BY DEF Admission!Init
<1>2. PICK feature, first :
        feature \in BOOLEAN /\ first = Admission!Version(open, feature) /\ project = <<first>>
    BY <1>1
<1>3. first \in Admission!Project
    BY <1>2 DEF Admission!Version, Admission!Project
<1>4. project \in Seq(Admission!Project) /\ Len(project) = 1 /\ now = 0
    BY <1>2, <1>3 DEF Admission!Init
<1>5. PICK fresh : fresh = Admission!NoRequest /\ request = [r \in Plain.batches |-> fresh]
    BY DEF Admission!Init
<1>6. /\ fresh \in Admission!Accept /\ fresh.started = 0 /\ fresh.row = 0 /\ fresh.features = 0 /\ fresh.pc = "new"
    BY <1>5 DEF Admission!NoRequest, Admission!Accept
<1>7. WellJudged(fresh)
    BY <1>4, <1>6 DEF WellJudged
<1>8. cache = [p \in Processes |-> NoOne]
    BY DEF Admission!Init
<1> QED BY <1>4, <1>5, <1>6, <1>7, <1>8 DEF AdmissionInvariant

\* A batch that goes on without reading the project is judged as it was.
LEMMA OnlyGoesOn ==
    ASSUME NEW q, WellJudged(q), NEW pc \in {"probe", "limit", "publish", "chained"}
    PROVE  WellJudged([q EXCEPT !.pc = pc])
BY DEF WellJudged, Admission!Accept

\* With a copy that has not expired, or with what is read now.
LEMMA BeginKeeps ==
    ASSUME AdmissionInvariant, NEW r \in Plain.batches,
           \/ Admission!Begin(r) \/ Admission!Ask(r) \/ Admission!ReadRow(r) \/ Admission!ReadFeatures(r)
           \/ Admission!Load(r)
    PROVE  AdmissionInvariant'
<1>0. /\ now \in Nat /\ Len(project) \in Nat \ {0} /\ Ttl \in Nat /\ request[r] \in Admission!Accept
      /\ WellJudged(request[r]) /\ Plain.processOf[r] \in Processes
    BY ServicesAssumption DEF AdmissionInvariant, Batched
<1>1. ASSUME NEW q, WellJudged([q EXCEPT !.pc = "probe"]), Admission!Judged(r, q)
      PROVE  \E n : WellJudged(n) /\ request' = [request EXCEPT ![r] = n]
    <2>1. \/ request' = [request EXCEPT ![r] = [q EXCEPT !.pc = "probe"]]
          \/ request' = [request EXCEPT ![r] = Admission!Answered("refused")]
        BY <1>1 DEF Admission!Judged
    <2>2. WellJudged([q EXCEPT !.pc = "probe"]) /\ WellJudged(Admission!Answered("refused"))
        BY <1>1, Unjudged
    <2> QED BY <2>1, <2>2
<1>2. CASE Admission!Begin(r)
    <2>1. PICK o, q, fresh :
            /\ o = cache[Plain.processOf[r]] /\ o # NoOne /\ o.expires > now
            /\ q = [fresh EXCEPT !.started = now, !.row = o.row, !.features = o.features]
            /\ fresh = Admission!NoRequest
            /\ Admission!Judged(r, q)
        BY <1>2, Zenon DEF Admission!Begin, Admission!Fresh
    <2>2. WellCopied(o)
        BY <1>0, <2>1 DEF AdmissionInvariant
    <2>3. /\ o.expires \in Nat /\ o.row \in 1 .. Len(project) /\ o.features \in 1 .. Len(project)
          /\ Admission!Since(o.row, o.expires - Ttl) /\ Admission!Since(o.features, o.expires - Ttl)
        BY <2>2 DEF WellCopied, Admission!Copied
    <2>4. ASSUME NEW v \in 1 .. Len(project), Admission!Since(v, o.expires - Ttl)
          PROVE  Admission!Since(v, now - Ttl)
        <3>1. CASE v = Len(project)
            BY <3>1 DEF Admission!Since
        <3>2. CASE v # Len(project)
            <4>1. project[v].until \in Nat /\ project[v].until >= o.expires - Ttl
                <5>1. project[v] \in Admission!Project
                    BY DEF AdmissionInvariant
                <5> QED BY <2>4, <3>2, <5>1 DEF Admission!Since, Admission!Project
            <4> QED BY <4>1, <1>0, <2>1, <2>3, SMTT(30) DEF Admission!Since
        <3> QED BY <3>1, <3>2
    <2>5. /\ q \in Admission!Accept /\ q.started = now /\ q.row = o.row /\ q.features = o.features
        <3>1. fresh \in Admission!Accept /\ fresh.pc = "new"
            BY <2>1 DEF Admission!NoRequest, Admission!Accept
        <3>2. now \in Nat /\ o.row \in Nat /\ o.features \in Nat
            BY <1>0, <2>3
        <3>3. q = [fresh EXCEPT !.started = now, !.row = o.row, !.features = o.features]
            BY <2>1
        <3> HIDE <2>1
        <3> QED BY <3>1, <3>2, <3>3 DEF Admission!Accept
    <2>6. WellJudged([q EXCEPT !.pc = "probe"])
        <3>1. PICK j : j = [q EXCEPT !.pc = "probe"]
            OBVIOUS
        <3>2. /\ j \in Admission!Accept /\ j.started = now /\ j.row = o.row /\ j.features = o.features
              /\ j.pc = "probe"
            BY <2>5, <3>1 DEF Admission!Accept
        <3>3. WellJudged(j)
            BY <1>0, <2>3, <2>4, <3>2 DEF WellJudged
        <3> QED BY <3>1, <3>3
    <2> QED BY <1>1, <1>2, <2>1, <2>6, BatchKeeps DEF Admission!Begin
<1>3. CASE Admission!Ask(r)
    <2>1. PICK q : /\ q = [request[r] EXCEPT !.pc = "row", !.started = now]
                   /\ request' = [request EXCEPT ![r] = q] /\ request[r].pc = "new"
        BY <1>3 DEF Admission!Ask
    <2>2. /\ q \in Admission!Accept /\ q.started = now /\ q.row = request[r].row
          /\ q.features = request[r].features /\ q.pc = "row"
        BY <1>0, <2>1 DEF Admission!Accept
    <2>3. WellJudged(q)
        BY <1>0, <2>1, <2>2 DEF WellJudged
    <2> QED BY <1>3, <2>1, <2>3, BatchKeeps DEF Admission!Ask
<1>4. CASE Admission!ReadRow(r)
    <2>1. PICK q : /\ q = [request[r] EXCEPT !.pc = "features", !.row = Len(project)]
                   /\ request' = [request EXCEPT ![r] = q]
        BY <1>4 DEF Admission!ReadRow, Admission!Current
    <2>2. /\ q \in Admission!Accept /\ q.started = request[r].started /\ q.row = Len(project)
          /\ q.features = request[r].features /\ q.pc = "features"
        BY <1>0, <2>1 DEF Admission!Accept
    <2>3. WellJudged(q)
        BY <1>0, <2>2 DEF WellJudged, Admission!Since
    <2> QED BY <1>4, <2>1, <2>3, BatchKeeps DEF Admission!ReadRow
<1>5. CASE Admission!ReadFeatures(r)
    <2>1. PICK q : /\ q = [request[r] EXCEPT !.pc = "loaded", !.features = Len(project)]
                   /\ request' = [request EXCEPT ![r] = q] /\ request[r].pc = "features"
        BY <1>5 DEF Admission!ReadFeatures, Admission!Current
    <2>2. /\ q \in Admission!Accept /\ q.started = request[r].started /\ q.row = request[r].row
          /\ q.features = Len(project) /\ q.pc = "loaded"
        BY <1>0, <2>1 DEF Admission!Accept
    <2>3. WellJudged(q)
        BY <1>0, <2>1, <2>2 DEF WellJudged, Admission!Since
    <2> QED BY <1>5, <2>1, <2>3, BatchKeeps DEF Admission!ReadFeatures
<1>6. CASE Admission!Load(r)
    <2>1. PICK o : /\ o = Admission!Copy(r) /\ cache' = [cache EXCEPT ![Plain.processOf[r]] = o]
                   /\ Admission!Judged(r, request[r]) /\ request[r].pc = "loaded"
        BY <1>6 DEF Admission!Load
    <2>2. /\ request[r].row \in Nat \ {0} /\ request[r].features \in Nat \ {0} /\ request[r].started \in Nat
          /\ request[r].row <= Len(project) /\ request[r].features <= Len(project) /\ request[r].started <= now
          /\ Admission!Since(request[r].row, request[r].started)
          /\ Admission!Since(request[r].features, request[r].started)
        BY <1>0, <2>1 DEF WellJudged, Admission!Accept
    <2>3. /\ o \in Admission!Copied /\ o.row = request[r].row /\ o.features = request[r].features
          /\ o.expires = request[r].started + Ttl
        BY <1>0, <2>1, <2>2 DEF Admission!Copy, Admission!Copied
    <2>4. o.expires - Ttl = request[r].started /\ o.expires <= now + Ttl
        BY <1>0, <2>2, <2>3
    <2>5. WellCopied(o)
        BY <1>0, <2>2, <2>3, <2>4 DEF WellCopied
    <2>6. WellJudged([request[r] EXCEPT !.pc = "probe"])
        BY <1>0, OnlyGoesOn
    <2> QED BY <1>0, <1>1, <1>6, <2>1, <2>5, <2>6, BatchKeeps DEF Admission!Load
<1> QED BY <1>2, <1>3, <1>4, <1>5, <1>6

\* The probe, the limiter and the features, and the publication.
LEMMA GoOnKeeps ==
    ASSUME AdmissionInvariant, NEW r \in Plain.batches,
           Admission!Probe(r) \/ Admission!Limit(r) \/ Admission!Publish(r) \/ Admission!Enqueue(r)
    PROVE  AdmissionInvariant'
<1>1. WellJudged(request[r])
    BY DEF AdmissionInvariant
<1>2. /\ WellJudged([request[r] EXCEPT !.pc = "limit"]) /\ WellJudged([request[r] EXCEPT !.pc = "publish"])
      /\ WellJudged([request[r] EXCEPT !.pc = "chained"])
    BY <1>1, OnlyGoesOn
<1>3. WellJudged(Admission!Answered("refused"))
    BY Unjudged
<1>4. \E q : WellJudged(q) /\ request' = [request EXCEPT ![r] = q]
    <2>1. CASE Admission!Probe(r)
        BY <2>1, <1>2, <1>3 DEF Admission!Probe, Admission!Answer
    <2>2. CASE Admission!Limit(r)
        BY <2>2, <1>2, <1>3 DEF Admission!Limit, Admission!Answer
    <2>3. CASE Admission!Publish(r)
        <3>1. PICK outcome \in Admission!Outcomes : Admission!Sent(r, outcome)
            BY <2>3 DEF Admission!Publish
        <3>2. PICK code \in {"accepted", "unavailable"}, failed \in BOOLEAN :
                request' = [request EXCEPT ![r] = [Admission!Answered(code) EXCEPT !.failed = failed]]
            BY <3>1 DEF Admission!Sent
        <3>3. WellJudged([Admission!Answered(code) EXCEPT !.failed = failed])
            BY Unjudged
        <3> QED BY <3>2, <3>3
    <2>4. CASE Admission!Enqueue(r)
        BY <2>4, <1>2, <1>3 DEF Admission!Enqueue, Admission!Answer
    <2> QED BY <2>1, <2>2, <2>3, <2>4
<1>5. UNCHANGED <<now, project, cache>>
    BY DEF Admission!Probe, Admission!Limit, Admission!Publish, Admission!Enqueue
<1> QED BY <1>4, <1>5, BatchKeeps

\* A copy is dropped, or the process stops: what is left is as it was.
LEMMA DropKeeps ==
    ASSUME AdmissionInvariant, UNCHANGED <<now, project>>, NEW p \in Processes,
           cache' = [cache EXCEPT ![p] = NoOne],
           \/ UNCHANGED request
           \/ \E gone : request' = [r \in Plain.batches |-> IF r \in gone THEN Admission!Answered("refused")
                                                                ELSE request[r]]
    PROVE  AdmissionInvariant'
<1>1. \A x \in Processes : cache'[x] # NoOne => cache'[x] = cache[x] /\ WellCopied(cache[x])
    BY DEF AdmissionInvariant
<1>2. cache' \in [Processes -> Admission!Copied \cup {NoOne}]
    BY DEF AdmissionInvariant
<1>3. WellJudged(Admission!Answered("refused"))
    BY Unjudged
<1>4. \A r \in Plain.batches : WellJudged(request'[r])
    BY <1>3 DEF AdmissionInvariant
<1>5. request' \in [Plain.batches -> Admission!Accept]
    BY <1>4 DEF AdmissionInvariant, WellJudged
<1>6. /\ \A q : WellJudged(q) => WellJudged(q)'
      /\ \A o : WellCopied(o) => WellCopied(o)'
    BY StandsStill
<1>7. /\ \A r \in Plain.batches : WellJudged(request[r])'
      /\ \A x \in Processes : cache'[x] # NoOne => WellCopied(cache[x])'
    BY <1>1, <1>4, <1>6
<1> QED BY <1>2, <1>5, <1>7 DEF AdmissionInvariant

\* Every step of the admission keeps what copies and batches say.
LEMMA AdmissionKept == AdmissionInvariant /\ Admission!Next => AdmissionInvariant'
<1> SUFFICES ASSUME AdmissionInvariant, Admission!Next PROVE AdmissionInvariant'
    OBVIOUS
<1>1. CASE \/ \E open \in {"closed", "open"}, feature \in BOOLEAN, p \in Processes \cup {NoOne} :
                Admission!Change(open, feature, p)
           \/ Admission!Tick
    <2>1. /\ UNCHANGED <<cache, request>>
          /\ \/ UNCHANGED project /\ now' = now + 1
             \/ /\ UNCHANGED now
                /\ \E open \in {"closed", "open"}, feature \in BOOLEAN :
                     project' = Append([project EXCEPT ![Len(project)].until = now], Admission!Version(open, feature))
        BY <1>1 DEF Admission!Change, Admission!Tick, Admission!Current
    <2>2. /\ now' \in Nat /\ project' \in Seq(Admission!Project) /\ Len(project') > 0
          /\ \A q : WellJudged(q) => WellJudged(q)'
          /\ \A o : WellCopied(o) => WellCopied(o)'
        BY <2>1, GoesOn
    <2>3. /\ \A r \in Plain.batches : WellJudged(request[r])'
          /\ \A p \in Processes : cache'[p] # NoOne => WellCopied(cache[p])'
        BY <2>1, <2>2 DEF AdmissionInvariant
    <2> QED BY <2>1, <2>2, <2>3 DEF AdmissionInvariant
<1>2. ASSUME NEW p \in Processes, Admission!Invalidate(p) \/ Admission!Evict(p)
      PROVE  AdmissionInvariant'
    BY <1>2, DropKeeps DEF Admission!Invalidate, Admission!Evict
<1>3. ASSUME NEW p \in Processes, Admission!Crash(p)
      PROVE  AdmissionInvariant'
    <2> DEFINE gone == {r \in Plain.batches : Plain.processOf[r] = p /\ request[r].pc \notin {"new", "answered"}}
    <2>1. request' = [r \in Plain.batches |-> IF r \in gone THEN Admission!Answered("refused") ELSE request[r]]
        BY <1>3 DEF Admission!Crash
    <2>2. UNCHANGED <<now, project>> /\ cache' = [cache EXCEPT ![p] = NoOne]
        BY <1>3 DEF Admission!Crash
    <2> HIDE DEF gone
    <2> QED BY <2>1, <2>2, DropKeeps
<1>4. ASSUME NEW p \in Processes, Admission!Transact(p)
      PROVE  AdmissionInvariant'
    <2>1. PICK r : \E outcome \in Admission!Outcomes : Admission!Sent(r, outcome)
        BY <1>4 DEF Admission!Transact
    <2>2. PICK code \in {"accepted", "unavailable"}, failed \in BOOLEAN :
            request' = [request EXCEPT ![r] = [Admission!Answered(code) EXCEPT !.failed = failed]]
        BY <2>1 DEF Admission!Sent
    <2>3. WellJudged([Admission!Answered(code) EXCEPT !.failed = failed])
        BY Unjudged
    <2> QED BY <1>4, <2>2, <2>3, BatchKeeps DEF Admission!Transact
<1>5. CASE Admission!Block \/ Admission!Unblock
    <2>1. UNCHANGED <<now, project, cache, request>>
        BY <1>5 DEF Admission!Block, Admission!Unblock
    <2> QED BY <2>1 DEF AdmissionInvariant, WellJudged, WellCopied, Admission!Since
<1> QED BY <1>1, <1>2, <1>3, <1>4, <1>5, BeginKeeps, GoOnKeeps DEF Admission!Next

\* The invariant says what the property does.
LEMMA NothingStale == AdmissionInvariant => Admission!NeverStale
BY DEF AdmissionInvariant, WellJudged, WellCopied, Admission!NeverStale

-----------------------------------------------------------------------------
\* The admission of batches: the chain of object facts.

Chain(p) == {r \in Chaining.batches : Chaining.processOf[r] = p /\ request[r].pc = "chained"}

ChainInvariant ==
    /\ request \in [Chaining.batches -> Chained!Accept]
    /\ chain \in [Processes -> Seq(Chaining.batches)] /\ queued \in [Processes -> Nat]
    /\ \A p \in Processes : \A i, j \in DOMAIN chain[p] : chain[p][i] = chain[p][j] => i = j
    /\ Chained!BlockHolds /\ Chained!ChainSound

\* What the variables of the chain are, entry by entry.
LEMMA ChainFields ==
    ASSUME ChainInvariant, NEW p \in Processes
    PROVE  /\ chain[p] \in Seq(Chaining.batches) /\ Len(chain[p]) \in Nat /\ DOMAIN chain[p] = 1 .. Len(chain[p])
           /\ \A i \in DOMAIN chain[p] : chain[p][i] \in Chain(p)
           /\ \A r \in Chain(p) : \E i \in DOMAIN chain[p] : r = chain[p][i]
           /\ queued[p] = Len(chain[p])
<1>1. chain[p] \in Seq(Chaining.batches)
    BY DEF ChainInvariant
<1>2. Len(chain[p]) \in Nat /\ DOMAIN chain[p] = 1 .. Len(chain[p])
    BY <1>1
<1>3. queued[p] = Len(chain[p]) /\ {chain[p][i] : i \in DOMAIN chain[p]} = Chain(p)
    BY DEF ChainInvariant, Chained!ChainSound, Chained!Range, Chain
<1> QED BY <1>1, <1>2, <1>3

\* A step that leaves the chains alone, and lets no batch into them or out of them.
LEMMA ChainRests ==
    ASSUME ChainInvariant, UNCHANGED <<chain, queued, blocked>>, published \subseteq published',
           NEW r \in Chaining.batches, NEW q \in Chained!Accept, request' = [request EXCEPT ![r] = q],
           q.pc # "chained", request[r].pc # "chained",
           q.code = "accepted" => r \in published', q.code = "unavailable" => q.failed,
           blocked # NoOne /\ q.pc \in {"limit", "publish"} => r \in blocked
    PROVE  ChainInvariant'
<1>1. /\ request' \in [Chaining.batches -> Chained!Accept]
      /\ \A s \in Chaining.batches : request'[s] = IF s = r THEN q ELSE request[s]
    BY DEF ChainInvariant
<1>2. \A p \in Processes : Chain(p)' = Chain(p)
    BY <1>1 DEF Chain
<1>3. Chained!BlockHolds'
    BY <1>1 DEF ChainInvariant, Chained!BlockHolds
<1>4. Chained!ChainSound'
    <2>1. \A p \in Processes : queued[p] = Len(chain[p]) /\ Chained!Range(chain[p]) = Chain(p)
        BY DEF ChainInvariant, Chained!ChainSound, Chain
    <2>2. (\A p \in Processes : queued[p] = Len(chain[p]) /\ Chained!Range(chain[p]) = Chain(p))'
        BY <1>2, <2>1
    <2>3. (\A s \in Chaining.batches :
             /\ request[s].code = "accepted" => s \in published
             /\ request[s].code = "unavailable" => request[s].failed)'
        BY <1>1 DEF ChainInvariant, Chained!ChainSound
    <2> QED BY <2>2, <2>3 DEF Chained!ChainSound, Chain
<1> QED BY <1>1, <1>3, <1>4 DEF ChainInvariant

\* A batch joins the end of the chain of its process.
LEMMA EnqueueKeeps ==
    ASSUME ChainInvariant, NEW r \in Chaining.batches, Chained!Enqueue(r), queued[Chaining.processOf[r]] < Chaining.chain
    PROVE  ChainInvariant'
<1> DEFINE p == Chaining.processOf[r]
<1>0. p \in Processes
    BY ServicesAssumption DEF Batched
<1>1. PICK q :
        /\ request[r].pc = "publish" /\ q = [request[r] EXCEPT !.pc = "chained"] /\ request' = [request EXCEPT ![r] = q]
        /\ chain' = [chain EXCEPT ![p] = Append(chain[p], r)] /\ queued' = [queued EXCEPT ![p] = queued[p] + 1]
        /\ UNCHANGED <<blocked, published>>
    <2>1. ~(queued[p] >= Chaining.chain)
        BY <1>0, ServicesAssumption, ChainFields, SMTT(30) DEF Batched
    <2> HIDE DEF p
    <2> QED BY <2>1, Zenon DEF Chained!Enqueue, p
<1> HIDE DEF p
<1>2. /\ q \in Chained!Accept /\ q.pc = "chained" /\ q.code = request[r].code /\ q.failed = request[r].failed
    BY <1>1 DEF ChainInvariant, Chained!Accept
<1>3. /\ request' \in [Chaining.batches -> Chained!Accept]
      /\ \A s \in Chaining.batches : request'[s] = IF s = r THEN q ELSE request[s]
    BY <1>1, <1>2 DEF ChainInvariant
<1>4. /\ chain[p] \in Seq(Chaining.batches) /\ Len(chain[p]) \in Nat /\ DOMAIN chain[p] = 1 .. Len(chain[p])
      /\ \A i \in DOMAIN chain[p] : chain[p][i] \in Chain(p)
      /\ \A s \in Chain(p) : \E i \in DOMAIN chain[p] : s = chain[p][i]
      /\ queued[p] = Len(chain[p])
    BY <1>0, ChainFields
<1>5. PICK new : new = Append(chain[p], r)
    OBVIOUS
<1>6. /\ new \in Seq(Chaining.batches) /\ Len(new) = Len(chain[p]) + 1 /\ new[Len(chain[p]) + 1] = r
      /\ DOMAIN new = DOMAIN chain[p] \cup {Len(chain[p]) + 1} /\ \A i \in DOMAIN chain[p] : new[i] = chain[p][i]
    <2>1. PICK old, all : old = chain[p] /\ all = Chaining.batches /\ old \in Seq(all) /\ r \in all
        BY <1>4
    <2>2. new = Append(old, r)
        BY <1>5, <2>1
    <2>3. /\ new \in Seq(all) /\ Len(new) = Len(old) + 1 /\ DOMAIN new = DOMAIN old \cup {Len(old) + 1}
          /\ new[Len(old) + 1] = r /\ \A i \in DOMAIN old : new[i] = old[i]
        <3>1. old \in Seq(all) /\ r \in all
            BY <2>1
        <3> QED BY <2>2, <3>1, Appended
    <2> QED BY <2>1, <2>3
<1>7. Len(chain[p]) + 1 \notin DOMAIN chain[p]
    BY <1>4
<1>8. chain' \in [Processes -> Seq(Chaining.batches)] /\ \A o \in Processes : chain'[o] = IF o = p THEN new ELSE chain[o]
    BY <1>0, <1>1, <1>5, <1>6 DEF ChainInvariant
<1>9. queued' \in [Processes -> Nat] /\ \A o \in Processes : queued'[o] = IF o = p THEN Len(new) ELSE queued[o]
    BY <1>0, <1>1, <1>4, <1>6 DEF ChainInvariant
<1>10. r \notin Chain(p) /\ Chain(p)' = Chain(p) \cup {r} /\ \A o \in Processes \ {p} : Chain(o)' = Chain(o)
    BY <1>1, <1>2, <1>3 DEF Chain, p
<1>11. (\A o \in Processes : \A i, j \in DOMAIN chain[o] : chain[o][i] = chain[o][j] => i = j)'
    <2>1. ASSUME NEW i \in DOMAIN new, NEW j \in DOMAIN new, new[i] = new[j] PROVE i = j
        <3>1. \A k \in DOMAIN chain[p] : new[k] = chain[p][k] /\ new[k] # r
            BY <1>4, <1>6, <1>10
        <3>2. CASE i \in DOMAIN chain[p] /\ j \in DOMAIN chain[p]
            BY <1>0, <2>1, <3>1, <3>2 DEF ChainInvariant
        <3> QED BY <1>6, <2>1, <3>1, <3>2
    <2> QED BY <1>8, <2>1 DEF ChainInvariant
<1>12. Chained!BlockHolds'
    BY <1>1, <1>3 DEF ChainInvariant, Chained!BlockHolds
<1>13. Chained!ChainSound'
    <2>1. Chained!Range(new) = Chain(p)'
        BY <1>4, <1>6, <1>7, <1>10 DEF Chained!Range
    <2>2. \A o \in Processes : queued[o] = Len(chain[o]) /\ Chained!Range(chain[o]) = Chain(o)
        BY DEF ChainInvariant, Chained!ChainSound, Chain
    <2>3. (\A o \in Processes : queued[o] = Len(chain[o]) /\ Chained!Range(chain[o]) = Chain(o))'
        BY <1>8, <1>9, <1>10, <2>1, <2>2
    <2>4. (\A s \in Chaining.batches :
             /\ request[s].code = "accepted" => s \in published
             /\ request[s].code = "unavailable" => request[s].failed)'
        BY <1>1, <1>2, <1>3 DEF ChainInvariant, Chained!ChainSound
    <2> QED BY <2>3, <2>4 DEF Chained!ChainSound, Chain
<1> QED BY <1>3, <1>8, <1>9, <1>11, <1>12, <1>13 DEF ChainInvariant

\* What is answered carries the code, and failed for its own reason.
LEMMA AnsweredAccept ==
    ASSUME NEW code \in {"accepted", "unavailable", "refused"}, NEW failed \in BOOLEAN, NEW q,
           \/ q = Chained!Answered(code) /\ failed = FALSE
           \/ q = [Chained!Answered(code) EXCEPT !.failed = failed]
    PROVE  q \in Chained!Accept /\ q.pc = "answered" /\ q.code = code /\ q.failed = failed
<1>1. PICK fresh, answered :
        /\ fresh = Chained!NoRequest /\ answered = [fresh EXCEPT !.pc = "answered", !.code = code]
        /\ (q = answered /\ failed = FALSE) \/ q = [answered EXCEPT !.failed = failed]
    BY DEF Chained!Answered
<1>2. fresh \in Chained!Accept /\ fresh.failed = FALSE
    BY <1>1 DEF Chained!NoRequest, Chained!Accept
<1>3. answered \in Chained!Accept /\ answered.pc = "answered" /\ answered.code = code /\ answered.failed = FALSE
    BY <1>1, <1>2 DEF Chained!Accept
<1> QED BY <1>1, <1>3 DEF Chained!Accept

\* What a send came to.
LEMMA SentAccept ==
    ASSUME NEW r, NEW outcome \in Chained!Outcomes, Chained!Sent(r, outcome)
    PROVE  \E q \in Chained!Accept :
             /\ request' = [request EXCEPT ![r] = q] /\ q.pc = "answered" /\ published \subseteq published'
             /\ (q.code = "accepted" => r \in published') /\ (q.code = "unavailable" => q.failed)
<1>1. CASE outcome = "sent"
    <2>1. PICK q : /\ q = [Chained!Answered("accepted") EXCEPT !.failed = FALSE] /\ request' = [request EXCEPT ![r] = q]
                   /\ published' = published \cup {r}
        BY <1>1 DEF Chained!Sent
    <2>2. q \in Chained!Accept /\ q.pc = "answered" /\ q.code = "accepted"
        BY <2>1, AnsweredAccept
    <2> QED BY <2>1, <2>2
<1>2. CASE outcome # "sent"
    <2>1. PICK q : /\ q = [Chained!Answered("unavailable") EXCEPT !.failed = TRUE] /\ request' = [request EXCEPT ![r] = q]
                   /\ published \subseteq published'
        BY <1>2 DEF Chained!Sent
    <2>2. q \in Chained!Accept /\ q.pc = "answered" /\ q.code = "unavailable" /\ q.failed = TRUE
        BY <2>1, AnsweredAccept
    <2> QED BY <2>1, <2>2
<1> QED BY <1>1, <1>2

\* The first of a chain is sent, and leaves it.
LEMMA TransactKeeps ==
    ASSUME ChainInvariant, NEW p \in Processes, Chained!Transact(p)
    PROVE  ChainInvariant'
<1>1. PICK r, old, new :
        /\ old = chain[p] /\ old # <<>> /\ r = Head(old) /\ new = Tail(old)
        /\ chain' = [chain EXCEPT ![p] = new] /\ queued' = [queued EXCEPT ![p] = queued[p] - 1]
        /\ UNCHANGED blocked
        /\ \E outcome \in Chained!Outcomes : Chained!Sent(r, outcome)
    BY DEF Chained!Transact, Chained!LeaveChain
<1>2. PICK q \in Chained!Accept :
        /\ request' = [request EXCEPT ![r] = q] /\ q.pc = "answered" /\ published \subseteq published'
        /\ (q.code = "accepted" => r \in published') /\ (q.code = "unavailable" => q.failed)
    BY <1>1, SentAccept
<1>3. /\ old \in Seq(Chaining.batches) /\ Len(old) \in Nat /\ DOMAIN old = 1 .. Len(old)
      /\ \A i \in DOMAIN old : old[i] \in Chain(p)
      /\ \A s \in Chain(p) : \E i \in DOMAIN old : s = old[i]
      /\ queued[p] = Len(old)
    BY <1>1, ChainFields
<1>4. /\ Len(old) > 0 /\ r = old[1]
      /\ new \in Seq(Chaining.batches) /\ Len(new) = Len(old) - 1
      /\ \A i \in 1 .. Len(new) : new[i] = old[i + 1]
    <2>1. PICK all : all = Chaining.batches
        OBVIOUS
    <2>2. old \in Seq(all) /\ old # <<>> /\ new = Tail(old)
        BY <1>1, <1>3, <2>1
    <2>3. /\ new \in Seq(all) /\ Len(old) > 0 /\ Len(new) = Len(old) - 1 /\ Head(old) = old[1]
          /\ \A i \in 1 .. Len(new) : new[i] = old[i + 1]
        BY <2>2, Shortened
    <2> QED BY <1>1, <2>1, <2>3
<1>5. r \in Chain(p) /\ r \in Chaining.batches /\ Chaining.processOf[r] = p
    BY <1>3, <1>4 DEF Chain
<1>6. /\ request' \in [Chaining.batches -> Chained!Accept]
      /\ \A s \in Chaining.batches : request'[s] = IF s = r THEN q ELSE request[s]
    BY <1>2, <1>5 DEF ChainInvariant
<1>7. Chain(p)' = Chain(p) \ {r} /\ \A o \in Processes \ {p} : Chain(o)' = Chain(o)
    BY <1>2, <1>5, <1>6 DEF Chain
<1>8. chain' \in [Processes -> Seq(Chaining.batches)] /\ \A o \in Processes : chain'[o] = IF o = p THEN new ELSE chain[o]
    BY <1>1, <1>4 DEF ChainInvariant
<1>9. queued' \in [Processes -> Nat] /\ \A o \in Processes : queued'[o] = IF o = p THEN Len(new) ELSE queued[o]
    BY <1>1, <1>3, <1>4 DEF ChainInvariant
<1>10. \A i, j \in DOMAIN old : old[i] = old[j] => i = j
    BY <1>1 DEF ChainInvariant
<1>11. DOMAIN new = 1 .. Len(new)
    BY <1>4
<1>12. (\A o \in Processes : \A i, j \in DOMAIN chain[o] : chain[o][i] = chain[o][j] => i = j)'
    <2>1. \A i, j \in DOMAIN new : new[i] = new[j] => i = j
        BY <1>3, <1>4, <1>10, <1>11, SMTT(30)
    <2> QED BY <1>8, <2>1 DEF ChainInvariant
<1>13. Chained!BlockHolds'
    BY <1>1, <1>2, <1>6 DEF ChainInvariant, Chained!BlockHolds
<1>14. Chained!ChainSound'
    <2>1. Chained!Range(new) = Chain(p)'
        <3>1. ASSUME NEW i \in 1 .. Len(new) PROVE new[i] \in Chain(p) \ {r}
            <4>1. i + 1 \in DOMAIN old /\ 1 \in DOMAIN old /\ i + 1 # 1 /\ new[i] = old[i + 1]
                BY <1>3, <1>4
            <4> QED BY <1>3, <1>4, <1>10, <4>1
        <3>2. ASSUME NEW s \in Chain(p) \ {r} PROVE \E i \in 1 .. Len(new) : new[i] = s
            <4>1. PICK i \in DOMAIN old : s = old[i]
                BY <1>3
            <4>2. i # 1 /\ i \in 1 .. Len(old)
                BY <1>3, <1>4, <4>1
            <4>3. i - 1 \in 1 .. Len(new) /\ (i - 1) + 1 = i
                BY <1>3, <1>4, <4>2
            <4>4. new[i - 1] = old[i]
                BY <1>4, <4>3
            <4> QED BY <4>1, <4>3, <4>4
        <3> QED BY <1>7, <1>11, <3>1, <3>2 DEF Chained!Range
    <2>2. \A o \in Processes : queued[o] = Len(chain[o]) /\ Chained!Range(chain[o]) = Chain(o)
        BY DEF ChainInvariant, Chained!ChainSound, Chain
    <2>3. (\A o \in Processes : queued[o] = Len(chain[o]) /\ Chained!Range(chain[o]) = Chain(o))'
        BY <1>7, <1>8, <1>9, <2>1, <2>2
    <2>4. (\A s \in Chaining.batches :
             /\ request[s].code = "accepted" => s \in published
             /\ request[s].code = "unavailable" => request[s].failed)'
        BY <1>2, <1>6 DEF ChainInvariant, Chained!ChainSound
    <2> QED BY <2>3, <2>4 DEF Chained!ChainSound, Chain
<1> QED BY <1>6, <1>8, <1>9, <1>12, <1>13, <1>14 DEF ChainInvariant

\* A process stops: its chain is empty, and nobody is in it.
LEMMA CrashKeeps ==
    ASSUME ChainInvariant, NEW p \in Processes, Chained!Crash(p)
    PROVE  ChainInvariant'
<1> DEFINE gone(r) == Chaining.processOf[r] = p /\ request[r].pc \notin {"new", "answered"}
<1>1. PICK q :
        /\ q = Chained!Answered("refused")
        /\ request' = [r \in Chaining.batches |-> IF gone(r) THEN q ELSE request[r]]
        /\ chain' = [chain EXCEPT ![p] = <<>>] /\ queued' = [queued EXCEPT ![p] = 0]
        /\ UNCHANGED <<blocked, published>>
    BY DEF Chained!Crash
<1>2. q \in Chained!Accept /\ q.pc = "answered" /\ q.code = "refused"
    BY <1>1, AnsweredAccept
<1>3. /\ request' \in [Chaining.batches -> Chained!Accept]
      /\ \A s \in Chaining.batches : request'[s] = IF gone(s) THEN q ELSE request[s]
    BY <1>1, <1>2 DEF ChainInvariant
<1>4. Chain(p)' = {} /\ \A o \in Processes \ {p} : Chain(o)' = Chain(o)
    BY <1>2, <1>3 DEF Chain
<1>5. chain' \in [Processes -> Seq(Chaining.batches)] /\ \A o \in Processes : chain'[o] = IF o = p THEN <<>> ELSE chain[o]
    BY <1>1 DEF ChainInvariant
<1>6. queued' \in [Processes -> Nat] /\ \A o \in Processes : queued'[o] = IF o = p THEN 0 ELSE queued[o]
    BY <1>1 DEF ChainInvariant
<1>7. (\A o \in Processes : \A i, j \in DOMAIN chain[o] : chain[o][i] = chain[o][j] => i = j)'
    BY <1>5 DEF ChainInvariant
<1>8. Chained!BlockHolds'
    BY <1>1, <1>2, <1>3 DEF ChainInvariant, Chained!BlockHolds
<1>9. Chained!ChainSound'
    <2>1. \A o \in Processes : queued[o] = Len(chain[o]) /\ Chained!Range(chain[o]) = Chain(o)
        BY DEF ChainInvariant, Chained!ChainSound, Chain
    <2>2. (\A o \in Processes : queued[o] = Len(chain[o]) /\ Chained!Range(chain[o]) = Chain(o))'
        BY <1>4, <1>5, <1>6, <2>1 DEF Chained!Range
    <2>3. (\A s \in Chaining.batches :
             /\ request[s].code = "accepted" => s \in published
             /\ request[s].code = "unavailable" => request[s].failed)'
        BY <1>1, <1>2, <1>3 DEF ChainInvariant, Chained!ChainSound
    <2> QED BY <2>2, <2>3 DEF Chained!ChainSound, Chain
<1> QED BY <1>3, <1>5, <1>6, <1>7, <1>8, <1>9 DEF ChainInvariant

\* Nobody has come, and the chains are empty.
LEMMA ChainBegins == Chained!Init => ChainInvariant
<1> SUFFICES ASSUME Chained!Init PROVE ChainInvariant
    OBVIOUS
<1>1. PICK fresh : fresh = Chained!NoRequest /\ request = [r \in Chaining.batches |-> fresh]
    BY DEF Chained!Init
<1>2. fresh \in Chained!Accept /\ fresh.pc = "new" /\ fresh.code = "none"
    BY <1>1 DEF Chained!NoRequest, Chained!Accept
<1>3. request \in [Chaining.batches -> Chained!Accept] /\ \A r \in Chaining.batches : request[r] = fresh
    BY <1>1, <1>2
<1>4. chain = [p \in Processes |-> <<>>] /\ queued = [p \in Processes |-> 0]
    BY DEF Chained!Init
<1>5. chain \in [Processes -> Seq(Chaining.batches)] /\ \A p \in Processes : chain[p] = <<>> /\ queued[p] = 0
    BY <1>4
<1>6. Chained!ChainSound
    BY <1>2, <1>3, <1>5 DEF Chained!ChainSound, Chained!Range
<1>7. Chained!BlockHolds
    BY <1>2, <1>3 DEF Chained!BlockHolds
<1> QED BY <1>3, <1>4, <1>5, <1>6, <1>7 DEF ChainInvariant

\* The project, its copies and the time are what they are for every batch.
ChainTypes ==
    /\ now \in Nat /\ project \in Seq(Admission!Project) /\ Len(project) > 0
    /\ cache \in [Processes -> Chained!Copied \cup {NoOne}]

\* What a batch goes on as, when it is judged by a copy.
LEMMA JudgedAccept ==
    ASSUME NEW r \in Chaining.batches, NEW q \in Chained!Accept, Chained!Judged(r, q),
           q.code = "none" \/ (q.code = request[r].code /\ q.failed = request[r].failed)
    PROVE  \E n \in Chained!Accept :
             /\ request' = [request EXCEPT ![r] = n] /\ n.pc \in {"probe", "answered"}
             /\ n.code \in {"none", "refused"} \/ (n.code = request[r].code /\ n.failed = request[r].failed)
<1>1. CASE request' = [request EXCEPT ![r] = [q EXCEPT !.pc = "probe"]]
    <2>1. PICK n : n = [q EXCEPT !.pc = "probe"] /\ request' = [request EXCEPT ![r] = n]
        BY <1>1
    <2>2. n \in Chained!Accept /\ n.pc = "probe" /\ n.code = q.code /\ n.failed = q.failed
        BY <2>1 DEF Chained!Accept
    <2>3. n.code \in {"none", "refused"} \/ (n.code = request[r].code /\ n.failed = request[r].failed)
        BY <2>2
    <2> QED BY <2>1, <2>2, <2>3, Zenon
<1>2. CASE request' = [request EXCEPT ![r] = Chained!Answered("refused")]
    <2>1. PICK n : n = Chained!Answered("refused") /\ request' = [request EXCEPT ![r] = n]
        BY <1>2
    <2>2. n \in Chained!Accept /\ n.pc = "answered" /\ n.code = "refused"
        BY <2>1, AnsweredAccept
    <2>3. n.code \in {"none", "refused"} /\ n.pc \in {"probe", "answered"}
        BY <2>2
    <2> QED BY <2>1, <2>2, <2>3, Zenon
<1> QED BY <1>1, <1>2 DEF Chained!Judged

\* Every step of a batch but the one that joins the chain.
LEMMA BatchRests ==
    ASSUME ChainTypes, ChainInvariant, NEW r \in Chaining.batches,
           \/ Chained!Begin(r) \/ Chained!Ask(r) \/ Chained!ReadRow(r) \/ Chained!ReadFeatures(r) \/ Chained!Load(r)
           \/ Chained!Probe(r) \/ Chained!Limit(r) \/ Chained!Publish(r)
           \/ Chained!Enqueue(r) /\ queued[Chaining.processOf[r]] >= Chaining.chain
    PROVE  ChainInvariant'
<1> DEFINE Goes(n) == /\ request' = [request EXCEPT ![r] = n] /\ n \in Chained!Accept
                      /\ n.pc # "chained" /\ (blocked # NoOne /\ n.pc \in {"limit", "publish"} => r \in blocked)
                      /\ n.code = "accepted" => r \in published'
                      /\ n.code = "unavailable" => n.failed
<1>1. /\ request[r] \in Chained!Accept /\ now \in Nat /\ Len(project) \in Nat
      /\ cache[Chaining.processOf[r]] \in Chained!Copied \cup {NoOne}
      /\ request[r].code = "accepted" => r \in published
      /\ request[r].code = "unavailable" => request[r].failed
      /\ blocked # NoOne /\ request[r].pc = "limit" => r \in blocked
    BY ServicesAssumption, SMTT(30) DEF ChainTypes, ChainInvariant, Batched, Chained!ChainSound, Chained!BlockHolds
<1>2. PICK refused : refused = Chained!Answered("refused")
    OBVIOUS
<1>3. refused \in Chained!Accept /\ refused.pc = "answered" /\ refused.code = "refused"
    BY <1>2, AnsweredAccept
<1>4. UNCHANGED <<chain, queued, blocked>> /\ published \subseteq published' /\ request[r].pc # "chained"
    BY DEF Chained!Begin, Chained!Ask, Chained!ReadRow, Chained!ReadFeatures, Chained!Load, Chained!Probe,
           Chained!Limit, Chained!Publish, Chained!Enqueue, Chained!Sent, Chained!Outcomes
<1>5. CASE Chained!Begin(r)
    <2>1. PICK o, q, fresh :
            /\ o = cache[Chaining.processOf[r]] /\ o # NoOne
            /\ q = [fresh EXCEPT !.started = now, !.row = o.row, !.features = o.features]
            /\ fresh = Chained!NoRequest /\ Chained!Judged(r, q)
        BY <1>5, Zenon DEF Chained!Begin, Chained!Fresh
    <2>2. fresh \in Chained!Accept /\ fresh.code = "none"
        BY <2>1 DEF Chained!NoRequest, Chained!Accept
    <2>3. o.row \in Nat /\ o.features \in Nat
        BY <1>1, <2>1 DEF Chained!Copied
    <2>4. q = [fresh EXCEPT !.started = now, !.row = o.row, !.features = o.features]
        BY <2>1
    <2>5. q \in Chained!Accept /\ q.code = "none"
        BY <1>1, <2>2, <2>3, <2>4 DEF Chained!Accept
    <2>6. PICK n \in Chained!Accept :
            /\ request' = [request EXCEPT ![r] = n] /\ n.pc \in {"probe", "answered"}
            /\ n.code \in {"none", "refused"} \/ (n.code = request[r].code /\ n.failed = request[r].failed)
        BY <2>1, <2>5, JudgedAccept
    <2>7. Goes(n)
        BY <1>1, <1>4, <2>6
    <2> QED BY <1>4, <2>7, ChainRests
<1>6. CASE Chained!Load(r)
    <2>1. \E n : Goes(n)
        BY <1>1, <1>4, <1>6, JudgedAccept DEF Chained!Load
    <2> QED BY <1>4, <2>1, ChainRests
<1>7. CASE Chained!Ask(r) \/ Chained!ReadRow(r) \/ Chained!ReadFeatures(r)
    <2>1. PICK n :
            /\ \/ n = [request[r] EXCEPT !.pc = "row", !.started = now]
               \/ n = [request[r] EXCEPT !.pc = "features", !.row = Len(project)]
               \/ n = [request[r] EXCEPT !.pc = "loaded", !.features = Len(project)]
            /\ request' = [request EXCEPT ![r] = n]
        <3>1. CASE Chained!Ask(r)
            <4>1. PICK n : n = [request[r] EXCEPT !.pc = "row", !.started = now] /\ request' = [request EXCEPT ![r] = n]
                BY <3>1 DEF Chained!Ask
            <4> QED BY <4>1, Zenon
        <3>2. CASE Chained!ReadRow(r)
            <4>1. PICK n : n = [request[r] EXCEPT !.pc = "features", !.row = Len(project)] /\ request' = [request EXCEPT ![r] = n]
                BY <3>2 DEF Chained!ReadRow, Chained!Current
            <4> QED BY <4>1, Zenon
        <3>3. CASE Chained!ReadFeatures(r)
            <4>1. PICK n : n = [request[r] EXCEPT !.pc = "loaded", !.features = Len(project)] /\ request' = [request EXCEPT ![r] = n]
                BY <3>3 DEF Chained!ReadFeatures, Chained!Current
            <4> QED BY <4>1, Zenon
        <3> QED BY <1>7, <3>1, <3>2, <3>3
    <2>2. /\ n \in Chained!Accept /\ n.pc \in {"row", "features", "loaded"}
          /\ n.code = request[r].code /\ n.failed = request[r].failed
        BY <1>1, <2>1 DEF Chained!Accept
    <2>3. Goes(n)
        BY <1>1, <1>4, <2>1, <2>2
    <2> QED BY <1>4, <2>3, ChainRests
<1>8. CASE Chained!Probe(r) \/ Chained!Limit(r)
    <2>1. CASE request' = [request EXCEPT ![r] = refused]
        BY <1>3, <1>4, <2>1, ChainRests
    <2>2. ASSUME NEW pc \in {"limit", "publish"}, request' = [request EXCEPT ![r] = [request[r] EXCEPT !.pc = pc]],
                 blocked = NoOne \/ request[r].pc = "limit"
          PROVE  ChainInvariant'
        <3>1. PICK n : n = [request[r] EXCEPT !.pc = pc] /\ request' = [request EXCEPT ![r] = n]
            BY <2>2
        <3>2. n \in Chained!Accept /\ n.pc = pc /\ n.code = request[r].code /\ n.failed = request[r].failed
            BY <1>1, <3>1 DEF Chained!Accept
        <3>3. Goes(n)
            BY <1>1, <1>4, <2>2, <3>1, <3>2
        <3> QED BY <1>4, <3>3, ChainRests
    <2>3. CASE Chained!Probe(r)
        BY <1>2, <2>1, <2>2, <2>3 DEF Chained!Probe, Chained!Answer
    <2>4. CASE Chained!Limit(r)
        <3>1. request[r].pc = "limit"
            BY <2>4 DEF Chained!Limit
        <3>2. \/ request' = [request EXCEPT ![r] = refused]
              \/ request' = [request EXCEPT ![r] = [request[r] EXCEPT !.pc = "publish"]]
            BY <1>2, <2>4 DEF Chained!Limit, Chained!Answer
        <3> QED BY <2>1, <2>2, <3>1, <3>2
    <2> QED BY <1>8, <2>3, <2>4
<1>9. CASE Chained!Publish(r)
    <2>1. \E n : Goes(n)
        BY <1>9, SentAccept DEF Chained!Publish
    <2> QED BY <1>4, <2>1, ChainRests
<1>10. CASE Chained!Enqueue(r) /\ queued[Chaining.processOf[r]] >= Chaining.chain
    <2>1. Goes(refused)
        BY <1>2, <1>3, <1>10 DEF Chained!Enqueue, Chained!Answer
    <2> QED BY <1>4, <2>1, ChainRests
<1> QED BY <1>5, <1>6, <1>7, <1>8, <1>9, <1>10

\* One version of the project, and no copy.
LEMMA ChainTypesBegin == Chained!Init => ChainTypes
<1> SUFFICES ASSUME Chained!Init PROVE ChainTypes
    OBVIOUS
<1>1. PICK open \in {"missing", "open"} : project = <<Chained!Version(open, open = "open")>>
    BY DEF Chained!Init
<1>2. PICK feature, first :
        feature \in BOOLEAN /\ first = Chained!Version(open, feature) /\ project = <<first>>
    BY <1>1
<1>3. first \in Admission!Project
    BY <1>2 DEF Chained!Version, Admission!Project
<1>4. project \in Seq(Admission!Project) /\ Len(project) = 1
    BY <1>2, <1>3
<1>5. now = 0 /\ cache = [p \in Processes |-> NoOne]
    BY DEF Chained!Init
<1> QED BY <1>4, <1>5 DEF ChainTypes

\* Every step of the admission keeps the types.
LEMMA ChainTypesKept ==
    ASSUME ChainTypes, ChainInvariant, Chained!Next
    PROVE  ChainTypes'
<1>1. CASE \/ \E open \in {"closed", "open"}, feature \in BOOLEAN, p \in Processes \cup {NoOne} :
                Chained!Change(open, feature, p)
           \/ Chained!Tick
    <2>1. UNCHANGED cache
        BY <1>1 DEF Chained!Change, Chained!Tick
    <2>2. CASE Chained!Tick
        BY <2>1, <2>2 DEF Chained!Tick, ChainTypes
    <2>3. ASSUME NEW open \in {"closed", "open"}, NEW feature \in BOOLEAN, NEW p \in Processes \cup {NoOne},
                 Chained!Change(open, feature, p)
          PROVE  ChainTypes'
        <3>1. /\ project' = Append([project EXCEPT ![Len(project)].until = now], Admission!Version(open, feature))
              /\ UNCHANGED now
            BY <2>3 DEF Chained!Change, Chained!Current, Chained!Version, Admission!Version
        <3>2. project' \in Seq(Admission!Project) /\ Len(project') = Len(project) + 1
            BY <3>1, ProjectGrows DEF ChainTypes
        <3> QED BY <2>1, <3>1, <3>2 DEF ChainTypes
    <2> QED BY <1>1, <2>2, <2>3
<1>2. ASSUME NEW p \in Processes,
             Chained!Invalidate(p) \/ Chained!Evict(p) \/ Chained!Crash(p) \/ Chained!Transact(p)
      PROVE  ChainTypes'
    <2>1. UNCHANGED <<now, project>> /\ (cache' = cache \/ cache' = [cache EXCEPT ![p] = NoOne])
        BY <1>2 DEF Chained!Invalidate, Chained!Evict, Chained!Crash, Chained!Transact
    <2> QED BY <2>1 DEF ChainTypes
<1>3. ASSUME NEW r \in Chaining.batches, Chained!Load(r)
      PROVE  ChainTypes'
    <2>1. PICK o : /\ o = Chained!Copy(r) /\ cache' = [cache EXCEPT ![Chaining.processOf[r]] = o]
                   /\ UNCHANGED <<now, project>>
        BY <1>3 DEF Chained!Load
    <2>2. request[r].row \in Nat /\ request[r].features \in Nat /\ request[r].started \in Nat /\ Ttl \in Nat
        BY ServicesAssumption DEF ChainInvariant, Chained!Accept
    <2>3. o \in Chained!Copied
        BY <2>1, <2>2 DEF Chained!Copy, Chained!Copied
    <2> QED BY <2>1, <2>3 DEF ChainTypes
<1>4. CASE \/ Chained!Block \/ Chained!Unblock
           \/ \E r \in Chaining.batches :
                \/ Chained!Begin(r) \/ Chained!Ask(r) \/ Chained!ReadRow(r) \/ Chained!ReadFeatures(r)
                \/ Chained!Probe(r) \/ Chained!Limit(r) \/ Chained!Publish(r) \/ Chained!Enqueue(r)
    <2>1. UNCHANGED <<now, project, cache>>
        BY <1>4 DEF Chained!Block, Chained!Unblock, Chained!Begin, Chained!Ask, Chained!ReadRow, Chained!ReadFeatures,
                    Chained!Probe, Chained!Limit, Chained!Publish, Chained!Enqueue
    <2> QED BY <2>1 DEF ChainTypes
<1> QED BY <1>1, <1>2, <1>3, <1>4 DEF Chained!Next

\* Every step of the admission keeps the chains.
LEMMA ChainKept == ChainTypes /\ ChainInvariant /\ Chained!Next => ChainInvariant'
<1> SUFFICES ASSUME ChainTypes, ChainInvariant, Chained!Next PROVE ChainInvariant'
    OBVIOUS
<1>1. CASE \/ \E open \in {"closed", "open"}, feature \in BOOLEAN, p \in Processes \cup {NoOne} :
                Chained!Change(open, feature, p)
           \/ Chained!Tick \/ Chained!Block \/ Chained!Unblock
           \/ \E p \in Processes : Chained!Invalidate(p) \/ Chained!Evict(p)
    <2>1. UNCHANGED <<chain, queued, request, published>>
        BY <1>1 DEF Chained!Change, Chained!Tick, Chained!Block, Chained!Unblock, Chained!Invalidate, Chained!Evict
    <2>2. \/ UNCHANGED blocked \/ blocked' = NoOne \/ blocked' = {r \in Chaining.batches : request[r].pc # "new"}
        BY <1>1 DEF Chained!Change, Chained!Tick, Chained!Block, Chained!Unblock, Chained!Invalidate, Chained!Evict
    <2>3. Chained!BlockHolds'
        BY <2>1, <2>2 DEF ChainInvariant, Chained!BlockHolds
    <2>4. Chained!ChainSound'
        BY <2>1 DEF ChainInvariant, Chained!ChainSound
    <2> QED BY <2>1, <2>3, <2>4 DEF ChainInvariant
<1>2. ASSUME NEW r \in Chaining.batches, Chained!Enqueue(r)
      PROVE  ChainInvariant'
    <2>1. queued[Chaining.processOf[r]] \in Nat /\ Chaining.chain \in Nat
        BY ServicesAssumption DEF ChainInvariant, Batched
    <2> QED BY <1>2, <2>1, EnqueueKeeps, BatchRests
<1> QED BY <1>1, <1>2, TransactKeeps, CrashKeeps, BatchRests DEF Chained!Next

-----------------------------------------------------------------------------
\* Repeated operations: three of a set, and the numbers that order them.

\* What the operations are.
LEMMA RepeatingFields ==
    /\ IsFiniteSet(Repeating.operations) /\ Repeating.timeOf \in [Repeating.operations -> Int]
    /\ Repeating.batches \subseteq SUBSET Repeating.operations
    /\ Repeating.day \in Nat /\ Repeating.time \in Nat /\ Repeating.from \in Int /\ Repeating.to \in Int
    BY ServicesAssumption DEF Timed

\* Numbers that are not none have a least one.
LEMMA LeastOf ==
    ASSUME NEW S \in SUBSET Nat, S # {}
    PROVE  \E n \in S : \A m \in S : n <= m
<1> DEFINE R == OpToRel(<, Nat)
<1> HIDE DEF R
<1>1. PICK n \in S : \A m \in S : ~ (<<m, n>> \in R)
    BY WFMin, NatLessThanWellFounded DEF R
<1>2. ASSUME NEW m \in S PROVE n <= m
    <2>1. ~ (m < n)
        BY <1>1 DEF R, OpToRel
    <2> QED BY <2>1
<1> QED BY <1>2

\* What the operator of the library picks.
LEMMA LeastIs ==
    ASSUME NEW S \in SUBSET Nat, S # {}
    PROVE  Repetitions!Min(S) \in S /\ \A n \in S : Repetitions!Min(S) <= n
    BY LeastOf DEF Repetitions!Min

\* The instance counts as this module does.
LEMMA CountedHere == ASSUME NEW S PROVE Repetitions!Cardinality(S) = Cardinality(S)
    BY DEF Repetitions!Cardinality, Cardinality

\* A set of three has three elements.
LEMMA ThreeOf ==
    ASSUME NEW G, IsFiniteSet(G), NEW T \in Repetitions!kSubset(3, G)
    PROVE  \E a, b, c \in G : T = {a, b, c} /\ a # b /\ a # c /\ b # c
<1>1. T \in SUBSET G /\ Cardinality(T) = 3
    BY CountedHere DEF Repetitions!kSubset
<1>2. IsFiniteSet(T)
    BY <1>1, FS_Subset
<1>3. PICK a \in T : TRUE
    BY <1>1, <1>2, FS_EmptySet
<1> DEFINE U == T \ {a}
<1>4. Cardinality(U) = 2 /\ IsFiniteSet(U)
    BY <1>1, <1>2, <1>3, FS_RemoveElement
<1>5. PICK b \in U : TRUE
    <2> HIDE DEF U
    <2> QED BY <1>4, FS_EmptySet
<1>6. Cardinality(U \ {b}) = 1 /\ IsFiniteSet(U \ {b})
    <2> HIDE DEF U
    <2> QED BY <1>4, <1>5, FS_RemoveElement
<1>7. PICK c : U \ {b} = {c}
    <2> HIDE DEF U
    <2> QED BY <1>6, FS_Singleton
<1> QED BY <1>1, <1>3, <1>5, <1>7

\* The one that is named first may be chosen.
LEMMA ThreeWith ==
    ASSUME NEW G, IsFiniteSet(G), NEW T \in Repetitions!kSubset(3, G), NEW r \in T
    PROVE  \E a, b, c \in G : T = {a, b, c} /\ a # b /\ a # c /\ b # c /\ a = r
<1>1. PICK u1, u2, u3 \in G : T = {u1, u2, u3} /\ u1 # u2 /\ u1 # u3 /\ u2 # u3
    BY ThreeOf
<1>2. CASE r = u1
    BY <1>1, <1>2
<1>3. CASE r = u2
    <2>1. T = {u2, u1, u3}
        BY <1>1
    <2> QED BY <1>1, <1>3, <2>1
<1>4. CASE r = u3
    <2>1. T = {u3, u1, u2}
        BY <1>1
    <2> QED BY <1>1, <1>4, <2>1
<1> QED BY <1>1, <1>2, <1>3, <1>4

\* Three elements are a set of three.
LEMMA ThreeAre ==
    ASSUME NEW G, NEW a \in G, NEW b \in G, NEW c \in G, a # b, a # c, b # c
    PROVE  {a, b, c} \in Repetitions!kSubset(3, G)
<1>1. IsFiniteSet({a}) /\ Cardinality({a}) = 1
    BY FS_Singleton
<1>2. IsFiniteSet({a} \cup {b}) /\ Cardinality({a} \cup {b}) = 2
    BY <1>1, FS_AddElement
<1>3. Cardinality(({a} \cup {b}) \cup {c}) = 3
    BY <1>2, FS_AddElement
<1>4. {a, b, c} = ({a} \cup {b}) \cup {c}
    OBVIOUS
<1> QED BY <1>3, <1>4, CountedHere DEF Repetitions!kSubset

\* When it happened, and how far apart two are.
Moment(r) == Repeating.timeOf[r.operation]
Far(r, q) == IF Moment(r) < Moment(q) THEN Moment(q) - Moment(r) ELSE Moment(r) - Moment(q)

\* Of the threes with one operation that keep to some hours, one has nothing in between.
LEMMA NearestThree ==
    ASSUME NEW G, \A r \in G : Moment(r) \in Int, NEW lo \in Int, NEW hi \in Int,
           NEW a \in G, NEW b \in G, NEW c \in G, a # b, a # c, b # c,
           \A r \in {a, b, c} : Moment(r) \in lo .. hi
    PROVE  \E r, q \in G : /\ a # r /\ a # q /\ r # q /\ Moment(r) \in lo .. hi /\ Moment(q) \in lo .. hi
                           /\ Repetitions!Neighbours(G, {a, r, q})
<1> DEFINE Good(r, q) == a # r /\ a # q /\ r # q /\ Moment(r) \in lo .. hi /\ Moment(q) \in lo .. hi
           S == {Far(t[1], a) + Far(t[2], a) : t \in {t \in G \X G : Good(t[1], t[2])}}
<1>1. S \subseteq Nat
    BY DEF Far
<1>2. Far(b, a) + Far(c, a) \in S
    <2>1. <<b, c>> \in {t \in G \X G : Good(t[1], t[2])}
        OBVIOUS
    <2> QED BY <2>1
<1>3. PICK n \in S : \A m \in S : n <= m
    <2> HIDE DEF S
    <2> QED BY <1>1, <1>2, LeastOf
<1>4. PICK r \in G, q \in G : Good(r, q) /\ n = Far(r, a) + Far(q, a)
    BY <1>3
<1>5. ASSUME NEW g \in G \ {a, r, q}, NEW t \in {a, r, q}, NEW u \in {a, r, q}, Moment(t) < Moment(g), Moment(g) < Moment(u)
      PROVE  FALSE
    <2>1. Moment(g) \in lo .. hi
        BY <1>4, <1>5
    <2>2. Good(g, q) /\ Good(r, g)
        BY <1>4, <1>5, <2>1
    <2>3. Far(g, a) + Far(q, a) \in S /\ Far(r, a) + Far(g, a) \in S
        <3>1. <<g, q>> \in {v \in G \X G : Good(v[1], v[2])} /\ <<r, g>> \in {v \in G \X G : Good(v[1], v[2])}
            BY <2>2
        <3> QED BY <3>1
    <2>4. Far(r, a) <= Far(g, a) /\ Far(q, a) <= Far(g, a)
        <3>1. Far(r, a) \in Int /\ Far(g, a) \in Int /\ Far(q, a) \in Int
            BY DEF Far
        <3> HIDE DEF S
        <3> QED BY <3>1, <1>3, <1>4, <2>3
    <2>5. Moment(a) \in Int /\ Moment(r) \in Int /\ Moment(q) \in Int /\ Moment(g) \in Int
        OBVIOUS
    <2> QED BY <1>5, <2>4, <2>5 DEF Far
<1>6. Repetitions!Neighbours(G, {a, r, q})
    BY <1>5 DEF Repetitions!Neighbours, Moment
<1> QED BY <1>4, <1>6

\* The rows, one for an operation of a message.
Refs == [operation : Repeating.operations, received : Nat]

\* Of the rows of one operation the first is used, and no other.
LEMMA FirstOfEach ==
    ASSUME NEW R \in SUBSET Refs
    PROVE  /\ Repetitions!Unique(R) \subseteq R
           /\ \A r, q \in Repetitions!Unique(R) : r.operation = q.operation => r = q
           /\ \A r \in R : \E q \in Repetitions!Unique(R) : q.operation = r.operation
<1>1. \A r \in R : r.operation \in Repeating.operations /\ r.received \in Nat
                   /\ r = [operation |-> r.operation, received |-> r.received]
    BY DEF Refs
<1>2. Repetitions!Unique(R) \subseteq R
    BY DEF Repetitions!Unique
<1>3. ASSUME NEW r \in Repetitions!Unique(R), NEW q \in Repetitions!Unique(R), r.operation = q.operation
      PROVE  r = q
    <2>1. r.received <= q.received /\ q.received <= r.received
        BY <1>2, <1>3 DEF Repetitions!Unique
    <2>2. r.received = q.received
        BY <1>1, <1>2, <2>1
    <2> QED BY <1>1, <1>2, <1>3, <2>2
<1>4. ASSUME NEW r \in R PROVE \E q \in Repetitions!Unique(R) : q.operation = r.operation
    <2> DEFINE S == {q.received : q \in {q \in R : q.operation = r.operation}}
    <2>1. S \in SUBSET Nat /\ S # {}
        BY <1>1
    <2>2. PICK n \in S : \A m \in S : n <= m
        <3> HIDE DEF S
        <3> QED BY <2>1, LeastOf
    <2>3. PICK q \in R : q.operation = r.operation /\ q.received = n
        BY <2>2
    <2>4. \A u \in R : u.operation = q.operation => q.received <= u.received
        BY <2>2, <2>3
    <2> QED BY <2>3, <2>4 DEF Repetitions!Unique
<1> QED BY <1>2, <1>3, <1>4

\* The first and the last of three numbers.
LEMMA LastOfThree ==
    ASSUME NEW x1 \in Int, NEW x2 \in Int, NEW x3 \in Int, NEW S, S = {x1, x2, x3}
    PROVE  /\ Repetitions!Max(S) \in S /\ \A n \in S : Repetitions!Max(S) >= n
           /\ Repetitions!Min(S) \in S /\ \A n \in S : Repetitions!Min(S) <= n
<1>1. \E m \in S : \A n \in S : m >= n
    <2>1. CASE x1 >= x2 /\ x1 >= x3
        BY <2>1
    <2>2. CASE x2 >= x1 /\ x2 >= x3
        BY <2>2
    <2>3. CASE x3 >= x1 /\ x3 >= x2
        BY <2>3
    <2> QED BY <2>1, <2>2, <2>3
<1>2. \E m \in S : \A n \in S : m <= n
    <2>1. CASE x1 <= x2 /\ x1 <= x3
        BY <2>1
    <2>2. CASE x2 <= x1 /\ x2 <= x3
        BY <2>2
    <2>3. CASE x3 <= x1 /\ x3 <= x2
        BY <2>3
    <2> QED BY <2>1, <2>2, <2>3
<1> QED BY <1>1, <1>2 DEF Repetitions!Max, Repetitions!Min

\* In R there is a row of o, and rows of two others on one object in the same hours.
Three(r1, r2, r3, o, lo, hi, alias) ==
    /\ r1.operation = o
    /\ r1.operation # r2.operation /\ r1.operation # r3.operation /\ r2.operation # r3.operation
    /\ \A r \in {r1, r2, r3} : Moment(r) \in lo .. hi /\ alias \in Repeating.aliases[r.operation]
Together(R, o, lo, hi, alias) == \E r1, r2, r3 \in R : Three(r1, r2, r3, o, lo, hi, alias)

Finds(R, time, o, lo, hi, alias) == \E x1, x2, x3 \in R :
    /\ Three(x1, x2, x3, o, lo, hi, alias)
    /\ \E p \in Repetitions!Proofs(R, time) :
         /\ p.operation = o /\ p.hit /\ p.from \in Int /\ p.to \in Int /\ p.from >= lo /\ p.to <= hi
         /\ \A r \in {x1, x2, x3} : r.received <= p.last
         /\ p.last \in Nat

\* What a pass writes for three operations on one object that lie within a day: for one of them a
\* witness of it and two others, in the hours of the three.
LEMMA PassHits ==
    ASSUME NEW R \in SUBSET Refs, NEW time \in Nat, NEW o, NEW alias,
           NEW lo \in Int, NEW hi \in Int, hi - lo <= Repeating.day, Together(R, o, lo, hi, alias)
    PROVE  Finds(R, time, o, lo, hi, alias)
<1>1. PICK a \in R, b \in R, c \in R :
          /\ a.operation = o
          /\ a.operation # b.operation /\ a.operation # c.operation /\ b.operation # c.operation
          /\ \A r \in {a, b, c} : Moment(r) \in lo .. hi /\ alias \in Repeating.aliases[r.operation]
    BY DEF Together, Three
<1> DEFINE U == Repetitions!Unique(R)
           G == {r \in U : alias \in Repeating.aliases[r.operation]}
<1>2. \A r \in R : r.operation \in Repeating.operations /\ r.received \in Nat
    BY DEF Refs
<1>3. /\ U \subseteq R
      /\ \A r, q \in U : r.operation = q.operation => r = q
      /\ \A r \in R : \E q \in U : q.operation = r.operation
    BY FirstOfEach
<1>4. PICK ua \in U, ub \in U, uc \in U :
          ua.operation = a.operation /\ ub.operation = b.operation /\ uc.operation = c.operation
    <2> HIDE DEF U
    <2> QED BY <1>3
<1>5. ua \in G /\ ub \in G /\ uc \in G /\ ua # ub /\ ua # uc /\ ub # uc
    BY <1>1, <1>4
<1>6. \A r \in {ua, ub, uc} : Moment(r) \in lo .. hi
    BY <1>1, <1>4 DEF Moment
<1>7. \A r \in G : Moment(r) \in Int
    BY <1>2, <1>3, RepeatingFields DEF Moment
<1>8. PICK r \in G, q \in G : /\ ua # r /\ ua # q /\ r # q /\ Moment(r) \in lo .. hi /\ Moment(q) \in lo .. hi
                              /\ Repetitions!Neighbours(G, {ua, r, q})
    <2> HIDE DEF G
    <2> QED BY <1>5, <1>6, <1>7, NearestThree
<1> DEFINE T == {ua, r, q}
<1>9. G \in Repetitions!Groups(U)
    <2>1. alias \in UNION {Repeating.aliases[s.operation] : s \in U}
        BY <1>5
    <2> QED BY <2>1 DEF Repetitions!Groups
<1>10. T \in Repetitions!Witnesses(G)
    <2>1. T \in Repetitions!kSubset(3, G)
        <3> HIDE DEF G
        <3> QED BY <1>5, <1>8, ThreeAre
    <2>2. \A s, t \in T : Repetitions!Within(Repeating.timeOf[s.operation], Repeating.timeOf[t.operation], Repeating.day)
        <3>1. \A s \in T : Moment(s) \in Int /\ Moment(s) >= lo /\ Moment(s) <= hi
            BY <1>6, <1>8
        <3> HIDE DEF T
        <3> QED BY <3>1, RepeatingFields DEF Repetitions!Within, Moment
    <2> HIDE DEF G
    <2> QED BY <1>8, <2>1, <2>2 DEF Repetitions!Witnesses
<1> DEFINE p == Repetitions!Hit(ua, T, time)
<1>11. p \in Repetitions!Proofs(R, time)
    <2> HIDE DEF p, U, G
    <2>1. T \in UNION {Repetitions!Witnesses(H) : H \in Repetitions!Groups(U)}
        BY <1>9, <1>10
    <2>2. p \in {Repetitions!Hit(s, T, time) : s \in T}
        BY DEF p
    <2> HIDE DEF T
    <2> QED BY <2>1, <2>2 DEF Repetitions!Proofs, U
<1>12. /\ p.operation = ua.operation /\ p.hit
       /\ p.from = Repetitions!Min({Repeating.timeOf[t.operation] : t \in T})
       /\ p.to = Repetitions!Max({Repeating.timeOf[t.operation] : t \in T})
       /\ p.last = Repetitions!Max({t.received : t \in T})
    <2> HIDE DEF T, U, G
    <2> QED BY DEF Repetitions!Hit, Repetitions!Receipt
<1> HIDE DEF p
<1>13. p.from \in Int /\ p.to \in Int /\ p.from >= lo /\ p.to <= hi
    <2>1. {Repeating.timeOf[t.operation] : t \in T} = {Moment(ua), Moment(r), Moment(q)}
        BY DEF Moment
    <2>2. p.from \in {Moment(ua), Moment(r), Moment(q)} /\ p.to \in {Moment(ua), Moment(r), Moment(q)}
        BY <1>5, <1>7, <1>8, <1>12, <2>1, LastOfThree
    <2> QED BY <1>6, <1>8, <2>2
<1>14. p.last \in Nat /\ \A s \in T : s.received <= p.last
    <2>1. ua.received \in Nat /\ r.received \in Nat /\ q.received \in Nat
        BY <1>2, <1>3
    <2>2. {t.received : t \in T} = {ua.received, r.received, q.received}
        OBVIOUS
    <2>3. p.last \in {ua.received, r.received, q.received}
          /\ \A n \in {ua.received, r.received, q.received} : p.last >= n
        BY <1>12, <2>1, <2>2, LastOfThree
    <2> QED BY <2>1, <2>3
<1>15. ua \in R /\ r \in R /\ q \in R
    BY <1>3
<1>16. ua.operation # r.operation /\ ua.operation # q.operation /\ r.operation # q.operation
    BY <1>3, <1>8
<1>17. \A s \in {ua, r, q} : Moment(s) \in lo .. hi /\ alias \in Repeating.aliases[s.operation]
    BY <1>5, <1>6, <1>8
<1>18. Three(ua, r, q, o, lo, hi, alias)
    BY <1>1, <1>4, <1>16, <1>17 DEF Three
<1>19. p.operation = o
    BY <1>1, <1>4, <1>12
<1> HIDE DEF U, G, T
<1> QED BY <1>11, <1>12, <1>13, <1>14, <1>15, <1>18, <1>19 DEF T, Finds

\* Three operations on one object within a day.
Repeats(r1, r2, r3, alias) ==
    /\ r1.operation # r2.operation /\ r1.operation # r3.operation /\ r2.operation # r3.operation
    /\ \A r \in {r1, r2, r3} : alias \in Repeating.aliases[r.operation]
    /\ \A r, q \in {r1, r2, r3} : Repetitions!Within(Moment(r), Moment(q), Repeating.day)

\* What a pass writes is about the rows it saw.
LEMMA PassIsTrue ==
    ASSUME NEW R \in SUBSET Refs, IsFiniteSet(R), NEW time \in Nat, NEW p \in Repetitions!Proofs(R, time)
    PROVE  /\ p.processed = time /\ p.hit \in BOOLEAN
           /\ \E r \in R : p.operation = r.operation
           /\ p.hit => \E x1, x2, x3 \in R :
                p.operation = x1.operation /\ \E alias : Repeats(x1, x2, x3, alias)
<1> DEFINE U == Repetitions!Unique(R)
<1>1. U \subseteq R /\ \A r, q \in U : r.operation = q.operation => r = q
    BY FirstOfEach
<1>2. CASE \E r \in U : p = Repetitions!Receipt(r, time)
    <2>1. PICK r \in U : p = Repetitions!Receipt(r, time)
        BY <1>2
    <2>2. p.processed = time /\ p.hit = FALSE /\ p.operation = r.operation
        <3> HIDE DEF U
        <3> QED BY <2>1 DEF Repetitions!Receipt
    <2> HIDE DEF U
    <2> QED BY <1>1, <2>2
<1>3. CASE \E T \in UNION {Repetitions!Witnesses(G) : G \in Repetitions!Groups(U)} : \E r \in T :
             p = Repetitions!Hit(r, T, time)
    <2>1. PICK T \in UNION {Repetitions!Witnesses(G) : G \in Repetitions!Groups(U)} :
             \E r \in T : p = Repetitions!Hit(r, T, time)
        BY <1>3
    <2>2. PICK r \in T : p = Repetitions!Hit(r, T, time)
        BY <2>1
    <2>3. PICK G \in Repetitions!Groups(U) : T \in Repetitions!Witnesses(G) /\ r \in T
        BY <2>1, <2>2
    <2>4. p.processed = time /\ p.hit = TRUE /\ p.operation = r.operation
        <3> HIDE DEF U
        <3> QED BY <2>2 DEF Repetitions!Hit, Repetitions!Receipt
    <2>5. PICK alias : G = {q \in U : alias \in Repeating.aliases[q.operation]}
        BY <2>3 DEF Repetitions!Groups
    <2>6. IsFiniteSet(G)
        BY <1>1, <2>5, FS_Subset
    <2>7. T \in Repetitions!kSubset(3, G)
          /\ \A q, t \in T : Repetitions!Within(Moment(q), Moment(t), Repeating.day)
        BY <2>3 DEF Repetitions!Witnesses, Moment
    <2>8. PICK x1, x2, x3 \in G : T = {x1, x2, x3} /\ x1 # x2 /\ x1 # x3 /\ x2 # x3 /\ x1 = r
        BY <2>3, <2>6, <2>7, ThreeWith
    <2>9. x1 \in R /\ x2 \in R /\ x3 \in R
        BY <1>1, <2>5
    <2>10. x1.operation # x2.operation /\ x1.operation # x3.operation /\ x2.operation # x3.operation
        BY <1>1, <2>5, <2>8
    <2>11. \A q \in {x1, x2, x3} : alias \in Repeating.aliases[q.operation]
        BY <2>5
    <2>12. \A q, t \in {x1, x2, x3} : Repetitions!Within(Moment(q), Moment(t), Repeating.day)
        BY <2>7, <2>8
    <2>13. \E q \in R : p.operation = q.operation
        BY <2>4, <2>8, <2>9
    <2>14. p.operation = x1.operation
        BY <2>4, <2>8
    <2> HIDE DEF U
    <2>15. Repeats(x1, x2, x3, alias)
        BY <2>10, <2>11, <2>12 DEF Repeats
    <2> QED BY <2>4, <2>9, <2>13, <2>14, <2>15
<1> QED BY <1>2, <1>3 DEF Repetitions!Proofs

-----------------------------------------------------------------------------
\* Messages, rows and receipts.

\* The row of an operation of message k, whether a pass at this time still reads it, and
\* whether all of the message have theirs.
RefOf(k, o) == [operation |-> o, received |-> log[k].received]
Reached(time, k) == log[k].received > time - 2 * Repeating.day
Inserted(k) == \A o \in log[k].operations : RefOf(k, o) \in refs

\* A pass that projects message n looks at all that came until then, and writes what it concludes.
Looked(n, time, R) ==
    /\ R \subseteq refs /\ \A r \in R : r.received > time - 2 * Repeating.day
    /\ \A k \in 1 .. n : Reached(time, k) => \A o \in log[k].operations : RefOf(k, o) \in R
Wrote(n, time, R) == \A p \in Repetitions!Proofs(R, time) : Repetitions!Kept(p, log[n]) => p \in proofs
Passed(n, time, R) == Looked(n, time, R) /\ Wrote(n, time, R)

\* What the variables are.
RepeatedTypes ==
    /\ now \in 0 .. Repeating.time
    /\ log \in Seq([operations : SUBSET Repeating.operations, received : Nat])
    /\ offset \in 0 .. Len(log) /\ rows \in 0 .. Len(log)
    /\ refs \subseteq Refs /\ \A r \in refs : r.received <= now
    /\ projecting \in [Consumers -> [pc : {"idle", "insert", "query", "prove", "commit"},
                                     message : Nat, processed : Nat, visible : SUBSET Refs]]

\* Messages come in the order of time.
InTime ==
    /\ \A k \in 1 .. Len(log) : log[k].received <= now
    /\ \A j, k \in 1 .. Len(log) : j <= k => log[j].received <= log[k].received

\* A row is of an operation that a message brought.
FromLog == \A r \in refs : \E k \in 1 .. Len(log) :
    r.operation \in log[k].operations /\ r.received = log[k].received

\* What is behind the offset has its rows, or waited for two days.
Handled == \A k \in 1 .. offset : Reached(now, k) => Inserted(k)

\* What a member does, and what it relies on there: the rows of its message, then all the rows
\* there were to read, then the receipts it wrote.
Doing(c) == projecting[c].pc
HandOf(c) ==
    /\ Doing(c) = "idle" => projecting[c].message = 0
    /\ Doing(c) # "idle" =>
         /\ projecting[c].message \in 1 .. Len(log) /\ projecting[c].message - 1 <= offset
         /\ projecting[c].processed = now
    /\ Doing(c) \in {"query", "prove", "commit"} => Inserted(projecting[c].message)
    /\ Doing(c) \in {"idle", "insert", "query"} => projecting[c].visible = {}
    /\ Doing(c) \in {"prove", "commit"} => Looked(projecting[c].message, now, projecting[c].visible)
    /\ Doing(c) = "commit" => Wrote(projecting[c].message, now, projecting[c].visible)

InHand == \A c \in Consumers : HandOf(c)

\* When each message behind the offset was dealt with.
Dealt(at) ==
    /\ at \in [1 .. offset -> Nat]
    /\ \A k \in 1 .. offset :
         /\ at[k] <= now /\ \A j \in 1 .. k : at[j] <= at[k]
         /\ Reached(at[k], k) => \E R \in SUBSET refs : Passed(k, at[k], R)

\* A receipt is from a pass after which nothing before it was left to do; a witness is of three
\* operations on one object within a day.
Witnessed(p) == \E r1, r2, r3 \in refs :
    p.operation = r1.operation /\ \E alias : Repeats(r1, r2, r3, alias)
Receipted(at, p) == \E m \in 1 .. Len(log), R \in SUBSET refs :
    /\ p.operation \in log[m].operations /\ Passed(m, p.processed, R)
    /\ \A k \in 1 .. m - 1 : k <= offset /\ at[k] <= p.processed
Founded(at, p) ==
    /\ p.processed \in Nat /\ p.hit \in BOOLEAN
    /\ p.hit => Witnessed(p)
    /\ ~p.hit => Receipted(at, p)

RepeatedInvariant ==
    /\ RepeatedTypes /\ InTime /\ FromLog /\ Handled /\ InHand
    /\ \E at : Dealt(at) /\ \A p \in proofs : Founded(at, p)

\* There are finitely many rows: of every operation one at every time at most.
LEMMA RefsFinite == ASSUME RepeatedTypes, NEW R \in SUBSET refs PROVE IsFiniteSet(R)
<1> DEFINE P == Repeating.operations \X (0 .. Repeating.time)
           f == [r \in R |-> <<r.operation, r.received>>]
<1>1. IsFiniteSet(P)
    <2>1. 0 \in Int /\ Repeating.time \in Int
        BY RepeatingFields
    <2>2. IsFiniteSet(0 .. Repeating.time)
        BY <2>1, FS_Interval
    <2> QED BY RepeatingFields, <2>2, FS_Product
<1>2. \A r \in R : r.operation \in Repeating.operations /\ r.received \in 0 .. Repeating.time
                   /\ r = [operation |-> r.operation, received |-> r.received]
    BY RepeatingFields DEF RepeatedTypes, Refs
<1>3. f \in Injection(R, P)
    <2>1. f \in [R -> P]
        BY <1>2
    <2>2. \A r, q \in R : f[r] = f[q] => r = q
        BY <1>2
    <2> HIDE DEF f, P
    <2> QED BY <2>1, <2>2 DEF Injection, IsInjective
<1> HIDE DEF f, P
<1> QED BY <1>1, <1>3, FS_Injection

\* Messages, rows and proofs are added; none is changed or lost.
Added ==
    /\ Len(log) <= Len(log)' /\ \A k \in 1 .. Len(log) : log'[k] = log[k]
    /\ refs \subseteq refs' /\ proofs \subseteq proofs'

\* The fields of messages, rows and members.
LEMMA RepeatedFields ==
    ASSUME RepeatedTypes
    PROVE  /\ now \in Nat /\ Len(log) \in Nat /\ offset \in Nat /\ rows \in Nat
           /\ offset <= Len(log) /\ rows <= Len(log) /\ DOMAIN log = 1 .. Len(log)
           /\ \A k \in 1 .. Len(log) : /\ log[k] = [operations |-> log[k].operations, received |-> log[k].received]
                                       /\ log[k].operations \in SUBSET Repeating.operations
                                       /\ log[k].received \in Nat
           /\ \A r \in refs : r = [operation |-> r.operation, received |-> r.received]
                              /\ r.operation \in Repeating.operations /\ r.received \in Nat
           /\ \A c \in Consumers : /\ projecting[c].message \in Nat /\ projecting[c].processed \in Nat
                                   /\ projecting[c].visible \subseteq Refs
                                   /\ Doing(c) \in {"idle", "insert", "query", "prove", "commit"}
<1>1. now \in Nat /\ Len(log) \in Nat /\ offset \in Nat /\ rows \in Nat
      /\ offset <= Len(log) /\ rows <= Len(log) /\ DOMAIN log = 1 .. Len(log)
    BY RepeatingFields DEF RepeatedTypes
<1>2. \A k \in 1 .. Len(log) : log[k] \in [operations : SUBSET Repeating.operations, received : Nat]
    <2> DEFINE M == [operations : SUBSET Repeating.operations, received : Nat]
    <2>1. log \in Seq(M)
        BY DEF RepeatedTypes
    <2> HIDE DEF M
    <2>2. \A k \in 1 .. Len(log) : log[k] \in M
        BY <2>1
    <2> QED BY <2>2 DEF M
<1>3. \A r \in refs : r \in Refs
    BY DEF RepeatedTypes
<1>4. \A c \in Consumers : projecting[c] \in [pc : {"idle", "insert", "query", "prove", "commit"},
                                              message : Nat, processed : Nat, visible : SUBSET Refs]
    BY DEF RepeatedTypes
<1>5. \A c \in Consumers : /\ projecting[c].message \in Nat /\ projecting[c].processed \in Nat
                           /\ projecting[c].visible \subseteq Refs
                           /\ Doing(c) \in {"idle", "insert", "query", "prove", "commit"}
    BY <1>4 DEF Doing
<1> QED BY <1>1, <1>2, <1>3, <1>5 DEF Refs

\* What was looked at and written stays so.
LEMMA PassStays ==
    ASSUME RepeatedTypes, Added, NEW n \in 1 .. Len(log), NEW time, NEW R
    PROVE  /\ Looked(n, time, R) => Looked(n, time, R)'
           /\ Wrote(n, time, R) => Wrote(n, time, R)'
           /\ Inserted(n) => Inserted(n)'
           /\ Reached(time, n)' = Reached(time, n)
<1>1. \A k \in 1 .. n : k \in 1 .. Len(log) /\ log'[k] = log[k]
    BY RepeatedFields DEF Added
<1>2. n \in 1 .. n
    BY RepeatedFields
<1>3. Looked(n, time, R) => Looked(n, time, R)'
    BY <1>1 DEF Looked, Added, Reached, RefOf
<1>4. Wrote(n, time, R) => Wrote(n, time, R)'
    BY <1>1, <1>2 DEF Wrote, Added
<1>5. Inserted(n) => Inserted(n)'
    BY <1>1, <1>2 DEF Inserted, RefOf, Added
<1>6. Reached(time, n)' = Reached(time, n)
    BY <1>1, <1>2 DEF Reached
<1> QED BY <1>3, <1>4, <1>5, <1>6

\* What a receipt comes from stays so.
LEMMA FoundedStays ==
    ASSUME RepeatedTypes, Added, offset <= offset', offset' \in Nat, Len(log)' \in Nat,
           NEW at, NEW new, \A k \in 1 .. offset : new[k] = at[k],
           NEW p, Founded(at, p)
    PROVE  Founded(new, p)'
<1>1. Witnessed(p) => Witnessed(p)'
    BY DEF Witnessed, Added
<1>2. ASSUME Receipted(at, p) PROVE Receipted(new, p)'
    <2>1. PICK m \in 1 .. Len(log), R \in SUBSET refs :
              /\ p.operation \in log[m].operations /\ Passed(m, p.processed, R)
              /\ \A k \in 1 .. m - 1 : k <= offset /\ at[k] <= p.processed
        BY <1>2 DEF Receipted
    <2>2. m \in 1 .. Len(log)' /\ R \in SUBSET refs' /\ p.operation \in log'[m].operations
        BY <2>1, RepeatedFields DEF Added
    <2>3. Passed(m, p.processed, R)'
        BY <2>1, PassStays DEF Passed
    <2>4. \A k \in 1 .. m - 1 : k <= offset' /\ new[k] <= p.processed
        BY <2>1, RepeatedFields
    <2> QED BY <2>2, <2>3, <2>4 DEF Receipted
<1> QED BY <1>1, <1>2 DEF Founded

\* When the offset stays, so does what was dealt with before it.
LEMMA DealtStays ==
    ASSUME RepeatedTypes, Added, offset' = offset, now <= now', now' \in Nat, NEW at, Dealt(at)
    PROVE  Dealt(at)'
<1>1. at \in [1 .. offset' -> Nat]
    BY DEF Dealt
<1>2. ASSUME NEW k \in 1 .. offset'
      PROVE  /\ at[k] <= now' /\ \A j \in 1 .. k : at[j] <= at[k]
             /\ Reached(at[k], k)' => \E R \in SUBSET refs' : Passed(k, at[k], R)'
    <2>1. k \in 1 .. Len(log) /\ k \in 1 .. offset /\ at[k] \in Nat
        BY RepeatedFields DEF Dealt
    <2>2. at[k] <= now' /\ \A j \in 1 .. k : at[j] <= at[k]
        <3>1. at[k] <= now /\ \A j \in 1 .. k : at[j] <= at[k]
            BY <2>1 DEF Dealt
        <3> QED BY <2>1, <3>1, RepeatedFields
    <2>3. ASSUME Reached(at[k], k)' PROVE \E R \in SUBSET refs' : Passed(k, at[k], R)'
        <3>1. Reached(at[k], k)
            BY <2>1, <2>3, PassStays
        <3>2. PICK R \in SUBSET refs : Passed(k, at[k], R)
            BY <2>1, <3>1 DEF Dealt
        <3>3. Passed(k, at[k], R)'
            BY <2>1, <3>2, PassStays DEF Passed
        <3> QED BY <3>2, <3>3 DEF Added
    <2> QED BY <2>2, <2>3
<1> QED BY <1>1, <1>2 DEF Dealt

\* A step that leaves the offset keeps what was dealt with, if its own receipts have a ground.
LEMMA HistoryStays ==
    ASSUME RepeatedInvariant, RepeatedTypes', Added, offset' = offset, now <= now',
           \A at, p : Dealt(at) /\ Dealt(at)' /\ p \in proofs' \ proofs => Founded(at, p)'
    PROVE  \E at : Dealt(at)' /\ \A p \in proofs' : Founded(at, p)'
<1>1. RepeatedTypes
    BY DEF RepeatedInvariant
<1>2. PICK at : Dealt(at) /\ \A p \in proofs : Founded(at, p)
    BY DEF RepeatedInvariant
<1>3. now \in Nat /\ offset \in Nat /\ now' \in Nat /\ offset' \in Nat /\ Len(log)' \in Nat
    <2>1. now' \in Nat /\ Len(log)' \in Nat /\ offset' \in Nat
        BY RepeatingFields DEF RepeatedTypes
    <2> QED BY <1>1, <2>1, RepeatedFields
<1>4. Dealt(at)'
    BY <1>1, <1>2, <1>3, DealtStays
<1>5. ASSUME NEW p \in proofs PROVE Founded(at, p)'
    BY <1>1, <1>2, <1>3, FoundedStays
<1> QED BY <1>2, <1>4, <1>5

\* What has its rows keeps them, and time brings nothing back.
LEMMA HandledStays ==
    ASSUME RepeatedTypes, Handled, Added, offset' = offset, now <= now', now' \in Nat
    PROVE  Handled'
<1> SUFFICES ASSUME NEW k \in 1 .. offset, Reached(now, k)' PROVE Inserted(k)'
    BY DEF Handled
<1>1. k \in 1 .. Len(log) /\ now \in Nat /\ log[k].received \in Nat
    BY RepeatedFields
<1>2. log'[k].received > now' - 2 * Repeating.day /\ log'[k] = log[k]
    BY <1>1 DEF Reached, Added
<1>3. Reached(now, k)
    BY <1>1, <1>2, RepeatingFields DEF Reached
<1> QED BY <1>1, <1>3, PassStays DEF Handled

\* A member that does nothing keeps what it has in hand.
LEMMA HandStays ==
    ASSUME RepeatedTypes, Added, offset <= offset', offset' \in Nat, Len(log)' \in Nat, now' = now,
           NEW c \in Consumers, HandOf(c), projecting'[c] = projecting[c]
    PROVE  HandOf(c)'
<1>1. Doing(c)' = Doing(c) /\ projecting'[c].message = projecting[c].message
      /\ projecting'[c].processed = projecting[c].processed /\ projecting'[c].visible = projecting[c].visible
    BY DEF Doing
<1>2. CASE Doing(c) = "idle"
    BY <1>1, <1>2 DEF HandOf
<1>3. CASE Doing(c) # "idle"
    <2>1. PICK m, time, R : m = projecting[c].message /\ time = now /\ R = projecting[c].visible
        OBVIOUS
    <2>2. m \in 1 .. Len(log) /\ m - 1 <= offset /\ projecting[c].processed = time
        BY <1>3, <2>1 DEF HandOf
    <2>3. m \in 1 .. Len(log)' /\ m - 1 <= offset'
        BY <2>2, RepeatedFields DEF Added
    <2>4. /\ Doing(c) \in {"query", "prove", "commit"} => Inserted(m)
          /\ Doing(c) \in {"prove", "commit"} => Looked(m, time, R)
          /\ Doing(c) = "commit" => Wrote(m, time, R)
          /\ Doing(c) \in {"idle", "insert", "query"} => R = {}
        BY <2>1 DEF HandOf
    <2>5. /\ Doing(c)' \in {"query", "prove", "commit"} => Inserted(m)'
          /\ Doing(c)' \in {"prove", "commit"} => Looked(m, time, R)'
          /\ Doing(c)' = "commit" => Wrote(m, time, R)'
          /\ Doing(c)' \in {"idle", "insert", "query"} => R = {}
        BY <1>1, <2>2, <2>4, PassStays
    <2>6. m = projecting'[c].message /\ time = now' /\ R = projecting'[c].visible /\ projecting'[c].processed = time
        BY <1>1, <2>1, <2>2
    <2> QED BY <1>1, <1>3, <2>3, <2>5, <2>6 DEF HandOf
<1> QED BY <1>2, <1>3

\* A request is accepted.
LEMMA AcceptKeeps ==
    ASSUME RepeatedInvariant, NEW S \in Repeating.batches, Repetitions!Accept(S)
    PROVE  RepeatedInvariant'
<1>1. RepeatedTypes /\ InTime /\ FromLog /\ Handled /\ InHand
    BY DEF RepeatedInvariant
<1>2. /\ log' = Append(log, [operations |-> S, received |-> now])
      /\ now' = now /\ offset' = offset /\ rows' = rows /\ refs' = refs /\ proofs' = proofs
      /\ projecting' = projecting
    BY DEF Repetitions!Accept
<1> DEFINE M == [operations : SUBSET Repeating.operations, received : Nat]
           e == [operations |-> S, received |-> now]
<1>3. log \in Seq(M) /\ e \in M
    <2>1. S \in SUBSET Repeating.operations /\ now \in Nat
        BY <1>1, RepeatingFields, RepeatedFields
    <2> QED BY <1>1, <2>1 DEF RepeatedTypes
<1>4. /\ log' \in Seq(M) /\ Len(log)' = Len(log) + 1 /\ log'[Len(log) + 1] = e
      /\ \A k \in 1 .. Len(log) : log'[k] = log[k]
    <2> HIDE DEF M, e
    <2>1. log' = Append(log, e)
        BY <1>2 DEF e
    <2> QED BY <1>3, <2>1, Appended
<1>5. Added /\ Len(log) \in Nat
    BY <1>1, <1>2, <1>4, RepeatedFields DEF Added
<1>6. RepeatedTypes'
    <2>1. offset \in 0 .. Len(log)' /\ rows \in 0 .. Len(log)'
        BY <1>1, <1>4, RepeatedFields
    <2> QED BY <1>1, <1>2, <1>4, <2>1 DEF RepeatedTypes
<1>7. InTime'
    <2>1. \A k \in 1 .. Len(log) : log[k].received <= now /\ log[k].received \in Nat
        BY <1>1, RepeatedFields DEF InTime
    <2>2. \A k \in 1 .. Len(log)' : k \in 1 .. Len(log) \/ k = Len(log) + 1
        BY <1>4, <1>5
    <2>3. now \in Nat /\ log'[Len(log) + 1].received = now
        BY <1>1, <1>4, RepeatedFields
    <2>4. \A k \in 1 .. Len(log)' : log'[k].received <= now'
        BY <1>2, <1>4, <2>1, <2>2, <2>3
    <2>5. ASSUME NEW j \in 1 .. Len(log)', NEW k \in 1 .. Len(log)', j <= k
          PROVE  log'[j].received <= log'[k].received
        <3>1. CASE k \in 1 .. Len(log)
            <4>1. j \in 1 .. Len(log)
                BY <1>5, <2>5, <3>1
            <4> QED BY <1>1, <1>4, <2>5, <3>1, <4>1 DEF InTime
        <3>2. CASE k = Len(log) + 1
            BY <1>2, <2>3, <2>4, <3>2
        <3> QED BY <2>2, <3>1, <3>2
    <2> QED BY <2>4, <2>5 DEF InTime
<1>8. FromLog'
    <2>1. \A k \in 1 .. Len(log) : k \in 1 .. Len(log)'
        BY <1>4, <1>5
    <2> QED BY <1>1, <1>2, <1>4, <2>1 DEF FromLog
<1>9. Handled'
    BY <1>1, <1>2, <1>5, RepeatedFields, HandledStays
<1>10. InHand'
    <2>1. Len(log)' \in Nat /\ offset \in Nat /\ offset <= offset'
        BY <1>1, <1>2, <1>4, <1>5, RepeatedFields
    <2> QED BY <1>1, <1>2, <1>5, <2>1, HandStays DEF InHand
<1>11. \E at : Dealt(at)' /\ \A p \in proofs' : Founded(at, p)'
    <2>1. now <= now'
        BY <1>1, <1>2, RepeatedFields
    <2> QED BY <1>2, <1>5, <1>6, <2>1, HistoryStays
<1> QED BY <1>6, <1>7, <1>8, <1>9, <1>10, <1>11 DEF RepeatedInvariant

\* A step of one process that leaves the log, the time and the offset alone.
LEMMA StepKeeps ==
    ASSUME RepeatedInvariant, NEW c \in Consumers, UNCHANGED <<now, log, offset, rows>>,
           refs \subseteq refs', proofs \subseteq proofs',
           RepeatedTypes', FromLog', HandOf(c)', \A d \in Consumers \ {c} : projecting'[d] = projecting[d],
           \A at, p : Dealt(at) /\ Dealt(at)' /\ p \in proofs' \ proofs => Founded(at, p)'
    PROVE  RepeatedInvariant'
<1>1. RepeatedTypes /\ InTime /\ FromLog /\ Handled /\ InHand
    BY DEF RepeatedInvariant
<1>2. Added /\ now \in Nat /\ offset \in Nat /\ Len(log) \in Nat
    BY <1>1, RepeatedFields DEF Added
<1>3. InTime'
    BY <1>1 DEF InTime
<1>4. Handled'
    BY <1>1, <1>2, HandledStays
<1>5. InHand'
    BY <1>1, <1>2, HandStays DEF InHand
<1>6. \E at : Dealt(at)' /\ \A p \in proofs' : Founded(at, p)'
    BY <1>2, HistoryStays
<1> QED BY <1>3, <1>4, <1>5, <1>6 DEF RepeatedInvariant

\* Rows are stored.
LEMMA StoreKeeps ==
    ASSUME RepeatedInvariant, Repetitions!StoreEvents PROVE RepeatedInvariant'
<1>1. RepeatedTypes /\ InTime /\ FromLog /\ Handled /\ InHand
    BY DEF RepeatedInvariant
<1>2. UNCHANGED <<now, log, offset, refs, proofs, projecting>> /\ rows' \in 0 .. Len(log)
    BY <1>1, RepeatedFields DEF Repetitions!StoreEvents
<1>3. Added /\ now \in Nat /\ offset \in Nat /\ Len(log) \in Nat
    BY <1>1, <1>2, RepeatedFields DEF Added
<1>4. RepeatedTypes'
    BY <1>1, <1>2 DEF RepeatedTypes
<1>5. InTime' /\ FromLog'
    BY <1>1, <1>2 DEF InTime, FromLog
<1>6. Handled'
    BY <1>1, <1>2, <1>3, HandledStays
<1>7. InHand'
    BY <1>1, <1>2, <1>3, HandStays DEF InHand
<1>8. \E at : Dealt(at)' /\ \A p \in proofs' : Founded(at, p)'
    BY <1>2, <1>3, <1>4, HistoryStays
<1> QED BY <1>4, <1>5, <1>6, <1>7, <1>8 DEF RepeatedInvariant

Hand == [pc : {"idle", "insert", "query", "prove", "commit"},
         message : Nat, processed : Nat, visible : SUBSET Refs]

\* What one process does.
LEMMA Moved ==
    ASSUME RepeatedTypes, NEW c \in Consumers, NEW j \in Hand, projecting' = [projecting EXCEPT ![c] = j]
    PROVE  /\ projecting' \in [Consumers -> Hand] /\ projecting'[c] = j
           /\ \A d \in Consumers \ {c} : projecting'[d] = projecting[d]
<1>1. projecting \in [Consumers -> Hand]
    BY DEF RepeatedTypes, Hand
<1> HIDE DEF Hand
<1> QED BY <1>1

\* A step that only moves a process.
LEMMA MoveKeeps ==
    ASSUME RepeatedInvariant, UNCHANGED <<now, log, offset, rows, refs, proofs>>,
           NEW c \in Consumers, NEW j \in Hand, projecting' = [projecting EXCEPT ![c] = j], HandOf(c)'
    PROVE  RepeatedInvariant'
<1>1. RepeatedTypes /\ FromLog
    BY DEF RepeatedInvariant
<1>2. /\ projecting' \in [Consumers -> Hand]
      /\ \A d \in Consumers \ {c} : projecting'[d] = projecting[d]
    BY <1>1, Moved
<1>3. RepeatedTypes'
    BY <1>1, <1>2 DEF RepeatedTypes, Hand
<1>4. FromLog'
    BY <1>1 DEF FromLog
<1> QED BY <1>2, <1>3, <1>4, StepKeeps

\* A member with nothing in hand.
Resting == [pc |-> "idle", message |-> 0, processed |-> 0, visible |-> {}]

\* A member gives up what it has in hand.
LEMMA RestKeeps ==
    ASSUME RepeatedInvariant, UNCHANGED <<now, log, offset, rows, refs, proofs>>,
           NEW c \in Consumers, projecting' = [projecting EXCEPT ![c] = Resting]
    PROVE  RepeatedInvariant'
<1>1. Resting \in Hand
    BY DEF Resting, Hand
<1>2. projecting'[c] = Resting
    BY <1>1, Moved DEF RepeatedInvariant
<1>3. HandOf(c)'
    BY <1>2 DEF HandOf, Doing, Resting
<1> QED BY <1>1, <1>3, MoveKeeps

\* The next message is behind the offset.
LEMMA OffsetKeeps ==
    ASSUME RepeatedInvariant, UNCHANGED <<now, log, rows, refs, proofs>>,
           offset < Len(log), offset' = offset + 1,
           Reached(now, offset + 1) => Inserted(offset + 1)
                                       /\ \E R \in SUBSET refs : Passed(offset + 1, now, R),
           NEW c \in Consumers, projecting' = projecting \/ projecting' = [projecting EXCEPT ![c] = Resting]
    PROVE  RepeatedInvariant'
<1>1. RepeatedTypes /\ InTime /\ FromLog /\ Handled /\ InHand
    BY DEF RepeatedInvariant
<1>2. Added /\ now \in Nat /\ offset \in Nat /\ Len(log) \in Nat /\ offset' \in 0 .. Len(log)
    BY <1>1, RepeatedFields DEF Added
<1>3. RepeatedTypes'
    <2>1. Resting \in Hand
        BY DEF Resting, Hand
    <2>2. projecting' \in [Consumers -> Hand]
        <3>1. CASE projecting' = projecting
            BY <1>1, <3>1 DEF RepeatedTypes, Hand
        <3>2. CASE projecting' = [projecting EXCEPT ![c] = Resting]
            BY <1>1, <2>1, <3>2, Moved
        <3> QED BY <3>1, <3>2
    <2> QED BY <1>1, <1>2, <2>2 DEF RepeatedTypes, Hand
<1>4. InTime' /\ FromLog'
    BY <1>1 DEF InTime, FromLog
<1>5. \A k \in 1 .. offset' : k \in 1 .. offset \/ k = offset + 1
    BY <1>2
<1>6. Handled'
    <2> SUFFICES ASSUME NEW k \in 1 .. offset', Reached(now, k)' PROVE Inserted(k)'
        BY DEF Handled
    <2>1. Reached(now, k)
        BY DEF Reached
    <2>2. Inserted(k)
        BY <1>1, <1>5, <2>1 DEF Handled
    <2> QED BY <2>2 DEF Inserted, RefOf
<1>7. InHand'
    <2> SUFFICES ASSUME NEW d \in Consumers PROVE HandOf(d)'
        BY DEF InHand
    <2>1. CASE projecting'[d] = projecting[d]
        BY <1>1, <1>2, <2>1, HandStays DEF InHand
    <2>2. CASE projecting' = [projecting EXCEPT ![c] = Resting] /\ d = c
        <3>1. projecting'[d] = Resting
            BY <1>1, <2>2 DEF RepeatedTypes
        <3> QED BY <3>1 DEF HandOf, Doing, Resting
    <2>3. CASE projecting' = [projecting EXCEPT ![c] = Resting] /\ d # c
        <3>1. projecting'[d] = projecting[d]
            BY <1>1, <2>3 DEF RepeatedTypes
        <3> QED BY <2>1, <3>1
    <2> QED BY <2>1, <2>2, <2>3
<1>8. PICK at : Dealt(at) /\ \A p \in proofs : Founded(at, p)
    BY DEF RepeatedInvariant
<1>9. PICK new : new = [k \in 1 .. offset' |-> IF k <= offset THEN at[k] ELSE now]
    OBVIOUS
<1>10. \A k \in 1 .. offset : new[k] = at[k] /\ k <= offset /\ k \in 1 .. offset'
    BY <1>2, <1>9
<1>11. new[offset + 1] = now
    BY <1>2, <1>9
<1>12. new \in [1 .. offset' -> Nat]
    BY <1>2, <1>5, <1>8, <1>9 DEF Dealt
<1>13. Dealt(new)'
    <2>1. \A k \in 1 .. offset : at[k] \in Nat /\ at[k] <= now
        BY <1>8 DEF Dealt
    <2>2. \A k \in 1 .. offset' : new[k] <= now
        BY <1>2, <1>5, <1>10, <1>11, <2>1
    <2>3. ASSUME NEW k \in 1 .. offset', NEW j \in 1 .. k PROVE new[j] <= new[k]
        <3>1. CASE k \in 1 .. offset
            <4>1. j \in 1 .. offset /\ at[j] <= at[k]
                BY <1>2, <1>8, <3>1 DEF Dealt
            <4> QED BY <1>10, <3>1, <4>1
        <3>2. CASE k = offset + 1
            <4>1. j \in 1 .. offset'
                BY <1>2
            <4> QED BY <1>11, <2>2, <3>2, <4>1
        <3> QED BY <1>5, <3>1, <3>2
    <2>4. ASSUME NEW k \in 1 .. offset', Reached(new[k], k) PROVE \E R \in SUBSET refs : Passed(k, new[k], R)
        <3>1. CASE k \in 1 .. offset
            BY <1>8, <1>10, <2>4, <3>1 DEF Dealt
        <3>2. CASE k = offset + 1
            BY <1>11, <2>4, <3>2
        <3> QED BY <1>5, <3>1, <3>2
    <2>5. \A k \in 1 .. offset' : Reached(new[k], k)' => \E R \in SUBSET refs' : Passed(k, new[k], R)'
        BY <2>4 DEF Reached, Passed, Looked, Wrote, RefOf
    <2> QED BY <1>12, <2>2, <2>3, <2>5 DEF Dealt
<1>14. ASSUME NEW p \in proofs' PROVE Founded(new, p)'
    <2>1. \A k \in 1 .. offset : new[k] = at[k]
        BY <1>10
    <2> QED BY <1>1, <1>2, <1>8, <2>1, FoundedStays
<1>15. \E f : Dealt(f)' /\ \A p \in proofs' : Founded(f, p)'
    BY <1>13, <1>14
<1> QED BY <1>3, <1>4, <1>6, <1>7, <1>15 DEF RepeatedInvariant

\* A member takes the message behind the offset, or skips it.
LEMMA TakeKeeps ==
    ASSUME RepeatedInvariant, NEW c \in Consumers, Repetitions!Take(c) PROVE RepeatedInvariant'
<1>1. RepeatedTypes /\ InTime /\ Handled
    BY DEF RepeatedInvariant
<1>2. Doing(c) = "idle" /\ offset < Len(log) /\ UNCHANGED <<now, log, rows, refs, proofs>>
    BY DEF Repetitions!Take, Doing
<1>3. now \in Nat /\ offset \in Nat /\ Len(log) \in Nat /\ offset + 1 \in 1 .. Len(log)
    BY <1>1, <1>2, RepeatedFields
<1>4. CASE Repetitions!Overdue(log[offset + 1])
    <2>1. offset' = offset + 1 /\ projecting' = projecting
        BY <1>4 DEF Repetitions!Take
    <2>2. ~Reached(now, offset + 1)
        <3>1. log[offset + 1].received \in Nat
            BY <1>1, <1>3, RepeatedFields
        <3> QED BY <1>3, <1>4, <3>1, RepeatingFields DEF Repetitions!Overdue, Reached
    <2> QED BY <1>2, <2>1, <2>2, OffsetKeeps
<1>5. CASE ~Repetitions!Overdue(log[offset + 1])
    <2> DEFINE j == [pc |-> "insert", message |-> offset + 1, processed |-> now, visible |-> {}]
    <2>1. offset' = offset /\ projecting' = [projecting EXCEPT ![c] = j]
        BY <1>5 DEF Repetitions!Take, Repetitions!Idle
    <2>2. j \in Hand
        BY <1>3 DEF Hand
    <2>3. projecting'[c] = j
        <3> HIDE DEF j
        <3> QED BY <1>1, <2>1, <2>2, Moved
    <2>4. HandOf(c)'
        <3>1. Doing(c)' = "insert" /\ projecting'[c].message = offset + 1 /\ projecting'[c].processed = now
              /\ projecting'[c].visible = {}
            BY <2>3 DEF Doing
        <3>2. offset + 1 - 1 <= offset
            BY <1>3
        <3> QED BY <1>2, <1>3, <2>1, <3>1, <3>2 DEF HandOf
    <2> HIDE DEF j
    <2> QED BY <1>2, <2>1, <2>2, <2>4, MoveKeeps
<1> QED BY <1>4, <1>5

\* It inserts the rows of its message.
LEMMA InsertRefsKeeps ==
    ASSUME RepeatedInvariant, NEW c \in Consumers, Repetitions!InsertRefs(c) PROVE RepeatedInvariant'
<1>1. RepeatedTypes /\ InTime /\ FromLog /\ HandOf(c)
    BY DEF RepeatedInvariant, InHand
<1> DEFINE m == projecting[c].message
           j == [projecting[c] EXCEPT !.pc = "query"]
           Fresh == {RefOf(m, o) : o \in log[m].operations}
<1>2. Doing(c) = "insert" /\ UNCHANGED <<now, log, offset, rows, proofs>>
      /\ projecting' = [projecting EXCEPT ![c] = j] /\ refs' = refs \cup Fresh
    BY DEF Repetitions!InsertRefs, Repetitions!Incoming, Doing, RefOf
<1>3. m \in 1 .. Len(log) /\ m - 1 <= offset /\ projecting[c].processed = now /\ projecting[c].visible = {}
    BY <1>1, <1>2 DEF HandOf
<1>4. \A o \in log[m].operations : /\ RefOf(m, o) \in Refs
                                   /\ RefOf(m, o).operation = o /\ RefOf(m, o).received = log[m].received
    BY <1>1, <1>3, RepeatedFields DEF RefOf, Refs
<1>5. log[m].received <= now
    BY <1>1, <1>3 DEF InTime
<1>6. j \in Hand /\ j.message = m /\ j.processed = now /\ j.visible = {} /\ j.pc = "query"
    <2>1. projecting[c] \in Hand
        BY <1>1 DEF RepeatedTypes, Hand
    <2> QED BY <1>3, <2>1 DEF Hand
<1>7. /\ projecting' \in [Consumers -> Hand] /\ projecting'[c] = j
      /\ \A d \in Consumers \ {c} : projecting'[d] = projecting[d]
    <2> HIDE DEF j
    <2> QED BY <1>1, <1>2, <1>6, Moved
<1>8. RepeatedTypes'
    <2>1. refs' \subseteq Refs /\ \A r \in refs' : r.received <= now
        <3> HIDE DEF m
        <3> QED BY <1>1, <1>2, <1>4, <1>5 DEF RepeatedTypes
    <2> HIDE DEF m, j, Fresh
    <2> QED BY <1>1, <1>2, <1>7, <2>1 DEF RepeatedTypes, Hand
<1>9. FromLog'
    <2> HIDE DEF m, j
    <2> QED BY <1>1, <1>2, <1>3, <1>4 DEF FromLog
<1>10. HandOf(c)'
    <2>1. PICK n : n = m
        OBVIOUS
    <2>2. Inserted(n)'
        BY <1>2, <2>1 DEF Inserted, RefOf
    <2>3. Doing(c)' = "query" /\ projecting'[c].message = n /\ projecting'[c].processed = now' /\ projecting'[c].visible = {}
        BY <1>2, <1>6, <1>7, <2>1 DEF Doing
    <2>4. n \in 1 .. Len(log)' /\ n - 1 <= offset'
        BY <1>2, <1>3, <2>1
    <2> HIDE DEF m, j, Fresh
    <2> QED BY <2>2, <2>3, <2>4 DEF HandOf
<1> HIDE DEF m, j, Fresh
<1> QED BY <1>2, <1>7, <1>8, <1>9, <1>10, StepKeeps

\* It reads the rows of the last two days.
LEMMA QueryRefsKeeps ==
    ASSUME RepeatedInvariant, NEW c \in Consumers, Repetitions!QueryRefs(c) PROVE RepeatedInvariant'
<1>1. RepeatedTypes /\ InTime /\ Handled /\ HandOf(c)
    BY DEF RepeatedInvariant, InHand
<1>2. PICK R : R = {r \in refs : Repetitions!Recent(c, r)}
    OBVIOUS
<1>3. PICK m : m = projecting[c].message
    OBVIOUS
<1> DEFINE j == [projecting[c] EXCEPT !.pc = "prove", !.visible = R]
<1>4. Doing(c) = "query" /\ UNCHANGED <<now, log, offset, rows, refs, proofs>>
      /\ projecting' = [projecting EXCEPT ![c] = j]
    BY <1>2 DEF Repetitions!QueryRefs, Doing
<1>5. m \in 1 .. Len(log) /\ m - 1 <= offset /\ projecting[c].processed = now /\ Inserted(m)
    BY <1>1, <1>3, <1>4 DEF HandOf
<1>6. j \in Hand /\ j.message = m /\ j.processed = now /\ j.visible = R /\ j.pc = "prove"
    <2>1. projecting[c] \in Hand
        BY <1>1 DEF RepeatedTypes, Hand
    <2>2. R \subseteq Refs
        BY <1>1, <1>2 DEF RepeatedTypes
    <2> QED BY <1>3, <1>5, <2>1, <2>2 DEF Hand
<1>7. projecting'[c] = j
    <2> HIDE DEF j
    <2> QED BY <1>1, <1>4, <1>6, Moved
<1>8. Looked(m, now, R)
    <2>1. R \subseteq refs /\ \A r \in R : r.received > now - 2 * Repeating.day
        BY <1>2, <1>5 DEF Repetitions!Recent
    <2>2. ASSUME NEW k \in 1 .. m, Reached(now, k), NEW o \in log[k].operations
          PROVE  RefOf(k, o) \in R
        <3>1. Inserted(k)
            <4>1. k \in 1 .. offset \/ k = m
                BY <1>1, <1>5, RepeatedFields
            <4> QED BY <1>1, <1>5, <2>2, <4>1 DEF Handled
        <3>2. RefOf(k, o) \in refs /\ RefOf(k, o).received > now - 2 * Repeating.day
            BY <2>2, <3>1 DEF Inserted, Reached, RefOf
        <3> QED BY <1>2, <1>5, <3>2 DEF Repetitions!Recent
    <2> QED BY <2>1, <2>2 DEF Looked
<1>9. HandOf(c)'
    <2>1. Looked(m, now, R)' /\ Inserted(m)'
        BY <1>4, <1>5, <1>8 DEF Looked, Inserted, Reached, RefOf
    <2>2. Doing(c)' = "prove" /\ projecting'[c].message = m /\ projecting'[c].processed = now' /\ projecting'[c].visible = R
        BY <1>4, <1>6, <1>7 DEF Doing
    <2>3. m \in 1 .. Len(log)' /\ m - 1 <= offset'
        BY <1>4, <1>5
    <2> HIDE DEF j
    <2> QED BY <2>1, <2>2, <2>3 DEF HandOf
<1> HIDE DEF j
<1> QED BY <1>4, <1>6, <1>9, MoveKeeps

\* It writes what it concludes.
LEMMA InsertProofsKeeps ==
    ASSUME RepeatedInvariant, NEW c \in Consumers, Repetitions!InsertProofs(c) PROVE RepeatedInvariant'
<1>1. RepeatedTypes /\ FromLog /\ HandOf(c)
    BY DEF RepeatedInvariant, InHand
<1>2. PICK m, R : m = projecting[c].message /\ R = projecting[c].visible
    OBVIOUS
<1> DEFINE j == [projecting[c] EXCEPT !.pc = "commit"]
           New == {p \in Repetitions!Proofs(R, now) : Repetitions!Kept(p, log[m])}
<1>3. Doing(c) = "prove" /\ UNCHANGED <<now, log, offset, rows, refs>>
      /\ projecting' = [projecting EXCEPT ![c] = j]
    BY DEF Repetitions!InsertProofs, Doing
<1>4. /\ m \in 1 .. Len(log) /\ m - 1 <= offset /\ projecting[c].processed = now
      /\ Inserted(m) /\ Looked(m, now, R)
    BY <1>1, <1>2, <1>3 DEF HandOf
<1>5. proofs' = proofs \cup New
    BY <1>2, <1>4 DEF Repetitions!InsertProofs, Repetitions!Incoming
<1>6. j \in Hand /\ j.message = m /\ j.processed = now /\ j.visible = R /\ j.pc = "commit"
    <2>1. projecting[c] \in Hand
        BY <1>1 DEF RepeatedTypes, Hand
    <2> QED BY <1>2, <1>4, <2>1 DEF Hand
<1>7. /\ projecting' \in [Consumers -> Hand] /\ projecting'[c] = j
      /\ \A d \in Consumers \ {c} : projecting'[d] = projecting[d]
    <2> HIDE DEF j
    <2> QED BY <1>1, <1>3, <1>6, Moved
<1>8. RepeatedTypes'
    <2> HIDE DEF j, New
    <2> QED BY <1>1, <1>3, <1>7 DEF RepeatedTypes, Hand
<1>9. FromLog'
    BY <1>1, <1>3 DEF FromLog
<1>10. Looked(m, now, R)' /\ Inserted(m)' /\ Wrote(m, now, R)'
    <2>1. Looked(m, now, R)' /\ Inserted(m)'
        BY <1>3, <1>4 DEF Looked, Inserted, Reached, RefOf
    <2>2. Wrote(m, now, R)'
        BY <1>3, <1>5 DEF Wrote
    <2> QED BY <2>1, <2>2
<1>11. HandOf(c)'
    <2>1. Doing(c)' = "commit" /\ projecting'[c].message = m /\ projecting'[c].processed = now' /\ projecting'[c].visible = R
        BY <1>3, <1>6, <1>7 DEF Doing
    <2>2. m \in 1 .. Len(log)' /\ m - 1 <= offset'
        BY <1>3, <1>4
    <2> HIDE DEF j, New
    <2> QED BY <1>10, <2>1, <2>2 DEF HandOf
<1>12. ASSUME NEW at, NEW p, Dealt(at), p \in proofs' \ proofs PROVE Founded(at, p)'
    <2>1. p \in Repetitions!Proofs(R, now) /\ Repetitions!Kept(p, log[m])
        BY <1>5, <1>12
    <2>2. now \in Nat /\ R \subseteq refs /\ R \subseteq Refs /\ IsFiniteSet(R)
        BY <1>1, <1>4, RepeatedFields, RefsFinite DEF Looked, RepeatedTypes
    <2> HIDE DEF j, New
    <2>3. p.processed = now /\ p.hit \in BOOLEAN
        BY <2>1, <2>2, PassIsTrue
    <2>4. ASSUME p.hit PROVE Witnessed(p)'
        <3>1. PICK x1 \in R, x2 \in R, x3 \in R :
                p.operation = x1.operation /\ \E alias : Repeats(x1, x2, x3, alias)
            BY <2>1, <2>2, <2>4, PassIsTrue
        <3>2. x1 \in refs' /\ x2 \in refs' /\ x3 \in refs'
            BY <1>3, <2>2
        <3> QED BY <3>1, <3>2 DEF Witnessed
    <2>5. ASSUME ~p.hit PROVE Receipted(at, p)'
        <3>1. p.operation \in log[m].operations
            BY <2>1, <2>5 DEF Repetitions!Kept
        <3>2. PICK time : time = now
            OBVIOUS
        <3>3. Passed(m, time, R)'
            BY <1>3, <1>10, <3>2 DEF Passed
        <3>4. \A k \in 1 .. m - 1 : k <= offset /\ at[k] <= time
            <4>1. \A k \in 1 .. m - 1 : k \in 1 .. offset
                BY <1>1, <1>4, RepeatedFields
            <4> QED BY <1>1, <1>12, <3>2, <4>1, RepeatedFields DEF Dealt
        <3>5. m \in 1 .. Len(log)' /\ R \in SUBSET refs' /\ p.operation \in log'[m].operations /\ p.processed = time
            BY <1>3, <1>4, <2>2, <2>3, <3>1, <3>2
        <3> QED BY <1>3, <3>3, <3>4, <3>5 DEF Receipted
    <2> QED BY <2>2, <2>3, <2>4, <2>5 DEF Founded
<1>13. proofs \subseteq proofs'
    BY <1>5
<1> HIDE DEF j, New
<1> QED BY <1>3, <1>7, <1>8, <1>9, <1>11, <1>12, <1>13, StepKeeps

\* It commits the offset.
LEMMA CommitKeeps ==
    ASSUME RepeatedInvariant, NEW c \in Consumers, Repetitions!Commit(c) PROVE RepeatedInvariant'
<1>1. RepeatedTypes /\ HandOf(c)
    BY DEF RepeatedInvariant, InHand
<1>2. PICK m, R : m = projecting[c].message /\ R = projecting[c].visible
    OBVIOUS
<1>3. /\ Doing(c) = "commit" /\ UNCHANGED <<now, log, rows, refs, proofs>>
      /\ projecting' = [projecting EXCEPT ![c] = Resting]
      /\ offset' = IF m > offset THEN m ELSE offset
    BY <1>2 DEF Repetitions!Commit, Repetitions!Idle, Resting, Doing
<1>4. m \in 1 .. Len(log) /\ m - 1 <= offset /\ Inserted(m) /\ Passed(m, now, R)
    BY <1>1, <1>2, <1>3 DEF HandOf, Passed
<1>5. offset \in Nat /\ Len(log) \in Nat
    BY <1>1, RepeatedFields
<1>6. CASE m > offset
    <2>1. m = offset + 1 /\ offset < Len(log)
        BY <1>4, <1>5, <1>6
    <2>2. R \in SUBSET refs
        BY <1>4 DEF Passed, Looked
    <2> QED BY <1>3, <1>4, <1>6, <2>1, <2>2, OffsetKeeps
<1>7. CASE ~(m > offset)
    BY <1>3, <1>7, RestKeeps
<1> QED BY <1>6, <1>7

\* Time passes while nobody is at work.
LEMMA TickKeeps ==
    ASSUME RepeatedInvariant, Repetitions!Tick PROVE RepeatedInvariant'
<1>1. RepeatedTypes /\ InTime /\ FromLog /\ Handled /\ InHand
    BY DEF RepeatedInvariant
<1>2. /\ now < Repeating.time /\ now' = now + 1
      /\ \A c \in Consumers : Doing(c) = "idle"
      /\ UNCHANGED <<log, offset, rows, refs, proofs, projecting>>
    BY DEF Repetitions!Tick, Doing
<1>3. Added /\ now \in Nat /\ now' \in Nat /\ now <= now' /\ now' <= Repeating.time
    BY <1>1, <1>2, RepeatedFields, RepeatingFields DEF Added
<1>4. RepeatedTypes'
    <2>1. now' \in 0 .. Repeating.time
        BY <1>3, RepeatingFields
    <2>2. \A r \in refs : r.received <= now'
        <3>1. \A r \in refs : r.received \in Nat /\ r.received <= now
            BY <1>1, RepeatedFields DEF RepeatedTypes
        <3> QED BY <1>3, <3>1
    <2> QED BY <1>1, <1>2, <2>1, <2>2 DEF RepeatedTypes
<1>5. InTime'
    <2>1. \A k \in 1 .. Len(log) : log[k].received \in Nat /\ log[k].received <= now
        BY <1>1, RepeatedFields DEF InTime
    <2>2. \A k \in 1 .. Len(log) : log[k].received <= now'
        BY <1>3, <2>1
    <2> QED BY <1>1, <1>2, <2>2 DEF InTime
<1>6. FromLog'
    BY <1>1, <1>2 DEF FromLog
<1>7. Handled'
    BY <1>1, <1>2, <1>3, HandledStays
<1>8. InHand'
    <2> SUFFICES ASSUME NEW c \in Consumers PROVE HandOf(c)'
        BY DEF InHand
    <2>1. Doing(c)' = "idle" /\ projecting'[c] = projecting[c]
        BY <1>2 DEF Doing
    <2> QED BY <1>1, <1>2, <2>1 DEF InHand, HandOf
<1>9. \E at : Dealt(at)' /\ \A p \in proofs' : Founded(at, p)'
    BY <1>2, <1>3, <1>4, HistoryStays
<1> QED BY <1>4, <1>5, <1>6, <1>7, <1>8, <1>9 DEF RepeatedInvariant

\* Nothing has happened.
LEMMA RepeatedBegins == Repetitions!Init => RepeatedInvariant
<1> SUFFICES ASSUME Repetitions!Init PROVE RepeatedInvariant
    OBVIOUS
<1>1. /\ now = 0 /\ log = <<>> /\ offset = 0 /\ rows = 0 /\ refs = {} /\ proofs = {}
      /\ projecting = [c \in Consumers |-> Resting]
    BY DEF Repetitions!Init, Repetitions!Idle, Resting
<1>2. RepeatedTypes
    <2>1. Resting \in Hand
        BY DEF Resting, Hand
    <2>2. projecting \in [Consumers -> Hand]
        BY <1>1, <2>1
    <2>3. log \in Seq([operations : SUBSET Repeating.operations, received : Nat]) /\ Len(log) = 0
        BY <1>1
    <2> QED BY <1>1, <2>2, <2>3, RepeatingFields DEF RepeatedTypes, Hand
<1>3. Len(log) = 0 /\ 1 .. 0 = {}
    BY <1>1
<1>4. InTime /\ FromLog /\ Handled
    BY <1>1, <1>3 DEF InTime, FromLog, Handled
<1>5. InHand
    <2>1. \A c \in Consumers : projecting[c] = Resting
        BY <1>1
    <2> QED BY <2>1 DEF InHand, HandOf, Doing, Resting
<1>6. \E at : Dealt(at) /\ \A p \in proofs : Founded(at, p)
    <2>1. [k \in 1 .. 0 |-> 0] \in [1 .. offset -> Nat]
        BY <1>1
    <2>2. Dealt([k \in 1 .. 0 |-> 0])
        BY <1>1, <1>3, <2>1 DEF Dealt
    <2> QED BY <1>1, <2>2
<1> QED BY <1>2, <1>4, <1>5, <1>6 DEF RepeatedInvariant

\* Every step of the component keeps it.
LEMMA RepeatedKept == RepeatedInvariant /\ Repetitions!Next => RepeatedInvariant'
<1> SUFFICES ASSUME RepeatedInvariant, Repetitions!Next PROVE RepeatedInvariant'
    OBVIOUS
<1>1. ASSUME NEW c \in Consumers, Repetitions!Fail(c) PROVE RepeatedInvariant'
    <2>1. UNCHANGED <<now, log, offset, rows, refs, proofs>> /\ projecting' = [projecting EXCEPT ![c] = Resting]
        BY <1>1 DEF Repetitions!Fail, Repetitions!Idle, Resting
    <2> QED BY <2>1, RestKeeps
<1> QED BY <1>1, AcceptKeeps, StoreKeeps, TakeKeeps, InsertRefsKeeps, QueryRefsKeeps, InsertProofsKeeps,
           CommitKeeps, TickKeeps DEF Repetitions!Next

-----------------------------------------------------------------------------
\* Three operations that a pass sees are counted.

\* There is a witness of it in these hours.
Found(o, lo, hi) == \E p \in proofs :
    p.operation = o /\ p.hit /\ p.from \in Int /\ p.to \in Int /\ p.from >= lo /\ p.to <= hi

\* What reaches back far enough at a time reaches back far enough at an earlier one.
LEMMA EarlierReach ==
    \A u, d, t, time \in Nat : t <= time /\ u > time - 2 * d => u > t - 2 * d
OBVIOUS

\* A pass that sees them finds a witness, or an earlier one saw some too.
LEMMA FoundOrEarlier ==
    ASSUME RepeatedTypes, InTime, FromLog, NEW at, Dealt(at),
           NEW o, NEW lo \in Int, NEW hi \in Int, hi - lo <= Repeating.day, NEW alias,
           NEW n \in 1 .. Len(log), NEW time \in Nat, NEW R \in SUBSET refs, Passed(n, time, R),
           \A k \in 1 .. n - 1 : k <= offset /\ at[k] <= time,
           Together(R, o, lo, hi, alias), ~Found(o, lo, hi)
    PROVE  \E k \in 1 .. n - 1 : \E V \in SUBSET refs : Passed(k, at[k], V) /\ Together(V, o, lo, hi, alias)
<1>1. R \in SUBSET Refs /\ Repeating.day \in Nat
    BY RepeatingFields DEF RepeatedTypes
<1>3. PICK x1 \in R, x2 \in R, x3 \in R :
          /\ Three(x1, x2, x3, o, lo, hi, alias)
          /\ \E p \in Repetitions!Proofs(R, time) :
               /\ p.operation = o /\ p.hit /\ p.from \in Int /\ p.to \in Int /\ p.from >= lo /\ p.to <= hi
               /\ \A r \in {x1, x2, x3} : r.received <= p.last
               /\ p.last \in Nat
    <2>1. Finds(R, time, o, lo, hi, alias)
        BY <1>1, PassHits
    <2> QED BY <2>1 DEF Finds
<1>4. PICK p \in Repetitions!Proofs(R, time) :
          /\ p.operation = o /\ p.hit /\ p.from \in Int /\ p.to \in Int /\ p.from >= lo /\ p.to <= hi
          /\ \A r \in {x1, x2, x3} : r.received <= p.last
          /\ p.last \in Nat
    BY <1>3
<1>5. ~(p.last >= log[n].received)
    <2>1. p \notin proofs
        BY <1>4 DEF Found
    <2>2. ~Repetitions!Kept(p, log[n])
        BY <2>1 DEF Passed, Wrote
    <2> QED BY <1>4, <2>2 DEF Repetitions!Kept
<1>6. ASSUME NEW x \in {x1, x2, x3}
      PROVE  \E k \in 1 .. n - 1 : x.operation \in log[k].operations /\ x = RefOf(k, x.operation)
                                   /\ x.received = log[k].received
    <2>1. x \in refs /\ x = [operation |-> x.operation, received |-> x.received] /\ x.received \in Nat
        BY RepeatedFields
    <2>2. PICK k \in 1 .. Len(log) : x.operation \in log[k].operations /\ x.received = log[k].received
        BY <2>1 DEF FromLog
    <2>3. log[k].received < log[n].received
        BY <1>4, <1>5, <2>1, <2>2, RepeatedFields, SMTT(30)
    <2>4. ~(n <= k)
        <3>1. log[k].received \in Nat /\ log[n].received \in Nat
            BY RepeatedFields
        <3> QED BY <2>3, <3>1 DEF InTime
    <2>5. k \in 1 .. n - 1
        BY <2>4, RepeatedFields
    <2> QED BY <2>1, <2>2, <2>5 DEF RefOf
<1>7. PICK k1 \in 1 .. n - 1, k2 \in 1 .. n - 1, k3 \in 1 .. n - 1 :
          /\ x1.operation \in log[k1].operations /\ x1 = RefOf(k1, x1.operation) /\ x1.received = log[k1].received
          /\ x2.operation \in log[k2].operations /\ x2 = RefOf(k2, x2.operation) /\ x2.received = log[k2].received
          /\ x3.operation \in log[k3].operations /\ x3 = RefOf(k3, x3.operation) /\ x3.received = log[k3].received
    BY <1>6
<1>8. PICK k \in {k1, k2, k3} : k1 <= k /\ k2 <= k /\ k3 <= k
    <2>1. k1 \in Int /\ k2 \in Int /\ k3 \in Int
        OBVIOUS
    <2>2. \A n1, n2, n3 \in Int : \E n4 \in {n1, n2, n3} : n1 <= n4 /\ n2 <= n4 /\ n3 <= n4
        <3> SUFFICES ASSUME NEW n1 \in Int, NEW n2 \in Int, NEW n3 \in Int
                     PROVE  \E n4 \in {n1, n2, n3} : n1 <= n4 /\ n2 <= n4 /\ n3 <= n4
            OBVIOUS
        <3>1. CASE n1 >= n2 /\ n1 >= n3
            BY <3>1
        <3>2. CASE n2 >= n1 /\ n2 >= n3
            BY <3>2
        <3>3. CASE n3 >= n1 /\ n3 >= n2
            BY <3>3
        <3> QED BY <3>1, <3>2, <3>3
    <2> QED BY <2>1, <2>2
<1>9. k \in 1 .. n - 1 /\ k \in 1 .. offset /\ at[k] <= time /\ at[k] \in Nat
    <2>1. k \in 1 .. n - 1 /\ k <= offset /\ at[k] <= time
        BY <1>8
    <2>2. k \in 1 .. offset
        BY <2>1, RepeatedFields
    <2> QED BY <2>1, <2>2 DEF Dealt
<1>10. \A i \in {k1, k2, k3} : Reached(at[k], i)
    <2>1. \A i \in {k1, k2, k3} : log[i].received > time - 2 * Repeating.day
        BY <1>7 DEF Passed, Looked
    <2>2. \A i \in {k1, k2, k3} : log[i].received \in Nat
        <3>1. \A i \in 1 .. n - 1 : i \in 1 .. Len(log)
            BY RepeatedFields
        <3> QED BY <3>1, RepeatedFields
    <2> SUFFICES ASSUME NEW i \in {k1, k2, k3} PROVE log[i].received > at[k] - 2 * Repeating.day
        BY DEF Reached
    <2>3. log[i].received > time - 2 * Repeating.day /\ log[i].received \in Nat
        BY <2>1, <2>2
    <2>4. PICK u : u = log[i].received
        OBVIOUS
    <2>5. PICK d, t : d = Repeating.day /\ t = at[k]
        OBVIOUS
    <2>6. u \in Nat /\ d \in Nat /\ t \in Nat /\ t <= time /\ u > time - 2 * d
        BY <1>1, <1>9, <2>3, <2>4, <2>5
    <2>7. u > t - 2 * d
        BY <2>6, EarlierReach
    <2> QED BY <2>4, <2>5, <2>7, Zenon
<1>11. PICK V \in SUBSET refs : Passed(k, at[k], V)
    BY <1>8, <1>9, <1>10 DEF Dealt
<1>12. x1 \in V /\ x2 \in V /\ x3 \in V
    <2>1. k1 \in 1 .. k /\ k2 \in 1 .. k /\ k3 \in 1 .. k
        BY <1>8
    <2> QED BY <1>7, <1>10, <1>11, <2>1 DEF Passed, Looked
<1>13. Together(V, o, lo, hi, alias)
    BY <1>3, <1>12 DEF Together
<1> QED BY <1>9, <1>11, <1>13

\* So the first pass that sees some finds a witness.
LEMMA SomebodyFinds ==
    ASSUME RepeatedTypes, InTime, FromLog, NEW at, Dealt(at),
           NEW o, NEW lo \in Int, NEW hi \in Int, hi - lo <= Repeating.day, NEW alias,
           NEW n \in 1 .. Len(log), NEW time \in Nat, NEW R \in SUBSET refs, Passed(n, time, R),
           \A k \in 1 .. n - 1 : k <= offset /\ at[k] <= time,
           Together(R, o, lo, hi, alias)
    PROVE  Found(o, lo, hi)
<1> SUFFICES ASSUME ~Found(o, lo, hi) PROVE FALSE
    OBVIOUS
<1> DEFINE S == {k \in 1 .. offset : \E V \in SUBSET refs : Passed(k, at[k], V) /\ Together(V, o, lo, hi, alias)}
<1>1. \A k \in 1 .. n - 1 : k \in 1 .. offset
    BY RepeatedFields
<1>2. S # {}
    BY <1>1, FoundOrEarlier
<1>3. S \in SUBSET Nat
    BY RepeatedFields
<1>4. PICK k \in S : \A j \in S : k <= j
    <2> HIDE DEF S
    <2> QED BY <1>2, <1>3, LeastOf
<1>5. PICK V \in SUBSET refs : Passed(k, at[k], V) /\ Together(V, o, lo, hi, alias)
    BY <1>4
<1>6. k \in 1 .. offset /\ k \in 1 .. Len(log) /\ at[k] \in Nat
    BY <1>4, RepeatedFields DEF Dealt
<1>7. \A j \in 1 .. k - 1 : j <= offset /\ at[j] <= at[k]
    <2>1. \A j \in 1 .. k - 1 : j \in 1 .. k /\ j <= offset
        BY <1>6, RepeatedFields
    <2> QED BY <1>6, <2>1 DEF Dealt
<1>8. PICK j \in 1 .. k - 1 : \E W \in SUBSET refs : Passed(j, at[j], W) /\ Together(W, o, lo, hi, alias)
    <2> HIDE DEF S
    <2> QED BY <1>5, <1>6, <1>7, FoundOrEarlier
<1>9. j \in S /\ j < k
    <2>1. j \in 1 .. offset /\ j < k
        BY <1>6, RepeatedFields
    <2> QED BY <1>8, <2>1
<1> QED BY <1>4, <1>6, <1>9, RepeatedFields, SMTT(30)

\* Some message brought it.
Came(x) == \E n \in 1 .. Len(log) : x \in log[n].operations

\* The first message of an operation, and when it was received.
LEMMA FirstMessage ==
    ASSUME RepeatedTypes, InTime, NEW x, Came(x)
    PROVE  \E n \in 1 .. Len(log) :
             /\ x \in log[n].operations /\ log[n].received = Repetitions!FirstReceived(x)
             /\ \A k \in 1 .. Len(log) : x \in log[k].operations => n <= k
<1> DEFINE S == {k \in 1 .. Len(log) : x \in log[k].operations}
           Times == {log[k].received : k \in S}
<1>1. S \in SUBSET Nat /\ S # {}
    BY RepeatedFields DEF Came
<1>2. PICK n \in S : \A k \in S : n <= k
    <2> HIDE DEF S
    <2> QED BY <1>1, LeastOf
<1>3. \A k \in S : log[k].received \in Nat /\ log[n].received <= log[k].received
    BY <1>2, RepeatedFields DEF InTime
<1>4. Times \in SUBSET Nat /\ Times # {}
    <2> HIDE DEF S
    <2> QED BY <1>1, <1>3
<1>5. Repetitions!FirstReceived(x) = Repetitions!Min(Times)
    BY RepeatedFields DEF Repetitions!FirstReceived
<1>6. Repetitions!Min(Times) \in Times /\ \A u \in Times : Repetitions!Min(Times) <= u
    <2> HIDE DEF Times
    <2> QED BY <1>4, LeastIs
<1>7. log[n].received = Repetitions!Min(Times)
    <2>1. PICK k \in S : Repetitions!Min(Times) = log[k].received
        BY <1>6
    <2>2. Repetitions!Min(Times) <= log[n].received
        BY <1>2, <1>6
    <2> HIDE DEF S, Times
    <2> QED BY <1>2, <1>3, <2>1, <2>2
<1> QED BY <1>2, <1>5, <1>7

\* Three operations that are not aged are in front of one pass.
LEMMA TogetherSeen ==
    ASSUME RepeatedTypes, InTime, NEW at, \A p \in proofs : Founded(at, p),
           NEW a, NEW b, NEW c, a # b, a # c, b # c,
           NEW lo \in Int, NEW hi \in Int, NEW alias,
           \A o \in {a, b, c} : /\ Came(o) /\ Repeating.timeOf[o] \in lo .. hi /\ alias \in Repeating.aliases[o],
           ~Repetitions!Aged({a, b, c})
    PROVE  \E n \in 1 .. Len(log), time \in Nat, R \in SUBSET refs :
             /\ Passed(n, time, R) /\ \A k \in 1 .. n - 1 : k <= offset /\ at[k] <= time
             /\ Together(R, a, lo, hi, alias)
<1> DEFINE First(o, n) == /\ o \in log[n].operations /\ log[n].received = Repetitions!FirstReceived(o)
                          /\ \A k \in 1 .. Len(log) : o \in log[k].operations => n <= k
<1>1. PICK ka \in 1 .. Len(log), kb \in 1 .. Len(log), kc \in 1 .. Len(log) :
          First(a, ka) /\ First(b, kb) /\ First(c, kc)
    BY FirstMessage
<1>2. \E x \in {a, b, c}, kx \in {ka, kb, kc} : First(x, kx) /\ kx <= ka /\ kx <= kb /\ kx <= kc
    <2> HIDE DEF First
    <2>1. CASE ka <= kb /\ ka <= kc
        BY <1>1, <2>1
    <2>2. CASE kb <= ka /\ kb <= kc
        BY <1>1, <2>2
    <2>3. CASE kc <= ka /\ kc <= kb
        BY <1>1, <2>3
    <2> QED BY <2>1, <2>2, <2>3
<1>3. PICK x \in {a, b, c}, kx \in {ka, kb, kc} : First(x, kx) /\ kx <= ka /\ kx <= kb /\ kx <= kc
    BY <1>2
<1>4. \E z \in {a, b, c}, kz \in {ka, kb, kc} : First(z, kz) /\ kz >= ka /\ kz >= kb /\ kz >= kc
    <2> HIDE DEF First
    <2>1. CASE ka >= kb /\ ka >= kc
        BY <1>1, <2>1
    <2>2. CASE kb >= ka /\ kb >= kc
        BY <1>1, <2>2
    <2>3. CASE kc >= ka /\ kc >= kb
        BY <1>1, <2>3
    <2> QED BY <2>1, <2>2, <2>3
<1>5. PICK z \in {a, b, c}, kz \in {ka, kb, kc} : First(z, kz) /\ kz >= ka /\ kz >= kb /\ kz >= kc
    BY <1>4
<1>6. PICK q \in proofs : /\ q.operation = z /\ ~q.hit
                          /\ ~(q.processed - 2 * Repeating.day >= Repetitions!FirstReceived(x))
    BY DEF Repetitions!Aged
<1>7. q.processed \in Nat /\ Receipted(at, q)
    BY <1>6 DEF Founded
<1>8. PICK m \in 1 .. Len(log), R \in SUBSET refs :
          /\ z \in log[m].operations /\ Passed(m, q.processed, R)
          /\ \A k \in 1 .. m - 1 : k <= offset /\ at[k] <= q.processed
    BY <1>6, <1>7 DEF Receipted
<1>9. kz <= m
    BY <1>5, <1>8
<1>10. ASSUME NEW o \in {a, b, c}, NEW k \in {ka, kb, kc}, First(o, k) PROVE RefOf(k, o) \in R
    <2>1. k \in 1 .. m
        BY <1>5, <1>9, RepeatedFields, SMTT(30)
    <2>2. log[kx].received <= log[k].received
        BY <1>3 DEF InTime
    <2>3. log[kx].received = Repetitions!FirstReceived(x) /\ log[kx].received \in Nat /\ log[k].received \in Nat
        <3>1. kx \in 1 .. Len(log) /\ k \in 1 .. Len(log)
            OBVIOUS
        <3> QED BY <1>3, <3>1, RepeatedFields
    <2>4. log[k].received > q.processed - 2 * Repeating.day
        <3>1. PICK u, v, d : u = log[kx].received /\ v = log[k].received /\ d = Repeating.day
            OBVIOUS
        <3>2. u \in Nat /\ v \in Nat /\ d \in Nat /\ u <= v /\ ~(q.processed - 2 * d >= u)
            BY <1>6, <2>2, <2>3, <3>1, RepeatingFields
        <3>3. v > q.processed - 2 * d
            BY <1>7, <3>2
        <3> QED BY <3>1, <3>3
    <2> QED BY <1>8, <1>10, <2>1, <2>4 DEF Passed, Looked, Reached
<1>11. RefOf(ka, a) \in R /\ RefOf(kb, b) \in R /\ RefOf(kc, c) \in R
    BY <1>1, <1>10
<1>12. Three(RefOf(ka, a), RefOf(kb, b), RefOf(kc, c), a, lo, hi, alias)
    BY DEF Three, RefOf, Moment
<1>13. Together(R, a, lo, hi, alias)
    BY <1>11, <1>12 DEF Together
<1> QED BY <1>7, <1>8, <1>13

\* Whoever repeated in time is counted, and nobody else.
LEMMA RateHolds == RepeatedInvariant => Repetitions!RateIsExact
<1> SUFFICES ASSUME RepeatedInvariant PROVE Repetitions!RateIsExact
    OBVIOUS
<1>1. RepeatedTypes /\ InTime /\ FromLog
    BY DEF RepeatedInvariant
<1>2. PICK at : Dealt(at) /\ \A p \in proofs : Founded(at, p)
    BY DEF RepeatedInvariant
<1> DEFINE Required == Repetitions!Required
           All == UNION {log[n].operations : n \in DOMAIN log}
<1>3. \A o \in Required : /\ Came(o) /\ o \in Repeating.operations
                          /\ Repeating.timeOf[o] \in Int /\ Repeating.timeOf[o] <= now
                          /\ Repeating.timeOf[o] >= Repeating.from - Repeating.day
                          /\ Repeating.timeOf[o] < Repeating.to + Repeating.day
    <2> SUFFICES ASSUME NEW o \in Required
                 PROVE  /\ Came(o) /\ o \in Repeating.operations
                        /\ Repeating.timeOf[o] \in Int /\ Repeating.timeOf[o] <= now
                        /\ Repeating.timeOf[o] >= Repeating.from - Repeating.day
                        /\ Repeating.timeOf[o] < Repeating.to + Repeating.day
        OBVIOUS
    <2>1. PICK n \in 1 .. rows : o \in log[n].operations
        BY DEF Repetitions!Required
    <2>2. n \in 1 .. Len(log)
        BY <1>1, RepeatedFields
    <2>3. o \in Repeating.operations
        BY <1>1, <2>1, <2>2, RepeatedFields
    <2>4. Repeating.timeOf[o] \in Int
        BY <2>3, RepeatingFields
    <2> QED BY <2>1, <2>2, <2>3, <2>4 DEF Repetitions!Required, Came
<1>4. ASSUME NEW T \in Repetitions!Repeated(Required), ~Repetitions!Aged(T), NEW o \in T,
             Repeating.session[o] \in Repetitions!Related
      PROVE  Repeating.session[o] \in Repetitions!Hits
    <2>1. T \in Repetitions!kSubset(3, Required)
          /\ \A s, t \in T : Repetitions!Within(Repeating.timeOf[s], Repeating.timeOf[t], Repeating.day)
        BY DEF Repetitions!Repeated
    <2>2. IsFiniteSet(Required)
        <3>1. Required \in SUBSET Repeating.operations
            BY <1>3
        <3> HIDE DEF Required
        <3> QED BY <3>1, RepeatingFields, FS_Subset
    <2>3. PICK a \in Required, b \in Required, c \in Required : T = {a, b, c} /\ a # b /\ a # c /\ b # c /\ a = o
        <3> HIDE DEF Required
        <3> QED BY <2>1, <2>2, ThreeWith
    <2>4. PICK alias : \A t \in T : alias \in Repeating.aliases[t]
        BY DEF Repetitions!Repeated
    <2> DEFINE Times == {Repeating.timeOf[a], Repeating.timeOf[b], Repeating.timeOf[c]}
    <2>5. PICK lo \in Times, hi \in Times : \A n \in Times : lo <= n /\ n <= hi
        <3>1. /\ Repetitions!Max(Times) \in Times /\ \A n \in Times : Repetitions!Max(Times) >= n
              /\ Repetitions!Min(Times) \in Times /\ \A n \in Times : Repetitions!Min(Times) <= n
            <4>1. Repeating.timeOf[a] \in Int /\ Repeating.timeOf[b] \in Int /\ Repeating.timeOf[c] \in Int
                BY <1>3
            <4> QED BY <4>1, LastOfThree
        <3>2. Repetitions!Max(Times) \in Int /\ Repetitions!Min(Times) \in Int
            BY <1>3, <3>1
        <3> QED BY <1>3, <3>1, <3>2
    <2>6. /\ lo \in Int /\ hi \in Int /\ lo >= Repeating.from - Repeating.day
          /\ hi < Repeating.to + Repeating.day /\ hi <= now
        BY <1>3
    <2>7. hi - lo <= Repeating.day
        <3>1. PICK s \in T, t \in T : lo = Repeating.timeOf[s] /\ hi = Repeating.timeOf[t]
            BY <2>3
        <3> QED BY <2>1, <3>1 DEF Repetitions!Within
    <2>8. \A t \in {a, b, c} : Came(t) /\ Repeating.timeOf[t] \in lo .. hi /\ alias \in Repeating.aliases[t]
        BY <1>3, <2>3, <2>4, <2>5
    <2>9. ~Repetitions!Aged({a, b, c})
        BY <1>4, <2>3
    <2>10. PICK n \in 1 .. Len(log), time \in Nat, R \in SUBSET refs :
             /\ Passed(n, time, R) /\ \A k \in 1 .. n - 1 : k <= offset /\ at[k] <= time
             /\ Together(R, a, lo, hi, alias)
        <3> HIDE DEF Required, Times
        <3> QED BY <1>1, <1>2, <2>3, <2>6, <2>8, <2>9, TogetherSeen
    <2>11. Found(a, lo, hi)
        <3> HIDE DEF Required, Times
        <3> QED BY <1>1, <1>2, <2>6, <2>7, <2>10, SomebodyFinds
    <2>12. PICK p \in proofs : p.operation = a /\ p.hit /\ p.from \in Int /\ p.to \in Int /\ p.from >= lo /\ p.to <= hi
        BY <2>11 DEF Found
    <2>13. p.from >= Repeating.from - Repeating.day /\ p.to < Repeating.to + Repeating.day /\ p.to <= now
        <3>1. now \in Int
            BY <1>1, RepeatedFields
        <3> QED BY <2>6, <2>12, <3>1, RepeatingFields, SMTT(30)
    <2> QED BY <1>4, <2>3, <2>12, <2>13 DEF Repetitions!Hits
<1>5. ASSUME NEW s \in Repetitions!Hits PROVE s \in Repetitions!SessionsOf(Repetitions!Repeated(All))
    <2>1. PICK p \in proofs : p.hit /\ Repeating.session[p.operation] = s
        BY DEF Repetitions!Hits
    <2>2. PICK r1 \in refs, r2 \in refs, r3 \in refs :
             p.operation = r1.operation /\ \E alias : Repeats(r1, r2, r3, alias)
        BY <1>2, <2>1 DEF Founded, Witnessed
    <2>3. PICK alias : Repeats(r1, r2, r3, alias)
        BY <2>2
    <2> DEFINE T == {r1.operation, r2.operation, r3.operation}
    <2>4. r1.operation \in All /\ r2.operation \in All /\ r3.operation \in All
        BY <1>1, RepeatedFields DEF FromLog
    <2>5. T \in Repetitions!kSubset(3, All)
        <3> HIDE DEF All
        <3> QED BY <2>3, <2>4, ThreeAre DEF Repeats
    <2>6. \A u, t \in T : Repetitions!Within(Repeating.timeOf[u], Repeating.timeOf[t], Repeating.day)
        BY <2>3 DEF Repeats, Moment
    <2>7. \E al \in UNION {Repeating.aliases[o] : o \in T} : \A t \in T : al \in Repeating.aliases[t]
        BY <2>3 DEF Repeats
    <2>8. T \in Repetitions!Repeated(All)
        <3> HIDE DEF T, All
        <3> QED BY <2>5, <2>6, <2>7 DEF Repetitions!Repeated
    <2>9. p.operation \in T
        BY <2>2
    <2>10. p.operation \in UNION Repetitions!Repeated(All)
        <3> HIDE DEF T, All
        <3> QED BY <2>8, <2>9
    <2> QED BY <2>1, <2>10 DEF Repetitions!SessionsOf
<1> QED BY <1>4, <1>5 DEF Repetitions!RateIsExact, Repetitions!SessionsOf

\* What it says of the variables is their type.
LEMMA RepeatedTyped == RepeatedInvariant => Repetitions!TypeOK
<1> SUFFICES ASSUME RepeatedInvariant PROVE Repetitions!TypeOK
    OBVIOUS
<1>1. RepeatedTypes /\ InHand
    BY DEF RepeatedInvariant
<1>2. refs \subseteq [operation : Repeating.operations, received : 0 .. Repeating.time]
    <2> SUFFICES ASSUME NEW r \in refs
                 PROVE  r \in [operation : Repeating.operations, received : 0 .. Repeating.time]
        OBVIOUS
    <2>1. r = [operation |-> r.operation, received |-> r.received] /\ r.operation \in Repeating.operations
          /\ r.received \in Nat /\ r.received <= now /\ now <= Repeating.time
        BY <1>1, RepeatedFields, RepeatingFields DEF RepeatedTypes
    <2>2. r.received \in 0 .. Repeating.time
        BY <1>1, <2>1, RepeatedFields, RepeatingFields
    <2> QED BY <2>1, <2>2
<1>3. ASSUME NEW c \in Consumers
      PROVE  /\ projecting[c].pc \in {"idle", "insert", "query", "prove", "commit"}
             /\ projecting[c].message \in 0 .. Len(log) /\ projecting[c].visible \subseteq refs
    <2>1. HandOf(c) /\ Doing(c) \in {"idle", "insert", "query", "prove", "commit"} /\ Len(log) \in Nat
        BY <1>1, RepeatedFields DEF InHand
    <2>2. projecting[c].message \in 0 .. Len(log)
        BY <2>1 DEF HandOf
    <2>3. projecting[c].visible \subseteq refs
        BY <2>1 DEF HandOf, Looked
    <2> QED BY <2>1, <2>2, <2>3 DEF Doing
<1> QED BY <1>1, <1>2, <1>3 DEF RepeatedTypes, Repetitions!TypeOK

-----------------------------------------------------------------------------
\* Sums.

\* The library takes an element and adds its number to the sum of the others.
One(s) == CHOOSE x \in s : TRUE
Adder(g, S, F) == g = [s \in SUBSET S |-> IF s = {} THEN 0 ELSE F[One(s)] + g[s \ {One(s)}]]
Adds(S, F) == CHOOSE g : Adder(g, S, F)
SumOf(S, F) == Adds(S, F)[S]

LEMMA PagesSum ==
    ASSUME NEW T, NEW f(_) PROVE Pages!MapThenSumSet(f, T) = SumOf(T, [p \in T |-> f(p)])
<1> DEFINE F == [p \in T |-> f(p)]
           Old(g) == g = [s \in SUBSET T |-> IF s = {} THEN 0
                            ELSE f(CHOOSE x \in s : TRUE) + g[s \ {CHOOSE x \in s : TRUE}]]
<1>1. Pages!MapThenSumSet(f, T) = (CHOOSE g : Old(g))[T]
    BY DEF Pages!MapThenSumSet, Pages!MapThenFoldSet
<1>2. ASSUME NEW g PROVE Old(g) <=> Adder(g, T, F)
    <2>1. \A s \in SUBSET T : s # {} => f(CHOOSE x \in s : TRUE) = F[One(s)]
        BY DEF One
    <2> QED BY <2>1 DEF Adder, One
<1>3. (CHOOSE g : Old(g)) = Adds(T, F)
    <2> HIDE DEF Old, F
    <2> QED BY <1>2, Zenon DEF Adds
<1> QED BY <1>1, <1>3 DEF SumOf

\* Of a family of subsets that is not empty one loses the property with its element.
LEMMA SmallestOf ==
    ASSUME NEW S, IsFiniteSet(S), NEW B \in SUBSET (SUBSET S), B # {}
    PROVE  \E s \in B : s = {} \/ (One(s) \in s /\ s \ {One(s)} \in SUBSET S /\ s \ {One(s)} \notin B)
<1> DEFINE N == {Cardinality(s) : s \in B}
<1>1. \A s \in SUBSET S : IsFiniteSet(s) /\ Cardinality(s) \in Nat
    BY FS_Subset, FS_CardinalityType
<1>2. N \in SUBSET Nat /\ N # {}
    BY <1>1
<1>3. PICK n \in N : \A m \in N : n <= m
    <2> HIDE DEF N
    <2> QED BY <1>2, LeastOf
<1>4. PICK s \in B : Cardinality(s) = n
    BY <1>3
<1>5. CASE s # {}
    <2>1. One(s) \in s
        BY <1>5 DEF One
    <2>2. Cardinality(s \ {One(s)}) = n - 1 /\ n \in Nat /\ s \ {One(s)} \in SUBSET S
        BY <1>1, <1>4, <2>1, FS_RemoveElement
    <2>3. s \ {One(s)} \notin B
        BY <1>3, <2>2
    <2> QED BY <2>1, <2>2, <2>3
<1> QED BY <1>4, <1>5

\* There is such a sum, of the sets with at most n elements first.
LEMMA AdderExists ==
    ASSUME NEW S, IsFiniteSet(S), NEW F PROVE Adder(Adds(S, F), S, F)
<1> DEFINE Small(n) == {s \in SUBSET S : Cardinality(s) <= n}
           Part(g, n) == g = [s \in Small(n) |-> IF s = {} THEN 0 ELSE F[One(s)] + g[s \ {One(s)}]]
           N == {n \in Nat : ~ \E g : Part(g, n)}
<1>1. \A s \in SUBSET S : IsFiniteSet(s) /\ Cardinality(s) \in Nat
    BY FS_Subset, FS_CardinalityType
<1>2. ASSUME NEW s \in SUBSET S, s # {} PROVE One(s) \in s /\ Cardinality(s \ {One(s)}) = Cardinality(s) - 1
    <2>1. One(s) \in s
        BY <1>2 DEF One
    <2> QED BY <1>1, <2>1, FS_RemoveElement
<1>3. N = {}
    <2> SUFFICES ASSUME N # {} PROVE FALSE
        OBVIOUS
    <2>1. PICK n \in N : \A m \in N : n <= m
        <3>1. N \in SUBSET Nat
            OBVIOUS
        <3> HIDE DEF N
        <3> QED BY <3>1, LeastOf
    <2>2. CASE n = 0
        <3> DEFINE g == [s \in Small(0) |-> 0]
        <3>1. \A s \in Small(0) : s = {}
            BY <1>1, FS_EmptySet
        <3>2. g = [s \in Small(0) |-> IF s = {} THEN 0 ELSE F[One(s)] + g[s \ {One(s)}]]
            <4> HIDE DEF Small
            <4> QED BY <3>1
        <3>3. Part(g, 0)
            BY <3>2
        <3> HIDE DEF g, Part
        <3> QED BY <2>1, <2>2, <3>3
    <2>3. CASE n # 0
        <3>1. n \in Nat /\ n - 1 \in Nat
            BY <2>1, <2>3
        <3>2. n - 1 \notin N
            <4> HIDE DEF N
            <4> QED BY <2>1, <3>1
        <3>3. PICK g : Part(g, n - 1)
            <4> HIDE DEF Part
            <4> QED BY <3>1, <3>2
        <3> DEFINE h == [s \in Small(n) |-> IF s = {} THEN 0 ELSE F[One(s)] + g[s \ {One(s)}]]
        <3>4. \A s \in Small(n - 1) : s \in Small(n) /\ h[s] = g[s]
            <4>1. \A s \in Small(n - 1) : s \in Small(n)
                BY <1>1, <3>1
            <4> HIDE DEF Small
            <4> QED BY <3>3, <4>1
        <3>5. \A s \in Small(n) : s # {} => s \ {One(s)} \in Small(n - 1)
            BY <1>1, <1>2, <3>1
        <3>6. Part(h, n)
            <4> HIDE DEF Small
            <4> QED BY <3>4, <3>5
        <3> HIDE DEF h, Part
        <3> QED BY <2>1, <3>6
    <2> QED BY <2>2, <2>3
<1>4. PICK g : Part(g, Cardinality(S))
    <2>1. Cardinality(S) \in Nat
        BY <1>1
    <2> HIDE DEF Part
    <2> QED BY <1>3, <2>1
<1>5. Small(Cardinality(S)) = SUBSET S
    <2>1. \A s \in SUBSET S : Cardinality(s) <= Cardinality(S)
        BY FS_Subset
    <2> QED BY <2>1
<1>6. Adder(g, S, F)
    <2> HIDE DEF Small
    <2> QED BY <1>4, <1>5 DEF Adder
<1> HIDE DEF Small, Part, N
<1> QED BY <1>6 DEF Adds

\* The sums over the subsets.
Summing(g, S, F) == g[{}] = 0 /\ \A s \in SUBSET S : s # {} => g[s] = F[One(s)] + g[s \ {One(s)}]
LEMMA SumsAre == ASSUME NEW S, IsFiniteSet(S), NEW F PROVE Summing(Adds(S, F), S, F)
<1>1. PICK g : g = Adds(S, F)
    OBVIOUS
<1>2. Adder(g, S, F)
    BY <1>1, AdderExists
<1>3. g = [s \in SUBSET S |-> IF s = {} THEN 0 ELSE F[One(s)] + g[s \ {One(s)}]]
    BY <1>2 DEF Adder
<1>4. Summing(g, S, F)
    BY <1>3 DEF Summing
<1> QED BY <1>1, <1>4

LEMMA SumsAreNumbers ==
    ASSUME NEW S, IsFiniteSet(S), NEW F \in [S -> Nat]
    PROVE  \A s \in SUBSET S : Adds(S, F)[s] \in Nat
<1> DEFINE B == {s \in SUBSET S : Adds(S, F)[s] \notin Nat}
<1> SUFFICES ASSUME B # {} PROVE FALSE
    OBVIOUS
<1>1. PICK s \in B : s = {} \/ (One(s) \in s /\ s \ {One(s)} \in SUBSET S /\ s \ {One(s)} \notin B)
    <2> HIDE DEF B
    <2>1. B \in SUBSET (SUBSET S)
        BY DEF B
    <2> QED BY <2>1, SmallestOf
<1>2. PICK g : g = Adds(S, F)
    OBVIOUS
<1>3. Summing(g, S, F)
    BY <1>2, SumsAre
<1>4. CASE s # {}
    <2>1. One(s) \in S /\ g[s] = F[One(s)] + g[s \ {One(s)}] /\ g[s \ {One(s)}] \in Nat
        BY <1>1, <1>2, <1>3, <1>4 DEF Summing
    <2>2. F[One(s)] \in Nat
        BY <2>1
    <2>3. g[s] \in Nat
        BY <2>1, <2>2
    <2> QED BY <1>1, <1>2, <2>3
<1>5. CASE s = {}
    <2>1. g[{}] = 0
        BY <1>3 DEF Summing
    <2> QED BY <1>1, <1>2, <1>5, <2>1
<1> QED BY <1>4, <1>5

\* The smaller numbers have the smaller sum, and the same one only if they are the same.
LEMMA SumsCompare ==
    ASSUME NEW S, IsFiniteSet(S), NEW F \in [S -> Nat], NEW G \in [S -> Nat], \A p \in S : F[p] <= G[p]
    PROVE  SumOf(S, F) <= SumOf(S, G) /\ (SumOf(S, F) = SumOf(S, G) => \A p \in S : F[p] = G[p])
<1>1. PICK f, g : f = Adds(S, F) /\ g = Adds(S, G)
    OBVIOUS
<1> DEFINE Fine(s) == f[s] <= g[s] /\ (f[s] = g[s] => \A p \in s : F[p] = G[p])
           B == {s \in SUBSET S : ~Fine(s)}
<1>2. \A s \in SUBSET S : f[s] \in Nat /\ g[s] \in Nat
    BY <1>1, SumsAreNumbers
<1>3. /\ f[{}] = 0 /\ \A r \in SUBSET S : r # {} => f[r] = F[One(r)] + f[r \ {One(r)}]
      /\ g[{}] = 0 /\ \A r \in SUBSET S : r # {} => g[r] = G[One(r)] + g[r \ {One(r)}]
    <2>1. Summing(f, S, F) /\ Summing(g, S, G)
        BY <1>1, SumsAre
    <2> QED BY <2>1 DEF Summing
<1>4. B = {}
    <2> SUFFICES ASSUME B # {} PROVE FALSE
        OBVIOUS
    <2>1. PICK s \in B : s = {} \/ (One(s) \in s /\ s \ {One(s)} \in SUBSET S /\ s \ {One(s)} \notin B)
        <3> HIDE DEF B
        <3>1. B \in SUBSET (SUBSET S)
            BY DEF B
        <3> QED BY <3>1, SmallestOf
    <2>2. s # {}
        <3>1. Fine({})
            BY <1>3
        <3> HIDE DEF Fine
        <3> QED BY <2>1, <3>1
    <2>3. Fine(s \ {One(s)}) /\ One(s) \in S /\ s \ {One(s)} \in SUBSET S
        BY <2>1, <2>2
    <2>4. /\ f[s] = F[One(s)] + f[s \ {One(s)}] /\ g[s] = G[One(s)] + g[s \ {One(s)}]
          /\ f[s \ {One(s)}] \in Nat /\ g[s \ {One(s)}] \in Nat
          /\ F[One(s)] \in Nat /\ G[One(s)] \in Nat /\ F[One(s)] <= G[One(s)]
        BY <1>2, <1>3, <2>1, <2>2, <2>3
    <2>5. f[s] <= g[s]
        BY <2>3, <2>4
    <2>6. ASSUME f[s] = g[s] PROVE \A p \in s : F[p] = G[p]
        <3>1. F[One(s)] = G[One(s)] /\ f[s \ {One(s)}] = g[s \ {One(s)}]
            BY <2>3, <2>4, <2>6
        <3> QED BY <2>3, <3>1
    <2> QED BY <2>1, <2>5, <2>6
<1>5. Fine(S)
    BY <1>4
<1> QED BY <1>1, <1>5 DEF SumOf

\* The numbers of the elements on each page add up to the number of all.
LEMMA SumsCount ==
    ASSUME NEW S, IsFiniteSet(S), NEW E, IsFiniteSet(E),
           NEW F, F = [p \in S |-> Cardinality({e \in E : e.page = p})]
    PROVE  SumOf(S, F) = Cardinality({e \in E : e.page \in S})
<1>1. PICK f : f = Adds(S, F)
    OBVIOUS
<1> DEFINE On(s) == {e \in E : e.page \in s}
           B == {s \in SUBSET S : f[s] # Cardinality(On(s))}
<1>2. /\ f[{}] = 0 /\ \A r \in SUBSET S : r # {} => f[r] = F[One(r)] + f[r \ {One(r)}]
    <2>1. Summing(f, S, F)
        BY <1>1, SumsAre
    <2> QED BY <2>1 DEF Summing
<1>3. B = {}
    <2> SUFFICES ASSUME B # {} PROVE FALSE
        OBVIOUS
    <2>1. PICK s \in B : s = {} \/ (One(s) \in s /\ s \ {One(s)} \in SUBSET S /\ s \ {One(s)} \notin B)
        <3> HIDE DEF B
        <3>1. B \in SUBSET (SUBSET S)
            BY DEF B
        <3> QED BY <3>1, SmallestOf
    <2>2. s # {}
        <3>1. On({}) = {}
            OBVIOUS
        <3> QED BY <1>2, <2>1, <3>1, FS_EmptySet
    <2>3. PICK x, r : x = One(s) /\ r = s \ {One(s)}
        OBVIOUS
    <2>4. x \in s /\ r \in SUBSET S /\ f[r] = Cardinality(On(r)) /\ f[s] = F[x] + f[r]
        BY <1>2, <2>1, <2>2, <2>3
    <2> DEFINE A == {e \in E : e.page = x}
    <2>5. IsFiniteSet(A) /\ IsFiniteSet(On(r)) /\ A \cap On(r) = {} /\ On(s) = A \cup On(r)
        <3>1. IsFiniteSet(A) /\ IsFiniteSet(On(r))
            BY FS_Subset
        <3> QED BY <2>3, <2>4, <3>1
    <2>6. Cardinality(On(s)) = Cardinality(A) + Cardinality(On(r))
        <3>1. Cardinality(A \cap On(r)) = 0 /\ Cardinality(A) \in Nat /\ Cardinality(On(r)) \in Nat
            BY <2>5, FS_EmptySet, FS_CardinalityType
        <3>2. Cardinality(A \cup On(r)) = Cardinality(A) + Cardinality(On(r)) - Cardinality(A \cap On(r))
            <4> HIDE DEF A, On
            <4> QED BY <2>5, FS_Union
        <3> HIDE DEF A, On
        <3> QED BY <2>5, <3>1, <3>2
    <2>7. F[x] = Cardinality(A)
        BY <2>4
    <2> QED BY <2>1, <2>4, <2>6, <2>7
<1>4. f[S] = Cardinality(On(S))
    BY <1>3
<1> QED BY <1>1, <1>4 DEF SumOf
-----------------------------------------------------------------------------
\* Quality: what the tracker has made of the events of a page.

Watched == {"api", "error"}
Shut(l) == l.kind = "leave" /\ l.closed

\* What the last page_leave of a page says of it.
Closes(l, v) ==
    /\ v.closed
    /\ l.state.apiStarted = v.apiStarted /\ l.state.apiCompleted <= v.apiCompleted
    /\ l.state.apiCompleted <= l.state.apiStarted
    /\ l.state.resourceStarted = v.resourceStarted /\ l.state.resourceCompleted <= v.resourceCompleted
    /\ l.state.resourceCompleted <= l.state.resourceStarted
    /\ l.state.resourceCompleted = v.resourceCompleted => l.state.resourceFailed = v.resourceFailed
    /\ l.state.longtasks = v.tasks /\ l.state.suppressed <= v.suppressed

\* The event is of a call that may have ended after the page was left.
Later(e, l, v) == e.kind = "api" /\ l.state.apiCompleted < v.apiCompleted

\* Q is queued, F under way, R stored; lo and fl say what the queue and the batch know of losses.
Somewhere(Q, F, R) == Q \cup F \cup {r.event : r \in R}
Warned(l, Q, lo, F, fl, R) == (l \in Q => lo) /\ (l \in F => fl) /\ \A r \in R : r.event = l => r.losses

Known(M, ps, Q, F, R) == \A e \in Somewhere(Q, F, R) :
    /\ e \in Pages!Sendable /\ e.page \in 1 .. Len(ps) /\ (e.kind \in Watched => e \in M)
    /\ e.kind = "leave" => e.id <= ps[e.page].sequence
    /\ Shut(e) => Closes(e, ps[e.page])

\* A page_leave that knows of losses is in a batch that does.
Honest(Q, lo, F, fl, R) == \A l \in Somewhere(Q, F, R) :
    l.kind = "leave" /\ l.losses => Warned(l, Q, lo, F, fl, R)

\* No event is behind the last page_leave of its page.
Ordered(M, ps, Q, F, R) == \A e \in M, l \in Somewhere(Q, F, R) : Shut(l) /\ l.page = e.page =>
    /\ l \in F /\ e \in Q => e \in F \/ (\E r \in R : r.event = e) \/ Later(e, l, ps[e.page])
    /\ (\E r \in R : r.event = l) /\ e \in Q \cup F => (\E r \in R : r.event = e) \/ Later(e, l, ps[e.page])

\* What is nowhere was lost by a beacon, or the last page_leave of its page goes with a warning.
Missed(M, ps, Q, lo, F, fl, R, st) == \A e \in M : e \in Somewhere(Q, F, R) \/ e.kind \in st \/
    /\ ps[e.page].closed \/ lo
    /\ \A l \in Somewhere(Q, F, R) : Shut(l) /\ l.page = e.page =>
         Later(e, l, ps[e.page]) \/ Warned(l, Q, lo, F, fl, R)

Carried(M, ps, Q, lo, F, fl, R, st) ==
    /\ \A e \in M : e.page \in 1 .. Len(ps) /\ e.kind \in Watched
    /\ Known(M, ps, Q, F, R) /\ Honest(Q, lo, F, fl, R) /\ Ordered(M, ps, Q, F, R)
    /\ Missed(M, ps, Q, lo, F, fl, R, st)

RowsOf(F, fl) == {[event |-> e, losses |-> fl] : e \in F}

LEMMA RowsAre ==
    ASSUME NEW R, NEW F, NEW fl
    PROVE  /\ \A e : (\E r \in R \cup RowsOf(F, fl) : r.event = e) <=> e \in F \/ \E r \in R : r.event = e
           /\ \A r \in R \cup RowsOf(F, fl) : r \in R \/ (r.event \in F /\ r.losses = fl)
<1>1. \A r \in RowsOf(F, fl) : r.event \in F /\ r.losses = fl
    BY DEF RowsOf
<1>2. ASSUME NEW e \in F PROVE \E r \in RowsOf(F, fl) : r.event = e
    <2>1. [event |-> e, losses |-> fl] \in RowsOf(F, fl)
        BY DEF RowsOf
    <2> QED BY <2>1
<1> QED BY <1>1, <1>2

\* The events of a batch are stored, and what is queued is the next one.
LEMMA SentCarries ==
    ASSUME NEW M, NEW ps, NEW Q, NEW lo, NEW F, NEW fl, NEW R, NEW st, Carried(M, ps, Q, lo, F, fl, R, st)
    PROVE  Carried(M, ps, {}, lo, Q, lo, R \cup RowsOf(F, fl), st)
<1> DEFINE N == R \cup RowsOf(F, fl)
<1>1. \A e : (\E r \in N : r.event = e) <=> e \in F \/ \E r \in R : r.event = e
    BY RowsAre
<1>2. \A e : e \in Somewhere({}, Q, N) <=> e \in Somewhere(Q, F, R)
    <2>1. \A e : e \in Somewhere({}, Q, N) <=> e \in Q \/ \E r \in N : r.event = e
        BY DEF Somewhere
    <2>2. \A e : e \in Somewhere(Q, F, R) <=> e \in Q \/ e \in F \/ \E r \in R : r.event = e
        BY DEF Somewhere
    <2> HIDE DEF N
    <2> QED BY <1>1, <2>1, <2>2
<1>3. \A l : Warned(l, Q, lo, F, fl, R) => Warned(l, {}, lo, Q, lo, N)
    BY RowsAre DEF Warned
<1>4. Known(M, ps, {}, Q, N)
    BY <1>2 DEF Carried, Known
<1>5. Honest({}, lo, Q, lo, N)
    BY <1>2, <1>3 DEF Carried, Honest
<1>6. Ordered(M, ps, {}, Q, N)
    <2> HIDE DEF N
    <2> QED BY <1>1, <1>2 DEF Carried, Ordered
<1>7. Missed(M, ps, {}, lo, Q, lo, N, st)
    BY <1>2, <1>3 DEF Carried, Missed
<1> QED BY <1>4, <1>5, <1>6, <1>7 DEF Carried

\* A batch is refused: what is queued goes with a warning.
LEMMA RefusedCarries ==
    ASSUME NEW M, NEW ps, NEW Q, NEW lo, NEW F, NEW fl, NEW R, NEW st, Carried(M, ps, Q, lo, F, fl, R, st)
    PROVE  Carried(M, ps, {}, TRUE, Q, TRUE, R, st)
<1>1. \A e : e \in Somewhere({}, Q, R) <=> e \in Q \/ \E r \in R : r.event = e
    BY DEF Somewhere
<1>2. \A e : e \in Somewhere(Q, F, R) <=> e \in Q \/ e \in F \/ \E r \in R : r.event = e
    BY DEF Somewhere
<1>3. \A l : Warned(l, Q, lo, F, fl, R) => Warned(l, {}, TRUE, Q, TRUE, R)
    BY DEF Warned
<1>4. Known(M, ps, {}, Q, R)
    BY <1>1, <1>2 DEF Carried, Known
<1>5. Honest({}, TRUE, Q, TRUE, R)
    BY <1>1, <1>2, <1>3 DEF Carried, Honest
<1>6. Ordered(M, ps, {}, Q, R)
    BY <1>1, <1>2 DEF Carried, Ordered
<1>7. Missed(M, ps, {}, TRUE, Q, TRUE, R, st)
    <2> SUFFICES ASSUME NEW e \in M, e \notin Somewhere({}, Q, R), e.kind \notin st,
                        NEW l \in Somewhere({}, Q, R), Shut(l), l.page = e.page
                 PROVE  Later(e, l, ps[e.page]) \/ Warned(l, {}, TRUE, Q, TRUE, R)
        BY DEF Missed
    <2>1. CASE e \in F
        BY <1>1, <1>2, <2>1 DEF Carried, Ordered, Warned
    <2>2. CASE e \notin F
        BY <1>1, <1>2, <1>3, <2>2 DEF Carried, Missed
    <2> QED BY <2>1, <2>2
<1> QED BY <1>4, <1>5, <1>6, <1>7 DEF Carried

\* All attempts failed, perhaps after one of them was stored: the events go back.
LEMMA ExhaustedCarries ==
    ASSUME NEW M, NEW ps, NEW Q, NEW lo, NEW F, NEW fl, NEW R, NEW st, Carried(M, ps, Q, lo, F, fl, R, st),
           NEW B \in SUBSET (F \cup Q), NEW N, N = R \/ N = R \cup RowsOf(F, fl), NEW any
    PROVE  Carried(M, ps, B, TRUE, {}, any, N, st)
<1> DEFINE In(e) == \E r \in R : r.event = e
           There(e) == \E r \in N : r.event = e
<1>1. \A e : e \in Somewhere(B, {}, N) <=> e \in B \/ There(e)
    BY DEF Somewhere
<1>2. \A e : e \in Somewhere(Q, F, R) <=> e \in Q \/ e \in F \/ In(e)
    BY DEF Somewhere
<1>3. (\A e : In(e) => There(e)) /\ (\A e : There(e) => In(e) \/ e \in F)
    BY RowsAre
<1>4. (\A e \in F : There(e)) \/ (\A e : There(e) => In(e))
    <2>1. CASE N = R
        BY <2>1
    <2>2. CASE N = R \cup RowsOf(F, fl)
        BY <2>2, RowsAre
    <2> QED BY <2>1, <2>2
<1>5. \A l : Warned(l, Q, lo, F, fl, R) => Warned(l, B, TRUE, {}, any, N)
    BY RowsAre DEF Warned
<1>6. Somewhere(B, {}, N) \subseteq Somewhere(Q, F, R)
    <2> HIDE DEF In, There
    <2> QED BY <1>1, <1>2, <1>3
<1>7. Known(M, ps, B, {}, N)
    BY <1>6 DEF Carried, Known
<1>8. Honest(B, TRUE, {}, any, N)
    BY <1>5, <1>6 DEF Carried, Honest
<1>9. \A e \in M : \A l : Shut(l) /\ l.page = e.page /\ There(l) /\ e \in Q \cup F =>
                        There(e) \/ Later(e, l, ps[e.page])
    <2> SUFFICES ASSUME NEW e \in M, NEW l, Shut(l), l.page = e.page, There(l), e \in Q \cup F, ~There(e)
                 PROVE  Later(e, l, ps[e.page])
        OBVIOUS
    <2>1. l \in Somewhere(Q, F, R)
        <3> HIDE DEF In, There
        <3> QED BY <1>2, <1>3
    <2>2. /\ l \in F /\ e \in Q => e \in F \/ In(e) \/ Later(e, l, ps[e.page])
          /\ In(l) /\ e \in Q \cup F => In(e) \/ Later(e, l, ps[e.page])
        BY <2>1 DEF Carried, Ordered
    <2> HIDE DEF In, There
    <2> QED BY <1>3, <1>4, <2>2
<1>10. Ordered(M, ps, B, {}, N)
    BY <1>9 DEF Ordered
<1>11. Missed(M, ps, B, TRUE, {}, any, N, st)
    <2> SUFFICES ASSUME NEW e \in M, e \notin Somewhere(B, {}, N), e.kind \notin st,
                        NEW l \in Somewhere(B, {}, N), Shut(l), l.page = e.page
                 PROVE  Later(e, l, ps[e.page]) \/ Warned(l, B, TRUE, {}, any, N)
        BY DEF Missed
    <2>1. CASE e \in Q \cup F /\ There(l)
        <3> HIDE DEF There
        <3> QED BY <1>1, <1>9, <2>1
    <2>2. CASE ~There(l)
        BY <2>2 DEF Warned
    <2>3. CASE e \notin Q \cup F
        <3>1. e \notin Somewhere(Q, F, R)
            <4> HIDE DEF In, There
            <4> QED BY <1>1, <1>2, <1>3, <2>3
        <3> QED BY <1>5, <1>6, <3>1 DEF Carried, Missed
    <2> QED BY <2>1, <2>2, <2>3
<1> QED BY <1>7, <1>8, <1>10, <1>11 DEF Carried

\* A beacon loses what is queued.
LEMMA BeaconCarries ==
    ASSUME NEW M, NEW ps, NEW Q, NEW lo, NEW fl, NEW R, NEW st, Carried(M, ps, Q, lo, {}, fl, R, st), NEW any
    PROVE  Carried(M, ps, {}, lo, {}, any, R, st \cup {e.kind : e \in Q})
<1>1. \A e : e \in Somewhere({}, {}, R) <=> \E r \in R : r.event = e
    BY DEF Somewhere
<1>2. \A e : e \in Somewhere(Q, {}, R) <=> e \in Q \/ \E r \in R : r.event = e
    BY DEF Somewhere
<1>3. \A l : Warned(l, Q, lo, {}, fl, R) => Warned(l, {}, lo, {}, any, R)
    BY DEF Warned
<1>4. Known(M, ps, {}, {}, R)
    BY <1>1, <1>2 DEF Carried, Known
<1>5. Honest({}, lo, {}, any, R)
    BY <1>1, <1>2, <1>3 DEF Carried, Honest
<1>6. Ordered(M, ps, {}, {}, R)
    BY DEF Ordered
<1>7. Missed(M, ps, {}, lo, {}, any, R, st \cup {e.kind : e \in Q})
    BY <1>1, <1>2, <1>3 DEF Carried, Missed
<1> QED BY <1>4, <1>5, <1>6, <1>7 DEF Carried

\* The document ends, with what is queued and under way.
LEMMA CrashCarries ==
    ASSUME NEW M, NEW ps, NEW Q, NEW lo, NEW F, NEW fl, NEW R, NEW st, Carried(M, ps, Q, lo, F, fl, R, st),
           \A e \in M : ps[e.page].closed, NEW any
    PROVE  Carried(M, ps, {}, FALSE, {}, any, R, st)
<1>1. \A e : e \in Somewhere({}, {}, R) <=> \E r \in R : r.event = e
    BY DEF Somewhere
<1>2. \A e : e \in Somewhere(Q, F, R) <=> e \in Q \/ e \in F \/ \E r \in R : r.event = e
    BY DEF Somewhere
<1>3. \A l : Warned(l, Q, lo, F, fl, R) => Warned(l, {}, FALSE, {}, any, R)
    BY DEF Warned
<1>4. Known(M, ps, {}, {}, R)
    BY <1>1, <1>2 DEF Carried, Known
<1>5. Honest({}, FALSE, {}, any, R)
    BY <1>1, <1>2, <1>3 DEF Carried, Honest
<1>6. Ordered(M, ps, {}, {}, R)
    BY DEF Ordered
<1>7. Missed(M, ps, {}, FALSE, {}, any, R, st)
    <2> SUFFICES ASSUME NEW e \in M, e \notin Somewhere({}, {}, R), e.kind \notin st,
                        NEW l \in Somewhere({}, {}, R), Shut(l), l.page = e.page
                 PROVE  Later(e, l, ps[e.page]) \/ Warned(l, {}, FALSE, {}, any, R)
        BY DEF Missed
    <2>1. CASE e \in Q \cup F
        BY <1>1, <1>2, <2>1 DEF Carried, Ordered
    <2>2. CASE e \notin Q \cup F
        BY <1>1, <1>2, <1>3, <2>2 DEF Carried, Missed
    <2> QED BY <2>1, <2>2
<1> QED BY <1>4, <1>5, <1>6, <1>7 DEF Carried

LEMMA SendableFields ==
    ASSUME NEW e \in Pages!Sendable
    PROVE  /\ e.kind \in {"view", "resource error", "error", "api", "leave"} /\ e.page \in Nat /\ e.id \in Nat
           /\ e.kind = "api" => e.failed \in BOOLEAN
           /\ e.kind = "leave" => /\ e.closed \in BOOLEAN /\ e.losses \in BOOLEAN /\ e.state \in Pages!State
    BY DEF Pages!Sendable

LEMMA StateFields ==
    ASSUME NEW v \in Pages!State
    PROVE  /\ v.sequence \in Nat /\ v.apiStarted \in Nat /\ v.apiCompleted \in Nat
           /\ v.resourceStarted \in Nat /\ v.resourceCompleted \in Nat /\ v.resourceFailed \in Nat
           /\ v.longtasks \in Nat /\ v.suppressed \in Nat /\ v.closed \in BOOLEAN
           /\ v.tried \in Nat /\ v.failed \in Nat /\ v.tasks \in Nat /\ v.errors \in Nat
    BY DEF Pages!State

\* A page goes on; one that was left only hears of calls that end.
Grown(v, w) ==
    /\ v.sequence <= w.sequence /\ v.apiCompleted <= w.apiCompleted /\ v.suppressed <= w.suppressed
    /\ v.resourceCompleted <= w.resourceCompleted
    /\ v.resourceCompleted = w.resourceCompleted => v.resourceFailed = w.resourceFailed
    /\ v.closed => /\ w.closed /\ w.tasks = v.tasks
                   /\ w.apiStarted = v.apiStarted /\ w.resourceStarted = v.resourceStarted

\* What was said of it stays true.
LEMMA GrownCloses ==
    ASSUME NEW v \in Pages!State, NEW w \in Pages!State, Grown(v, w),
           NEW l \in Pages!Sendable, l.kind = "leave", Closes(l, v)
    PROVE  Closes(l, w)
<1>1. l.state \in Pages!State
    BY SendableFields
<1>2. PICK s : s = l.state
    OBVIOUS
<1>3. s.apiCompleted \in Nat /\ s.resourceCompleted \in Nat /\ s.suppressed \in Nat
    BY <1>1, <1>2, StateFields
<1>4. /\ v.apiCompleted \in Nat /\ v.resourceCompleted \in Nat /\ v.suppressed \in Nat
      /\ w.apiCompleted \in Nat /\ w.resourceCompleted \in Nat /\ w.suppressed \in Nat
    BY StateFields
<1> QED BY <1>2, <1>3, <1>4 DEF Closes, Grown

LEMMA GrownCarries ==
    ASSUME NEW M, NEW ps \in Seq(Pages!State), NEW Q, NEW lo, NEW F, NEW fl, NEW R, NEW st,
           Carried(M, ps, Q, lo, F, fl, R, st),
           NEW new \in Seq(Pages!State), Len(ps) <= Len(new), \A p \in 1 .. Len(ps) : Grown(ps[p], new[p])
    PROVE  Carried(M, new, Q, lo, F, fl, R, st)
<1>1. Len(ps) \in Nat /\ Len(new) \in Nat /\ \A p \in 1 .. Len(ps) : p \in 1 .. Len(new)
    OBVIOUS
<1>2. \A p \in 1 .. Len(ps) : ps[p] \in Pages!State /\ new[p] \in Pages!State
    BY <1>1
<1>3. ASSUME NEW l \in Somewhere(Q, F, R), l.kind = "leave"
      PROVE  /\ l \in Pages!Sendable /\ l.page \in 1 .. Len(ps) /\ l.id <= new[l.page].sequence
             /\ Shut(l) => Closes(l, new[l.page])
    <2>1. /\ l \in Pages!Sendable /\ l.page \in 1 .. Len(ps) /\ l.id <= ps[l.page].sequence
          /\ Shut(l) => Closes(l, ps[l.page])
        BY <1>3 DEF Carried, Known
    <2>2. ps[l.page].sequence \in Nat /\ new[l.page].sequence \in Nat /\ l.id \in Nat
        BY <1>2, <2>1, StateFields, SendableFields
    <2>3. Grown(ps[l.page], new[l.page])
        BY <2>1
    <2>4. l.id <= new[l.page].sequence
        BY <2>1, <2>2, <2>3 DEF Grown
    <2>5. Shut(l) => Closes(l, new[l.page])
        BY <1>2, <1>3, <2>1, <2>3, GrownCloses
    <2> QED BY <2>1, <2>4, <2>5
<1>4. ASSUME NEW e, NEW l \in Somewhere(Q, F, R), Shut(l), l.page = e.page, Later(e, l, ps[e.page])
      PROVE  Later(e, l, new[e.page])
    <2>1. l \in Pages!Sendable /\ l.page \in 1 .. Len(ps) /\ l.kind = "leave"
        BY <1>3, <1>4 DEF Shut
    <2>2. /\ l.state \in Pages!State /\ ps[e.page] \in Pages!State /\ new[e.page] \in Pages!State
          /\ Grown(ps[e.page], new[e.page])
        BY <1>2, <1>4, <2>1, SendableFields
    <2>3. PICK a : a = l.state.apiCompleted
        OBVIOUS
    <2>4. a \in Nat /\ ps[e.page].apiCompleted \in Nat /\ new[e.page].apiCompleted \in Nat
        BY <2>2, <2>3, StateFields
    <2> QED BY <1>4, <2>2, <2>3, <2>4 DEF Later, Grown
<1>5. Known(M, new, Q, F, R)
    BY <1>1, <1>3 DEF Carried, Known, Shut
<1>6. Ordered(M, new, Q, F, R)
    BY <1>4 DEF Carried, Ordered
<1>7. Missed(M, new, Q, lo, F, fl, R, st)
    <2>1. \A e \in M : ps[e.page].closed => new[e.page].closed
        BY DEF Carried, Grown
    <2> QED BY <1>4, <2>1 DEF Carried, Missed
<1> QED BY <1>1, <1>5, <1>6, <1>7 DEF Carried

\* What an event that is queued must be.
Fit(e, M, ps, Q, lo, F, R, st) ==
    /\ e \in Pages!Sendable /\ e.page \in 1 .. Len(ps)
    /\ e.kind \in Watched => \A l \in Somewhere(Q, F, R) : Shut(l) /\ l.page = e.page => Later(e, l, ps[e.page])
    /\ e.kind = "leave" => e.id <= ps[e.page].sequence /\ (e.losses => lo) /\ e \notin Somewhere(Q, F, R)
    /\ Shut(e) => /\ Closes(e, ps[e.page])
                  /\ \A m \in M : m \in Somewhere(Q, F, R) \/ m.page # e.page \/ m.kind \in st \/ lo

\* It is queued, and what is dropped for it is known to be.
LEMMA PushCarries ==
    ASSUME NEW M, NEW ps, NEW Q, NEW lo, NEW F, NEW fl, NEW R, NEW st, Carried(M, ps, Q, lo, F, fl, R, st),
           NEW e, NEW B \in SUBSET (Q \cup {e}), e \in B, NEW known, lo => known, B = Q \cup {e} \/ known,
           Fit(e, M, ps, Q, known, F, R, st),
           NEW N, N = IF e.kind \in Watched THEN M \cup {e} ELSE M
    PROVE  Carried(N, ps, B, known, F, fl, R, st)
<1> DEFINE In(m) == \E r \in R : r.event = m
<1>1. \A m : m \in Somewhere(B, F, R) <=> m \in B \/ m \in F \/ In(m)
    BY DEF Somewhere
<1>2. \A m : m \in Somewhere(Q, F, R) <=> m \in Q \/ m \in F \/ In(m)
    BY DEF Somewhere
<1>3. \A l : l.kind = "leave" /\ l \in Somewhere(Q, F, R) => l # e
    BY DEF Fit
<1>4. \A l \in Somewhere(B, F, R) : l = e \/ l \in Somewhere(Q, F, R)
    <2> HIDE DEF In
    <2> QED BY <1>1, <1>2
<1>5. \A l : l # e /\ Warned(l, Q, lo, F, fl, R) => Warned(l, B, known, F, fl, R)
    BY DEF Warned
<1>6. ASSUME e.kind = "leave", known PROVE Warned(e, B, known, F, fl, R)
    <2>1. e \notin F /\ ~In(e)
        <3> HIDE DEF In
        <3> QED BY <1>2, <1>6 DEF Fit
    <2> QED BY <1>6, <2>1 DEF Warned
<1>7. Known(N, ps, B, F, R)
    <2> SUFFICES ASSUME NEW m \in Somewhere(B, F, R)
                 PROVE  /\ m \in Pages!Sendable /\ m.page \in 1 .. Len(ps) /\ (m.kind \in Watched => m \in N)
                        /\ m.kind = "leave" => m.id <= ps[m.page].sequence
                        /\ Shut(m) => Closes(m, ps[m.page])
        BY DEF Known
    <2>1. CASE m = e
        BY <2>1 DEF Fit
    <2>2. CASE m \in Somewhere(Q, F, R)
        BY <2>2 DEF Carried, Known
    <2> QED BY <1>4, <2>1, <2>2
<1>8. Honest(B, known, F, fl, R)
    <2> SUFFICES ASSUME NEW l \in Somewhere(B, F, R), l.kind = "leave", l.losses
                 PROVE  Warned(l, B, known, F, fl, R)
        BY DEF Honest
    <2>1. CASE l = e
        BY <1>6, <2>1 DEF Fit
    <2>2. CASE l \in Somewhere(Q, F, R)
        BY <1>3, <1>5, <2>2 DEF Carried, Honest
    <2> QED BY <1>4, <2>1, <2>2
<1>9. Ordered(N, ps, B, F, R)
    <2> SUFFICES ASSUME NEW m \in N, NEW l \in Somewhere(B, F, R), Shut(l), l.page = m.page
                 PROVE  /\ l \in F /\ m \in B => m \in F \/ In(m) \/ Later(m, l, ps[m.page])
                        /\ In(l) /\ m \in B \cup F => In(m) \/ Later(m, l, ps[m.page])
        BY DEF Ordered
    <2>1. CASE l = e
        <3>1. l \notin F /\ ~In(l)
            <4> HIDE DEF In
            <4> QED BY <1>2, <2>1 DEF Fit, Shut
        <3> HIDE DEF In
        <3> QED BY <3>1
    <2>2. CASE l \in Somewhere(Q, F, R) /\ m = e /\ e.kind \in Watched
        BY <2>2 DEF Fit
    <2>3. CASE l \in Somewhere(Q, F, R) /\ m = e /\ e.kind \notin Watched
        BY <2>3 DEF Carried
    <2>4. CASE l \in Somewhere(Q, F, R) /\ m # e
        BY <2>4 DEF Carried, Ordered
    <2> QED BY <1>4, <2>1, <2>2, <2>3, <2>4
<1>10. Missed(N, ps, B, known, F, fl, R, st)
    <2> SUFFICES ASSUME NEW m \in N, m \notin Somewhere(B, F, R), m.kind \notin st
                 PROVE  /\ ps[m.page].closed \/ known
                        /\ \A l \in Somewhere(B, F, R) : Shut(l) /\ l.page = m.page =>
                             Later(m, l, ps[m.page]) \/ Warned(l, B, known, F, fl, R)
        BY DEF Missed
    <2>1. m # e /\ m \in M
        BY <1>1
    <2>2. m \in Q => known
        BY <1>1, <2>1
    <2>3. m \notin Somewhere(Q, F, R) \/ m \in Q
        <3> HIDE DEF In
        <3> QED BY <1>1, <1>2
    <2>4. ps[m.page].closed \/ known
        BY <2>1, <2>2, <2>3 DEF Carried, Missed
    <2>5. ASSUME NEW l \in Somewhere(B, F, R), Shut(l), l.page = m.page
          PROVE  Later(m, l, ps[m.page]) \/ Warned(l, B, known, F, fl, R)
        <3>1. CASE l = e
            <4>1. known
                BY <2>1, <2>2, <2>3, <2>5, <3>1 DEF Fit
            <4> QED BY <1>6, <2>5, <3>1, <4>1 DEF Shut
        <3>2. CASE l # e /\ m \in Q
            <4>1. l \in Somewhere(Q, F, R)
                BY <1>4, <3>2
            <4>2. CASE l \in F \/ In(l)
                <5>1. m \notin F /\ ~In(m)
                    <6> HIDE DEF In
                    <6> QED BY <1>1
                <5> QED BY <2>1, <2>5, <3>2, <4>1, <4>2, <5>1 DEF Carried, Ordered
            <4>3. CASE l \notin F /\ ~In(l)
                BY <2>2, <3>2, <4>3 DEF Warned
            <4> QED BY <4>2, <4>3
        <3>3. CASE l # e /\ m \notin Q
            <4>1. l \in Somewhere(Q, F, R) /\ m \notin Somewhere(Q, F, R)
                BY <1>4, <2>3, <3>3
            <4>2. Later(m, l, ps[m.page]) \/ Warned(l, Q, lo, F, fl, R)
                BY <2>1, <2>5, <4>1 DEF Carried, Missed
            <4> QED BY <1>5, <3>3, <4>2
        <3> QED BY <3>1, <3>2, <3>3
    <2> QED BY <2>4, <2>5
<1>11. \A m \in N : m.page \in 1 .. Len(ps) /\ m.kind \in Watched
    BY DEF Carried, Fit
<1> QED BY <1>7, <1>8, <1>9, <1>10, <1>11 DEF Carried

-----------------------------------------------------------------------------
\* Quality: the queue and the batch under way.

Elements(q) == {q[n] : n \in 1 .. Len(q)}
Aboard(f) == IF f = NoOne THEN {} ELSE Elements(f.order)
Knows(f) == f # NoOne /\ f.losses
Loaded(M, ps, q, lo, f, R, st) == Carried(M, ps, Elements(q), lo, Aboard(f), Knows(f), R, st)

LEMMA ViewingFields == Viewing.limit \in Nat /\ Viewing.size \in Nat /\ Viewing.size > 0
    BY ServicesAssumption

\* emit() keeps to the size of the queue, and what it drops is known to be lost.
LEMMA PushKeeps ==
    ASSUME NEW q \in Seq(Pages!Sendable), Len(q) <= Viewing.size, NEW e \in Pages!Sendable,
           NEW new, new = Pages!Push(q, e)
    PROVE  /\ new \in Seq(Pages!Sendable) /\ Len(new) <= Viewing.size /\ new # <<>>
           /\ Elements(new) \in SUBSET (Elements(q) \cup {e}) /\ e \in Elements(new)
           /\ Elements(new) = Elements(q) \cup {e} \/ Pages!Drops(q)
<1>1. Viewing.size \in Nat /\ Viewing.size > 0 /\ Len(q) \in Nat
    BY ViewingFields
<1>2. CASE Len(q) = Viewing.size
    <2>1. q # <<>>
        BY <1>1, <1>2
    <2>2. PICK t : t = Tail(q)
        OBVIOUS
    <2>3. /\ t \in Seq(Pages!Sendable) /\ Len(t) = Len(q) - 1 /\ \A i \in 1 .. Len(t) : t[i] = q[i + 1]
        BY <2>1, <2>2, Shortened
    <2>4. new = Append(t, e)
        BY <1>2, <2>2 DEF Pages!Push
    <2>5. /\ new \in Seq(Pages!Sendable) /\ Len(new) = Len(t) + 1
          /\ new[Len(t) + 1] = e /\ \A i \in DOMAIN t : new[i] = t[i]
        BY <2>3, <2>4, Appended
    <2>6. DOMAIN t = 1 .. Len(t)
        BY <2>3
    <2>7. \A i \in 1 .. Len(new) : new[i] = e \/ (i + 1 \in 1 .. Len(q) /\ new[i] = q[i + 1])
        <3> SUFFICES ASSUME NEW i \in 1 .. Len(new) PROVE new[i] = e \/ (i + 1 \in 1 .. Len(q) /\ new[i] = q[i + 1])
            OBVIOUS
        <3>1. i = Len(t) + 1 \/ i \in 1 .. Len(t)
            BY <1>1, <2>3, <2>5
        <3>2. i \in 1 .. Len(t) => i + 1 \in 1 .. Len(q)
            BY <1>1, <2>3
        <3> QED BY <2>3, <2>5, <2>6, <3>1, <3>2
    <2>8. Elements(new) \in SUBSET (Elements(q) \cup {e})
        BY <2>7 DEF Elements
    <2>9. e \in Elements(new) /\ Len(new) = Viewing.size
        <3>1. Len(t) + 1 \in 1 .. Len(new) /\ Len(new) = Viewing.size
            BY <1>1, <1>2, <2>3, <2>5
        <3> QED BY <2>5, <3>1 DEF Elements
    <2>10. new # <<>>
        BY <1>1, <2>9
    <2> QED BY <1>1, <1>2, <2>5, <2>8, <2>9, <2>10 DEF Pages!Drops
<1>3. CASE Len(q) # Viewing.size
    <2>1. new = Append(q, e)
        BY <1>3 DEF Pages!Push
    <2>2. /\ new \in Seq(Pages!Sendable) /\ Len(new) = Len(q) + 1
          /\ new[Len(q) + 1] = e /\ \A i \in DOMAIN q : new[i] = q[i]
        BY <2>1, Appended
    <2>3. Len(q) + 1 \in 1 .. Len(new) /\ Len(new) <= Viewing.size /\ new # <<>>
        BY <1>1, <1>3, <2>2
    <2>4. \A i \in 1 .. Len(new) : i = Len(q) + 1 \/ i \in 1 .. Len(q)
        BY <1>1, <2>2
    <2>5. \A i \in 1 .. Len(q) : i \in 1 .. Len(new) /\ i \in DOMAIN q
        BY <1>1, <2>2
    <2>6. Elements(new) = Elements(q) \cup {e}
        <3>1. \A x \in Elements(new) : x \in Elements(q) \cup {e}
            BY <2>2, <2>4, <2>5 DEF Elements
        <3>2. \A x \in Elements(q) : x \in Elements(new)
            BY <2>2, <2>5 DEF Elements
        <3>3. e \in Elements(new)
            BY <2>2, <2>3 DEF Elements
        <3> QED BY <3>1, <3>2, <3>3
    <2> QED BY <2>2, <2>3, <2>6
<1> QED BY <1>2, <1>3

LEMMA Empty == Elements(<<>>) = {} /\ Aboard(NoOne) = {} /\ Knows(NoOne) = FALSE
    BY DEF Elements, Aboard, Knows

\* A batch is one, and what it carries is what was queued.
LEMMA BatchIs ==
    ASSUME NEW q \in Seq(Pages!Sendable), NEW lo \in BOOLEAN, NEW f, f = Pages!Batch(q, lo)
    PROVE  f \in Pages!Batches /\ f # NoOne /\ Aboard(f) = Elements(q) /\ Knows(f) = lo
<1>1. f \in Pages!Batches /\ f.order = q /\ f.losses = lo
    BY DEF Pages!Batch, Pages!Batches
<1>2. f # NoOne
    BY <1>1, ServicesAssumption
<1> QED BY <1>1, <1>2 DEF Aboard, Knows

LEMMA RowsAboard ==
    ASSUME NEW f \in Pages!Batches PROVE Pages!Rows(f) = RowsOf(Aboard(f), Knows(f))
<1>1. f # NoOne /\ f.order \in Seq(Pages!Sendable) /\ f.losses \in BOOLEAN
    BY ServicesAssumption DEF Pages!Batches
<1>2. Aboard(f) = {f.order[n] : n \in DOMAIN f.order} /\ Knows(f) = f.losses
    <2>1. DOMAIN f.order = 1 .. Len(f.order)
        BY <1>1
    <2> QED BY <1>1, <2>1 DEF Aboard, Knows, Elements
<1>3. Pages!Rows(f) = {[event |-> e, losses |-> f.losses] : e \in {f.order[n] : n \in DOMAIN f.order}}
    BY DEF Pages!Rows
<1> QED BY <1>2, <1>3 DEF RowsOf

\* What no batch knows does not matter.
LEMMA NothingAboard ==
    ASSUME NEW M, NEW ps, NEW Q, NEW lo, NEW fl, NEW R, NEW st, Carried(M, ps, Q, lo, {}, fl, R, st), NEW any
    PROVE  Carried(M, ps, Q, lo, {}, any, R, st)
<1>1. \A l : Warned(l, Q, lo, {}, fl, R) => Warned(l, Q, lo, {}, any, R)
    BY DEF Warned
<1> QED BY <1>1 DEF Carried, Honest, Missed

\* flush() takes the whole queue.
LEMMA LoadedFlush ==
    ASSUME NEW M, NEW ps, NEW q \in Seq(Pages!Sendable), NEW lo \in BOOLEAN, NEW R, NEW st,
           Loaded(M, ps, q, lo, NoOne, R, st)
    PROVE  Loaded(M, ps, <<>>, lo, Pages!Batch(q, lo), R, st)
<1>1. Carried(M, ps, Elements(q), lo, {}, FALSE, R, st)
    BY Empty DEF Loaded
<1>2. Carried(M, ps, {}, lo, Elements(q), lo, R \cup RowsOf({}, FALSE), st)
    BY <1>1, SentCarries
<1>3. R \cup RowsOf({}, FALSE) = R
    BY DEF RowsOf
<1>4. PICK f : f = Pages!Batch(q, lo)
    OBVIOUS
<1>5. Aboard(f) = Elements(q) /\ Knows(f) = lo
    BY <1>4, BatchIs
<1> QED BY <1>2, <1>3, <1>4, <1>5, Empty DEF Loaded

\* The next batch, if there is one.
Following(q, lo) == IF q = <<>> THEN NoOne ELSE Pages!Batch(q, lo)
LEMMA NextLoaded ==
    ASSUME NEW M, NEW ps, NEW q \in Seq(Pages!Sendable), NEW lo \in BOOLEAN, NEW R, NEW st,
           Carried(M, ps, {}, lo, Elements(q), lo, R, st), NEW f, f = Following(q, lo)
    PROVE  Loaded(M, ps, <<>>, lo, f, R, st) /\ (f = NoOne \/ f \in Pages!Batches)
<1>1. CASE q = <<>>
    <2>1. Carried(M, ps, {}, lo, {}, lo, R, st) /\ f = NoOne
        BY <1>1, Empty DEF Following
    <2>2. Carried(M, ps, {}, lo, {}, FALSE, R, st)
        BY <2>1, NothingAboard
    <2> QED BY <2>1, <2>2, Empty DEF Loaded
<1>2. CASE q # <<>>
    <2>1. f = Pages!Batch(q, lo)
        BY <1>2 DEF Following
    <2>2. f \in Pages!Batches /\ Aboard(f) = Elements(q) /\ Knows(f) = lo
        BY <2>1, BatchIs
    <2> QED BY <2>2, Empty DEF Loaded
<1> QED BY <1>1, <1>2

LEMMA LoadedSent ==
    ASSUME NEW M, NEW ps, NEW q \in Seq(Pages!Sendable), NEW lo \in BOOLEAN, NEW R, NEW st,
           NEW f \in Pages!Batches, Loaded(M, ps, q, lo, f, R, st), NEW g, g = Following(q, lo)
    PROVE  Loaded(M, ps, <<>>, lo, g, R \cup Pages!Rows(f), st) /\ (g = NoOne \/ g \in Pages!Batches)
<1>1. Carried(M, ps, {}, lo, Elements(q), lo, R \cup RowsOf(Aboard(f), Knows(f)), st)
    BY SentCarries DEF Loaded
<1>2. Carried(M, ps, {}, lo, Elements(q), lo, R \cup Pages!Rows(f), st)
    BY <1>1, RowsAboard
<1> QED BY <1>2, NextLoaded

LEMMA LoadedRefused ==
    ASSUME NEW M, NEW ps, NEW q \in Seq(Pages!Sendable), NEW lo, NEW R, NEW st,
           NEW f \in Pages!Batches, Loaded(M, ps, q, lo, f, R, st), NEW g, g = Following(q, TRUE)
    PROVE  Loaded(M, ps, <<>>, TRUE, g, R, st) /\ (g = NoOne \/ g \in Pages!Batches)
<1>1. Carried(M, ps, {}, TRUE, Elements(q), TRUE, R, st)
    BY RefusedCarries DEF Loaded
<1> QED BY <1>1, NextLoaded

\* The events of a failed batch go back, as far as there is room.
Back(back, f, q, n) == back = SubSeq(f.order \o q, 1, n) /\ n <= Len(f.order \o q)
Stay(N, R, f) == N = R \/ N = R \cup Pages!Rows(f)
LEMMA LoadedExhausted ==
    ASSUME NEW M, NEW ps, NEW q \in Seq(Pages!Sendable), NEW lo, NEW R, NEW st,
           NEW f \in Pages!Batches, Loaded(M, ps, q, lo, f, R, st),
           NEW N, Stay(N, R, f), NEW n \in Nat, NEW back, Back(back, f, q, n)
    PROVE  back \in Seq(Pages!Sendable) /\ Len(back) = n /\ Loaded(M, ps, back, TRUE, NoOne, N, st)
<1>1. PICK a : a = f.order
    OBVIOUS
<1>2. a \in Seq(Pages!Sendable) /\ f # NoOne
    BY <1>1, ServicesAssumption DEF Pages!Batches
<1>3. PICK s : s = a \o q
    OBVIOUS
<1>4. /\ s \in Seq(Pages!Sendable) /\ Len(s) = Len(a) + Len(q) /\ Len(a) \in Nat /\ Len(q) \in Nat
      /\ \A i \in 1 .. Len(s) : s[i] = IF i <= Len(a) THEN a[i] ELSE q[i - Len(a)]
    BY <1>2, <1>3
<1>5. back \in Seq(Pages!Sendable) /\ Len(back) = n /\ \A i \in 1 .. n : back[i] = s[i] /\ i \in 1 .. Len(s)
    <2>1. back = SubSeq(s, 1, n) /\ n <= Len(s)
        BY <1>1, <1>3 DEF Back
    <2>2. \A i \in 1 .. n : i \in 1 .. Len(s)
        BY <1>4, <2>1
    <2>3. Len(back) = n /\ \A i \in 1 .. n : back[i] = s[i]
        BY <1>4, <2>1
    <2>4. back \in Seq(Pages!Sendable)
        BY <1>4, <2>1, <2>2
    <2> QED BY <2>2, <2>3, <2>4
<1>6. Elements(back) \in SUBSET (Elements(a) \cup Elements(q))
    <2> SUFFICES ASSUME NEW i \in 1 .. n PROVE back[i] \in Elements(a) \cup Elements(q)
        BY <1>5 DEF Elements
    <2>1. CASE i <= Len(a)
        <3>1. i \in 1 .. Len(a) /\ back[i] = a[i]
            BY <1>4, <1>5, <2>1
        <3> QED BY <3>1 DEF Elements
    <2>2. CASE ~(i <= Len(a))
        <3>1. i - Len(a) \in 1 .. Len(q) /\ back[i] = q[i - Len(a)]
            BY <1>4, <1>5, <2>2
        <3> QED BY <3>1 DEF Elements
    <2> QED BY <2>1, <2>2
<1>7. Aboard(f) = Elements(a)
    BY <1>1, <1>2 DEF Aboard
<1>8. N = R \/ N = R \cup RowsOf(Aboard(f), Knows(f))
    BY RowsAboard DEF Stay
<1>9. Carried(M, ps, Elements(q), lo, Aboard(f), Knows(f), R, st)
    BY DEF Loaded
<1>10. Elements(back) \in SUBSET (Aboard(f) \cup Elements(q))
    BY <1>6, <1>7
<1>11. Carried(M, ps, Elements(back), TRUE, {}, FALSE, N, st)
    BY <1>8, <1>9, <1>10, ExhaustedCarries
<1> QED BY <1>5, <1>11, Empty DEF Loaded

\* A beacon takes the queue, and is stored or lost.
LEMMA LoadedBeacon ==
    ASSUME NEW M, NEW ps, NEW q \in Seq(Pages!Sendable), NEW lo \in BOOLEAN, NEW R, NEW st,
           Loaded(M, ps, q, lo, NoOne, R, st)
    PROVE  /\ Loaded(M, ps, <<>>, lo, NoOne, R \cup Pages!Rows(Pages!Batch(q, lo)), st)
           /\ Loaded(M, ps, <<>>, lo, NoOne, R, st \cup {q[n].kind : n \in DOMAIN q})
<1>1. PICK f : f = Pages!Batch(q, lo)
    OBVIOUS
<1>2. f \in Pages!Batches /\ Loaded(M, ps, <<>>, lo, f, R, st)
    BY <1>1, BatchIs, LoadedFlush
<1>3. <<>> \in Seq(Pages!Sendable) /\ NoOne = Following(<<>>, lo)
    BY DEF Following
<1>4. Loaded(M, ps, <<>>, lo, NoOne, R \cup Pages!Rows(f), st)
    BY <1>2, <1>3, LoadedSent
<1>5. Carried(M, ps, Elements(q), lo, {}, FALSE, R, st)
    BY Empty DEF Loaded
<1>6. Carried(M, ps, {}, lo, {}, FALSE, R, st \cup {e.kind : e \in Elements(q)})
    BY <1>5, BeaconCarries
<1>7. {e.kind : e \in Elements(q)} = {q[n].kind : n \in DOMAIN q}
    <2>1. DOMAIN q = 1 .. Len(q)
        OBVIOUS
    <2> QED BY <2>1 DEF Elements
<1> QED BY <1>1, <1>4, <1>6, <1>7, Empty DEF Loaded

\* An event is queued.
LEMMA LoadedPush ==
    ASSUME NEW M, NEW ps, NEW q \in Seq(Pages!Sendable), Len(q) <= Viewing.size, NEW lo \in BOOLEAN,
           NEW f, NEW R, NEW st, Loaded(M, ps, q, lo, f, R, st),
           NEW e \in Pages!Sendable, NEW known, known = (lo \/ Pages!Drops(q)),
           Fit(e, M, ps, Elements(q), known, Aboard(f), R, st),
           NEW N, N = IF e.kind \in Watched THEN M \cup {e} ELSE M
    PROVE  Loaded(N, ps, Pages!Push(q, e), known, f, R, st)
<1>1. PICK new : new = Pages!Push(q, e)
    OBVIOUS
<1>2. /\ Elements(new) \in SUBSET (Elements(q) \cup {e}) /\ e \in Elements(new)
      /\ Elements(new) = Elements(q) \cup {e} \/ known
    BY <1>1, PushKeeps
<1>3. Carried(M, ps, Elements(q), lo, Aboard(f), Knows(f), R, st)
    BY DEF Loaded
<1>4. Carried(N, ps, Elements(new), known, Aboard(f), Knows(f), R, st)
    BY <1>2, <1>3, PushCarries
<1> QED BY <1>1, <1>4 DEF Loaded

-----------------------------------------------------------------------------
\* Quality: what the pages count.

Underway == [kind : {"api", "resource"}, page : Nat, id : Nat, counted : BOOLEAN]
QualityTypes ==
    /\ pages \in Seq(Pages!State) /\ Len(pages) > 0
    /\ visible \in BOOLEAN /\ task \in BOOLEAN /\ happened \in Nat
    /\ calls \subseteq Underway /\ IsFiniteSet(calls)
    /\ \A c \in calls : c.page \in 1 .. Len(pages) /\ c.id \in 1 .. happened
    /\ queue \in Seq(Pages!Sendable) /\ Len(queue) <= Viewing.size /\ lost \in BOOLEAN
    /\ flight = NoOne \/ flight \in Pages!Batches

\* A page that is left has no long task to report, and the others are left.
Tidy(ps, t) ==
    /\ \A p \in 1 .. Len(ps) - 1 : ps[p].closed
    /\ ps[Len(ps)].closed => ~t
    /\ ~ps[Len(ps)].closed => ps[Len(ps)].tasks = ps[Len(ps)].longtasks + (IF t THEN 1 ELSE 0)

Counting(C, kind, p) == {c \in C : c.kind = kind /\ c.page = p /\ c.counted}
Made(M, kind, p) == {e \in M : e.kind = kind /\ e.page = p}
Failing(M, p) == {e \in M : e.kind = "api" /\ e.page = p /\ e.failed}

\* A page counts each of its errors and calls once, and all its calls up to the limit.
Counted(v, M, C, p) ==
    /\ v.apiCompleted + Cardinality(Counting(C, "api", p)) <= v.apiStarted
    /\ v.resourceCompleted + Cardinality(Counting(C, "resource", p)) <= v.resourceStarted
    /\ Cardinality(Made(M, "error", p)) = v.errors
    /\ Cardinality(Made(M, "api", p)) = v.apiCompleted
    /\ v.apiStarted <= v.tried /\ v.apiStarted <= Viewing.limit
    /\ v.apiStarted < Viewing.limit => v.tried = v.apiStarted
    /\ v.tried = v.apiStarted => /\ \A c \in C : c.kind = "api" /\ c.page = p => c.counted
                                 /\ Cardinality(Failing(M, p)) = v.failed

\* The events of calls and errors, of which no two are of the same.
Named(M, C, h) ==
    /\ IsFiniteSet(M) /\ \A e \in M : e.id \in 1 .. h /\ \A c \in C : c.id # e.id
    /\ \A c, d \in C : c.id = d.id => c = d

Census(M, ps, C, h) == Named(M, C, h) /\ \A p \in 1 .. Len(ps) : Counted(ps[p], M, C, p)

QualityInvariant ==
    /\ QualityTypes /\ Tidy(pages, task)
    /\ \E M : Census(M, pages, calls, happened) /\ Loaded(M, pages, queue, lost, flight, raw, strayed)

\* Sets that gain or lose an element.
LEMMA OneMore == ASSUME NEW S, IsFiniteSet(S), NEW x, x \notin S
                 PROVE  IsFiniteSet(S \cup {x}) /\ Cardinality(S \cup {x}) = Cardinality(S) + 1
    BY FS_AddElement

LEMMA MadeMore ==
    ASSUME NEW M, IsFiniteSet(M), NEW e, e \notin M, NEW kind, NEW p
    PROVE  /\ Cardinality(Made(M, kind, p)) \in Nat
           /\ e.kind = kind /\ e.page = p =>
                Cardinality(Made(M \cup {e}, kind, p)) = Cardinality(Made(M, kind, p)) + 1
           /\ ~(e.kind = kind /\ e.page = p) => Made(M \cup {e}, kind, p) = Made(M, kind, p)
<1>1. IsFiniteSet(Made(M, kind, p)) /\ Cardinality(Made(M, kind, p)) \in Nat
    BY FS_Subset, FS_CardinalityType DEF Made
<1>2. ASSUME e.kind = kind /\ e.page = p
      PROVE  Cardinality(Made(M \cup {e}, kind, p)) = Cardinality(Made(M, kind, p)) + 1
    <2>1. Made(M \cup {e}, kind, p) = Made(M, kind, p) \cup {e} /\ e \notin Made(M, kind, p)
        BY <1>2 DEF Made
    <2> QED BY <1>1, <2>1, OneMore
<1>3. ASSUME ~(e.kind = kind /\ e.page = p) PROVE Made(M \cup {e}, kind, p) = Made(M, kind, p)
    BY <1>3 DEF Made
<1> QED BY <1>1, <1>2, <1>3

LEMMA FailingMore ==
    ASSUME NEW M, IsFiniteSet(M), NEW e, e \notin M, NEW p
    PROVE  /\ Cardinality(Failing(M, p)) \in Nat
           /\ e.kind = "api" /\ e.page = p /\ e.failed =>
                Cardinality(Failing(M \cup {e}, p)) = Cardinality(Failing(M, p)) + 1
           /\ ~(e.kind = "api" /\ e.page = p /\ e.failed) => Failing(M \cup {e}, p) = Failing(M, p)
<1>1. IsFiniteSet(Failing(M, p)) /\ Cardinality(Failing(M, p)) \in Nat
    BY FS_Subset, FS_CardinalityType DEF Failing
<1>2. ASSUME e.kind = "api" /\ e.page = p /\ e.failed
      PROVE  Cardinality(Failing(M \cup {e}, p)) = Cardinality(Failing(M, p)) + 1
    <2>1. Failing(M \cup {e}, p) = Failing(M, p) \cup {e} /\ e \notin Failing(M, p)
        BY <1>2 DEF Failing
    <2> QED BY <1>1, <2>1, OneMore
<1>3. ASSUME ~(e.kind = "api" /\ e.page = p /\ e.failed) PROVE Failing(M \cup {e}, p) = Failing(M, p)
    BY <1>3 DEF Failing
<1> QED BY <1>1, <1>2, <1>3

LEMMA CountingMore ==
    ASSUME NEW C, IsFiniteSet(C), NEW c, c \notin C, NEW kind, NEW p
    PROVE  /\ Cardinality(Counting(C, kind, p)) \in Nat
           /\ c.kind = kind /\ c.page = p /\ c.counted =>
                Cardinality(Counting(C \cup {c}, kind, p)) = Cardinality(Counting(C, kind, p)) + 1
           /\ ~(c.kind = kind /\ c.page = p /\ c.counted) => Counting(C \cup {c}, kind, p) = Counting(C, kind, p)
<1>1. IsFiniteSet(Counting(C, kind, p)) /\ Cardinality(Counting(C, kind, p)) \in Nat
    BY FS_Subset, FS_CardinalityType DEF Counting
<1>2. ASSUME c.kind = kind /\ c.page = p /\ c.counted
      PROVE  Cardinality(Counting(C \cup {c}, kind, p)) = Cardinality(Counting(C, kind, p)) + 1
    <2>1. Counting(C \cup {c}, kind, p) = Counting(C, kind, p) \cup {c} /\ c \notin Counting(C, kind, p)
        BY <1>2 DEF Counting
    <2> QED BY <1>1, <2>1, OneMore
<1>3. ASSUME ~(c.kind = kind /\ c.page = p /\ c.counted) PROVE Counting(C \cup {c}, kind, p) = Counting(C, kind, p)
    BY <1>3 DEF Counting
<1> QED BY <1>1, <1>2, <1>3

LEMMA CountingLess ==
    ASSUME NEW C, IsFiniteSet(C), NEW c \in C, NEW kind, NEW p
    PROVE  /\ IsFiniteSet(C \ {c}) /\ Cardinality(Counting(C \ {c}, kind, p)) \in Nat
           /\ c.kind = kind /\ c.page = p /\ c.counted =>
                Cardinality(Counting(C, kind, p)) = Cardinality(Counting(C \ {c}, kind, p)) + 1
           /\ ~(c.kind = kind /\ c.page = p /\ c.counted) => Counting(C \ {c}, kind, p) = Counting(C, kind, p)
<1>1. PICK D : D = C \ {c}
    OBVIOUS
<1>2. IsFiniteSet(D) /\ c \notin D
    BY <1>1, FS_Subset
<1>3. D \cup {c} = C
    BY <1>1
<1>4. /\ Cardinality(Counting(D, kind, p)) \in Nat
      /\ c.kind = kind /\ c.page = p /\ c.counted =>
           Cardinality(Counting(D \cup {c}, kind, p)) = Cardinality(Counting(D, kind, p)) + 1
      /\ ~(c.kind = kind /\ c.page = p /\ c.counted) => Counting(D \cup {c}, kind, p) = Counting(D, kind, p)
    BY <1>2, CountingMore
<1> QED BY <1>1, <1>2, <1>3, <1>4

\* What happens on one page is nothing to another one.
LEMMA CountedElsewhere ==
    ASSUME NEW v, NEW M, NEW C, NEW p, Counted(v, M, C, p), NEW N, NEW D,
           \A e : e \in N /\ e.page = p <=> e \in M /\ e.page = p,
           \A c : c \in D /\ c.page = p <=> c \in C /\ c.page = p
    PROVE  Counted(v, N, D, p)
<1>1. Counting(D, "api", p) = Counting(C, "api", p) /\ Counting(D, "resource", p) = Counting(C, "resource", p)
    BY DEF Counting
<1>2. Made(N, "error", p) = Made(M, "error", p) /\ Made(N, "api", p) = Made(M, "api", p) /\ Failing(N, p) = Failing(M, p)
    BY DEF Made, Failing
<1>3. \A c \in D : c.page = p => c \in C
    OBVIOUS
<1> QED BY <1>1, <1>2, <1>3 DEF Counted

LEMMA GrownSame == ASSUME NEW v \in Pages!State PROVE Grown(v, v)
    BY StateFields DEF Grown

\* One page goes on.
LEMMA PageGoesOn ==
    ASSUME NEW ps \in Seq(Pages!State), NEW p \in 1 .. Len(ps), NEW w \in Pages!State, Grown(ps[p], w),
           NEW new, new = [ps EXCEPT ![p] = w]
    PROVE  /\ new \in Seq(Pages!State) /\ Len(new) = Len(ps) /\ new[p] = w
           /\ \A q \in 1 .. Len(ps) : q # p => new[q] = ps[q]
           /\ \A q \in 1 .. Len(ps) : Grown(ps[q], new[q])
<1>1. /\ new \in Seq(Pages!State) /\ Len(new) = Len(ps) /\ new[p] = w
      /\ \A q \in 1 .. Len(ps) : q # p => new[q] = ps[q]
    OBVIOUS
<1>2. \A q \in 1 .. Len(ps) : ps[q] \in Pages!State
    OBVIOUS
<1> QED BY <1>1, <1>2, GrownSame

LEMMA PageLoaded ==
    ASSUME NEW M, NEW ps \in Seq(Pages!State), NEW q, NEW lo, NEW f, NEW R, NEW st, Loaded(M, ps, q, lo, f, R, st),
           NEW new \in Seq(Pages!State), Len(ps) <= Len(new), \A p \in 1 .. Len(ps) : Grown(ps[p], new[p])
    PROVE  Loaded(M, new, q, lo, f, R, st)
    BY GrownCarries DEF Loaded

\* The last page_leave of a page that is not left is still to come.
LEMMA NothingShut ==
    ASSUME NEW M, NEW ps, NEW Q, NEW lo, NEW F, NEW fl, NEW R, NEW st, Carried(M, ps, Q, lo, F, fl, R, st),
           NEW p, ~ps[p].closed
    PROVE  \A l \in Somewhere(Q, F, R) : ~(Shut(l) /\ l.page = p)
    BY DEF Carried, Known, Closes

-----------------------------------------------------------------------------
\* Quality: what happens on a page.

LEMMA QualityFields ==
    ASSUME QualityTypes, NEW p, p = Len(pages)
    PROVE  /\ p \in Nat /\ p > 0 /\ p \in 1 .. Len(pages) /\ DOMAIN pages = 1 .. Len(pages)
           /\ \A q \in 1 .. Len(pages) : pages[q] \in Pages!State
           /\ \A c \in calls : /\ c.kind \in {"api", "resource"} /\ c.page \in 1 .. Len(pages)
                               /\ c.id \in 1 .. happened /\ c.counted \in BOOLEAN
    BY DEF QualityTypes, Underway

\* One page counts on, and the others stay as they are.
CountsOn(p, w, new) ==
    /\ p \in 1 .. Len(pages) /\ w \in Pages!State /\ Grown(pages[p], w) /\ w.closed = pages[p].closed
    /\ w.tasks = pages[p].tasks /\ w.longtasks = pages[p].longtasks
    /\ new = [pages EXCEPT ![p] = w]
Becomes(p, w, new) ==
    /\ new \in Seq(Pages!State) /\ Len(new) = Len(pages) /\ new[p] = w
    /\ \A q \in 1 .. Len(pages) : q # p => new[q] = pages[q]
LEMMA PageKeeps ==
    ASSUME QualityTypes, Tidy(pages, task), NEW p, NEW w, NEW new, CountsOn(p, w, new)
    PROVE  /\ Becomes(p, w, new) /\ Tidy(new, task)
           /\ \A M : Loaded(M, pages, queue, lost, flight, raw, strayed) =>
                     Loaded(M, new, queue, lost, flight, raw, strayed)
<1>1. /\ new \in Seq(Pages!State) /\ Len(new) = Len(pages) /\ new[p] = w
      /\ \A q \in 1 .. Len(pages) : q # p => new[q] = pages[q]
      /\ \A q \in 1 .. Len(pages) : Grown(pages[q], new[q])
    BY PageGoesOn DEF QualityTypes, CountsOn
<1>2. Len(pages) \in Nat /\ Len(pages) \in 1 .. Len(pages) /\ pages \in Seq(Pages!State)
    BY DEF QualityTypes
<1>3. ASSUME NEW M, Loaded(M, pages, queue, lost, flight, raw, strayed)
      PROVE  Loaded(M, new, queue, lost, flight, raw, strayed)
    <2>1. Len(pages) <= Len(new)
        BY <1>1, <1>2
    <2> QED BY <1>1, <1>2, <1>3, <2>1, PageLoaded
<1>4. \A q \in 1 .. Len(pages) : /\ new[q].closed = pages[q].closed
                                 /\ new[q].tasks = pages[q].tasks /\ new[q].longtasks = pages[q].longtasks
    BY <1>1 DEF CountsOn
<1>5. Tidy(new, task)
    BY <1>1, <1>2, <1>4 DEF Tidy
<1> QED BY <1>1, <1>3, <1>5 DEF Becomes

\* The census of the pages goes on with it.
LEMMA CensusKeeps ==
    ASSUME QualityTypes, NEW M, Census(M, pages, calls, happened),
           NEW p \in 1 .. Len(pages), NEW w, NEW new, Becomes(p, w, new),
           NEW N, NEW D, NEW h, Named(N, D, h), Counted(w, N, D, p),
           \A e : e.page # p => (e \in N <=> e \in M), \A c : c.page # p => (c \in D <=> c \in calls)
    PROVE  Census(N, new, D, h)
<1>1. ASSUME NEW q \in 1 .. Len(new) PROVE Counted(new[q], N, D, q)
    <2>1. CASE q = p
        BY <2>1 DEF Becomes
    <2>2. CASE q # p
        <3>1. Counted(pages[q], M, calls, q) /\ new[q] = pages[q]
            BY <2>2 DEF Census, Becomes
        <3>2. \A e : e \in N /\ e.page = q <=> e \in M /\ e.page = q
            BY <2>2
        <3>3. \A c : c \in D /\ c.page = q <=> c \in calls /\ c.page = q
            BY <2>2
        <3> QED BY <3>1, <3>2, <3>3, CountedElsewhere
    <2> QED BY <2>1, <2>2
<1> QED BY <1>1 DEF Census

\* emit() queues an event.
LEMMA Emitted ==
    ASSUME QualityTypes, NEW M, NEW ps, Loaded(M, ps, queue, lost, flight, raw, strayed),
           NEW e \in Pages!Sendable, Pages!Emit(e),
           Fit(e, M, ps, Elements(queue), lost', Aboard(flight), raw, strayed),
           NEW N, N = IF e.kind \in Watched THEN M \cup {e} ELSE M
    PROVE  /\ queue' \in Seq(Pages!Sendable) /\ Len(queue') <= Viewing.size /\ lost' \in BOOLEAN
           /\ Loaded(N, ps, queue', lost', flight, raw, strayed)
<1>1. queue' = Pages!Push(queue, e) /\ lost' = (lost \/ Pages!Drops(queue))
    BY DEF Pages!Emit
<1>2. queue \in Seq(Pages!Sendable) /\ Len(queue) <= Viewing.size /\ lost \in BOOLEAN
    BY DEF QualityTypes
<1>3. queue' \in Seq(Pages!Sendable) /\ Len(queue') <= Viewing.size
    BY <1>1, <1>2, PushKeeps
<1>4. PICK known : known = (lost \/ Pages!Drops(queue))
    OBVIOUS
<1>5. Loaded(N, ps, Pages!Push(queue, e), known, flight, raw, strayed)
    <2>1. Fit(e, M, ps, Elements(queue), known, Aboard(flight), raw, strayed)
        BY <1>1, <1>4
    <2> QED BY <1>2, <1>4, <2>1, LoadedPush
<1>6. lost' \in BOOLEAN
    BY <1>1, <1>2 DEF Pages!Drops
<1> QED BY <1>1, <1>3, <1>4, <1>5, <1>6

\* It goes on in another way.
LEMMA PageGoes ==
    ASSUME QualityTypes, NEW M, Loaded(M, pages, queue, lost, flight, raw, strayed),
           NEW p \in 1 .. Len(pages), NEW w \in Pages!State, NEW v, v = pages[p], Grown(v, w),
           NEW new, new = [pages EXCEPT ![p] = w]
    PROVE  Becomes(p, w, new) /\ Loaded(M, new, queue, lost, flight, raw, strayed)
<1>1. /\ new \in Seq(Pages!State) /\ Len(new) = Len(pages) /\ new[p] = w
      /\ \A q \in 1 .. Len(pages) : q # p => new[q] = pages[q]
      /\ \A q \in 1 .. Len(pages) : Grown(pages[q], new[q])
    BY PageGoesOn DEF QualityTypes
<1>2. Len(pages) \in Nat /\ pages \in Seq(Pages!State)
    BY DEF QualityTypes
<1>3. Len(pages) <= Len(new)
    BY <1>1, <1>2
<1>4. Loaded(M, new, queue, lost, flight, raw, strayed)
    BY <1>1, <1>2, <1>3, PageLoaded
<1> QED BY <1>1, <1>4 DEF Becomes

LEMMA StartsApi == ASSUME QualityInvariant, Pages!StartApi PROVE QualityInvariant'
<1>1. QualityTypes /\ Tidy(pages, task)
    BY DEF QualityInvariant
<1>2. PICK M : Census(M, pages, calls, happened) /\ Loaded(M, pages, queue, lost, flight, raw, strayed)
    BY DEF QualityInvariant
<1>3. PICK p, v : p = Len(pages) /\ v = pages[p]
    OBVIOUS
<1>4. PICK more : more = IF v.apiStarted < Viewing.limit THEN 1 ELSE 0
    OBVIOUS
<1>5. PICK w : w = [v EXCEPT !.tried = v.tried + 1, !.apiStarted = v.apiStarted + more]
    OBVIOUS
<1>6. /\ p \in Nat /\ p \in 1 .. Len(pages) /\ v \in Pages!State /\ ~v.closed
      /\ happened \in Nat /\ Viewing.limit \in Nat /\ more \in {0, 1} /\ IsFiniteSet(calls)
    BY <1>1, <1>3, <1>4, QualityFields, ViewingFields DEF QualityTypes, Pages!StartApi, Pages!Current
<1>7. /\ w \in Pages!State /\ w.tried = v.tried + 1 /\ w.apiStarted = v.apiStarted + more
      /\ w.sequence = v.sequence /\ w.apiCompleted = v.apiCompleted /\ w.resourceStarted = v.resourceStarted
      /\ w.resourceCompleted = v.resourceCompleted /\ w.resourceFailed = v.resourceFailed
      /\ w.longtasks = v.longtasks /\ w.suppressed = v.suppressed /\ w.closed = v.closed
      /\ w.failed = v.failed /\ w.tasks = v.tasks /\ w.errors = v.errors
    <2>1. v.tried \in Nat /\ v.apiStarted \in Nat
        BY <1>6, StateFields
    <2>2. PICK x, y : x = v.tried + 1 /\ y = v.apiStarted + more
        OBVIOUS
    <2>3. x \in Nat /\ y \in Nat /\ w = [v EXCEPT !.tried = x, !.apiStarted = y]
        BY <1>5, <1>6, <2>1, <2>2
    <2> QED BY <1>6, <2>2, <2>3 DEF Pages!State
<1>8. pages' = [pages EXCEPT ![p] = w]
    BY <1>3, <1>4, <1>5, <1>6, <1>1 DEF Pages!StartApi, Pages!Current, QualityTypes, Pages!State
<1>9. Grown(v, w)
    <2>1. v.sequence \in Nat /\ v.apiCompleted \in Nat /\ v.suppressed \in Nat /\ v.resourceCompleted \in Nat
        BY <1>6, StateFields
    <2> QED BY <1>6, <1>7, <2>1 DEF Grown
<1>10. /\ pages' \in Seq(Pages!State) /\ Len(pages') = Len(pages) /\ pages'[p] = w
       /\ \A q \in 1 .. Len(pages) : q # p => pages'[q] = pages[q]
       /\ Loaded(M, pages', queue, lost, flight, raw, strayed) /\ Tidy(pages', task)
    <2>1. CountsOn(p, w, pages')
        BY <1>3, <1>6, <1>7, <1>8, <1>9 DEF CountsOn
    <2> QED BY <1>1, <1>2, <2>1, PageKeeps DEF Becomes
<1>11. PICK c : c = [kind |-> "api", page |-> p, id |-> happened + 1, counted |-> v.apiStarted < Viewing.limit]
    OBVIOUS
<1>12. /\ happened' = happened + 1 /\ calls' = calls \cup {c} /\ c \in Underway /\ c \notin calls
       /\ c.kind = "api" /\ c.page = p /\ c.id = happened + 1 /\ c.counted = (v.apiStarted < Viewing.limit)
       /\ UNCHANGED <<visible, task, queue, lost, flight, raw, strayed>>
    BY <1>1, <1>3, <1>6, <1>11, QualityFields DEF Pages!StartApi, Pages!Current, Underway
<1>13. QualityTypes'
    <2>1. \A d \in calls' : d.page \in 1 .. Len(pages') /\ d.id \in 1 .. happened'
        BY <1>1, <1>6, <1>10, <1>12, QualityFields
    <2>2. IsFiniteSet(calls') /\ calls' \subseteq Underway
        BY <1>1, <1>6, <1>12, OneMore DEF QualityTypes
    <2> QED BY <1>1, <1>6, <1>10, <1>12, <2>1, <2>2 DEF QualityTypes
<1>14. Named(M, calls', happened')
    BY <1>1, <1>2, <1>6, <1>12, QualityFields DEF Census, Named
<1>15. Counted(w, M, calls', p)
    <2>1. Counted(v, M, calls, p)
        BY <1>2, <1>3, <1>6 DEF Census
    <2>2. /\ Counting(calls', "resource", p) = Counting(calls, "resource", p)
          /\ Cardinality(Counting(calls, "api", p)) \in Nat
          /\ c.counted => Cardinality(Counting(calls', "api", p)) = Cardinality(Counting(calls, "api", p)) + 1
          /\ ~c.counted => Cardinality(Counting(calls', "api", p)) = Cardinality(Counting(calls, "api", p))
        BY <1>6, <1>12, CountingMore
    <2>3. /\ w.apiCompleted + Cardinality(Counting(calls', "api", p)) <= w.apiStarted
          /\ w.apiStarted <= w.tried /\ w.apiStarted <= Viewing.limit
          /\ w.apiStarted < Viewing.limit => w.tried = w.apiStarted
          /\ w.tried = w.apiStarted => c.counted /\ v.tried = v.apiStarted
        <3>1. /\ v.apiCompleted + Cardinality(Counting(calls, "api", p)) <= v.apiStarted
              /\ v.apiStarted <= v.tried /\ v.apiStarted <= Viewing.limit
              /\ v.apiStarted < Viewing.limit => v.tried = v.apiStarted
            BY <2>1 DEF Counted
        <3>2. v.apiCompleted \in Nat /\ v.apiStarted \in Nat /\ v.tried \in Nat /\ w.apiCompleted = v.apiCompleted
            BY <1>6, <1>7, StateFields
        <3> DEFINE n == Cardinality(Counting(calls, "api", p))
                   m == Cardinality(Counting(calls', "api", p))
        <3>5. n \in Nat /\ (c.counted => m = n + 1) /\ (~c.counted => m = n) /\ v.apiCompleted + n <= v.apiStarted
            BY <2>2, <3>1
        <3>6. w.tried = v.tried + 1 /\ w.apiStarted = v.apiStarted + more
            BY <1>7
        <3> HIDE DEF n, m
        <3>3. CASE v.apiStarted < Viewing.limit
            <4>1. c.counted /\ more = 1
                BY <1>4, <1>12, <3>3
            <4>2. m = n + 1
                BY <3>5, <4>1
            <4>3. /\ w.apiCompleted + m <= w.apiStarted /\ w.apiStarted <= w.tried
                  /\ w.apiStarted <= Viewing.limit /\ w.tried = w.apiStarted /\ v.tried = v.apiStarted
                BY <1>6, <3>1, <3>2, <3>3, <3>5, <3>6, <4>1, <4>2
            <4> QED BY <4>1, <4>3 DEF m
        <3>4. CASE ~(v.apiStarted < Viewing.limit)
            <4>1. ~c.counted /\ more = 0
                BY <1>4, <1>12, <3>4
            <4>2. m = n
                BY <3>5, <4>1
            <4>3. /\ w.apiCompleted + m <= w.apiStarted /\ w.apiStarted <= w.tried /\ w.tried # w.apiStarted
                  /\ w.apiStarted <= Viewing.limit /\ ~(w.apiStarted < Viewing.limit)
                BY <1>6, <3>1, <3>2, <3>4, <3>5, <3>6, <4>1, <4>2
            <4> QED BY <4>3 DEF m
        <3> QED BY <3>3, <3>4
    <2>4. \A d \in calls' : d \in calls \/ d = c
        BY <1>12
    <2> QED BY <1>7, <2>1, <2>2, <2>3, <2>4 DEF Counted
<1>17. Census(M, pages', calls', happened')
    <2>1. Becomes(p, w, pages')
        BY <1>10 DEF Becomes
    <2>2. \A d : d.page # p => (d \in calls' <=> d \in calls)
        BY <1>12
    <2> QED BY <1>1, <1>2, <1>6, <1>14, <1>15, <2>1, <2>2, CensusKeeps
<1>18. Tidy(pages', task') /\ Loaded(M, pages', queue', lost', flight', raw', strayed')
    BY <1>10, <1>12
<1> QED BY <1>13, <1>17, <1>18 DEF QualityInvariant

LEMMA StartsResource == ASSUME QualityInvariant, Pages!StartResource PROVE QualityInvariant'
<1>1. QualityTypes /\ Tidy(pages, task)
    BY DEF QualityInvariant
<1>2. PICK M : Census(M, pages, calls, happened) /\ Loaded(M, pages, queue, lost, flight, raw, strayed)
    BY DEF QualityInvariant
<1>3. PICK p, v : p = Len(pages) /\ v = pages[p]
    OBVIOUS
<1>4. PICK more, less : /\ more = IF v.resourceStarted < Viewing.limit THEN 1 ELSE 0
                        /\ less = IF v.resourceStarted < Viewing.limit THEN 0 ELSE 1
    OBVIOUS
<1>5. PICK w : w = [v EXCEPT !.resourceStarted = v.resourceStarted + more, !.suppressed = v.suppressed + less]
    OBVIOUS
<1>6. /\ p \in Nat /\ p \in 1 .. Len(pages) /\ v \in Pages!State /\ ~v.closed
      /\ happened \in Nat /\ Viewing.limit \in Nat /\ more \in {0, 1} /\ less \in {0, 1} /\ IsFiniteSet(calls)
    BY <1>1, <1>3, <1>4, QualityFields, ViewingFields DEF QualityTypes, Pages!StartResource, Pages!Current
<1>7. /\ w \in Pages!State /\ w.resourceStarted = v.resourceStarted + more /\ w.suppressed = v.suppressed + less
      /\ w.sequence = v.sequence /\ w.apiCompleted = v.apiCompleted /\ w.apiStarted = v.apiStarted
      /\ w.resourceCompleted = v.resourceCompleted /\ w.resourceFailed = v.resourceFailed
      /\ w.longtasks = v.longtasks /\ w.tried = v.tried /\ w.closed = v.closed
      /\ w.failed = v.failed /\ w.tasks = v.tasks /\ w.errors = v.errors
    <2>1. v.suppressed \in Nat /\ v.resourceStarted \in Nat
        BY <1>6, StateFields
    <2>2. PICK x, y : x = v.resourceStarted + more /\ y = v.suppressed + less
        OBVIOUS
    <2>3. x \in Nat /\ y \in Nat /\ w = [v EXCEPT !.resourceStarted = x, !.suppressed = y]
        BY <1>5, <1>6, <2>1, <2>2
    <2> QED BY <1>6, <2>2, <2>3 DEF Pages!State
<1>8. pages' = [pages EXCEPT ![p] = w]
    BY <1>3, <1>4, <1>5, <1>6, <1>1 DEF Pages!StartResource, Pages!Current, QualityTypes, Pages!State
<1>9. Grown(v, w)
    <2>1. v.sequence \in Nat /\ v.apiCompleted \in Nat /\ v.suppressed \in Nat /\ v.resourceCompleted \in Nat
        BY <1>6, StateFields
    <2> QED BY <1>6, <1>7, <2>1 DEF Grown
<1>10. /\ Becomes(p, w, pages') /\ Tidy(pages', task)
       /\ Loaded(M, pages', queue, lost, flight, raw, strayed)
    <2>1. CountsOn(p, w, pages')
        BY <1>3, <1>6, <1>7, <1>8, <1>9 DEF CountsOn
    <2> QED BY <1>1, <1>2, <2>1, PageKeeps
<1>11. PICK c : c = [kind |-> "resource", page |-> p, id |-> happened + 1,
                     counted |-> v.resourceStarted < Viewing.limit]
    OBVIOUS
<1>12. /\ happened' = happened + 1 /\ calls' = calls \cup {c} /\ c \in Underway /\ c \notin calls
       /\ c.kind = "resource" /\ c.page = p /\ c.id = happened + 1
       /\ c.counted = (v.resourceStarted < Viewing.limit)
       /\ UNCHANGED <<visible, task, queue, lost, flight, raw, strayed>>
    BY <1>1, <1>3, <1>6, <1>11, QualityFields DEF Pages!StartResource, Pages!Current, Underway
<1>13. QualityTypes'
    <2>1. \A d \in calls' : d.page \in 1 .. Len(pages') /\ d.id \in 1 .. happened'
        BY <1>1, <1>6, <1>10, <1>12, QualityFields DEF Becomes
    <2>2. IsFiniteSet(calls') /\ calls' \subseteq Underway
        BY <1>1, <1>6, <1>12, OneMore DEF QualityTypes
    <2> QED BY <1>1, <1>6, <1>10, <1>12, <2>1, <2>2 DEF QualityTypes, Becomes
<1>14. Named(M, calls', happened')
    BY <1>1, <1>2, <1>6, <1>12, QualityFields DEF Census, Named
<1>15. Counted(w, M, calls', p)
    <2>1. Counted(v, M, calls, p)
        BY <1>2, <1>3, <1>6 DEF Census
    <2>2. Counting(calls', "api", p) = Counting(calls, "api", p)
        BY <1>6, <1>12, CountingMore
    <2>3. w.resourceCompleted + Cardinality(Counting(calls', "resource", p)) <= w.resourceStarted
        <3> DEFINE n == Cardinality(Counting(calls, "resource", p))
                   m == Cardinality(Counting(calls', "resource", p))
        <3>1. n \in Nat /\ (c.counted => m = n + 1) /\ (~c.counted => m = n)
            BY <1>6, <1>12, CountingMore
        <3>2. v.resourceCompleted + n <= v.resourceStarted
            BY <2>1 DEF Counted
        <3>3. v.resourceCompleted \in Nat /\ v.resourceStarted \in Nat
            BY <1>6, StateFields
        <3>4. m = n + more
            <4>1. (more = 1 /\ c.counted) \/ (more = 0 /\ ~c.counted)
                BY <1>4, <1>12
            <4> HIDE DEF n, m
            <4>2. n + 0 = n
                BY <3>1
            <4> QED BY <3>1, <4>1, <4>2
        <3> HIDE DEF n, m
        <3>5. w.resourceCompleted + m <= w.resourceStarted
            BY <1>6, <1>7, <3>1, <3>2, <3>3, <3>4
        <3> QED BY <3>5 DEF m
    <2>4. \A d \in calls' : d.kind = "api" => d \in calls
        BY <1>12
    <2> QED BY <1>7, <2>1, <2>2, <2>3, <2>4 DEF Counted
<1>16. Census(M, pages', calls', happened')
    <2>1. \A d : d.page # p => (d \in calls' <=> d \in calls)
        BY <1>12
    <2> QED BY <1>1, <1>2, <1>6, <1>10, <1>14, <1>15, <2>1, CensusKeeps
<1>17. Tidy(pages', task') /\ Loaded(M, pages', queue', lost', flight', raw', strayed')
    BY <1>10, <1>12
<1> QED BY <1>13, <1>16, <1>17 DEF QualityInvariant

LEMMA Throws == ASSUME QualityInvariant, Pages!CaptureException PROVE QualityInvariant'
<1>1. QualityTypes /\ Tidy(pages, task)
    BY DEF QualityInvariant
<1>2. PICK M : Census(M, pages, calls, happened) /\ Loaded(M, pages, queue, lost, flight, raw, strayed)
    BY DEF QualityInvariant
<1>3. PICK p, v : p = Len(pages) /\ v = pages[p]
    OBVIOUS
<1>4. PICK w : w = [v EXCEPT !.errors = v.errors + 1]
    OBVIOUS
<1>5. /\ p \in Nat /\ p \in 1 .. Len(pages) /\ v \in Pages!State /\ ~v.closed
      /\ happened \in Nat /\ IsFiniteSet(M)
    BY <1>1, <1>2, <1>3, QualityFields DEF QualityTypes, Pages!CaptureException, Pages!Current, Census, Named
<1>6. /\ w \in Pages!State /\ w.errors = v.errors + 1
      /\ w.sequence = v.sequence /\ w.apiCompleted = v.apiCompleted /\ w.apiStarted = v.apiStarted
      /\ w.resourceCompleted = v.resourceCompleted /\ w.resourceStarted = v.resourceStarted
      /\ w.resourceFailed = v.resourceFailed /\ w.suppressed = v.suppressed
      /\ w.longtasks = v.longtasks /\ w.tried = v.tried /\ w.closed = v.closed
      /\ w.failed = v.failed /\ w.tasks = v.tasks
    <2>1. PICK x : x = v.errors + 1
        OBVIOUS
    <2>2. x \in Nat /\ w = [v EXCEPT !.errors = x]
        BY <1>4, <1>5, <2>1, StateFields
    <2> QED BY <1>5, <2>1, <2>2 DEF Pages!State
<1>7. pages' = [pages EXCEPT ![p] = w]
    BY <1>1, <1>3, <1>4, <1>5 DEF Pages!CaptureException, Pages!Current, QualityTypes, Pages!State
<1>8. Grown(v, w)
    <2>1. v.sequence \in Nat /\ v.apiCompleted \in Nat /\ v.suppressed \in Nat /\ v.resourceCompleted \in Nat
        BY <1>5, StateFields
    <2> QED BY <1>6, <2>1 DEF Grown
<1>9. /\ Becomes(p, w, pages') /\ Tidy(pages', task)
      /\ Loaded(M, pages', queue, lost, flight, raw, strayed)
    <2>1. CountsOn(p, w, pages')
        BY <1>3, <1>5, <1>6, <1>7, <1>8 DEF CountsOn
    <2> QED BY <1>1, <1>2, <2>1, PageKeeps
<1>10. PICK e : e = Pages!Event("error", p, happened + 1)
    OBVIOUS
<1>11. e \in Pages!Sendable /\ e.kind = "error" /\ e.page = p /\ e.id = happened + 1
    BY <1>5, <1>10 DEF Pages!Event, Pages!Sendable
<1>12. /\ happened' = happened + 1 /\ Pages!Emit(e) /\ UNCHANGED <<visible, calls, task, flight, raw, strayed>>
    BY <1>3, <1>10 DEF Pages!CaptureException, Pages!Current
<1>13. PICK N : N = M \cup {e}
    OBVIOUS
<1>14. e \notin M
    BY <1>2, <1>5, <1>11 DEF Census, Named
<1>15. Fit(e, M, pages', Elements(queue), lost', Aboard(flight), raw, strayed)
    <2>1. pages'[p].closed = FALSE /\ Len(pages') = Len(pages)
        BY <1>5, <1>6, <1>9 DEF Becomes, Pages!State
    <2>2. \A l \in Somewhere(Elements(queue), Aboard(flight), raw) : ~(Shut(l) /\ l.page = p)
        BY <1>9, <2>1, NothingShut DEF Loaded
    <2> QED BY <1>5, <1>11, <2>1, <2>2 DEF Fit, Shut
<1>16. /\ queue' \in Seq(Pages!Sendable) /\ Len(queue') <= Viewing.size /\ lost' \in BOOLEAN
       /\ Loaded(N, pages', queue', lost', flight, raw, strayed)
    <2>1. e.kind \in Watched
        BY <1>11 DEF Watched
    <2>2. N = IF e.kind \in Watched THEN M \cup {e} ELSE M
        BY <1>13, <2>1
    <2> QED BY <1>1, <1>9, <1>11, <1>12, <1>15, <2>2, Emitted
<1>17. QualityTypes'
    <2>1. \A d \in calls : d.page \in 1 .. Len(pages') /\ d.id \in 1 .. happened'
        BY <1>1, <1>5, <1>9, <1>12, QualityFields DEF Becomes
    <2> QED BY <1>1, <1>5, <1>9, <1>12, <1>16, <2>1 DEF QualityTypes, Becomes
<1>18. Named(N, calls, happened + 1)
    <2>1. IsFiniteSet(N)
        BY <1>5, <1>13, <1>14, OneMore
    <2>2. \A d \in calls : d.id \in 1 .. happened
        BY <1>1, QualityFields
    <2>3. \A x \in M : x.id \in 1 .. happened + 1
        BY <1>2, <1>5 DEF Census, Named
    <2> QED BY <1>2, <1>5, <1>11, <1>13, <2>1, <2>2, <2>3 DEF Census, Named
<1>19. Counted(w, N, calls, p)
    <2>1. Counted(v, M, calls, p)
        BY <1>2, <1>3, <1>5 DEF Census
    <2>2. /\ Cardinality(Made(N, "error", p)) = Cardinality(Made(M, "error", p)) + 1
          /\ Made(N, "api", p) = Made(M, "api", p) /\ Failing(N, p) = Failing(M, p)
        BY <1>5, <1>11, <1>13, <1>14, MadeMore, FailingMore
    <2> QED BY <1>6, <2>1, <2>2 DEF Counted
<1>20. Census(N, pages', calls', happened')
    <2>1. \A x : x.page # p => (x \in N <=> x \in M)
        BY <1>11, <1>13
    <2>2. Census(N, pages', calls, happened + 1)
        BY <1>1, <1>2, <1>5, <1>9, <1>18, <1>19, <2>1, CensusKeeps
    <2> QED BY <1>12, <2>2
<1>21. Tidy(pages', task') /\ Loaded(N, pages', queue', lost', flight', raw', strayed')
    BY <1>9, <1>12, <1>16
<1> QED BY <1>17, <1>20, <1>21 DEF QualityInvariant

\* A long task happens.
LEMMA TakesLong == ASSUME QualityInvariant, Pages!Longtask PROVE QualityInvariant'
<1>1. QualityTypes /\ Tidy(pages, task)
    BY DEF QualityInvariant
<1>2. PICK M : Census(M, pages, calls, happened) /\ Loaded(M, pages, queue, lost, flight, raw, strayed)
    BY DEF QualityInvariant
<1>3. PICK p, v : p = Len(pages) /\ v = pages[p]
    OBVIOUS
<1>4. PICK w : w = [v EXCEPT !.tasks = v.tasks + 1]
    OBVIOUS
<1>5. /\ p \in Nat /\ p \in 1 .. Len(pages) /\ v \in Pages!State /\ ~v.closed /\ ~task /\ task'
      /\ happened \in Nat /\ happened' = happened + 1
      /\ UNCHANGED <<visible, calls, queue, lost, flight, raw, strayed>>
    BY <1>1, <1>2, <1>3, QualityFields DEF QualityTypes, Pages!Longtask, Pages!Current
<1>6. /\ w \in Pages!State /\ w.tasks = v.tasks + 1
      /\ w.sequence = v.sequence /\ w.apiCompleted = v.apiCompleted /\ w.apiStarted = v.apiStarted
      /\ w.resourceCompleted = v.resourceCompleted /\ w.resourceStarted = v.resourceStarted
      /\ w.resourceFailed = v.resourceFailed /\ w.suppressed = v.suppressed
      /\ w.longtasks = v.longtasks /\ w.tried = v.tried /\ w.closed = v.closed
      /\ w.failed = v.failed /\ w.errors = v.errors
    <2>1. PICK x : x = v.tasks + 1
        OBVIOUS
    <2>2. x \in Nat /\ w = [v EXCEPT !.tasks = x]
        BY <1>4, <1>5, <2>1, StateFields
    <2> QED BY <1>5, <2>1, <2>2 DEF Pages!State
<1>7. pages' = [pages EXCEPT ![p] = w]
    BY <1>1, <1>3, <1>4, <1>5 DEF Pages!Longtask, Pages!Current, QualityTypes, Pages!State
<1>8. Grown(v, w)
    <2>1. v.sequence \in Nat /\ v.apiCompleted \in Nat /\ v.suppressed \in Nat /\ v.resourceCompleted \in Nat
        BY <1>5, StateFields
    <2> QED BY <1>5, <1>6, <2>1 DEF Grown
<1>9. Becomes(p, w, pages') /\ Loaded(M, pages', queue, lost, flight, raw, strayed)
    BY <1>1, <1>2, <1>3, <1>5, <1>6, <1>7, <1>8, PageGoes
<1>10. Tidy(pages', task')
    <2>1. Len(pages') = p /\ pages'[p] = w /\ \A q \in 1 .. p - 1 : pages'[q] = pages[q]
        BY <1>3, <1>5, <1>9 DEF Becomes
    <2>2. ~w.closed /\ w.tasks = w.longtasks + 1
        <3>1. v.tasks = v.longtasks + 0 /\ v.longtasks \in Nat
            BY <1>1, <1>3, <1>5, StateFields DEF Tidy
        <3> QED BY <1>5, <1>6, <3>1
    <2> QED BY <1>1, <1>3, <1>5, <2>1, <2>2 DEF Tidy
<1>11. QualityTypes'
    <2>1. \A d \in calls : d.page \in 1 .. Len(pages') /\ d.id \in 1 .. happened'
        BY <1>1, <1>5, <1>9, QualityFields DEF Becomes
    <2> QED BY <1>1, <1>5, <1>9, <2>1 DEF QualityTypes, Becomes
<1>12. Named(M, calls, happened + 1)
    <2>1. \A x \in M : x.id \in 1 .. happened + 1
        BY <1>2, <1>5 DEF Census, Named
    <2> QED BY <1>2, <2>1 DEF Census, Named
<1>13. Counted(w, M, calls, p)
    BY <1>2, <1>3, <1>5, <1>6 DEF Census, Counted
<1>14. Census(M, pages', calls, happened + 1)
    BY <1>1, <1>2, <1>5, <1>9, <1>12, <1>13, CensusKeeps
<1>15. Census(M, pages', calls', happened') /\ Loaded(M, pages', queue', lost', flight', raw', strayed')
    BY <1>5, <1>9, <1>14
<1> QED BY <1>10, <1>11, <1>15 DEF QualityInvariant

\* The observer reports it.
LEMMA Observes == ASSUME QualityInvariant, Pages!Observed PROVE QualityInvariant'
<1>1. QualityTypes /\ Tidy(pages, task)
    BY DEF QualityInvariant
<1>2. PICK M : Census(M, pages, calls, happened) /\ Loaded(M, pages, queue, lost, flight, raw, strayed)
    BY DEF QualityInvariant
<1>3. PICK p, v : p = Len(pages) /\ v = pages[p]
    OBVIOUS
<1>4. PICK w : w = [v EXCEPT !.longtasks = v.longtasks + 1]
    OBVIOUS
<1>5. /\ p \in Nat /\ p \in 1 .. Len(pages) /\ v \in Pages!State /\ ~v.closed /\ task /\ task' = FALSE
      /\ happened \in Nat /\ UNCHANGED <<visible, calls, queue, lost, flight, raw, strayed, happened>>
    BY <1>1, <1>2, <1>3, QualityFields DEF QualityTypes, Tidy, Pages!Observed, Pages!Current
<1>6. /\ w \in Pages!State /\ w.longtasks = v.longtasks + 1
      /\ w.sequence = v.sequence /\ w.apiCompleted = v.apiCompleted /\ w.apiStarted = v.apiStarted
      /\ w.resourceCompleted = v.resourceCompleted /\ w.resourceStarted = v.resourceStarted
      /\ w.resourceFailed = v.resourceFailed /\ w.suppressed = v.suppressed
      /\ w.tasks = v.tasks /\ w.tried = v.tried /\ w.closed = v.closed
      /\ w.failed = v.failed /\ w.errors = v.errors
    <2>1. PICK x : x = v.longtasks + 1
        OBVIOUS
    <2>2. x \in Nat /\ w = [v EXCEPT !.longtasks = x]
        BY <1>4, <1>5, <2>1, StateFields
    <2> QED BY <1>5, <2>1, <2>2 DEF Pages!State
<1>7. pages' = [pages EXCEPT ![p] = w]
    BY <1>1, <1>3, <1>4, <1>5 DEF Pages!Observed, Pages!Current, QualityTypes, Pages!State
<1>8. Grown(v, w)
    <2>1. v.sequence \in Nat /\ v.apiCompleted \in Nat /\ v.suppressed \in Nat /\ v.resourceCompleted \in Nat
        BY <1>5, StateFields
    <2> QED BY <1>5, <1>6, <2>1 DEF Grown
<1>9. Becomes(p, w, pages') /\ Loaded(M, pages', queue, lost, flight, raw, strayed)
    BY <1>1, <1>2, <1>3, <1>5, <1>6, <1>7, <1>8, PageGoes
<1>10. Tidy(pages', task')
    <2>1. Len(pages') = p /\ pages'[p] = w /\ \A q \in 1 .. p - 1 : pages'[q] = pages[q]
        BY <1>3, <1>5, <1>9 DEF Becomes
    <2>2. ~w.closed /\ w.tasks = w.longtasks + 0
        <3>1. v.tasks = v.longtasks + 1 /\ v.longtasks \in Nat
            BY <1>1, <1>3, <1>5, StateFields DEF Tidy
        <3> QED BY <1>5, <1>6, <3>1
    <2> QED BY <1>1, <1>3, <1>5, <2>1, <2>2 DEF Tidy
<1>11. QualityTypes'
    BY <1>1, <1>5, <1>9 DEF QualityTypes, Becomes
<1>12. Named(M, calls, happened)
    BY <1>2 DEF Census
<1>13. Counted(w, M, calls, p)
    BY <1>2, <1>3, <1>5, <1>6 DEF Census, Counted
<1>14. Census(M, pages', calls, happened)
    BY <1>1, <1>2, <1>5, <1>9, <1>12, <1>13, CensusKeeps
<1>15. Census(M, pages', calls', happened') /\ Loaded(M, pages', queue', lost', flight', raw', strayed')
    BY <1>5, <1>9, <1>14
<1> QED BY <1>10, <1>11, <1>15 DEF QualityInvariant

\* A call that was begun ends: what is left of those under way.
LEMMA CallEnds ==
    ASSUME QualityTypes, NEW M, Named(M, calls, happened), NEW c \in calls, NEW D, D = calls \ {c}
    PROVE  /\ D \subseteq Underway /\ IsFiniteSet(D) /\ Named(M, D, happened)
           /\ \A d : d.page # c.page => (d \in D <=> d \in calls)
           /\ \A e, N : e.id = c.id /\ N = M \cup {e} => e \notin M /\ Named(N, D, happened)
<1>1. D \subseteq Underway /\ IsFiniteSet(D)
    BY FS_Subset DEF QualityTypes
<1>2. Named(M, D, happened)
    BY DEF Named
<1>3. ASSUME NEW e, NEW N, e.id = c.id, N = M \cup {e} PROVE e \notin M /\ Named(N, D, happened)
    <2>1. e \notin M /\ c.id \in 1 .. happened /\ \A d \in D : d.id # c.id
        BY <1>3 DEF Named, QualityTypes
    <2>2. IsFiniteSet(N)
        BY <1>3, <2>1, OneMore DEF Named
    <2> QED BY <1>3, <2>1, <2>2 DEF Named
<1> QED BY <1>1, <1>2, <1>3

LEMMA EndsResource ==
    ASSUME QualityInvariant, NEW c \in calls, NEW fails \in BOOLEAN, Pages!EndResource(c, fails)
    PROVE  QualityInvariant'
<1>1. QualityTypes /\ Tidy(pages, task)
    BY DEF QualityInvariant
<1>2. PICK M : Census(M, pages, calls, happened) /\ Loaded(M, pages, queue, lost, flight, raw, strayed)
    BY DEF QualityInvariant
<1>3. PICK p, v : p = c.page /\ v = pages[p]
    OBVIOUS
<1>4. PICK more, failed : /\ more = IF c.counted THEN 1 ELSE 0
                          /\ failed = IF c.counted /\ fails THEN 1 ELSE 0
    OBVIOUS
<1>5. PICK w : w = [v EXCEPT !.resourceCompleted = v.resourceCompleted + more,
                             !.resourceFailed = v.resourceFailed + failed]
    OBVIOUS
<1>6. /\ p \in 1 .. Len(pages) /\ p \in Nat /\ v \in Pages!State /\ more \in {0, 1} /\ failed \in {0, 1}
      /\ c.kind = "resource" /\ c.id \in 1 .. happened /\ c.counted \in BOOLEAN /\ happened \in Nat
      /\ more = 0 => failed = 0
    <2>1. c.kind = "resource" /\ happened \in Nat /\ Len(pages) \in Nat
        <3>1. c.kind = "resource"
            BY DEF Pages!EndResource
        <3> QED BY <1>1, <3>1 DEF QualityTypes
    <2>2. /\ c.counted \in BOOLEAN /\ c.id \in 1 .. happened /\ p \in 1 .. Len(pages)
          /\ \A q \in 1 .. Len(pages) : pages[q] \in Pages!State
        BY <1>1, <1>3, QualityFields
    <2>3. p \in Nat /\ v \in Pages!State
        BY <1>3, <2>1, <2>2
    <2>4. more \in {0, 1} /\ failed \in {0, 1} /\ (more = 0 => failed = 0)
        BY <1>4
    <2> QED BY <2>1, <2>2, <2>3, <2>4
<1>7. /\ w \in Pages!State
      /\ w.resourceCompleted = v.resourceCompleted + more /\ w.resourceFailed = v.resourceFailed + failed
      /\ w.sequence = v.sequence /\ w.apiCompleted = v.apiCompleted /\ w.apiStarted = v.apiStarted
      /\ w.resourceStarted = v.resourceStarted /\ w.suppressed = v.suppressed
      /\ w.longtasks = v.longtasks /\ w.tasks = v.tasks /\ w.tried = v.tried /\ w.closed = v.closed
      /\ w.failed = v.failed /\ w.errors = v.errors
    <2>1. PICK x, y : x = v.resourceCompleted + more /\ y = v.resourceFailed + failed
        OBVIOUS
    <2>2. x \in Nat /\ y \in Nat /\ w = [v EXCEPT !.resourceCompleted = x, !.resourceFailed = y]
        BY <1>5, <1>6, <2>1, StateFields
    <2> QED BY <1>6, <2>1, <2>2 DEF Pages!State
<1>8. pages' = [pages EXCEPT ![p] = w]
    <2>1. CASE c.counted
        <3>1. more = 1 /\ failed = IF fails THEN 1 ELSE 0
            BY <1>4, <2>1
        <3> QED BY <1>1, <1>3, <1>5, <1>6, <2>1, <3>1 DEF Pages!EndResource, QualityTypes, Pages!State
    <2>2. CASE ~c.counted
        <3>1. more = 0 /\ failed = 0 /\ pages' = pages
            BY <1>4, <2>2 DEF Pages!EndResource
        <3>2. w = v
            <4>1. v.resourceCompleted \in Nat /\ v.resourceFailed \in Nat
                BY <1>6, StateFields
            <4>2. w = [v EXCEPT !.resourceCompleted = v.resourceCompleted, !.resourceFailed = v.resourceFailed]
                <5>1. v.resourceCompleted + more = v.resourceCompleted /\ v.resourceFailed + failed = v.resourceFailed
                    BY <3>1, <4>1
                <5> QED BY <1>5, <5>1
            <4> QED BY <1>6, <4>2 DEF Pages!State
        <3> QED BY <1>1, <1>3, <1>6, <3>1, <3>2 DEF QualityTypes
    <2> QED BY <2>1, <2>2
<1>9. Grown(v, w)
    <2>1. /\ v.sequence \in Nat /\ v.apiCompleted \in Nat /\ v.suppressed \in Nat
          /\ v.resourceCompleted \in Nat /\ v.resourceFailed \in Nat
        BY <1>6, StateFields
    <2> QED BY <1>6, <1>7, <2>1 DEF Grown
<1>10. /\ Becomes(p, w, pages') /\ Tidy(pages', task)
       /\ Loaded(M, pages', queue, lost, flight, raw, strayed)
    <2>1. CountsOn(p, w, pages')
        BY <1>3, <1>6, <1>7, <1>8, <1>9 DEF CountsOn
    <2> QED BY <1>1, <1>2, <2>1, PageKeeps
<1>11. /\ calls' = calls \ {c} /\ UNCHANGED <<visible, task, flight, raw, strayed, happened>>
       /\ calls' \subseteq Underway /\ IsFiniteSet(calls') /\ Named(M, calls', happened)
       /\ \A d : d.page # p => (d \in calls' <=> d \in calls)
    <2>1. calls' = calls \ {c} /\ UNCHANGED <<visible, task, flight, raw, strayed, happened>>
        BY DEF Pages!EndResource
    <2> QED BY <1>1, <1>2, <1>3, <2>1, CallEnds DEF Census
<1>12. /\ queue' \in Seq(Pages!Sendable) /\ Len(queue') <= Viewing.size /\ lost' \in BOOLEAN
       /\ Loaded(M, pages', queue', lost', flight, raw, strayed)
    <2>1. CASE c.counted /\ fails
        <3>1. PICK e : e = Pages!Event("resource error", p, c.id)
            OBVIOUS
        <3>2. Pages!Emit(e)
            BY <1>3, <2>1, <3>1 DEF Pages!EndResource
        <3>3. e \in Pages!Sendable /\ e.kind = "resource error" /\ e.page = p /\ e.kind \notin Watched
            <4>1. c.id \in Nat
                BY <1>6
            <4> QED BY <1>6, <3>1, <4>1 DEF Pages!Event, Pages!Sendable, Watched
        <3>4. Fit(e, M, pages', Elements(queue), lost', Aboard(flight), raw, strayed)
            BY <1>6, <1>10, <3>3 DEF Fit, Shut, Becomes
        <3>5. M = IF e.kind \in Watched THEN M \cup {e} ELSE M
            BY <3>3
        <3> QED BY <1>1, <1>10, <3>2, <3>3, <3>4, <3>5, Emitted
    <2>2. CASE ~(c.counted /\ fails)
        <3>1. UNCHANGED <<queue, lost>>
            BY <2>2 DEF Pages!EndResource
        <3> QED BY <1>1, <1>10, <3>1 DEF QualityTypes
    <2> QED BY <2>1, <2>2
<1>13. QualityTypes'
    <2>1. \A d \in calls' : d.page \in 1 .. Len(pages') /\ d.id \in 1 .. happened'
        BY <1>1, <1>10, <1>11, QualityFields DEF Becomes
    <2> QED BY <1>1, <1>10, <1>11, <1>12, <2>1 DEF QualityTypes, Becomes
<1>14. Counted(w, M, calls', p)
    <2>1. Counted(v, M, calls, p)
        BY <1>2, <1>3, <1>6 DEF Census
    <2>2. Counting(calls', "api", p) = Counting(calls, "api", p)
        BY <1>1, <1>6, <1>11, CountingLess DEF QualityTypes
    <2>3. w.resourceCompleted + Cardinality(Counting(calls', "resource", p)) <= w.resourceStarted
        <3> DEFINE n == Cardinality(Counting(calls, "resource", p))
                   m == Cardinality(Counting(calls', "resource", p))
        <3>1. m \in Nat /\ (c.counted => n = m + 1) /\ (~c.counted => n = m)
            BY <1>1, <1>3, <1>6, <1>11, CountingLess DEF QualityTypes
        <3>2. v.resourceCompleted + n <= v.resourceStarted
            BY <2>1 DEF Counted
        <3>3. v.resourceCompleted \in Nat /\ v.resourceStarted \in Nat
            BY <1>6, StateFields
        <3>4. (more = 1 /\ c.counted) \/ (more = 0 /\ ~c.counted)
            BY <1>4
        <3> HIDE DEF n, m
        <3>5. n = m + more
            <4>1. m + 0 = m
                BY <3>1
            <4> QED BY <3>1, <3>4, <4>1
        <3>6. w.resourceCompleted + m <= w.resourceStarted
            BY <1>6, <1>7, <3>1, <3>2, <3>3, <3>5
        <3> QED BY <3>6 DEF m
    <2>4. \A d \in calls' : d \in calls
        BY <1>11
    <2> QED BY <1>7, <2>1, <2>2, <2>3, <2>4 DEF Counted
<1>15. Census(M, pages', calls', happened')
    <2>1. Census(M, pages', calls', happened)
        BY <1>1, <1>2, <1>6, <1>10, <1>11, <1>14, CensusKeeps
    <2> QED BY <1>11, <2>1
<1>16. Tidy(pages', task') /\ Loaded(M, pages', queue', lost', flight', raw', strayed')
    BY <1>10, <1>11, <1>12
<1> QED BY <1>13, <1>15, <1>16 DEF QualityInvariant

\* What a call that ends adds to the page, and to the events of calls.
LEMMA EndsApi ==
    ASSUME QualityInvariant, NEW c \in calls, NEW result \in {"success", "failure", "aborted", "invalid"},
           Pages!EndApi(c, result)
    PROVE  QualityInvariant'
<1>1. QualityTypes /\ Tidy(pages, task)
    BY DEF QualityInvariant
<1>2. PICK M : Census(M, pages, calls, happened) /\ Loaded(M, pages, queue, lost, flight, raw, strayed)
    BY DEF QualityInvariant
<1>3. PICK p, v : p = c.page /\ v = pages[p]
    OBVIOUS
<1>4. PICK failing, completing, supp :
         /\ failing = IF result = "failure" THEN 1 ELSE 0
         /\ completing = IF c.counted /\ result # "invalid" THEN 1 ELSE 0
         /\ supp = IF c.counted /\ result = "invalid" THEN 1 ELSE 0
    OBVIOUS
<1>5. PICK w : w = [v EXCEPT !.failed = v.failed + failing, !.apiCompleted = v.apiCompleted + completing,
                             !.suppressed = v.suppressed + supp]
    OBVIOUS
<1>6. /\ p \in 1 .. Len(pages) /\ p \in Nat /\ v \in Pages!State /\ failing \in {0, 1}
      /\ completing \in {0, 1} /\ supp \in {0, 1}
      /\ c.kind = "api" /\ c.id \in Nat /\ c.counted \in BOOLEAN /\ happened \in Nat
    <2>1. c.kind = "api" /\ happened \in Nat /\ Len(pages) \in Nat
        BY <1>1 DEF QualityTypes, Pages!EndApi
    <2>2. /\ c.counted \in BOOLEAN /\ c.id \in 1 .. happened /\ p \in 1 .. Len(pages)
          /\ \A q \in 1 .. Len(pages) : pages[q] \in Pages!State
        BY <1>1, <1>3, QualityFields
    <2>3. p \in Nat /\ v \in Pages!State /\ c.id \in Nat
        BY <1>3, <2>1, <2>2
    <2>4. failing \in {0, 1} /\ completing \in {0, 1} /\ supp \in {0, 1}
        BY <1>4
    <2> QED BY <2>1, <2>2, <2>3, <2>4
<1>7. /\ w \in Pages!State /\ w.failed = v.failed + failing
      /\ w.apiCompleted = v.apiCompleted + completing /\ w.suppressed = v.suppressed + supp
      /\ w.sequence = v.sequence /\ w.apiStarted = v.apiStarted /\ w.resourceCompleted = v.resourceCompleted
      /\ w.resourceStarted = v.resourceStarted /\ w.resourceFailed = v.resourceFailed
      /\ w.longtasks = v.longtasks /\ w.tasks = v.tasks /\ w.tried = v.tried /\ w.closed = v.closed
      /\ w.errors = v.errors
    <2>1. PICK x, y, z : x = v.failed + failing /\ y = v.apiCompleted + completing /\ z = v.suppressed + supp
        OBVIOUS
    <2>2. /\ x \in Nat /\ y \in Nat /\ z \in Nat
          /\ w = [v EXCEPT !.failed = x, !.apiCompleted = y, !.suppressed = z]
        BY <1>5, <1>6, <2>1, StateFields
    <2> QED BY <1>6, <2>1, <2>2 DEF Pages!State
<1>8. pages' = [pages EXCEPT ![p] = w]
    <2>1. v.failed \in Nat /\ v.apiCompleted \in Nat /\ v.suppressed \in Nat
        BY <1>6, StateFields
    <2>2. /\ v.failed + failing = IF result = "failure" THEN v.failed + 1 ELSE v.failed
          /\ v.apiCompleted + completing =
                IF c.counted /\ result # "invalid" THEN v.apiCompleted + 1 ELSE v.apiCompleted
          /\ v.suppressed + supp = IF c.counted /\ result = "invalid" THEN v.suppressed + 1 ELSE v.suppressed
        BY <1>4, <2>1
    <2>3. pages' = [pages EXCEPT
             ![p].failed = IF result = "failure" THEN @ + 1 ELSE @,
             ![p].apiCompleted = IF c.counted /\ result # "invalid" THEN @ + 1 ELSE @,
             ![p].suppressed = IF c.counted /\ result = "invalid" THEN @ + 1 ELSE @]
        BY <1>3 DEF Pages!EndApi
    <2>4. PICK x, y, z : x = v.failed + failing /\ y = v.apiCompleted + completing /\ z = v.suppressed + supp
        OBVIOUS
    <2>5. pages' = [pages EXCEPT ![p].failed = x, ![p].apiCompleted = y, ![p].suppressed = z]
        BY <1>1, <1>3, <1>6, <2>2, <2>3, <2>4 DEF QualityTypes, Pages!State
    <2>6. w = [v EXCEPT !.failed = x, !.apiCompleted = y, !.suppressed = z]
        BY <1>5, <2>4
    <2> QED BY <1>1, <1>3, <1>6, <2>5, <2>6 DEF QualityTypes, Pages!State
<1>9. Grown(v, w)
    <2>1. /\ v.sequence \in Nat /\ v.apiCompleted \in Nat /\ v.suppressed \in Nat /\ v.resourceCompleted \in Nat
        BY <1>6, StateFields
    <2> QED BY <1>6, <1>7, <2>1 DEF Grown
<1>10. /\ Becomes(p, w, pages') /\ Tidy(pages', task)
       /\ Loaded(M, pages', queue, lost, flight, raw, strayed)
    <2>1. CountsOn(p, w, pages')
        BY <1>3, <1>6, <1>7, <1>8, <1>9 DEF CountsOn
    <2> QED BY <1>1, <1>2, <2>1, PageKeeps
<1>11. /\ calls' = calls \ {c} /\ UNCHANGED <<visible, task, flight, raw, strayed, happened>>
       /\ calls' \subseteq Underway /\ IsFiniteSet(calls') /\ Named(M, calls', happened)
       /\ \A d : d.page # p => (d \in calls' <=> d \in calls)
       /\ \A e, N : e.id = c.id /\ N = M \cup {e} => e \notin M /\ Named(N, calls', happened)
    <2>1. calls' = calls \ {c} /\ UNCHANGED <<visible, task, flight, raw, strayed, happened>>
        BY DEF Pages!EndApi
    <2>2. PICK D : D = calls \ {c}
        OBVIOUS
    <2>3. /\ D \subseteq Underway /\ IsFiniteSet(D) /\ Named(M, D, happened)
          /\ \A d : d.page # c.page => (d \in D <=> d \in calls)
          /\ \A e, N : e.id = c.id /\ N = M \cup {e} => e \notin M /\ Named(N, D, happened)
        BY <1>1, <1>2, <2>2, CallEnds, SMTT(30) DEF Census
    <2>4. calls' = D
        BY <2>1, <2>2
    <2> QED BY <1>3, <2>1, <2>3, <2>4
<1>12. PICK e : e = [kind |-> "api", page |-> p, id |-> c.id, failed |-> result = "failure"]
    OBVIOUS
<1>13. /\ e \in Pages!Sendable /\ e.kind = "api" /\ e.page = p /\ e.id = c.id
       /\ e.failed = (result = "failure") /\ e.kind \in Watched
    BY <1>6, <1>12 DEF Pages!Sendable, Watched
<1>14. PICK N : N = IF completing = 1 THEN M \cup {e} ELSE M
    OBVIOUS
<1>15. /\ queue' \in Seq(Pages!Sendable) /\ Len(queue') <= Viewing.size /\ lost' \in BOOLEAN
       /\ Loaded(N, pages', queue', lost', flight, raw, strayed)
    <2>1. CASE c.counted /\ result # "invalid"
        <3>1. Pages!Emit(e)
            BY <1>3, <1>12, <2>1 DEF Pages!EndApi
        <3>2. Fit(e, M, pages', Elements(queue), lost', Aboard(flight), raw, strayed)
            <4>1. ASSUME NEW l \in Somewhere(Elements(queue), Aboard(flight), raw), Shut(l), l.page = p
                  PROVE  Later(e, l, pages'[p])
                <5>1. l \in Pages!Sendable /\ Closes(l, v)
                    BY <1>2, <1>3, <4>1 DEF Loaded, Carried, Known
                <5>2. PICK a : a = l.state.apiCompleted
                    OBVIOUS
                <5>3. l.state \in Pages!State
                    BY <4>1, <5>1, SendableFields DEF Shut
                <5>4. a \in Nat /\ v.apiCompleted \in Nat
                    BY <1>6, <5>2, <5>3, StateFields
                <5>5. a <= v.apiCompleted /\ completing = 1
                    BY <1>4, <2>1, <5>1, <5>2 DEF Closes
                <5>6. a < w.apiCompleted
                    BY <1>7, <5>4, <5>5
                <5> QED BY <1>10, <1>13, <5>2, <5>6 DEF Later, Becomes
            <4> QED BY <1>6, <1>10, <1>13, <4>1 DEF Fit, Shut, Becomes
        <3>3. N = IF e.kind \in Watched THEN M \cup {e} ELSE M
            BY <1>4, <1>13, <1>14, <2>1
        <3> QED BY <1>1, <1>10, <1>13, <3>1, <3>2, <3>3, Emitted
    <2>2. CASE ~(c.counted /\ result # "invalid")
        <3>1. UNCHANGED <<queue, lost>> /\ N = M
            BY <1>4, <1>14, <2>2 DEF Pages!EndApi
        <3> QED BY <1>1, <1>10, <3>1 DEF QualityTypes
    <2> QED BY <2>1, <2>2
<1>16. QualityTypes'
    <2>1. \A d \in calls' : d.page \in 1 .. Len(pages') /\ d.id \in 1 .. happened'
        BY <1>1, <1>10, <1>11, QualityFields DEF Becomes
    <2> QED BY <1>1, <1>10, <1>11, <1>15, <2>1 DEF QualityTypes, Becomes
<1>17. Named(N, calls', happened) /\ (completing = 1 => e \notin M) /\ \A x : x.page # p => (x \in N <=> x \in M)
    BY <1>11, <1>13, <1>14
<1>18. Counted(w, N, calls', p)
    <2>1. Counted(v, M, calls, p)
        BY <1>2, <1>3, <1>6 DEF Census
    <2>2. Counting(calls', "resource", p) = Counting(calls, "resource", p)
        BY <1>1, <1>6, <1>11, CountingLess DEF QualityTypes
    <2>3. IsFiniteSet(M)
        BY <1>2 DEF Census, Named
    <2>4. w.apiCompleted + Cardinality(Counting(calls', "api", p)) <= w.apiStarted
        <3> DEFINE n == Cardinality(Counting(calls, "api", p))
                   m == Cardinality(Counting(calls', "api", p))
        <3>1. m \in Nat /\ (c.counted => n = m + 1) /\ (~c.counted => n = m)
            BY <1>1, <1>3, <1>6, <1>11, CountingLess DEF QualityTypes
        <3>2. v.apiCompleted + n <= v.apiStarted
            BY <2>1 DEF Counted
        <3>3. v.apiCompleted \in Nat /\ v.apiStarted \in Nat
            BY <1>6, StateFields
        <3>4. completing = 0 \/ c.counted
            BY <1>4
        <3> HIDE DEF n, m
        <3>5. n = m \/ n = m + 1
            BY <1>6, <3>1
        <3>6. completing = 1 => n = m + 1
            BY <3>1, <3>4
        <3>7. w.apiCompleted + m <= w.apiStarted
            BY <1>6, <1>7, <3>1, <3>2, <3>3, <3>5, <3>6
        <3> QED BY <3>7 DEF m
    <2>5. /\ Made(N, "error", p) = Made(M, "error", p)
          /\ Cardinality(Made(N, "api", p)) = w.apiCompleted
        <3>1. CASE completing = 1
            <4>1. e \notin M /\ N = M \cup {e}
                BY <1>14, <1>17, <3>1
            <4>2. /\ Made(N, "error", p) = Made(M, "error", p)
                  /\ Cardinality(Made(N, "api", p)) = Cardinality(Made(M, "api", p)) + 1
                BY <1>13, <2>3, <4>1, MadeMore
            <4> QED BY <1>7, <2>1, <3>1, <4>2 DEF Counted
        <3>2. CASE completing = 0
            <4>1. v.apiCompleted + 0 = v.apiCompleted
                BY <1>6, StateFields
            <4> QED BY <1>7, <1>14, <2>1, <3>2, <4>1 DEF Counted
        <3> QED BY <1>6, <3>1, <3>2
    <2>6. ASSUME w.tried = w.apiStarted
          PROVE  /\ \A d \in calls' : d.kind = "api" /\ d.page = p => d.counted
                 /\ Cardinality(Failing(N, p)) = w.failed
        <3>1. /\ \A d \in calls : d.kind = "api" /\ d.page = p => d.counted
              /\ Cardinality(Failing(M, p)) = v.failed
            BY <1>7, <2>1, <2>6 DEF Counted
        <3>2. c.counted
            BY <1>3, <1>6, <3>1
        <3>3. v.failed + 0 = v.failed
            BY <1>6, StateFields
        <3>4. CASE result = "failure"
            <4>1. completing = 1 /\ failing = 1 /\ e.failed
                BY <1>4, <1>13, <3>2, <3>4
            <4>2. e \notin M /\ N = M \cup {e}
                BY <1>14, <1>17, <4>1
            <4>3. Cardinality(Failing(N, p)) = Cardinality(Failing(M, p)) + 1
                BY <1>13, <2>3, <4>1, <4>2, FailingMore
            <4> QED BY <1>7, <1>11, <3>1, <4>1, <4>3
        <3>5. CASE result # "failure"
            <4>1. failing = 0 /\ ~e.failed
                BY <1>4, <1>13, <3>5
            <4>2. Failing(N, p) = Failing(M, p)
                <5>1. CASE completing = 1
                    <6>1. e \notin M /\ N = M \cup {e}
                        BY <1>14, <1>17, <5>1
                    <6> QED BY <2>3, <4>1, <6>1, FailingMore
                <5>2. CASE completing = 0
                    BY <1>14, <5>2
                <5> QED BY <1>6, <5>1, <5>2
            <4> QED BY <1>7, <1>11, <3>1, <3>3, <4>1, <4>2
        <3> QED BY <3>4, <3>5
    <2> QED BY <1>7, <2>1, <2>2, <2>4, <2>5, <2>6 DEF Counted
<1>19. Census(N, pages', calls', happened')
    <2>1. Census(N, pages', calls', happened)
        BY <1>1, <1>2, <1>6, <1>10, <1>11, <1>17, <1>18, CensusKeeps
    <2> QED BY <1>11, <2>1
<1>20. Tidy(pages', task') /\ Loaded(N, pages', queue', lost', flight', raw', strayed')
    BY <1>10, <1>11, <1>15
<1> QED BY <1>16, <1>19, <1>20 DEF QualityInvariant

\* leave() reports the page, whether it stays or not.
Well(M, ps, q, lo, t) ==
    /\ ps \in Seq(Pages!State) /\ Len(ps) = Len(pages)
    /\ q \in Seq(Pages!Sendable) /\ Len(q) <= Viewing.size /\ lo \in BOOLEAN /\ t \in BOOLEAN
    /\ Census(M, ps, calls, happened) /\ Tidy(ps, t) /\ Loaded(M, ps, q, lo, flight, raw, strayed)
LEMMA SettledWell ==
    ASSUME QualityTypes, Tidy(pages, task), NEW closed \in BOOLEAN, NEW s, s = Pages!Settled(closed),
           NEW M, Census(M, pages, calls, happened), Loaded(M, pages, queue, lost, flight, raw, strayed)
    PROVE  Well(M, s.pages, s.queue, s.lost, s.task) /\ (closed => s.pages[Len(pages)].closed)
<1>1. PICK p, v : p = Len(pages) /\ v = pages[p]
    OBVIOUS
<1>2. /\ p \in Nat /\ p \in 1 .. Len(pages) /\ v \in Pages!State /\ pages \in Seq(Pages!State) /\ happened \in Nat
      /\ queue \in Seq(Pages!Sendable) /\ Len(queue) <= Viewing.size /\ lost \in BOOLEAN /\ task \in BOOLEAN
    BY <1>1, QualityFields DEF QualityTypes
<1>3. CASE ~Pages!Settles(closed)
    <2>1. s.pages = pages /\ s.queue = queue /\ s.lost = lost /\ s.task = task
        BY <1>3 DEF Pages!Settled
    <2>2. closed => pages[Len(pages)].closed
        BY <1>3 DEF Pages!Settles, Pages!Current
    <2> QED BY <1>2, <2>1, <2>2 DEF Well
<1>4. CASE Pages!Settles(closed)
    <2>1. ~v.closed
        BY <1>1, <1>4 DEF Pages!Settles, Pages!Current
    <2>2. PICK known : known = (lost \/ Pages!Drops(queue))
        OBVIOUS
    <2>22. PICK more : more = IF task THEN 1 ELSE 0
        OBVIOUS
    <2>23. PICK w : w = Pages!Left(p, closed)
        OBVIOUS
    <2>3. PICK e : e = Pages!Leave(p, closed, known)
        OBVIOUS
    <2>4. /\ s.pages = [pages EXCEPT ![p] = w] /\ s.queue = Pages!Push(queue, e)
          /\ s.lost = known /\ s.task = FALSE
        <3>1. s.pages = [pages EXCEPT ![p] = w] /\ s.task = FALSE
            BY <1>1, <1>4, <2>23 DEF Pages!Settled, Pages!Current
        <3>2. e.losses = known
            BY <2>3 DEF Pages!Leave
        <3>3. s.queue = Pages!Push(queue, e) /\ s.lost = e.losses
            BY <1>1, <1>4, <2>2, <2>3, <2>23 DEF Pages!Settled, Pages!Current
        <3> QED BY <3>1, <3>2, <3>3
    <2>5. /\ v.sequence \in Nat /\ v.longtasks \in Nat /\ v.tasks \in Nat /\ v.apiCompleted \in Nat
          /\ v.suppressed \in Nat /\ v.resourceCompleted \in Nat /\ v.apiStarted \in Nat
          /\ v.resourceStarted \in Nat /\ more \in {0, 1}
        BY <1>2, <2>22, StateFields
    <2>6. /\ w \in Pages!State /\ w.sequence = v.sequence + 1 /\ w.closed = closed /\ w.longtasks = v.longtasks + more
          /\ w.apiCompleted = v.apiCompleted /\ w.apiStarted = v.apiStarted /\ w.resourceCompleted = v.resourceCompleted
          /\ w.resourceStarted = v.resourceStarted /\ w.resourceFailed = v.resourceFailed
          /\ w.suppressed = v.suppressed /\ w.tasks = v.tasks /\ w.tried = v.tried
          /\ w.failed = v.failed /\ w.errors = v.errors
        <3>1. PICK x, y : x = v.sequence + 1 /\ y = v.longtasks + more
            OBVIOUS
        <3>2. x \in Nat /\ y \in Nat /\ w = [v EXCEPT !.sequence = x, !.closed = closed, !.longtasks = y]
            BY <1>1, <1>2, <2>22, <2>23, <2>5, <3>1, SMTT(30) DEF Pages!Left
        <3> QED BY <1>2, <3>1, <3>2 DEF Pages!State
    <2>7. Grown(v, w)
        BY <2>1, <2>5, <2>6 DEF Grown
    <2>8. Becomes(p, w, s.pages) /\ Loaded(M, s.pages, queue, lost, flight, raw, strayed)
        <3>1. PICK new : new = s.pages
            OBVIOUS
        <3>2. new = [pages EXCEPT ![p] = w]
            BY <2>4, <3>1
        <3>3. Becomes(p, w, new) /\ Loaded(M, new, queue, lost, flight, raw, strayed)
            BY <1>1, <1>2, <2>6, <2>7, <3>2, PageGoes
        <3> QED BY <3>1, <3>3
    <2>9. s.pages \in Seq(Pages!State) /\ Len(s.pages) = Len(pages) /\ s.pages[p] = w
          /\ \A q \in 1 .. Len(pages) : q # p => s.pages[q] = pages[q]
        BY <2>8 DEF Becomes
    <2>10. /\ e \in Pages!Sendable /\ e.kind = "leave" /\ e.page = p /\ e.id = v.sequence + 1 /\ e.closed = closed
           /\ e.losses = known /\ e.state = w /\ known \in BOOLEAN /\ e.kind \notin Watched
        <3>1. e = [kind |-> "leave", page |-> p, id |-> v.sequence + 1, closed |-> closed,
                   losses |-> known, state |-> w]
            BY <1>1, <2>23, <2>3 DEF Pages!Leave
        <3>2. known \in BOOLEAN /\ v.sequence + 1 \in Nat
            BY <1>2, <2>2, <2>5 DEF Pages!Drops
        <3> QED BY <1>2, <2>6, <3>1, <3>2 DEF Pages!Sendable, Watched
    <2>11. v.tasks = v.longtasks + more
        BY <1>1, <2>1, <2>22 DEF Tidy
    <2>12. Counted(v, M, calls, p)
        BY <1>1, <1>2 DEF Census
    <2>13. Closes(e, w) \/ ~closed
        <3>1. v.apiCompleted <= v.apiStarted /\ v.resourceCompleted <= v.resourceStarted
            <4>1. Cardinality(Counting(calls, "api", p)) \in Nat /\ Cardinality(Counting(calls, "resource", p)) \in Nat
                BY FS_Subset, FS_CardinalityType DEF Counting, QualityTypes
            <4> QED BY <2>5, <2>12, <4>1 DEF Counted
        <3> QED BY <2>5, <2>6, <2>10, <2>11, <3>1 DEF Closes
    <2>14. Fit(e, M, s.pages, Elements(queue), known, Aboard(flight), raw, strayed)
        <3>1. e \notin Somewhere(Elements(queue), Aboard(flight), raw)
            <4> SUFFICES ASSUME e \in Somewhere(Elements(queue), Aboard(flight), raw) PROVE FALSE
                OBVIOUS
            <4>1. e.id <= v.sequence
                BY <1>1, <2>10 DEF Loaded, Carried, Known
            <4> QED BY <2>5, <2>10, <4>1
        <3>2. \A m \in M : m \in Somewhere(Elements(queue), Aboard(flight), raw)
                           \/ m.page # e.page \/ m.kind \in strayed \/ known
            BY <1>1, <2>1, <2>2, <2>10 DEF Loaded, Carried, Missed
        <3>3. e.id <= s.pages[e.page].sequence
            BY <2>5, <2>6, <2>9, <2>10
        <3> QED BY <1>2, <2>9, <2>10, <2>13, <3>1, <3>2, <3>3 DEF Fit, Shut
    <2>15. s.queue \in Seq(Pages!Sendable) /\ Len(s.queue) <= Viewing.size
        BY <1>2, <2>4, <2>10, PushKeeps
    <2>16. Loaded(M, s.pages, s.queue, s.lost, flight, raw, strayed)
        <3>1. Loaded(M, s.pages, Pages!Push(queue, e), known, flight, raw, strayed)
            BY <1>2, <2>2, <2>8, <2>10, <2>14, LoadedPush
        <3> QED BY <2>4, <3>1
    <2>17. Census(M, s.pages, calls, happened)
        <3>1. Counted(w, M, calls, p)
            BY <2>6, <2>12 DEF Counted
        <3>2. Named(M, calls, happened)
            BY DEF Census
        <3> QED BY <1>2, <2>8, <3>1, <3>2, CensusKeeps
    <2>18. Tidy(s.pages, FALSE)
        <3>1. \A q \in 1 .. p - 1 : s.pages[q] = pages[q]
            BY <1>1, <1>2, <2>9
        <3>2. w.tasks = w.longtasks + 0
            BY <2>5, <2>6, <2>11
        <3> QED BY <1>1, <2>9, <3>1, <3>2 DEF Tidy
    <2> QED BY <1>1, <2>4, <2>6, <2>9, <2>10, <2>15, <2>16, <2>17, <2>18 DEF Well
<1> QED BY <1>3, <1>4

\* A new page comes after one that is left.
LEMMA PageAdded ==
    ASSUME QualityTypes, NEW M, NEW ps \in Seq(Pages!State), Len(ps) = Len(pages), NEW C, NEW h, Census(M, ps, C, h),
           NEW q, NEW lo, NEW f, NEW R, NEW st, Loaded(M, ps, q, lo, f, R, st),
           \A p \in 1 .. Len(ps) : ps[p].closed, \A c \in C : c.page \in 1 .. Len(ps),
           NEW new, new = Append(ps, Pages!Page)
    PROVE  /\ new \in Seq(Pages!State) /\ Len(new) = Len(ps) + 1 /\ Len(new) > 0 /\ Census(M, new, C, h)
           /\ Tidy(new, FALSE) /\ Loaded(M, new, q, lo, f, R, st)
<1>1. PICK v : v = Pages!Page
    OBVIOUS
<1>2. /\ v \in Pages!State /\ v.apiStarted = 0 /\ v.apiCompleted = 0 /\ v.resourceStarted = 0
      /\ v.resourceCompleted = 0 /\ v.tried = 0 /\ v.failed = 0 /\ v.errors = 0
      /\ v.tasks = 0 /\ v.longtasks = 0 /\ v.closed = FALSE
    BY <1>1 DEF Pages!Page, Pages!State
<1>3. PICK n : n = Len(ps)
    OBVIOUS
<1>4. n \in Nat /\ n > 0 /\ DOMAIN ps = 1 .. n
    BY <1>3 DEF QualityTypes
<1>5. /\ new \in Seq(Pages!State) /\ Len(new) = n + 1 /\ new[n + 1] = v /\ \A i \in 1 .. n : new[i] = ps[i]
    BY <1>1, <1>2, <1>3, <1>4, Appended
<1>6. \A p \in 1 .. n : Grown(ps[p], new[p])
    BY <1>3, <1>4, <1>5, GrownSame
<1>7. Loaded(M, new, q, lo, f, R, st)
    <2>1. Len(ps) <= Len(new)
        BY <1>3, <1>4, <1>5
    <2> QED BY <1>3, <1>5, <1>6, <2>1, PageLoaded
<1>8. Tidy(new, FALSE)
    <2>1. \A p \in 1 .. Len(new) - 1 : p \in 1 .. n /\ new[p] = ps[p]
        BY <1>4, <1>5
    <2>2. v.tasks = v.longtasks + 0
        BY <1>2
    <2> QED BY <1>2, <1>3, <1>5, <2>1, <2>2 DEF Tidy
<1>9. Counted(v, M, C, n + 1)
    <2>1. \A e \in M : e.page # n + 1
        BY <1>3, <1>4 DEF Loaded, Carried
    <2>2. \A c \in C : c.page # n + 1
        BY <1>3, <1>4
    <2>3. /\ Made(M, "error", n + 1) = {} /\ Made(M, "api", n + 1) = {} /\ Failing(M, n + 1) = {}
          /\ Counting(C, "api", n + 1) = {} /\ Counting(C, "resource", n + 1) = {}
        BY <2>1, <2>2 DEF Made, Failing, Counting
    <2>4. Cardinality({}) = 0 /\ Viewing.limit \in Nat
        BY FS_EmptySet, ViewingFields
    <2>5. /\ v.apiCompleted + Cardinality({}) <= v.apiStarted
          /\ v.resourceCompleted + Cardinality({}) <= v.resourceStarted
          /\ v.apiStarted <= v.tried /\ v.apiStarted <= Viewing.limit /\ v.tried = v.apiStarted
        BY <1>2, <2>4
    <2>6. Cardinality({}) = v.errors /\ Cardinality({}) = v.apiCompleted /\ Cardinality({}) = v.failed
        BY <1>2, <2>4
    <2> QED BY <2>2, <2>3, <2>5, <2>6, Zenon DEF Counted
<1>10. Census(M, new, C, h)
    <2>1. \A p \in 1 .. Len(new) : p \in 1 .. n \/ p = n + 1
        BY <1>4, <1>5
    <2> QED BY <1>3, <1>5, <1>9, <2>1 DEF Census
<1>11. Len(new) > 0
    BY <1>4, <1>5
<1> QED BY <1>3, <1>5, <1>7, <1>8, <1>10, <1>11

\* What a page being hidden or closed, a route change and the end of a document do.
Reports(closed) ==
    /\ LET s == Pages!Settled(closed) IN
       /\ pages' = s.pages /\ lost' = s.lost /\ task' = s.task
       /\ Pages!FlushLifecycle(s.queue, s.lost)
    /\ visible' = FALSE
    /\ UNCHANGED <<calls, happened>>
Turns ==
    /\ LET s == Pages!Settled(TRUE) IN
       /\ pages' = Append(s.pages, Pages!Page)
       /\ queue' = Pages!Push(s.queue, Pages!Event("view", Pages!Current + 1, 0))
       /\ lost' = (s.lost \/ Pages!Drops(s.queue))
    /\ task' = FALSE /\ visible' = TRUE
    /\ UNCHANGED <<calls, flight, raw, strayed, happened>>
Ends ==
    /\ pages' = Append([pages EXCEPT ![Pages!Current].closed = TRUE], Pages!Page)
    /\ queue' = <<Pages!Event("view", Pages!Current + 1, 0)>> /\ lost' = FALSE
    /\ flight' = NoOne /\ calls' = {} /\ task' = FALSE /\ visible' = TRUE
    /\ UNCHANGED <<raw, strayed, happened>>

LEMMA ReportsKeep == ASSUME QualityInvariant, NEW closed \in BOOLEAN, Reports(closed) PROVE QualityInvariant'
<1>1. QualityTypes /\ Tidy(pages, task)
    BY DEF QualityInvariant
<1>2. PICK M : Census(M, pages, calls, happened) /\ Loaded(M, pages, queue, lost, flight, raw, strayed)
    BY DEF QualityInvariant
<1>3. PICK s : s = Pages!Settled(closed)
    OBVIOUS
<1>4. Well(M, s.pages, s.queue, s.lost, s.task)
    BY <1>1, <1>2, <1>3, SettledWell
<1>5. /\ pages' = s.pages /\ lost' = s.lost /\ task' = s.task /\ visible' = FALSE /\ UNCHANGED <<calls, happened>>
      /\ Pages!FlushLifecycle(s.queue, s.lost)
    BY <1>3 DEF Reports
<1>6. PICK q, lo : q = s.queue /\ lo = s.lost
    OBVIOUS
<1>7. /\ q \in Seq(Pages!Sendable) /\ Len(q) <= Viewing.size /\ lo \in BOOLEAN
      /\ Loaded(M, pages', q, lo, flight, raw, strayed)
    BY <1>4, <1>5, <1>6 DEF Well
<1>8. /\ queue' \in Seq(Pages!Sendable) /\ Len(queue') <= Viewing.size
      /\ flight' = NoOne \/ flight' \in Pages!Batches
      /\ Loaded(M, pages', queue', lo, flight', raw', strayed')
    <2>1. Pages!FlushLifecycle(q, lo)
        BY <1>5, <1>6
    <2>2. CASE flight # NoOne \/ q = <<>>
        <3>1. queue' = q /\ UNCHANGED <<flight, raw, strayed>>
            BY <2>1, <2>2 DEF Pages!FlushLifecycle
        <3> QED BY <1>1, <1>7, <3>1 DEF QualityTypes
    <2>3. CASE ~(flight # NoOne \/ q = <<>>)
        <3>1. queue' = <<>> /\ flight = NoOne
            BY <2>1, <2>3 DEF Pages!FlushLifecycle
        <3>2. <<>> \in Seq(Pages!Sendable) /\ Len(<<>>) <= Viewing.size
            BY ViewingFields
        <3>3. Loaded(M, pages', q, lo, NoOne, raw, strayed)
            BY <1>7, <3>1
        <3>4. \/ flight' = Pages!Batch(q, lo) /\ UNCHANGED <<raw, strayed>>
              \/ raw' = raw \cup Pages!Rows(Pages!Batch(q, lo)) /\ UNCHANGED <<flight, strayed>>
              \/ strayed' = strayed \cup {q[n].kind : n \in DOMAIN q} /\ UNCHANGED <<flight, raw>>
            BY <2>1, <2>3 DEF Pages!FlushLifecycle
        <3>5. CASE flight' = Pages!Batch(q, lo) /\ UNCHANGED <<raw, strayed>>
            <4>1. flight' \in Pages!Batches
                BY <1>7, <3>5, BatchIs
            <4>2. Loaded(M, pages', <<>>, lo, Pages!Batch(q, lo), raw, strayed)
                BY <1>7, <3>3, LoadedFlush
            <4> QED BY <3>1, <3>2, <3>5, <4>1, <4>2
        <3>6. CASE raw' = raw \cup Pages!Rows(Pages!Batch(q, lo)) /\ UNCHANGED <<flight, strayed>>
            <4>1. Loaded(M, pages', <<>>, lo, NoOne, raw \cup Pages!Rows(Pages!Batch(q, lo)), strayed)
                BY <1>7, <3>3, LoadedBeacon
            <4> QED BY <3>1, <3>2, <3>6, <4>1
        <3>7. CASE strayed' = strayed \cup {q[n].kind : n \in DOMAIN q} /\ UNCHANGED <<flight, raw>>
            <4>1. Loaded(M, pages', <<>>, lo, NoOne, raw, strayed \cup {q[n].kind : n \in DOMAIN q})
                BY <1>7, <3>3, LoadedBeacon, ZenonT(30)
            <4> QED BY <3>1, <3>2, <3>7, <4>1
        <3> QED BY <3>4, <3>5, <3>6, <3>7
    <2> QED BY <2>2, <2>3
<1>9. QualityTypes'
    BY <1>1, <1>4, <1>5, <1>7, <1>6, <1>8 DEF QualityTypes, Well
<1>10. Tidy(pages', task') /\ Census(M, pages', calls', happened')
    BY <1>4, <1>5 DEF Well
<1>11. Loaded(M, pages', queue', lost', flight', raw', strayed')
    BY <1>5, <1>6, <1>8
<1> QED BY <1>9, <1>10, <1>11 DEF QualityInvariant

LEMMA TurnsKeep == ASSUME QualityInvariant, Turns PROVE QualityInvariant'
<1>1. QualityTypes /\ Tidy(pages, task)
    BY DEF QualityInvariant
<1>2. PICK M : Census(M, pages, calls, happened) /\ Loaded(M, pages, queue, lost, flight, raw, strayed)
    BY DEF QualityInvariant
<1>3. PICK s : s = Pages!Settled(TRUE)
    OBVIOUS
<1>4. Well(M, s.pages, s.queue, s.lost, s.task) /\ s.pages[Len(pages)].closed
    BY <1>1, <1>2, <1>3, SettledWell
<1>5. PICK ps, q, lo : ps = s.pages /\ q = s.queue /\ lo = s.lost
    OBVIOUS
<1>6. PICK e : e = Pages!Event("view", Len(pages) + 1, 0)
    OBVIOUS
<1>7. /\ pages' = Append(ps, Pages!Page) /\ queue' = Pages!Push(q, e) /\ lost' = (lo \/ Pages!Drops(q))
      /\ task' = FALSE /\ visible' = TRUE /\ UNCHANGED <<calls, flight, raw, strayed, happened>>
    BY <1>3, <1>5, <1>6 DEF Turns, Pages!Current
<1>8. /\ ps \in Seq(Pages!State) /\ Len(ps) = Len(pages) /\ q \in Seq(Pages!Sendable)
      /\ Len(q) <= Viewing.size /\ lo \in BOOLEAN /\ Census(M, ps, calls, happened)
      /\ Loaded(M, ps, q, lo, flight, raw, strayed) /\ Len(pages) \in Nat /\ Len(pages) > 0
    BY <1>1, <1>4, <1>5 DEF Well, QualityTypes
<1>9. \A p \in 1 .. Len(ps) : ps[p].closed
    <2>1. ps[Len(ps)].closed /\ \A p \in 1 .. Len(ps) - 1 : ps[p].closed
        BY <1>4, <1>5, <1>8 DEF Well, Tidy
    <2>2. \A p \in 1 .. Len(ps) : p = Len(ps) \/ p \in 1 .. Len(ps) - 1
        BY <1>8
    <2> QED BY <2>1, <2>2
<1>10. \A c \in calls : c.page \in 1 .. Len(ps)
    BY <1>1, <1>8, QualityFields
<1>11. /\ pages' \in Seq(Pages!State) /\ Len(pages') = Len(ps) + 1 /\ Len(pages') > 0
       /\ Census(M, pages', calls, happened) /\ Tidy(pages', FALSE)
       /\ Loaded(M, pages', q, lo, flight, raw, strayed)
    BY <1>1, <1>7, <1>8, <1>9, <1>10, PageAdded
<1>12. e \in Pages!Sendable /\ e.kind = "view" /\ e.page = Len(pages) + 1 /\ e.kind \notin Watched
    <2>1. Len(pages) + 1 \in Nat
        BY <1>8
    <2> QED BY <1>6, <2>1 DEF Pages!Event, Pages!Sendable, Watched
<1>13. PICK known : known = (lo \/ Pages!Drops(q))
    OBVIOUS
<1>14. Fit(e, M, pages', Elements(q), known, Aboard(flight), raw, strayed)
    <2>1. e.page \in 1 .. Len(pages')
        BY <1>8, <1>11, <1>12
    <2> QED BY <1>12, <2>1 DEF Fit, Shut
<1>15. Loaded(M, pages', Pages!Push(q, e), known, flight, raw, strayed)
    <2>1. M = IF e.kind \in Watched THEN M \cup {e} ELSE M
        BY <1>12
    <2> QED BY <1>8, <1>11, <1>12, <1>13, <1>14, <2>1, LoadedPush
<1>16. queue' \in Seq(Pages!Sendable) /\ Len(queue') <= Viewing.size /\ known \in BOOLEAN
    <2>1. queue' \in Seq(Pages!Sendable) /\ Len(queue') <= Viewing.size
        BY <1>7, <1>8, <1>12, PushKeeps
    <2>2. known \in BOOLEAN
        BY <1>8, <1>13 DEF Pages!Drops
    <2> QED BY <2>1, <2>2
<1>17. lost' = known
    BY <1>7, <1>13
<1>18. QualityTypes'
    <2>1. \A c \in calls : c.page \in 1 .. Len(pages') /\ c.id \in 1 .. happened
        BY <1>1, <1>8, <1>10, <1>11, QualityFields
    <2> QED BY <1>1, <1>7, <1>11, <1>16, <1>17, <2>1 DEF QualityTypes
<1>19. Tidy(pages', task') /\ Census(M, pages', calls', happened')
    BY <1>7, <1>11
<1>20. Loaded(M, pages', queue', lost', flight', raw', strayed')
    BY <1>7, <1>15, <1>17
<1> QED BY <1>18, <1>19, <1>20 DEF QualityInvariant

LEMMA EndsKeep == ASSUME QualityInvariant, Ends PROVE QualityInvariant'
<1>1. QualityTypes /\ Tidy(pages, task)
    BY DEF QualityInvariant
<1>2. PICK M : Census(M, pages, calls, happened) /\ Loaded(M, pages, queue, lost, flight, raw, strayed)
    BY DEF QualityInvariant
<1>3. PICK p, v : p = Len(pages) /\ v = pages[p]
    OBVIOUS
<1>4. PICK w : w = [v EXCEPT !.closed = TRUE]
    OBVIOUS
<1>5. p \in Nat /\ p > 0 /\ p \in 1 .. Len(pages) /\ v \in Pages!State /\ happened \in Nat
    BY <1>1, <1>3, QualityFields DEF QualityTypes
<1>6. /\ w \in Pages!State /\ w.closed /\ w.sequence = v.sequence /\ w.longtasks = v.longtasks
      /\ w.apiCompleted = v.apiCompleted /\ w.apiStarted = v.apiStarted /\ w.resourceCompleted = v.resourceCompleted
      /\ w.resourceStarted = v.resourceStarted /\ w.resourceFailed = v.resourceFailed
      /\ w.suppressed = v.suppressed /\ w.tasks = v.tasks /\ w.tried = v.tried
      /\ w.failed = v.failed /\ w.errors = v.errors
    BY <1>4, <1>5 DEF Pages!State
<1>7. Grown(v, w)
    BY <1>5, <1>6, StateFields, SMTT(30) DEF Grown
<1>8. PICK ps : ps = [pages EXCEPT ![p] = w]
    OBVIOUS
<1>9. /\ Becomes(p, w, ps) /\ Loaded(M, ps, queue, lost, flight, raw, strayed)
    BY <1>1, <1>2, <1>3, <1>5, <1>6, <1>7, <1>8, PageGoes
<1>10. ps = [pages EXCEPT ![p].closed = TRUE]
    BY <1>1, <1>3, <1>4, <1>5, <1>8 DEF QualityTypes, Pages!State
<1>11. PICK e : e = Pages!Event("view", p + 1, 0)
    OBVIOUS
<1>12. /\ pages' = Append(ps, Pages!Page) /\ queue' = <<e>> /\ lost' = FALSE
       /\ flight' = NoOne /\ calls' = {} /\ task' = FALSE /\ visible' = TRUE
       /\ UNCHANGED <<raw, strayed, happened>>
    BY <1>3, <1>10, <1>11 DEF Ends, Pages!Current
<1>13. ps \in Seq(Pages!State) /\ Len(ps) = Len(pages) /\ ps[p] = w
       /\ \A q \in 1 .. Len(pages) : q # p => ps[q] = pages[q]
    BY <1>9 DEF Becomes
<1>14. \A q \in 1 .. Len(ps) : ps[q].closed
    <2>1. \A q \in 1 .. Len(ps) : q = p \/ q \in 1 .. Len(pages) - 1
        BY <1>3, <1>5, <1>13
    <2>2. \A q \in 1 .. Len(ps) : q # p => ps[q] = pages[q] /\ pages[q].closed
        BY <1>1, <1>13, <2>1 DEF Tidy
    <2> QED BY <1>6, <1>13, <2>2
<1>15. Census(M, ps, {}, happened)
    <2>1. Named(M, {}, happened)
        BY <1>2 DEF Census, Named
    <2>2. ASSUME NEW q \in 1 .. Len(ps) PROVE Counted(ps[q], M, {}, q)
        <3>1. PICK u : u = pages[q]
            OBVIOUS
        <3>2. Counted(u, M, calls, q) /\ u \in Pages!State
            BY <1>1, <1>2, <1>13, <3>1, QualityFields DEF Census
        <3>3. /\ ps[q].apiStarted = u.apiStarted /\ ps[q].apiCompleted = u.apiCompleted
              /\ ps[q].resourceStarted = u.resourceStarted /\ ps[q].resourceCompleted = u.resourceCompleted
              /\ ps[q].tried = u.tried /\ ps[q].failed = u.failed /\ ps[q].errors = u.errors
            BY <1>3, <1>6, <1>13, <3>1
        <3>4. Counting({}, "api", q) = {} /\ Counting({}, "resource", q) = {} /\ Cardinality({}) = 0
            BY FS_EmptySet DEF Counting
        <3>5. u.apiCompleted + 0 <= u.apiStarted /\ u.resourceCompleted + 0 <= u.resourceStarted
            <4>1. /\ Cardinality(Counting(calls, "api", q)) \in Nat
                  /\ Cardinality(Counting(calls, "resource", q)) \in Nat
                BY <1>1, FS_Subset, FS_CardinalityType DEF Counting, QualityTypes
            <4>2. /\ u.apiCompleted \in Nat /\ u.apiStarted \in Nat /\ u.resourceCompleted \in Nat
                  /\ u.resourceStarted \in Nat
                BY <3>2, StateFields
            <4> QED BY <3>2, <4>1, <4>2 DEF Counted
        <3> QED BY <3>2, <3>3, <3>4, <3>5 DEF Counted
    <2> QED BY <2>1, <2>2 DEF Census
<1>16. Loaded(M, ps, <<>>, FALSE, NoOne, raw, strayed)
    <2>1. \A m \in M : m.page \in 1 .. Len(ps)
        BY <1>9 DEF Loaded, Carried
    <2>2. \A m \in M : ps[m.page].closed
        BY <1>14, <2>1
    <2>3. Carried(M, ps, Elements(queue), lost, Aboard(flight), Knows(flight), raw, strayed)
        BY <1>9 DEF Loaded
    <2>4. Carried(M, ps, {}, FALSE, {}, FALSE, raw, strayed)
        BY <2>2, <2>3, CrashCarries
    <2> QED BY <2>4, Empty DEF Loaded
<1>17. /\ pages' \in Seq(Pages!State) /\ Len(pages') = Len(ps) + 1 /\ Len(pages') > 0
       /\ Census(M, pages', {}, happened) /\ Tidy(pages', FALSE)
       /\ Loaded(M, pages', <<>>, FALSE, NoOne, raw, strayed)
    <2>1. PICK C : C = {}
        OBVIOUS
    <2>2. PICK q : q = <<>>
        OBVIOUS
    <2>3. PICK new : new = Append(ps, Pages!Page)
        OBVIOUS
    <2>4. /\ \A c \in C : c.page \in 1 .. Len(ps)
          /\ Census(M, ps, C, happened) /\ Loaded(M, ps, q, FALSE, NoOne, raw, strayed)
        BY <1>15, <1>16, <2>1, <2>2
    <2>5. ps \in Seq(Pages!State) /\ Len(ps) > 0 /\ \A u \in 1 .. Len(ps) : ps[u].closed
        BY <1>3, <1>5, <1>13, <1>14
    <2>6. /\ new \in Seq(Pages!State) /\ Len(new) = Len(ps) + 1 /\ Len(new) > 0
          /\ Census(M, new, C, happened) /\ Tidy(new, FALSE)
          /\ Loaded(M, new, q, FALSE, NoOne, raw, strayed)
        BY <1>1, <1>13, <2>3, <2>4, <2>5, PageAdded
    <2> QED BY <1>12, <2>1, <2>2, <2>3, <2>6
<1>18. e \in Pages!Sendable /\ e.kind = "view" /\ e.page = p + 1 /\ e.kind \notin Watched
    BY <1>5, <1>11 DEF Pages!Event, Pages!Sendable, Watched
<1>19. Fit(e, M, pages', Elements(<<>>), FALSE, Aboard(NoOne), raw, strayed)
    <2>1. e.page \in 1 .. Len(pages')
        BY <1>3, <1>5, <1>13, <1>17, <1>18
    <2> QED BY <1>18, <2>1 DEF Fit, Shut
<1>20. /\ <<>> \in Seq(Pages!Sendable) /\ Len(<<>>) <= Viewing.size /\ Pages!Drops(<<>>) = FALSE
       /\ Pages!Push(<<>>, e) = <<e>> /\ <<e>> \in Seq(Pages!Sendable) /\ Len(<<e>>) <= Viewing.size
    BY <1>18, ViewingFields DEF Pages!Push, Pages!Drops
<1>21. Loaded(M, pages', <<e>>, FALSE, NoOne, raw, strayed)
    <2>1. M = IF e.kind \in Watched THEN M \cup {e} ELSE M
        BY <1>18
    <2>2. FALSE = (FALSE \/ Pages!Drops(<<>>))
        BY <1>20
    <2>3. Loaded(M, pages', Pages!Push(<<>>, e), FALSE, NoOne, raw, strayed)
        BY <1>17, <1>18, <1>19, <1>20, <2>1, <2>2, LoadedPush
    <2> QED BY <1>20, <2>3
<1>22. QualityTypes'
    <2>1. IsFiniteSet({}) /\ {} \subseteq Underway
        BY FS_EmptySet
    <2> QED BY <1>5, <1>12, <1>17, <1>20, <2>1 DEF QualityTypes
<1>23. Tidy(pages', task') /\ Census(M, pages', calls', happened')
    BY <1>12, <1>17
<1>24. Loaded(M, pages', queue', lost', flight', raw', strayed')
    BY <1>12, <1>21
<1> QED BY <1>22, <1>23, <1>24 DEF QualityInvariant

\* A page is shown again.
LEMMA ShowKeeps == ASSUME QualityInvariant, Pages!Show PROVE QualityInvariant'
<1>1. visible' = TRUE /\ UNCHANGED <<pages, calls, task, queue, lost, flight, raw, strayed, happened>>
    BY DEF Pages!Show
<1>2. QualityTypes' /\ Tidy(pages', task')
    BY <1>1 DEF QualityInvariant, QualityTypes
<1>3. PICK M : Census(M, pages, calls, happened) /\ Loaded(M, pages, queue, lost, flight, raw, strayed)
    BY DEF QualityInvariant
<1>4. Census(M, pages', calls', happened') /\ Loaded(M, pages', queue', lost', flight', raw', strayed')
    BY <1>1, <1>3
<1> QED BY <1>2, <1>4 DEF QualityInvariant

\* Only the transport moves.
LEMMA TransportKeeps ==
    ASSUME QualityInvariant, UNCHANGED <<pages, visible, calls, task, happened>>,
           queue' \in Seq(Pages!Sendable), Len(queue') <= Viewing.size, lost' \in BOOLEAN,
           flight' = NoOne \/ flight' \in Pages!Batches,
           \A M : Loaded(M, pages, queue, lost, flight, raw, strayed) =>
                Loaded(M, pages, queue', lost', flight', raw', strayed')
    PROVE  QualityInvariant'
<1>1. QualityTypes' /\ Tidy(pages', task')
    BY DEF QualityInvariant, QualityTypes
<1>2. PICK M : Census(M, pages, calls, happened) /\ Loaded(M, pages, queue, lost, flight, raw, strayed)
    BY DEF QualityInvariant
<1>3. Loaded(M, pages, queue', lost', flight', raw', strayed')
    BY <1>2
<1>4. Census(M, pages', calls', happened') /\ Loaded(M, pages', queue', lost', flight', raw', strayed')
    BY <1>2, <1>3
<1> QED BY <1>1, <1>4 DEF QualityInvariant

LEMMA NothingQueued == <<>> \in Seq(Pages!Sendable) /\ Len(<<>>) <= Viewing.size
    BY ViewingFields

LEMMA FlushKeeps == ASSUME QualityInvariant, Pages!Flush PROVE QualityInvariant'
<1>1. queue \in Seq(Pages!Sendable) /\ lost \in BOOLEAN
    BY DEF QualityInvariant, QualityTypes
<1>2. /\ flight = NoOne /\ flight' = Pages!Batch(queue, lost) /\ queue' = <<>>
      /\ UNCHANGED <<pages, visible, calls, task, lost, raw, strayed, happened>>
    BY DEF Pages!Flush
<1>3. flight' \in Pages!Batches
    BY <1>1, <1>2, BatchIs
<1>4. ASSUME NEW M, Loaded(M, pages, queue, lost, flight, raw, strayed)
      PROVE  Loaded(M, pages, queue', lost', flight', raw', strayed')
    <2>1. Loaded(M, pages, queue, lost, NoOne, raw, strayed)
        BY <1>2, <1>4
    <2>2. Loaded(M, pages, <<>>, lost, Pages!Batch(queue, lost), raw, strayed)
        BY <1>1, <2>1, LoadedFlush
    <2> QED BY <1>2, <2>2
<1> QED BY <1>1, <1>2, <1>3, <1>4, NothingQueued, TransportKeeps

LEMMA SentKeeps == ASSUME QualityInvariant, Pages!Sent PROVE QualityInvariant'
<1>1. queue \in Seq(Pages!Sendable) /\ lost \in BOOLEAN /\ (flight = NoOne \/ flight \in Pages!Batches)
    BY DEF QualityInvariant, QualityTypes
<1>2. /\ flight # NoOne /\ raw' = raw \cup Pages!Rows(flight) /\ queue' = <<>>
      /\ flight' = Following(queue, lost)
      /\ UNCHANGED <<pages, visible, calls, task, lost, strayed, happened>>
    BY DEF Pages!Sent, Pages!Again, Following
<1>3. ASSUME NEW M, Loaded(M, pages, queue, lost, flight, raw, strayed)
      PROVE  /\ Loaded(M, pages, queue', lost', flight', raw', strayed')
             /\ flight' = NoOne \/ flight' \in Pages!Batches
    <2>1. flight \in Pages!Batches
        BY <1>1, <1>2
    <2>2. PICK g : g = Following(queue, lost)
        OBVIOUS
    <2>3. Loaded(M, pages, <<>>, lost, g, raw \cup Pages!Rows(flight), strayed) /\ (g = NoOne \/ g \in Pages!Batches)
        BY <1>1, <1>3, <2>1, <2>2, LoadedSent
    <2> QED BY <1>2, <2>2, <2>3
<1>4. flight' = NoOne \/ flight' \in Pages!Batches
    BY <1>3 DEF QualityInvariant
<1> QED BY <1>1, <1>2, <1>3, <1>4, NothingQueued, TransportKeeps

LEMMA RefusedKeeps == ASSUME QualityInvariant, Pages!Refused PROVE QualityInvariant'
<1>1. queue \in Seq(Pages!Sendable) /\ lost \in BOOLEAN /\ (flight = NoOne \/ flight \in Pages!Batches)
    BY DEF QualityInvariant, QualityTypes
<1>2. /\ flight # NoOne /\ queue' = <<>> /\ lost' = TRUE
      /\ flight' = Following(queue, TRUE)
      /\ UNCHANGED <<pages, visible, calls, task, raw, strayed, happened>>
    BY DEF Pages!Refused, Pages!Again, Following
<1>3. ASSUME NEW M, Loaded(M, pages, queue, lost, flight, raw, strayed)
      PROVE  /\ Loaded(M, pages, queue', lost', flight', raw', strayed')
             /\ flight' = NoOne \/ flight' \in Pages!Batches
    <2>1. flight \in Pages!Batches
        BY <1>1, <1>2
    <2>2. PICK g : g = Following(queue, TRUE)
        OBVIOUS
    <2>3. Loaded(M, pages, <<>>, TRUE, g, raw, strayed) /\ (g = NoOne \/ g \in Pages!Batches)
        BY <1>1, <1>3, <2>1, <2>2, LoadedRefused
    <2> QED BY <1>2, <2>2, <2>3
<1>4. flight' = NoOne \/ flight' \in Pages!Batches
    BY <1>3 DEF QualityInvariant
<1> QED BY <1>1, <1>2, <1>3, <1>4, NothingQueued, TransportKeeps

LEMMA SmallerOf ==
    ASSUME NEW a \in Nat, NEW b \in Nat, NEW n, n = Pages!Min({a, b})
    PROVE  n \in Nat /\ n <= a /\ n <= b
<1>1. PICK k \in {a, b} : \A m \in {a, b} : k <= m
    OBVIOUS
<1>2. n \in {a, b} /\ \A m \in {a, b} : n <= m
    BY <1>1 DEF Pages!Min
<1> QED BY <1>2

LEMMA ExhaustedKeeps == ASSUME QualityInvariant, Pages!Exhausted PROVE QualityInvariant'
<1>1. queue \in Seq(Pages!Sendable) /\ lost \in BOOLEAN /\ (flight = NoOne \/ flight \in Pages!Batches)
    BY DEF QualityInvariant, QualityTypes
<1>2. PICK all : all = flight.order \o queue
    OBVIOUS
<1>3. PICK n : n = Pages!Min({Viewing.size, Len(all)})
    OBVIOUS
<1>4. /\ flight # NoOne /\ queue' = SubSeq(all, 1, n) /\ lost' = TRUE /\ flight' = NoOne
      /\ raw' = raw \/ raw' = raw \cup Pages!Rows(flight)
      /\ UNCHANGED <<pages, visible, calls, task, strayed, happened>>
    BY <1>2, <1>3 DEF Pages!Exhausted
<1>5. flight \in Pages!Batches
    BY <1>1, <1>4
<1>6. n \in Nat /\ n <= Viewing.size /\ n <= Len(all)
    <2>1. flight.order \in Seq(Pages!Sendable)
        BY <1>5 DEF Pages!Batches
    <2>2. Len(all) \in Nat
        BY <1>1, <1>2, <2>1
    <2> QED BY <1>3, <2>2, SmallerOf, ViewingFields
<1>7. ASSUME NEW M, Loaded(M, pages, queue, lost, flight, raw, strayed)
      PROVE  /\ Loaded(M, pages, queue', lost', flight', raw', strayed')
             /\ queue' \in Seq(Pages!Sendable) /\ Len(queue') = n
    <2>1. PICK back, N : back = SubSeq(flight.order \o queue, 1, n) /\ N = raw'
        OBVIOUS
    <2>2. Stay(N, raw, flight)
        BY <1>4, <2>1 DEF Stay
    <2>3. Back(back, flight, queue, n)
        BY <1>2, <1>6, <2>1 DEF Back
    <2>4. back \in Seq(Pages!Sendable) /\ Len(back) = n /\ Loaded(M, pages, back, TRUE, NoOne, N, strayed)
        BY <1>1, <1>5, <1>6, <1>7, <2>2, <2>3, LoadedExhausted
    <2> QED BY <1>2, <1>4, <2>1, <2>4
<1>8. queue' \in Seq(Pages!Sendable) /\ Len(queue') = n
    BY <1>7 DEF QualityInvariant
<1>9. Len(queue') <= Viewing.size
    BY <1>6, <1>8
<1>10. lost' \in BOOLEAN /\ (flight' = NoOne \/ flight' \in Pages!Batches)
    BY <1>4
<1> QED BY <1>4, <1>7, <1>8, <1>9, <1>10, TransportKeeps

\* The two instances move alike.
QualityStep ==
    \/ \E closed \in BOOLEAN : Reports(closed)
    \/ Turns \/ Ends
    \/ Pages!Show \/ Pages!StartApi \/ Pages!StartResource \/ Pages!CaptureException \/ Pages!Longtask
    \/ Pages!Observed
    \/ \E c \in calls, result \in {"success", "failure", "aborted", "invalid"} : Pages!EndApi(c, result)
    \/ \E c \in calls, fails \in BOOLEAN : Pages!EndResource(c, fails)
    \/ Pages!Flush \/ Pages!Sent \/ Pages!Refused \/ Pages!Exhausted

LEMMA PagesStep == Pages!Next => QualityStep
<1>1. ASSUME NEW closed \in BOOLEAN, Pages!Hide(closed) PROVE Reports(closed)
    BY <1>1 DEF Pages!Hide, Reports
<1>2. Pages!Enter => Turns
    BY DEF Pages!Enter, Turns
<1>3. Pages!Crash => Ends
    BY DEF Pages!Crash, Ends
<1> QED BY <1>1, <1>2, <1>3 DEF Pages!Next, QualityStep

LEMMA HidingsStep == Hidings!Next => QualityStep
<1> USE DEF Hidings!Current, Pages!Current
<1>1. ASSUME NEW closed \in BOOLEAN, Hidings!Hide(closed) PROVE Reports(closed)
    <2>1. Hidings!Settled(closed) = Pages!Settled(closed)
        BY DEF Hidings!Settled, Pages!Settled, Hidings!Settles, Pages!Settles, Hidings!Leave, Pages!Leave,
               Hidings!Left, Pages!Left, Hidings!Push, Pages!Push, Hidings!Drops, Pages!Drops
    <2>2. ASSUME NEW q, NEW lo, Hidings!FlushLifecycle(q, lo) PROVE Pages!FlushLifecycle(q, lo)
        BY <2>2 DEF Hidings!FlushLifecycle, Pages!FlushLifecycle, Hidings!Batch, Pages!Batch, Hidings!Rows, Pages!Rows,
                    Hidings!Fault, Pages!Fault
    <2> QED BY <1>1, <2>1, <2>2 DEF Hidings!Hide, Reports
<1>2. Hidings!Enter => Turns
    BY DEF Hidings!Enter, Turns, Hidings!Settled, Pages!Settled, Hidings!Settles, Pages!Settles,
           Hidings!Leave, Pages!Leave, Hidings!Left, Pages!Left, Hidings!Push, Pages!Push, Hidings!Drops, Pages!Drops,
           Hidings!Page, Pages!Page, Hidings!Event, Pages!Event
<1>3. Hidings!Crash => Ends
    BY DEF Hidings!Crash, Ends, Hidings!Page, Pages!Page, Hidings!Event, Pages!Event
<1>4. /\ Hidings!Show => Pages!Show
      /\ Hidings!StartApi => Pages!StartApi
      /\ Hidings!StartResource => Pages!StartResource
      /\ Hidings!Longtask => Pages!Longtask
      /\ Hidings!Observed => Pages!Observed
    BY DEF Hidings!Show, Pages!Show, Hidings!StartApi, Pages!StartApi, Hidings!StartResource, Pages!StartResource,
           Hidings!Longtask, Pages!Longtask, Hidings!Observed, Pages!Observed
<1>5. Hidings!CaptureException => Pages!CaptureException
    BY DEF Hidings!CaptureException, Pages!CaptureException, Hidings!Emit, Pages!Emit, Hidings!Push, Pages!Push,
           Hidings!Drops, Pages!Drops, Hidings!Event, Pages!Event
<1>6. ASSUME NEW c, NEW result, Hidings!EndApi(c, result) PROVE Pages!EndApi(c, result)
    BY <1>6 DEF Hidings!EndApi, Pages!EndApi, Hidings!Emit, Pages!Emit, Hidings!Push, Pages!Push,
                Hidings!Drops, Pages!Drops
<1>7. ASSUME NEW c, NEW fails, Hidings!EndResource(c, fails) PROVE Pages!EndResource(c, fails)
    BY <1>7 DEF Hidings!EndResource, Pages!EndResource, Hidings!Emit, Pages!Emit, Hidings!Push, Pages!Push,
                Hidings!Drops, Pages!Drops, Hidings!Event, Pages!Event
<1>8. /\ Hidings!Flush => Pages!Flush
      /\ Hidings!Sent => Pages!Sent
      /\ Hidings!Refused => Pages!Refused
    BY DEF Hidings!Flush, Pages!Flush, Hidings!Sent, Pages!Sent, Hidings!Refused, Pages!Refused,
           Hidings!Batch, Pages!Batch, Hidings!Rows, Pages!Rows, Hidings!Again, Pages!Again, Hidings!Fault, Pages!Fault
<1>9. Hidings!Exhausted => Pages!Exhausted
    BY DEF Hidings!Exhausted, Pages!Exhausted, Hidings!Rows, Pages!Rows, Hidings!Fault, Pages!Fault,
           Hidings!Min, Pages!Min
<1> QED BY <1>1, <1>2, <1>3, <1>4, <1>5, <1>6, <1>7, <1>8, <1>9 DEF Hidings!Next, QualityStep

LEMMA QualityKept == ASSUME QualityInvariant, QualityStep PROVE QualityInvariant'
    BY ReportsKeep, TurnsKeep, EndsKeep, ShowKeeps, StartsApi, StartsResource, Throws, TakesLong, Observes, EndsApi,
       EndsResource, FlushKeeps, SentKeeps, RefusedKeeps, ExhaustedKeeps DEF QualityStep

LEMMA QualityBegins == Pages!Init => QualityInvariant
<1> SUFFICES ASSUME Pages!Init PROVE QualityInvariant
    OBVIOUS
<1>1. PICK v, e : v = Pages!Page /\ e = Pages!Event("view", 1, 0)
    OBVIOUS
<1>2. /\ pages = <<v>> /\ visible = TRUE /\ calls = {} /\ task = FALSE /\ queue = <<e>> /\ lost = FALSE
      /\ flight = NoOne /\ raw = {} /\ strayed = {} /\ happened = 0
    BY <1>1 DEF Pages!Init
<1>3. /\ v \in Pages!State /\ v.apiStarted = 0 /\ v.apiCompleted = 0 /\ v.resourceStarted = 0
      /\ v.resourceCompleted = 0 /\ v.tried = 0 /\ v.failed = 0 /\ v.errors = 0
      /\ v.tasks = 0 /\ v.longtasks = 0 /\ v.closed = FALSE
    BY <1>1 DEF Pages!Page, Pages!State
<1>4. e \in Pages!Sendable /\ e.kind = "view" /\ e.page = 1
    BY <1>1 DEF Pages!Event, Pages!Sendable
<1>5. pages \in Seq(Pages!State) /\ Len(pages) = 1 /\ pages[1] = v
    BY <1>2, <1>3
<1>6. QualityTypes
    <2>1. queue \in Seq(Pages!Sendable) /\ Len(queue) <= Viewing.size
        BY <1>2, <1>4, ViewingFields
    <2>2. IsFiniteSet({}) /\ {} \subseteq Underway
        BY FS_EmptySet
    <2>3. /\ pages \in Seq(Pages!State) /\ Len(pages) > 0 /\ visible \in BOOLEAN /\ task \in BOOLEAN
          /\ lost \in BOOLEAN /\ happened \in Nat
        <3>1. visible \in BOOLEAN
            BY <1>2
        <3>2. task \in BOOLEAN
            BY <1>2
        <3>3. lost \in BOOLEAN
            BY <1>2
        <3>4. happened \in Nat /\ Len(pages) > 0
            BY <1>2, <1>5
        <3> QED BY <1>5, <3>1, <3>2, <3>3, <3>4
    <2>4. \A c \in calls : c.page \in 1 .. Len(pages) /\ c.id \in 1 .. happened
        BY <1>2
    <2>5. calls \subseteq Underway /\ IsFiniteSet(calls) /\ (flight = NoOne \/ flight \in Pages!Batches)
        BY <1>2, <2>2
    <2> QED BY <2>1, <2>3, <2>4, <2>5 DEF QualityTypes
<1>7. Tidy(pages, task)
    <2>1. 1 .. Len(pages) - 1 = {} /\ 0 = 0 + 0
        BY <1>5
    <2> QED BY <1>2, <1>3, <1>5, <2>1 DEF Tidy
<1>8. Census({}, pages, calls, happened)
    <2>1. /\ Made({}, "error", 1) = {} /\ Made({}, "api", 1) = {} /\ Failing({}, 1) = {}
          /\ Counting({}, "api", 1) = {} /\ Counting({}, "resource", 1) = {}
        BY DEF Made, Failing, Counting
    <2>2. Cardinality({}) = 0 /\ Viewing.limit \in Nat /\ IsFiniteSet({})
        BY FS_EmptySet, ViewingFields
    <2>3. /\ v.apiCompleted + Cardinality({}) <= v.apiStarted
          /\ v.resourceCompleted + Cardinality({}) <= v.resourceStarted
          /\ v.apiStarted <= v.tried /\ v.apiStarted <= Viewing.limit /\ v.tried = v.apiStarted
          /\ Cardinality({}) = v.errors /\ Cardinality({}) = v.apiCompleted /\ Cardinality({}) = v.failed
        BY <1>3, <2>2
    <2>4. \A c \in {} : c.kind = "api" /\ c.page = 1 => c.counted
        OBVIOUS
    <2>5. Counted(v, {}, {}, 1)
        BY <2>1, <2>3, <2>4, Zenon DEF Counted
    <2>6. Named({}, {}, 0)
        BY <2>2 DEF Named
    <2>7. \A p \in 1 .. Len(pages) : p = 1
        BY <1>5
    <2> QED BY <1>2, <1>5, <2>5, <2>6, <2>7 DEF Census
<1>9. Loaded({}, pages, queue, lost, flight, raw, strayed)
    <2>1. Elements(queue) = {e}
        BY <1>2 DEF Elements
    <2>2. \A x \in Somewhere({e}, {}, {}) : x = e
        BY DEF Somewhere
    <2>3. Carried({}, pages, {e}, FALSE, {}, FALSE, {}, {})
        <3>1. Known({}, pages, {e}, {}, {})
            BY <1>4, <1>5, <2>2 DEF Known, Watched, Shut
        <3>2. Honest({e}, FALSE, {}, FALSE, {})
            BY <1>4, <2>2 DEF Honest
        <3>3. Ordered({}, pages, {e}, {}, {}) /\ Missed({}, pages, {e}, FALSE, {}, FALSE, {}, {})
            BY DEF Ordered, Missed
        <3> QED BY <3>1, <3>2, <3>3 DEF Carried
    <2> QED BY <1>2, <2>1, <2>3, Empty DEF Loaded
<1> QED BY <1>6, <1>7, <1>8, <1>9 DEF QualityInvariant

-----------------------------------------------------------------------------
\* Quality: what the answers count.

\* The module counts and adds as this one does.
LEMMA CountedAlike == ASSUME NEW S PROVE Pages!Cardinality(S) = Cardinality(S)
    BY DEF Pages!Cardinality, Cardinality

Said(f) == [p \in DOMAIN Pages!Settlements |-> Pages!Settlements[p].state[f]]
SaidSum(f) == SumOf(DOMAIN Pages!Settlements, Said(f))
TrueSum(f) == SumOf(Pages!Views, [p \in Pages!Views |-> pages[p][f]])
LEMMA SumsSaid ==
    /\ Pages!ApiStarted = SaidSum("apiStarted") /\ Pages!ApiCompleted = SaidSum("apiCompleted")
    /\ Pages!ResourceStarted = SaidSum("resourceStarted")
    /\ Pages!ResourceCompleted = SaidSum("resourceCompleted")
    /\ Pages!ResourceFailed = SaidSum("resourceFailed") /\ Pages!Longtasks = SaidSum("longtasks")
<1>1. Pages!ApiStarted = SaidSum("apiStarted")
    BY PagesSum DEF Pages!ApiStarted, Pages!Sum, SaidSum, Said
<1>2. Pages!ApiCompleted = SaidSum("apiCompleted")
    BY PagesSum DEF Pages!ApiCompleted, Pages!Sum, SaidSum, Said
<1>3. Pages!ResourceStarted = SaidSum("resourceStarted")
    BY PagesSum DEF Pages!ResourceStarted, Pages!Sum, SaidSum, Said
<1>4. Pages!ResourceCompleted = SaidSum("resourceCompleted")
    BY PagesSum DEF Pages!ResourceCompleted, Pages!Sum, SaidSum, Said
<1>5. Pages!ResourceFailed = SaidSum("resourceFailed")
    BY PagesSum DEF Pages!ResourceFailed, Pages!Sum, SaidSum, Said
<1>6. Pages!Longtasks = SaidSum("longtasks")
    BY PagesSum DEF Pages!Longtasks, Pages!Sum, SaidSum, Said
<1> QED BY <1>1, <1>2, <1>3, <1>4, <1>5, <1>6
LEMMA SumsTrue ==
    /\ (LET f(s) == s.tried IN Pages!Total(f)) = TrueSum("tried")
    /\ (LET f(s) == s.failed IN Pages!Total(f)) = TrueSum("failed")
    /\ (LET f(s) == s.errors IN Pages!Total(f)) = TrueSum("errors")
    /\ (LET f(s) == s.tasks IN Pages!Total(f)) = TrueSum("tasks")
<1>1. (LET f(s) == s.tried IN Pages!Total(f)) = TrueSum("tried")
    BY PagesSum DEF Pages!Total, TrueSum
<1>2. (LET f(s) == s.failed IN Pages!Total(f)) = TrueSum("failed")
    BY PagesSum DEF Pages!Total, TrueSum
<1>3. (LET f(s) == s.errors IN Pages!Total(f)) = TrueSum("errors")
    BY PagesSum DEF Pages!Total, TrueSum
<1>4. (LET f(s) == s.tasks IN Pages!Total(f)) = TrueSum("tasks")
    BY PagesSum DEF Pages!Total, TrueSum
<1> QED BY <1>1, <1>2, <1>3, <1>4

\* What is stored was sent by a page, and is what the events of the pages say.
Backed(M) == Census(M, pages, calls, happened) /\ Loaded(M, pages, queue, lost, flight, raw, strayed)
Kept(e) == \E r \in raw : r.event = e
LEMMA EventsAre ==
    ASSUME QualityTypes, NEW M, Backed(M), NEW e \in Pages!Events
    PROVE  /\ Kept(e) /\ e \in Somewhere(Elements(queue), Aboard(flight), raw)
           /\ e \in Pages!Sendable /\ e.page \in 1 .. Len(pages) /\ (e.kind \in Watched => e \in M)
           /\ e.kind = "leave" => e.id <= pages[e.page].sequence
           /\ Shut(e) => Closes(e, pages[e.page])
<1>1. Kept(e) /\ e \in Somewhere(Elements(queue), Aboard(flight), raw)
    BY DEF Pages!Events, Kept, Somewhere
<1>2. Known(M, pages, Elements(queue), Aboard(flight), raw)
    BY DEF Backed, Loaded, Carried
<1> QED BY <1>1, <1>2 DEF Known

LEMMA ViewsAre ==
    ASSUME QualityTypes, NEW M, Backed(M)
    PROVE  /\ IsFiniteSet(Pages!Views) /\ \A p \in Pages!Views : p \in 1 .. Len(pages) /\ pages[p] \in Pages!State
           /\ IsFiniteSet(M) /\ \A m \in M : m.page \in 1 .. Len(pages) /\ m.kind \in Watched
<1>1. \A p \in Pages!Views : p \in 1 .. Len(pages)
    BY EventsAre DEF Pages!Views, Pages!OfKind
<1>2. IsFiniteSet(1 .. Len(pages))
    BY FS_Interval DEF QualityTypes
<1>3. IsFiniteSet(Pages!Views)
    <2>1. Pages!Views \in SUBSET (1 .. Len(pages))
        BY <1>1
    <2> QED BY <1>2, <2>1, FS_Subset
<1>4. IsFiniteSet(M) /\ \A m \in M : m.page \in 1 .. Len(pages) /\ m.kind \in Watched
    BY DEF Backed, Census, Named, Loaded, Carried
<1> QED BY <1>1, <1>3, <1>4, QualityFields

\* The last page_leave of a page is one of them.
LEMMA LastLeave ==
    ASSUME QualityTypes, NEW M, Backed(M), NEW p, Pages!Leaves(p) # {}
    PROVE  Pages!Terminal(p) \in Pages!Leaves(p)
<1>1. PICK l : l \in Pages!Leaves(p)
    OBVIOUS
<1>2. \A e \in Pages!Leaves(p) : e \in Pages!Events /\ e.kind = "leave" /\ e.page = p
    BY DEF Pages!Leaves, Pages!OfKind
<1>3. PICK n : n = pages[p].sequence
    OBVIOUS
<1>4. n \in Nat
    BY <1>1, <1>2, <1>3, EventsAre, QualityFields, StateFields
<1>5. \A e \in Pages!Leaves(p) : e.id \in Nat /\ e.id <= n
    BY <1>2, <1>3, EventsAre, SendableFields
<1>6. PICK D : D = {n - e.id : e \in Pages!Leaves(p)}
    OBVIOUS
<1>7. D \in SUBSET Nat /\ D # {}
    BY <1>1, <1>4, <1>5, <1>6
<1>8. PICK d \in D : \A k \in D : d <= k
    BY <1>7, LeastOf
<1>9. PICK e \in Pages!Leaves(p) : d = n - e.id
    BY <1>6, <1>8
<1>10. ASSUME NEW f \in Pages!Leaves(p) PROVE f.id <= e.id
    <2>1. n - f.id \in D
        BY <1>6
    <2>2. n - e.id <= n - f.id
        BY <1>8, <1>9, <2>1
    <2> QED BY <1>4, <1>5, <2>2
<1> QED BY <1>10 DEF Pages!Terminal

\* The page was left, its last page_leave says what it counted, and no event is missing but of
\* calls that end later and of those a beacon lost.
Settles(M, l, v, p) ==
    /\ l \in Pages!Events /\ l \in Pages!Sendable /\ l.kind = "leave" /\ l.page = p /\ l.state \in Pages!State
    /\ Closes(l, v) /\ v \in Pages!State
    /\ \A m \in M : m.page = p => Kept(m) \/ m.kind \in strayed \/ Later(m, l, v)
LEMMA SettledPage ==
    ASSUME QualityTypes, NEW M, Backed(M), \A r \in raw : ~r.losses,
           NEW p, NEW l \in Pages!Leaves(p), l.closed
    PROVE  Settles(M, l, pages[p], p)
<1>1. l \in Pages!Events /\ l.kind = "leave" /\ l.page = p /\ Shut(l)
    BY DEF Pages!Leaves, Pages!OfKind, Shut
<1>2. /\ Kept(l) /\ l \in Somewhere(Elements(queue), Aboard(flight), raw)
      /\ l \in Pages!Sendable /\ p \in 1 .. Len(pages) /\ Closes(l, pages[p])
    BY <1>1, EventsAre
<1>3. l.state \in Pages!State /\ pages[p] \in Pages!State
    BY <1>1, <1>2, SendableFields, QualityFields
<1>4. PICK Q, F : Q = Elements(queue) /\ F = Aboard(flight)
    OBVIOUS
<1>5. Ordered(M, pages, Q, F, raw) /\ Missed(M, pages, Q, lost, F, Knows(flight), raw, strayed)
    BY <1>4 DEF Backed, Loaded, Carried
<1>6. ~Warned(l, Q, lost, F, Knows(flight), raw)
    BY <1>2 DEF Warned, Kept
<1>7. ASSUME NEW m \in M, m.page = p PROVE Kept(m) \/ m.kind \in strayed \/ Later(m, l, pages[p])
    <2>1. m \in Somewhere(Q, F, raw) \/ m.kind \in strayed \/ Later(m, l, pages[p])
        BY <1>1, <1>2, <1>4, <1>5, <1>6, <1>7 DEF Missed
    <2>2. m \in Q \cup F => Kept(m) \/ Later(m, l, pages[p])
        BY <1>1, <1>2, <1>4, <1>5, <1>7 DEF Ordered, Kept
    <2> QED BY <2>1, <2>2 DEF Somewhere, Kept
<1> QED BY <1>1, <1>2, <1>3, <1>7 DEF Settles

LEMMA Answered ==
    ASSUME QualityTypes, NEW M, Backed(M), Pages!Answers
    PROVE  /\ DOMAIN Pages!Settlements = Pages!Views
           /\ \A p \in Pages!Views : Settles(M, Pages!Settlements[p], pages[p], p)
<1>1. DOMAIN Pages!Settlements = Pages!Views
    <2>1. \A p \in Pages!Views : p \in DOMAIN Pages!Settlements
        BY DEF Pages!Answers, Pages!BadTerminal
    <2>2. DOMAIN Pages!Settlements = {q \in Pages!Views : Pages!Leaves(q) # {}}
        BY DEF Pages!Settlements
    <2> QED BY <2>1, <2>2
<1>2. ASSUME NEW p \in Pages!Views PROVE Settles(M, Pages!Settlements[p], pages[p], p)
    <2>1. PICK l : l = Pages!Terminal(p)
        OBVIOUS
    <2>2. Pages!Settlements[p] = l /\ Pages!Leaves(p) # {}
        BY <1>1, <2>1 DEF Pages!Settlements
    <2>3. l \in Pages!Leaves(p)
        BY <2>1, <2>2, LastLeave
    <2>4. l.closed /\ \A r \in raw : ~r.losses
        BY <2>2 DEF Pages!Answers, Pages!BadTerminal
    <2> QED BY <2>2, <2>3, <2>4, SettledPage
<1> QED BY <1>1, <1>2

\* What the page counted, and what its last page_leave says of it.
LEMMA SettledCounts ==
    ASSUME QualityTypes, NEW M, Backed(M), NEW p \in Pages!Views, NEW l, NEW v, v = pages[p], Settles(M, l, v, p),
           NEW s, s = l.state
    PROVE  /\ s.apiStarted \in Nat /\ s.apiCompleted \in Nat /\ s.resourceStarted \in Nat
           /\ s.resourceCompleted \in Nat /\ s.resourceFailed \in Nat /\ s.longtasks \in Nat /\ s.suppressed \in Nat
           /\ v.apiStarted \in Nat /\ v.apiCompleted \in Nat /\ v.resourceStarted \in Nat
           /\ v.resourceCompleted \in Nat /\ v.tried \in Nat /\ v.suppressed \in Nat
           /\ s.apiStarted = v.apiStarted /\ s.apiCompleted <= v.apiCompleted /\ s.apiCompleted <= s.apiStarted
           /\ s.resourceStarted = v.resourceStarted /\ s.resourceCompleted <= v.resourceCompleted
           /\ s.resourceCompleted <= s.resourceStarted
           /\ s.resourceCompleted = v.resourceCompleted => s.resourceFailed = v.resourceFailed
           /\ s.longtasks = v.tasks /\ s.suppressed <= v.suppressed
           /\ v.apiCompleted <= v.apiStarted /\ v.resourceCompleted <= v.resourceStarted
           /\ v.apiStarted <= v.tried /\ v.apiStarted <= Viewing.limit
           /\ v.apiStarted < Viewing.limit => v.tried = v.apiStarted
           /\ Cardinality(Made(M, "error", p)) = v.errors /\ Cardinality(Made(M, "api", p)) = v.apiCompleted
           /\ v.tried = v.apiStarted => Cardinality(Failing(M, p)) = v.failed
<1>1. s \in Pages!State /\ v \in Pages!State /\ Closes(l, v)
    BY DEF Settles
<1>2. /\ s.apiStarted \in Nat /\ s.apiCompleted \in Nat /\ s.resourceStarted \in Nat
      /\ s.resourceCompleted \in Nat /\ s.resourceFailed \in Nat /\ s.longtasks \in Nat /\ s.suppressed \in Nat
      /\ v.apiStarted \in Nat /\ v.apiCompleted \in Nat /\ v.resourceStarted \in Nat
      /\ v.resourceCompleted \in Nat /\ v.tried \in Nat /\ v.suppressed \in Nat
    BY <1>1, StateFields
<1>3. Counted(v, M, calls, p)
    BY ViewsAre DEF Backed, Census
<1>4. /\ Cardinality(Counting(calls, "api", p)) \in Nat
      /\ Cardinality(Counting(calls, "resource", p)) \in Nat
    BY FS_Subset, FS_CardinalityType DEF Counting, QualityTypes
<1>5. v.apiCompleted <= v.apiStarted /\ v.resourceCompleted <= v.resourceStarted
    BY <1>2, <1>3, <1>4 DEF Counted
<1>6. /\ s.apiStarted = v.apiStarted /\ s.apiCompleted <= v.apiCompleted /\ s.apiCompleted <= s.apiStarted
      /\ s.resourceStarted = v.resourceStarted /\ s.resourceCompleted <= v.resourceCompleted
      /\ s.resourceCompleted <= s.resourceStarted
      /\ s.resourceCompleted = v.resourceCompleted => s.resourceFailed = v.resourceFailed
      /\ s.longtasks = v.tasks /\ s.suppressed <= v.suppressed
    BY <1>1 DEF Closes
<1> QED BY <1>2, <1>3, <1>5, <1>6 DEF Counted

\* The long tasks that are said are those there were.
LEMMA TasksCounted ==
    ASSUME QualityTypes, NEW M, Backed(M), Pages!Answers PROVE SaidSum("longtasks") = TrueSum("tasks")
<1>1. Said("longtasks") = [p \in Pages!Views |-> pages[p]["tasks"]]
    BY Answered, SettledCounts DEF Said
<1>2. DOMAIN Pages!Settlements = Pages!Views
    BY Answered
<1> QED BY <1>1, <1>2 DEF SaidSum, TrueSum

\* All errors are stored.
LEMMA ErrorsCounted ==
    ASSUME QualityTypes, NEW M, Backed(M), Pages!Answers, "error" \notin strayed
    PROVE  Cardinality(Pages!Of("error")) = TrueSum("errors")
<1>1. PICK S : S = Pages!Views
    OBVIOUS
<1>2. PICK E : E = {e \in M : e.kind = "error"}
    OBVIOUS
<1>3. IsFiniteSet(S) /\ IsFiniteSet(E)
    BY <1>1, <1>2, ViewsAre, FS_Subset
<1>4. PICK F : F = [p \in S |-> pages[p]["errors"]]
    OBVIOUS
<1>5. F = [p \in S |-> Cardinality({e \in E : e.page = p})]
    <2>1. \A p \in S : {e \in E : e.page = p} = Made(M, "error", p)
        BY <1>2 DEF Made
    <2>2. \A p \in S : Cardinality(Made(M, "error", p)) = pages[p]["errors"]
        BY <1>1, Answered, SettledCounts
    <2> QED BY <1>4, <2>1, <2>2
<1>6. {e \in E : e.page \in S} = Pages!Of("error")
    <2>1. ASSUME NEW e \in Pages!Of("error") PROVE e \in E /\ e.page \in S
        BY <1>1, <1>2, EventsAre DEF Pages!Of, Pages!OfKind, Watched
    <2>2. ASSUME NEW e \in E, e.page \in S PROVE e \in Pages!Of("error")
        <3>1. PICK l, v : l = Pages!Settlements[e.page] /\ v = pages[e.page]
            OBVIOUS
        <3>2. Settles(M, l, v, e.page)
            BY <1>1, <2>2, <3>1, Answered
        <3>3. Kept(e)
            BY <1>2, <3>2 DEF Settles, Later
        <3> QED BY <1>1, <1>2, <2>2, <3>3 DEF Pages!Of, Pages!OfKind, Pages!Events, Kept
    <2> QED BY <2>1, <2>2
<1>7. SumOf(S, F) = Cardinality({e \in E : e.page \in S})
    BY <1>3, <1>5, SumsCount
<1> QED BY <1>1, <1>4, <1>6, <1>7 DEF TrueSum

\* When as many calls ended as began, so it is on each page.
LEMMA SaysAll ==
    ASSUME QualityTypes, NEW M, Backed(M), Pages!Answers
    PROVE  /\ SaidSum("apiStarted") = SaidSum("apiCompleted") =>
                \A p \in Pages!Views : Pages!Settlements[p].state.apiStarted = Pages!Settlements[p].state.apiCompleted
           /\ SaidSum("resourceStarted") = SaidSum("resourceCompleted") =>
                \A p \in Pages!Views :
                    Pages!Settlements[p].state.resourceStarted = Pages!Settlements[p].state.resourceCompleted
<1>1. PICK S : S = Pages!Views
    OBVIOUS
<1>2. IsFiniteSet(S) /\ DOMAIN Pages!Settlements = S
    BY <1>1, Answered, ViewsAre
<1>3. PICK L : L = Pages!Settlements
    OBVIOUS
<1>4. \A p \in S : /\ L[p].state.apiStarted \in Nat /\ L[p].state.apiCompleted \in Nat
                   /\ L[p].state.resourceStarted \in Nat /\ L[p].state.resourceCompleted \in Nat
                   /\ L[p].state.apiCompleted <= L[p].state.apiStarted
                   /\ L[p].state.resourceCompleted <= L[p].state.resourceStarted
    BY <1>1, <1>3, Answered, SettledCounts
<1>5. ASSUME SaidSum("apiStarted") = SaidSum("apiCompleted"), NEW p \in S
      PROVE  L[p].state.apiStarted = L[p].state.apiCompleted
    <2>1. PICK F, G : F = Said("apiCompleted") /\ G = Said("apiStarted")
        OBVIOUS
    <2>2. /\ F \in [S -> Nat] /\ G \in [S -> Nat]
          /\ \A q \in S : F[q] = L[q].state.apiCompleted /\ G[q] = L[q].state.apiStarted
        BY <1>2, <1>3, <1>4, <2>1 DEF Said
    <2>3. \A q \in S : F[q] <= G[q]
        BY <1>4, <2>2
    <2>4. SumOf(S, F) = SumOf(S, G)
        BY <1>2, <1>5, <2>1 DEF SaidSum
    <2>5. \A q \in S : F[q] = G[q]
        BY <1>2, <2>2, <2>3, <2>4, SumsCompare
    <2> QED BY <2>2, <2>5
<1>6. ASSUME SaidSum("resourceStarted") = SaidSum("resourceCompleted"), NEW p \in S
      PROVE  L[p].state.resourceStarted = L[p].state.resourceCompleted
    <2>1. PICK F, G : F = Said("resourceCompleted") /\ G = Said("resourceStarted")
        OBVIOUS
    <2>2. /\ F \in [S -> Nat] /\ G \in [S -> Nat]
          /\ \A q \in S : F[q] = L[q].state.resourceCompleted /\ G[q] = L[q].state.resourceStarted
        BY <1>2, <1>3, <1>4, <2>1 DEF Said
    <2>3. \A q \in S : F[q] <= G[q]
        BY <1>4, <2>2
    <2>4. SumOf(S, F) = SumOf(S, G)
        BY <1>2, <1>6, <2>1 DEF SaidSum
    <2>5. \A q \in S : F[q] = G[q]
        BY <1>2, <2>2, <2>3, <2>4, SumsCompare
    <2> QED BY <2>2, <2>5
<1> QED BY <1>1, <1>3, <1>5, <1>6

\* The failures of resources are those there were.
LEMMA ResourcesCounted ==
    ASSUME QualityTypes, NEW M, Backed(M), Pages!Answers, SaidSum("resourceStarted") = SaidSum("resourceCompleted"),
           NEW p \in Pages!Views
    PROVE  Pages!Settlements[p].state.resourceFailed = pages[p].resourceFailed
<1>1. PICK l, v : l = Pages!Settlements[p] /\ v = pages[p]
    OBVIOUS
<1>2. PICK s : s = l.state
    OBVIOUS
<1>3. Settles(M, l, v, p) /\ s.resourceStarted = s.resourceCompleted
    BY <1>1, <1>2, Answered, SaysAll
<1>4. /\ s.resourceStarted = v.resourceStarted /\ s.resourceCompleted <= v.resourceCompleted
      /\ v.resourceCompleted <= v.resourceStarted
      /\ s.resourceCompleted = v.resourceCompleted => s.resourceFailed = v.resourceFailed
      /\ s.resourceCompleted \in Nat /\ v.resourceCompleted \in Nat
    BY <1>1, <1>2, <1>3, SettledCounts
<1>5. s.resourceCompleted = v.resourceCompleted
    BY <1>3, <1>4
<1> QED BY <1>1, <1>2, <1>4, <1>5

\* The events of the calls of some pages: as many as these pages counted.
Calling(M, S) == {e \in M : e.kind = "api" /\ e.page \in S}
LEMMA CallsAre ==
    ASSUME QualityTypes, NEW M, Backed(M), NEW S, S = Pages!Views
    PROVE  /\ IsFiniteSet(Calling(M, S)) /\ Pages!Of("api") \in SUBSET Calling(M, S)
           /\ SumOf(S, [p \in S |-> Cardinality(Made(M, "api", p))]) = Cardinality(Calling(M, S))
           /\ SumOf(S, [p \in S |-> Cardinality(Failing(M, p))]) = Cardinality({e \in Calling(M, S) : e.failed})
<1>1. PICK E, W : E = {e \in M : e.kind = "api"} /\ W = {e \in M : e.kind = "api" /\ e.failed}
    OBVIOUS
<1>2. IsFiniteSet(S) /\ IsFiniteSet(M)
    BY ViewsAre
<1>3. IsFiniteSet(E) /\ IsFiniteSet(W) /\ IsFiniteSet(Calling(M, S))
    BY <1>1, <1>2, FS_Subset DEF Calling
<1>4. \A e \in Pages!Of("api") : e \in Calling(M, S)
    BY EventsAre DEF Pages!Of, Pages!OfKind, Watched, Calling
<1>5. PICK F : F = [p \in S |-> Cardinality(Made(M, "api", p))]
    OBVIOUS
<1>6. F = [p \in S |-> Cardinality({e \in E : e.page = p})]
    <2>1. \A p \in S : {e \in E : e.page = p} = Made(M, "api", p)
        BY <1>1 DEF Made
    <2> QED BY <1>5, <2>1
<1>7. SumOf(S, F) = Cardinality({e \in E : e.page \in S})
    BY <1>2, <1>3, <1>6, SumsCount
<1>8. {e \in E : e.page \in S} = Calling(M, S)
    BY <1>1 DEF Calling
<1>9. PICK G : G = [p \in S |-> Cardinality(Failing(M, p))]
    OBVIOUS
<1>10. G = [p \in S |-> Cardinality({e \in W : e.page = p})]
    <2>1. \A p \in S : {e \in W : e.page = p} = Failing(M, p)
        BY <1>1 DEF Failing
    <2> QED BY <1>9, <2>1
<1>11. SumOf(S, G) = Cardinality({e \in W : e.page \in S})
    BY <1>2, <1>3, <1>10, SumsCount
<1>12. {e \in W : e.page \in S} = {e \in Calling(M, S) : e.failed}
    BY <1>1 DEF Calling
<1> QED BY <1>3, <1>4, <1>5, <1>7, <1>8, <1>9, <1>11, <1>12

\* When all calls that began have ended and their events are there, they are all calls there were.
LEMMA CallsCounted ==
    ASSUME QualityTypes, NEW M, Backed(M), Pages!Answers, SaidSum("apiStarted") = SaidSum("apiCompleted"),
           SaidSum("apiCompleted") = Cardinality(Pages!Of("api")),
           \A p \in Pages!Views : pages[p].tried <= Viewing.limit
    PROVE  /\ SaidSum("apiStarted") = TrueSum("tried")
           /\ Cardinality({e \in Pages!Of("api") : e.failed}) = TrueSum("failed")
<1>1. PICK S : S = Pages!Views
    OBVIOUS
<1>2. DOMAIN Pages!Settlements = S
    BY <1>1, Answered
<1>3. ASSUME NEW p \in S
      PROVE  /\ Pages!Settlements[p].state.apiStarted = pages[p].tried
             /\ Cardinality(Made(M, "api", p)) = pages[p].tried
             /\ Cardinality(Failing(M, p)) = pages[p].failed
    <2>1. PICK l, v : l = Pages!Settlements[p] /\ v = pages[p]
        OBVIOUS
    <2>2. PICK s : s = l.state
        OBVIOUS
    <2>3. Settles(M, l, v, p) /\ s.apiStarted = s.apiCompleted /\ v.tried <= Viewing.limit
        BY <1>1, <2>1, <2>2, Answered, SaysAll
    <2>4. /\ s.apiStarted = v.apiStarted /\ s.apiCompleted <= v.apiCompleted /\ v.apiCompleted <= v.apiStarted
          /\ v.apiStarted <= v.tried /\ v.apiStarted <= Viewing.limit
          /\ v.apiStarted < Viewing.limit => v.tried = v.apiStarted
          /\ v.apiStarted \in Nat /\ v.apiCompleted \in Nat /\ v.tried \in Nat
          /\ Cardinality(Made(M, "api", p)) = v.apiCompleted
          /\ v.tried = v.apiStarted => Cardinality(Failing(M, p)) = v.failed
        BY <1>1, <2>1, <2>2, <2>3, SettledCounts
    <2>5. v.apiCompleted = v.apiStarted /\ v.tried = v.apiStarted
        BY <2>3, <2>4, ViewingFields
    <2> QED BY <2>1, <2>2, <2>4, <2>5
<1>4. Said("apiStarted") = [p \in S |-> Cardinality(Made(M, "api", p))]
    BY <1>2, <1>3 DEF Said
<1>5. Said("apiStarted") = [p \in S |-> pages[p]["tried"]]
    BY <1>2, <1>3 DEF Said
<1>6. [p \in S |-> Cardinality(Failing(M, p))] = [p \in S |-> pages[p]["failed"]]
    BY <1>3
<1>7. PICK A : A = Calling(M, S)
    OBVIOUS
<1>8. IsFiniteSet(A) /\ Pages!Of("api") \in SUBSET A /\ SumOf(S, Said("apiStarted")) = Cardinality(A)
    BY <1>1, <1>4, <1>7, CallsAre
<1>9. Cardinality(A) = Cardinality(Pages!Of("api"))
    BY <1>2, <1>8 DEF SaidSum
<1>10. Pages!Of("api") = A
    BY <1>8, <1>9, FS_Subset
<1>11. SumOf(S, [p \in S |-> Cardinality(Failing(M, p))]) = Cardinality({e \in A : e.failed})
    BY <1>1, <1>7, CallsAre
<1>12. Cardinality({e \in Pages!Of("api") : e.failed}) = TrueSum("failed")
    BY <1>1, <1>6, <1>10, <1>11 DEF TrueSum
<1> QED BY <1>1, <1>2, <1>5, <1>12 DEF SaidSum, TrueSum

\* A rate that is answered is the rate of the pages it counts.
LEMMA RatesTrue == ASSUME QualityInvariant PROVE Pages!RatesAreTrue
<1>1. QualityTypes
    BY DEF QualityInvariant
<1>2. PICK M : Backed(M)
    BY DEF QualityInvariant, Backed
<1>3. ASSUME Pages!ApiErrorRate.available, \A p \in Pages!Views : pages[p].tried <= Viewing.limit
      PROVE  /\ Pages!ApiErrorRate.denominator = TrueSum("tried")
             /\ Pages!ApiErrorRate.numerator = TrueSum("failed")
    <2>1. Pages!Answers /\ SaidSum("apiStarted") = SaidSum("apiCompleted")
        BY <1>3, SumsSaid DEF Pages!ApiErrorRate
    <2>2. SaidSum("apiCompleted") = Cardinality(Pages!Of("api"))
        BY <1>3, SumsSaid, CountedAlike DEF Pages!ApiErrorRate
    <2>3. /\ SaidSum("apiStarted") = TrueSum("tried")
          /\ Cardinality({e \in Pages!Of("api") : e.failed}) = TrueSum("failed")
        BY <1>1, <1>2, <1>3, <2>1, <2>2, CallsCounted
    <2> QED BY <2>3, SumsSaid, CountedAlike DEF Pages!ApiErrorRate
<1>4. ASSUME Pages!ResourceErrorRate.available, NEW p \in Pages!Views
      PROVE  Pages!Settlements[p].state.resourceFailed = pages[p].resourceFailed
    <2>1. Pages!Answers /\ SaidSum("resourceStarted") = SaidSum("resourceCompleted")
        BY <1>4, SumsSaid DEF Pages!ResourceErrorRate
    <2> QED BY <1>1, <1>2, <2>1, ResourcesCounted
<1>5. ASSUME Pages!JsErrorRate.available, "error" \notin strayed
      PROVE  Pages!JsErrorRate.numerator = TrueSum("errors")
    <2>1. Pages!Answers
        BY <1>5 DEF Pages!JsErrorRate
    <2>2. Cardinality(Pages!Of("error")) = TrueSum("errors")
        BY <1>1, <1>2, <1>5, <2>1, ErrorsCounted
    <2> QED BY <2>2, CountedAlike DEF Pages!JsErrorRate
<1>6. ASSUME Pages!LongtaskCount.available PROVE Pages!LongtaskCount.numerator = TrueSum("tasks")
    <2>1. Pages!Answers
        BY <1>6 DEF Pages!LongtaskCount
    <2> QED BY <1>1, <1>2, <2>1, TasksCounted, SumsSaid DEF Pages!LongtaskCount
<1> QED BY <1>3, <1>4, <1>5, <1>6, SumsTrue DEF Pages!RatesAreTrue

\* When all is in and nothing was lost, every page answers.
LEMMA CompletePages ==
    ASSUME QualityTypes, NEW M, Backed(M), Pages!Complete
    PROVE  /\ Pages!Answers /\ strayed = {}
           /\ \A p \in Pages!Views : /\ Pages!Settlements[p].state.apiStarted = Pages!Settlements[p].state.apiCompleted
                                     /\ Pages!Settlements[p].state.resourceStarted
                                          = Pages!Settlements[p].state.resourceCompleted
<1>1. /\ \A r \in raw : ~r.losses
      /\ strayed = {} /\ Pages!Views = DOMAIN pages
      /\ \A p \in Pages!Views : Pages!Leaves(p) # {} /\ Pages!Terminal(p).closed /\ pages[p].suppressed = 0
      /\ \A p \in Pages!Views : /\ Pages!Terminal(p).state.apiStarted = Pages!Terminal(p).state.apiCompleted
                                /\ Pages!Terminal(p).state.resourceStarted = Pages!Terminal(p).state.resourceCompleted
    BY DEF Pages!Complete
<1>2. Pages!Views # {}
    <2>1. Len(pages) \in Nat /\ Len(pages) > 0 /\ DOMAIN pages = 1 .. Len(pages)
        BY QualityFields
    <2>2. 1 \in DOMAIN pages
        BY <2>1
    <2> QED BY <1>1, <2>2
<1>3. DOMAIN Pages!Settlements = Pages!Views /\ \A p \in Pages!Views : Pages!Settlements[p] = Pages!Terminal(p)
    BY <1>1 DEF Pages!Settlements
<1>4. ASSUME NEW p \in Pages!Views PROVE ~Pages!BadTerminal(p)
    <2>1. PICK l : l = Pages!Terminal(p)
        OBVIOUS
    <2>2. l \in Pages!Leaves(p) /\ l.closed
        BY <1>1, <2>1, LastLeave
    <2>3. Settles(M, l, pages[p], p)
        BY <1>1, <2>2, SettledPage
    <2>4. PICK s, v : s = l.state /\ v = pages[p]
        OBVIOUS
    <2>5. s.suppressed <= v.suppressed /\ s.suppressed \in Nat
        BY <2>3, <2>4, SettledCounts
    <2>6. ~(s.suppressed > 0)
        BY <1>1, <2>4, <2>5
    <2>7. ~l.losses
        <3>1. l \in Pages!Events /\ l.kind = "leave"
            BY <2>3 DEF Settles
        <3>2. Kept(l) /\ l \in Somewhere(Elements(queue), Aboard(flight), raw)
            BY <3>1, EventsAre
        <3>3. Honest(Elements(queue), lost, Aboard(flight), Knows(flight), raw)
            BY DEF Backed, Loaded, Carried
        <3>4. ~Warned(l, Elements(queue), lost, Aboard(flight), Knows(flight), raw)
            BY <1>1, <3>2 DEF Warned, Kept
        <3> QED BY <3>1, <3>2, <3>3, <3>4 DEF Honest
    <2> QED BY <1>3, <2>1, <2>2, <2>4, <2>6, <2>7 DEF Pages!BadTerminal
<1>5. Pages!Answers
    BY <1>1, <1>2, <1>4 DEF Pages!Answers
<1> QED BY <1>1, <1>3, <1>5

\* Then every rate is answered.
LEMMA CompleteAnswered == ASSUME QualityInvariant PROVE Pages!CompleteIsAnswered
<1> SUFFICES ASSUME Pages!Complete
             PROVE  Pages!ApiErrorRate.available /\ Pages!ResourceErrorRate.available /\ Pages!JsErrorRate.available
    BY DEF Pages!CompleteIsAnswered
<1>1. QualityTypes
    BY DEF QualityInvariant
<1>2. PICK M : Backed(M)
    BY DEF QualityInvariant, Backed
<1>3. PICK S : S = Pages!Views
    OBVIOUS
<1>4. /\ Pages!Answers /\ strayed = {}
      /\ \A p \in S : /\ Pages!Settlements[p].state.apiStarted = Pages!Settlements[p].state.apiCompleted
                      /\ Pages!Settlements[p].state.resourceStarted = Pages!Settlements[p].state.resourceCompleted
    BY <1>1, <1>2, <1>3, CompletePages
<1>5. DOMAIN Pages!Settlements = S /\ \A p \in S : Settles(M, Pages!Settlements[p], pages[p], p)
    BY <1>1, <1>2, <1>3, <1>4, Answered
<1>6. Said("apiStarted") = Said("apiCompleted") /\ Said("resourceStarted") = Said("resourceCompleted")
    BY <1>4, <1>5 DEF Said
<1>7. ASSUME NEW p \in S
      PROVE  /\ Pages!Settlements[p].state.apiCompleted = pages[p].apiCompleted
             /\ Cardinality(Made(M, "api", p)) = pages[p].apiCompleted
    <2>1. PICK l, v : l = Pages!Settlements[p] /\ v = pages[p]
        OBVIOUS
    <2>2. PICK s : s = l.state
        OBVIOUS
    <2>3. Settles(M, l, v, p) /\ s.apiStarted = s.apiCompleted
        BY <1>4, <1>5, <2>1, <2>2
    <2>4. /\ s.apiStarted = v.apiStarted /\ s.apiCompleted <= v.apiCompleted /\ v.apiCompleted <= v.apiStarted
          /\ v.apiStarted \in Nat /\ v.apiCompleted \in Nat
          /\ Cardinality(Made(M, "api", p)) = v.apiCompleted
        BY <1>1, <1>2, <1>3, <2>1, <2>2, <2>3, SettledCounts
    <2>5. s.apiCompleted = v.apiCompleted
        BY <2>3, <2>4
    <2> QED BY <2>1, <2>2, <2>4, <2>5
<1>8. Said("apiCompleted") = [p \in S |-> Cardinality(Made(M, "api", p))]
    BY <1>5, <1>7 DEF Said
<1>9. Calling(M, S) = Pages!Of("api")
    <2>1. Pages!Of("api") \in SUBSET Calling(M, S)
        BY <1>1, <1>2, <1>3, CallsAre
    <2>2. ASSUME NEW e \in Calling(M, S) PROVE e \in Pages!Of("api")
        <3>1. e \in M /\ e.kind = "api" /\ e.page \in S
            BY DEF Calling
        <3>2. PICK l, v : l = Pages!Settlements[e.page] /\ v = pages[e.page]
            OBVIOUS
        <3>3. Settles(M, l, v, e.page) /\ l.state.apiCompleted = v.apiCompleted
            BY <1>5, <1>7, <3>1, <3>2
        <3>4. v.apiCompleted \in Nat
            BY <3>3, StateFields DEF Settles
        <3>5. ~Later(e, l, v)
            BY <3>3, <3>4 DEF Later
        <3>6. Kept(e)
            BY <1>4, <3>1, <3>3, <3>5 DEF Settles
        <3> QED BY <1>3, <3>1, <3>6 DEF Pages!Of, Pages!OfKind, Pages!Events, Kept
    <2> QED BY <2>1, <2>2
<1>10. SaidSum("apiCompleted") = Cardinality(Pages!Of("api"))
    <2>1. SumOf(S, [p \in S |-> Cardinality(Made(M, "api", p))]) = Cardinality(Calling(M, S))
        BY <1>1, <1>2, <1>3, CallsAre
    <2> QED BY <1>5, <1>8, <1>9, <2>1 DEF SaidSum
<1>11. SaidSum("apiStarted") = SaidSum("apiCompleted") /\ SaidSum("resourceStarted") = SaidSum("resourceCompleted")
    BY <1>6 DEF SaidSum
<1> QED BY <1>4, <1>10, <1>11, SumsSaid, CountedAlike DEF Pages!ApiErrorRate, Pages!ResourceErrorRate, Pages!JsErrorRate

\* The variables keep their types.
LEMMA QualityTyped == ASSUME QualityInvariant PROVE Pages!TypeOK
<1>1. QualityTypes
    BY DEF QualityInvariant
<1>2. PICK M : Census(M, pages, calls, happened)
    BY DEF QualityInvariant
<1>3. ASSUME NEW p \in DOMAIN pages
      PROVE  pages[p].apiCompleted <= pages[p].apiStarted /\ pages[p].resourceCompleted <= pages[p].resourceStarted
    <2>1. PICK v : v = pages[p]
        OBVIOUS
    <2>2. Counted(v, M, calls, p) /\ v \in Pages!State
        BY <1>1, <1>2, <2>1, QualityFields DEF Census
    <2>3. /\ Cardinality(Counting(calls, "api", p)) \in Nat
          /\ Cardinality(Counting(calls, "resource", p)) \in Nat
        BY <1>1, FS_Subset, FS_CardinalityType DEF Counting, QualityTypes
    <2>4. v.apiCompleted \in Nat /\ v.apiStarted \in Nat /\ v.resourceCompleted \in Nat /\ v.resourceStarted \in Nat
        BY <2>2, StateFields
    <2> QED BY <2>1, <2>2, <2>3, <2>4 DEF Counted
<1>4. \A c \in calls : c.page \in DOMAIN pages /\ c.id \in 1 .. happened
    BY <1>1, QualityFields
<1> QED BY <1>1, <1>3, <1>4 DEF QualityTypes, Pages!TypeOK

\* The two instances answer alike.
LEMMA HidingsSum == ASSUME NEW T, NEW f(_) PROVE Hidings!MapThenSumSet(f, T) = Pages!MapThenSumSet(f, T)
    BY DEF Hidings!MapThenSumSet, Pages!MapThenSumSet, Hidings!MapThenFoldSet, Pages!MapThenFoldSet
LEMMA HidingsAlike ==
    ASSUME Pages!RatesAreTrue, Pages!CompleteIsAnswered, Pages!TypeOK
    PROVE  Hidings!RatesAreTrue /\ Hidings!CompleteIsAnswered /\ Hidings!TypeOK
<1>1. Hidings!TypeOK
    BY DEF Hidings!TypeOK, Pages!TypeOK, Hidings!State, Pages!State, Hidings!Sendable, Pages!Sendable,
           Hidings!Batches, Pages!Batches
<1>2. /\ Hidings!Views = Pages!Views /\ Hidings!Settlements = Pages!Settlements
      /\ Hidings!Of("api") = Pages!Of("api") /\ Hidings!Of("error") = Pages!Of("error")
      /\ \A p : Hidings!Leaves(p) = Pages!Leaves(p) /\ Hidings!Terminal(p) = Pages!Terminal(p)
    BY DEF Hidings!Views, Pages!Views, Hidings!OfKind, Pages!OfKind, Hidings!Events, Pages!Events,
           Hidings!Settlements, Pages!Settlements, Hidings!Leaves, Pages!Leaves, Hidings!Terminal, Pages!Terminal,
           Hidings!Of, Pages!Of
<1>3. Hidings!Answers = Pages!Answers
    BY <1>2 DEF Hidings!Answers, Pages!Answers, Hidings!BadTerminal, Pages!BadTerminal
<1>4. Hidings!Complete = Pages!Complete
    BY <1>2 DEF Hidings!Complete, Pages!Complete
<1>5. \A S : Hidings!Cardinality(S) = Pages!Cardinality(S)
    BY DEF Hidings!Cardinality, Pages!Cardinality
<1>6. Hidings!ApiStarted = Pages!ApiStarted
    BY <1>2, HidingsSum DEF Hidings!ApiStarted, Hidings!Sum, Pages!ApiStarted, Pages!Sum
<1>7. Hidings!ApiCompleted = Pages!ApiCompleted
    BY <1>2, HidingsSum DEF Hidings!ApiCompleted, Hidings!Sum, Pages!ApiCompleted, Pages!Sum
<1>8. Hidings!ResourceStarted = Pages!ResourceStarted
    BY <1>2, HidingsSum DEF Hidings!ResourceStarted, Hidings!Sum, Pages!ResourceStarted, Pages!Sum
<1>9. Hidings!ResourceCompleted = Pages!ResourceCompleted
    BY <1>2, HidingsSum DEF Hidings!ResourceCompleted, Hidings!Sum, Pages!ResourceCompleted, Pages!Sum
<1>10. Hidings!ResourceFailed = Pages!ResourceFailed
    BY <1>2, HidingsSum DEF Hidings!ResourceFailed, Hidings!Sum, Pages!ResourceFailed, Pages!Sum
<1>11. Hidings!Longtasks = Pages!Longtasks
    BY <1>2, HidingsSum DEF Hidings!Longtasks, Hidings!Sum, Pages!Longtasks, Pages!Sum
<1>12. /\ (LET f(s) == s.tried IN Hidings!Total(f)) = (LET f(s) == s.tried IN Pages!Total(f))
       /\ (LET f(s) == s.failed IN Hidings!Total(f)) = (LET f(s) == s.failed IN Pages!Total(f))
       /\ (LET f(s) == s.errors IN Hidings!Total(f)) = (LET f(s) == s.errors IN Pages!Total(f))
       /\ (LET f(s) == s.tasks IN Hidings!Total(f)) = (LET f(s) == s.tasks IN Pages!Total(f))
    <2>1. (LET f(s) == s.tried IN Hidings!Total(f)) = (LET f(s) == s.tried IN Pages!Total(f))
        BY <1>2, HidingsSum DEF Hidings!Total, Pages!Total
    <2>2. (LET f(s) == s.failed IN Hidings!Total(f)) = (LET f(s) == s.failed IN Pages!Total(f))
        BY <1>2, HidingsSum DEF Hidings!Total, Pages!Total
    <2>3. (LET f(s) == s.errors IN Hidings!Total(f)) = (LET f(s) == s.errors IN Pages!Total(f))
        BY <1>2, HidingsSum DEF Hidings!Total, Pages!Total
    <2>4. (LET f(s) == s.tasks IN Hidings!Total(f)) = (LET f(s) == s.tasks IN Pages!Total(f))
        BY <1>2, HidingsSum DEF Hidings!Total, Pages!Total
    <2> QED BY <2>1, <2>2, <2>3, <2>4
<1>13. /\ Hidings!ApiErrorRate = Pages!ApiErrorRate /\ Hidings!ResourceErrorRate = Pages!ResourceErrorRate
       /\ Hidings!JsErrorRate = Pages!JsErrorRate /\ Hidings!LongtaskCount = Pages!LongtaskCount
    BY <1>2, <1>3, <1>5, <1>6, <1>7, <1>8, <1>9, <1>10, <1>11
       DEF Hidings!ApiErrorRate, Pages!ApiErrorRate, Hidings!ResourceErrorRate, Pages!ResourceErrorRate,
           Hidings!JsErrorRate, Pages!JsErrorRate, Hidings!LongtaskCount, Pages!LongtaskCount
<1>14. Hidings!CompleteIsAnswered
    BY <1>4, <1>13 DEF Hidings!CompleteIsAnswered, Pages!CompleteIsAnswered
<1>15. Hidings!RatesAreTrue
    BY <1>2, <1>12, <1>13 DEF Hidings!RatesAreTrue, Pages!RatesAreTrue
<1> QED BY <1>1, <1>14, <1>15

-----------------------------------------------------------------------------
\* The parts.

\* What the part that moves relies on.
ServicesInvariant ==
    /\ part = "repetitions" => RepeatedInvariant
    /\ part = "sessions" => SessionInvariant
    /\ part \in {"pages", "hidings"} => QualityInvariant
    /\ part = "exports" => ExportInvariant
    /\ part = "admission" => AdmissionInvariant
    /\ part = "chained" => ChainTypes /\ ChainInvariant

servicesVars == <<part, vars, repeatedVars, authVars, qualityVars, exportVars, ingestVars>>

\* The parts begin as they say.
LEMMA ServicesBegin == ServicesInit => ServicesInvariant
<1> SUFFICES ASSUME ServicesInit PROVE ServicesInvariant
    OBVIOUS
<1>1. /\ part = "repetitions" => Repetitions!Init
      /\ part = "sessions" => Sessions!Init
      /\ part \in {"pages", "hidings"} => Pages!Init
      /\ part = "exports" => Exports!Init
      /\ part = "admission" => Admission!Init
      /\ part = "chained" => Chained!Init
    BY DEF ServicesInit
<1> QED BY <1>1, RepeatedBegins, SessionsBegin, QualityBegins, ExportsBegin, AdmissionBegins, ChainBegins,
           ChainTypesBegin
       DEF ServicesInvariant

\* One part moves.
LEMMA ServicesMove == ServicesInvariant /\ ServicesNext => ServicesInvariant'
<1> SUFFICES ASSUME ServicesInvariant, ServicesNext PROVE ServicesInvariant'
    OBVIOUS
<1>1. /\ UNCHANGED part
      /\ part = "repetitions" => Repetitions!Next
      /\ part = "sessions" => Sessions!Next
      /\ part = "pages" => Pages!Next
      /\ part = "hidings" => Hidings!Next
      /\ part = "exports" => Exports!Next
      /\ part = "admission" => Admission!Next
      /\ part = "chained" => Chained!Next
    BY DEF ServicesNext, Elsewhere
<1>2. part = "sessions" => SessionInvariant'
    BY <1>1, SessionsKept DEF ServicesInvariant
<1>3. part = "exports" => ExportInvariant'
    BY <1>1, ExportsKept DEF ServicesInvariant
<1>4. part = "admission" => AdmissionInvariant'
    BY <1>1, AdmissionKept DEF ServicesInvariant
<1>5. part = "chained" => ChainTypes' /\ ChainInvariant'
    BY <1>1, ChainTypesKept, ChainKept DEF ServicesInvariant
<1>6. part = "repetitions" => RepeatedInvariant'
    BY <1>1, RepeatedKept DEF ServicesInvariant
<1>7. part \in {"pages", "hidings"} => QualityInvariant'
    BY <1>1, PagesStep, HidingsStep, QualityKept DEF ServicesInvariant
<1> QED BY <1>1, <1>2, <1>3, <1>4, <1>5, <1>6, <1>7 DEF ServicesInvariant

\* Or nothing moves.
LEMMA ServicesStand == ServicesInvariant /\ UNCHANGED servicesVars => ServicesInvariant'
<1> SUFFICES ASSUME ServicesInvariant, UNCHANGED servicesVars PROVE ServicesInvariant'
    OBVIOUS
<1>1. /\ UNCHANGED part /\ UNCHANGED authVars /\ UNCHANGED <<now, exportVars>> /\ UNCHANGED ingestVars
      /\ UNCHANGED messageVars /\ UNCHANGED qualityVars
    BY DEF servicesVars, repeatedVars
<1>2. SessionInvariant => SessionInvariant'
    BY <1>1 DEF authVars, SessionInvariant, Sessions!TypeOK, Exchanges, Exchanging, Told, Families, Quiet, Departed,
                Sessions!OneSuccessor, Sessions!Live
<1>3. ExportInvariant => ExportInvariant'
    BY <1>1 DEF exportVars, ExportInvariant, Exports!TypeOK, LastIssued, InWindow, Exports!RetiredStays,
                Exports!Usable, Exports!OwnScope, Exports!RateKept
<1>4. AdmissionInvariant => AdmissionInvariant'
    BY <1>1 DEF ingestVars, AdmissionInvariant, WellJudged, WellCopied, Admission!Since
<1>5. ChainTypes /\ ChainInvariant => ChainTypes' /\ ChainInvariant'
    BY <1>1 DEF ingestVars, ChainTypes, ChainInvariant, Chained!BlockHolds, Chained!ChainSound
<1>6. RepeatedInvariant => RepeatedInvariant'
    <2> SUFFICES ASSUME RepeatedInvariant PROVE RepeatedInvariant'
        OBVIOUS
    <2>1. UNCHANGED <<now, log, offset, rows, refs, proofs, projecting>>
        BY <1>1 DEF messageVars
    <2>2. RepeatedTypes' /\ InTime' /\ FromLog' /\ Handled'
        BY <2>1 DEF RepeatedInvariant, RepeatedTypes, InTime, FromLog, Handled, Reached, Inserted, RefOf
    <2>3. InHand'
        BY <2>1 DEF RepeatedInvariant, InHand, HandOf, Doing, Inserted, RefOf, Looked, Reached, Wrote
    <2>4. PICK at : Dealt(at) /\ \A p \in proofs : Founded(at, p)
        BY DEF RepeatedInvariant
    <2>5. Dealt(at)'
        BY <2>1, <2>4 DEF Dealt, Reached, Passed, Looked, Wrote, RefOf
    <2>6. \A p \in proofs' : Founded(at, p)'
        BY <2>1, <2>4 DEF Founded, Witnessed, Receipted, Passed, Looked, Wrote, Reached, RefOf
    <2> QED BY <2>2, <2>3, <2>5, <2>6 DEF RepeatedInvariant
<1>7. QualityInvariant => QualityInvariant'
    <2> SUFFICES ASSUME QualityInvariant PROVE QualityInvariant'
        OBVIOUS
    <2>1. UNCHANGED <<pages, visible, calls, task, queue, lost, flight, raw, strayed, happened>>
        BY <1>1 DEF qualityVars
    <2>2. QualityTypes' /\ Tidy(pages', task')
        BY <2>1 DEF QualityInvariant, QualityTypes
    <2>3. PICK M : Census(M, pages, calls, happened) /\ Loaded(M, pages, queue, lost, flight, raw, strayed)
        BY DEF QualityInvariant
    <2>4. Census(M, pages', calls', happened') /\ Loaded(M, pages', queue', lost', flight', raw', strayed')
        BY <2>1, <2>3
    <2> QED BY <2>2, <2>4 DEF QualityInvariant
<1> QED BY <1>1, <1>2, <1>3, <1>4, <1>5, <1>6, <1>7 DEF ServicesInvariant

\* What the parts rely on holds throughout.
LEMMA ServicesInvariantHolds == ServicesSpec => []ServicesInvariant
<1>1. ServicesInvariant /\ [ServicesNext]_servicesVars => ServicesInvariant'
    BY ServicesMove, ServicesStand
<1> QED BY <1>1, ServicesBegin, PTL DEF ServicesSpec, servicesVars

\* A refresh token has one successor, is refused for a reason, and none survives a logout
\* (consumeSession, revokeSession); an export credential that was of no use once never is again,
\* reads what its own scope allows, and keeps to the limit (changeInterface, authorizeExport).
THEOREM CredentialsAreSound == ServicesSpec => []CredentialsSound
<1>1. ServicesInvariant => CredentialsSound
    BY SessionsSound DEF ServicesInvariant, ExportInvariant, CredentialsSound, Exports!ExportsSound
<1> QED BY <1>1, ServicesInvariantHolds, PTL

\* A batch is judged by a project that was in force at most the life of a copy ago, a version that
\* is blocked stays out, and object facts wait in a chain that no failure breaks
\* (IngestionManager.accept, project, publishWithObjects).
THEOREM AdmissionIsSound == ServicesSpec => []AdmissionSound
<1>1. ServicesInvariant => AdmissionSound
    BY NothingStale DEF ServicesInvariant, ChainInvariant, AdmissionSound
<1> QED BY <1>1, ServicesInvariantHolds, PTL

\* A rate of repeated operations that is answered counts every session that took part in a
\* repetition the receipts can know of, and no session that did not, in whatever order, how often
\* and by whom the messages were projected (projectRepeatedOperations, readRepeatedRate).  A rate
\* of quality that is answered is the one of the pages it counts, whatever was dropped, refused,
\* sent twice or lost on the way, and nothing is withheld without a reason
\* (createQualityCollectors, reduceQuality).
THEOREM RatesStayTrue == ServicesSpec => []RatesAreTrue
<1>1. ServicesInvariant => RatesAreTrue
    <2>1. part = "repetitions" /\ RepeatedInvariant => Repetitions!RateIsExact
        BY RateHolds
    <2>2. QualityInvariant => Pages!RatesAreTrue /\ Pages!CompleteIsAnswered
        BY RatesTrue, CompleteAnswered
    <2>3. QualityInvariant => Hidings!RatesAreTrue /\ Hidings!CompleteIsAnswered
        BY <2>2, QualityTyped, HidingsAlike
    <2> QED BY <2>1, <2>2, <2>3 DEF ServicesInvariant, RatesAreTrue
<1> QED BY <1>1, ServicesInvariantHolds, PTL
===============================================================================
