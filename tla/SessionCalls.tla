----------------------------- MODULE SessionCalls -----------------------------
(***************************************************************************)
(* Logging in, the counters that slow down repeated failures, and sessions *)
(* that slide while they are used (auth.routes.ts, auth.service.ts,        *)
(* sessions.ts, rateLimit.ts).                                             *)
(***************************************************************************)
EXTENDS AccountState

\* current: the window of a login, none when it has passed
Failures(u) == IF attempts[u].left <= 0 THEN 0 ELSE attempts[u].count

\* Mutant: one failure too many is let through.
IsBlockedBeyond(u) == Failures(u) > Limit

\* isBlocked
IsBlocked(u) == Failures(u) >= Limit

\* registerFailure
RegisterFailure(u) ==
    attempts' = [attempts EXCEPT ![u] =
        IF Failures(u) = 0 THEN [count |-> 1, left |-> Window]
        ELSE [attempts[u] EXCEPT !.count = @ + 1]]

-----------------------------------------------------------------------------
\* POST /login, up to the query of the account; a login that has failed too
\* often is turned away, and that is not counted as a failure.
StartLogin(c, u, right) ==
    /\ ~IsBlocked(u)
    /\ Start(c, "login", "read", [NoCallRow EXCEPT !.user = u, !.right = right])

\* authenticate: the account as it is read; the verification takes time
LoginRead(c) ==
    /\ At(c, "login", "read")
    /\ call' = [call EXCEPT ![c].at = "answer",
                            ![c].right = @ /\ Active(call[c].user)]
    /\ UNCHANGED <<user, session, link, attempts, crossed, spent>>

LoginFails(c) ==
    /\ At(c, "login", "answer") /\ ~call[c].right
    /\ RegisterFailure(call[c].user)
    /\ End(c)
    /\ UNCHANGED <<user, session, link, crossed, spent>>

LoginSucceeds(c) ==
    /\ At(c, "login", "answer") /\ call[c].right
    /\ attempts' = [attempts EXCEPT ![call[c].user] = [count |-> 0, left |-> 0]]
    /\ Goto(c, "session")
    /\ UNCHANGED <<user, session, link, crossed, spent>>

\* startSession, after a login, a registration or a reset
StartSession(c) ==
    /\ call[c].at = "session"
    /\ \E s \in Sessions :
        /\ Free(s)
        /\ session' = [session EXCEPT ![s] =
                [user |-> call[c].user, left |-> SessionTtl, idle |-> 0]]
    /\ End(c)
    /\ UNCHANGED <<user, link, attempts, crossed, spent>>

-----------------------------------------------------------------------------
\* attachSession of any call: the session and its user are read together.
StartResolve(c, s) ==
    /\ ~Free(s)
    /\ Start(c, "resolve", "read", [NoCallRow EXCEPT !.session = s])

\* as the call sees it, whose now lies `late` back
Expired(c, s) == session[s].left + call[c].late <= 0

\* Mutant: a session is extended only in its last quarter.
ShouldExtendLate(c, s) == 4 * (session[s].left + call[c].late) < SessionTtl

\* shouldExtendSession: less than half of the time is left
ShouldExtend(c, s) == 2 * (session[s].left + call[c].late) < SessionTtl

\* resolveSession goes on with nothing, an end, an extension, or the request
ResolveRead(c) ==
    LET s == call[c].session IN
    /\ At(c, "resolve", "read")
    /\ IF Free(s) THEN End(c) /\ UNCHANGED session
       ELSE IF Expired(c, s) \/ ~Active(session[s].user)
       THEN Goto(c, "end") /\ UNCHANGED session
       ELSE IF ShouldExtend(c, s) THEN Goto(c, "extend") /\ UNCHANGED session
       ELSE End(c) /\ session' = [session EXCEPT ![s].idle = call[c].late]
    /\ UNCHANGED <<user, link, attempts, crossed, spent>>

\* update where id: fails when the row has gone
ResolveExtend(c) ==
    LET s == call[c].session IN
    /\ At(c, "resolve", "extend")
    /\ session' = IF Free(s) THEN session
                  ELSE [session EXCEPT ![s].left = SessionTtl - call[c].late,
                                       ![s].idle = call[c].late]
    /\ End(c)
    /\ UNCHANGED <<user, link, attempts, crossed, spent>>

\* endSession
ResolveEnd(c) ==
    /\ At(c, "resolve", "end")
    /\ session' = [session EXCEPT ![call[c].session] = NoRow]
    /\ End(c)
    /\ UNCHANGED <<user, link, attempts, crossed, spent>>

Logout(s) ==
    /\ Spend("logout") /\ ~Free(s)
    /\ session' = [session EXCEPT ![s] = NoRow]
    /\ UNCHANGED <<user, link, attempts, call, crossed>>

\* sweepExpiredSessions, on a timer
Sweep ==
    /\ session' = [s \in Sessions |-> IF session[s].left < 0 THEN NoRow ELSE session[s]]
    /\ session' # session
    /\ UNCHANGED <<user, link, attempts, call, crossed, spent>>

-----------------------------------------------------------------------------
StartSessionCall(c) ==
    \/ \E u \in Users, right \in BOOLEAN : StartLogin(c, u, right)
    \/ \E s \in Sessions : StartResolve(c, s)

SessionStep(c) ==
    \/ LoginRead(c) \/ LoginFails(c) \/ LoginSucceeds(c) \/ StartSession(c)
    \/ ResolveRead(c) \/ ResolveExtend(c) \/ ResolveEnd(c)

=============================================================================
