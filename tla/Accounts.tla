------------------------------- MODULE Accounts -------------------------------
(***************************************************************************)
(* Roles, blocking and passwords of accounts (users.service.ts); accounts, *)
(* links and sessions together, with time and restarts.                    *)
(***************************************************************************)
EXTENDS AccessCalls, SessionCalls

\* setUserRole and blockUser, up to reading the account. Both count the other
\* administrators unless they leave an active administrator; blocking oneself
\* is turned away, demoting oneself is not.
StartRole(c, u, role) ==
    /\ ByAdmin /\ user[u].role \notin {"none", role}
    /\ Start(c, "role", IF role = "admin" /\ user[u].active THEN "write" ELSE "count",
             [NoCallRow EXCEPT !.user = u, !.role = role])

StartBlock(c, u) ==
    /\ Active(u) /\ Administrators \ {u} # {}
    /\ Start(c, "block", "count", [NoCallRow EXCEPT !.user = u])

\* Mutant: blocked administrators count.
OthersLeftBlocked(u) == \E v \in Users \ {u} : user[v].role = "admin"

\* assertAdminLeft counts the other active administrators.
OthersLeft(u) == Administrators \ {u} # {}

\* Another call has counted and not yet written.
Counted(c) == \E d \in Calls \ {c} :
    call[d].kind \in {"role", "block"} /\ call[d].at = "write"

CountAdmins(c) ==
    /\ call[c].at = "count"
    /\ IF OthersLeft(call[c].user) THEN Goto(c, "write") ELSE End(c)
    /\ crossed' = IF Counted(c) THEN crossed \cup {"admins"} ELSE crossed
    /\ UNCHANGED <<user, session, link, attempts, spent>>

SetRole(c) ==
    /\ At(c, "role", "write")
    /\ user' = [user EXCEPT ![call[c].user].role = call[c].role]
    /\ End(c)
    /\ UNCHANGED <<session, link, attempts, crossed, spent>>

\* The transaction: sessions deleted, reset links revoked, isActive = false.
\* (The user's edit locks go next: LockCalls.)
BlockUser(c) ==
    LET u == call[c].user IN
    /\ At(c, "block", "write")
    /\ session' = [s \in Sessions |-> IF session[s].user = u THEN NoRow ELSE session[s]]
    /\ link' = Revoked(u)
    /\ user' = [user EXCEPT ![u].active = FALSE]
    /\ End(c)
    /\ UNCHANGED <<attempts, crossed, spent>>

\* unblockUser: what was read (blocked) and what is written agree in any order
UnblockUser(u) ==
    /\ Spend("unblock") /\ ByAdmin
    /\ user[u].role # "none" /\ ~user[u].active
    /\ user' = [user EXCEPT ![u].active = TRUE]
    /\ UNCHANGED <<session, link, attempts, call, crossed>>

\* changePassword, of the account of a session: verified, then a transaction
StartPassword(c, s) ==
    /\ ~Free(s) /\ Active(session[s].user)
    /\ Start(c, "password", "write",
             [NoCallRow EXCEPT !.session = s, !.user = session[s].user])

\* every other session of the account goes
ChangePassword(c) ==
    /\ At(c, "password", "write")
    /\ session' = [s \in Sessions |->
            IF session[s].user = call[c].user /\ s # call[c].session
            THEN NoRow ELSE session[s]]
    /\ End(c)
    /\ UNCHANGED <<user, link, attempts, crossed, spent>>

-----------------------------------------------------------------------------
StartUserCall(c) ==
    \/ \E u \in Users : StartBlock(c, u) \/ \E r \in {"user", "admin"} : StartRole(c, u, r)
    \/ \E s \in Sessions : StartPassword(c, s)

UserStep(c) == CountAdmins(c) \/ SetRole(c) \/ BlockUser(c) \/ ChangePassword(c)

-----------------------------------------------------------------------------

Init ==
    /\ user = [u \in Users |->
                 [role |-> IF u \in FirstAdmins THEN "admin" ELSE "none",
                  active |-> u \in FirstAdmins, from |-> NoLink]]
    /\ session = [s \in Sessions |-> NoRow]
    /\ link = [l \in Links |-> NoLinkRow]
    /\ attempts = [u \in Users |-> [count |-> 0, left |-> 0]]
    /\ call = [c \in Calls |-> NoCallRow]
    /\ crossed = {} /\ spent = 0

\* What is over stays over; an idle session is only told to be that up to its
\* time to live.
Later(left) == IF left > -(MaxLate + 1) THEN left - 1 ELSE left

Tick ==
    /\ \A c \in Calls : call[c].at # "idle" => call[c].late < MaxLate
    /\ session' = [s \in Sessions |->
            IF Free(s) THEN NoRow
            ELSE [session[s] EXCEPT !.left = Later(@),
                                    !.idle = IF @ < SessionTtl THEN @ + 1 ELSE @]]
    /\ link' = [l \in Links |->
            IF link[l].state = "free" THEN [link[l] EXCEPT !.left = Later(@)] ELSE link[l]]
    /\ attempts' = [u \in Users |->
            IF attempts[u].left <= 1 THEN [count |-> 0, left |-> 0]
            ELSE [attempts[u] EXCEPT !.left = @ - 1]]
    /\ call' = [c \in Calls |->
            IF call[c].at = "idle" THEN call[c] ELSE [call[c] EXCEPT !.late = @ + 1]]
    /\ UNCHANGED <<user, crossed, spent>>

\* The process stops: what was counted in memory and the calls are gone.
Restart ==
    /\ attempts' = [u \in Users |-> [count |-> 0, left |-> 0]]
    /\ call' = [c \in Calls |-> NoCallRow]
    /\ call' # call \/ attempts' # attempts
    /\ UNCHANGED <<user, session, link, crossed, spent>>

Next ==
    \/ Tick \/ Restart \/ Sweep
    \/ \E s \in Sessions : Logout(s)
    \/ \E l \in Links, role \in {"user", "admin"} : CreateInvite(l, role)
    \/ \E u \in Users : UnblockUser(u)
    \/ \E c \in Calls :
        \/ StartSessionCall(c) \/ StartAccessCall(c) \/ StartUserCall(c)
        \/ SessionStep(c) \/ AccessStep(c) \/ UserStep(c)

Spec == Init /\ [][Next]_vars

-----------------------------------------------------------------------------
\* An invitation makes at most one account, and one that made an account is
\* used (registerByInvite), however many people open it at the same time and
\* whatever is revoked meanwhile.
OneAccountPerInvite ==
    \A u \in Users : user[u].from # NoLink =>
        /\ link[user[u].from].state = "used" /\ link[user[u].from].user = u
        /\ \A v \in Users \ {u} : user[v].from # user[u].from

\* Of the links for a new password at most one can be used per account
\* (createResetLink revokes those before), unless two were made across each
\* other; blocking and unblocking bring none back.
OneResetLink ==
    "resets" \in crossed \/ \A k, l \in Links :
        (/\ link[k].kind = "reset" /\ link[k].state = "free"
         /\ link[l].kind = "reset" /\ link[l].state = "free"
         /\ link[k].user = link[l].user) => k = l

\* The two rules of links together.
LinksWorkOnce == OneAccountPerInvite /\ OneResetLink

\* An active administrator is left (assertAdminLeft), whatever roles, blocks
\* and unblockings follow each other, unless two of them counted the same
\* administrators before either had written.
AdminLeft == "admins" \in crossed \/ Administrators # {}

\* Logins that are verified at the same time may overshoot the limit of
\* failures in a window, by at most one each (LoginRateLimiter).
FailuresBounded == \A u \in Users : Failures(u) <= Limit + Cardinality(Calls) - 1

\* A session that has been let through within the last half of its time to
\* live is not given up for expired (shouldExtendSession), whatever is
\* extended, and found expired, next to it.
UsedSessionKept ==
    [][ \A c \in Calls :
          LET s == call[c].session IN
          (call[c].at = "read" /\ call'[c].at = "end" /\ Active(session[s].user))
              => 2 * session[s].idle >= SessionTtl ]_vars

=============================================================================
