----------------------------- MODULE AccountState -----------------------------
(***************************************************************************)
(* Accounts, sessions, one-time links and the counters of failed logins of *)
(* the server, and the calls that work on them. The modules of the calls   *)
(* EXTEND this one.                                                        *)
(*                                                                         *)
(* Time is relative: sessions, links and windows carry what is left of     *)
(* them, calls how late they are, that is how much time has passed since   *)
(* their handler took `now`. So time never ends.                           *)
(***************************************************************************)
EXTENDS Integers, FiniteSets

CONSTANTS
    Users,         \* the accounts there can be, with a login each
    FirstAdmins,   \* the accounts there are in the beginning, administrators
    Links,         \* the one-time links there can be
    Sessions,      \* the sessions there can be
    Calls,         \* calls that can be in progress at the same time
    Kinds,         \* kinds of call in this instance
    Limit,         \* failed logins allowed in a window
    Window,        \* length of the window
    SessionTtl, LinkTtl,
    MaxLate,       \* bound on the time a call takes
    MaxCalls,      \* bound on the calls ever made
    NoUser, NoLink, NoSession

AllKinds == {"login", "resolve", "logout", "password", "invite", "resetLink",
             "revoke", "register", "reset", "role", "block", "unblock"}

ASSUME AccountsAssumption == /\ FirstAdmins \subseteq Users /\ FirstAdmins # {}
                             /\ NoUser \notin Users /\ NoLink \notin Links
                             /\ NoSession \notin Sessions
                             /\ IsFiniteSet(Calls) /\ Calls # {}
                             /\ Kinds \subseteq AllKinds
ASSUME TimesAssumption == {Limit, Window, SessionTtl, LinkTtl} \subseteq Nat \ {0}
                          /\ {MaxLate, MaxCalls} \subseteq Nat

VARIABLES
    user,       \* User rows
    session,    \* Session rows
    link,       \* AccessLink rows
    attempts,   \* LoginRateLimiter.attempts, in memory, by login
    call,       \* the calls in progress
    crossed,    \* ghost: what two calls have done across each other
    spent       \* calls made so far

vars == <<user, session, link, attempts, call, crossed, spent>>

-----------------------------------------------------------------------------
Roles == {"none", "user", "admin"}

\* role is "none" until somebody registers; from: by which invitation.
User == [role : Roles, active : BOOLEAN, from : Links \cup {NoLink}]

\* idle (ghost): time since a call was last let through with this session.
Session == [user : Users \cup {NoUser}, left : Int, idle : Nat]
NoRow == [user |-> NoUser, left |-> 0, idle |-> 0]

LinkStates == {"none", "free", "used", "revoked"}
Link == [kind : {"invite", "reset"}, state : LinkStates, user : Users \cup {NoUser},
         role : Roles, left : Int]
NoLinkRow == [kind |-> "invite", state |-> "none", user |-> NoUser,
              role |-> "none", left |-> 0]

Points == {"idle", "read", "answer", "count", "write", "revoke", "create",
           "claim", "session", "extend", "end"}

\* user: whom the call is about; right: the password is right; late: how long
\* ago the handler started.
Call == [kind : AllKinds \cup {"none"}, at : Points, user : Users \cup {NoUser},
         session : Sessions \cup {NoSession}, link : Links \cup {NoLink},
         role : Roles, right : BOOLEAN, late : Nat]
NoCallRow == [kind |-> "none", at |-> "idle", user |-> NoUser,
              session |-> NoSession, link |-> NoLink, role |-> "none",
              right |-> FALSE, late |-> 0]

At(c, kind, point) == call[c].kind = kind /\ call[c].at = point

Spend(kind) == kind \in Kinds /\ spent < MaxCalls /\ spent' = spent + 1

Start(c, kind, point, row) ==
    /\ Spend(kind) /\ call[c].at = "idle"
    /\ call' = [call EXCEPT ![c] = [row EXCEPT !.kind = kind, !.at = point]]
    /\ UNCHANGED <<user, session, link, attempts, crossed>>

Goto(c, point) == call' = [call EXCEPT ![c].at = point]
End(c) == call' = [call EXCEPT ![c] = NoCallRow]

Active(u) == user[u].role # "none" /\ user[u].active
Administrators == {u \in Users : user[u].role = "admin" /\ user[u].active}

\* attachSession and requireAdmin: some session of an active administrator.
ByAdmin == Administrators # {}

Free(s) == session[s] = NoRow
Unused(l) == link[l].state = "none"

\* linkState at the time a call took as now
Valid(c, l) == link[l].state = "free" /\ link[l].left + call[c].late > 0

=============================================================================
