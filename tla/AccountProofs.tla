---------------------------- MODULE AccountProofs ----------------------------
(***************************************************************************)
(* The safety of accounts, links, sessions and the limit of failed logins, *)
(* for every value of the constants.                                       *)
(*                                                                         *)
(* The argument: each property is about rows that several calls change in  *)
(* several steps. Its invariant adds what a call that has looked and not   *)
(* yet written still relies on: that an administrator other than the one   *)
(* it demotes is left, that no reset link of its account is free, that the *)
(* failure it may still count has room.                                    *)
(***************************************************************************)
EXTENDS Accounts, TLAPS, FiniteSetTheorems

\* What a call carries while it is of a kind.
SoundCall(k) ==
    /\ k.kind \in {"login", "resetLink", "register", "reset", "role", "block", "password"}
          => k.user \in Users
    /\ k.kind = "resolve" => k.session \in Sessions
    /\ k.kind \in {"revoke", "register", "reset"} => k.link \in Links
    /\ k.kind = "role" => k.role \in {"user", "admin"}
    /\ k.at = "session" => k.user \in Users
    /\ k.at = "count" => k.kind \in {"role", "block"}

TypeInv ==
    /\ user \in [Users -> User]
    /\ session \in [Sessions -> Session]
    /\ \A s \in Sessions : ~Free(s) => session[s].user \in Users
    /\ link \in [Links -> Link]
    /\ \A l \in Links : link[l].kind = "reset" => link[l].user \in Users
    /\ attempts \in [Users -> [count : Nat, left : Nat]]
    /\ call \in [Calls -> Call]
    /\ \A c \in Calls : SoundCall(call[c])
    /\ crossed \subseteq {"admins", "resets"}
    /\ spent \in Nat

FreeReset(l, u) == link[l].kind = "reset" /\ link[l].state = "free" /\ link[l].user = u

NoneFree(u) == \A l \in Links : ~FreeReset(l, u)

\* createResetLink between revoking the links before and making its own.
Making(c) == At(c, "resetLink", "create")

\* Who is about to make a reset link finds none that is free, and is alone.
ResetInv ==
    "resets" \notin crossed =>
        /\ OneResetLink
        /\ \A c \in Calls : Making(c) => NoneFree(call[c].user)
        /\ \A c, d \in Calls : Making(c) /\ Making(d) /\ call[c].user = call[d].user => c = d

\* A call that will take an administrator's role or blocks, and has counted.
Reducing(c) ==
    /\ call[c].kind \in {"role", "block"} /\ call[c].at = "write"
    /\ call[c].kind = "role" => call[c].role # "admin"

\* Its count still holds when it writes, as no other such call is under way.
AdminInv ==
    "admins" \notin crossed =>
        /\ Administrators # {}
        /\ \A c \in Calls : Reducing(c) => Administrators \ {call[c].user} # {}
        /\ \A c, d \in Calls : Reducing(c) /\ Reducing(d) => c = d

\* The logins of u that may still fail.
Pending(u) == {c \in Calls : /\ call[c].kind = "login" /\ call[c].at \in {"read", "answer"}
                             /\ call[c].user = u}

\* A login was let in below the limit, and counts at most once more.
FailuresInv ==
    \A u \in Users :
        Failures(u) + Cardinality(Pending(u)) <= Limit + Cardinality(Calls) - 1

\* At the latest half of the time to live after its last use a session still
\* has half of it left.
UseInv ==
    \A s \in Sessions : ~Free(s) =>
        session[s].idle >= SessionTtl \/ 2 * (session[s].left + session[s].idle) >= SessionTtl

-----------------------------------------------------------------------------
\* The record of no call is a call, and sound.
LEMMA IdleTypes == NoCallRow \in Call /\ SoundCall(NoCallRow)
BY AccountsAssumption DEF Call, NoCallRow, SoundCall, Points, AllKinds, Roles

LEMMA Times ==
    /\ Limit \in Nat /\ Limit > 0 /\ Window \in Nat /\ Window > 0
    /\ SessionTtl \in Nat /\ SessionTtl > 0 /\ LinkTtl \in Nat /\ LinkTtl > 0
    /\ MaxLate \in Nat /\ MaxCalls \in Nat
BY TimesAssumption

\* A call that starts is of the kind it was started for, and sound.
LEMMA StartTypes ==
    ASSUME TypeInv, NEW c \in Calls, NEW kind \in AllKinds, NEW point \in Points,
           NEW row \in Call, SoundCall([row EXCEPT !.kind = kind, !.at = point]),
           Start(c, kind, point, row)
    PROVE  TypeInv'
<1>1. [row EXCEPT !.kind = kind, !.at = point] \in Call
  BY DEF Call
<1>2. call' \in [Calls -> Call] /\ \A d \in Calls : SoundCall(call'[d])
  BY <1>1 DEF TypeInv, Start
<1>3. spent' \in Nat
  BY DEF TypeInv, Start, Spend
<1> QED
  BY <1>2, <1>3 DEF TypeInv, Start, Free

\* So does a call that goes on to its next point.
LEMMA GotoTypes ==
    ASSUME TypeInv, NEW c \in Calls, NEW p \in Points, Goto(c, p),
           p = "session" => call[c].user \in Users,
           p = "count" => call[c].kind \in {"role", "block"}
    PROVE  call' \in [Calls -> Call] /\ \A d \in Calls : SoundCall(call'[d])
<1>1. [call[c] EXCEPT !.at = p] \in Call
  BY DEF TypeInv, Call
<1>2. SoundCall([call[c] EXCEPT !.at = p])
  BY <1>1 DEF TypeInv, SoundCall, Call
<1> QED
  BY <1>1, <1>2 DEF TypeInv, Goto

\* And one that ends.
LEMMA EndTypes ==
    ASSUME TypeInv, NEW c \in Calls, End(c)
    PROVE  call' \in [Calls -> Call] /\ \A d \in Calls : SoundCall(call'[d])
<1>1. NoCallRow \in Call /\ SoundCall(NoCallRow)
  BY IdleTypes
<1> QED
  BY <1>1 DEF TypeInv, End

LEMMA StartSessionCallTypes ==
    ASSUME TypeInv, NEW c \in Calls, StartSessionCall(c)
    PROVE  TypeInv'
<1>1. CASE \E u \in Users, right \in BOOLEAN : StartLogin(c, u, right)
  <2>1. PICK u \in Users, right \in BOOLEAN : StartLogin(c, u, right)
    BY <1>1
  <2> DEFINE row == [NoCallRow EXCEPT !.user = u, !.right = right]
  <2>2. row \in Call
    BY IdleTypes DEF Call
  <2>3. SoundCall([row EXCEPT !.kind = "login", !.at = "read"])
    BY <2>2 DEF SoundCall, Call, NoCallRow
  <2>4. Start(c, "login", "read", row)
    BY <2>1 DEF StartLogin
  <2> HIDE DEF row
  <2> QED
    BY <2>2, <2>3, <2>4, StartTypes DEF AllKinds, Points
<1>2. CASE \E s \in Sessions : StartResolve(c, s)
  <2>1. PICK s \in Sessions : StartResolve(c, s)
    BY <1>2
  <2> DEFINE row == [NoCallRow EXCEPT !.session = s]
  <2>2. row \in Call
    BY IdleTypes DEF Call
  <2>3. SoundCall([row EXCEPT !.kind = "resolve", !.at = "read"])
    BY <2>2 DEF SoundCall, Call, NoCallRow
  <2>4. Start(c, "resolve", "read", row)
    BY <2>1 DEF StartResolve
  <2> HIDE DEF row
  <2> QED
    BY <2>2, <2>3, <2>4, StartTypes DEF AllKinds, Points
<1> QED
  BY <1>1, <1>2 DEF StartSessionCall

LEMMA StartAccessCallTypes ==
    ASSUME TypeInv, NEW c \in Calls, StartAccessCall(c)
    PROVE  TypeInv'
<1>1. CASE \E u \in Users : StartResetLink(c, u)
  <2>1. PICK u \in Users : StartResetLink(c, u)
    BY <1>1
  <2> DEFINE row == [NoCallRow EXCEPT !.user = u]
  <2>2. row \in Call
    BY IdleTypes DEF Call
  <2>3. SoundCall([row EXCEPT !.kind = "resetLink", !.at = "revoke"])
    BY <2>2 DEF SoundCall, Call, NoCallRow
  <2>4. Start(c, "resetLink", "revoke", row)
    BY <2>1 DEF StartResetLink
  <2> HIDE DEF row
  <2> QED
    BY <2>2, <2>3, <2>4, StartTypes DEF AllKinds, Points
<1>2. CASE \E l \in Links : StartRevoke(c, l)
  <2>1. PICK l \in Links : StartRevoke(c, l)
    BY <1>2
  <2> DEFINE row == [NoCallRow EXCEPT !.link = l]
  <2>2. row \in Call
    BY IdleTypes DEF Call
  <2>3. SoundCall([row EXCEPT !.kind = "revoke", !.at = "write"])
    BY <2>2 DEF SoundCall, Call, NoCallRow
  <2>4. Start(c, "revoke", "write", row)
    BY <2>1 DEF StartRevoke
  <2> HIDE DEF row
  <2> QED
    BY <2>2, <2>3, <2>4, StartTypes DEF AllKinds, Points
<1>3. CASE \E l \in Links : StartReset(c, l)
  <2>1. PICK l \in Links : StartReset(c, l)
    BY <1>3
  <2>2. link[l].user \in Users
    BY <2>1 DEF StartReset, TypeInv
  <2> DEFINE row == [NoCallRow EXCEPT !.link = l, !.user = link[l].user]
  <2>3. row \in Call
    BY <2>2, IdleTypes DEF Call
  <2>4. SoundCall([row EXCEPT !.kind = "reset", !.at = "claim"])
    BY <2>2, <2>3 DEF SoundCall, Call, NoCallRow
  <2>5. Start(c, "reset", "claim", row)
    BY <2>1 DEF StartReset
  <2> HIDE DEF row
  <2> QED
    BY <2>3, <2>4, <2>5, StartTypes DEF AllKinds, Points
<1>4. CASE \E l \in Links, u \in Users : StartRegister(c, l, u)
  <2>1. PICK l \in Links, u \in Users : StartRegister(c, l, u)
    BY <1>4
  <2>2. link[l].role \in Roles
    BY DEF TypeInv, Link
  <2> DEFINE row == [NoCallRow EXCEPT !.link = l, !.user = u, !.role = link[l].role]
  <2>3. row \in Call
    BY <2>2, IdleTypes DEF Call
  <2>4. SoundCall([row EXCEPT !.kind = "register", !.at = "claim"])
    BY <2>3 DEF SoundCall, Call, NoCallRow
  <2>5. Start(c, "register", "claim", row)
    BY <2>1 DEF StartRegister
  <2> HIDE DEF row
  <2> QED
    BY <2>3, <2>4, <2>5, StartTypes DEF AllKinds, Points
<1> QED
  BY <1>1, <1>2, <1>3, <1>4 DEF StartAccessCall

LEMMA StartUserCallTypes ==
    ASSUME TypeInv, NEW c \in Calls, StartUserCall(c)
    PROVE  TypeInv'
<1>1. CASE \E u \in Users : StartBlock(c, u)
  <2>1. PICK u \in Users : StartBlock(c, u)
    BY <1>1
  <2> DEFINE row == [NoCallRow EXCEPT !.user = u]
  <2>2. row \in Call
    BY IdleTypes DEF Call
  <2>3. SoundCall([row EXCEPT !.kind = "block", !.at = "count"])
    BY <2>2 DEF SoundCall, Call, NoCallRow
  <2>4. Start(c, "block", "count", row)
    BY <2>1 DEF StartBlock
  <2> HIDE DEF row
  <2> QED
    BY <2>2, <2>3, <2>4, StartTypes DEF AllKinds, Points
<1>2. CASE \E u \in Users, r \in {"user", "admin"} : StartRole(c, u, r)
  <2>1. PICK u \in Users, r \in {"user", "admin"} : StartRole(c, u, r)
    BY <1>2
  <2> DEFINE row == [NoCallRow EXCEPT !.user = u, !.role = r]
  <2>2. row \in Call
    BY IdleTypes DEF Call, Roles
  <2>3. PICK p \in {"write", "count"} : Start(c, "role", p, row)
    BY <2>1 DEF StartRole
  <2>4. SoundCall([row EXCEPT !.kind = "role", !.at = p])
    BY <2>2 DEF SoundCall, Call, NoCallRow
  <2> HIDE DEF row
  <2> QED
    BY <2>2, <2>3, <2>4, StartTypes DEF AllKinds, Points
<1>3. CASE \E s \in Sessions : StartPassword(c, s)
  <2>1. PICK s \in Sessions : StartPassword(c, s)
    BY <1>3
  <2>2. session[s].user \in Users
    BY <2>1 DEF StartPassword, TypeInv
  <2> DEFINE row == [NoCallRow EXCEPT !.session = s, !.user = session[s].user]
  <2>3. row \in Call
    BY <2>2, IdleTypes DEF Call
  <2>4. SoundCall([row EXCEPT !.kind = "password", !.at = "write"])
    BY <2>2, <2>3 DEF SoundCall, Call, NoCallRow
  <2>5. Start(c, "password", "write", row)
    BY <2>1 DEF StartPassword
  <2> HIDE DEF row
  <2> QED
    BY <2>3, <2>4, <2>5, StartTypes DEF AllKinds, Points
<1> QED
  BY <1>1, <1>2, <1>3 DEF StartUserCall

LEMMA SessionStepTypes ==
    ASSUME TypeInv, NEW c \in Calls, SessionStep(c)
    PROVE  TypeInv'
<1>1. CASE LoginRead(c)
  <2>1. [call[c] EXCEPT !.at = "answer", !.right = @ /\ Active(call[c].user)] \in Call
    BY DEF TypeInv, Call, Points, Active
  <2>2. SoundCall([call[c] EXCEPT !.at = "answer", !.right = @ /\ Active(call[c].user)])
    BY DEF TypeInv, SoundCall, Call
  <2>3. call' \in [Calls -> Call] /\ \A d \in Calls : SoundCall(call'[d])
    BY <1>1, <2>1, <2>2 DEF LoginRead, TypeInv
  <2> QED
    BY <1>1, <2>3 DEF LoginRead, TypeInv, Free
<1>2. CASE LoginFails(c)
  <2>1. call' \in [Calls -> Call] /\ \A d \in Calls : SoundCall(call'[d])
    BY <1>2, EndTypes DEF LoginFails
  <2>2. attempts' \in [Users -> [count : Nat, left : Nat]]
    <3>1. attempts[call[c].user] \in [count : Nat, left : Nat]
      BY <1>2 DEF LoginFails, At, TypeInv, SoundCall
    <3>2. [attempts[call[c].user] EXCEPT !.count = @ + 1] \in [count : Nat, left : Nat]
      BY <3>1
    <3>3. [count |-> 1, left |-> Window] \in [count : Nat, left : Nat]
      BY Times
    <3>4. attempts' = [attempts EXCEPT ![call[c].user] =
              IF Failures(call[c].user) = 0 THEN [count |-> 1, left |-> Window]
              ELSE [attempts[call[c].user] EXCEPT !.count = @ + 1]]
      BY <1>2 DEF LoginFails, RegisterFailure
    <3> QED
      BY <3>2, <3>3, <3>4 DEF TypeInv
  <2> QED
    BY <1>2, <2>1, <2>2 DEF LoginFails, TypeInv, Free
<1>3. CASE LoginSucceeds(c)
  <2>1. call[c].user \in Users
    BY <1>3 DEF LoginSucceeds, At, TypeInv, SoundCall
  <2>2. call' \in [Calls -> Call] /\ \A d \in Calls : SoundCall(call'[d])
    BY <1>3, <2>1, GotoTypes DEF LoginSucceeds, Points
  <2>3. attempts' \in [Users -> [count : Nat, left : Nat]]
    BY <1>3 DEF LoginSucceeds, TypeInv
  <2> QED
    BY <1>3, <2>2, <2>3 DEF LoginSucceeds, TypeInv, Free
<1>4. CASE StartSession(c)
  <2>1. call' \in [Calls -> Call] /\ \A d \in Calls : SoundCall(call'[d])
    BY <1>4, EndTypes DEF StartSession
  <2>2. PICK s \in Sessions : session' = [session EXCEPT ![s] =
              [user |-> call[c].user, left |-> SessionTtl, idle |-> 0]]
    BY <1>4 DEF StartSession
  <2>3. call[c].user \in Users
    BY <1>4 DEF StartSession, TypeInv, SoundCall
  <2>4. [user |-> call[c].user, left |-> SessionTtl, idle |-> 0] \in Session
    BY <2>3, Times DEF Session
  <2> QED
    BY <1>4, <2>1, <2>2, <2>3, <2>4 DEF StartSession, TypeInv, Free
<1>5. CASE ResolveRead(c)
  <2>1. call[c].session \in Sessions
    BY <1>5 DEF ResolveRead, At, TypeInv, SoundCall
  <2>2. End(c) \/ Goto(c, "end") \/ Goto(c, "extend")
    BY <1>5 DEF ResolveRead
  <2>3. call' \in [Calls -> Call] /\ \A d \in Calls : SoundCall(call'[d])
    BY <2>2, EndTypes, GotoTypes DEF Points
  <2>4. \/ UNCHANGED session
        \/ session' = [session EXCEPT ![call[c].session].idle = call[c].late]
    BY <1>5 DEF ResolveRead
  <2>5. [session[call[c].session] EXCEPT !.idle = call[c].late] \in Session
    BY <2>1 DEF TypeInv, Session, Call
  <2>6. /\ session' \in [Sessions -> Session]
        /\ \A s \in Sessions : session'[s].user = session[s].user
        /\ \A s \in Sessions : session'[s] # NoRow => session'[s].user \in Users
    <3>1. CASE UNCHANGED session
      BY <3>1 DEF TypeInv, Free
    <3>2. CASE session' = [session EXCEPT ![call[c].session].idle = call[c].late]
               /\ session[call[c].session] # NoRow
      BY <2>1, <2>5, <3>2 DEF TypeInv, Free, Session
    <3> QED
      BY <1>5, <3>1, <3>2 DEF ResolveRead, Free
  <2> QED
    BY <1>5, <2>3, <2>6 DEF ResolveRead, TypeInv, Free
<1>6. CASE ResolveExtend(c)
  <2> DEFINE s == call[c].session
  <2>1. s \in Sessions
    BY <1>6 DEF ResolveExtend, At, TypeInv, SoundCall
  <2>2. call' \in [Calls -> Call] /\ \A d \in Calls : SoundCall(call'[d])
    BY <1>6, EndTypes DEF ResolveExtend
  <2>3. [session[s] EXCEPT !.left = SessionTtl - call[c].late, !.idle = call[c].late]
            \in Session
    <3>1. session[s] \in Session /\ call[c].late \in Int /\ call[c].late \in Nat
      BY <2>1 DEF TypeInv, Call
    <3>2. SessionTtl - call[c].late \in Int
      BY <3>1, Times
    <3> HIDE DEF s
    <3> QED
      BY <3>1, <3>2 DEF Session
  <2>4. CASE Free(s)
    BY <1>6, <2>2, <2>4 DEF ResolveExtend, TypeInv, Free
  <2>5. CASE ~Free(s)
    <3>1. session' = [session EXCEPT ![s] =
              [session[s] EXCEPT !.left = SessionTtl - call[c].late, !.idle = call[c].late]]
      BY <1>6, <2>1, <2>5 DEF ResolveExtend, TypeInv, Session
    <3>2. session[s].user \in Users
      BY <2>1, <2>5 DEF TypeInv
    <3>3. \A r \in Sessions : session'[r] # NoRow => session'[r].user \in Users
      BY <2>1, <3>1, <3>2 DEF TypeInv, Session, Free
    <3> QED
      BY <1>6, <2>1, <2>2, <2>3, <3>1, <3>3 DEF ResolveExtend, TypeInv, Free
  <2> QED
    BY <2>4, <2>5
<1>7. CASE ResolveEnd(c)
  <2>1. call' \in [Calls -> Call] /\ \A d \in Calls : SoundCall(call'[d])
    BY <1>7, EndTypes DEF ResolveEnd
  <2>2. NoRow \in Session
    BY DEF NoRow, Session
  <2> QED
    BY <1>7, <2>1, <2>2 DEF ResolveEnd, TypeInv, Free
<1> QED
  BY <1>1, <1>2, <1>3, <1>4, <1>5, <1>6, <1>7 DEF SessionStep

\* Revoking the resets of an account, and any change of the state of a link.
LEMMA RevokedTypes ==
    ASSUME TypeInv, NEW u, link' = Revoked(u)
    PROVE  /\ link' \in [Links -> Link]
           /\ \A l \in Links : link'[l].kind = "reset" => link'[l].user \in Users
<1>1. \A l \in Links : [link[l] EXCEPT !.state = "revoked"] \in Link
  BY DEF TypeInv, Link, LinkStates
<1>2. \A l \in Links : link'[l] \in {link[l], [link[l] EXCEPT !.state = "revoked"]}
  BY DEF Revoked
<1>3. \A l \in Links : link'[l].kind = link[l].kind /\ link'[l].user = link[l].user
  BY <1>2 DEF TypeInv, Link
<1> QED
  BY <1>1, <1>3 DEF Revoked, TypeInv

LEMMA StateTypes ==
    ASSUME TypeInv, NEW l, NEW p \in LinkStates, link' = [link EXCEPT ![l].state = p]
    PROVE  /\ link' \in [Links -> Link]
           /\ \A k \in Links : link'[k].kind = "reset" => link'[k].user \in Users
<1>1. l \in Links => [link[l] EXCEPT !.state = p] \in Link
  BY DEF TypeInv, Link
<1> QED
  BY <1>1 DEF TypeInv, Link

LEMMA AccessStepTypes ==
    ASSUME TypeInv, NEW c \in Calls, AccessStep(c)
    PROVE  TypeInv'
<1>1. CASE ResetLinkRevoke(c)
  <2>1. call' \in [Calls -> Call] /\ \A d \in Calls : SoundCall(call'[d])
    BY <1>1, GotoTypes DEF ResetLinkRevoke, Points
  <2>2. /\ link' \in [Links -> Link]
        /\ \A l \in Links : link'[l].kind = "reset" => link'[l].user \in Users
    BY <1>1, RevokedTypes DEF ResetLinkRevoke
  <2>3. crossed' \subseteq {"admins", "resets"}
    BY <1>1 DEF ResetLinkRevoke, TypeInv
  <2> QED
    BY <1>1, <2>1, <2>2, <2>3 DEF ResetLinkRevoke, TypeInv, Free
<1>2. CASE ResetLinkCreate(c)
  <2>1. call' \in [Calls -> Call] /\ \A d \in Calls : SoundCall(call'[d])
    BY <1>2, EndTypes DEF ResetLinkCreate
  <2> DEFINE row == [kind |-> "reset", state |-> "free", user |-> call[c].user,
                     role |-> "none", left |-> LinkTtl - call[c].late]
  <2>2. PICK l \in Links : link' = [link EXCEPT ![l] = row]
    BY <1>2 DEF ResetLinkCreate
  <2>3. call[c].user \in Users /\ call[c].late \in Int
    BY <1>2 DEF ResetLinkCreate, At, TypeInv, SoundCall, Call
  <2>4. row \in Link /\ row.user \in Users
    BY <2>3, Times DEF Link, LinkStates, Roles
  <2> HIDE DEF row
  <2> QED
    BY <1>2, <2>1, <2>2, <2>4 DEF ResetLinkCreate, TypeInv, Free
<1>3. CASE RevokeWrite(c)
  <2>1. call' \in [Calls -> Call] /\ \A d \in Calls : SoundCall(call'[d])
    BY <1>3, EndTypes DEF RevokeWrite
  <2>2. \E p \in LinkStates : link' = [link EXCEPT ![call[c].link].state = p]
    BY <1>3 DEF RevokeWrite, LinkStates
  <2>3. /\ link' \in [Links -> Link]
        /\ \A l \in Links : link'[l].kind = "reset" => link'[l].user \in Users
    BY <2>2, StateTypes
  <2> QED
    BY <1>3, <2>1, <2>3 DEF RevokeWrite, TypeInv, Free
<1>4. CASE Register(c)
  <2> DEFINE u == call[c].user
             l == call[c].link
  <2>1. u \in Users /\ l \in Links /\ call[c].role \in Roles
    BY <1>4 DEF Register, At, TypeInv, SoundCall, Call
  <2>2. call' \in [Calls -> Call] /\ \A d \in Calls : SoundCall(call'[d])
    BY <1>4, <2>1, GotoTypes DEF Register, Points
  <2>3. [link[l] EXCEPT !.state = "used", !.user = u] \in Link
    <3>1. link[l] \in Link /\ "used" \in LinkStates
      BY <2>1 DEF TypeInv, LinkStates
    <3> HIDE DEF l, u
    <3> QED
      BY <2>1, <3>1 DEF Link
  <2>4. link' = [link EXCEPT ![l] = [link[l] EXCEPT !.state = "used", !.user = u]]
    BY <1>4, <2>1 DEF Register, TypeInv
  <2>5. [role |-> call[c].role, active |-> TRUE, from |-> l] \in User
    BY <2>1 DEF User
  <2>6. user' = [user EXCEPT ![u] = [role |-> call[c].role, active |-> TRUE, from |-> l]]
    BY <1>4 DEF Register
  <2>7. /\ link' \in [Links -> Link]
        /\ \A k \in Links : link'[k].kind = "reset" => link'[k].user \in Users
    BY <2>1, <2>3, <2>4 DEF TypeInv, Link
  <2> HIDE DEF u, l
  <2>8. user' \in [Users -> User]
    BY <2>5, <2>6 DEF TypeInv
  <2> QED
    BY <1>4, <2>2, <2>7, <2>8 DEF Register, TypeInv, Free
<1>5. CASE RegisterFails(c) \/ ResetFails(c)
  <2>1. End(c) /\ UNCHANGED <<user, session, link, attempts, crossed, spent>>
    BY <1>5 DEF RegisterFails, ResetFails
  <2>2. call' \in [Calls -> Call] /\ \A d \in Calls : SoundCall(call'[d])
    BY <2>1, EndTypes
  <2> QED
    BY <2>1, <2>2 DEF TypeInv, Free
<1>6. CASE Reset(c)
  <2>1. call[c].user \in Users
    BY <1>6 DEF Reset, At, TypeInv, SoundCall
  <2>2. call' \in [Calls -> Call] /\ \A d \in Calls : SoundCall(call'[d])
    BY <1>6, <2>1, GotoTypes DEF Reset, Points
  <2>3. /\ link' \in [Links -> Link]
        /\ \A l \in Links : link'[l].kind = "reset" => link'[l].user \in Users
    BY <1>6, StateTypes DEF Reset, Claim, LinkStates
  <2>4. NoRow \in Session
    BY DEF NoRow, Session
  <2> QED
    BY <1>6, <2>2, <2>3, <2>4 DEF Reset, TypeInv, Free
<1> QED
  BY <1>1, <1>2, <1>3, <1>4, <1>5, <1>6 DEF AccessStep

LEMMA UserStepTypes ==
    ASSUME TypeInv, NEW c \in Calls, UserStep(c)
    PROVE  TypeInv'
<1>0. NoRow \in Session
  BY DEF NoRow, Session
<1>1. CASE CountAdmins(c)
  <2>1. Goto(c, "write") \/ End(c)
    BY <1>1 DEF CountAdmins
  <2>2. call' \in [Calls -> Call] /\ \A d \in Calls : SoundCall(call'[d])
    BY <2>1, GotoTypes, EndTypes DEF Points
  <2> QED
    BY <1>1, <2>2 DEF CountAdmins, TypeInv, Free
<1>2. CASE SetRole(c)
  <2>1. call' \in [Calls -> Call] /\ \A d \in Calls : SoundCall(call'[d])
    BY <1>2, EndTypes DEF SetRole
  <2>2. call[c].role \in Roles
    BY DEF TypeInv, Call
  <2>3. user' \in [Users -> User]
    BY <1>2, <2>2 DEF SetRole, TypeInv, User
  <2> QED
    BY <1>2, <2>1, <2>3 DEF SetRole, TypeInv, Free
<1>3. CASE BlockUser(c)
  <2>1. call' \in [Calls -> Call] /\ \A d \in Calls : SoundCall(call'[d])
    BY <1>3, EndTypes DEF BlockUser
  <2>2. /\ link' \in [Links -> Link]
        /\ \A l \in Links : link'[l].kind = "reset" => link'[l].user \in Users
    BY <1>3, RevokedTypes DEF BlockUser
  <2>3. user' \in [Users -> User]
    BY <1>3 DEF BlockUser, TypeInv, User
  <2> QED
    BY <1>0, <1>3, <2>1, <2>2, <2>3 DEF BlockUser, TypeInv, Free
<1>4. CASE ChangePassword(c)
  <2>1. call' \in [Calls -> Call] /\ \A d \in Calls : SoundCall(call'[d])
    BY <1>4, EndTypes DEF ChangePassword
  <2> QED
    BY <1>0, <1>4, <2>1 DEF ChangePassword, TypeInv, Free
<1> QED
  BY <1>1, <1>2, <1>3, <1>4 DEF UserStep

LEMMA TickTypes ==
    ASSUME TypeInv, Tick
    PROVE  TypeInv'
<1>1. \A i \in Int : Later(i) \in Int
  BY Times DEF Later
<1>2. \A s \in Sessions :
        [session[s] EXCEPT !.left = Later(@), !.idle = IF @ < SessionTtl THEN @ + 1 ELSE @]
            \in [user : {session[s].user}, left : Int, idle : Nat]
  <2> TAKE s \in Sessions
  <2>1. session[s] \in [user : {session[s].user}, left : Int, idle : Nat]
    BY DEF TypeInv, Session
  <2>2. Later(session[s].left) \in Int
    BY <1>1, <2>1
  <2>3. (IF session[s].idle < SessionTtl THEN session[s].idle + 1 ELSE session[s].idle) \in Nat
    BY <2>1
  <2> QED
    BY <2>1, <2>2, <2>3
<1>3. /\ session' \in [Sessions -> Session]
      /\ \A s \in Sessions : session'[s] # NoRow => session'[s].user \in Users
  <2>1. NoRow \in Session
    BY DEF NoRow, Session
  <2>2. \A s \in Sessions : session'[s] # NoRow =>
            ~Free(s) /\ session'[s] \in [user : {session[s].user}, left : Int, idle : Nat]
    BY <1>2 DEF Tick
  <2>3. \A s \in Sessions : session'[s] # NoRow =>
            session'[s] \in Session /\ session'[s].user \in Users
    BY <2>2 DEF TypeInv, Session
  <2> QED
    BY <2>1, <2>3 DEF Tick
<1>4. /\ link' \in [Links -> Link]
      /\ \A l \in Links : link'[l].kind = link[l].kind /\ link'[l].user = link[l].user
  <2>1. \A l \in Links : [link[l] EXCEPT !.left = Later(@)] \in Link
    BY <1>1 DEF TypeInv, Link
  <2> QED
    BY <2>1 DEF Tick, TypeInv, Link
<1>5. attempts' \in [Users -> [count : Nat, left : Nat]]
  <2>1. \A u \in Users : ~(attempts[u].left <= 1) =>
            [attempts[u] EXCEPT !.left = @ - 1] \in [count : Nat, left : Nat]
    BY DEF TypeInv
  <2> QED
    BY <2>1 DEF Tick, TypeInv
<1>6. call' \in [Calls -> Call] /\ \A d \in Calls : SoundCall(call'[d])
  <2>1. \A c \in Calls : [call[c] EXCEPT !.late = @ + 1] \in Call
    <3> TAKE c \in Calls
    <3>1. call[c] \in Call /\ call[c].late + 1 \in Nat
      BY DEF TypeInv, Call
    <3> QED
      BY <3>1 DEF Call
  <2>2. \A c \in Calls : SoundCall([call[c] EXCEPT !.late = @ + 1])
    BY DEF TypeInv, SoundCall, Call
  <2> QED
    BY <2>1, <2>2 DEF Tick, TypeInv
<1> QED
  BY <1>3, <1>4, <1>5, <1>6 DEF Tick, TypeInv, Free

\* The steps that are no part of a call.
LEMMA LoneStepTypes ==
    ASSUME TypeInv,
           \/ Restart \/ Sweep \/ \E s \in Sessions : Logout(s)
           \/ \E l \in Links, role \in {"user", "admin"} : CreateInvite(l, role)
           \/ \E u \in Users : UnblockUser(u)
           \/ UNCHANGED vars
    PROVE  TypeInv'
<1>0. NoRow \in Session
  BY DEF NoRow, Session
<1>1. CASE Restart
  BY <1>1, IdleTypes DEF Restart, TypeInv, Free
<1>2. CASE Sweep
  BY <1>0, <1>2 DEF Sweep, TypeInv, Free
<1>3. CASE \E s \in Sessions : Logout(s)
  BY <1>0, <1>3 DEF Logout, Spend, TypeInv, Free
<1>4. CASE \E l \in Links, role \in {"user", "admin"} : CreateInvite(l, role)
  <2>1. PICK l \in Links, role \in {"user", "admin"} : CreateInvite(l, role)
    BY <1>4
  <2> DEFINE row == [kind |-> "invite", state |-> "free", user |-> NoUser,
                     role |-> role, left |-> LinkTtl]
  <2>2. row \in Link /\ row.kind = "invite"
    BY Times DEF Link, LinkStates, Roles
  <2>3. link' = [link EXCEPT ![l] = row]
    BY <2>1 DEF CreateInvite
  <2> HIDE DEF row
  <2> QED
    BY <2>1, <2>2, <2>3 DEF CreateInvite, Spend, TypeInv, Free
<1>5. CASE \E u \in Users : UnblockUser(u)
  <2>1. \A u \in Users : [user[u] EXCEPT !.active = TRUE] \in User
    BY DEF TypeInv, User
  <2>2. user' \in [Users -> User]
    BY <1>5, <2>1 DEF UnblockUser, TypeInv
  <2> QED
    BY <1>5, <2>2 DEF UnblockUser, Spend, TypeInv, Free
<1>6. CASE UNCHANGED vars
  BY <1>6 DEF vars, TypeInv, Free
<1> QED
  BY <1>1, <1>2, <1>3, <1>4, <1>5, <1>6

LEMMA StepTypes == TypeInv /\ [Next]_vars => TypeInv'
<1> SUFFICES ASSUME TypeInv, [Next]_vars
             PROVE  TypeInv'
  OBVIOUS
<1>1. CASE \E c \in Calls : \/ StartSessionCall(c) \/ StartAccessCall(c) \/ StartUserCall(c)
                            \/ SessionStep(c) \/ AccessStep(c) \/ UserStep(c)
  BY <1>1, StartSessionCallTypes, StartAccessCallTypes, StartUserCallTypes,
     SessionStepTypes, AccessStepTypes, UserStepTypes
<1>2. CASE Tick
  BY <1>2, TickTypes
<1> QED
  BY <1>1, <1>2, LoneStepTypes DEF Next

\* Rows, links, counters and calls keep their types; in particular every call
\* is about an account, a session or a link that there is.
THEOREM AccountsTyped == Spec => []TypeInv
<1>1. Init => TypeInv
  <2> SUFFICES ASSUME Init
               PROVE  TypeInv
    OBVIOUS
  <2>1. NoLinkRow \in Link /\ NoLinkRow.kind = "invite"
    BY DEF NoLinkRow, Link, LinkStates, Roles
  <2>2. NoRow \in Session
    BY DEF NoRow, Session
  <2>3. user \in [Users -> User]
    BY DEF Init, User, Roles
  <2> QED
    BY <2>1, <2>2, <2>3, IdleTypes DEF Init, TypeInv, Free
<1> QED
  BY <1>1, StepTypes, PTL DEF Spec

-----------------------------------------------------------------------------
\* Links. The steps of calls that start write no row and no link.
CallStarts(c) == StartSessionCall(c) \/ StartAccessCall(c) \/ StartUserCall(c)

LEMMA StartsWriteNothing ==
    ASSUME NEW c \in Calls, CallStarts(c)
    PROVE  /\ UNCHANGED <<user, session, link, attempts, crossed>>
           /\ call[c].at = "idle"
           /\ \E k : call' = [call EXCEPT ![c] = k]
BY DEF CallStarts, StartSessionCall, StartAccessCall, StartUserCall, StartLogin, StartResolve,
       StartResetLink, StartRevoke, StartReset, StartRegister, StartRole, StartBlock,
       StartPassword, Start

\* What steps do to the links: a used one stays as it is.
LEMMA UsedStaysUsed ==
    ASSUME TypeInv, [Next]_vars, NEW l \in Links, link[l].state = "used"
    PROVE  link'[l].state = "used" /\ link'[l].user = link[l].user
<1>1. \A u : Revoked(u)[l] = link[l]
  BY DEF Revoked
<1>2. CASE \E c \in Calls : AccessStep(c)
  <2>1. PICK c \in Calls : AccessStep(c)
    BY <1>2
  <2>2. CASE ResetLinkRevoke(c)
    BY <1>1, <2>2 DEF ResetLinkRevoke
  <2>3. CASE ResetLinkCreate(c)
    BY <2>3 DEF ResetLinkCreate, Unused, TypeInv
  <2>4. CASE RevokeWrite(c)
    BY <2>4 DEF RevokeWrite, TypeInv, Link
  <2>5. CASE Register(c) \/ Reset(c)
    BY <2>5 DEF Register, Reset, Claimable, Claim, TypeInv, Link
  <2>6. CASE RegisterFails(c) \/ ResetFails(c)
    BY <2>6 DEF RegisterFails, ResetFails
  <2> QED
    BY <2>1, <2>2, <2>3, <2>4, <2>5, <2>6 DEF AccessStep
<1>3. CASE \E c \in Calls : BlockUser(c)
  BY <1>1, <1>3 DEF BlockUser
<1>4. CASE \E k \in Links, role \in {"user", "admin"} : CreateInvite(k, role)
  BY <1>4 DEF CreateInvite, Unused, TypeInv
<1>5. CASE Tick
  BY <1>5 DEF Tick
<1>6. CASE \E c \in Calls : CallStarts(c)
  BY <1>6, StartsWriteNothing
<1> QED
  BY <1>2, <1>3, <1>4, <1>5, <1>6
  DEF Next, vars, CallStarts, SessionStep, UserStep, Restart, Sweep, Logout, UnblockUser,
      LoginRead, LoginFails, LoginSucceeds, StartSession, ResolveRead, ResolveExtend, ResolveEnd,
      CountAdmins, SetRole, ChangePassword

\* Which invitation an account is from is written where it registers.
LEMMA FromIsWrittenOnce ==
    ASSUME TypeInv, [Next]_vars, NEW u \in Users
    PROVE  user'[u].from = user[u].from \/ \E c \in Calls : Register(c) /\ call[c].user = u
<1>1. CASE \E c \in Calls : Register(c)
  BY <1>1 DEF Register, TypeInv
<1>2. CASE \E c \in Calls : SetRole(c) \/ BlockUser(c)
  BY <1>2 DEF SetRole, BlockUser, TypeInv, User
<1>3. CASE \E v \in Users : UnblockUser(v)
  BY <1>3 DEF UnblockUser, TypeInv, User
<1>4. CASE \E c \in Calls : CallStarts(c)
  BY <1>4, StartsWriteNothing
<1>5. CASE UNCHANGED user
  BY <1>5
<1> QED
  BY <1>1, <1>2, <1>3, <1>4, <1>5
  DEF Next, vars, CallStarts, SessionStep, UserStep, AccessStep, Tick, Restart, Sweep, Logout,
      CreateInvite, LoginRead, LoginFails, LoginSucceeds, StartSession, ResolveRead,
      ResolveExtend, ResolveEnd, ResetLinkRevoke, ResetLinkCreate, RevokeWrite, RegisterFails,
      Reset, ResetFails, CountAdmins, ChangePassword

LEMMA OneAccountStep == TypeInv /\ OneAccountPerInvite /\ [Next]_vars => OneAccountPerInvite'
<1> SUFFICES ASSUME TypeInv, OneAccountPerInvite, [Next]_vars
             PROVE  OneAccountPerInvite'
  OBVIOUS
<1>1. CASE \E c \in Calls : Register(c)
  <2>1. PICK c \in Calls : Register(c)
    BY <1>1
  <2> DEFINE l == call[c].link
             w == call[c].user
  <2>2. l \in Links /\ w \in Users /\ link[l].state = "free"
    BY <2>1 DEF Register, At, Claimable, TypeInv, SoundCall
  <2>3. link'[l].state = "used" /\ link'[l].user = w
    BY <2>1, <2>2 DEF Register, TypeInv, Link
  <2>4. /\ user'[w].from = l
        /\ \A u \in Users \ {w} : user'[u] = user[u]
    BY <2>1, <2>2 DEF Register, TypeInv
  <2>5. \A u \in Users : user[u].from # l
    BY <2>2, AccountsAssumption DEF OneAccountPerInvite
  <2> HIDE DEF l, w
  <2>6. \A u \in Users : user[u].from # NoLink => user[u].from \in Links
    BY DEF TypeInv, User
  <2> QED
    BY <2>2, <2>3, <2>4, <2>5, <2>6, UsedStaysUsed DEF OneAccountPerInvite
<1>2. CASE ~ \E c \in Calls : Register(c)
  <2>1. \A u \in Users : user'[u].from = user[u].from
    BY <1>2, FromIsWrittenOnce
  <2>2. \A u \in Users : user[u].from # NoLink => user[u].from \in Links
    BY DEF TypeInv, User
  <2> QED
    BY <2>1, <2>2, UsedStaysUsed DEF OneAccountPerInvite
<1> QED
  BY <1>1, <1>2

\* A step of a call leaves the records of the other calls alone.
CallSteps(c) == CallStarts(c) \/ SessionStep(c) \/ AccessStep(c) \/ UserStep(c)

LEMMA OtherCallsStay ==
    ASSUME TypeInv, NEW c \in Calls, CallSteps(c), NEW d \in Calls \ {c}
    PROVE  call'[d] = call[d]
<1>1. CASE CallStarts(c)
  BY <1>1, StartsWriteNothing DEF TypeInv
<1>2. CASE SessionStep(c)
  BY <1>2 DEF SessionStep, LoginRead, LoginFails, LoginSucceeds, StartSession, ResolveRead,
              ResolveExtend, ResolveEnd, Goto, End, TypeInv
<1>3. CASE AccessStep(c)
  BY <1>3 DEF AccessStep, ResetLinkRevoke, ResetLinkCreate, RevokeWrite, Register,
              RegisterFails, Reset, ResetFails, Goto, End, TypeInv
<1>4. CASE UserStep(c)
  BY <1>4 DEF UserStep, CountAdmins, SetRole, BlockUser, ChangePassword, Goto, End, TypeInv
<1> QED
  BY <1>1, <1>2, <1>3, <1>4 DEF CallSteps

\* Every step is one of a call, or one that starts, moves and ends no call
\* but by stopping them all.
LEMMA StepsByCall ==
    ASSUME TypeInv, [Next]_vars
    PROVE  \/ \E c \in Calls : CallSteps(c)
           \/ \A c \in Calls : \/ call'[c] = NoCallRow
                               \/ call'[c] = call[c]
                               \/ call'[c] = [call[c] EXCEPT !.late = @ + 1]
<1>1. CASE Tick
  BY <1>1 DEF Tick
<1>2. CASE Restart
  BY <1>2 DEF Restart
<1> QED
  BY <1>1, <1>2
  DEF Next, vars, CallSteps, CallStarts, Sweep, Logout, CreateInvite, UnblockUser

\* Where calls start: a login below the limit, and none past what it must count.
LEMMA StartRecord ==
    ASSUME TypeInv, NEW c \in Calls, NEW kind, NEW point, NEW row \in Call,
           Start(c, kind, point, row)
    PROVE  /\ call'[c].kind = kind /\ call'[c].at = point
           /\ call'[c].user = row.user /\ call'[c].role = row.role
BY DEF Start, TypeInv, Call

LEMMA Openings ==
    ASSUME TypeInv, NEW c \in Calls, CallStarts(c)
    PROVE  \/ call'[c].at \in {"revoke", "claim", "count"}
           \/ call'[c].at = "read" /\ call'[c].kind = "resolve"
           \/ call'[c].at = "read" /\ call'[c].kind = "login" /\ ~IsBlocked(call'[c].user)
           \/ call'[c].at = "write" /\ call'[c].kind \in {"revoke", "password"}
           \/ call'[c].at = "write" /\ call'[c].kind = "role" /\ call'[c].role = "admin"
<1>1. CASE \E u \in Users, right \in BOOLEAN : StartLogin(c, u, right)
  <2>1. PICK u \in Users, right \in BOOLEAN : StartLogin(c, u, right)
    BY <1>1
  <2> DEFINE row == [NoCallRow EXCEPT !.user = u, !.right = right]
  <2>2. row \in Call /\ row.user = u
    BY IdleTypes DEF Call
  <2>3. Start(c, "login", "read", row) /\ ~IsBlocked(u)
    BY <2>1 DEF StartLogin
  <2> HIDE DEF row
  <2> QED
    BY <2>2, <2>3, StartRecord
<1>2. CASE \E s \in Sessions : StartResolve(c, s)
  <2>1. PICK s \in Sessions : StartResolve(c, s)
    BY <1>2
  <2>2. [NoCallRow EXCEPT !.session = s] \in Call
    BY IdleTypes DEF Call
  <2> QED
    BY <2>1, <2>2, StartRecord DEF StartResolve
<1>3. CASE \E u \in Users : StartResetLink(c, u) \/ StartBlock(c, u)
  <2>1. PICK u \in Users : StartResetLink(c, u) \/ StartBlock(c, u)
    BY <1>3
  <2>2. [NoCallRow EXCEPT !.user = u] \in Call
    BY IdleTypes DEF Call
  <2> QED
    BY <2>1, <2>2, StartRecord DEF StartResetLink, StartBlock
<1>4. CASE \E l \in Links : StartRevoke(c, l)
  <2>1. PICK l \in Links : StartRevoke(c, l)
    BY <1>4
  <2>2. [NoCallRow EXCEPT !.link = l] \in Call
    BY IdleTypes DEF Call
  <2> QED
    BY <2>1, <2>2, StartRecord DEF StartRevoke
<1>5. CASE \E l \in Links : StartReset(c, l)
  <2>1. PICK l \in Links : StartReset(c, l)
    BY <1>5
  <2>2. [NoCallRow EXCEPT !.link = l, !.user = link[l].user] \in Call
    BY IdleTypes DEF Call, TypeInv, Link
  <2> QED
    BY <2>1, <2>2, StartRecord DEF StartReset
<1>6. CASE \E l \in Links, u \in Users : StartRegister(c, l, u)
  <2>1. PICK l \in Links, u \in Users : StartRegister(c, l, u)
    BY <1>6
  <2>2. [NoCallRow EXCEPT !.link = l, !.user = u, !.role = link[l].role] \in Call
    BY IdleTypes DEF Call, TypeInv, Link
  <2> QED
    BY <2>1, <2>2, StartRecord DEF StartRegister
<1>7. CASE \E u \in Users, r \in {"user", "admin"} : StartRole(c, u, r)
  <2>1. PICK u \in Users, r \in {"user", "admin"} : StartRole(c, u, r)
    BY <1>7
  <2> DEFINE row == [NoCallRow EXCEPT !.user = u, !.role = r]
  <2>2. row \in Call /\ row.role = r
    BY IdleTypes DEF Call, Roles
  <2>3. \/ r = "admin" /\ Start(c, "role", "write", row)
        \/ Start(c, "role", "count", row)
    BY <2>1 DEF StartRole
  <2> HIDE DEF row
  <2> QED
    BY <2>2, <2>3, StartRecord
<1>8. CASE \E s \in Sessions : StartPassword(c, s)
  <2>1. PICK s \in Sessions : StartPassword(c, s)
    BY <1>8
  <2>2. [NoCallRow EXCEPT !.session = s, !.user = session[s].user] \in Call
    BY IdleTypes DEF Call, TypeInv, Session
  <2> QED
    BY <2>1, <2>2, StartRecord DEF StartPassword
<1> QED
  BY <1>1, <1>2, <1>3, <1>4, <1>5, <1>6, <1>7, <1>8
  DEF CallStarts, StartSessionCall, StartAccessCall, StartUserCall

\* Only createResetLink, having revoked the links before, comes to make one.
LEMMA MakersRevoked ==
    ASSUME TypeInv, [Next]_vars, NEW c \in Calls, Making(c)'
    PROVE  /\ Making(c) \/ ResetLinkRevoke(c)
           /\ call'[c].user = call[c].user
<1>1. CASE \E d \in Calls : CallSteps(d)
  <2>1. PICK d \in Calls : CallSteps(d)
    BY <1>1
  <2>2. CASE d # c
    BY <2>1, <2>2, OtherCallsStay DEF Making, At
  <2>3. CASE CallStarts(c)
    BY <2>3, Openings DEF Making, At
  <2>4. CASE SessionStep(c)
    BY <2>4 DEF SessionStep, LoginRead, LoginFails, LoginSucceeds, StartSession, ResolveRead,
       ResolveExtend, ResolveEnd, Goto, End, Making, At, TypeInv, Call, NoCallRow
  <2>5. CASE AccessStep(c)
    BY <2>5 DEF AccessStep, ResetLinkRevoke, ResetLinkCreate, RevokeWrite, Register,
       RegisterFails, Reset, ResetFails, Goto, End, Making, At, TypeInv, Call, NoCallRow
  <2>6. CASE UserStep(c)
    BY <2>6 DEF UserStep, CountAdmins, SetRole, BlockUser, ChangePassword, Goto, End, Making,
       At, TypeInv, Call, NoCallRow
  <2> QED
    BY <2>1, <2>2, <2>3, <2>4, <2>5, <2>6 DEF CallSteps
<1>2. CASE ~ \E d \in Calls : CallSteps(d)
  <2>1. \/ call'[c] = NoCallRow \/ call'[c] = call[c]
        \/ call'[c] = [call[c] EXCEPT !.late = @ + 1]
    BY <1>2, StepsByCall
  <2> QED
    BY <2>1 DEF Making, At, NoCallRow, TypeInv, Call
<1> QED
  BY <1>1, <1>2

\* Only createResetLink brings a reset link that is free.
LEMMA FreeResetsAreMade ==
    ASSUME TypeInv, [Next]_vars, NEW l \in Links, NEW u, FreeReset(l, u)'
    PROVE  \/ FreeReset(l, u)
           \/ \E c \in Calls : /\ ResetLinkCreate(c) /\ call[c].user = u
                              /\ \A k \in Links \ {l} : link'[k] = link[k]
<1>1. CASE \E v : link' = Revoked(v)
  <2>1. link'[l] \in {link[l], [link[l] EXCEPT !.state = "revoked"]}
    BY <1>1 DEF Revoked
  <2> QED
    BY <2>1 DEF FreeReset, TypeInv, Link
<1>2. CASE \E c \in Calls : ResetLinkCreate(c)
  <2>1. PICK c \in Calls : ResetLinkCreate(c)
    BY <1>2
  <2>2. PICK k \in Links : link' = [link EXCEPT ![k] =
            [kind |-> "reset", state |-> "free", user |-> call[c].user,
             role |-> "none", left |-> LinkTtl - call[c].late]]
    BY <2>1 DEF ResetLinkCreate
  <2>3. \A j \in Links \ {k} : link'[j] = link[j]
    BY <2>2 DEF TypeInv
  <2>4. k = l => call[c].user = u
    BY <2>2 DEF FreeReset, TypeInv
  <2> QED
    BY <2>1, <2>3, <2>4 DEF FreeReset
<1>3. CASE \E c \in Calls : RevokeWrite(c)
  BY <1>3 DEF RevokeWrite, FreeReset, TypeInv, Link
<1>4. CASE \E c \in Calls : Register(c)
  <2>1. PICK c \in Calls : Register(c)
    BY <1>4
  <2>2. call[c].link \in Links
    BY <2>1 DEF Register, At, TypeInv, SoundCall
  <2>3. link'[call[c].link].state = "used"
    BY <2>1, <2>2 DEF Register, TypeInv, Link
  <2>4. l # call[c].link => link'[l] = link[l]
    BY <2>1 DEF Register, TypeInv
  <2> QED
    BY <2>3, <2>4 DEF FreeReset
<1>5. CASE \E c \in Calls : Reset(c)
  BY <1>5 DEF Reset, Claim, At, SoundCall, FreeReset, TypeInv, Link
<1>6. CASE \E k \in Links, role \in {"user", "admin"} : CreateInvite(k, role)
  BY <1>6 DEF CreateInvite, FreeReset, TypeInv, Link
<1>7. CASE Tick
  <2>1. link'[l].kind = link[l].kind /\ link'[l].state = link[l].state
        /\ link'[l].user = link[l].user
    BY <1>7 DEF Tick, TypeInv, Link
  <2> QED
    BY <2>1 DEF FreeReset
<1>8. CASE \E c \in Calls : CallStarts(c)
  BY <1>8, StartsWriteNothing DEF FreeReset
<1>9. CASE UNCHANGED link
  BY <1>9 DEF FreeReset
<1> QED
  BY <1>1, <1>2, <1>3, <1>4, <1>5, <1>6, <1>7, <1>8, <1>9
  DEF Next, vars, CallStarts, SessionStep, UserStep, AccessStep, Restart, Sweep, Logout,
      UnblockUser, LoginRead, LoginFails, LoginSucceeds, StartSession, ResolveRead,
      ResolveExtend, ResolveEnd, ResetLinkRevoke, RegisterFails, ResetFails, CountAdmins,
      SetRole, BlockUser, ChangePassword

\* What was crossed stays so.
LEMMA CrossedGrows == TypeInv /\ [Next]_vars => crossed \subseteq crossed'
BY StartsWriteNothing
DEF Next, vars, CallStarts, SessionStep, UserStep, AccessStep, Tick, Restart, Sweep, Logout,
    CreateInvite, UnblockUser, LoginRead, LoginFails, LoginSucceeds, StartSession, ResolveRead,
    ResolveExtend, ResolveEnd, ResetLinkRevoke, ResetLinkCreate, RevokeWrite, Register,
    RegisterFails, Reset, ResetFails, CountAdmins, SetRole, BlockUser, ChangePassword

LEMMA ResetStep == TypeInv /\ ResetInv /\ [Next]_vars => ResetInv'
<1> SUFFICES ASSUME TypeInv, ResetInv, [Next]_vars, "resets" \notin crossed'
             PROVE  /\ OneResetLink'
                    /\ \A c \in Calls : Making(c)' => NoneFree(call[c].user)'
                    /\ \A c, d \in Calls :
                          Making(c)' /\ Making(d)' /\ call'[c].user = call'[d].user => c = d
  BY DEF ResetInv
<1>1. "resets" \notin crossed
  BY CrossedGrows
<1>2. \A k, l \in Links : \A u : FreeReset(k, u) /\ FreeReset(l, u) => k = l
  BY <1>1 DEF ResetInv, OneResetLink, FreeReset
<1>3. \A k, l \in Links : \A u : FreeReset(k, u)' /\ FreeReset(l, u)' => k = l
  <2> SUFFICES ASSUME NEW k \in Links, NEW l \in Links, NEW u,
                      FreeReset(k, u)', FreeReset(l, u)'
               PROVE  k = l
    OBVIOUS
  <2>1. CASE FreeReset(k, u) /\ FreeReset(l, u)
    BY <1>2, <2>1
  <2>2. CASE ~FreeReset(k, u)
    <3>1. PICK c \in Calls : /\ ResetLinkCreate(c) /\ call[c].user = u
                             /\ \A j \in Links \ {k} : link'[j] = link[j]
      BY <2>2, FreeResetsAreMade
    <3>2. ~FreeReset(l, u)
      BY <1>1, <3>1 DEF ResetInv, NoneFree, Making, ResetLinkCreate
    <3> QED
      BY <3>1, <3>2 DEF FreeReset
  <2>3. CASE ~FreeReset(l, u)
    <3>1. PICK c \in Calls : /\ ResetLinkCreate(c) /\ call[c].user = u
                             /\ \A j \in Links \ {l} : link'[j] = link[j]
      BY <2>3, FreeResetsAreMade
    <3>2. ~FreeReset(k, u)
      BY <1>1, <3>1 DEF ResetInv, NoneFree, Making, ResetLinkCreate
    <3> QED
      BY <3>1, <3>2 DEF FreeReset
  <2> QED
    BY <2>1, <2>2, <2>3
<1>4. OneResetLink'
  BY <1>3 DEF OneResetLink, FreeReset
<1>5. ASSUME NEW c \in Calls, Making(c)'
      PROVE  NoneFree(call[c].user)'
  <2> SUFFICES ASSUME NEW l \in Links, NEW u, u = call'[c].user, FreeReset(l, u)'
               PROVE  FALSE
    BY DEF NoneFree, FreeReset
  <2>1. /\ Making(c) \/ ResetLinkRevoke(c)
        /\ call'[c].user = call[c].user
    BY <1>5, MakersRevoked
  <2>2. CASE ResetLinkRevoke(c)
    BY <2>1, <2>2 DEF ResetLinkRevoke, Revoked, FreeReset, TypeInv, Link
  <2>3. CASE Making(c)
    <3>1. ~FreeReset(l, call[c].user)
      BY <1>1, <2>3 DEF ResetInv, NoneFree
    <3>2. PICK d \in Calls : ResetLinkCreate(d) /\ call[d].user = call[c].user
      BY <2>1, <3>1, FreeResetsAreMade
    <3>3. d = c
      BY <1>1, <2>3, <3>2 DEF ResetInv, Making, ResetLinkCreate
    <3> QED
      BY <1>5, <3>2, <3>3 DEF ResetLinkCreate, End, Making, At, NoCallRow, TypeInv
  <2> QED
    BY <2>1, <2>2, <2>3
<1>6. ASSUME NEW c \in Calls, NEW d \in Calls, Making(c)', Making(d)',
             call'[c].user = call'[d].user
      PROVE  c = d
  <2>1. /\ Making(c) \/ ResetLinkRevoke(c)
        /\ Making(d) \/ ResetLinkRevoke(d)
        /\ call[c].user = call[d].user
    BY <1>6, MakersRevoked
  <2>2. CASE Making(c) /\ Making(d)
    BY <1>1, <2>1, <2>2 DEF ResetInv
  <2>3. ~(ResetLinkRevoke(c) /\ Making(d)) /\ ~(ResetLinkRevoke(d) /\ Making(c))
    BY <2>1 DEF ResetLinkRevoke, Making
  <2>4. CASE ResetLinkRevoke(c) /\ ResetLinkRevoke(d)
    BY <1>6, <2>4 DEF ResetLinkRevoke, Goto, At, Making, TypeInv, Call
  <2> QED
    BY <2>1, <2>2, <2>3, <2>4
<1> QED
  BY <1>4, <1>5, <1>6

\* An invitation makes at most one account, and of the links for a new password
\* at most one per account can be used, however registrations, resets and
\* revocations follow or overlap each other (access.service.ts).
THEOREM LinksWorkOnlyOnce == Spec => []LinksWorkOnce
<1>1. Init => OneAccountPerInvite /\ ResetInv
  BY DEF Init, OneAccountPerInvite, ResetInv, OneResetLink, Making, At, NoLinkRow, NoCallRow
<1>2. ResetInv => OneResetLink
  BY DEF ResetInv, OneResetLink
<1> QED
  BY <1>1, <1>2, AccountsTyped, OneAccountStep, ResetStep, PTL DEF Spec, LinksWorkOnce

-----------------------------------------------------------------------------
\* Administrators. Who comes to take away a role or to block has just counted.
LEMMA ReducersCounted ==
    ASSUME TypeInv, [Next]_vars, NEW c \in Calls, Reducing(c)'
    PROVE  /\ Reducing(c) \/ (CountAdmins(c) /\ OthersLeft(call[c].user))
           /\ call'[c].user = call[c].user
<1>1. CASE \E d \in Calls : CallSteps(d)
  <2>1. PICK d \in Calls : CallSteps(d)
    BY <1>1
  <2>2. CASE d # c
    BY <2>1, <2>2, OtherCallsStay DEF Reducing
  <2>3. CASE CallStarts(c)
    BY <2>3, Openings DEF Reducing
  <2>4. CASE SessionStep(c)
    BY <2>4 DEF SessionStep, LoginRead, LoginFails, LoginSucceeds, StartSession, ResolveRead,
       ResolveExtend, ResolveEnd, Goto, End, Reducing, TypeInv, Call, NoCallRow
  <2>5. CASE AccessStep(c)
    BY <2>5 DEF AccessStep, ResetLinkRevoke, ResetLinkCreate, RevokeWrite, Register,
       RegisterFails, Reset, ResetFails, Goto, End, Reducing, TypeInv, Call, NoCallRow
  <2>6. CASE UserStep(c)
    BY <2>6 DEF UserStep, CountAdmins, SetRole, BlockUser, ChangePassword, Goto, End, Reducing,
       TypeInv, Call, NoCallRow
  <2> QED
    BY <2>1, <2>2, <2>3, <2>4, <2>5, <2>6 DEF CallSteps
<1>2. CASE ~ \E d \in Calls : CallSteps(d)
  <2>1. \/ call'[c] = NoCallRow \/ call'[c] = call[c]
        \/ call'[c] = [call[c] EXCEPT !.late = @ + 1]
    BY <1>2, StepsByCall
  <2> QED
    BY <2>1 DEF Reducing, NoCallRow, TypeInv, Call
<1> QED
  BY <1>1, <1>2

\* Only such a call takes an administrator away, and only the one it is about.
LEMMA AdminsGoByCall ==
    ASSUME TypeInv, [Next]_vars, NEW v \in Administrators, v \notin Administrators'
    PROVE  \E c \in Calls : Reducing(c) /\ call[c].user = v
<1>0. v \in Users /\ user[v].role = "admin" /\ user[v].active
  BY DEF Administrators
<1>1. CASE \E c \in Calls : Register(c)
  <2>1. PICK c \in Calls : Register(c)
    BY <1>1
  <2>2. call[c].user # v
    BY <1>0, <2>1 DEF Register
  <2> QED
    BY <1>0, <2>1, <2>2 DEF Register, Administrators, TypeInv
<1>2. CASE \E c \in Calls : SetRole(c)
  <2>1. PICK c \in Calls : SetRole(c)
    BY <1>2
  <2>2. call[c].user = v /\ call[c].role # "admin"
    BY <1>0, <2>1 DEF SetRole, Administrators, TypeInv, User
  <2> QED
    BY <2>1, <2>2 DEF SetRole, At, Reducing
<1>3. CASE \E c \in Calls : BlockUser(c)
  <2>1. PICK c \in Calls : BlockUser(c)
    BY <1>3
  <2>2. call[c].user = v
    BY <1>0, <2>1 DEF BlockUser, Administrators, TypeInv, User
  <2> QED
    BY <2>1, <2>2 DEF BlockUser, At, Reducing
<1>4. CASE \E u \in Users : UnblockUser(u)
  BY <1>0, <1>4 DEF UnblockUser, Administrators, TypeInv, User
<1>5. CASE \E c \in Calls : CallStarts(c)
  BY <1>0, <1>5, StartsWriteNothing DEF Administrators
<1>6. CASE UNCHANGED user
  BY <1>0, <1>6 DEF Administrators
<1> QED
  BY <1>1, <1>2, <1>3, <1>4, <1>5, <1>6
  DEF Next, vars, CallStarts, SessionStep, UserStep, AccessStep, Tick, Restart, Sweep, Logout,
      CreateInvite, LoginRead, LoginFails, LoginSucceeds, StartSession, ResolveRead,
      ResolveExtend, ResolveEnd, ResetLinkRevoke, ResetLinkCreate, RevokeWrite, RegisterFails,
      Reset, ResetFails, CountAdmins, ChangePassword

LEMMA AdminStep == TypeInv /\ AdminInv /\ [Next]_vars => AdminInv'
<1> SUFFICES ASSUME TypeInv, AdminInv, [Next]_vars, "admins" \notin crossed'
             PROVE  /\ Administrators' # {}
                    /\ \A c \in Calls : Reducing(c)' =>
                          Administrators' \ {call'[c].user} # {}
                    /\ \A c, d \in Calls : Reducing(c)' /\ Reducing(d)' => c = d
  BY DEF AdminInv
<1>1. "admins" \notin crossed
  BY CrossedGrows
<1>2. /\ Administrators # {}
      /\ \A c \in Calls : Reducing(c) => Administrators \ {call[c].user} # {}
      /\ \A c, d \in Calls : Reducing(c) /\ Reducing(d) => c = d
  BY <1>1 DEF AdminInv
<1>3. Administrators' # {}
  <2>1. CASE Administrators \subseteq Administrators'
    BY <1>2, <2>1
  <2>2. CASE \E v \in Administrators : v \notin Administrators'
    <3>1. PICK c \in Calls : Reducing(c)
      BY <2>2, AdminsGoByCall
    <3>2. PICK w \in Administrators : w # call[c].user
      BY <1>2, <3>1
    <3> QED
      BY <1>2, <3>1, <3>2, AdminsGoByCall
  <2> QED
    BY <2>1, <2>2
<1>4. ASSUME NEW c \in Calls, Reducing(c)'
      PROVE  Administrators' \ {call'[c].user} # {}
  <2>1. /\ Reducing(c) \/ (CountAdmins(c) /\ OthersLeft(call[c].user))
        /\ call'[c].user = call[c].user
    BY <1>4, ReducersCounted
  <2>2. CASE Reducing(c)
    <3>1. PICK w \in Administrators : w # call[c].user
      BY <1>2, <2>2
    <3> QED
      BY <1>2, <2>1, <2>2, <3>1, AdminsGoByCall
  <2>3. CASE CountAdmins(c) /\ OthersLeft(call[c].user)
    <3>1. Administrators' = Administrators
      BY <2>3 DEF CountAdmins, Administrators
    <3> QED
      BY <2>1, <2>3, <3>1 DEF OthersLeft
  <2> QED
    BY <2>1, <2>2, <2>3
<1>5. ASSUME NEW c \in Calls, NEW d \in Calls, Reducing(c)', Reducing(d)', c # d
      PROVE  FALSE
  <2>1. ~(CountAdmins(c) /\ Reducing(d)) /\ ~(CountAdmins(d) /\ Reducing(c))
    BY <1>5 DEF CountAdmins, Counted, Reducing
  <2>2. ~(CountAdmins(c) /\ CountAdmins(d))
    BY <1>5 DEF CountAdmins, Goto, End, Reducing, TypeInv, Call
  <2> QED
    BY <1>2, <1>5, <2>1, <2>2, ReducersCounted
<1> QED
  BY <1>3, <1>4, <1>5

\* An active administrator is left, whatever roles, blocks and unblockings
\* follow each other, unless two calls counted the same administrators before
\* either had written (assertAdminLeft in users.service.ts).
THEOREM AnAdminIsLeft == Spec => []AdminLeft
<1>1. Init => AdminInv
  <2> SUFFICES ASSUME Init
               PROVE  AdminInv
    OBVIOUS
  <2>1. Administrators = FirstAdmins
    BY AccountsAssumption DEF Init, Administrators
  <2>2. \A c \in Calls : ~Reducing(c)
    BY DEF Init, Reducing, NoCallRow
  <2> QED
    BY <2>1, <2>2, AccountsAssumption DEF AdminInv
<1>2. AdminInv => AdminLeft
  BY DEF AdminInv, AdminLeft
<1> QED
  BY <1>1, <1>2, AccountsTyped, AdminStep, PTL DEF Spec

-----------------------------------------------------------------------------
\* Failed logins. A failure counts once, in its window or as the first of one.
LEMMA FailuresCounted ==
    ASSUME TypeInv, [Next]_vars, NEW u \in Users
    PROVE  /\ Failures(u) \in Nat /\ Failures(u)' \in Nat
           /\ \/ Failures(u)' <= Failures(u)
              \/ \E c \in Calls : /\ LoginFails(c) /\ call[c].user = u
                                 /\ Failures(u)' = Failures(u) + 1
<1>1. Failures(u) \in Nat /\ Failures(u)' \in Nat
  BY StepTypes DEF Failures, TypeInv
<1>2. CASE \E c \in Calls : LoginFails(c)
  <2>1. PICK c \in Calls : LoginFails(c)
    BY <1>2
  <2>2. CASE call[c].user # u
    BY <1>1, <2>1, <2>2 DEF LoginFails, RegisterFailure, Failures, TypeInv
  <2>3. CASE call[c].user = u
    <3>1. attempts[u] \in [count : Nat, left : Nat]
      BY DEF TypeInv
    <3>2. attempts'[u] = IF Failures(u) = 0 THEN [count |-> 1, left |-> Window]
                         ELSE [attempts[u] EXCEPT !.count = @ + 1]
      BY <2>1, <2>3 DEF LoginFails, RegisterFailure, TypeInv
    <3>3. Failures(u)' = Failures(u) + 1
      BY <3>1, <3>2, Times DEF Failures
    <3> QED
      BY <1>1, <2>1, <2>3, <3>3
  <2> QED
    BY <2>2, <2>3
<1>3. CASE \E c \in Calls : LoginSucceeds(c)
  BY <1>1, <1>3 DEF LoginSucceeds, Failures, TypeInv
<1>4. CASE Tick
  <2>1. attempts[u] \in [count : Nat, left : Nat]
    BY DEF TypeInv
  <2>2. attempts'[u] = IF attempts[u].left <= 1 THEN [count |-> 0, left |-> 0]
                       ELSE [attempts[u] EXCEPT !.left = @ - 1]
    BY <1>4 DEF Tick
  <2> QED
    BY <2>1, <2>2, <1>1 DEF Failures
<1>5. CASE Restart
  BY <1>1, <1>5 DEF Restart, Failures
<1>6. CASE \E c \in Calls : CallStarts(c)
  BY <1>1, <1>6, StartsWriteNothing DEF Failures
<1>7. CASE UNCHANGED attempts
  BY <1>1, <1>7 DEF Failures
<1> QED
  BY <1>2, <1>3, <1>4, <1>5, <1>6, <1>7
  DEF Next, vars, CallStarts, SessionStep, UserStep, AccessStep, Sweep, Logout, CreateInvite,
      UnblockUser, LoginRead, StartSession, ResolveRead, ResolveExtend, ResolveEnd,
      ResetLinkRevoke, ResetLinkCreate, RevokeWrite, Register, RegisterFails, Reset, ResetFails,
      CountAdmins, SetRole, BlockUser, ChangePassword

\* A login that may still fail was let in below the limit.
LEMMA PendingLetIn ==
    ASSUME TypeInv, [Next]_vars, NEW u \in Users, NEW c \in Pending(u)'
    PROVE  c \in Pending(u) \/ (CallStarts(c) /\ ~IsBlocked(u))
<1>0. c \in Calls
  BY DEF Pending
<1>1. CASE \E d \in Calls : CallSteps(d)
  <2>1. PICK d \in Calls : CallSteps(d)
    BY <1>1
  <2>2. CASE d # c
    BY <1>0, <2>1, <2>2, OtherCallsStay DEF Pending
  <2>3. CASE CallStarts(c)
    BY <1>0, <2>3, Openings DEF Pending
  <2>4. CASE SessionStep(c)
    BY <1>0, <2>4 DEF SessionStep, LoginRead, LoginFails, LoginSucceeds, StartSession,
       ResolveRead, ResolveExtend, ResolveEnd, Goto, End, Pending, At, TypeInv, Call, NoCallRow
  <2>5. CASE AccessStep(c)
    BY <1>0, <2>5 DEF AccessStep, ResetLinkRevoke, ResetLinkCreate, RevokeWrite, Register,
       RegisterFails, Reset, ResetFails, Goto, End, Pending, TypeInv, Call, NoCallRow
  <2>6. CASE UserStep(c)
    BY <1>0, <2>6 DEF UserStep, CountAdmins, SetRole, BlockUser, ChangePassword, Goto, End,
       Pending, TypeInv, Call, NoCallRow
  <2> QED
    BY <1>0, <2>1, <2>2, <2>3, <2>4, <2>5, <2>6 DEF CallSteps
<1>2. CASE ~ \E d \in Calls : CallSteps(d)
  <2>1. \/ call'[c] = NoCallRow \/ call'[c] = call[c]
        \/ call'[c] = [call[c] EXCEPT !.late = @ + 1]
    BY <1>0, <1>2, StepsByCall
  <2> QED
    BY <1>0, <2>1 DEF Pending, NoCallRow, TypeInv, Call
<1> QED
  BY <1>1, <1>2

LEMMA PendingFinite ==
    ASSUME NEW S, S \subseteq Calls
    PROVE  /\ IsFiniteSet(S) /\ Cardinality(S) \in Nat
           /\ Cardinality(S) <= Cardinality(Calls) /\ Cardinality(Calls) \in Nat
BY AccountsAssumption, FS_Subset, FS_CardinalityType

LEMMA FailuresStep == TypeInv /\ FailuresInv /\ [Next]_vars => FailuresInv'
<1> SUFFICES ASSUME TypeInv, FailuresInv, [Next]_vars, NEW u \in Users
             PROVE  Failures(u)' + Cardinality(Pending(u)') <= Limit + Cardinality(Calls) - 1
  BY DEF FailuresInv
<1> DEFINE P == Pending(u)
           Q == Pending(u)'
<1>1. P \subseteq Calls /\ Q \subseteq Calls
  BY DEF Pending
<1>2. /\ IsFiniteSet(P) /\ Cardinality(P) \in Nat /\ IsFiniteSet(Q) /\ Cardinality(Q) \in Nat
      /\ Cardinality(Q) <= Cardinality(Calls) /\ Cardinality(Calls) \in Nat
  BY <1>1, PendingFinite
<1>3. Failures(u) + Cardinality(P) <= Limit + Cardinality(Calls) - 1
  BY DEF FailuresInv
<1>4. Failures(u) \in Nat /\ Failures(u)' \in Nat /\ Limit \in Nat
  BY FailuresCounted, Times
<1>5. CASE \E c \in Q : c \notin P
  <2>1. PICK c \in Calls : CallStarts(c) /\ ~IsBlocked(u)
    BY <1>1, <1>5, PendingLetIn
  <2>2. Failures(u)' = Failures(u) /\ Failures(u) < Limit
    BY <1>4, <2>1, StartsWriteNothing DEF Failures, IsBlocked
  <2> HIDE DEF P, Q
  <2> QED
    BY <1>2, <1>4, <2>2 DEF Q
<1>6. CASE Q \subseteq P
  <2>1. Cardinality(Q) <= Cardinality(P)
    BY <1>2, <1>6, FS_Subset
  <2>2. CASE Failures(u)' <= Failures(u)
    <3> HIDE DEF P, Q
    <3> QED
      BY <1>2, <1>3, <1>4, <2>1, <2>2 DEF Q
  <2>3. CASE \E c \in Calls : /\ LoginFails(c) /\ call[c].user = u
                             /\ Failures(u)' = Failures(u) + 1
    <3>1. PICK c \in Calls : LoginFails(c) /\ call[c].user = u
      BY <2>3
    <3>2. c \in P
      BY <3>1 DEF LoginFails, At, Pending
    <3>3. c \notin Q
      BY <3>1 DEF LoginFails, End, Pending, NoCallRow, TypeInv
    <3>4. /\ IsFiniteSet(P \ {c}) /\ Cardinality(P \ {c}) = Cardinality(P) - 1
          /\ Cardinality(P \ {c}) \in Nat
      BY <1>2, <3>2, FS_RemoveElement, FS_CardinalityType
    <3>5. Cardinality(Q) <= Cardinality(P \ {c})
      BY <1>6, <3>3, <3>4, FS_Subset
    <3> HIDE DEF P, Q
    <3> QED
      BY <1>2, <1>3, <1>4, <2>3, <3>4, <3>5 DEF Q
  <2> QED
    BY <2>2, <2>3, FailuresCounted
<1> QED
  BY <1>5, <1>6

\* Logins verified at the same time overshoot the limit of failures in a window
\* by at most one each, so at most by the calls there can be less one
\* (LoginRateLimiter: isBlocked before the password is verified, and
\* registerFailure after).
THEOREM FailuresAreBounded == Spec => []FailuresBounded
<1>1. Init => FailuresInv
  <2> SUFFICES ASSUME Init, NEW u \in Users
               PROVE  Failures(u) + Cardinality(Pending(u)) <= Limit + Cardinality(Calls) - 1
    BY DEF FailuresInv
  <2>1. Failures(u) = 0
    BY DEF Init, Failures
  <2>2. Pending(u) = {}
    BY DEF Init, Pending, NoCallRow
  <2>3. Cardinality(Pending(u)) = 0
    BY <2>2, FS_EmptySet
  <2> QED
    BY <2>1, <2>3, Times, PendingFinite
<1>2. FailuresInv /\ TypeInv => FailuresBounded
  <2> SUFFICES ASSUME FailuresInv, TypeInv, NEW u \in Users
               PROVE  Failures(u) <= Limit + Cardinality(Calls) - 1
    BY DEF FailuresBounded
  <2>1. Cardinality(Pending(u)) \in Nat /\ Cardinality(Calls) \in Nat
    BY PendingFinite DEF Pending
  <2>2. Failures(u) \in Nat /\ Limit \in Nat
    BY Times DEF Failures, TypeInv
  <2> QED
    BY <2>1, <2>2 DEF FailuresInv
<1> QED
  BY <1>1, <1>2, AccountsTyped, FailuresStep, PTL DEF Spec

-----------------------------------------------------------------------------
\* Sessions in use.
UsedEnough(r) == r.idle >= SessionTtl \/ 2 * (r.left + r.idle) >= SessionTtl

LEMMA LaterIsLess == \A i \in Int : Later(i) \in Int /\ Later(i) >= i - 1
BY Times DEF Later

LEMMA UseStep == TypeInv /\ UseInv /\ [Next]_vars => UseInv'
<1> SUFFICES ASSUME TypeInv, UseInv, [Next]_vars, NEW s \in Sessions, session'[s] # NoRow
             PROVE  UsedEnough(session'[s])
  BY DEF UseInv, UsedEnough, Free
<1>0. session[s] \in Session /\ (~Free(s) => UsedEnough(session[s]))
  BY DEF TypeInv, UseInv, UsedEnough
<1>1. CASE session'[s] = session[s]
  BY <1>0, <1>1 DEF Free
<1>2. CASE Tick
  <2>1. ~Free(s) /\ session'[s] =
            [session[s] EXCEPT !.left = Later(@), !.idle = IF @ < SessionTtl THEN @ + 1 ELSE @]
    BY <1>2 DEF Tick
  <2>2. /\ session'[s].left = Later(session[s].left)
        /\ session'[s].idle = IF session[s].idle < SessionTtl THEN session[s].idle + 1
                               ELSE session[s].idle
    BY <1>0, <2>1 DEF Session
  <2>3. /\ session[s].left \in Int /\ session[s].idle \in Nat
        /\ Later(session[s].left) \in Int /\ Later(session[s].left) >= session[s].left - 1
    BY <1>0, LaterIsLess DEF Session
  <2> QED
    BY <1>0, <2>1, <2>2, <2>3, Times DEF UsedEnough
<1>3. CASE \E c \in Calls : StartSession(c)
  <2>1. PICK c \in Calls : StartSession(c)
    BY <1>3
  <2>2. session'[s] = session[s] \/ (session'[s].left = SessionTtl /\ session'[s].idle = 0)
    BY <2>1 DEF StartSession, TypeInv
  <2> QED
    BY <1>1, <2>2, Times DEF UsedEnough
<1>4. CASE \E c \in Calls : ResolveRead(c)
  <2>1. PICK c \in Calls : ResolveRead(c)
    BY <1>4
  <2>2. call[c].late \in Nat /\ session[s].left \in Int
    BY <1>0, <2>1 DEF TypeInv, Call, Session
  <2>3. CASE session'[s] # session[s]
    <3>1. /\ call[c].session = s /\ ~ShouldExtend(c, s)
          /\ session' = [session EXCEPT ![s].idle = call[c].late]
      BY <2>1, <2>3 DEF ResolveRead, TypeInv
    <3>2. session'[s].idle = call[c].late /\ session'[s].left = session[s].left
      BY <1>0, <3>1 DEF TypeInv, Session
    <3> QED
      BY <2>2, <3>1, <3>2, Times DEF ShouldExtend, UsedEnough
  <2> QED
    BY <1>1, <2>3
<1>5. CASE \E c \in Calls : ResolveExtend(c)
  <2>1. PICK c \in Calls : ResolveExtend(c)
    BY <1>5
  <2>2. call[c].late \in Nat
    BY DEF TypeInv, Call
  <2>3. \/ session'[s] = session[s]
        \/ session'[s].left = SessionTtl - call[c].late /\ session'[s].idle = call[c].late
    BY <1>0, <2>1 DEF ResolveExtend, TypeInv, Session
  <2> QED
    BY <1>1, <2>2, <2>3, Times DEF UsedEnough
<1>6. CASE \E c \in Calls : CallStarts(c)
  BY <1>1, <1>6, StartsWriteNothing
<1> QED
  BY <1>1, <1>2, <1>3, <1>4, <1>5, <1>6
  DEF Next, vars, CallStarts, SessionStep, UserStep, AccessStep, Restart, Sweep, Logout,
      CreateInvite, UnblockUser, LoginRead, LoginFails, LoginSucceeds, ResolveEnd,
      ResetLinkRevoke, ResetLinkCreate, RevokeWrite, Register, RegisterFails, Reset, ResetFails,
      CountAdmins, SetRole, BlockUser, ChangePassword, TypeInv

\* A session that has been let through within the last half of its time to live
\* is not given up for expired, whatever is extended, and found expired, next
\* to it (shouldExtendSession, resolveSession).
THEOREM UsedSessionsAreKept == Spec => UsedSessionKept
<1>1. Init => UseInv
  BY DEF Init, UseInv, Free
<1>2. TypeInv /\ UseInv /\ [Next]_vars =>
        [\A c \in Calls :
          LET s == call[c].session IN
          (call[c].at = "read" /\ call'[c].at = "end" /\ Active(session[s].user))
              => 2 * session[s].idle >= SessionTtl]_vars
  <2> SUFFICES ASSUME TypeInv, UseInv, [Next]_vars, NEW c \in Calls,
                      call[c].at = "read", call'[c].at = "end",
                      Active(session[call[c].session].user)
               PROVE  2 * session[call[c].session].idle >= SessionTtl
    OBVIOUS
  <2> DEFINE s == call[c].session
  <2>1. ResolveRead(c)
    <3>1. PICK d \in Calls : CallSteps(d)
      <4>1. CASE ~ \E d \in Calls : CallSteps(d)
        <5>1. \/ call'[c] = NoCallRow \/ call'[c] = call[c]
              \/ call'[c] = [call[c] EXCEPT !.late = @ + 1]
          BY <4>1, StepsByCall
        <5> QED
          BY <5>1 DEF NoCallRow, TypeInv, Call
      <4> QED
        BY <4>1
    <3>2. CallSteps(c)
      BY <3>1, OtherCallsStay
    <3>3. ~CallStarts(c)
      BY StartsWriteNothing
    <3>4. ~AccessStep(c)
      BY DEF AccessStep, ResetLinkRevoke, ResetLinkCreate, RevokeWrite, Register,
             RegisterFails, Reset, ResetFails, At
    <3>5. ~UserStep(c)
      BY DEF UserStep, CountAdmins, SetRole, BlockUser, ChangePassword, At
    <3> QED
      BY <3>2, <3>3, <3>4, <3>5 DEF CallSteps, SessionStep, LoginRead, LoginFails,
         LoginSucceeds, StartSession, ResolveExtend, ResolveEnd, At, TypeInv, Call
  <2>2. s \in Sessions /\ call[c].late \in Nat
    BY <2>1 DEF ResolveRead, At, TypeInv, SoundCall, Call
  <2>3. ~Free(s) /\ Expired(c, s)
    BY <2>1 DEF ResolveRead, Goto, End, NoCallRow, TypeInv, Call
  <2>4. session[s].left \in Int /\ session[s].idle \in Nat
    BY <2>2 DEF TypeInv, Session
  <2>5. session[s].idle >= SessionTtl \/ 2 * (session[s].left + session[s].idle) >= SessionTtl
    BY <2>2, <2>3 DEF UseInv
  <2> HIDE DEF s
  <2> QED
    BY <2>2, <2>3, <2>4, <2>5, Times DEF Expired, s
<1> QED
  BY <1>1, <1>2, AccountsTyped, UseStep, PTL DEF Spec, UsedSessionKept

=============================================================================
