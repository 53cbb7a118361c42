------------------------------ MODULE LockCalls ------------------------------
(***************************************************************************)
(* The edit lock of a request (locks.service.ts) and the blocking of a     *)
(* user, which drops that user's locks (users.service.ts).                 *)
(*                                                                         *)
(* No lock call is a transaction: each step is one autocommit statement    *)
(* and calls of other tabs come in between. Inserting the lock row has to  *)
(* wait for a FOR UPDATE of the Request row (its foreign key takes         *)
(* KEY SHARE); updating or deleting it does not.                           *)
(***************************************************************************)
EXTENDS RequestState

Renewed(c) == op[c].at + Ttl

\* acquireLock, up to its first statement on the lock.
StartAcquire(c, t) == Start(c, Ask("acquire", t), "expire")

\* deleteMany where expiresAt <= now
AcquireExpire(c) ==
    /\ At(c, "acquire", "expire")
    /\ lock' = IF Expired(lock, op[c].at) THEN NoLock ELSE lock
    /\ Goto(c, "create")
    /\ UNCHANGED <<clock, blocked, docVars, fileVars, rowTx>>

\* create: the row is free
AcquireCreate(c) ==
    /\ At(c, "acquire", "create")
    /\ lock = NoLock
    /\ rowTx = NoCall
    /\ lock' = [tab |-> op[c].tab, expires |-> Renewed(c)]
    /\ End(c)
    /\ UNCHANGED <<clock, blocked, docVars, fileVars, rowTx>>

\* create fails with P2002: somebody's row is there
AcquireTaken(c) ==
    /\ At(c, "acquire", "create")
    /\ lock # NoLock
    /\ Goto(c, "read")
    /\ UNCHANGED <<clock, lockVars, docVars, fileVars, rowTx>>

\* findUnique: our own row is to be renewed, anybody else's (or none) is not
AcquireRead(c) ==
    /\ At(c, "acquire", "read")
    /\ IF HoldsLock(c) THEN Goto(c, "renew") ELSE End(c)
    /\ UNCHANGED <<clock, lockVars, docVars, fileVars, rowTx>>

\* update where requestId: renews the row whoever owns it by now, and answers
\* acquired; P2025 when it is gone
AcquireRenew(c) ==
    /\ At(c, "acquire", "renew")
    /\ IF lock = NoLock
       THEN lock' = lock /\ End(c)
       ELSE lock' = [lock EXCEPT !.expires = Renewed(c)] /\ End(c)
    /\ UNCHANGED <<clock, blocked, docVars, fileVars, rowTx>>

-----------------------------------------------------------------------------
StartHeartbeat(c, t) == Start(c, Ask("heartbeat", t), "once")

\* updateMany of our own row, expired or not; LOCK_LOST when there is none
Heartbeat(c) ==
    /\ At(c, "heartbeat", "once")
    /\ IF HoldsLock(c)
       THEN lock' = [lock EXCEPT !.expires = Renewed(c)] /\ End(c)
       ELSE lock' = lock /\ End(c)
    /\ UNCHANGED <<clock, blocked, docVars, fileVars, rowTx>>

StartRelease(c, t) == Start(c, Ask("release", t), "once")

\* deleteMany of our own row
Release(c) ==
    /\ At(c, "release", "once")
    /\ lock' = IF HoldsLock(c) THEN NoLock ELSE lock
    /\ End(c)
    /\ UNCHANGED <<clock, blocked, docVars, fileVars, rowTx>>

\* The route admits administrators only.
StartForce(c, t) == UserOf[t] \in Admins /\ Start(c, Ask("force", t), "once")

\* upsert: the row becomes the administrator's; only its insert waits
ForceLock(c) ==
    /\ At(c, "force", "once")
    /\ lock = NoLock => rowTx = NoCall
    /\ lock' = [tab |-> op[c].tab, expires |-> Renewed(c)]
    /\ End(c)
    /\ UNCHANGED <<clock, blocked, docVars, fileVars, rowTx>>

-----------------------------------------------------------------------------
\* blockUser, up to its transaction: not oneself, and not already blocked
StartBlock(c, t, u) ==
    /\ UserOf[t] \in Admins /\ UserOf[t] # u /\ u \notin blocked
    /\ Start(c, [Ask("block", t) EXCEPT !.user = u], "once")

\* the transaction: sessions deleted, isActive = false
BlockUser(c) ==
    /\ At(c, "block", "once")
    /\ blocked' = blocked \cup {op[c].user}
    /\ Goto(c, "unblock")
    /\ UNCHANGED <<clock, lock, docVars, fileVars, rowTx>>

\* releaseUserLocks: the locks of that user are dropped
DropUserLocks(c) ==
    /\ At(c, "block", "unblock")
    /\ lock' = IF lock # NoLock /\ UserOf[lock.tab] = op[c].user
               THEN NoLock ELSE lock
    /\ End(c)
    /\ UNCHANGED <<clock, blocked, docVars, fileVars, rowTx>>

-----------------------------------------------------------------------------
StartLockCall(c) ==
    \E t \in Tabs :
        \/ StartAcquire(c, t)
        \/ StartHeartbeat(c, t)
        \/ StartRelease(c, t)
        \/ StartForce(c, t)
        \/ \E u \in Users : StartBlock(c, t, u)

LockStep(c) ==
    \/ AcquireExpire(c) \/ AcquireCreate(c) \/ AcquireTaken(c)
    \/ AcquireRead(c) \/ AcquireRenew(c)
    \/ Heartbeat(c) \/ Release(c) \/ ForceLock(c)
    \/ BlockUser(c) \/ DropUserLocks(c)

=============================================================================
