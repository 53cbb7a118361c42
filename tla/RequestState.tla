---------------------------- MODULE RequestState ----------------------------
(***************************************************************************)
(* The state behind one request (заявка) on the server: its Request row,   *)
(* RequestLock row, KP versions and attachments in PostgreSQL, the upload  *)
(* directory, and the API calls that are being served. Every other module  *)
(* of the request server EXTENDS this one and adds the handlers of one     *)
(* service.                                                                *)
(*                                                                         *)
(* A call is served by one or more atomic steps. Outside a transaction a   *)
(* step is one SQL statement; a transaction that starts with               *)
(* SELECT ... FOR UPDATE on the Request row is a step that takes the row   *)
(* (rowTx), steps that read rows it does not protect, and a commit.        *)
(***************************************************************************)
EXTENDS Integers, FiniteSets, Sequences

CONSTANTS
    Tabs,         \* browser tabs: one (user, X-Session-Id) pair each
    Users,        \* the users who own the tabs
    UserOf,       \* the owner of each tab
    Admins,       \* users whose role is admin
    Calls,        \* API calls that can be in progress at the same time
    Kinds,        \* kinds of call the tabs make in this instance
    Ttl,          \* lockTtlSeconds, in clock units
    MaxFiles,     \* MAX_FILES_PER_REQUEST
    MaxTime,      \* bound on the clock
    MaxVersion,   \* bound on the version of the request
    MaxKps,       \* bound on the KP versions ever created
    MaxWrites,    \* bound on writes of the document and new KPs together
    MaxUploads,   \* bound on the files ever uploaded
    NoTab, NoCall, NoUser

AllKinds == {"acquire", "heartbeat", "release", "force", "block",
             "save", "status", "kpCreate", "kpDelete", "fileAdd", "fileRemove"}

ASSUME TabsAssumption  == /\ UserOf \in [Tabs -> Users]
                          /\ Admins \subseteq Users
                          /\ NoTab \notin Tabs
                          /\ NoUser \notin Users
ASSUME CallsAssumption == /\ IsFiniteSet(Calls) /\ Calls # {}
                          /\ NoCall \notin Calls
                          /\ Kinds \subseteq AllKinds
ASSUME TimeAssumption  == Ttl \in Nat \ {0} /\ MaxTime \in Nat
ASSUME BoundAssumption ==
    {MaxFiles, MaxVersion, MaxKps, MaxWrites, MaxUploads} \subseteq Nat

VARIABLES
    clock,     \* wall clock, read once by each handler (now = new Date())
    lock,      \* the RequestLock row
    blocked,   \* users with isActive = false
    row,       \* the Request row
    kps,       \* KpDocument rows
    nextKp,    \* id of the next KpDocument
    journal,   \* ghost: the version-bumping writes, oldest first
    files,     \* RequestAttachment rows
    disk,      \* uploads/requests/<id>/*
    nextFile,  \* id of the next file
    rowTx,     \* the call whose transaction holds the Request row FOR UPDATE
    pc,        \* where each call is
    op,        \* what each call asks for
    view       \* what each transaction has read of the request

lockVars == <<lock, blocked>>
docVars  == <<row, kps, nextKp, journal>>
fileVars == <<files, disk, nextFile>>
callVars == <<pc, op, view>>
vars == <<clock, lock, blocked, row, kps, nextKp, journal,
          files, disk, nextFile, rowTx, pc, op, view>>

-----------------------------------------------------------------------------
Statuses == {"in_progress", "done", "cancelled"}
Editable == {"in_progress"}

\* No KP chosen, or none found; KP ids start at 1.
NoKp == 0
\* The approved total (approvedSaleGross) of a request with nothing approved.
NoSum == -1

NoLock == [tab |-> NoTab, expires |-> 0]

Kp == [id : Nat, version : Nat, final : BOOLEAN]

\* approval is header.approvalKpId; approved: some line is approved;
\* sumBase: the KP whose prices the stored approved total was computed from.
Row == [status : Statuses, version : Nat, approval : Nat, approved : BOOLEAN,
        sumBase : Int, kpCount : Nat, lastFinal : BOOLEAN, filesCount : Int]

NewRow == [status |-> "in_progress", version |-> 1, approval |-> NoKp,
           approved |-> FALSE, sumBase |-> NoSum, kpCount |-> 0,
           lastFinal |-> FALSE, filesCount |-> 0]

-----------------------------------------------------------------------------
(* Calls. A call that has been answered, whatever the answer, is idle.     *)

Points == {"idle", "expire", "create", "read", "renew", "once", "unblock",
           "begin", "assert", "commit",
           "check", "holder", "store", "insert", "discard",
           "find", "remove", "unlink"}

\* base: baseVersion of a save or status change; target: a KP or file id;
\* to: the status asked for; flag: release (save), final (kpCreate).
Op == [kind : AllKinds \cup {"none"}, tab : Tabs \cup {NoTab}, at : Nat,
       base : Nat, target : Nat, user : Users \cup {NoUser},
       to : Statuses, flag : BOOLEAN]

NoOp == [kind |-> "none", tab |-> NoTab, at |-> 0, base |-> 0, target |-> 0,
         user |-> NoUser, to |-> "in_progress", flag |-> FALSE]

Ask(kind, t) == [NoOp EXCEPT !.kind = kind, !.tab = t, !.at = clock]

\* A call may still write the document or form a KP in this instance.
WritesLeft == (row.version - 1) + (nextKp - 1) < MaxWrites

NoView == [row |-> NewRow, kps |-> {}]

At(c, kind, point) == op[c].kind = kind /\ pc[c] = point

\* requireAuth: only an active user's request reaches a handler.
Start(c, o, point) ==
    /\ pc[c] = "idle"
    /\ o.kind \in Kinds
    /\ UserOf[o.tab] \notin blocked
    /\ pc' = [pc EXCEPT ![c] = point]
    /\ op' = [op EXCEPT ![c] = o]
    /\ UNCHANGED <<clock, lockVars, docVars, fileVars, rowTx, view>>

Goto(c, point) ==
    /\ pc' = [pc EXCEPT ![c] = point]
    /\ UNCHANGED <<op, view>>

End(c) ==
    /\ pc' = [pc EXCEPT ![c] = "idle"]
    /\ op' = [op EXCEPT ![c] = NoOp]
    /\ view' = [view EXCEPT ![c] = NoView]

\* Mutant: the request is read without FOR UPDATE.
LockRowUnlocked(c) ==
    /\ rowTx' = c
    /\ view' = [view EXCEPT ![c] = [row |-> row, kps |-> kps]]
    /\ pc' = [pc EXCEPT ![c] = "assert"]
    /\ UNCHANGED op

\* SELECT ... FOR UPDATE on the Request row, then the request and its KPs.
LockRow(c) ==
    /\ rowTx = NoCall
    /\ rowTx' = c
    /\ view' = [view EXCEPT ![c] = [row |-> row, kps |-> kps]]
    /\ pc' = [pc EXCEPT ![c] = "assert"]
    /\ UNCHANGED op

\* COMMIT or ROLLBACK of a transaction that holds the row.
EndTx(c) == rowTx' = NoCall /\ End(c)

\* Mutant: any lock row will do.
HoldsLockAnyones(c) == lock # NoLock

\* The lock row belongs to the caller's tab; its expiry is not looked at.
HoldsLock(c) == lock.tab = op[c].tab

Expired(l, t) == l # NoLock /\ l.expires <= t

=============================================================================
