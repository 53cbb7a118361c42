---------------------------- MODULE RequestServer ----------------------------
(***************************************************************************)
(* The request server: every call that changes a request, interleaved step *)
(* by step with the others, with the clock and with restarts of the        *)
(* process.                                                                *)
(***************************************************************************)
EXTENDS LockCalls, KpCalls, FileCalls

Init ==
    /\ clock = 0
    /\ lock = NoLock
    /\ blocked = {}
    /\ row = NewRow
    /\ kps = {}
    /\ nextKp = 1
    /\ journal = <<>>
    /\ files = {}
    /\ disk = {}
    /\ nextFile = 1
    /\ rowTx = NoCall
    /\ pc = [c \in Calls |-> "idle"]
    /\ op = [c \in Calls |-> NoOp]
    /\ view = [c \in Calls |-> NoView]

Tick ==
    /\ clock < MaxTime
    /\ clock' = clock + 1
    /\ UNCHANGED <<lockVars, docVars, fileVars, rowTx, callVars>>

\* The process stops: open transactions roll back, nothing else is undone.
Restart ==
    /\ \E c \in Calls : pc[c] # "idle"
    /\ rowTx' = NoCall
    /\ pc' = [c \in Calls |-> "idle"]
    /\ op' = [c \in Calls |-> NoOp]
    /\ view' = [c \in Calls |-> NoView]
    /\ UNCHANGED <<clock, lockVars, docVars, fileVars>>

StartCall(c) ==
    StartLockCall(c) \/ StartDocumentCall(c) \/ StartKpCall(c) \/ StartFileCall(c)

CallStep(c) == LockStep(c) \/ DocumentStep(c) \/ KpStep(c) \/ FileStep(c)

Next == Tick \/ Restart \/ \E c \in Calls : StartCall(c) \/ CallStep(c)

Spec == Init /\ [][Next]_vars

\* Handlers run to their end. A step waits for nothing but the Request row,
\* and PostgreSQL serves the waiters of a row in turn.
FairSpec == Spec /\ \A c \in Calls : SF_vars(CallStep(c))

-----------------------------------------------------------------------------
TypeOK ==
    /\ clock \in Nat
    /\ lock \in {NoLock} \cup [tab : Tabs, expires : Nat]
    /\ blocked \subseteq Users
    /\ row \in Row
    /\ kps \subseteq Kp
    /\ nextKp \in Nat
    /\ journal \in Seq([base : Nat, tab : Tabs])
    /\ files \subseteq Nat
    /\ disk \subseteq Nat
    /\ nextFile \in Nat
    /\ rowTx \in Calls \cup {NoCall}
    /\ pc \in [Calls -> Points]
    /\ op \in [Calls -> Op]
    /\ view \in [Calls -> [row : Row, kps : SUBSET Kp]]

\* No update is lost (baseVersion in saveRequestDocument and changeStatus):
\* the n-th accepted write was made by a tab that had loaded exactly the
\* result of the one before it, and every one of them bumped the version.
LinearHistory ==
    /\ row.version = Len(journal) + 1
    /\ \A n \in 1 .. Len(journal) : journal[n].base = n

\* The version number of a KP is unique within its request (createKp), also
\* after versions in the middle or at the end were deleted.
KpVersionsUnique ==
    \A j, k \in kps : j.version = k.version => j = k

\* The KP columns of the Request row always describe the KP rows (createKp,
\* deleteKp): how many there are, and whether the newest is a final one.
KpSummaryCurrent ==
    row.kpCount = Cardinality(kps) /\ row.lastFinal = LastFinal(kps)

\* The stored approved total is always that of the current base KP
\* (saveRequestDocument reads the KPs after it has locked the row), whatever
\* save, KP creation and KP deletion ran last.
ApprovedSumCurrent ==
    row.sumBase = SumBase(row.approved, kps, row.approval)

\* The attachment counter of the Request row equals the number of rows, and
\* uploads that are counted at the same time overshoot the limit by at most one
\* each (addAttachment).
FilesCountCurrent ==
    /\ row.filesCount = Cardinality(files)
    /\ Cardinality(files) <= MaxFiles + Cardinality(Calls) - 1

\* An attachment row always has its content on disk, at any crash point
\* (addAttachment writes the file first, removeAttachment deletes it last).
FilesStored == files \subseteq disk

\* A live lock is never taken from a tab behind its back (acquireLock,
\* releaseLock): it goes to another tab only through an administrator's force,
\* and disappears only through a call of that tab, a call that closed the
\* request, or the blocking of its user.
LiveLockKept ==
    [][ (lock # NoLock /\ lock.expires > clock /\ lock'.tab # lock.tab) =>
        \/ lock' # NoLock /\ UserOf[lock'.tab] \in Admins
        \/ /\ lock' = NoLock
           /\ \E c \in Calls :
                /\ pc'[c] # pc[c]
                /\ \/ op[c].tab = lock.tab
                   \/ row'.status # row.status
                   \/ op[c].kind = "block" /\ op[c].user = UserOf[lock.tab]
      ]_vars

\* Whatever a closed request consists of stays as it was (READ_ONLY): a write
\* that passed its checks before the request was closed never lands after.
ClosedFrozen ==
    [][ (row.status \notin Editable /\ row'.status = row.status) =>
        /\ kps' = kps
        /\ row' = [row EXCEPT !.filesCount = row'.filesCount] ]_vars

\* The KP whose prices the approved lines were agreed at is not deleted
\* (deleteKp), whichever KP that is when the deletion commits.
ApprovalBaseKept ==
    [][ (row.approved /\ row.sumBase # NoKp) =>
        \E k \in kps' : k.id = row.sumBase ]_vars

\* Every call is answered: no handler waits for the Request row for ever,
\* whichever checks the transactions before it failed.
EveryCallAnswered == \A c \in Calls : pc[c] # "idle" ~> pc[c] = "idle"

-----------------------------------------------------------------------------
\* The number of a KP by its id, and no number when nothing is approved.
NumberOf(id) ==
    IF \E k \in kps : k.id = id
    THEN (CHOOSE k \in kps : k.id = id).version ELSE 0

Ledger == INSTANCE RequestLedger
          WITH Contents <- BOOLEAN,
               open     <- row.status \in Editable,
               version  <- row.version,
               contents <- row.approved,
               offers   <- {k.version : k \in kps},
               agreed   <- NumberOf(row.sumBase)

\* The transactions of all calls amount to complete steps, one after another
\* (FOR UPDATE in saveRequestDocument, changeStatus, createKp, deleteKp): every
\* commit is a step of the ledger, and nothing else changes it.
LedgerKept == Ledger!Spec

=============================================================================
