---------------------------- MODULE DocumentCalls ----------------------------
(***************************************************************************)
(* Saving the document of a request and changing its status                *)
(* (requests.service.ts). Both are transactions that take the Request row  *)
(* FOR UPDATE, check that the lock row is the caller's, check that the     *)
(* caller saw the current version, and bump the version.                   *)
(*                                                                         *)
(* The lock row is only read: it can pass to another tab between that      *)
(* check and the commit.                                                   *)
(***************************************************************************)
EXTENDS RequestState

\* approvalBaseKp: the chosen ordinary KP, else the latest ordinary one.
ApprovalBase(ks, chosen) ==
    LET ordinary == {k \in ks : ~k.final}
    IN  IF \E k \in ordinary : k.id = chosen THEN chosen
        ELSE IF ordinary = {} THEN NoKp
        ELSE (CHOOSE k \in ordinary :
                \A j \in ordinary : j.version <= k.version).id

\* approvedSaleGrossOf: which prices the approved total is computed from
SumBase(approved, ks, chosen) ==
    IF approved THEN ApprovalBase(ks, chosen) ELSE NoSum

\* One entry per write that bumps the version: what it was based on, and who
\* wrote it.
JournalEntry(c) == [base |-> op[c].base, tab |-> op[c].tab]

\* The transition table of shared/status.
Transition == [in_progress |-> {"done", "cancelled"},
               done        |-> {"in_progress"},
               cancelled   |-> {"in_progress"}]

\* Mutant: the transaction of a refused call is left open.
RefuseLeavesTx(c) ==
    /\ End(c)
    /\ UNCHANGED <<clock, lockVars, docVars, fileVars, rowTx>>

\* A handler refuses the call and its transaction rolls back.
Refuse(c) ==
    /\ EndTx(c)
    /\ UNCHANGED <<clock, lockVars, docVars, fileVars>>

-----------------------------------------------------------------------------
\* A tab sends the version it has loaded: any version the request has had.
StartSave(c, t, base, release) ==
    Start(c, [Ask("save", t) EXCEPT !.base = base, !.flag = release], "begin")

SaveBegin(c) ==
    /\ At(c, "save", "begin")
    /\ LockRow(c)
    /\ UNCHANGED <<clock, lockVars, docVars, fileVars>>

\* Mutant: the status is not checked under the row lock.
SaveAllowedAnyStatus(c) == HoldsLock(c) /\ op[c].base = view[c].row.version

\* READ_ONLY, LOCK_LOST, VERSION_CONFLICT
SaveAllowed(c) ==
    /\ view[c].row.status \in Editable
    /\ HoldsLock(c)
    /\ op[c].base = view[c].row.version

SaveAssert(c) ==
    /\ At(c, "save", "assert")
    /\ SaveAllowed(c)
    /\ Goto(c, "commit")
    /\ UNCHANGED <<clock, lockVars, docVars, fileVars, rowTx>>

SaveRefuse(c) == At(c, "save", "assert") /\ ~SaveAllowed(c) /\ Refuse(c)

\* Mutant: a lock row that is gone is written back by the renewal.
SaveLockWritesBack(c) ==
    IF op[c].flag
    THEN lock' = IF HoldsLock(c) THEN NoLock ELSE lock
    ELSE lock' = [lock EXCEPT !.expires = op[c].at + Ttl]

\* The release of a closing tab deletes its own lock row; any other save
\* renews the lock row of the request, whose there is, and fails (P2025) when
\* there is none.
SaveLock(c) ==
    IF op[c].flag
    THEN lock' = IF HoldsLock(c) THEN NoLock ELSE lock
    ELSE lock # NoLock /\ lock' = [lock EXCEPT !.expires = op[c].at + Ttl]

\* The patch sets the chosen KP and the approvals to whatever the tab has,
\* which may be a KP that was deleted since.
SaveCommit(c, approval, approved) ==
    /\ At(c, "save", "commit")
    /\ row.version < MaxVersion /\ WritesLeft
    /\ SaveLock(c)
    /\ row' = [row EXCEPT !.version  = @ + 1,
                          !.approval = approval,
                          !.approved = approved,
                          !.sumBase  = SumBase(approved, view[c].kps, approval)]
    /\ journal' = Append(journal, JournalEntry(c))
    /\ EndTx(c)
    /\ UNCHANGED <<clock, blocked, kps, nextKp, fileVars>>

\* A patch that is invalid once applied, a lost lock row, a timeout: rollback.
SaveAbort(c) == At(c, "save", "commit") /\ Refuse(c)

-----------------------------------------------------------------------------
StartStatus(c, t, base, to) ==
    Start(c, [Ask("status", t) EXCEPT !.base = base, !.to = to], "begin")

StatusBegin(c) ==
    /\ At(c, "status", "begin")
    /\ LockRow(c)
    /\ UNCHANGED <<clock, lockVars, docVars, fileVars>>

\* LOCK_LOST, VERSION_CONFLICT, INVALID_TRANSITION
StatusAllowed(c) ==
    /\ HoldsLock(c)
    /\ op[c].base = view[c].row.version
    /\ op[c].to \in Transition[view[c].row.status]

StatusAssert(c) ==
    /\ At(c, "status", "assert")
    /\ StatusAllowed(c)
    /\ Goto(c, "commit")
    /\ UNCHANGED <<clock, lockVars, docVars, fileVars, rowTx>>

StatusRefuse(c) == At(c, "status", "assert") /\ ~StatusAllowed(c) /\ Refuse(c)

\* A closed request keeps no lock row, whosever it is.
StatusCommit(c) ==
    /\ At(c, "status", "commit")
    /\ row.version < MaxVersion /\ WritesLeft
    /\ lock' = IF op[c].to \in Editable THEN lock ELSE NoLock
    /\ row' = [row EXCEPT !.version = @ + 1, !.status = op[c].to]
    /\ journal' = Append(journal, JournalEntry(c))
    /\ EndTx(c)
    /\ UNCHANGED <<clock, blocked, kps, nextKp, fileVars>>

StatusAbort(c) == At(c, "status", "commit") /\ Refuse(c)

-----------------------------------------------------------------------------
StartDocumentCall(c) ==
    \E t \in Tabs, base \in 1 .. row.version :
        \/ \E release \in BOOLEAN : StartSave(c, t, base, release)
        \/ \E to \in Statuses : StartStatus(c, t, base, to)

DocumentStep(c) ==
    \/ SaveBegin(c) \/ SaveAssert(c) \/ SaveRefuse(c) \/ SaveAbort(c)
    \/ \E approval \in 0 .. (nextKp - 1), approved \in BOOLEAN :
            SaveCommit(c, approval, approved)
    \/ StatusBegin(c) \/ StatusAssert(c) \/ StatusRefuse(c)
    \/ StatusCommit(c) \/ StatusAbort(c)

=============================================================================
