------------------------------ MODULE FileCalls ------------------------------
(***************************************************************************)
(* The attachments of a request (attachments.service.ts): a row and a      *)
(* counter in the database, the content in the upload directory.           *)
(*                                                                         *)
(* The right to edit is checked by statements of its own before the        *)
(* transaction that changes the rows, and that transaction checks nothing  *)
(* again; it only waits for a FOR UPDATE of the Request row.               *)
(***************************************************************************)
EXTENDS RequestState

StartFileAdd(c, t) == Start(c, Ask("fileAdd", t), "check")
StartFileRemove(c, t, id) ==
    Start(c, [Ask("fileRemove", t) EXCEPT !.target = id], "check")

FileKinds == {"fileAdd", "fileRemove"}

\* assertCanEdit: first the status ...
FileCheck(c) ==
    /\ op[c].kind \in FileKinds /\ pc[c] = "check"
    /\ IF row.status \in Editable THEN Goto(c, "holder") ELSE End(c)
    /\ UNCHANGED <<clock, lockVars, docVars, fileVars, rowTx>>

\* ... then the holder of the lock row
FileHolder(c) ==
    /\ op[c].kind \in FileKinds /\ pc[c] = "holder"
    /\ IF HoldsLock(c)
       THEN Goto(c, IF op[c].kind = "fileAdd" THEN "store" ELSE "find")
       ELSE End(c)
    /\ UNCHANGED <<clock, lockVars, docVars, fileVars, rowTx>>

-----------------------------------------------------------------------------
\* Room is counted and the content is written to disk, before any row.
FileStore(c) ==
    /\ At(c, "fileAdd", "store")
    /\ Cardinality(files) < MaxFiles
    /\ nextFile <= MaxUploads
    /\ disk' = disk \cup {nextFile}
    /\ nextFile' = nextFile + 1
    /\ pc' = [pc EXCEPT ![c] = "insert"]
    /\ op' = [op EXCEPT ![c].target = nextFile]
    /\ UNCHANGED <<clock, lockVars, docVars, files, rowTx, view>>

\* MAX_FILES_PER_REQUEST reached, or the write failed
FileRefuse(c) ==
    /\ At(c, "fileAdd", "store")
    /\ End(c)
    /\ UNCHANGED <<clock, lockVars, docVars, fileVars, rowTx>>

\* The row and the counter, in one transaction.
FileInsert(c) ==
    /\ At(c, "fileAdd", "insert")
    /\ rowTx = NoCall
    /\ files' = files \cup {op[c].target}
    /\ row' = [row EXCEPT !.filesCount = @ + 1]
    /\ End(c)
    /\ UNCHANGED <<clock, lockVars, kps, nextKp, journal, disk, nextFile, rowTx>>

\* The transaction failed: its file is removed again.
FileInsertFails(c) ==
    /\ At(c, "fileAdd", "insert")
    /\ Goto(c, "discard")
    /\ UNCHANGED <<clock, lockVars, docVars, fileVars, rowTx>>

FileDiscard(c) ==
    /\ At(c, "fileAdd", "discard")
    /\ disk' = disk \ {op[c].target}
    /\ End(c)
    /\ UNCHANGED <<clock, lockVars, docVars, files, nextFile, rowTx>>

-----------------------------------------------------------------------------
\* Mutant: the content is removed before the row.
FileFindUnlinks(c) ==
    /\ At(c, "fileRemove", "find")
    /\ disk' = disk \ {op[c].target}
    /\ Goto(c, "remove")
    /\ UNCHANGED <<clock, lockVars, docVars, files, nextFile, rowTx>>

FileFind(c) ==
    /\ At(c, "fileRemove", "find")
    /\ IF op[c].target \in files THEN Goto(c, "remove") ELSE End(c)
    /\ UNCHANGED <<clock, lockVars, docVars, fileVars, rowTx>>

\* Mutant: deleting no row still counts down (deleteMany instead of delete).
FileRemoveTwice(c) ==
    /\ At(c, "fileRemove", "remove")
    /\ rowTx = NoCall
    /\ files' = files \ {op[c].target}
    /\ row' = [row EXCEPT !.filesCount = @ - 1]
    /\ Goto(c, "unlink")
    /\ UNCHANGED <<clock, lockVars, kps, nextKp, journal, disk, nextFile, rowTx>>

\* A row another call has removed meanwhile fails the transaction (P2025).
FileRemove(c) ==
    /\ At(c, "fileRemove", "remove")
    /\ rowTx = NoCall
    /\ IF op[c].target \in files
       THEN /\ files' = files \ {op[c].target}
            /\ row' = [row EXCEPT !.filesCount = @ - 1]
            /\ Goto(c, "unlink")
       ELSE UNCHANGED <<files, row>> /\ End(c)
    /\ UNCHANGED <<clock, lockVars, kps, nextKp, journal, disk, nextFile, rowTx>>

FileUnlink(c) ==
    /\ At(c, "fileRemove", "unlink")
    /\ disk' = disk \ {op[c].target}
    /\ End(c)
    /\ UNCHANGED <<clock, lockVars, docVars, files, nextFile, rowTx>>

-----------------------------------------------------------------------------
StartFileCall(c) ==
    \E t \in Tabs :
        \/ StartFileAdd(c, t)
        \/ \E id \in 1 .. (nextFile - 1) : StartFileRemove(c, t, id)

FileStep(c) ==
    \/ FileCheck(c) \/ FileHolder(c)
    \/ FileStore(c) \/ FileRefuse(c) \/ FileInsert(c) \/ FileInsertFails(c)
    \/ FileDiscard(c) \/ FileFind(c) \/ FileRemove(c) \/ FileUnlink(c)

=============================================================================
