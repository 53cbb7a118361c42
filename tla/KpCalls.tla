------------------------------- MODULE KpCalls -------------------------------
(***************************************************************************)
(* KP versions of a request (kp.service.ts): immutable snapshots numbered  *)
(* within the request. Forming and deleting one is a transaction like a    *)
(* save, except that it neither checks nor bumps the request's version.    *)
(***************************************************************************)
EXTENDS DocumentCalls

\* Mutant: the number of KPs plus one.
NextKpVersionByCount(ks) == Cardinality(ks) + 1

\* The version after the largest: a deleted version leaves a gap.
NextKpVersion(ks) ==
    IF ks = {} THEN 1
    ELSE (CHOOSE k \in ks : \A j \in ks : j.version <= k.version).version + 1

\* lastKpFinal: whether the version with the largest number is a final one
LastFinal(ks) ==
    IF ks = {} THEN FALSE
    ELSE (CHOOSE k \in ks : \A j \in ks : j.version <= k.version).final

\* Mutant: the approved total is left to the next save.
WithKpsOldSum(r, chosen, ks) ==
    [r EXCEPT !.approval  = chosen,
              !.kpCount   = Cardinality(ks),
              !.lastFinal = LastFinal(ks)]

\* Mutant: the number of KPs only ever grows.
WithKpsCountUp(r, chosen, ks) ==
    [r EXCEPT !.approval  = chosen,
              !.sumBase   = SumBase(r.approved, ks, chosen),
              !.kpCount   = @ + 1,
              !.lastFinal = LastFinal(ks)]

\* The columns of the Request row that summarise its KPs.
WithKps(r, chosen, ks) ==
    [r EXCEPT !.approval  = chosen,
              !.sumBase   = SumBase(r.approved, ks, chosen),
              !.kpCount   = Cardinality(ks),
              !.lastFinal = LastFinal(ks)]

\* READ_ONLY, LOCK_LOST
KpAllowed(c) == view[c].row.status \in Editable /\ HoldsLock(c)

-----------------------------------------------------------------------------
StartKpCreate(c, t, final) ==
    Start(c, [Ask("kpCreate", t) EXCEPT !.flag = final], "begin")

KpCreateBegin(c) ==
    /\ At(c, "kpCreate", "begin")
    /\ LockRow(c)
    /\ UNCHANGED <<clock, lockVars, docVars, fileVars>>

KpCreateAssert(c) ==
    /\ At(c, "kpCreate", "assert")
    /\ KpAllowed(c)
    /\ Goto(c, "commit")
    /\ UNCHANGED <<clock, lockVars, docVars, fileVars, rowTx>>

KpCreateRefuse(c) == At(c, "kpCreate", "assert") /\ ~KpAllowed(c) /\ Refuse(c)

\* buildKpVersion: a final KP needs a base KP and approved lines in it
Buildable(c) ==
    op[c].flag => /\ ApprovalBase(view[c].kps, view[c].row.approval) # NoKp
                  /\ view[c].row.approved

KpCreateCommit(c) ==
    /\ At(c, "kpCreate", "commit")
    /\ nextKp <= MaxKps /\ WritesLeft
    /\ Buildable(c)
    /\ LET kp  == [id |-> nextKp, version |-> NextKpVersion(view[c].kps),
                   final |-> op[c].flag]
       IN  /\ kps' = kps \cup {kp}
           /\ row' = WithKps(row, row.approval, view[c].kps \cup {kp})
    /\ nextKp' = nextKp + 1
    /\ EndTx(c)
    /\ UNCHANGED <<clock, lockVars, journal, fileVars>>

\* Lines without a price, no own company, a VAT mode that does not fit, ...
KpCreateAbort(c) == At(c, "kpCreate", "commit") /\ Refuse(c)

-----------------------------------------------------------------------------
StartKpDelete(c, t, id) ==
    Start(c, [Ask("kpDelete", t) EXCEPT !.target = id], "begin")

KpDeleteBegin(c) ==
    /\ At(c, "kpDelete", "begin")
    /\ LockRow(c)
    /\ UNCHANGED <<clock, lockVars, docVars, fileVars>>

\* Mutant: only the KP chosen by hand is protected, not the default base.
KpDeleteAllowedDefault(c) ==
    /\ KpAllowed(c)
    /\ \E k \in view[c].kps : k.id = op[c].target
    /\ ~ (view[c].row.approval = op[c].target /\ view[c].row.approved)

\* Besides KpAllowed: the KP is there, and it is not the base of approvals
KpDeleteAllowed(c) ==
    /\ KpAllowed(c)
    /\ \E k \in view[c].kps : k.id = op[c].target
    /\ ~ /\ ApprovalBase(view[c].kps, view[c].row.approval) = op[c].target
         /\ view[c].row.approved

KpDeleteAssert(c) ==
    /\ At(c, "kpDelete", "assert")
    /\ KpDeleteAllowed(c)
    /\ Goto(c, "commit")
    /\ UNCHANGED <<clock, lockVars, docVars, fileVars, rowTx>>

KpDeleteRefuse(c) ==
    At(c, "kpDelete", "assert") /\ ~KpDeleteAllowed(c) /\ Refuse(c)

\* A chosen base that is deleted is forgotten.
KpDeleteCommit(c) ==
    /\ At(c, "kpDelete", "commit")
    /\ LET rest   == {k \in view[c].kps : k.id # op[c].target}
           chosen == IF view[c].row.approval = op[c].target
                     THEN NoKp ELSE view[c].row.approval
       IN  /\ kps' = {k \in kps : k.id # op[c].target}
           /\ row' = WithKps(row, chosen, rest)
    /\ EndTx(c)
    /\ UNCHANGED <<clock, lockVars, nextKp, journal, fileVars>>

KpDeleteAbort(c) == At(c, "kpDelete", "commit") /\ Refuse(c)

-----------------------------------------------------------------------------
StartKpCall(c) ==
    \E t \in Tabs :
        \/ \E final \in BOOLEAN : StartKpCreate(c, t, final)
        \/ \E id \in 1 .. (nextKp - 1) : StartKpDelete(c, t, id)

KpStep(c) ==
    \/ KpCreateBegin(c) \/ KpCreateAssert(c) \/ KpCreateRefuse(c)
    \/ KpCreateCommit(c) \/ KpCreateAbort(c)
    \/ KpDeleteBegin(c) \/ KpDeleteAssert(c) \/ KpDeleteRefuse(c)
    \/ KpDeleteCommit(c) \/ KpDeleteAbort(c)

=============================================================================
