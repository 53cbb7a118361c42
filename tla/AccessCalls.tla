----------------------------- MODULE AccessCalls -----------------------------
(***************************************************************************)
(* One-time links: invitations and links for a new password                *)
(* (access.service.ts, access.rules.ts).                                   *)
(***************************************************************************)
EXTENDS AccountState

\* createInvite is one statement.
CreateInvite(l, role) ==
    /\ Spend("invite") /\ ByAdmin /\ Unused(l)
    /\ link' = [link EXCEPT ![l] = [kind |-> "invite", state |-> "free",
                                    user |-> NoUser, role |-> role, left |-> LinkTtl]]
    /\ UNCHANGED <<user, session, attempts, call, crossed>>

\* createResetLink, up to reading the account: it must be active
StartResetLink(c, u) ==
    /\ ByAdmin /\ Active(u)
    /\ Start(c, "resetLink", "revoke", [NoCallRow EXCEPT !.user = u])

\* The resets of u that nobody has used or revoked are revoked.
Revoked(u) ==
    [l \in Links |-> IF link[l].kind = "reset" /\ link[l].user = u /\ link[l].state = "free"
                     THEN [link[l] EXCEPT !.state = "revoked"] ELSE link[l]]

ResetLinkRevoke(c) ==
    /\ At(c, "resetLink", "revoke")
    /\ link' = Revoked(call[c].user)
    /\ Goto(c, "create")
    /\ crossed' = IF \E d \in Calls : At(d, "resetLink", "create") /\ call[d].user = call[c].user
                  THEN crossed \cup {"resets"} ELSE crossed
    /\ UNCHANGED <<user, session, attempts, spent>>

ResetLinkCreate(c) ==
    /\ At(c, "resetLink", "create")
    /\ \E l \in Links :
        /\ Unused(l)
        /\ link' = [link EXCEPT ![l] = [kind |-> "reset", state |-> "free",
                                        user |-> call[c].user, role |-> "none",
                                        left |-> LinkTtl - call[c].late]]
    /\ End(c)
    /\ UNCHANGED <<user, session, attempts, crossed, spent>>

\* revokeAccessLink: read, and nothing to do unless the link is still valid
StartRevoke(c, l) ==
    /\ ByAdmin /\ Valid(c, l)
    /\ Start(c, "revoke", "write", [NoCallRow EXCEPT !.link = l])

\* update where id: usedAt stays and is looked at first
RevokeWrite(c) ==
    LET l == call[c].link IN
    /\ At(c, "revoke", "write")
    /\ link' = [link EXCEPT ![l].state = IF @ = "used" THEN "used" ELSE "revoked"]
    /\ End(c)
    /\ UNCHANGED <<user, session, attempts, crossed, spent>>

-----------------------------------------------------------------------------
\* registerByInvite and resetPasswordByLink, up to hashing the password: the
\* link is valid, and the login that was chosen is free.
StartRegister(c, l, u) ==
    /\ Valid(c, l) /\ link[l].kind = "invite" /\ user[u].role = "none"
    /\ Start(c, "register", "claim",
             [NoCallRow EXCEPT !.link = l, !.user = u, !.role = link[l].role])

StartReset(c, l) ==
    /\ Valid(c, l) /\ link[l].kind = "reset"
    /\ Start(c, "reset", "claim", [NoCallRow EXCEPT !.link = l, !.user = link[l].user])

\* Mutant: the claim trusts the check that was made before the password was hashed.
ClaimableOnceChecked(c) == TRUE

\* updateMany where id, usedAt null, revokedAt null
Claimable(c) == link[call[c].link].state = "free"

Claim(c) == link' = [link EXCEPT ![call[c].link].state = "used"]

\* The transaction: the claim, the account (its login is unique), the link's user.
Register(c) ==
    LET u == call[c].user IN
    /\ At(c, "register", "claim")
    /\ Claimable(c) /\ user[u].role = "none"
    /\ link' = [link EXCEPT ![call[c].link].state = "used", ![call[c].link].user = u]
    /\ user' = [user EXCEPT ![u] = [role |-> call[c].role, active |-> TRUE,
                                    from |-> call[c].link]]
    /\ Goto(c, "session")
    /\ UNCHANGED <<session, attempts, crossed, spent>>

RegisterFails(c) ==
    /\ At(c, "register", "claim")
    /\ ~Claimable(c) \/ user[call[c].user].role # "none"
    /\ End(c)
    /\ UNCHANGED <<user, session, link, attempts, crossed, spent>>

\* The transaction: the claim, an active account, its sessions, its password.
Reset(c) ==
    LET u == call[c].user IN
    /\ At(c, "reset", "claim")
    /\ Claimable(c) /\ Active(u)
    /\ Claim(c)
    /\ session' = [s \in Sessions |-> IF session[s].user = u THEN NoRow ELSE session[s]]
    /\ Goto(c, "session")
    /\ UNCHANGED <<user, attempts, crossed, spent>>

ResetFails(c) ==
    /\ At(c, "reset", "claim")
    /\ ~Claimable(c) \/ ~Active(call[c].user)
    /\ End(c)
    /\ UNCHANGED <<user, session, link, attempts, crossed, spent>>

-----------------------------------------------------------------------------
StartAccessCall(c) ==
    \/ \E u \in Users : StartResetLink(c, u)
    \/ \E l \in Links : StartRevoke(c, l) \/ StartReset(c, l)
    \/ \E l \in Links, u \in Users : StartRegister(c, l, u)

AccessStep(c) ==
    \/ ResetLinkRevoke(c) \/ ResetLinkCreate(c) \/ RevokeWrite(c)
    \/ Register(c) \/ RegisterFails(c) \/ Reset(c) \/ ResetFails(c)

=============================================================================
