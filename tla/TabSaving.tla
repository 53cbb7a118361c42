------------------------------ MODULE TabSaving ------------------------------
(***************************************************************************)
(* Editing, undo, autosave and status changes of the request tab.          *)
(***************************************************************************)
EXTENDS TabServer

\* loseLock
LoseLock(t) ==
    [t EXCEPT !.hasLock = FALSE, !.heartbeat = FALSE, !.saveTimer = FALSE]

\* captureLostChanges: remembers what differs from the saved document
CaptureLostChanges(t) ==
    IF t.doc = t.lastSaved THEN t
    ELSE [t EXCEPT !.lostChanges =
                (t.doc \ t.lastSaved) \cup (t.lastSaved \ t.doc)]

Refresh(then) == [Ask("refresh", then) EXCEPT !.token = tab.loadToken]

-----------------------------------------------------------------------------
\* edit, commit, scheduleSave
Edit ==
    /\ Act("edit") /\ user.page /\ ~ReadOnly(tab)
    /\ Acted
    /\ tab' = [tab EXCEPT !.doc = @ \cup {user.acts + 1},
                          !.past = Append(@, tab.doc), !.future = <<>>,
                          !.dirty = TRUE, !.saveTimer = TRUE]
    /\ UNCHANGED <<srv, hist, calls>>

Undo ==
    /\ Act("undo") /\ user.page /\ ~ReadOnly(tab) /\ tab.past # <<>>
    /\ Acted
    /\ LET n == Len(tab.past)
       IN  tab' = [tab EXCEPT !.doc = tab.past[n],
                              !.past = SubSeq(@, 1, n - 1),
                              !.future = Append(@, tab.doc),
                              !.dirty = TRUE, !.saveTimer = TRUE]
    /\ UNCHANGED <<srv, hist, calls>>

Redo ==
    /\ Act("undo") /\ user.page /\ ~ReadOnly(tab) /\ tab.future # <<>>
    /\ Acted
    /\ LET n == Len(tab.future)
       IN  tab' = [tab EXCEPT !.doc = tab.future[n],
                              !.future = SubSeq(@, 1, n - 1),
                              !.past = Append(@, tab.doc),
                              !.dirty = TRUE, !.saveTimer = TRUE]
    /\ UNCHANGED <<srv, hist, calls>>

-----------------------------------------------------------------------------
\* The catch of reopen: the lock that was taken for it is given back.
Unlocked(t) == [t EXCEPT !.hasLock = FALSE]

\* flush throws when the save it waited for has failed.
FlushFails(t) == t.dirty /\ t.saveState = "error"

\* runSave has returned to its caller, the store being t: doUnload goes on with
\* releaseLock, setStatus with changeStatus unless flush has thrown.
AfterSave(then, t) ==
    CASE then = "none" -> Idle
    []   then = "close" -> Ask("closing", "none")
    []   then = "status" /\ FlushFails(t) -> Idle
    []   then = "reopen" /\ FlushFails(t) -> Ask("drop", "none")
    []   OTHER -> [Ask("status", then) EXCEPT !.base = t.version]

AfterSaveTab(then, t) ==
    IF then = "reopen" /\ FlushFails(t) THEN Unlocked(t) ELSE t

\* runSave in slot s returns, the store being t.
Return(s, then, t) == tab' = AfterSaveTab(then, t) /\ Become(s, AfterSave(then, t))

Savable(t) == t.loadState = "ready" /\ t.hasLock /\ ~t.closed

\* runSave in slot s, the store being t: waits for a save under way, returns
\* when there is nothing it may or need save, else sends the difference.
RunSave(s, then, t) ==
    \/ /\ t.saving # NoSlot
       /\ tab' = t
       /\ Become(s, [Idle EXCEPT !.fn = "save", !.at = "wait", !.then = then])
    \/ /\ t.saving = NoSlot /\ ~Savable(t)
       /\ Return(s, then, t)
    \/ /\ t.saving = NoSlot /\ Savable(t) /\ t.doc = t.lastSaved
       /\ Return(s, then, [t EXCEPT !.dirty = FALSE])
    \/ /\ t.saving = NoSlot /\ Savable(t) /\ t.doc # t.lastSaved
       /\ tab' = [t EXCEPT !.saving = s, !.saveState = "saving"]
       /\ Become(s, [Ask("save", then) EXCEPT !.base = t.version,
                                              !.sent = t.doc, !.cut = t.lastSaved])

\* A new activity that begins with runSave.
BeginSave(then, t) == \E s \in Free :
    (\A r \in Free : s <= r) /\ RunSave(s, then, t)

SaveTimer ==
    /\ Waiting /\ tab.saveTimer
    /\ BeginSave("none", [tab EXCEPT !.saveTimer = FALSE])
    /\ UNCHANGED <<srv, hist, user>>

\* The save that a runSave waited for is over.
Resume(s) ==
    /\ ~user.hidden /\ calls[s].at = "wait" /\ tab.saving = NoSlot
    /\ RunSave(s, calls[s].then, tab)
    /\ UNCHANGED <<srv, hist, user>>

\* Edits that came in while the save was under way are saved next.
Rescheduled(t) ==
    IF t.dirty /\ t.hasLock /\ t.saveState = "saved"
    THEN [t EXCEPT !.saveTimer = TRUE] ELSE t

\* Mutant: the document as it is now counts as saved, not the one sent.
SavedTabNow(t, c) ==
    [t EXCEPT !.lastSaved = t.doc, !.version = c.res.now.version,
              !.dirty = FALSE, !.saveState = "saved"]

SavedTab(t, c) ==
    [t EXCEPT !.lastSaved = c.sent, !.version = c.res.now.version,
              !.dirty = (t.doc # c.sent), !.saveState = "saved"]

\* The save of slot s is over, whatever came of it.
SaveOver(t, s) == [t EXCEPT !.saving = NoSlot]

SaveAnswer(s) ==
    LET t == SaveOver(tab, s) IN
    /\ Waiting /\ Answered(s, "save") /\ Code(s) = "ok"
    /\ Return(s, calls[s].then,
              IF t.loadState = "idle" THEN t ELSE Rescheduled(SavedTab(t, calls[s])))
    /\ UNCHANGED <<srv, hist, user>>

\* onSaveError: after these refusals the document is read again, next to
\* whatever waited for the save.
Rereads(code) == code \in {"LOCK_LOST", "VERSION_CONFLICT", "READ_ONLY"}

SaveError(s) ==
    LET t == [SaveOver(tab, s) EXCEPT
                  !.saveState = IF tab.loadState = "idle" THEN @ ELSE "error"]
        u == CASE tab.loadState = "idle" \/ ~Rereads(Code(s)) -> t
             []   tab.loadState # "idle" /\ Code(s) = "LOCK_LOST" -> CaptureLostChanges(LoseLock(t))
             []   OTHER -> CaptureLostChanges(t)
        reread == tab.loadState # "idle" /\ Rereads(Code(s))
    IN
    /\ Waiting /\ Answered(s, "save") /\ Code(s) # "ok"
    /\ IF reread
       THEN /\ tab' = AfterSaveTab(calls[s].then, u)
            /\ Both(s, AfterSave(calls[s].then, u), Refresh("none"))
       ELSE Return(s, calls[s].then, u)
    /\ UNCHANGED <<srv, hist, user>>

-----------------------------------------------------------------------------
\* setStatus to done or cancelled: first flush, then changeStatus
SetStatus ==
    /\ Act("status") /\ user.page /\ tab.loadState = "ready"
    /\ tab.hasLock /\ ~tab.closed
    /\ \A s \in Slots : calls[s].then # "status"
    /\ Acted
    /\ BeginSave("status", [tab EXCEPT !.saveTimer = FALSE])
    /\ UNCHANGED <<srv, hist>>

\* The document was read again while the change of status was on its way, and
\* neither as it was before that change nor as it is after it: setStatus then
\* puts the version after the change over what another answer brought.
Mixes(s) == tab.loadState = "ready" /\ tab.version \notin {calls[s].base, Now(s).version}

\* changeStatus answered: history is forgotten, a closed request's lock too;
\* reopen ends with the heartbeat on.
StatusAnswer(s) ==
    LET reopened == calls[s].then = "reopen" IN
    /\ Waiting /\ Answered(s, "status") /\ Code(s) = "ok"
    /\ LET t == IF tab.loadState # "ready" THEN tab
                ELSE [tab EXCEPT !.closed = ~reopened, !.version = Now(s).version,
                                 !.past = <<>>, !.future = <<>>,
                                 !.hasLock = @ /\ reopened,
                                 !.heartbeat = @ /\ tab.hasLock /\ reopened]
       IN  tab' = IF reopened THEN [t EXCEPT !.heartbeat = TRUE] ELSE t
    /\ Become(s, Idle)
    /\ user' = [user EXCEPT !.mixed = @ \/ Mixes(s)]
    /\ UNCHANGED <<srv, hist>>

StatusError(s) ==
    /\ Waiting /\ Answered(s, "status") /\ Code(s) # "ok"
    /\ IF calls[s].then = "reopen"
       THEN tab' = Unlocked(tab) /\ Become(s, Ask("drop", "none"))
       ELSE tab' = tab /\ Become(s, Idle)
    /\ UNCHANGED <<srv, hist, user>>

=============================================================================
