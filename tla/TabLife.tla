------------------------------- MODULE TabLife -------------------------------
(***************************************************************************)
(* Opening and closing the request in the tab, its edit lock, and reading  *)
(* the document again.                                                     *)
(***************************************************************************)
EXTENDS TabSaving

\* Mutant: unsaved changes stay on the screen, and count as saved.
RereadKeepsChanges(t, now) ==
    [t EXCEPT !.doc = IF t.dirty THEN @ ELSE now.doc, !.lastSaved = now.doc,
              !.version = now.version, !.seen = now.version, !.closed = now.closed,
              !.past = <<>>, !.future = <<>>, !.saveTimer = FALSE, !.dirty = FALSE,
              !.hasLock = @ /\ now.lock = "mine"]

\* refresh has the document: unsaved changes are dropped, history forgotten.
Reread(t, now) ==
    [t EXCEPT !.doc = now.doc, !.lastSaved = now.doc, !.version = now.version,
              !.seen = now.version, !.closed = now.closed, !.past = <<>>,
              !.future = <<>>, !.saveTimer = FALSE, !.dirty = FALSE,
              !.hasLock = @ /\ now.lock = "mine"]

\* An answer of a document that was opened again since is dropped, and one
\* that failed: the data stay as they are.
Refreshed(s) ==
    IF Code(s) = "ok" /\ calls[s].token = tab.loadToken /\ tab.loadState # "idle"
    THEN Reread(tab, Now(s)) ELSE tab

RefreshAnswer(s) ==
    /\ Waiting /\ Answered(s, "refresh") /\ calls[s].then = "none"
    /\ tab' = Refreshed(s)
    /\ Become(s, Idle)
    /\ UNCHANGED <<srv, hist, user>>

\* ... and retryLock and forceLock start the heartbeat
RefreshForLock(s) ==
    /\ Waiting /\ Answered(s, "refresh") /\ calls[s].then \in {"retry", "force"}
    /\ tab' = [Refreshed(s) EXCEPT
                  !.heartbeat = @ \/ calls[s].then = "force" \/ Refreshed(s).hasLock]
    /\ Become(s, Idle)
    /\ UNCHANGED <<srv, hist, user>>

\* ... and reopen goes on with setStatus, which needs the lock
RefreshForReopen(s) ==
    LET t == Refreshed(s) IN
    /\ Waiting /\ Answered(s, "refresh") /\ calls[s].then = "reopen"
    /\ IF t.loadState # "ready"
       THEN tab' = [t EXCEPT !.heartbeat = TRUE] /\ Become(s, Idle)
       ELSE IF t.hasLock
       THEN RunSave(s, "reopen", [t EXCEPT !.saveTimer = FALSE])
       ELSE tab' = t /\ Become(s, Ask("drop", "none"))
    /\ UNCHANGED <<srv, hist, user>>

-----------------------------------------------------------------------------
\* beat, by its timer or when the page becomes visible
Beat ==
    /\ Waiting /\ tab.heartbeat /\ tab.loadState # "idle" /\ tab.hasLock
    /\ Begin(Ask("beat", "none"))
    /\ UNCHANGED <<srv, hist, tab, user>>

\* Mutant: a refused heartbeat is taken for one that did not get through.
BeatAnswerDeaf(s) ==
    /\ Waiting /\ Answered(s, "beat")
    /\ Become(s, Idle)
    /\ UNCHANGED <<srv, hist, tab, user>>

BeatAnswer(s) ==
    /\ Waiting /\ Answered(s, "beat")
    /\ IF Code(s) = "LOCK_LOST" /\ tab.loadState # "idle" /\ tab.hasLock
       THEN tab' = CaptureLostChanges(LoseLock(tab)) /\ Become(s, Refresh("none"))
       ELSE tab' = tab /\ Become(s, Idle)
    /\ UNCHANGED <<srv, hist, user>>

\* watch: a tab without the lock looks for changes
Watch ==
    /\ Waiting /\ tab.watching /\ tab.loadState = "ready" /\ ~tab.hasLock
    /\ \A s \in Slots : calls[s].fn # "watch"
    /\ Begin(Ask("watch", "none"))
    /\ UNCHANGED <<srv, hist, tab, user>>

WatchAnswer(s) ==
    LET news == \/ Now(s).version # tab.version
                \/ Now(s).closed # tab.closed
                \/ Now(s).version # tab.seen
    IN
    /\ Waiting /\ Answered(s, "watch")
    /\ IF Code(s) = "ok" /\ tab.loadState = "ready" /\ ~tab.hasLock /\ news
       THEN Become(s, Refresh("none")) ELSE Become(s, Idle)
    /\ UNCHANGED <<srv, hist, tab, user>>

-----------------------------------------------------------------------------
\* retryLock and forceLock, from the banner that says who has the lock
RetryLock ==
    /\ Act("retry") /\ user.page /\ ReadOnly(tab) /\ tab.loadState = "ready" /\ ~tab.closed
    /\ Acted
    /\ Begin(Ask("retry", "none"))
    /\ UNCHANGED <<srv, hist, tab>>

RetryAnswer(s) ==
    /\ Waiting /\ Answered(s, "retry")
    /\ IF tab.loadState = "idle" \/ Code(s) = "network"
       THEN tab' = tab /\ Become(s, Idle)
       ELSE /\ tab' = [tab EXCEPT !.hasLock = (Code(s) = "ok")]
            /\ Become(s, Refresh(IF Code(s) = "ok" THEN "retry" ELSE "none"))
    /\ UNCHANGED <<srv, hist, user>>

ForceLock ==
    /\ Act("force") /\ user.page /\ ReadOnly(tab) /\ tab.loadState = "ready" /\ ~tab.closed
    /\ Acted
    /\ Begin(Ask("force", "none"))
    /\ UNCHANGED <<srv, hist, tab>>

ForceAnswer(s) ==
    /\ Waiting /\ Answered(s, "force")
    /\ IF tab.loadState = "idle" \/ Code(s) = "network"
       THEN tab' = tab /\ Become(s, Idle)
       ELSE tab' = [tab EXCEPT !.hasLock = TRUE] /\ Become(s, Refresh("force"))
    /\ UNCHANGED <<srv, hist, user>>

\* reopen a closed request: lock, fresh document, status
Reopen ==
    /\ Act("reopen") /\ user.page /\ tab.loadState = "ready" /\ tab.closed
    /\ \A s \in Slots : calls[s].fn # "reopen" /\ calls[s].then # "reopen"
    /\ Acted
    /\ Begin(Ask("reopen", "none"))
    /\ UNCHANGED <<srv, hist, tab>>

ReopenAnswer(s) ==
    /\ Waiting /\ Answered(s, "reopen")
    /\ IF tab.loadState # "idle" /\ Code(s) = "ok"
       THEN tab' = [tab EXCEPT !.hasLock = TRUE] /\ Become(s, Refresh("reopen"))
       ELSE tab' = tab /\ Become(s, Idle)
    /\ UNCHANGED <<srv, hist, user>>

-----------------------------------------------------------------------------
StartLoad(t) ==
    /\ tab' = [Reset(t) EXCEPT !.loadState = "loading",
                               !.loadToken = t.loadToken + 1,
                               !.pendingUnload = FALSE]
    /\ Begin([Ask("load", "none") EXCEPT !.token = t.loadToken + 1])

\* load, when the page is opened: an unload that has not begun is called off;
\* a document that is there, or still being closed, is not loaded again.
OpenPage ==
    /\ Act("page") /\ ~user.page
    /\ user' = [user EXCEPT !.acts = @ + 1, !.page = TRUE]
    /\ IF tab.loadState \in {"loading", "ready"}
       THEN tab' = [tab EXCEPT !.pendingUnload = FALSE] /\ UNCHANGED calls
       ELSE StartLoad(tab)
    /\ UNCHANGED <<srv, hist>>

\* "try again" of the page that shows the error
LoadAgain ==
    /\ Act("page") /\ user.page /\ tab.loadState = "error"
    /\ Acted
    /\ StartLoad(tab)
    /\ UNCHANGED <<srv, hist>>

\* The answer is for the document as it was opened last.
Current(s) == calls[s].token = tab.loadToken

\* acquireLock has answered: a load that is no longer wanted gives it back.
LoadAnswer(s) ==
    LET acquired == Code(s) = "ok" IN
    /\ Waiting /\ Answered(s, "load")
    /\ tab' = IF Code(s) = "network" /\ Current(s)
              THEN [tab EXCEPT !.loadState = "error"] ELSE tab
    /\ CASE Code(s) = "network" -> Become(s, Idle)
       []   Code(s) # "network" /\ Current(s) ->
              Become(s, [Ask("loadDoc", IF acquired THEN "acquired" ELSE "none")
                            EXCEPT !.token = calls[s].token])
       []   OTHER -> Become(s, IF acquired THEN Ask("drop", "none") ELSE Idle)
    /\ UNCHANGED <<srv, hist, user>>

\* Mutant: only a tab that opens without the lock watches.
LoadedWatchesViewer(t, now, acquired) ==
    LET mine == acquired /\ ~now.closed IN
    [t EXCEPT !.loadState = "ready", !.doc = now.doc, !.lastSaved = now.doc,
              !.version = now.version, !.seen = now.version, !.closed = now.closed,
              !.hasLock = mine, !.heartbeat = @ \/ mine, !.watching = ~mine]

\* The document is there; a closed one is only viewed, without the lock.
Loaded(t, now, acquired) ==
    LET mine == acquired /\ ~now.closed IN
    [t EXCEPT !.loadState = "ready", !.doc = now.doc, !.lastSaved = now.doc,
              !.version = now.version, !.seen = now.version, !.closed = now.closed,
              !.hasLock = mine, !.heartbeat = @ \/ mine, !.watching = TRUE]

LoadDocAnswer(s) ==
    LET acquired == calls[s].then = "acquired" IN
    /\ Waiting /\ Answered(s, "loadDoc")
    /\ tab' = CASE ~Current(s) -> tab
              []   Current(s) /\ Code(s) = "network" -> [tab EXCEPT !.loadState = "error"]
              []   OTHER -> Loaded(tab, Now(s), acquired)
    /\ Become(s, IF acquired /\ Code(s) = "ok" /\ (~Current(s) \/ Now(s).closed)
                 THEN Ask("drop", "none") ELSE Idle)
    /\ UNCHANGED <<srv, hist, user>>

-----------------------------------------------------------------------------
\* unload, when the page is left: begins after a tick
ClosePage ==
    /\ Act("page") /\ user.page
    /\ user' = [user EXCEPT !.acts = @ + 1, !.page = FALSE]
    /\ tab' = [tab EXCEPT !.pendingUnload = (tab.loadState # "idle")]
    /\ UNCHANGED <<srv, hist, calls>>

\* doUnload: save and release when this tab holds the lock, then forget all
DoUnload ==
    LET t == [tab EXCEPT !.pendingUnload = FALSE]
        u == [t EXCEPT !.loadToken = @ + 1, !.heartbeat = FALSE,
                       !.watching = FALSE, !.saveTimer = FALSE]
    IN
    /\ Waiting /\ tab.pendingUnload
    /\ IF tab.unloading \/ tab.loadState = "idle" THEN tab' = t /\ UNCHANGED calls
       ELSE IF tab.hasLock THEN BeginSave("close", [u EXCEPT !.unloading = TRUE])
       ELSE tab' = Reset(u) /\ UNCHANGED calls
    /\ UNCHANGED <<srv, hist, user>>

ClosingAnswer(s) ==
    /\ Waiting /\ Answered(s, "closing")
    /\ tab' = [Reset(tab) EXCEPT !.unloading = FALSE]
    /\ Become(s, Idle)
    /\ UNCHANGED <<srv, hist, user>>

DropAnswer(s) ==
    /\ Waiting /\ Answered(s, "drop")
    /\ Become(s, Idle)
    /\ UNCHANGED <<srv, hist, tab, user>>

-----------------------------------------------------------------------------
\* onPageHide: what is not saved goes out with the release, in one request
PageHide ==
    LET t == [tab EXCEPT !.saveTimer = FALSE, !.heartbeat = FALSE, !.hasLock = FALSE]
    IN
    /\ Act("hide")
    /\ user' = [user EXCEPT !.acts = @ + 1, !.hidden = TRUE]
    /\ CASE tab.loadState = "idle" \/ ~tab.hasLock -> tab' = tab /\ UNCHANGED calls
       []   Savable(tab) /\ tab.doc # tab.lastSaved ->
              tab' = t /\ Begin([Ask("hide", "none") EXCEPT
                          !.base = tab.version, !.sent = tab.doc, !.cut = tab.lastSaved])
       []   OTHER -> tab' = t /\ Begin(Ask("drop", "none"))
    /\ UNCHANGED <<srv, hist>>

\* The browser kept the page: retryLock
PageShow ==
    /\ user.hidden
    /\ user' = [user EXCEPT !.hidden = FALSE, !.kept = TRUE]
    /\ IF tab.loadState = "idle" THEN UNCHANGED calls
       ELSE Begin(Ask("retry", "none"))
    /\ UNCHANGED <<srv, hist, tab>>

\* Whatever document is open by then.
HideAnswer(s) ==
    /\ Waiting /\ Answered(s, "hide")
    /\ tab' = IF Code(s) # "ok" THEN tab
              ELSE [tab EXCEPT !.lastSaved = calls[s].sent,
                               !.version = Now(s).version, !.dirty = FALSE]
    /\ Become(s, Idle)
    /\ UNCHANGED <<srv, hist, user>>

=============================================================================
