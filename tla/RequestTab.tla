------------------------------ MODULE RequestTab ------------------------------
(***************************************************************************)
(* The request tab, the server and the other tabs together.                *)
(***************************************************************************)
EXTENDS TabLife

\* The application is opened on the page of a request: its load has begun.
Init ==
    /\ srv = [NoServer EXCEPT !.version = 1]
    /\ hist = <<{}>>
    /\ tab = [NewTab EXCEPT !.loadState = "loading", !.loadToken = 1]
    /\ calls = [[s \in Slots |-> Idle] EXCEPT ![1] = [Ask("load", "none") EXCEPT !.token = 1]]
    /\ user = [page |-> TRUE, hidden |-> FALSE, kept |-> FALSE, mixed |-> FALSE,
             acts |-> 0, others |-> 0, fails |-> 0]

Acting ==
    \/ Edit \/ Undo \/ Redo \/ SetStatus \/ Reopen \/ RetryLock \/ ForceLock
    \/ OpenPage \/ LoadAgain \/ ClosePage \/ PageHide \/ PageShow

Timers == SaveTimer \/ DoUnload \/ Beat \/ Watch

Answer(s) ==
    \/ SaveAnswer(s) \/ SaveError(s) \/ StatusAnswer(s) \/ StatusError(s)
    \/ RefreshAnswer(s) \/ RefreshForLock(s) \/ RefreshForReopen(s)
    \/ BeatAnswer(s) \/ WatchAnswer(s)
    \/ RetryAnswer(s) \/ ForceAnswer(s) \/ ReopenAnswer(s)
    \/ LoadAnswer(s) \/ LoadDocAnswer(s) \/ ClosingAnswer(s)
    \/ DropAnswer(s) \/ HideAnswer(s)

Next ==
    \/ Acting \/ Timers \/ Others
    \/ \E s \in Slots : Serve(s) \/ Fail(s) \/ Answer(s) \/ Resume(s)

Spec == Init /\ [][Next]_vars

\* The server answers, timers go off, and the page handles what comes in.
\* A timer can wait for a free slot, and comes again: strong fairness.
FairSpec ==
    /\ Spec
    /\ SF_vars(SaveTimer) /\ SF_vars(DoUnload) /\ SF_vars(Beat) /\ SF_vars(Watch)
    /\ \A s \in Slots : WF_vars(Serve(s)) /\ WF_vars(Answer(s)) /\ WF_vars(Resume(s))

-----------------------------------------------------------------------------
\* A save that the server accepts leaves there exactly the document the tab
\* showed when it sent it (runSave sends only the difference to lastSaved) -
\* unless setStatus has put a later version over another document (Mixes).
SaveStoresShown ==
    [][ \A s \in Slots :
          (/\ calls[s].fn \in SaveFns /\ calls[s].at # "answered" /\ ~user.mixed
           /\ calls'[s].at = "answered" /\ calls'[s].res.code = "ok")
              => srv'.doc = calls[s].sent ]_vars

\* What the store takes for saved (lastSaved, from which every patch is cut) is
\* the version it has of the server's, and so is what the tab shows when nothing
\* marks it as unsaved (dirty). (After onPageHide and a return the answer to its
\* save clears dirty unasked; for setStatus see Mixes.)
SavedWasStored ==
    (tab.loadState = "ready" /\ ~user.mixed) =>
        /\ tab.version \in 1 .. Len(hist) /\ tab.lastSaved = hist[tab.version]
        /\ ~tab.dirty /\ ~user.kept => tab.doc = tab.lastSaved

\* The holder of a lock that was taken over learns of it by the next heartbeat
\* or save (forceLock in locks.service.ts).
LockLossNoticed ==
    (tab.hasLock /\ srv.lock # "mine") ~> (~tab.hasLock \/ srv.lock = "mine" \/ user.hidden)

\* A tab without the lock comes to show what the holder has saved (watch).
ViewerCatchesUp ==
    (tab.loadState = "ready" /\ ~tab.hasLock /\ tab.version # srv.version)
        ~> \/ tab.loadState # "ready" \/ tab.hasLock \/ user.hidden
           \/ tab.version = srv.version

-----------------------------------------------------------------------------
(* What a comment of the code says, and an interleaving refutes            *)

\* captureLostChanges: what a reading of the document from the server takes off
\* the screen without its having been saved is reported.
RereadReportsLoss ==
    [][ \A s \in Slots :
          (Answered(s, "refresh") /\ calls'[s] # calls[s]) =>
              \A e \in tab.doc \ tab'.doc : e > 0 =>
                  e \in tab.lostChanges \/ \E n \in 1 .. Len(hist) : e \in hist[n] ]_vars

=============================================================================
