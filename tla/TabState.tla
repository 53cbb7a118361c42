------------------------------- MODULE TabState -------------------------------
(***************************************************************************)
(* One browser tab that has a request open (requestDocStore.ts), the       *)
(* server as that tab sees it, and the calls between them.                 *)
(*                                                                         *)
(* Every async function of the store that waits for an answer is an        *)
(* activity in a slot of `calls`. What it does between two awaits is one   *)
(* step, since JavaScript runs it undisturbed. Documents are sets of       *)
(* edits: positive numbers are edits of this tab, negative ones of others. *)
(***************************************************************************)
EXTENDS Integers, Sequences, FiniteSets

CONSTANTS
    Slots,      \* activities that can be waiting at the same time: 1 .. n
    NoSlot,
    Acts,       \* what the user, the others and the network do here
    MaxActs,    \* bound on the acts of this tab's user
    MaxOthers,  \* bound on the acts of other tabs
    MaxFails    \* bound on lost requests and answers

AllActs == {"edit", "undo", "status", "reopen", "retry", "force", "page", "hide"}

ASSUME SlotsAssumption == 1 \in Slots /\ Slots \subseteq Nat /\ NoSlot \notin Slots
ASSUME ActsAssumption  == /\ Acts \subseteq AllActs
                          /\ {MaxActs, MaxOthers, MaxFails} \subseteq Nat

VARIABLES
    srv,    \* the request on the server, and whose its lock row is
    hist,   \* ghost: the documents the server has stored, by version
    tab,    \* the store: its state and the variables of its closure
    calls,  \* activities that wait for an answer or for a save
    user    \* the page the user has open, and what is left of the bounds

vars == <<srv, hist, tab, calls, user>>

-----------------------------------------------------------------------------
Doc == SUBSET Int
Owners == {"mine", "other", "none"}
Server == [version : Nat, doc : Doc, closed : BOOLEAN, lock : Owners]

Codes == {"none", "ok", "LOCKED", "LOCK_LOST", "VERSION_CONFLICT", "READ_ONLY",
          "INVALID_TRANSITION", "NOT_FOUND", "network"}
Result == [code : Codes, now : Server]
NoServer == [version |-> 0, doc |-> {}, closed |-> FALSE, lock |-> "none"]
NoResult == [code |-> "none", now |-> NoServer]

\* Named for the function of the store that waits; closing is the releaseLock
\* of doUnload, drop a releaseLock nobody waits for.
Functions == {"none", "load", "loadDoc", "refresh", "save", "hide", "drop",
              "closing", "beat", "watch", "status", "retry", "force", "reopen"}

\* then: who waits for the activity, or (loadDoc) whether the lock was acquired
Activity == [fn : Functions, at : {"idle", "wait", "asked", "checked", "answered"},
             then : {"none", "status", "reopen", "close", "retry", "force", "acquired"},
             token : Nat, base : Nat, sent : Doc, cut : Doc, res : Result]
Idle == [fn |-> "none", at |-> "idle", then |-> "none", token |-> 0, base |-> 0,
         sent |-> {}, cut |-> {}, res |-> NoResult]

SaveStates == {"idle", "saving", "saved", "error"}
LoadStates == {"idle", "loading", "ready", "error"}

\* seen is meta.updatedAt: the version at which the document was last read.
\* loadState is "idle" when requestId is null.
Tab == [loadState : LoadStates, loadToken : Nat, pendingUnload : BOOLEAN,
        unloading : BOOLEAN, doc : Doc, lastSaved : Doc, version : Nat,
        seen : Nat, closed : BOOLEAN, hasLock : BOOLEAN, heartbeat : BOOLEAN,
        watching : BOOLEAN, saveTimer : BOOLEAN, saving : Slots \cup {NoSlot},
        saveState : SaveStates, dirty : BOOLEAN, past : Seq(Doc),
        future : Seq(Doc), lostChanges : Doc]

NewTab == [loadState |-> "idle", loadToken |-> 0, pendingUnload |-> FALSE,
           unloading |-> FALSE, doc |-> {}, lastSaved |-> {}, version |-> 0,
           seen |-> 0, closed |-> FALSE, hasLock |-> FALSE, heartbeat |-> FALSE,
           watching |-> FALSE, saveTimer |-> FALSE, saving |-> NoSlot,
           saveState |-> "idle", dirty |-> FALSE, past |-> <<>>, future |-> <<>>,
           lostChanges |-> {}]

\* readOnlyOf: editable only when ready, open and locked by this tab
ReadOnly(t) == t.loadState # "ready" \/ t.closed \/ ~t.hasLock

\* INITIAL_DATA, and the saved document and history that go with it
Reset(t) ==
    [t EXCEPT !.loadState = "idle", !.doc = {}, !.lastSaved = {}, !.version = 0,
              !.seen = 0, !.closed = FALSE, !.hasLock = FALSE,
              !.saveState = "idle", !.dirty = FALSE, !.past = <<>>,
              !.future = <<>>, !.lostChanges = {}]

-----------------------------------------------------------------------------
Free == {s \in Slots : calls[s] = Idle}

Ask(fn, then) == [Idle EXCEPT !.fn = fn, !.at = "asked", !.then = then]

\* Activity s goes on as a.
Become(s, a) == calls' = [calls EXCEPT ![s] = a]

\* Activity s goes on as a, if there is more to do, while b starts next to it.
Both(s, a, b) ==
    IF a = Idle THEN Become(s, b)
    ELSE \E r \in Free \ {s} : calls' = [calls EXCEPT ![s] = a, ![r] = b]

\* A new activity.
Begin(a) == \E s \in Free :
    /\ \A r \in Free : s <= r
    /\ Become(s, a)

Answered(s, fn) == calls[s].fn = fn /\ calls[s].at = "answered"
Code(s) == calls[s].res.code
Now(s)  == calls[s].res.now

\* The page is there and no continuation is due: the user, a timer or an
\* answer comes next.
Waiting == ~user.hidden /\ \A s \in Slots :
               calls[s].at = "wait" => tab.saving # NoSlot

\* The user does something of this kind.
Act(kind) == kind \in Acts /\ Waiting /\ user.acts < MaxActs
Acted == user' = [user EXCEPT !.acts = @ + 1]

=============================================================================
