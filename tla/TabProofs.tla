------------------------------ MODULE TabProofs ------------------------------
(***************************************************************************)
(* Proofs about the request tab: what it takes for stored has been stored, *)
(* an accepted save leaves on the server what the tab showed, and the      *)
(* server of the model keeps RequestLedger.                                *)
(*                                                                         *)
(* The inductive invariant TabInv says of every version that is named      *)
(* somewhere - by the tab, by a save that is on its way, by an answer that *)
(* has not been received - which document the server had then. RowKept     *)
(* says that a write that was checked still finds the version it named.    *)
(* There is a lemma for each action; most actions change the tab or one    *)
(* activity, and the lemmas FrameStep and MixStep reduce them to that.     *)
(***************************************************************************)
EXTENDS RequestTab, TLAPS

User == [page : BOOLEAN, hidden : BOOLEAN, kept : BOOLEAN, mixed : BOOLEAN,
         acts : Nat, others : Nat, fails : Nat]

Typed ==
    /\ srv \in Server /\ hist \in Seq(Doc) /\ tab \in Tab
    /\ calls \in [Slots -> Activity] /\ user \in User

\* Version v of the server's was d.
Stored(v, d) == v \in 1 .. Len(hist) /\ hist[v] = d

\* The history ends with what the server has.
HistoryKept == Len(hist) = srv.version /\ Stored(srv.version, srv.doc)

\* SavedWasStored, of any state of the store
TabStored(t) ==
    (t.loadState = "ready" /\ ~user.mixed) =>
        /\ Stored(t.version, t.lastSaved)
        /\ ~t.dirty /\ ~user.kept => t.doc = t.lastSaved

\* A save on its way is cut from the version it names; its answer names the
\* version that it became.
SaveStored(c) ==
    (c.fn \in SaveFns /\ ~user.mixed) =>
        /\ c.at \in {"asked", "checked"} => Stored(c.base, c.cut)
        /\ (c.at = "answered" /\ c.res.code = "ok") => Stored(c.res.now.version, c.sent)

\* What was read is a version the server has had.
ReadStored(c) ==
    (c.fn \in {"loadDoc", "refresh"} /\ c.at = "answered") =>
        \/ c.res.code = "network"
        \/ c.res.code = "ok" /\ Stored(c.res.now.version, c.res.now.doc)

\* A change of status has changed nothing else.
StatusStored(c) ==
    (c.fn = "status" /\ c.at = "answered" /\ c.res.code = "ok") =>
        /\ c.base \in 1 .. Len(hist) /\ c.res.now.version = c.base + 1
        /\ Stored(c.base + 1, hist[c.base])

\* What onPageHide has sent is answered only to a page that came back.
HideKept(c) == c.fn = "hide" => user.hidden \/ user.kept

GoodTab(t)  == t \in Tab /\ TabStored(t)
GoodCall(c) ==
    c \in Activity /\ SaveStored(c) /\ ReadStored(c) /\ StatusStored(c) /\ HideKept(c)
GoodCalls(f) == f \in [Slots -> Activity] /\ \A s \in Slots : GoodCall(f[s])

\* A call that the tab made or went on with: the server does nothing.
Own(c) == c.at \notin {"checked", "answered"}
NewCall(c) == GoodCall(c) /\ Own(c)
NewCalls(f) == GoodCalls(f) /\ \A s \in Slots : f[s] = calls[s] \/ Own(f[s])
TabMoves == srv' = srv /\ \A s \in Slots : calls'[s] = calls[s] \/ Own(calls'[s])

\* A write that has passed its checks has the Request row to itself, and the
\* version it was checked against.
RowKept ==
    /\ \A s \in Slots : calls[s].at = "checked" =>
           calls[s].fn \in WriteFns /\ calls[s].base = srv.version
    /\ \A r, s \in Slots : calls[r].at = "checked" /\ calls[s].at = "checked" => r = s

TabInv ==
    /\ srv \in Server /\ hist \in Seq(Doc) /\ user \in User
    /\ HistoryKept /\ GoodTab(tab) /\ GoodCalls(calls)

Thens == {"none", "status", "reopen", "close", "retry", "force", "acquired"}

-----------------------------------------------------------------------------
(* Calls                                                                   *)

LEMMA IdleGood == NewCall(Idle)
<1>1. NoServer \in Server
  BY DEF NoServer, Server, Doc, Owners
<1>2. NoResult \in Result
  BY <1>1 DEF NoResult, Result, Codes
<1>3. Idle \in Activity
  BY <1>2 DEF Idle, Activity, Functions, Doc
<1> QED BY <1>3 DEF NewCall, Own, GoodCall, Idle, SaveStored, ReadStored, StatusStored, HideKept, SaveFns

LEMMA AskTyped ==
    ASSUME NEW fn \in Functions, NEW then \in Thens
    PROVE  /\ Ask(fn, then) \in Activity
           /\ Ask(fn, then).fn = fn /\ Ask(fn, then).at = "asked"
<1>1. Idle \in Activity
  BY IdleGood DEF NewCall, GoodCall
<1> QED BY <1>1 DEF Ask, Activity, Thens

LEMMA AskedGood ==
    ASSUME NEW c \in Activity, Own(c), c.fn # "hide",
           c.fn \notin SaveFns \/ c.at # "asked"
    PROVE  NewCall(c)
BY DEF NewCall, Own, GoodCall, SaveStored, ReadStored, StatusStored, HideKept

LEMMA AskGood ==
    ASSUME NEW fn \in Functions \ SaveFns, NEW then \in Thens
    PROVE  NewCall(Ask(fn, then))
BY AskTyped, AskedGood DEF SaveFns, Own

LEMMA AskTokenGood ==
    ASSUME NEW fn \in Functions \ SaveFns, NEW then \in Thens, NEW n \in Nat
    PROVE  NewCall([Ask(fn, then) EXCEPT !.token = n])
<1>1. Ask(fn, then) \in Activity
  BY AskTyped
<1>2. /\ [Ask(fn, then) EXCEPT !.token = n] \in Activity
      /\ [Ask(fn, then) EXCEPT !.token = n].fn = Ask(fn, then).fn
      /\ [Ask(fn, then) EXCEPT !.token = n].at = Ask(fn, then).at
  BY <1>1 DEF Activity
<1> QED BY <1>2, AskTyped, AskedGood DEF SaveFns, Own

LEMMA AskBaseGood ==
    ASSUME NEW fn \in Functions \ SaveFns, NEW then \in Thens, NEW n \in Nat
    PROVE  NewCall([Ask(fn, then) EXCEPT !.base = n])
<1>1. Ask(fn, then) \in Activity
  BY AskTyped
<1>2. /\ [Ask(fn, then) EXCEPT !.base = n] \in Activity
      /\ [Ask(fn, then) EXCEPT !.base = n].fn = Ask(fn, then).fn
      /\ [Ask(fn, then) EXCEPT !.base = n].at = Ask(fn, then).at
  BY <1>1 DEF Activity
<1> QED BY <1>2, AskTyped, AskedGood DEF SaveFns, Own

\* A save of all that store t shows
SaveOf(fn, then, t) ==
    [Ask(fn, then) EXCEPT !.base = t.version, !.sent = t.doc, !.cut = t.lastSaved]

\* ... is in order when the store is.
LEMMA SaveGood ==
    ASSUME NEW fn \in SaveFns, NEW then \in Thens, NEW t, GoodTab(t), t.loadState = "ready"
    PROVE  /\ SaveOf(fn, then, t) \in Activity /\ SaveStored(SaveOf(fn, then, t))
           /\ ReadStored(SaveOf(fn, then, t)) /\ StatusStored(SaveOf(fn, then, t))
           /\ SaveOf(fn, then, t).fn = fn /\ SaveOf(fn, then, t).at = "asked"
<1> DEFINE c == SaveOf(fn, then, t)
<1>1. /\ Ask(fn, then) \in Activity
      /\ Ask(fn, then).fn = fn /\ Ask(fn, then).at = "asked"
  BY AskTyped DEF SaveFns, Functions
<1>2. t.version \in Nat /\ t.doc \in Doc /\ t.lastSaved \in Doc
  BY DEF GoodTab, Tab
<1>3. /\ c \in Activity /\ c.fn = fn /\ c.at = "asked"
      /\ c.base = t.version /\ c.cut = t.lastSaved
  BY <1>1, <1>2 DEF SaveOf, Activity
<1>4. ~user.mixed => Stored(t.version, t.lastSaved)
  BY DEF GoodTab, TabStored
<1> QED BY <1>3, <1>4 DEF SaveStored, ReadStored, StatusStored, SaveFns

LEMMA BecomeGood ==
    ASSUME NEW s \in Slots, NEW a, NewCall(a), GoodCalls(calls), Become(s, a)
    PROVE  NewCalls(calls')
BY DEF Become, NewCalls, NewCall, GoodCalls, GoodCall

LEMMA BothGood ==
    ASSUME NEW s \in Slots, NEW a, NEW b, NewCall(a), NewCall(b), GoodCalls(calls),
           Both(s, a, b)
    PROVE  NewCalls(calls')
<1>1. CASE a = Idle
  BY <1>1, BecomeGood DEF Both
<1>2. CASE a # Idle
  <2>1. PICK r \in Slots : calls' = [calls EXCEPT ![s] = a, ![r] = b]
    BY <1>2 DEF Both, Free
  <2> QED BY <2>1 DEF NewCalls, NewCall, GoodCalls, GoodCall
<1> QED BY <1>1, <1>2

LEMMA BeginGood ==
    ASSUME NEW a, NewCall(a), GoodCalls(calls), Begin(a)
    PROVE  NewCalls(calls')
BY BecomeGood DEF Begin, Free

LEMMA RefreshGood ==
    ASSUME tab \in Tab, NEW then \in Thens
    PROVE  NewCall(Refresh(then))
<1>1. tab.loadToken \in Nat
  BY DEF Tab
<1> QED BY <1>1, AskTokenGood DEF Refresh, Functions, SaveFns

-----------------------------------------------------------------------------
(* The store                                                               *)

\* Nothing that matters to TabStored changes, except that dirty may be set.
LEMMA SameTabGood ==
    ASSUME NEW t, GoodTab(t), NEW u \in Tab,
           u.loadState = t.loadState \/ u.loadState # "ready",
           u.version = t.version, u.lastSaved = t.lastSaved,
           u.dirty \/ (u.dirty = t.dirty /\ u.doc = t.doc)
    PROVE  GoodTab(u)
BY DEF GoodTab, TabStored

LEMMA FrameStep ==
    ASSUME TabInv, srv' = srv, hist' = hist, user' \in User,
           user.mixed => user.mixed', user.kept => user.kept',
           user.hidden => user'.hidden \/ user'.kept, GoodTab(tab'), NewCalls(calls')
    PROVE  TabInv' /\ TabMoves
<1>1. HistoryKept' /\ GoodTab(tab)'
  BY DEF TabInv, HistoryKept, Stored, GoodTab, TabStored
<1>2. GoodCalls(calls)'
  BY DEF NewCalls, GoodCalls, GoodCall, SaveStored, ReadStored, StatusStored, HideKept, Stored
<1> QED BY <1>1, <1>2 DEF TabInv, NewCalls, TabMoves

LEMMA ReturnGood ==
    ASSUME NEW s \in Slots, NEW then \in Thens, NEW t, GoodTab(t), GoodCalls(calls),
           Return(s, then, t)
    PROVE  GoodTab(tab') /\ NewCalls(calls')
<1>1. Unlocked(t) \in Tab /\ GoodTab(Unlocked(t))
  <2>1. /\ Unlocked(t) \in Tab /\ Unlocked(t).loadState = t.loadState
        /\ Unlocked(t).version = t.version /\ Unlocked(t).lastSaved = t.lastSaved
        /\ Unlocked(t).dirty = t.dirty /\ Unlocked(t).doc = t.doc
    BY DEF GoodTab, Tab, Unlocked
  <2> QED BY <2>1, SameTabGood
<1>2. GoodTab(tab')
  BY <1>1 DEF Return, AfterSaveTab
<1>3. t.version \in Nat
  BY DEF GoodTab, Tab
<1>4. NewCall(AfterSave(then, t))
  <2>1. NewCall(Ask("closing", "none")) /\ NewCall(Ask("drop", "none"))
    BY AskGood DEF Functions, SaveFns, Thens
  <2>2. NewCall([Ask("status", then) EXCEPT !.base = t.version])
    BY <1>3, AskBaseGood DEF Functions, SaveFns
  <2> QED BY <2>1, <2>2, IdleGood DEF AfterSave
<1>5. NewCalls(calls')
  BY <1>4, BecomeGood DEF Return
<1> QED BY <1>2, <1>5

LEMMA RunSaveGood ==
    ASSUME NEW s \in Slots, NEW then \in Thens, NEW t, GoodTab(t), GoodCalls(calls),
           RunSave(s, then, t)
    PROVE  GoodTab(tab') /\ NewCalls(calls')
<1>1. CASE tab' = t /\ Become(s, [Idle EXCEPT !.fn = "save", !.at = "wait", !.then = then])
  <2> DEFINE c == [Idle EXCEPT !.fn = "save", !.at = "wait", !.then = then]
  <2>1. Idle \in Activity
    BY IdleGood DEF NewCall, GoodCall
  <2>2. c \in Activity /\ c.at = "wait" /\ c.fn = "save"
    BY <2>1 DEF Activity, Functions, Thens
  <2>3. NewCall(c)
    BY <2>2, AskedGood DEF Own
  <2> QED BY <1>1, <2>3, BecomeGood
<1>2. CASE Return(s, then, t)
  BY <1>2, ReturnGood
<1>3. CASE t.doc = t.lastSaved /\ Return(s, then, [t EXCEPT !.dirty = FALSE])
  <2>1. GoodTab([t EXCEPT !.dirty = FALSE])
    <3>1. t \in Tab
      BY DEF GoodTab
    <3>2. [t EXCEPT !.dirty = FALSE] \in Tab
      BY <3>1 DEF Tab
    <3>3. /\ [t EXCEPT !.dirty = FALSE].loadState = t.loadState
          /\ [t EXCEPT !.dirty = FALSE].version = t.version
          /\ [t EXCEPT !.dirty = FALSE].lastSaved = t.lastSaved
          /\ [t EXCEPT !.dirty = FALSE].doc = t.doc
      BY <3>1 DEF Tab
    <3> QED BY <1>3, <3>2, <3>3 DEF GoodTab, TabStored
  <2> QED BY <1>3, <2>1, ReturnGood
<1>4. CASE /\ Savable(t)
           /\ tab' = [t EXCEPT !.saving = s, !.saveState = "saving"]
           /\ Become(s, [Ask("save", then) EXCEPT !.base = t.version,
                                                  !.sent = t.doc, !.cut = t.lastSaved])
  <2> DEFINE u == [t EXCEPT !.saving = s, !.saveState = "saving"]
             c == SaveOf("save", then, t)
  <2>1. /\ u \in Tab /\ u.loadState = t.loadState /\ u.version = t.version
        /\ u.lastSaved = t.lastSaved /\ u.dirty = t.dirty /\ u.doc = t.doc
    BY DEF GoodTab, Tab, SaveStates
  <2>2. GoodTab(u)
    BY <2>1, SameTabGood
  <2>3. "save" \in SaveFns /\ t.loadState = "ready"
    BY <1>4 DEF SaveFns, Savable
  <2>4. Become(s, c)
    BY <1>4 DEF SaveOf
  <2>5. /\ c \in Activity /\ SaveStored(c) /\ ReadStored(c) /\ StatusStored(c)
        /\ c.fn = "save" /\ c.at = "asked"
    BY <2>3, SaveGood
  <2> HIDE DEF c
  <2>6. NewCall(c)
    BY <2>5 DEF NewCall, Own, GoodCall, HideKept
  <2> QED BY <1>4, <2>2, <2>4, <2>6, BecomeGood
<1> QED BY <1>1, <1>2, <1>3, <1>4 DEF RunSave

LEMMA BeginSaveGood ==
    ASSUME NEW then \in Thens, NEW t, GoodTab(t), GoodCalls(calls), BeginSave(then, t)
    PROVE  GoodTab(tab') /\ NewCalls(calls')
BY RunSaveGood DEF BeginSave, Free

-----------------------------------------------------------------------------
(* What the user does, and the timers                                      *)

LEMMA ActedFrame ==
    ASSUME user \in User, Acted
    PROVE  /\ user' \in User /\ user'.mixed = user.mixed
           /\ user'.kept = user.kept /\ user'.hidden = user.hidden
BY DEF User, Acted

LEMMA SameCalls ==
    ASSUME TabInv, UNCHANGED calls
    PROVE  NewCalls(calls')
BY DEF TabInv, NewCalls

LEMMA SameUser ==
    ASSUME TabInv, UNCHANGED user
    PROVE  /\ user' \in User /\ user'.mixed = user.mixed
           /\ user'.kept = user.kept /\ user'.hidden = user.hidden
BY DEF TabInv

LEMMA SameTab ==
    ASSUME TabInv, UNCHANGED tab
    PROVE  GoodTab(tab')
BY DEF TabInv

\* A store with its timer off, its unload begun or called off, its heartbeat,
\* its watch or its lock changed: what was saved stays what it was.
LEMMA LockTabGood ==
    ASSUME NEW t, GoodTab(t), NEW u \in Tab,
           u.loadState = t.loadState, u.version = t.version, u.lastSaved = t.lastSaved,
           u.dirty = t.dirty, u.doc = t.doc
    PROVE  GoodTab(u)
BY SameTabGood

LEMMA EditStep == ASSUME TabInv, Edit PROVE TabInv' /\ TabMoves
<1>1. tab \in Tab /\ user \in User /\ user.acts + 1 \in Int
  BY DEF TabInv, GoodTab, User
<1>2. tab' \in Tab
  <2>1. tab.doc \in Doc /\ tab.past \in Seq(Doc)
    BY <1>1 DEF Tab
  <2>2. tab.doc \cup {user.acts + 1} \in Doc
    BY <1>1, <2>1 DEF Doc
  <2>3. Append(tab.past, tab.doc) \in Seq(Doc) /\ <<>> \in Seq(Doc)
    BY <2>1
  <2> QED BY <1>1, <2>2, <2>3 DEF Edit, Tab
<1>3. /\ tab'.loadState = tab.loadState /\ tab'.version = tab.version
      /\ tab'.lastSaved = tab.lastSaved /\ tab'.dirty
  BY <1>1 DEF Edit, Tab
<1>4. GoodTab(tab')
  BY <1>2, <1>3, SameTabGood DEF TabInv
<1> QED BY <1>4, <1>1, ActedFrame, SameCalls, FrameStep DEF Edit

LEMMA UndoStep == ASSUME TabInv, Undo PROVE TabInv' /\ TabMoves
<1>1. tab \in Tab /\ user \in User
  BY DEF TabInv, GoodTab
<1> DEFINE n == Len(tab.past)
<1>2. tab' \in Tab
  <2>1. tab.past \in Seq(Doc) /\ tab.future \in Seq(Doc) /\ tab.doc \in Doc /\ tab.past # <<>>
    BY <1>1 DEF Tab, Undo
  <2>2. /\ tab.past[n] \in Doc /\ SubSeq(tab.past, 1, n - 1) \in Seq(Doc)
        /\ Append(tab.future, tab.doc) \in Seq(Doc)
    BY <2>1
  <2> QED BY <1>1, <2>2 DEF Undo, Tab
<1>3. /\ tab'.loadState = tab.loadState /\ tab'.version = tab.version
      /\ tab'.lastSaved = tab.lastSaved /\ tab'.dirty
  BY <1>1 DEF Undo, Tab
<1>4. GoodTab(tab')
  BY <1>2, <1>3, SameTabGood DEF TabInv
<1> QED BY <1>4, <1>1, ActedFrame, SameCalls, FrameStep DEF Undo

LEMMA RedoStep == ASSUME TabInv, Redo PROVE TabInv' /\ TabMoves
<1>1. tab \in Tab /\ user \in User
  BY DEF TabInv, GoodTab
<1> DEFINE n == Len(tab.future)
<1>2. tab' \in Tab
  <2>1. tab.past \in Seq(Doc) /\ tab.future \in Seq(Doc) /\ tab.doc \in Doc /\ tab.future # <<>>
    BY <1>1 DEF Tab, Redo
  <2>2. /\ tab.future[n] \in Doc /\ SubSeq(tab.future, 1, n - 1) \in Seq(Doc)
        /\ Append(tab.past, tab.doc) \in Seq(Doc)
    BY <2>1
  <2> QED BY <1>1, <2>2 DEF Redo, Tab
<1>3. /\ tab'.loadState = tab.loadState /\ tab'.version = tab.version
      /\ tab'.lastSaved = tab.lastSaved /\ tab'.dirty
  BY <1>1 DEF Redo, Tab
<1>4. GoodTab(tab')
  BY <1>2, <1>3, SameTabGood DEF TabInv
<1> QED BY <1>4, <1>1, ActedFrame, SameCalls, FrameStep DEF Redo

LEMMA TimerOff ==
    ASSUME TabInv
    PROVE  GoodTab([tab EXCEPT !.saveTimer = FALSE])
<1> DEFINE u == [tab EXCEPT !.saveTimer = FALSE]
<1>1. /\ u \in Tab /\ u.loadState = tab.loadState /\ u.version = tab.version
      /\ u.lastSaved = tab.lastSaved /\ u.dirty = tab.dirty /\ u.doc = tab.doc
  BY DEF TabInv, GoodTab, Tab
<1> QED BY <1>1, LockTabGood DEF TabInv

LEMMA SetStatusStep == ASSUME TabInv, SetStatus PROVE TabInv' /\ TabMoves
<1>1. GoodTab(tab') /\ NewCalls(calls')
  BY TimerOff, BeginSaveGood DEF SetStatus, TabInv, Thens
<1> QED BY <1>1, ActedFrame, FrameStep DEF SetStatus, TabInv

LEMMA SaveTimerStep == ASSUME TabInv, SaveTimer PROVE TabInv' /\ TabMoves
<1>1. GoodTab(tab') /\ NewCalls(calls')
  BY TimerOff, BeginSaveGood DEF SaveTimer, TabInv, Thens
<1> QED BY <1>1, SameUser, FrameStep DEF SaveTimer

LEMMA CallThen ==
    ASSUME TabInv, NEW s \in Slots
    PROVE  /\ calls[s] \in Activity /\ GoodCall(calls[s]) /\ calls[s].then \in Thens
           /\ calls[s].res.now.version \in Nat /\ calls[s].res.now.closed \in BOOLEAN
           /\ calls[s].res.now.doc \in Doc
BY DEF TabInv, GoodCalls, GoodCall, Activity, Thens, Result, Server

LEMMA ResumeStep == ASSUME TabInv, NEW s \in Slots, Resume(s) PROVE TabInv' /\ TabMoves
<1>1. GoodTab(tab') /\ NewCalls(calls')
  BY CallThen, RunSaveGood DEF Resume, TabInv
<1> QED BY <1>1, SameUser, FrameStep DEF Resume

LEMMA BeginStep ==
    ASSUME TabInv, NEW fn \in Functions \ SaveFns, NEW then \in Thens,
           Begin(Ask(fn, then)), UNCHANGED <<srv, hist, tab>>,
           user' \in User, user'.mixed = user.mixed, user'.kept = user.kept,
           user'.hidden = user.hidden
    PROVE  TabInv' /\ TabMoves
<1>1. NewCalls(calls')
  BY AskGood, BeginGood DEF TabInv
<1> QED BY <1>1, SameTab, FrameStep

LEMMA CallingStep ==
    ASSUME TabInv, Reopen \/ RetryLock \/ ForceLock \/ Beat \/ Watch
    PROVE  TabInv' /\ TabMoves
<1>1. CASE Reopen
  BY <1>1, BeginStep, ActedFrame DEF Reopen, Functions, SaveFns, Thens, TabInv
<1>2. CASE RetryLock
  BY <1>2, BeginStep, ActedFrame DEF RetryLock, Functions, SaveFns, Thens, TabInv
<1>3. CASE ForceLock
  BY <1>3, BeginStep, ActedFrame DEF ForceLock, Functions, SaveFns, Thens, TabInv
<1>4. CASE Beat
  BY <1>4, BeginStep, SameUser DEF Beat, Functions, SaveFns, Thens
<1>5. CASE Watch
  BY <1>5, BeginStep, SameUser DEF Watch, Functions, SaveFns, Thens
<1> QED BY <1>1, <1>2, <1>3, <1>4, <1>5

-----------------------------------------------------------------------------
(* Answers to saves and changes of status                                  *)

LEMMA SaveOverGood ==
    ASSUME TabInv, NEW s \in Slots
    PROVE  GoodTab(SaveOver(tab, s)) /\ SaveOver(tab, s).loadState = tab.loadState
<1> DEFINE u == SaveOver(tab, s)
<1>1. /\ u \in Tab /\ u.loadState = tab.loadState /\ u.version = tab.version
      /\ u.lastSaved = tab.lastSaved /\ u.dirty = tab.dirty /\ u.doc = tab.doc
  BY DEF TabInv, GoodTab, Tab, SaveOver
<1> QED BY <1>1, LockTabGood DEF TabInv

LEMMA RescheduledGood ==
    ASSUME NEW t, GoodTab(t)
    PROVE  GoodTab(Rescheduled(t))
<1> DEFINE u == [t EXCEPT !.saveTimer = TRUE]
<1>1. /\ u \in Tab /\ u.loadState = t.loadState /\ u.version = t.version
      /\ u.lastSaved = t.lastSaved /\ u.dirty = t.dirty /\ u.doc = t.doc
  BY DEF GoodTab, Tab
<1>2. GoodTab(u)
  BY <1>1, LockTabGood
<1> QED BY <1>2 DEF Rescheduled

LEMMA SaveAnswerStep == ASSUME TabInv, NEW s \in Slots, SaveAnswer(s) PROVE TabInv' /\ TabMoves
<1> DEFINE t == SaveOver(tab, s)
           u == SavedTab(t, calls[s])
<1>1. GoodTab(t) /\ t.loadState = tab.loadState
  BY SaveOverGood
<1>2. /\ calls[s] \in Activity /\ GoodCall(calls[s]) /\ calls[s].then \in Thens
      /\ calls[s].res.now.version \in Nat /\ calls[s].sent \in Doc
  BY CallThen DEF Activity
<1>3. calls[s].fn = "save" /\ calls[s].at = "answered" /\ calls[s].res.code = "ok"
  BY DEF SaveAnswer, Answered, Code
<1>4. ~user.mixed => Stored(calls[s].res.now.version, calls[s].sent)
  BY <1>2, <1>3 DEF GoodCall, SaveStored, SaveFns
<1>5. /\ u \in Tab /\ u.version = calls[s].res.now.version /\ u.lastSaved = calls[s].sent
      /\ u.dirty = (t.doc # calls[s].sent) /\ u.doc = t.doc
  BY <1>1, <1>2 DEF GoodTab, Tab, SavedTab, SaveStates
<1>6. GoodTab(u)
  BY <1>4, <1>5 DEF GoodTab, TabStored
<1>7. GoodTab(Rescheduled(u))
  BY <1>6, RescheduledGood
<1> HIDE DEF u, t
<1>8. PICK v : GoodTab(v) /\ Return(s, calls[s].then, v)
  BY <1>1, <1>7 DEF SaveAnswer, t, u
<1>9. GoodTab(tab') /\ NewCalls(calls')
  BY <1>2, <1>8, ReturnGood DEF TabInv
<1> QED BY <1>9, SameUser, FrameStep DEF SaveAnswer

LEMMA LostGood ==
    ASSUME NEW t, GoodTab(t)
    PROVE  /\ GoodTab(CaptureLostChanges(t)) /\ GoodTab(LoseLock(t))
           /\ GoodTab(CaptureLostChanges(LoseLock(t))) /\ GoodTab(Unlocked(t))
<1>1. ASSUME NEW v, GoodTab(v) PROVE GoodTab(CaptureLostChanges(v))
  <2> DEFINE lost == (v.doc \ v.lastSaved) \cup (v.lastSaved \ v.doc)
             u == [v EXCEPT !.lostChanges = lost]
  <2>1. v \in Tab /\ v.doc \in Doc /\ v.lastSaved \in Doc
    BY <1>1 DEF GoodTab, Tab
  <2>2. lost \in Doc
    BY <2>1 DEF Doc
  <2> HIDE DEF lost
  <2>3. /\ u \in Tab /\ u.loadState = v.loadState /\ u.version = v.version
        /\ u.lastSaved = v.lastSaved /\ u.dirty = v.dirty /\ u.doc = v.doc
    BY <2>1, <2>2 DEF Tab
  <2>4. GoodTab(u)
    BY <1>1, <2>3, LockTabGood
  <2> QED BY <1>1, <2>4 DEF CaptureLostChanges, lost
<1>2. GoodTab(LoseLock(t))
  <2>1. /\ LoseLock(t) \in Tab /\ LoseLock(t).loadState = t.loadState
        /\ LoseLock(t).version = t.version /\ LoseLock(t).lastSaved = t.lastSaved
        /\ LoseLock(t).dirty = t.dirty /\ LoseLock(t).doc = t.doc
    BY DEF GoodTab, Tab, LoseLock
  <2> QED BY <2>1, LockTabGood
<1>3. GoodTab(Unlocked(t))
  <2>1. /\ Unlocked(t) \in Tab /\ Unlocked(t).loadState = t.loadState
        /\ Unlocked(t).version = t.version /\ Unlocked(t).lastSaved = t.lastSaved
        /\ Unlocked(t).dirty = t.dirty /\ Unlocked(t).doc = t.doc
    BY DEF GoodTab, Tab, Unlocked
  <2> QED BY <2>1, LockTabGood
<1> QED BY <1>1, <1>2, <1>3

LEMMA AfterSaveGood ==
    ASSUME NEW then \in Thens, NEW t, GoodTab(t)
    PROVE  GoodTab(AfterSaveTab(then, t)) /\ NewCall(AfterSave(then, t))
<1>1. GoodTab(AfterSaveTab(then, t))
  BY LostGood DEF AfterSaveTab
<1>2. t.version \in Nat
  BY DEF GoodTab, Tab
<1>3. NewCall(Ask("closing", "none")) /\ NewCall(Ask("drop", "none"))
  BY AskGood DEF Functions, SaveFns, Thens
<1>4. NewCall([Ask("status", then) EXCEPT !.base = t.version])
  BY <1>2, AskBaseGood DEF Functions, SaveFns
<1> QED BY <1>1, <1>3, <1>4, IdleGood DEF AfterSave

LEMMA SaveErrorStep == ASSUME TabInv, NEW s \in Slots, SaveError(s) PROVE TabInv' /\ TabMoves
<1> DEFINE t == [SaveOver(tab, s) EXCEPT
                     !.saveState = IF tab.loadState = "idle" THEN @ ELSE "error"]
           u == CASE tab.loadState = "idle" \/ ~Rereads(Code(s)) -> t
                []   tab.loadState # "idle" /\ Code(s) = "LOCK_LOST" -> CaptureLostChanges(LoseLock(t))
                []   OTHER -> CaptureLostChanges(t)
<1>1. GoodTab(t)
  <2>1. GoodTab(SaveOver(tab, s))
    BY SaveOverGood
  <2>2. /\ t \in Tab /\ t.loadState = SaveOver(tab, s).loadState
        /\ t.version = SaveOver(tab, s).version
        /\ t.lastSaved = SaveOver(tab, s).lastSaved
        /\ t.dirty = SaveOver(tab, s).dirty /\ t.doc = SaveOver(tab, s).doc
    BY <2>1 DEF GoodTab, Tab, SaveStates
  <2> QED BY <2>1, <2>2, LockTabGood
<1> HIDE DEF t
<1>2. GoodTab(u)
  BY <1>1, LostGood
<1>3. calls[s].then \in Thens
  BY CallThen
<1>4. \/ tab' = AfterSaveTab(calls[s].then, u)
         /\ Both(s, AfterSave(calls[s].then, u), Refresh("none"))
      \/ Return(s, calls[s].then, u)
  BY DEF SaveError, t
<1> HIDE DEF u
<1>5. NewCall(Refresh("none"))
  BY RefreshGood DEF TabInv, GoodTab, Thens
<1>6. GoodTab(tab') /\ NewCalls(calls')
  BY <1>2, <1>3, <1>4, <1>5, AfterSaveGood, BothGood, ReturnGood DEF TabInv
<1> QED BY <1>6, SameUser, FrameStep DEF SaveError

\* FrameStep, for a step after which the exception of Mixes holds
LEMMA MixStep ==
    ASSUME TabInv, srv' = srv, hist' = hist, user' \in User,
           user.mixed => user.mixed', user'.kept = user.kept, user'.hidden = user.hidden,
           tab' \in Tab, ~user.mixed' => TabStored(tab'), NewCalls(calls')
    PROVE  TabInv' /\ TabMoves
<1>1. HistoryKept'
  BY DEF TabInv, HistoryKept, Stored
<1>2. GoodTab(tab)'
  BY DEF GoodTab, TabStored, Stored
<1>3. GoodCalls(calls)'
  BY DEF NewCalls, GoodCalls, GoodCall, SaveStored, ReadStored, StatusStored, HideKept, Stored
<1> QED BY <1>1, <1>2, <1>3 DEF TabInv, NewCalls, TabMoves

LEMMA StatusAnswerStep == ASSUME TabInv, NEW s \in Slots, StatusAnswer(s) PROVE TabInv' /\ TabMoves
<1> DEFINE reopened == calls[s].then = "reopen"
           shut == ~reopened
           held == tab.hasLock /\ reopened
           beats == tab.heartbeat /\ tab.hasLock /\ reopened
           r == [tab EXCEPT !.closed = shut, !.version = Now(s).version,
                            !.past = <<>>, !.future = <<>>,
                            !.hasLock = held, !.heartbeat = beats]
           t == IF tab.loadState # "ready" THEN tab ELSE r
<1>1. tab \in Tab /\ user \in User /\ GoodTab(tab) /\ GoodCalls(calls)
  BY DEF TabInv, GoodTab
<1>2. Now(s).version \in Nat
  BY CallThen DEF Now
<1>3. /\ r \in Tab /\ r.loadState = tab.loadState /\ r.version = Now(s).version
      /\ r.lastSaved = tab.lastSaved /\ r.dirty = tab.dirty /\ r.doc = tab.doc
  <2>1. <<>> \in Seq(Doc) /\ shut \in BOOLEAN /\ held \in BOOLEAN /\ beats \in BOOLEAN
    OBVIOUS
  <2> HIDE DEF shut, held, beats
  <2> QED BY ZenonT(60), <1>1, <1>2, <2>1 DEF Tab
<1> HIDE DEF r
<1>4. t \in Tab
  BY <1>1, <1>3
<1>5. tab.loadState = "ready" /\ ~Mixes(s) /\ ~user.mixed => TabStored(r)
  <2> SUFFICES ASSUME tab.loadState = "ready", ~Mixes(s), ~user.mixed
               PROVE  TabStored(r)
    OBVIOUS
  <2>1. GoodCall(calls[s])
    BY CallThen
  <2>2. /\ calls[s].base \in 1 .. Len(hist) /\ calls[s].res.now.version = calls[s].base + 1
        /\ Stored(calls[s].base + 1, hist[calls[s].base])
    BY <2>1 DEF GoodCall, StatusStored, StatusAnswer, Answered, Code
  <2>3. tab.version = calls[s].base \/ tab.version = Now(s).version
    BY DEF Mixes
  <2>4. /\ Stored(tab.version, tab.lastSaved)
        /\ ~tab.dirty /\ ~user.kept => tab.doc = tab.lastSaved
    BY <1>1 DEF GoodTab, TabStored
  <2>5. Stored(r.version, r.lastSaved)
    BY <1>3, <2>2, <2>3, <2>4 DEF Stored, Now
  <2> QED BY <1>3, <2>4, <2>5 DEF TabStored
<1>6. ~(user.mixed \/ Mixes(s)) => TabStored(t)
  BY <1>1, <1>5 DEF GoodTab
<1>7. tab' = IF reopened THEN [t EXCEPT !.heartbeat = TRUE] ELSE t
  BY DEF StatusAnswer, r
<1> HIDE DEF t
<1>8. /\ tab' \in Tab /\ tab'.loadState = t.loadState /\ tab'.version = t.version
      /\ tab'.lastSaved = t.lastSaved /\ tab'.dirty = t.dirty /\ tab'.doc = t.doc
  BY <1>4, <1>7 DEF Tab
<1>9. /\ user' \in User /\ user'.kept = user.kept /\ user'.hidden = user.hidden
      /\ user'.mixed <=> user.mixed \/ Mixes(s)
  <2>1. user' = [user EXCEPT !.mixed = user.mixed \/ Mixes(s)]
    BY DEF StatusAnswer
  <2>2. (user.mixed \/ Mixes(s)) \in BOOLEAN
    OBVIOUS
  <2> QED BY <1>1, <2>1, <2>2 DEF User
<1>10. ~user'.mixed => TabStored(tab')
  BY <1>6, <1>8, <1>9 DEF TabStored
<1>11. NewCalls(calls')
  BY <1>1, IdleGood, BecomeGood DEF StatusAnswer
<1> QED BY <1>8, <1>9, <1>10, <1>11, MixStep DEF StatusAnswer

LEMMA StatusErrorStep == ASSUME TabInv, NEW s \in Slots, StatusError(s) PROVE TabInv' /\ TabMoves
<1>1. GoodTab(tab')
  BY LostGood DEF StatusError, TabInv
<1>2. NewCall(Ask("drop", "none"))
  BY AskGood DEF Functions, SaveFns, Thens
<1>3. NewCalls(calls')
  BY <1>2, IdleGood, BecomeGood DEF StatusError, TabInv
<1> QED BY <1>1, <1>3, SameUser, FrameStep DEF StatusError

-----------------------------------------------------------------------------
(* Reading again, heartbeat, watch and lock                                *)

\* A read that was answered brings a version the server has had.
LEMMA ReadBrings ==
    ASSUME TabInv, NEW s \in Slots, calls[s].fn \in {"loadDoc", "refresh"},
           calls[s].at = "answered", Code(s) = "ok"
    PROVE  Now(s) \in Server /\ Stored(Now(s).version, Now(s).doc)
<1>1. GoodCall(calls[s]) /\ calls[s] \in Activity
  BY CallThen
<1> QED BY <1>1 DEF GoodCall, ReadStored, Activity, Result, Now, Code

LEMMA RefreshedGood ==
    ASSUME TabInv, NEW s \in Slots, Answered(s, "refresh")
    PROVE  GoodTab(Refreshed(s))
<1> DEFINE now == Now(s)
           lock == tab.hasLock /\ now.lock = "mine"
           u == [tab EXCEPT !.doc = now.doc, !.lastSaved = now.doc,
                   !.version = now.version, !.seen = now.version, !.closed = now.closed,
                   !.past = <<>>, !.future = <<>>, !.saveTimer = FALSE, !.dirty = FALSE,
                   !.hasLock = lock]
<1>1. GoodTab(tab) /\ tab \in Tab
  BY DEF TabInv, GoodTab
<1>2. CASE Code(s) = "ok"
  <2>1. now \in Server /\ Stored(now.version, now.doc)
    BY <1>2, ReadBrings DEF Answered
  <2>2. /\ now.version \in Nat /\ now.doc \in Doc /\ now.closed \in BOOLEAN
        /\ lock \in BOOLEAN /\ <<>> \in Seq(Doc)
    BY <2>1 DEF Server
  <2>3. Reread(tab, Now(s)) = u
    BY DEF Reread
  <2> HIDE DEF now, lock
  <2>4. /\ u \in Tab /\ u.version = now.version /\ u.lastSaved = now.doc /\ u.doc = now.doc
    BY ZenonT(60), <1>1, <2>2 DEF Tab
  <2> HIDE DEF u
  <2>5. GoodTab(u)
    BY <2>1, <2>4 DEF GoodTab, TabStored
  <2> QED BY <1>1, <2>3, <2>5 DEF Refreshed
<1> QED BY <1>1, <1>2 DEF Refreshed

LEMMA HeartbeatGood ==
    ASSUME NEW t, GoodTab(t), NEW b \in BOOLEAN
    PROVE  GoodTab([t EXCEPT !.heartbeat = b])
<1> DEFINE u == [t EXCEPT !.heartbeat = b]
<1>1. /\ u \in Tab /\ u.loadState = t.loadState /\ u.version = t.version
      /\ u.lastSaved = t.lastSaved /\ u.dirty = t.dirty /\ u.doc = t.doc
  BY DEF GoodTab, Tab
<1> QED BY <1>1, LockTabGood

LEMMA RefreshAnswerStep == ASSUME TabInv, NEW s \in Slots, RefreshAnswer(s) PROVE TabInv' /\ TabMoves
<1>1. GoodTab(tab') /\ NewCalls(calls')
  BY RefreshedGood, IdleGood, BecomeGood DEF RefreshAnswer, TabInv
<1> QED BY <1>1, SameUser, FrameStep DEF RefreshAnswer

LEMMA RefreshForLockStep == ASSUME TabInv, NEW s \in Slots, RefreshForLock(s) PROVE TabInv' /\ TabMoves
<1> DEFINE t == Refreshed(s)
           b == t.heartbeat \/ calls[s].then = "force" \/ t.hasLock
<1>1. GoodTab(t) /\ b \in BOOLEAN
  BY RefreshedGood DEF RefreshForLock
<1>2. tab' = [t EXCEPT !.heartbeat = b]
  BY DEF RefreshForLock
<1> HIDE DEF t, b
<1>3. GoodTab(tab')
  BY <1>1, <1>2, HeartbeatGood
<1>4. NewCalls(calls')
  BY IdleGood, BecomeGood DEF RefreshForLock, TabInv
<1> QED BY <1>3, <1>4, SameUser, FrameStep DEF RefreshForLock

LEMMA RefreshForReopenStep == ASSUME TabInv, NEW s \in Slots, RefreshForReopen(s) PROVE TabInv' /\ TabMoves
<1> DEFINE t == Refreshed(s)
           u == [t EXCEPT !.saveTimer = FALSE]
<1>1. GoodTab(t)
  BY RefreshedGood DEF RefreshForReopen
<1>2. GoodTab(u)
  <2>1. /\ u \in Tab /\ u.loadState = t.loadState /\ u.version = t.version
        /\ u.lastSaved = t.lastSaved /\ u.dirty = t.dirty /\ u.doc = t.doc
    BY <1>1 DEF GoodTab, Tab
  <2> QED BY <1>1, <2>1, LockTabGood
<1>3. NewCall(Ask("drop", "none"))
  BY AskGood DEF Functions, SaveFns, Thens
<1>4. CASE tab' = [t EXCEPT !.heartbeat = TRUE] /\ Become(s, Idle)
  BY <1>1, <1>4, HeartbeatGood, IdleGood, BecomeGood, SameUser, FrameStep
     DEF RefreshForReopen, TabInv
<1>5. CASE RunSave(s, "reopen", u)
  <2>1. GoodTab(tab') /\ NewCalls(calls')
    BY <1>2, <1>5, RunSaveGood DEF Thens, TabInv
  <2> QED BY <2>1, SameUser, FrameStep DEF RefreshForReopen
<1>6. CASE tab' = t /\ Become(s, Ask("drop", "none"))
  <2>1. GoodTab(tab') /\ NewCalls(calls')
    BY <1>1, <1>3, <1>6, BecomeGood DEF TabInv
  <2> QED BY <2>1, SameUser, FrameStep DEF RefreshForReopen
<1> QED BY <1>4, <1>5, <1>6 DEF RefreshForReopen

LEMMA LockSetGood ==
    ASSUME NEW t, GoodTab(t), NEW b \in BOOLEAN
    PROVE  GoodTab([t EXCEPT !.hasLock = b])
<1> DEFINE u == [t EXCEPT !.hasLock = b]
<1>1. /\ u \in Tab /\ u.loadState = t.loadState /\ u.version = t.version
      /\ u.lastSaved = t.lastSaved /\ u.dirty = t.dirty /\ u.doc = t.doc
  BY DEF GoodTab, Tab
<1> QED BY <1>1, LockTabGood

\* An activity that ends, asks for something that is no save, or reads again.
LEMMA GoesOnStep ==
    ASSUME TabInv, NEW s \in Slots, NEW a, Become(s, a), GoodTab(tab'),
           \/ a = Idle
           \/ \E then \in Thens : a = Refresh(then)
           \/ \E fn \in Functions \ SaveFns, then \in Thens, n \in Nat :
                  a = Ask(fn, then) \/ a = [Ask(fn, then) EXCEPT !.token = n],
           UNCHANGED <<srv, hist, user>>
    PROVE  TabInv' /\ TabMoves
<1>1. NewCall(a)
  BY IdleGood, RefreshGood, AskGood, AskTokenGood DEF TabInv, GoodTab
<1>2. NewCalls(calls')
  BY <1>1, BecomeGood DEF TabInv
<1> QED BY <1>2, SameUser, FrameStep

LEMMA BeatAnswerStep == ASSUME TabInv, NEW s \in Slots, BeatAnswer(s) PROVE TabInv' /\ TabMoves
<1>1. GoodTab(tab')
  BY LostGood DEF BeatAnswer, TabInv
<1>2. Become(s, Idle) \/ Become(s, Refresh("none"))
  BY DEF BeatAnswer
<1> QED BY <1>1, <1>2, GoesOnStep DEF BeatAnswer, Thens

LEMMA WatchAnswerStep == ASSUME TabInv, NEW s \in Slots, WatchAnswer(s) PROVE TabInv' /\ TabMoves
<1>1. Become(s, Idle) \/ Become(s, Refresh("none"))
  BY DEF WatchAnswer
<1> QED BY <1>1, SameTab, GoesOnStep DEF WatchAnswer, Thens

LEMMA RetryAnswerStep == ASSUME TabInv, NEW s \in Slots, RetryAnswer(s) PROVE TabInv' /\ TabMoves
<1>1. (Code(s) = "ok") \in BOOLEAN
  OBVIOUS
<1>2. GoodTab(tab')
  BY <1>1, LockSetGood DEF RetryAnswer, TabInv
<1>3. Become(s, Idle) \/ Become(s, Refresh("retry")) \/ Become(s, Refresh("none"))
  BY DEF RetryAnswer
<1> QED BY <1>2, <1>3, GoesOnStep DEF RetryAnswer, Thens

LEMMA ForceAnswerStep == ASSUME TabInv, NEW s \in Slots, ForceAnswer(s) PROVE TabInv' /\ TabMoves
<1>1. GoodTab(tab')
  BY LockSetGood DEF ForceAnswer, TabInv
<1>2. Become(s, Idle) \/ Become(s, Refresh("force"))
  BY DEF ForceAnswer
<1> QED BY <1>1, <1>2, GoesOnStep DEF ForceAnswer, Thens

LEMMA ReopenAnswerStep == ASSUME TabInv, NEW s \in Slots, ReopenAnswer(s) PROVE TabInv' /\ TabMoves
<1>1. GoodTab(tab')
  BY LockSetGood DEF ReopenAnswer, TabInv
<1>2. Become(s, Idle) \/ Become(s, Refresh("reopen"))
  BY DEF ReopenAnswer
<1> QED BY <1>1, <1>2, GoesOnStep DEF ReopenAnswer, Thens

LEMMA DropAnswerStep == ASSUME TabInv, NEW s \in Slots, DropAnswer(s) PROVE TabInv' /\ TabMoves
BY SameTab, GoesOnStep DEF DropAnswer

-----------------------------------------------------------------------------
(* Opening and closing                                                     *)

\* A store that is not ready claims nothing.
LEMMA NotReadyGood ==
    ASSUME NEW t \in Tab, t.loadState # "ready"
    PROVE  GoodTab(t)
BY DEF GoodTab, TabStored

LEMMA ResetTyped ==
    ASSUME NEW t \in Tab
    PROVE  Reset(t) \in Tab /\ Reset(t).loadState = "idle"
<1>1. {} \in Doc /\ <<>> \in Seq(Doc)
  BY DEF Doc
<1> QED BY ZenonT(60), <1>1 DEF Reset, Tab, LoadStates, SaveStates

LEMMA StartLoadGood ==
    ASSUME TabInv, StartLoad(tab)
    PROVE  GoodTab(tab') /\ NewCalls(calls')
<1>1. tab \in Tab /\ tab.loadToken + 1 \in Nat
  BY DEF TabInv, GoodTab, Tab
<1>2. Reset(tab) \in Tab
  BY <1>1, ResetTyped
<1>3. tab' \in Tab /\ tab'.loadState = "loading"
  BY <1>1, <1>2 DEF StartLoad, Tab, LoadStates
<1>4. GoodTab(tab')
  BY <1>3, NotReadyGood
<1>5. NewCall([Ask("load", "none") EXCEPT !.token = tab.loadToken + 1])
  BY <1>1, AskTokenGood DEF Functions, SaveFns, Thens
<1>6. NewCalls(calls')
  BY <1>5, BeginGood DEF StartLoad, TabInv
<1> QED BY <1>4, <1>6

LEMMA PendingGood ==
    ASSUME NEW t, GoodTab(t), NEW b \in BOOLEAN
    PROVE  GoodTab([t EXCEPT !.pendingUnload = b])
<1> DEFINE u == [t EXCEPT !.pendingUnload = b]
<1>1. /\ u \in Tab /\ u.loadState = t.loadState /\ u.version = t.version
      /\ u.lastSaved = t.lastSaved /\ u.dirty = t.dirty /\ u.doc = t.doc
  BY DEF GoodTab, Tab
<1> QED BY <1>1, LockTabGood

LEMMA OpenPageStep == ASSUME TabInv, OpenPage PROVE TabInv' /\ TabMoves
<1>1. /\ user' \in User /\ user'.mixed = user.mixed
      /\ user'.kept = user.kept /\ user'.hidden = user.hidden
  <2>1. user \in User /\ user.acts + 1 \in Nat
    BY DEF TabInv, User
  <2>2. user' = [user EXCEPT !.acts = user.acts + 1, !.page = TRUE]
    BY DEF OpenPage
  <2> QED BY <2>1, <2>2 DEF User
<1>2. CASE tab' = [tab EXCEPT !.pendingUnload = FALSE] /\ UNCHANGED calls
  <2>1. GoodTab(tab') /\ NewCalls(calls')
    BY <1>2, PendingGood, SameCalls DEF TabInv
  <2> QED BY <1>1, <2>1, FrameStep DEF OpenPage
<1>3. CASE StartLoad(tab)
  BY <1>1, <1>3, StartLoadGood, FrameStep DEF OpenPage
<1> QED BY <1>2, <1>3 DEF OpenPage

LEMMA LoadAgainStep == ASSUME TabInv, LoadAgain PROVE TabInv' /\ TabMoves
BY StartLoadGood, ActedFrame, FrameStep DEF LoadAgain, TabInv

LEMMA ErrorGood ==
    ASSUME tab \in Tab
    PROVE  GoodTab([tab EXCEPT !.loadState = "error"])
<1> DEFINE u == [tab EXCEPT !.loadState = "error"]
<1>1. u \in Tab /\ u.loadState # "ready"
  BY DEF Tab, LoadStates
<1> QED BY <1>1, NotReadyGood

LEMMA LoadAnswerStep == ASSUME TabInv, NEW s \in Slots, LoadAnswer(s) PROVE TabInv' /\ TabMoves
<1>1. GoodTab(tab')
  BY ErrorGood DEF LoadAnswer, TabInv, GoodTab
<1>2. calls[s].token \in Nat
  BY CallThen DEF Activity
<1>3. \/ Become(s, Idle) \/ Become(s, Ask("drop", "none"))
      \/ Become(s, [Ask("loadDoc", "acquired") EXCEPT !.token = calls[s].token])
      \/ Become(s, [Ask("loadDoc", "none") EXCEPT !.token = calls[s].token])
  BY DEF LoadAnswer
<1>4. /\ {"drop", "loadDoc"} \subseteq Functions \ SaveFns
      /\ {"none", "acquired"} \subseteq Thens
  BY DEF Functions, SaveFns, Thens
<1> QED BY <1>1, <1>2, <1>3, <1>4, GoesOnStep DEF LoadAnswer

LEMMA LoadedGood ==
    ASSUME NEW t \in Tab, NEW now \in Server, Stored(now.version, now.doc),
           NEW acquired \in BOOLEAN
    PROVE  GoodTab(Loaded(t, now, acquired))
<1> DEFINE mine == acquired /\ ~now.closed
           beats == t.heartbeat \/ mine
           u == [t EXCEPT !.loadState = "ready", !.doc = now.doc, !.lastSaved = now.doc,
                   !.version = now.version, !.seen = now.version, !.closed = now.closed,
                   !.hasLock = mine, !.heartbeat = beats, !.watching = TRUE]
<1>1. /\ now.version \in Nat /\ now.doc \in Doc /\ now.closed \in BOOLEAN
      /\ mine \in BOOLEAN /\ beats \in BOOLEAN
  BY DEF Server
<1>2. Loaded(t, now, acquired) = u
  BY DEF Loaded
<1> HIDE DEF mine, beats
<1>3. u \in Tab /\ u.version = now.version /\ u.lastSaved = now.doc /\ u.doc = now.doc
  BY ZenonT(60), <1>1 DEF Tab, LoadStates
<1> HIDE DEF u
<1>4. GoodTab(u)
  BY <1>3 DEF GoodTab, TabStored
<1> QED BY <1>2, <1>4

LEMMA LoadDocAnswerStep == ASSUME TabInv, NEW s \in Slots, LoadDocAnswer(s) PROVE TabInv' /\ TabMoves
<1> DEFINE acquired == calls[s].then = "acquired"
<1>1. tab \in Tab /\ GoodTab(tab)
  BY DEF TabInv, GoodTab
<1>2. GoodTab(tab')
  <2>1. CASE tab' = tab
    BY <1>1, <2>1
  <2>2. CASE tab' = [tab EXCEPT !.loadState = "error"]
    BY <1>1, <2>2, ErrorGood
  <2>3. CASE Code(s) # "network" /\ tab' = Loaded(tab, Now(s), acquired)
    <3>1. Code(s) = "ok"
      BY <2>3, CallThen DEF LoadDocAnswer, Answered, GoodCall, ReadStored, Code
    <3>2. Now(s) \in Server /\ Stored(Now(s).version, Now(s).doc)
      BY <3>1, ReadBrings DEF LoadDocAnswer, Answered
    <3> QED BY <1>1, <2>3, <3>2, LoadedGood
  <2> QED BY <2>1, <2>2, <2>3 DEF LoadDocAnswer
<1>3. Become(s, Idle) \/ Become(s, Ask("drop", "none"))
  BY DEF LoadDocAnswer
<1>4. "drop" \in Functions \ SaveFns /\ "none" \in Thens /\ 0 \in Nat
  BY DEF Functions, SaveFns, Thens
<1> QED BY <1>2, <1>3, <1>4, GoesOnStep DEF LoadDocAnswer

LEMMA ClosePageStep == ASSUME TabInv, ClosePage PROVE TabInv' /\ TabMoves
<1> DEFINE open == tab.loadState # "idle"
<1>1. /\ user' \in User /\ user'.mixed = user.mixed
      /\ user'.kept = user.kept /\ user'.hidden = user.hidden
  <2>1. user \in User /\ user.acts + 1 \in Nat
    BY DEF TabInv, User
  <2>2. user' = [user EXCEPT !.acts = user.acts + 1, !.page = FALSE]
    BY DEF ClosePage
  <2> QED BY <2>1, <2>2 DEF User
<1>2. open \in BOOLEAN /\ tab' = [tab EXCEPT !.pendingUnload = open]
  BY DEF ClosePage
<1> HIDE DEF open
<1>3. GoodTab(tab')
  BY <1>2, PendingGood DEF TabInv
<1> QED BY <1>1, <1>3, SameCalls, FrameStep DEF ClosePage

LEMMA DoUnloadStep == ASSUME TabInv, DoUnload PROVE TabInv' /\ TabMoves
<1> DEFINE t == [tab EXCEPT !.pendingUnload = FALSE]
           u == [t EXCEPT !.loadToken = t.loadToken + 1, !.heartbeat = FALSE,
                          !.watching = FALSE, !.saveTimer = FALSE]
           v == [u EXCEPT !.unloading = TRUE]
<1>1. GoodTab(t)
  BY PendingGood DEF TabInv
<1> HIDE DEF t
<1>2. GoodTab(u) /\ u \in Tab
  <2>1. t \in Tab /\ t.loadToken + 1 \in Nat
    BY <1>1 DEF GoodTab, Tab
  <2>2. /\ u \in Tab /\ u.loadState = t.loadState /\ u.version = t.version
        /\ u.lastSaved = t.lastSaved /\ u.dirty = t.dirty /\ u.doc = t.doc
    BY <2>1 DEF Tab
  <2> QED BY <1>1, <2>2, LockTabGood
<1>3. \/ tab' = t /\ UNCHANGED calls
      \/ BeginSave("close", v)
      \/ tab' = Reset(u) /\ UNCHANGED calls
  BY DEF DoUnload, t
<1> HIDE DEF u
<1>4. GoodTab(v)
  <2>1. /\ v \in Tab /\ v.loadState = u.loadState /\ v.version = u.version
        /\ v.lastSaved = u.lastSaved /\ v.dirty = u.dirty /\ v.doc = u.doc
    BY <1>2 DEF Tab
  <2> QED BY <1>2, <2>1, LockTabGood
<1> HIDE DEF v
<1>5. GoodTab(Reset(u))
  BY <1>2, ResetTyped, NotReadyGood
<1>6. GoodTab(tab') /\ NewCalls(calls')
  BY <1>1, <1>3, <1>4, <1>5, BeginSaveGood, SameCalls DEF Thens, TabInv
<1> QED BY <1>6, SameUser, FrameStep DEF DoUnload

LEMMA ClosingAnswerStep == ASSUME TabInv, NEW s \in Slots, ClosingAnswer(s) PROVE TabInv' /\ TabMoves
<1>1. tab \in Tab
  BY DEF TabInv, GoodTab
<1>2. Reset(tab) \in Tab /\ Reset(tab).loadState = "idle"
  BY <1>1, ResetTyped
<1>3. tab' \in Tab /\ tab'.loadState = "idle"
  BY <1>2 DEF ClosingAnswer, Tab
<1>4. GoodTab(tab')
  BY <1>3, NotReadyGood
<1> QED BY <1>4, GoesOnStep DEF ClosingAnswer

LEMMA PageHideStep == ASSUME TabInv, PageHide PROVE TabInv' /\ TabMoves
<1> DEFINE t == [tab EXCEPT !.saveTimer = FALSE, !.heartbeat = FALSE, !.hasLock = FALSE]
           c == SaveOf("hide", "none", tab)
<1>1. user' \in User /\ user'.mixed = user.mixed /\ user'.kept = user.kept /\ user'.hidden
  <2>1. user \in User /\ user.acts + 1 \in Nat
    BY DEF TabInv, User
  <2>2. user' = [user EXCEPT !.acts = user.acts + 1, !.hidden = TRUE]
    BY DEF PageHide
  <2> QED BY <2>1, <2>2 DEF User
<1>2. GoodTab(t)
  <2>1. /\ t \in Tab /\ t.loadState = tab.loadState /\ t.version = tab.version
        /\ t.lastSaved = tab.lastSaved /\ t.dirty = tab.dirty /\ t.doc = tab.doc
    BY DEF TabInv, GoodTab, Tab
  <2> QED BY <2>1, LockTabGood DEF TabInv
<1>3. Savable(tab) => /\ c \in Activity /\ SaveStored(c) /\ ReadStored(c) /\ StatusStored(c)
                      /\ c.at = "asked"
  <2>1. "hide" \in SaveFns /\ "none" \in Thens /\ GoodTab(tab)
    BY DEF SaveFns, Thens, TabInv
  <2>2. Savable(tab) => tab.loadState = "ready"
    BY DEF Savable
  <2> QED BY <2>1, <2>2, SaveGood
<1>4. NewCall(Ask("drop", "none"))
  BY AskGood DEF Functions, SaveFns, Thens
<1>5. \/ tab' = tab /\ UNCHANGED calls
      \/ tab' = t /\ Savable(tab) /\ Begin(c)
      \/ tab' = t /\ Begin(Ask("drop", "none"))
  BY DEF PageHide, SaveOf
<1> HIDE DEF t, c
<1>6. GoodTab(tab)' /\ HistoryKept'
  BY <1>1, <1>2, <1>5 DEF PageHide, TabInv, HistoryKept, GoodTab, TabStored, Stored
<1>7. CASE tab' = t /\ Savable(tab) /\ Begin(c)
  <2>1. PICK s \in Slots : calls' = [calls EXCEPT ![s] = c]
    BY <1>7 DEF Begin, Free, Become
  <2>2. calls' \in [Slots -> Activity]
    BY <1>3, <1>7, <2>1 DEF TabInv, GoodCalls
  <2>3. ASSUME NEW r \in Slots PROVE GoodCall(calls[r])'
    BY <1>1, <1>3, <1>7, <2>1, <2>2
       DEF PageHide, TabInv, GoodCalls, GoodCall, SaveStored, ReadStored, StatusStored,
           HideKept, Stored
  <2>4. GoodCalls(calls)'
    BY <2>2, <2>3 DEF GoodCalls
  <2>5. TabMoves
    BY <1>3, <1>7, <2>1 DEF PageHide, TabMoves, Own, TabInv, GoodCalls
  <2> QED BY <1>1, <1>6, <2>4, <2>5 DEF PageHide, TabInv
<1>8. CASE ~(tab' = t /\ Savable(tab) /\ Begin(c))
  <2>1. GoodTab(tab') /\ NewCalls(calls')
    BY <1>2, <1>4, <1>5, <1>8, BeginGood, SameCalls DEF TabInv
  <2> QED BY <1>1, <2>1, FrameStep DEF PageHide
<1> QED BY <1>7, <1>8

LEMMA PageShowStep == ASSUME TabInv, PageShow PROVE TabInv' /\ TabMoves
<1>1. user' \in User /\ user'.mixed = user.mixed /\ user'.kept
  BY DEF TabInv, User, PageShow
<1>2. NewCall(Ask("retry", "none"))
  BY AskGood DEF Functions, SaveFns, Thens
<1>3. NewCalls(calls')
  BY <1>2, BeginGood, SameCalls DEF PageShow, TabInv
<1> QED BY <1>1, <1>3, SameTab, FrameStep DEF PageShow

LEMMA HideAnswerStep == ASSUME TabInv, NEW s \in Slots, HideAnswer(s) PROVE TabInv' /\ TabMoves
<1> DEFINE c == calls[s]
           u == [tab EXCEPT !.lastSaved = c.sent, !.version = Now(s).version, !.dirty = FALSE]
<1>1. tab \in Tab /\ GoodTab(tab)
  BY DEF TabInv, GoodTab
<1>2. /\ c \in Activity /\ GoodCall(c) /\ c.sent \in Doc /\ Now(s).version \in Nat
  BY CallThen DEF Activity, Now
<1>3. u \in Tab /\ u.version = Now(s).version /\ u.lastSaved = c.sent
  BY <1>1, <1>2 DEF Tab
<1>4. CASE Code(s) = "ok"
  <2>1. ~user.mixed => Stored(Now(s).version, c.sent)
    BY <1>2, <1>4 DEF GoodCall, SaveStored, SaveFns, HideAnswer, Answered, Code, Now
  <2>2. tab' = u
    BY <1>4 DEF HideAnswer
  <2>3. user.kept
    BY <1>2 DEF GoodCall, HideKept, HideAnswer, Answered, Waiting
  <2> HIDE DEF u, c
  <2>4. GoodTab(u)
    BY <1>3, <2>1, <2>3 DEF GoodTab, TabStored
  <2> QED BY <2>2, <2>4, GoesOnStep DEF HideAnswer
<1>5. CASE Code(s) # "ok"
  BY <1>1, <1>5, GoesOnStep DEF HideAnswer
<1> QED BY <1>4, <1>5

-----------------------------------------------------------------------------
(* The server, the network and the other tabs                              *)

\* What was stored stays stored when a version is added.
LEMMA StoredKept ==
    ASSUME hist \in Seq(Doc), NEW d \in Doc, hist' = hist \/ hist' = Append(hist, d),
           NEW v, NEW e, Stored(v, e)
    PROVE  v \in 1 .. Len(hist') /\ hist'[v] = e
BY DEF Stored

\* A call that is still as it was is in order after a version was added.
LEMMA CallKept ==
    ASSUME TabInv, NEW d \in Doc, hist' = hist \/ hist' = Append(hist, d),
           user'.mixed = user.mixed, user'.kept = user.kept, user'.hidden = user.hidden,
           NEW r \in Slots, calls'[r] = calls[r]
    PROVE  GoodCall(calls[r])'
<1>1. hist \in Seq(Doc) /\ GoodCall(calls[r])
  BY CallThen DEF TabInv
<1>2. SaveStored(calls[r])'
  BY <1>1, StoredKept DEF GoodCall, SaveStored, Stored
<1>3. ReadStored(calls[r])'
  BY <1>1, StoredKept DEF GoodCall, ReadStored, Stored
<1>4. StatusStored(calls[r])'
  <2> SUFFICES ASSUME calls[r].fn = "status", calls[r].at = "answered",
                      calls[r].res.code = "ok"
               PROVE  /\ calls[r].base \in 1 .. Len(hist')
                      /\ calls[r].res.now.version = calls[r].base + 1
                      /\ calls[r].base + 1 \in 1 .. Len(hist')
                      /\ hist'[calls[r].base + 1] = hist'[calls[r].base]
    BY DEF StatusStored, Stored
  <2>1. /\ calls[r].base \in 1 .. Len(hist)
        /\ calls[r].res.now.version = calls[r].base + 1
        /\ Stored(calls[r].base + 1, hist[calls[r].base])
        /\ Stored(calls[r].base, hist[calls[r].base])
    BY <1>1 DEF GoodCall, StatusStored, Stored
  <2> QED BY <1>1, <2>1, StoredKept
<1> QED BY <1>1, <1>2, <1>3, <1>4 DEF GoodCall, HideKept

LEMMA TabKept ==
    ASSUME TabInv, NEW d \in Doc, hist' = hist \/ hist' = Append(hist, d),
           user'.mixed = user.mixed, user'.kept = user.kept, UNCHANGED tab
    PROVE  GoodTab(tab)'
BY StoredKept DEF TabInv, GoodTab, TabStored, Stored

LEMMA HistoryGrows ==
    ASSUME TabInv, NEW now \in Server, srv' = now,
           \/ now.version = srv.version /\ now.doc = srv.doc /\ hist' = hist
           \/ now.version = srv.version + 1 /\ hist' = Append(hist, now.doc)
    PROVE  /\ hist' \in Seq(Doc) /\ HistoryKept'
           /\ now.version \in 1 .. Len(hist') /\ hist'[now.version] = now.doc
<1>1. /\ hist \in Seq(Doc) /\ Len(hist) = srv.version /\ srv.version \in 1 .. Len(hist)
      /\ hist[srv.version] = srv.doc /\ now.doc \in Doc
  BY DEF TabInv, HistoryKept, Stored, Server
<1>2. CASE now.version = srv.version /\ now.doc = srv.doc /\ hist' = hist
  BY <1>1, <1>2 DEF HistoryKept, Stored
<1>3. CASE now.version = srv.version + 1 /\ hist' = Append(hist, now.doc)
  <2>1. /\ hist' \in Seq(Doc) /\ Len(hist') = now.version
        /\ now.version \in 1 .. Len(hist') /\ hist'[now.version] = now.doc
    BY <1>1, <1>3
  <2> QED BY <2>1 DEF HistoryKept, Stored
<1> QED BY <1>2, <1>3

\* The patch brings the server to what the tab showed.
LEMMA PatchedSent ==
    ASSUME NEW c, c.cut = srv.doc
    PROVE  Patched(c) = c.sent
BY DEF Patched

\* What is made of call c: of a save that was cut from the version it names,
\* what the tab showed; of a change of status, the same document.
Makes(c, code, now) ==
    /\ now \in Server
    /\ \/ now.version = srv.version /\ now.doc = srv.doc
       \/ now.version = srv.version + 1 /\ code = "ok" /\ c.at = "checked"
    /\ (c.fn \in SaveFns /\ code = "ok" /\ ~user.mixed) => now.doc = c.sent
    /\ (c.fn = "status" /\ code = "ok") =>
           /\ c.base = srv.version /\ now.version = srv.version + 1
           /\ now.doc = srv.doc
    /\ (c.fn \in {"loadDoc", "refresh"}) => code = "ok"

\* A call that is answered at once changes the lock row at most.
LEMMA HandledMakes ==
    ASSUME TabInv, NEW s \in Slots, NEW code, NEW now, Handled(calls[s], code, now)
    PROVE  Makes(calls[s], code, now)
<1> DEFINE c == calls[s]
<1>1. srv \in Server /\ c.fn \in Functions
  BY CallThen DEF TabInv, Activity
<1>2. Released \in Owners /\ "mine" \in Owners
  BY <1>1 DEF Released, Owners, Server
<1>3. ASSUME NEW o \in Owners
      PROVE  /\ [srv EXCEPT !.lock = o] \in Server
             /\ [srv EXCEPT !.lock = o].version = srv.version
             /\ [srv EXCEPT !.lock = o].doc = srv.doc
  BY <1>1 DEF Server
<1>4. now = srv \/ \E o \in Owners : now = [srv EXCEPT !.lock = o]
  BY <1>2 DEF Handled
<1>5. now \in Server /\ now.version = srv.version /\ now.doc = srv.doc
  <2>1. CASE now = srv
    BY <1>1, <2>1
  <2>2. CASE \E o \in Owners : now = [srv EXCEPT !.lock = o]
    BY <1>3, <2>2
  <2> QED BY <1>4, <2>1, <2>2
<1>6. c.fn \in WriteFns => code # "ok"
  BY DEF Handled, WriteFns, SaveFns, AcquireFns, ReleaseFns, ReadFns
<1>7. c.fn \in {"loadDoc", "refresh"} => code = "ok"
  BY DEF Handled, WriteFns, SaveFns, AcquireFns, ReleaseFns
<1> QED BY <1>5, <1>6, <1>7 DEF Makes, WriteFns

\* A write that passed its checks still finds what it was checked against.
LEMMA CommittedMakes ==
    ASSUME TabInv, RowKept, NEW s \in Slots, calls[s].at = "checked", NEW code, NEW now,
           Committed(calls[s], code, now)
    PROVE  Makes(calls[s], code, now)
<1> DEFINE c == calls[s]
<1>1. /\ srv \in Server /\ c \in Activity /\ GoodCall(c)
      /\ srv.version + 1 \in Nat /\ hist[srv.version] = srv.doc
  BY CallThen DEF TabInv, HistoryKept, Stored, Server
<1>2. c.sent \in Doc /\ c.cut \in Doc
  BY <1>1 DEF Activity
<1>3. c.at = "checked" /\ c.base = srv.version
  BY DEF RowKept
<1>4. CASE c.fn = "save" /\ srv.lock = "none" /\ code = "NOT_FOUND" /\ now = srv
  BY <1>1, <1>4 DEF Makes
<1>5. CASE c.fn \in SaveFns /\ code = "ok" /\ now = SavedBy(c)
  <2>1. Patched(c) \in Doc
    BY <1>1, <1>2 DEF Patched, Doc, Server
  <2>2. Released \in Owners /\ srv.lock \in Owners
    BY <1>1 DEF Released, Owners, Server
  <2>3. ~user.mixed => Stored(c.base, c.cut)
    BY <1>1, <1>3, <1>5 DEF GoodCall, SaveStored
  <2>4. ~user.mixed => Patched(c) = c.sent
    BY <1>1, <1>3, <2>3, PatchedSent DEF Stored
  <2>5. /\ SavedBy(c) \in Server /\ SavedBy(c).version = srv.version + 1
        /\ SavedBy(c).doc = Patched(c)
    BY <1>1, <2>1, <2>2 DEF SavedBy, Server
  <2> HIDE DEF c
  <2> QED BY <1>3, <1>5, <2>4, <2>5 DEF Makes, SaveFns, c
<1>6. CASE c.fn = "status" /\ code = "ok" /\ now = StatusBy(c)
  <2>1. /\ StatusBy(c) \in Server /\ StatusBy(c).version = srv.version + 1
        /\ StatusBy(c).doc = srv.doc
    BY <1>1 DEF StatusBy, Server, Owners
  <2> HIDE DEF c
  <2> QED BY <1>3, <1>6, <2>1 DEF Makes, SaveFns, c
<1> QED BY <1>4, <1>5, <1>6 DEF Committed, SaveFns

LEMMA ToldTyped ==
    ASSUME NEW c, NEW now \in Server
    PROVE  /\ Told(c, now) \in Server
           /\ c.fn \in {"loadDoc", "refresh"} => Told(c, now) = now
           /\ c.fn \in WriteFns => Told(c, now).version = now.version
<1>1. NoServer \in Server /\ {} \in Doc
  BY DEF NoServer, Server, Doc, Owners
<1>2. [now EXCEPT !.doc = {}] \in Server
  BY <1>1 DEF Server
<1>3. /\ [NoServer EXCEPT !.version = now.version] \in Server
      /\ [NoServer EXCEPT !.version = now.version].version = now.version
  BY <1>1 DEF Server
<1> QED BY <1>1, <1>2, <1>3 DEF Told, WriteFns, SaveFns

\* How a call is answered.
LEMMA ReplyIs ==
    ASSUME TabInv, RowKept, NEW s \in Slots, Reply(s)
    PROVE  \E code \in Codes : \E now :
              /\ Makes(calls[s], code, now) /\ srv' = now
              /\ hist' = IF now.version > srv.version THEN Append(hist, now.doc) ELSE hist
              /\ Become(s, [calls[s] EXCEPT !.at = "answered",
                                            !.res = [code |-> code, now |-> Told(calls[s], now)]])
BY HandledMakes, CommittedMakes DEF Reply

LEMMA ReplyStep == ASSUME TabInv, RowKept, NEW s \in Slots, Reply(s) PROVE TabInv'
<1>1. PICK code, now :
        /\ code \in Codes /\ Makes(calls[s], code, now) /\ srv' = now
        /\ hist' = IF now.version > srv.version THEN Append(hist, now.doc) ELSE hist
        /\ Become(s, [calls[s] EXCEPT !.at = "answered",
                                      !.res = [code |-> code, now |-> Told(calls[s], now)]])
  BY ReplyIs
<1> DEFINE c == calls[s]
           told == Told(c, now)
<1>2. /\ now \in Server
      /\ \/ now.version = srv.version /\ now.doc = srv.doc
         \/ now.version = srv.version + 1 /\ code = "ok"
      /\ (c.fn \in SaveFns /\ code = "ok" /\ ~user.mixed) => now.doc = c.sent
      /\ (c.fn = "status" /\ code = "ok") =>
             /\ c.base = srv.version /\ now.version = srv.version + 1
             /\ now.doc = srv.doc
      /\ (c.fn \in {"loadDoc", "refresh"}) => code = "ok"
  BY <1>1 DEF Makes
<1>3. /\ srv.version \in Nat /\ now.version \in Nat /\ now.doc \in Doc /\ hist \in Seq(Doc)
      /\ Len(hist) = srv.version /\ srv.version \in 1 .. Len(hist)
      /\ hist[srv.version] = srv.doc
  BY <1>2 DEF TabInv, Server, HistoryKept, Stored
<1>4. \/ now.version = srv.version /\ now.doc = srv.doc /\ hist' = hist
      \/ now.version = srv.version + 1 /\ hist' = Append(hist, now.doc)
  BY <1>1, <1>2, <1>3
<1>5. /\ hist' \in Seq(Doc) /\ HistoryKept'
      /\ now.version \in 1 .. Len(hist') /\ hist'[now.version] = now.doc
  BY <1>1, <1>2, <1>4, HistoryGrows
<1>6. /\ told \in Server
      /\ c.fn \in {"loadDoc", "refresh"} => told = now
      /\ c.fn \in WriteFns => told.version = now.version
  BY <1>2, ToldTyped
<1>7. user' = user /\ tab' = tab
  BY DEF Reply
<1>8. c \in Activity /\ GoodCall(c)
  BY CallThen
<1>9. calls \in [Slots -> Activity]
  BY DEF TabInv, GoodCalls
<1> HIDE DEF told
<1>10. calls' = [calls EXCEPT ![s] = [c EXCEPT !.at = "answered",
                                               !.res = [code |-> code, now |-> told]]]
  BY <1>1 DEF told, Become
<1>11. calls'[s] = [c EXCEPT !.at = "answered", !.res = [code |-> code, now |-> told]]
  BY <1>9, <1>10
<1>12. [code |-> code, now |-> told] \in Result
  BY <1>1, <1>6 DEF Result
<1> HIDE DEF c
<1>13. /\ calls'[s] \in Activity /\ calls'[s].fn = c.fn /\ calls'[s].at = "answered"
       /\ calls'[s].sent = c.sent /\ calls'[s].base = c.base
       /\ calls'[s].res = [code |-> code, now |-> told]
  BY <1>8, <1>11, <1>12 DEF Activity
<1>14. calls'[s].res.code = code /\ calls'[s].res.now = told
  BY <1>13
<1>15. GoodCall(calls[s])'
  <2>1. SaveStored(calls[s])'
    BY <1>2, <1>5, <1>6, <1>7, <1>13, <1>14 DEF SaveStored, Stored, SaveFns, WriteFns
  <2>2. ReadStored(calls[s])'
    BY <1>2, <1>5, <1>6, <1>13, <1>14 DEF ReadStored, Stored
  <2>3. StatusStored(calls[s])'
    <3> SUFFICES ASSUME c.fn = "status", code = "ok"
                 PROVE  /\ c.base \in 1 .. Len(hist') /\ told.version = c.base + 1
                        /\ c.base + 1 \in 1 .. Len(hist')
                        /\ hist'[c.base + 1] = hist'[c.base]
      BY <1>13, <1>14 DEF StatusStored, Stored
    <3>1. c.base = srv.version /\ now.version = srv.version + 1 /\ now.doc = srv.doc
      BY <1>2
    <3>2. hist' = Append(hist, now.doc)
      BY <1>3, <1>4, <3>1
    <3>3. hist'[srv.version] = hist[srv.version]
      BY <1>3, <3>2
    <3> QED BY <1>3, <1>5, <1>6, <3>1, <3>3 DEF WriteFns
  <2>4. HideKept(calls[s])'
    BY <1>7, <1>8, <1>13 DEF GoodCall, HideKept
  <2> QED BY <1>13, <2>1, <2>2, <2>3, <2>4 DEF GoodCall
<1>16. ASSUME NEW r \in Slots PROVE GoodCall(calls[r])'
  <2>1. CASE r = s
    BY <1>15, <2>1
  <2>2. CASE r # s
    <3>1. calls'[r] = calls[r]
      BY <1>9, <1>10, <2>2
    <3> QED BY <1>3, <1>4, <1>7, <3>1, CallKept
  <2> QED BY <2>1, <2>2
<1>17. calls' \in [Slots -> Activity]
  BY <1>9, <1>10, <1>11, <1>13
<1>18. GoodCalls(calls)'
  BY <1>16, <1>17 DEF GoodCalls
<1>19. GoodTab(tab)'
  BY <1>3, <1>4, <1>7, TabKept
<1> QED BY <1>1, <1>2, <1>5, <1>7, <1>18, <1>19 DEF TabInv

\* A write that takes the Request row is still the one that was asked.
LEMMA CheckStep == ASSUME TabInv, NEW s \in Slots, Check(s) PROVE TabInv'
<1> DEFINE c == [calls[s] EXCEPT !.at = "checked"]
<1>1. calls[s] \in Activity /\ GoodCall(calls[s]) /\ calls[s].at = "asked"
  BY CallThen DEF Check
<1>2. /\ c \in Activity /\ c.at = "checked" /\ c.fn = calls[s].fn
      /\ c.base = calls[s].base /\ c.cut = calls[s].cut
  BY <1>1 DEF Activity
<1>3. calls' = [calls EXCEPT ![s] = c] /\ UNCHANGED <<srv, hist, tab, user>>
  BY DEF Check, Become
<1> HIDE DEF c
<1>4. GoodCall(c)
  BY <1>1, <1>2 DEF GoodCall, SaveStored, ReadStored, StatusStored, HideKept
<1>5. calls' \in [Slots -> Activity]
  BY <1>2, <1>3 DEF TabInv, GoodCalls
<1>6. ASSUME NEW r \in Slots PROVE GoodCall(calls[r])'
  <2>1. GoodCall(calls'[r])
    BY <1>3, <1>4 DEF TabInv, GoodCalls
  <2> QED
    BY <1>3, <2>1 DEF GoodCall, SaveStored, ReadStored, StatusStored, HideKept, Stored
<1>7. GoodCalls(calls)'
  BY <1>5, <1>6 DEF GoodCalls
<1>8. HistoryKept' /\ GoodTab(tab)'
  BY <1>3 DEF TabInv, HistoryKept, GoodTab, TabStored, Stored
<1> QED BY <1>3, <1>7, <1>8 DEF TabInv

LEMMA FailStep == ASSUME TabInv, NEW s \in Slots, Fail(s) PROVE TabInv'
<1> DEFINE lost == [NoResult EXCEPT !.code = "network"]
           c == [calls[s] EXCEPT !.at = "answered", !.res = lost]
<1>1. /\ user' \in User /\ user'.mixed = user.mixed
      /\ user'.kept = user.kept /\ user'.hidden = user.hidden
  <2>1. user \in User /\ user.fails + 1 \in Nat
    BY DEF TabInv, User
  <2>2. user' = [user EXCEPT !.fails = user.fails + 1]
    BY DEF Fail
  <2> QED BY <2>1, <2>2 DEF User
<1>2. lost \in Result /\ lost.code = "network"
  BY IdleGood DEF NewCall, GoodCall, Activity, Idle, Result, Codes
<1>3. calls[s] \in Activity /\ GoodCall(calls[s])
  BY CallThen
<1>4. Become(s, c)
  BY DEF Fail
<1> HIDE DEF lost
<1>5. c \in Activity /\ c.at = "answered" /\ c.fn = calls[s].fn /\ c.res = lost
  BY <1>2, <1>3 DEF Activity
<1> HIDE DEF c
<1>6. GoodCall(c)
  BY <1>2, <1>3, <1>5 DEF GoodCall, SaveStored, ReadStored, StatusStored, HideKept
<1>7. calls' = [calls EXCEPT ![s] = c]
  BY <1>4 DEF Become
<1>8. calls' \in [Slots -> Activity]
  BY <1>5, <1>7 DEF TabInv, GoodCalls
<1>9. ASSUME NEW r \in Slots PROVE GoodCall(calls[r])'
  <2>1. calls'[r] = calls[r] \/ calls'[r] = c
    BY <1>7 DEF TabInv, GoodCalls
  <2>2. GoodCall(calls[r])
    BY CallThen
  <2>3. CASE calls'[r] = calls[r]
    BY SMTT(30), <1>1, <2>2, <2>3
       DEF Fail, GoodCall, SaveStored, ReadStored, StatusStored, HideKept, Stored
  <2>4. CASE calls'[r] = c
    BY SMTT(30), <1>1, <1>6, <2>4
       DEF Fail, GoodCall, SaveStored, ReadStored, StatusStored, HideKept, Stored
  <2> QED BY <2>1, <2>3, <2>4
<1>10. GoodCalls(calls)'
  BY <1>8, <1>9 DEF GoodCalls
<1>11. HistoryKept' /\ GoodTab(tab)'
  BY <1>1 DEF Fail, TabInv, HistoryKept, GoodTab, TabStored, Stored
<1> QED BY <1>1, <1>10, <1>11 DEF Fail, TabInv

LEMMA OthersStep == ASSUME TabInv, Others PROVE TabInv'
<1>1. /\ user' \in User /\ user'.mixed = user.mixed
      /\ user'.kept = user.kept /\ user'.hidden = user.hidden
  <2>1. user \in User /\ user.others + 1 \in Nat
    BY DEF TabInv, User
  <2>2. user' = [user EXCEPT !.others = user.others + 1]
    BY DEF Others
  <2> QED BY <2>1, <2>2 DEF User
<1>2. srv \in Server /\ srv.version + 1 \in Nat /\ srv.doc \in Doc
  BY DEF TabInv, Server
<1>3. /\ srv' \in Server
      /\ \/ srv'.version = srv.version /\ srv'.doc = srv.doc /\ hist' = hist
         \/ srv'.version = srv.version + 1 /\ hist' = Append(hist, srv'.doc)
  <2>1. CASE OtherTakes
    BY <1>2, <2>1 DEF OtherTakes, Server, Owners
  <2>2. CASE OtherSweeps \/ OtherLeaves
    BY <1>2, <2>2 DEF OtherSweeps, OtherLeaves, Server, Owners
  <2>3. CASE OtherSaves
    <3>1. srv.doc \cup {-(srv.version + 1)} \in Doc
      BY <1>2 DEF Doc
    <3>2. srv' = [srv EXCEPT !.version = srv.version + 1,
                             !.doc = srv.doc \cup {-(srv.version + 1)}]
      BY <2>3 DEF OtherSaves
    <3>3. srv' \in Server /\ srv'.version = srv.version + 1
      BY <1>2, <3>1, <3>2 DEF Server
    <3> QED BY <2>3, <3>3 DEF OtherSaves
  <2>4. CASE OtherStatus
    <3> DEFINE shut == ~srv.closed
               lock == IF srv.closed THEN "other" ELSE "none"
    <3>1. shut \in BOOLEAN /\ lock \in Owners
      BY DEF Owners
    <3>2. srv' = [srv EXCEPT !.version = srv.version + 1, !.closed = shut, !.lock = lock]
      BY <2>4 DEF OtherStatus
    <3> HIDE DEF shut, lock
    <3>3. srv' \in Server /\ srv'.version = srv.version + 1 /\ srv'.doc = srv.doc
      BY <1>2, <3>1, <3>2 DEF Server
    <3> QED BY <2>4, <3>3 DEF OtherStatus
  <2> QED BY <2>1, <2>2, <2>3, <2>4 DEF Others
<1>4. PICK now \in Server : srv' = now
  BY <1>3
<1>5. hist' \in Seq(Doc) /\ HistoryKept'
  BY <1>3, <1>4, HistoryGrows
<1>6. now.doc \in Doc /\ (hist' = hist \/ hist' = Append(hist, now.doc))
  BY <1>3, <1>4 DEF Server
<1>7. UNCHANGED <<tab, calls>>
  BY DEF Others
<1>8. GoodTab(tab)'
  BY <1>1, <1>6, <1>7, TabKept
<1>9. ASSUME NEW r \in Slots PROVE GoodCall(calls[r])'
  BY <1>1, <1>6, <1>7, CallKept
<1>10. GoodCalls(calls)'
  BY <1>7, <1>9 DEF GoodCalls, TabInv
<1> QED BY <1>1, <1>3, <1>5, <1>8, <1>10 DEF TabInv

-----------------------------------------------------------------------------
(* The theorems                                                            *)

LEMMA InitTabInv == Init => TabInv
<1> SUFFICES ASSUME Init PROVE TabInv
  OBVIOUS
<1> DEFINE c == [Ask("load", "none") EXCEPT !.token = 1]
           d == [[s \in Slots |-> Idle] EXCEPT ![1] = c]
<1>1. {} \in Doc /\ <<>> \in Seq(Doc) /\ <<{}>> \in Seq(Doc)
  BY DEF Doc
<1>2. srv \in Server /\ srv.version = 1 /\ srv.doc = {}
  BY <1>1 DEF Init, NoServer, Server, Owners
<1>3. hist = <<{}>> /\ hist \in Seq(Doc) /\ HistoryKept
  BY <1>1, <1>2 DEF Init, HistoryKept, Stored
<1>4. user \in User
  BY DEF Init, User
<1>5. NewTab \in Tab
  BY <1>1 DEF NewTab, Tab, LoadStates, SaveStates
<1>6. tab \in Tab /\ tab.loadState = "loading"
  BY <1>5 DEF Init, Tab, LoadStates
<1>7. GoodTab(tab)
  BY <1>6, NotReadyGood
<1>8. GoodCall(c) /\ GoodCall(Idle)
  BY AskTokenGood, IdleGood DEF NewCall, Functions, SaveFns, Thens
<1>9. calls = d
  BY DEF Init
<1> HIDE DEF c
<1>10. GoodCalls(d)
  BY <1>8 DEF GoodCalls, GoodCall
<1> QED BY <1>2, <1>3, <1>4, <1>7, <1>9, <1>10 DEF TabInv

\* Who answers a call is the server, or the network with an error.
LEMMA NextSteps ==
    ASSUME TabInv, [Next]_vars
    PROVE  \/ TabInv' /\ TabMoves
           \/ \E s \in Slots : Serve(s) \/ Fail(s)
           \/ Others
<1>1. CASE Acting
  BY <1>1, EditStep, UndoStep, RedoStep, SetStatusStep, CallingStep, OpenPageStep,
     LoadAgainStep, ClosePageStep, PageHideStep, PageShowStep DEF Acting
<1>2. CASE Timers
  BY <1>2, SaveTimerStep, DoUnloadStep, CallingStep DEF Timers
<1>3. ASSUME NEW s \in Slots, Answer(s) PROVE TabInv' /\ TabMoves
  <2>1. CASE \/ SaveAnswer(s) \/ SaveError(s) \/ StatusAnswer(s) \/ StatusError(s)
             \/ RefreshAnswer(s) \/ RefreshForLock(s) \/ RefreshForReopen(s)
    BY <2>1, SaveAnswerStep, SaveErrorStep, StatusAnswerStep, StatusErrorStep,
       RefreshAnswerStep, RefreshForLockStep, RefreshForReopenStep
  <2>2. CASE \/ BeatAnswer(s) \/ WatchAnswer(s)
             \/ RetryAnswer(s) \/ ForceAnswer(s) \/ ReopenAnswer(s)
    BY <2>2, BeatAnswerStep, WatchAnswerStep, RetryAnswerStep, ForceAnswerStep,
       ReopenAnswerStep
  <2>3. CASE \/ LoadAnswer(s) \/ LoadDocAnswer(s) \/ ClosingAnswer(s)
             \/ DropAnswer(s) \/ HideAnswer(s)
    BY <2>3, LoadAnswerStep, LoadDocAnswerStep, ClosingAnswerStep, DropAnswerStep,
       HideAnswerStep
  <2> QED BY <1>3, <2>1, <2>2, <2>3 DEF Answer
<1>4. ASSUME NEW s \in Slots, Resume(s) PROVE TabInv' /\ TabMoves
  BY <1>4, ResumeStep
<1>5. CASE UNCHANGED vars
  BY <1>5, SameTab, SameUser, SameCalls, FrameStep DEF vars
<1> QED BY <1>1, <1>2, <1>3, <1>4, <1>5 DEF Next

\* A write that holds the Request row shuts out every other: of this tab, since
\* it is not checked meanwhile, and of the others.
LEMMA NextRowKept == TabInv /\ RowKept /\ [Next]_vars => RowKept'
<1> SUFFICES ASSUME TabInv, RowKept, [Next]_vars PROVE RowKept'
  OBVIOUS
<1>1. calls \in [Slots -> Activity] /\ srv \in Server
  BY DEF TabInv, GoodCalls
<1>2. CASE TabMoves
  BY <1>2 DEF TabMoves, Own, RowKept
<1>3. ASSUME NEW s \in Slots, Check(s) PROVE RowKept'
  <2> DEFINE c == [calls[s] EXCEPT !.at = "checked"]
  <2>1. calls' = [calls EXCEPT ![s] = c] /\ srv' = srv
    BY <1>3 DEF Check, Become
  <2>2. c.fn \in WriteFns /\ c.base = srv.version
    <3>1. c.fn = calls[s].fn /\ c.base = calls[s].base
      BY <1>1 DEF Activity
    <3> QED BY <1>3, <3>1 DEF Check, CheckCode, SaveCode, StatusCode, WriteFns
  <2>3. \A r \in Slots : calls[r].at # "checked"
    BY <1>3 DEF Check, RowTaken
  <2> HIDE DEF c
  <2>4. \A r \in Slots : calls'[r].at = "checked" => r = s /\ calls'[r] = c
    BY <1>1, <2>1, <2>3
  <2> QED BY <2>1, <2>2, <2>4 DEF RowKept
<1>4. ASSUME NEW s \in Slots, Reply(s) PROVE RowKept'
  <2>1. PICK code, now :
          /\ code \in Codes /\ Makes(calls[s], code, now) /\ srv' = now
          /\ Become(s, [calls[s] EXCEPT !.at = "answered",
                                        !.res = [code |-> code, now |-> Told(calls[s], now)]])
    BY <1>4, ReplyIs
  <2>2. /\ calls'[s].at = "answered"
        /\ \A r \in Slots \ {s} : calls'[r] = calls[r]
    <3> DEFINE res == [code |-> code, now |-> Told(calls[s], now)]
    <3>1. calls' = [calls EXCEPT ![s] = [calls[s] EXCEPT !.at = "answered", !.res = res]]
      BY <2>1 DEF Become
    <3> HIDE DEF res
    <3> QED BY <1>1, <3>1 DEF Activity
  <2>3. srv'.version = srv.version \/ calls[s].at = "checked"
    BY <2>1 DEF Makes
  <2> QED BY <2>2, <2>3 DEF RowKept
<1>5. ASSUME NEW s \in Slots, Fail(s) PROVE RowKept'
  <2> DEFINE lost == [NoResult EXCEPT !.code = "network"]
  <2>1. calls' = [calls EXCEPT ![s] = [calls[s] EXCEPT !.at = "answered", !.res = lost]]
        /\ srv' = srv
    BY <1>5 DEF Fail, Become
  <2> HIDE DEF lost
  <2>2. calls'[s].at = "answered" /\ \A r \in Slots \ {s} : calls'[r] = calls[r]
    BY <1>1, <2>1 DEF Activity
  <2> QED BY <2>1, <2>2 DEF RowKept
<1>6. CASE Others
  <2>1. srv'.version = srv.version \/ ~RowTaken
    BY <1>1, <1>6 DEF Others, OtherTakes, OtherSweeps, OtherLeaves, OtherSaves, OtherStatus, Server
  <2>2. calls' = calls
    BY <1>6 DEF Others
  <2> QED BY <2>1, <2>2 DEF RowKept, RowTaken
<1> QED BY <1>2, <1>3, <1>4, <1>5, <1>6, NextSteps DEF Serve

LEMMA NextTabInv == TabInv /\ RowKept /\ [Next]_vars => TabInv'
BY NextSteps, CheckStep, ReplyStep, FailStep, OthersStep DEF Serve

LEMMA AlwaysTabInv == Spec => [](TabInv /\ RowKept)
<1>1. Init => RowKept
  BY SlotsAssumption DEF Init, RowKept, Ask, Idle
<1> QED BY <1>1, InitTabInv, NextTabInv, NextRowKept, PTL DEF Spec

\* What the store takes for saved is the version of the server's that it names,
\* whatever answers, readings and saves cross each other.
THEOREM SavedIsStored == Spec => []SavedWasStored
<1>1. TabInv => SavedWasStored
  BY DEF TabInv, GoodTab, TabStored, Stored, SavedWasStored
<1> QED BY <1>1, AlwaysTabInv, PTL

\* The server accepts a save.
LEMMA RepliedSave ==
    ASSUME TabInv, RowKept, NEW s \in Slots, Reply(s), calls[s].fn \in SaveFns, ~user.mixed,
           calls'[s].res.code = "ok"
    PROVE  srv'.doc = calls[s].sent
<1>1. calls \in [Slots -> Activity] /\ calls[s] \in Activity
  BY DEF TabInv, GoodCalls
<1>2. PICK code, now :
        /\ code \in Codes /\ Makes(calls[s], code, now) /\ srv' = now
        /\ Become(s, [calls[s] EXCEPT !.at = "answered",
                                      !.res = [code |-> code, now |-> Told(calls[s], now)]])
  BY ReplyIs
<1> DEFINE res == [code |-> code, now |-> Told(calls[s], now)]
<1>3. res.code = code
  OBVIOUS
<1>4. calls'[s] = [calls[s] EXCEPT !.at = "answered", !.res = res]
  BY <1>1, <1>2 DEF Become
<1> HIDE DEF res
<1>5. calls'[s].res = res
  BY <1>1, <1>4 DEF Activity
<1> QED BY <1>2, <1>3, <1>5 DEF Makes

\* An accepted save leaves on the server exactly what the tab showed, though
\* the lock can pass to another tab between the check of the save and its commit.
THEOREM SavesStoreShown == Spec => SaveStoresShown
<1> DEFINE Shown == \A s \in Slots :
                      (/\ calls[s].fn \in SaveFns /\ calls[s].at # "answered" /\ ~user.mixed
                       /\ calls'[s].at = "answered" /\ calls'[s].res.code = "ok")
                          => srv'.doc = calls[s].sent
<1>1. TabInv /\ RowKept /\ [Next]_vars => Shown
  <2> SUFFICES ASSUME TabInv, RowKept, [Next]_vars, NEW s \in Slots,
                      calls[s].fn \in SaveFns, calls[s].at # "answered", ~user.mixed,
                      calls'[s].at = "answered", calls'[s].res.code = "ok"
               PROVE  srv'.doc = calls[s].sent
    OBVIOUS
  <2>1. calls \in [Slots -> Activity] /\ calls[s] \in Activity
    BY DEF TabInv, GoodCalls
  <2>2. ~TabMoves
    BY DEF TabMoves, Own
  <2>3. ~Others
    BY DEF Others
  <2>4. PICK r \in Slots : Check(r) \/ Reply(r) \/ Fail(r)
    BY <2>2, <2>3, NextSteps DEF Serve
  <2>5. r = s
    BY <2>1, <2>4 DEF Check, Reply, Fail, Become
  <2>6. ~Check(s)
    BY <2>1 DEF Check, Become, Activity
  <2>7. ~Fail(s)
    <3> DEFINE lost == [NoResult EXCEPT !.code = "network"]
    <3>1. lost.code = "network"
      BY DEF NoResult
    <3>2. Fail(s) => calls'[s] = [calls[s] EXCEPT !.at = "answered", !.res = lost]
      BY <2>1 DEF Fail, Become
    <3> HIDE DEF lost
    <3>3. Fail(s) => calls'[s].res = lost
      BY <2>1, <3>2 DEF Activity
    <3> QED BY <3>1, <3>3
  <2> QED BY <2>4, <2>5, <2>6, <2>7, RepliedSave
<1> QED BY <1>1, AlwaysTabInv, PTL DEF Spec, SaveStoresShown

-----------------------------------------------------------------------------
(* The server of the tab keeps the ledger that RequestServer implements     *)
(* (this model has no offers and no approvals).                             *)

Ledger == INSTANCE RequestLedger WITH
              Contents <- Doc, open <- ~srv.closed, version <- srv.version,
              contents <- srv.doc, offers <- {}, agreed <- 0

\* What a write was checked against besides the version: the request is open
\* for a save, and not yet where a change of status takes it.
StatusKept ==
    \A s \in Slots : calls[s].at = "checked" =>
        srv.closed = (calls[s].fn = "status" /\ calls[s].then = "reopen")

\* The steps that count in the ledger, and those that do not.
LEMMA LedgerSave ==
    ASSUME TabInv, srv'.version = srv.version + 1, srv'.doc \in Doc,
           srv'.closed = srv.closed, ~srv.closed
    PROVE  Ledger!Next
BY DEF Ledger!Next, Ledger!Write, Ledger!Nothing

LEMMA LedgerTurn ==
    ASSUME TabInv, srv'.version = srv.version + 1, srv'.doc = srv.doc,
           srv'.closed = ~srv.closed
    PROVE  Ledger!Next
BY DEF Ledger!Next, Ledger!Turn

LEMMA LedgerSame ==
    ASSUME srv'.version = srv.version, srv'.doc = srv.doc, srv'.closed = srv.closed
    PROVE  UNCHANGED Ledger!ledger
BY DEF Ledger!ledger

\* Saves and changes of status change the ledger, at their commit; an answer
\* given at once leaves it alone.
LEMMA ReplyLedger ==
    ASSUME TabInv, RowKept, StatusKept, NEW s \in Slots, Reply(s)
    PROVE  /\ Ledger!Next \/ UNCHANGED Ledger!ledger
           /\ srv'.closed = srv.closed \/ calls[s].at = "checked"
<1> DEFINE c == calls[s]
<1>1. srv \in Server /\ srv' \in Server /\ c.fn \in Functions
  BY ReplyStep, CallThen DEF TabInv, Activity
<1>2. srv.lock \in Owners /\ Released \in Owners /\ "mine" \in Owners
  BY <1>1 DEF Released, Owners, Server
<1>3. ASSUME NEW o \in Owners, srv' = [srv EXCEPT !.lock = o]
      PROVE  UNCHANGED Ledger!ledger /\ srv'.closed = srv.closed
  BY <1>1, <1>3, LedgerSame DEF Server
<1>4. CASE \E code : c.at = "asked" /\ Handled(c, code, srv')
  <2>1. srv' = srv \/ \E o \in Owners : srv' = [srv EXCEPT !.lock = o]
    BY <1>2, <1>4 DEF Handled
  <2> QED BY <1>3, <2>1, LedgerSame
<1>5. CASE \E code : c.at = "checked" /\ Committed(c, code, srv')
  <2>1. CASE srv' = srv
    BY <1>5, <2>1, LedgerSame
  <2>2. CASE c.fn \in SaveFns /\ srv' = SavedBy(c)
    <3>1. srv'.version = srv.version + 1 /\ srv'.closed = srv.closed
      BY <1>1, <2>2 DEF SavedBy, Server
    <3>2. ~srv.closed /\ srv'.doc \in Doc
      BY <1>1, <1>5, <2>2 DEF StatusKept, SaveFns, Server
    <3> QED BY <1>5, <3>1, <3>2, LedgerSave
  <2>3. CASE c.fn = "status" /\ srv' = StatusBy(c)
    <3>1. /\ srv'.version = srv.version + 1 /\ srv'.doc = srv.doc
          /\ srv'.closed = (c.then # "reopen")
      BY <1>1, <2>3 DEF StatusBy, Server
    <3>2. srv.closed = (c.then = "reopen")
      BY <1>5, <2>3 DEF StatusKept
    <3> QED BY <1>5, <3>1, <3>2, LedgerTurn
  <2> QED BY <1>5, <2>1, <2>2, <2>3 DEF Committed, SaveFns
<1> QED BY <1>4, <1>5 DEF Reply

\* Saves of other tabs find the request open; their changes of status turn it.
LEMMA OthersLedger ==
    ASSUME TabInv, Others
    PROVE  /\ Ledger!Next \/ UNCHANGED Ledger!ledger
           /\ srv'.closed = srv.closed \/ ~RowTaken
<1>1. srv \in Server /\ srv' \in Server
  BY OthersStep DEF TabInv
<1>2. CASE OtherTakes \/ OtherSweeps \/ OtherLeaves
  <2>1. PICK o \in Owners : srv' = [srv EXCEPT !.lock = o]
    BY <1>2 DEF OtherTakes, OtherSweeps, OtherLeaves, Owners
  <2> QED BY <1>1, <2>1, LedgerSame DEF Server
<1>3. CASE OtherSaves
  <2>1. srv'.version = srv.version + 1 /\ srv'.closed = srv.closed /\ ~srv.closed
    BY <1>1, <1>3 DEF OtherSaves, Server
  <2> QED BY <1>1, <2>1, LedgerSave DEF Server
<1>4. CASE OtherStatus
  <2> DEFINE lock == IF srv.closed THEN "other" ELSE "none"
  <2>1. srv' = [srv EXCEPT !.version = srv.version + 1, !.closed = ~srv.closed, !.lock = lock]
    BY <1>4 DEF OtherStatus
  <2> HIDE DEF lock
  <2>2. srv'.version = srv.version + 1 /\ srv'.doc = srv.doc /\ srv'.closed = ~srv.closed
    BY <1>1, <2>1 DEF Server
  <2> QED BY <1>4, <2>2, LedgerTurn DEF OtherStatus
<1> QED BY <1>2, <1>3, <1>4 DEF Others

LEMMA NextStatusKept == TabInv /\ RowKept /\ StatusKept /\ [Next]_vars => StatusKept'
<1> SUFFICES ASSUME TabInv, RowKept, StatusKept, [Next]_vars PROVE StatusKept'
  OBVIOUS
<1>1. calls \in [Slots -> Activity] /\ srv \in Server
  BY DEF TabInv, GoodCalls
<1>2. CASE TabMoves
  BY <1>2 DEF TabMoves, Own, StatusKept
<1>3. ASSUME NEW s \in Slots, Check(s) PROVE StatusKept'
  <2> DEFINE c == [calls[s] EXCEPT !.at = "checked"]
  <2>1. calls' = [calls EXCEPT ![s] = c] /\ srv' = srv
    BY <1>3 DEF Check, Become
  <2>2. srv.closed = (c.fn = "status" /\ c.then = "reopen")
    <3>1. c.fn = calls[s].fn /\ c.then = calls[s].then /\ srv.closed \in BOOLEAN
      BY <1>1 DEF Activity, Server
    <3> QED
      BY <1>3, <3>1 DEF Check, CheckCode, SaveCode, StatusCode, WriteFns, SaveFns
  <2> HIDE DEF c
  <2>3. \A r \in Slots : calls'[r].at = "checked" => calls'[r] = c \/ calls'[r] = calls[r]
    BY <1>1, <2>1
  <2> QED BY <2>1, <2>2, <2>3 DEF StatusKept
<1>4. ASSUME NEW s \in Slots, Reply(s) \/ Fail(s) PROVE StatusKept'
  <2>1. PICK res : calls' = [calls EXCEPT ![s] = [calls[s] EXCEPT !.at = "answered", !.res = res]]
    BY <1>4 DEF Reply, Fail, Become
  <2>2. calls'[s].at = "answered" /\ \A r \in Slots \ {s} : calls'[r] = calls[r]
    BY <1>1, <2>1 DEF Activity
  <2>3. srv'.closed = srv.closed \/ calls[s].at = "checked"
    BY <1>4, ReplyLedger DEF Fail
  <2> QED BY <2>2, <2>3 DEF StatusKept, RowKept
<1>5. CASE Others
  BY <1>5, OthersLedger DEF Others, StatusKept, RowTaken
<1> QED BY <1>2, <1>3, <1>4, <1>5, NextSteps DEF Serve

\* Whatever is lost, delayed or taken over between a check and its commit, what
\* the server of this model makes of the calls of all tabs is a behaviour of
\* RequestLedger - the specification that the calls of saveRequestDocument and
\* changeStatus, with their transactions and locks, are proved to implement.
THEOREM TabServerKeepsLedger == Spec => Ledger!Spec
<1>1. Init => StatusKept /\ Ledger!Init
  <2> SUFFICES ASSUME Init PROVE StatusKept /\ Ledger!Init
    OBVIOUS
  <2>1. StatusKept
    BY SlotsAssumption DEF Init, StatusKept, Ask, Idle
  <2>2. srv.version = 1 /\ srv.doc = {} /\ ~srv.closed /\ {} \in Doc
    BY DEF Init, NoServer, Doc
  <2> QED BY <2>1, <2>2 DEF Ledger!Init, Ledger!Nothing
<1>2. TabInv /\ RowKept /\ StatusKept /\ [Next]_vars => [Ledger!Next]_(Ledger!ledger)
  <2> SUFFICES ASSUME TabInv, RowKept, StatusKept, [Next]_vars
               PROVE  Ledger!Next \/ UNCHANGED Ledger!ledger
    OBVIOUS
  <2>1. CASE srv' = srv
    BY <2>1, LedgerSame
  <2> QED BY <2>1, ReplyLedger, OthersLedger, NextSteps DEF TabMoves, Serve, Check, Fail
<1> QED BY <1>1, <1>2, AlwaysTabInv, NextStatusKept, PTL DEF Spec, Ledger!Spec

=============================================================================
