----------------------------- MODULE SheetProofs -----------------------------
(***************************************************************************)
(* Proofs about the shared sheets of ReferenceSheet.                       *)
(***************************************************************************)
EXTENDS ReferenceSheet, TLAPS

Sheets == [version : Nat, content : SUBSET Changes, patched : BOOLEAN]
Drafts == [content : SUBSET Changes, version : Nat, patched : BOOLEAN, dirty : BOOLEAN,
           saving : BOOLEAN, conflict : BOOLEAN, refused : BOOLEAN, timer : BOOLEAN]
Saves  == [at : {"none", "sent", "saved", "conflict", "lost", "refused"}, version : Nat,
           content : SUBSET Changes, patched : BOOLEAN]

\* What has the version of the row has all that is in the row, unless a closed
\* editor left its text there.
Whole(x) ==
    /\ x.version <= row.version
    /\ (x.version = row.version /\ ~x.patched) => row.content \subseteq x.content

GoodSheet(x) == x \in Sheets /\ Whole(x)
GoodDraft(d) == d \in Drafts /\ Whole(d)
GoodSave(c) ==
    /\ c \in Saves /\ c.version <= row.version
    /\ c.at = "sent" => Whole(c)
    /\ (c.at = "saved" /\ c.version = row.version) => c.content = row.content

Loads == [at : {"none", "asked", "read", "failed"}, sheet : Sheets \cup {None}]

\* A draft d in an editor, its save c and its reading r. While a save is on its
\* way the draft keeps all that was sent; a reading is there only in a conflict.
GoodEditor(l, d, c, r) ==
    /\ GoodDraft(d) /\ GoodSave(c)
    /\ r \in Loads /\ (r.at = "read" => GoodSheet(r.sheet))
    /\ l = "new" => c.at = "none" /\ r.at = "none"
    /\ l = "open" => /\ c.at # "none" => /\ d.saving /\ ~d.conflict
                                         /\ c.content \subseteq d.content
                     /\ r.at # "none" => d.conflict

\* All that the pages hold
GoodPages(ca, fe, li, lv, sv, ld) ==
    /\ ca \in [Pages -> Sheets \cup {None}] /\ fe \in [Pages -> Sheets \cup {None}]
    /\ li \in [Editors -> {"new", "open", "closed"}]
    /\ lv \in [Editors -> Drafts] /\ sv \in [Editors -> Saves] /\ ld \in [Editors -> Loads]
    /\ \A p \in Pages : /\ ca[p] # None => GoodSheet(ca[p])
                        /\ fe[p] # None => GoodSheet(fe[p])
    /\ \A e \in Editors : /\ GoodEditor(li[e], lv[e], sv[e], ld[e])
                          /\ li[e] = "open" => ca[PageOf[e]] # None

SheetInv ==
    /\ row \in [version : Nat \ {0}, content : SUBSET Changes] /\ made \subseteq Changes
    /\ GoodPages(cache, fetched, life, live, save, load)

-----------------------------------------------------------------------------
(* Drafts and saves                                                        *)

LEMMA SheetGood ==
    ASSUME SheetInv
    PROVE  GoodSheet(Sheet(row.version, row.content))
BY DEF SheetInv, Sheet, GoodSheet, Sheets, Whole

LEMMA NewDraftGood ==
    ASSUME NEW x, GoodSheet(x)
    PROVE  /\ GoodDraft(NewDraft(x))
           /\ ~NewDraft(x).saving /\ ~NewDraft(x).conflict
<1>1. /\ NewDraft(x) \in Drafts /\ NewDraft(x).version = x.version
      /\ NewDraft(x).content = x.content /\ NewDraft(x).patched = x.patched
      /\ ~NewDraft(x).saving /\ ~NewDraft(x).conflict
  BY DEF GoodSheet, Sheets, Drafts, NewDraft
<1> QED BY <1>1 DEF GoodSheet, GoodDraft, Whole

LEMMA NoDraftGood ==
    ASSUME SheetInv
    PROVE  GoodDraft(NoDraft)
<1> DEFINE x == Sheet(0, {})
<1>1. /\ NoDraft = NewDraft(x) /\ x \in Sheets
      /\ x.version = 0 /\ x.content = {}
  BY DEF NoDraft, Sheet, Sheets
<1>2. NewDraft(x) \in Drafts /\ NewDraft(x).version = 0 /\ NewDraft(x).content = {}
  BY <1>1 DEF NewDraft, Sheets, Drafts
<1>3. row.version \in Nat \ {0}
  BY DEF SheetInv
<1> QED BY <1>1, <1>2, <1>3 DEF GoodDraft, Whole

\* The draft with other marks
LEMMA MarkedGood ==
    ASSUME NEW d, GoodDraft(d), NEW f \in Drafts,
           f.version = d.version, f.content = d.content, f.patched = d.patched
    PROVE  GoodDraft(f)
BY DEF GoodDraft, Whole

LEMMA AdoptGood ==
    ASSUME NEW d \in Drafts, NEW x, GoodSheet(x)
    PROVE  GoodDraft(Adopt(d, x)) /\ Adopt(d, x).saving = d.saving /\ ~Adopt(d, x).conflict
<1>1. GoodDraft(NewDraft(x)) /\ ~NewDraft(x).conflict /\ NewDraft(x) \in Drafts
  BY NewDraftGood DEF GoodDraft
<1>2. d.saving \in BOOLEAN
  BY DEF Drafts
<1>3. /\ Adopt(d, x) \in Drafts /\ Adopt(d, x).saving = d.saving /\ ~Adopt(d, x).conflict
      /\ Adopt(d, x).version = NewDraft(x).version /\ Adopt(d, x).content = NewDraft(x).content
      /\ Adopt(d, x).patched = NewDraft(x).patched
  BY <1>1, <1>2 DEF Adopt, Drafts
<1> QED BY <1>1, <1>3, MarkedGood

LEMMA NoticedGood ==
    ASSUME NEW d, NEW c, NEW r, NEW x, GoodEditor("open", d, c, r), GoodSheet(x)
    PROVE  GoodEditor("open", Noticed(d, x), c, r)
<1>1. d \in Drafts
  BY DEF GoodEditor, GoodDraft
<1>2. CASE ~d.saving /\ ~d.conflict /\ Noticed(d, x) = Adopt(d, x)
  BY <1>1, <1>2, AdoptGood DEF GoodEditor
<1>3. CASE Noticed(d, x) = d
  BY <1>3
<1> QED BY <1>2, <1>3 DEF Noticed

\* send: the draft after it, and the save there is
Sending(d, c) == IF Sends(d) THEN SaveOf(d) ELSE c

LEMMA SaveOfGood ==
    ASSUME NEW d, GoodDraft(d)
    PROVE  /\ GoodSave(SaveOf(d)) /\ SaveOf(d).content = d.content /\ SaveOf(d).at = "sent"
<1>1. /\ SaveOf(d) \in Saves /\ SaveOf(d).content = d.content /\ SaveOf(d).at = "sent"
      /\ SaveOf(d).version = d.version /\ SaveOf(d).patched = d.patched
  BY DEF GoodDraft, Drafts, Saves, SaveOf
<1> QED BY <1>1 DEF GoodSave, GoodDraft, Whole

LEMMA SentGood ==
    ASSUME NEW d, NEW c, NEW r, GoodEditor("open", d, c, r)
    PROVE  GoodEditor("open", Sent(d), Sending(d, c), r)
<1>1. GoodDraft(d) /\ d \in Drafts
  BY DEF GoodEditor, GoodDraft
<1>2. /\ Sent(d) \in Drafts /\ Sent(d).version = d.version /\ Sent(d).content = d.content
      /\ Sent(d).patched = d.patched /\ Sent(d).conflict = d.conflict
      /\ IF Sends(d) THEN Sent(d).saving ELSE Sent(d).saving = d.saving
  BY <1>1 DEF Sent, Drafts
<1>3. GoodDraft(Sent(d))
  BY <1>1, <1>2, MarkedGood
<1>4. CASE Sends(d)
  BY <1>1, <1>2, <1>3, <1>4, SaveOfGood DEF Sending, Sends, GoodEditor
<1>5. CASE ~Sends(d)
  BY <1>2, <1>3, <1>5 DEF Sending, GoodEditor
<1> QED BY <1>4, <1>5

LEMMA NoSaveGood ==
    ASSUME SheetInv
    PROVE  GoodSave(NoSave) /\ NoSave.at = "none"
BY DEF NoSave, GoodSave, Saves, SheetInv

LEMMA NoLoadTyped == NoLoad \in Loads /\ NoLoad.at = "none"
BY DEF NoLoad, Loads

\* The draft when its save is over
LEMMA SettledGood ==
    ASSUME SheetInv, NEW e \in Editors, life[e] # "new",
           NEW d \in Drafts, Open(e) => GoodDraft(d),
           NEW r \in Loads, r.at = "read" => GoodSheet(r.sheet),
           Open(e) => (r.at # "none" => d.conflict)
    PROVE  GoodEditor(life[e], Settled(e, d), NoSave, r)
<1> DEFINE planned == d.timer \/ (d.dirty /\ ~d.conflict /\ ~d.refused)
           f == [d EXCEPT !.saving = FALSE, !.timer = planned]
<1>1. d \in Drafts /\ planned \in BOOLEAN
  BY DEF Drafts
<1>2. Settled(e, d) = Draft(e, f)
  BY DEF Settled
<1> HIDE DEF planned
<1>3. /\ f \in Drafts /\ f.version = d.version /\ f.content = d.content
      /\ f.patched = d.patched /\ f.conflict = d.conflict
  BY <1>1 DEF Drafts
<1> HIDE DEF f
<1>4. GoodEditor(life[e], f, NoSave, r) \/ ~Open(e)
  BY <1>3, MarkedGood, NoSaveGood DEF GoodEditor, Open
<1>5. GoodEditor(life[e], NoDraft, NoSave, r) \/ Open(e)
  BY NoDraftGood, NoSaveGood DEF GoodEditor, Open
<1> QED BY <1>2, <1>4, <1>5 DEF Draft

-----------------------------------------------------------------------------
(* Pages                                                                   *)

LEMMA EditorOf ==
    ASSUME SheetInv, NEW e \in Editors
    PROVE  /\ GoodEditor(life[e], live[e], save[e], load[e])
           /\ live[e] \in Drafts /\ save[e] \in Saves /\ load[e] \in Loads
           /\ GoodDraft(live[e]) /\ GoodSave(save[e])
           /\ PageOf[e] \in Pages /\ (Open(e) => cache[PageOf[e]] # None)
BY SheetAssumption DEF SheetInv, GoodPages, GoodEditor, Open

\* An editor's draft, save and reading change.
LEMMA OneEditor ==
    ASSUME SheetInv, NEW e \in Editors, NEW d, NEW c, NEW r, GoodEditor(life[e], d, c, r)
    PROVE  GoodPages(cache, fetched, life, [live EXCEPT ![e] = d],
                     [save EXCEPT ![e] = c], [load EXCEPT ![e] = r])
BY DEF SheetInv, GoodPages, GoodEditor, GoodDraft, GoodSave, Open

LEMMA CachedGood ==
    ASSUME SheetInv, NEW p \in Pages, NEW x, GoodSheet(x), NEW drafts, NEW fe, NEW sv, NEW ld,
           GoodPages(cache, fe, life, drafts, sv, ld), Cached(p, x, drafts)
    PROVE  GoodPages(cache', fe, life, live', sv, ld)
<1>1. cache' = [cache EXCEPT ![p] = x] /\ x \in Sheets
  BY DEF Cached, GoodSheet
<1>2. live' = [e \in Editors |-> IF PageOf[e] = p /\ Open(e) THEN Noticed(drafts[e], x)
                                                           ELSE drafts[e]]
  BY DEF Cached
<1>3. ASSUME NEW e \in Editors PROVE GoodEditor(life[e], live'[e], sv[e], ld[e])
  <2>1. GoodEditor(life[e], drafts[e], sv[e], ld[e])
    BY DEF GoodPages
  <2>2. CASE PageOf[e] = p /\ Open(e)
    <3>1. GoodEditor("open", drafts[e], sv[e], ld[e])
      BY <2>1, <2>2 DEF Open, GoodEditor
    <3>2. GoodEditor("open", Noticed(drafts[e], x), sv[e], ld[e])
      BY <3>1, NoticedGood
    <3> QED BY <1>2, <2>2, <3>2 DEF Open
  <2>3. CASE ~(PageOf[e] = p /\ Open(e))
    BY <1>2, <2>1, <2>3
  <2> QED BY <2>2, <2>3
<1>4. live' \in [Editors -> Drafts]
  <2>1. ASSUME NEW e \in Editors PROVE live'[e] \in Drafts
    BY <1>3 DEF GoodEditor, GoodDraft
  <2> QED BY <1>2, <2>1
<1>5. cache' \in [Pages -> Sheets \cup {None}]
  BY <1>1 DEF GoodPages
<1>6. ASSUME NEW q \in Pages PROVE cache'[q] # None => GoodSheet(cache'[q])
  BY <1>1 DEF GoodPages
<1>7. ASSUME NEW e \in Editors, life[e] = "open" PROVE cache'[PageOf[e]] # None
  <2>1. cache[PageOf[e]] # None /\ PageOf[e] \in Pages /\ cache \in [Pages -> Sheets \cup {None}]
    BY <1>7, SheetAssumption DEF GoodPages
  <2>2. x # None
    BY <1>1, SheetAssumption DEF Sheets
  <2> QED BY <1>1, <2>1, <2>2
<1> QED BY <1>3, <1>4, <1>5, <1>6, <1>7 DEF GoodPages

LEMMA FrameStep ==
    ASSUME SheetInv, row' = row, made' \subseteq Changes,
           GoodPages(cache', fetched', life', live', save', load')
    PROVE  SheetInv'
<1>1. GoodPages(cache, fetched, life, live, save, load)'
  BY DEF GoodPages, GoodEditor, GoodDraft, GoodSave, GoodSheet, Whole
<1> QED BY <1>1 DEF SheetInv

-----------------------------------------------------------------------------
(* The steps                                                               *)

LEMMA FetchStep == ASSUME SheetInv, NEW p \in Pages, Fetch(p) PROVE SheetInv'
<1> DEFINE x == Sheet(row.version, row.content)
<1>1. GoodSheet(x) /\ x \in Sheets
  BY SheetGood DEF GoodSheet
<1>2. fetched' = [fetched EXCEPT ![p] = x]
  BY DEF Fetch
<1> HIDE DEF x
<1>3. GoodPages(cache, fetched', life, live, save, load)
  BY <1>1, <1>2 DEF SheetInv, GoodPages
<1> QED BY <1>3, FrameStep DEF Fetch, SheetInv

LEMMA FetchDoneStep == ASSUME SheetInv, NEW p \in Pages, FetchDone(p) PROVE SheetInv'
<1>1. GoodSheet(fetched[p])
  BY DEF FetchDone, SheetInv, GoodPages
<1>2. fetched' = [fetched EXCEPT ![p] = None]
  BY DEF FetchDone
<1>3. GoodPages(cache, fetched', life, live, save, load)
  BY <1>2 DEF SheetInv, GoodPages
<1>4. GoodPages(cache', fetched', life, live', save, load)
  BY <1>1, <1>3, CachedGood DEF FetchDone
<1> QED BY <1>4, FrameStep DEF FetchDone, SheetInv

LEMMA OpenEditorStep == ASSUME SheetInv, NEW e \in Editors, OpenEditor(e) PROVE SheetInv'
<1> DEFINE d == NewDraft(cache[PageOf[e]])
<1>1. GoodSheet(cache[PageOf[e]])
  BY EditorOf DEF OpenEditor, SheetInv, GoodPages
<1>2. GoodDraft(d) /\ d \in Drafts
  BY <1>1, NewDraftGood DEF GoodDraft
<1>3. /\ life' = [life EXCEPT ![e] = "open"] /\ live' = [live EXCEPT ![e] = d]
      /\ life[e] = "new" /\ cache[PageOf[e]] # None
  BY DEF OpenEditor
<1> HIDE DEF d
<1>4. GoodEditor("open", d, save[e], load[e])
  BY <1>2, <1>3 DEF SheetInv, GoodPages, GoodEditor
<1>5. GoodPages(cache, fetched, life', live', save, load)
  BY <1>2, <1>3, <1>4 DEF SheetInv, GoodPages
<1> QED BY <1>5, FrameStep DEF OpenEditor, SheetInv

LEMMA ChangeStep ==
    ASSUME SheetInv, NEW e \in Editors, NEW x \in Changes, Change(e, x)
    PROVE  SheetInv'
<1> DEFINE d == [live[e] EXCEPT !.content = live[e].content \cup {x}, !.dirty = TRUE,
                                !.refused = FALSE, !.timer = TRUE]
<1>1. GoodEditor(life[e], live[e], save[e], load[e]) /\ live[e] \in Drafts /\ GoodDraft(live[e])
  BY EditorOf
<1>2. /\ d \in Drafts /\ d.version = live[e].version /\ d.patched = live[e].patched
      /\ d.content = live[e].content \cup {x} /\ d.saving = live[e].saving
      /\ d.conflict = live[e].conflict
  BY <1>1 DEF Drafts
<1>3. /\ live' = [live EXCEPT ![e] = d] /\ made' = made \cup {x}
      /\ UNCHANGED <<row, cache, fetched, life, save, load>>
  BY DEF Change
<1> HIDE DEF d
<1>4. GoodEditor(life[e], d, save[e], load[e])
  BY <1>1, <1>2 DEF GoodEditor, GoodDraft, Whole
<1>5. GoodPages(cache, fetched, life, live', save, load)
  BY <1>2, <1>3, <1>4 DEF SheetInv, GoodPages
<1> QED BY <1>3, <1>5, FrameStep DEF SheetInv

\* Send, of a draft that may have lost its marks of errors
LEMMA SendStep ==
    ASSUME SheetInv, NEW e \in Editors, NEW d, Open(e), Send(e, d),
           GoodEditor("open", d, save[e], load[e])
    PROVE  GoodPages(cache, fetched, life, live', save', load)
<1>1. GoodEditor("open", Sent(d), Sending(d, save[e]), load[e])
  BY SentGood
<1>2. live' = [live EXCEPT ![e] = Sent(d)] /\ Sent(d) \in Drafts
  BY <1>1 DEF Send, GoodEditor, GoodDraft
<1>3. save' = [save EXCEPT ![e] = Sending(d, save[e])] /\ Sending(d, save[e]) \in Saves
  BY <1>1 DEF Send, Sending, GoodEditor, GoodSave, SheetInv, GoodPages
<1> QED BY <1>1, <1>2, <1>3 DEF Open, SheetInv, GoodPages

LEMMA SendNowStep ==
    ASSUME SheetInv, NEW e \in Editors, TimerFires(e) \/ Flush(e)
    PROVE  SheetInv'
<1>1. Open(e) /\ Send(e, live[e]) /\ UNCHANGED <<row, cache, fetched, life, load, made>>
  BY DEF TimerFires, Flush
<1>2. GoodEditor("open", live[e], save[e], load[e])
  BY <1>1, EditorOf DEF Open
<1>3. GoodPages(cache, fetched, life, live', save', load)
  BY <1>1, <1>2, SendStep
<1> QED BY <1>1, <1>3, FrameStep DEF SheetInv

LEMMA RetryStep == ASSUME SheetInv, NEW e \in Editors, Retry(e) PROVE SheetInv'
<1> DEFINE d == [live[e] EXCEPT !.refused = FALSE]
           r == [NoLoad EXCEPT !.at = "asked"]
<1>1. /\ GoodEditor("open", live[e], save[e], load[e]) /\ Open(e) /\ life[e] = "open"
      /\ live[e] \in Drafts /\ GoodDraft(live[e])
  BY EditorOf DEF Retry, Open
<1>2. /\ d \in Drafts /\ d.version = live[e].version /\ d.patched = live[e].patched
      /\ d.content = live[e].content /\ d.saving = live[e].saving
      /\ d.conflict = live[e].conflict
  BY <1>1 DEF Drafts
<1>3. GoodEditor("open", d, save[e], load[e])
  BY <1>1, <1>2, MarkedGood DEF GoodEditor
<1>4. r \in Loads /\ r.at = "asked"
  BY DEF NoLoad, Loads
<1>5. /\ UNCHANGED <<row, cache, fetched, life, made>>
      /\ IF d.conflict THEN /\ load' = [load EXCEPT ![e] = r]
                            /\ live' = [live EXCEPT ![e] = d] /\ save' = save
                       ELSE Send(e, d) /\ load' = load
  BY DEF Retry
<1> HIDE DEF d, r
<1>6. CASE d.conflict
  <2>1. GoodEditor("open", d, save[e], r)
    BY <1>3, <1>4, <1>6 DEF GoodEditor
  <2>2. GoodPages(cache, fetched, life, live', save, load')
    BY <1>1, <1>2, <1>4, <1>5, <1>6, <2>1 DEF SheetInv, GoodPages
  <2> QED BY <1>5, <1>6, <2>2, FrameStep DEF SheetInv
<1>7. CASE ~d.conflict
  <2>1. GoodPages(cache, fetched, life, live', save', load)
    BY <1>1, <1>3, <1>5, <1>7, SendStep
  <2> QED BY <1>5, <1>7, <2>1, FrameStep DEF SheetInv
<1> QED BY <1>6, <1>7

LEMMA CloseEditorStep == ASSUME SheetInv, NEW e \in Editors, CloseEditor(e) PROVE SheetInv'
<1> DEFINE p == PageOf[e]
           x == [cache[p] EXCEPT !.content = live[e].content, !.patched = TRUE]
           r == IF load[e].at = "failed" THEN NoLoad ELSE load[e]
<1>1. /\ GoodEditor("open", live[e], save[e], load[e]) /\ Open(e) /\ life[e] = "open"
      /\ live[e] \in Drafts /\ GoodDraft(live[e]) /\ p \in Pages /\ cache[p] # None
  BY EditorOf DEF CloseEditor, Open
<1>2. GoodSheet(cache[p]) /\ cache[p] \in Sheets
  BY <1>1 DEF SheetInv, GoodPages, GoodSheet
<1>3. x \in Sheets /\ x.version = cache[p].version /\ x.patched
  BY <1>1, <1>2 DEF Sheets, Drafts
<1>4. GoodSheet(x) /\ x # None
  BY <1>2, <1>3, SheetAssumption DEF GoodSheet, Whole, Sheets
<1>5. cache' = [cache EXCEPT ![p] = x] \/ cache' = cache
  BY DEF CloseEditor
<1>6. r \in Loads /\ (r.at = "read" => GoodSheet(r.sheet))
  BY <1>1, NoLoadTyped DEF GoodEditor
<1>7. load' = [load EXCEPT ![e] = r]
  BY DEF CloseEditor
<1>8. /\ life' = [life EXCEPT ![e] = "closed"] /\ live' = [live EXCEPT ![e] = NoDraft]
      /\ UNCHANGED <<row, fetched, made>>
  BY DEF CloseEditor
<1>9. save' = [save EXCEPT ![e] = Sending(live[e], save[e])]
  BY DEF CloseEditor, Sending, SheetInv, GoodPages
<1>10. GoodSave(Sending(live[e], save[e])) /\ Sending(live[e], save[e]) \in Saves
  BY <1>1, SentGood DEF GoodEditor, GoodSave
<1> HIDE DEF x, r
<1>11. GoodEditor("closed", NoDraft, Sending(live[e], save[e]), r) /\ NoDraft \in Drafts
  BY <1>6, <1>10, NoDraftGood DEF GoodEditor, GoodDraft
<1>12. /\ cache' \in [Pages -> Sheets \cup {None}]
       /\ \A q \in Pages : /\ cache'[q] # None => GoodSheet(cache'[q])
                           /\ cache[q] # None => cache'[q] # None
  BY <1>1, <1>3, <1>4, <1>5 DEF SheetInv, GoodPages
<1>13. ASSUME NEW o \in Editors
       PROVE  /\ GoodEditor(life'[o], live'[o], save'[o], load'[o])
              /\ life'[o] = "open" => cache'[PageOf[o]] # None
  BY <1>7, <1>8, <1>9, <1>11, <1>12, SheetAssumption DEF SheetInv, GoodPages
<1>14. /\ life' \in [Editors -> {"new", "open", "closed"}] /\ live' \in [Editors -> Drafts]
       /\ save' \in [Editors -> Saves] /\ load' \in [Editors -> Loads]
  BY <1>6, <1>7, <1>8, <1>9, <1>10, <1>11 DEF SheetInv, GoodPages
<1>15. GoodPages(cache', fetched, life', live', save', load')
  BY <1>12, <1>13, <1>14 DEF SheetInv, GoodPages
<1> QED BY <1>8, <1>15, FrameStep DEF SheetInv

\* A save's mark changes, on its way.
LEMMA SaveOnItsWay ==
    ASSUME SheetInv, NEW e \in Editors, save[e].at # "none",
           NEW c, c = [save[e] EXCEPT !.at = c.at], c.at \in {"conflict", "lost", "refused"},
           save' = [save EXCEPT ![e] = c],
           UNCHANGED <<row, cache, fetched, life, live, load, made>>
    PROVE  SheetInv'
<1>1. GoodEditor(life[e], live[e], save[e], load[e]) /\ save[e] \in Saves /\ GoodSave(save[e])
  BY EditorOf
<1>2. c \in Saves /\ c.version = save[e].version /\ c.content = save[e].content
  BY <1>1 DEF Saves
<1>3. GoodEditor(life[e], live[e], c, load[e])
  BY <1>1, <1>2 DEF GoodEditor, GoodSave
<1>4. GoodPages(cache, fetched, life, live, save', load)
  BY <1>2, <1>3 DEF SheetInv, GoodPages
<1> QED BY <1>4, FrameStep DEF SheetInv

LEMMA LoseSaveStep == ASSUME SheetInv, NEW e \in Editors, LoseSave(e) PROVE SheetInv'
<1> DEFINE c == [save[e] EXCEPT !.at = "lost"]
<1>1. save[e] \in Saves
  BY EditorOf
<1>2. c = [save[e] EXCEPT !.at = c.at] /\ c.at = "lost"
  BY <1>1 DEF Saves
<1> QED BY <1>2, SaveOnItsWay DEF LoseSave

LEMMA RefuseSaveStep == ASSUME SheetInv, NEW e \in Editors, RefuseSave(e) PROVE SheetInv'
<1> DEFINE c == [save[e] EXCEPT !.at = "refused"]
<1>1. save[e] \in Saves
  BY EditorOf
<1>2. c = [save[e] EXCEPT !.at = c.at] /\ c.at = "refused"
  BY <1>1 DEF Saves
<1> QED BY <1>2, SaveOnItsWay DEF RefuseSave

\* What was read or kept of a row stays behind it when it changes.
LEMMA StoreStep == ASSUME SheetInv, NEW e \in Editors, Store(e) PROVE SheetInv'
<1> DEFINE c == [save[e] EXCEPT !.at = "saved", !.version = row.version + 1]
           k == [save[e] EXCEPT !.at = "conflict"]
<1>1. GoodEditor(life[e], live[e], save[e], load[e]) /\ save[e] \in Saves /\ GoodSave(save[e])
  BY EditorOf
<1>2. CASE save[e].version # row.version
  <2>1. k = [save[e] EXCEPT !.at = k.at] /\ k.at = "conflict"
    BY <1>1 DEF Saves
  <2> QED BY <1>2, <2>1, SaveOnItsWay DEF Store
<1>3. CASE save[e].version = row.version
  <2>1. row.version \in Nat \ {0} /\ row.version + 1 \in Nat \ {0}
    BY DEF SheetInv
  <2>2. /\ row' = [version |-> row.version + 1, content |-> save[e].content]
        /\ UNCHANGED <<cache, fetched, life, live, load, made>>
    BY <1>3 DEF Store
  <2>3. save' = [save EXCEPT ![e] = c]
    BY <1>3 DEF Store, SheetInv, GoodPages
  <2>4. c \in Saves /\ c.version = row.version + 1 /\ c.content = save[e].content /\ c.at = "saved"
    BY <1>1, <2>1 DEF Saves
  <2> HIDE DEF c
  <2>5. /\ row' \in [version : Nat \ {0}, content : SUBSET Changes]
        /\ row'.version = row.version + 1 /\ row'.content = save[e].content
    BY <1>1, <2>1, <2>2 DEF Saves
  <2>6. ASSUME NEW o \in Editors PROVE GoodEditor(life[o], live[o], save[o], load[o])'
    <3>1. GoodEditor(life[o], live[o], save[o], load[o])
      BY EditorOf
    <3>2. CASE o # e
      <4>1. save'[o] = save[o]
        BY <2>3, <3>2
      <4> QED BY <2>1, <2>2, <2>5, <3>1, <4>1
              DEF GoodEditor, GoodDraft, GoodSave, GoodSheet, Whole, Sheets, Drafts, Saves
    <3>3. CASE o = e
      <4>1. save'[o] = c /\ save[o].at = "sent"
        BY <2>3, <3>3 DEF SheetInv, GoodPages, Store
      <4> QED BY <2>1, <2>2, <2>4, <2>5, <3>1, <3>3, <4>1
              DEF GoodEditor, GoodDraft, GoodSave, GoodSheet, Whole, Sheets, Drafts, Saves
    <3> QED BY <3>2, <3>3
  <2>7. save' \in [Editors -> Saves]
    BY <2>3, <2>4 DEF SheetInv, GoodPages
  <2>8. ASSUME NEW p \in Pages
        PROVE  /\ cache[p] # None => GoodSheet(cache[p])'
               /\ fetched[p] # None => GoodSheet(fetched[p])'
    BY <2>1, <2>2, <2>5 DEF SheetInv, GoodPages, GoodSheet, Whole, Sheets
  <2>9. GoodPages(cache, fetched, life, live, save, load)'
    BY <2>2, <2>6, <2>7, <2>8 DEF SheetInv, GoodPages
  <2> QED BY <2>2, <2>5, <2>9 DEF SheetInv
<1> QED BY <1>2, <1>3

LEMMA SavedStep == ASSUME SheetInv, NEW e \in Editors, Saved(e) PROVE SheetInv'
<1> DEFINE d == [live[e] EXCEPT !.version = save[e].version]
           s == Settled(e, d)
           x == Sheet(save[e].version, save[e].content)
           drafts == [live EXCEPT ![e] = s]
<1>1. /\ GoodEditor(life[e], live[e], save[e], load[e]) /\ GoodSave(save[e]) /\ save[e] \in Saves
      /\ live[e] \in Drafts /\ load[e] \in Loads /\ PageOf[e] \in Pages
  BY EditorOf
<1>2. save[e].at = "saved" /\ life[e] # "new"
  BY <1>1 DEF Saved, GoodEditor
<1>3. /\ d \in Drafts /\ d.version = save[e].version /\ d.content = live[e].content
      /\ d.conflict = live[e].conflict
  BY <1>1 DEF Drafts, Saves
<1>4. x \in Sheets /\ x.version = save[e].version /\ x.content = save[e].content
  BY <1>1 DEF Sheets, Saves, Sheet
<1>5. /\ Cached(PageOf[e], x, drafts) /\ save' = [save EXCEPT ![e] = NoSave]
      /\ UNCHANGED <<row, fetched, life, load, made>>
  BY DEF Saved
<1> HIDE DEF d, x
<1>6. GoodSheet(x)
  BY <1>1, <1>2, <1>4 DEF GoodSheet, Whole, GoodSave
<1>7. Open(e) => GoodDraft(d) /\ (load[e].at # "none" => d.conflict)
  BY <1>1, <1>2, <1>3 DEF GoodEditor, GoodDraft, GoodSave, Whole, Open
<1>8. GoodEditor(life[e], s, NoSave, load[e])
  BY <1>1, <1>2, <1>3, <1>7, SettledGood DEF GoodEditor
<1> HIDE DEF s
<1>9. load = [load EXCEPT ![e] = load[e]]
  BY DEF SheetInv, GoodPages
<1>10. GoodPages(cache, fetched, life, drafts, save', load)
  <2>1. GoodPages(cache, fetched, life, [live EXCEPT ![e] = s],
                  [save EXCEPT ![e] = NoSave], [load EXCEPT ![e] = load[e]])
    BY <1>8, OneEditor
  <2> QED BY <1>5, <1>9, <2>1
<1> HIDE DEF drafts
<1>11. GoodPages(cache', fetched, life, live', save', load)
  BY <1>1, <1>5, <1>6, <1>10, CachedGood
<1> QED BY <1>5, <1>11, FrameStep DEF SheetInv

\* A save is over that was not stored: d is the draft with what is told of it.
LEMMA NotSavedStep ==
    ASSUME SheetInv, NEW e \in Editors, save[e].at # "none",
           NEW d \in Drafts, d.version = live[e].version, d.content = live[e].content,
           d.patched = live[e].patched, live[e].conflict => d.conflict,
           NEW r \in Loads, r.at = "read" => GoodSheet(r.sheet),
           Open(e) => (r.at # "none" => d.conflict),
           live' = [live EXCEPT ![e] = Settled(e, d)], save' = [save EXCEPT ![e] = NoSave],
           load' = [load EXCEPT ![e] = r], UNCHANGED <<row, cache, fetched, life, made>>
    PROVE  SheetInv'
<1>1. /\ GoodEditor(life[e], live[e], save[e], load[e]) /\ GoodDraft(live[e])
      /\ life[e] # "new"
  BY EditorOf DEF GoodEditor
<1>2. GoodDraft(d)
  BY <1>1, MarkedGood
<1>3. GoodEditor(life[e], Settled(e, d), NoSave, r)
  BY <1>1, <1>2, SettledGood
<1>4. GoodPages(cache, fetched, life, live', save', load')
  BY <1>3, OneEditor
<1> QED BY <1>4, FrameStep DEF SheetInv

LEMMA ConflictStep == ASSUME SheetInv, NEW e \in Editors, Conflict(e) PROVE SheetInv'
<1> DEFINE d == [live[e] EXCEPT !.conflict = TRUE]
           a == [NoLoad EXCEPT !.at = "asked"]
           r == IF Open(e) THEN a ELSE load[e]
<1>1. /\ GoodEditor(life[e], live[e], save[e], load[e])
      /\ live[e] \in Drafts /\ load[e] \in Loads
  BY EditorOf
<1>2. /\ d \in Drafts /\ d.version = live[e].version /\ d.content = live[e].content
      /\ d.patched = live[e].patched /\ d.conflict
  BY <1>1 DEF Drafts
<1>3. a \in Loads /\ a.at = "asked"
  BY DEF NoLoad, Loads
<1>4. load' = [load EXCEPT ![e] = r]
  BY DEF Conflict, SheetInv, GoodPages
<1>5. /\ live' = [live EXCEPT ![e] = Settled(e, d)] /\ save' = [save EXCEPT ![e] = NoSave]
      /\ UNCHANGED <<row, cache, fetched, life, made>> /\ save[e].at = "conflict"
  BY DEF Conflict
<1> HIDE DEF d, a
<1>6. r \in Loads /\ (r.at = "read" => GoodSheet(r.sheet))
  BY <1>1, <1>3 DEF GoodEditor
<1> HIDE DEF r
<1> QED BY <1>2, <1>4, <1>5, <1>6, NotSavedStep

LEMMA FailedStep ==
    ASSUME SheetInv, NEW e \in Editors, SaveFails(e) \/ SaveRefused(e)
    PROVE  SheetInv'
<1> DEFINE d == [live[e] EXCEPT !.dirty = TRUE]
           f == [live[e] EXCEPT !.dirty = TRUE, !.refused = TRUE]
<1>1. /\ GoodEditor(life[e], live[e], save[e], load[e])
      /\ live[e] \in Drafts /\ load[e] \in Loads
  BY EditorOf
<1>2. /\ d \in Drafts /\ d.version = live[e].version /\ d.content = live[e].content
      /\ d.patched = live[e].patched /\ d.conflict = live[e].conflict
  BY <1>1 DEF Drafts
<1>3. /\ f \in Drafts /\ f.version = live[e].version /\ f.content = live[e].content
      /\ f.patched = live[e].patched /\ f.conflict = live[e].conflict
  BY <1>1 DEF Drafts
<1>4. load = [load EXCEPT ![e] = load[e]]
  BY DEF SheetInv, GoodPages
<1>5. /\ live' = [live EXCEPT ![e] = Settled(e, d)] \/ live' = [live EXCEPT ![e] = Settled(e, f)]
      /\ save' = [save EXCEPT ![e] = NoSave] /\ save[e].at # "none"
      /\ UNCHANGED <<row, cache, fetched, life, load, made>>
  BY DEF SaveFails, SaveRefused
<1> HIDE DEF d, f
<1>6. /\ load[e].at = "read" => GoodSheet(load[e].sheet)
      /\ Open(e) => (load[e].at # "none" => live[e].conflict)
  BY <1>1 DEF GoodEditor, Open
<1>7. CASE live' = [live EXCEPT ![e] = Settled(e, d)]
  BY <1>1, <1>2, <1>4, <1>5, <1>6, <1>7, NotSavedStep
<1>8. CASE live' = [live EXCEPT ![e] = Settled(e, f)]
  BY <1>1, <1>3, <1>4, <1>5, <1>6, <1>8, NotSavedStep
<1> QED BY <1>5, <1>7, <1>8

LEMMA LoadStep == ASSUME SheetInv, NEW e \in Editors, Load(e) PROVE SheetInv'
<1> DEFINE x == Sheet(row.version, row.content)
           a == [at |-> "read", sheet |-> x]
           b == [NoLoad EXCEPT !.at = "failed"]
<1>1. GoodEditor(life[e], live[e], save[e], load[e])
  BY EditorOf
<1>2. GoodSheet(x) /\ x \in Sheets
  BY SheetGood DEF GoodSheet
<1> HIDE DEF x
<1>3. a \in Loads /\ a.at = "read" /\ GoodSheet(a.sheet)
  BY <1>2 DEF Loads
<1>4. b \in Loads /\ b.at = "failed"
  BY DEF NoLoad, Loads
<1>5. /\ load' = [load EXCEPT ![e] = a] \/ load' = [load EXCEPT ![e] = b]
      /\ load[e].at = "asked" /\ UNCHANGED <<row, cache, fetched, life, live, save, made>>
  BY DEF Load, x
<1> HIDE DEF a, b
<1>6. GoodEditor(life[e], live[e], save[e], a) /\ GoodEditor(life[e], live[e], save[e], b)
  BY <1>1, <1>3, <1>4, <1>5 DEF GoodEditor
<1>7. GoodPages(cache, fetched, life, live, save, load')
  BY <1>3, <1>4, <1>5, <1>6 DEF SheetInv, GoodPages
<1> QED BY <1>5, <1>7, FrameStep DEF SheetInv

LEMMA ReloadedStep == ASSUME SheetInv, NEW e \in Editors, Reloaded(e) PROVE SheetInv'
<1> DEFINE x == load[e].sheet
           d == IF Open(e) THEN Adopt(live[e], x) ELSE live[e]
           drafts == IF Open(e) THEN [live EXCEPT ![e] = Adopt(live[e], x)] ELSE live
<1>1. /\ GoodEditor(life[e], live[e], save[e], load[e]) /\ live[e] \in Drafts
      /\ PageOf[e] \in Pages /\ GoodDraft(live[e])
  BY EditorOf
<1>2. GoodSheet(x) /\ load[e].at = "read"
  BY <1>1 DEF Reloaded, GoodEditor
<1>3. /\ Cached(PageOf[e], x, drafts) /\ load' = [load EXCEPT ![e] = NoLoad]
      /\ UNCHANGED <<row, fetched, life, save, made>>
  BY DEF Reloaded
<1>4. /\ drafts = [live EXCEPT ![e] = d] /\ save = [save EXCEPT ![e] = save[e]]
  BY DEF SheetInv, GoodPages
<1>5. GoodEditor(life[e], d, save[e], NoLoad)
  <2>1. CASE Open(e)
    BY <1>1, <1>2, <2>1, AdoptGood, NoLoadTyped DEF GoodEditor, Open
  <2>2. CASE ~Open(e)
    BY <1>1, <1>2, <2>2, NoLoadTyped DEF GoodEditor, Open
  <2> QED BY <2>1, <2>2
<1> HIDE DEF drafts, d, x
<1>6. GoodPages(cache, fetched, life, drafts, save, load')
  <2>1. GoodPages(cache, fetched, life, [live EXCEPT ![e] = d],
                  [save EXCEPT ![e] = save[e]], [load EXCEPT ![e] = NoLoad])
    BY <1>5, OneEditor
  <2> QED BY <1>3, <1>4, <2>1
<1>7. GoodPages(cache', fetched, life, live', save, load')
  BY <1>1, <1>2, <1>3, <1>6, CachedGood
<1> QED BY <1>3, <1>7, FrameStep DEF SheetInv

-----------------------------------------------------------------------------
(* The specification                                                       *)

LEMMA InitSheet == Init => SheetInv
<1> SUFFICES ASSUME Init PROVE SheetInv
  OBVIOUS
<1>1. /\ row \in [version : Nat \ {0}, content : SUBSET Changes]
      /\ row.version = 1 /\ row.content = {} /\ made \subseteq Changes
  BY DEF Init
<1>2. Whole(NoDraft) /\ NoDraft \in Drafts
  BY <1>1 DEF NoDraft, NewDraft, Sheet, Drafts, Whole
<1>3. GoodSave(NoSave) /\ NoSave \in Saves /\ NoSave.at = "none"
  BY <1>1 DEF NoSave, GoodSave, Saves
<1>4. GoodEditor("new", NoDraft, NoSave, NoLoad)
  BY <1>2, <1>3, NoLoadTyped DEF GoodEditor, GoodDraft
<1>5. GoodPages(cache, fetched, life, live, save, load)
  BY <1>2, <1>3, <1>4, NoLoadTyped DEF Init, GoodPages
<1> QED BY <1>1, <1>5 DEF SheetInv

LEMMA NextSheet == SheetInv /\ [Next]_vars => SheetInv'
<1> SUFFICES ASSUME SheetInv, [Next]_vars PROVE SheetInv'
  OBVIOUS
<1>1. CASE UNCHANGED vars
  BY <1>1 DEF vars, SheetInv, GoodPages, GoodEditor, GoodDraft, GoodSave, GoodSheet, Whole
<1>2. ASSUME NEW p \in Pages, Fetch(p) \/ FetchDone(p) PROVE SheetInv'
  BY <1>2, FetchStep, FetchDoneStep
<1>3. ASSUME NEW e \in Editors, Moves(e) PROVE SheetInv'
  BY <1>3, SendNowStep, StoreStep, LoadStep, ReloadedStep, SavedStep, ConflictStep, FailedStep
     DEF Moves
<1>4. ASSUME NEW e \in Editors,
             \/ OpenEditor(e) \/ Flush(e) \/ Retry(e) \/ CloseEditor(e)
             \/ LoseSave(e) \/ RefuseSave(e)
      PROVE  SheetInv'
  BY <1>4, OpenEditorStep, SendNowStep, RetryStep, CloseEditorStep, LoseSaveStep, RefuseSaveStep
<1>5. ASSUME NEW e \in Editors, NEW x \in Changes, Change(e, x) PROVE SheetInv'
  BY <1>5, ChangeStep
<1> QED BY <1>1, <1>2, <1>3, <1>4, <1>5 DEF Next

\* Only the server stores a save, and what it stores has all that was stored
\* before, since it has the version of the row.
LEMMA StoresWhole ==
    ASSUME SheetInv, [Next]_vars, NEW e \in Editors, Stores(e), ~save[e].patched
    PROVE  row.content \subseteq row'.content
<1>1. save[e] \in Saves /\ GoodSave(save[e]) /\ save \in [Editors -> Saves]
  BY EditorOf DEF SheetInv, GoodPages
<1>2. Store(e)
  <2>1. save' # save
    BY DEF Stores
  <2>2. ASSUME NEW o \in Editors, save' = [save EXCEPT ![o] = NoSave] PROVE FALSE
    BY <1>1, <2>2 DEF Stores, NoSave
  <2>3. ASSUME NEW o \in Editors, NEW d, save' = [save EXCEPT ![o] = SaveOf(d)] PROVE FALSE
    BY <1>1, <2>3 DEF Stores, SaveOf
  <2>4. ASSUME NEW o \in Editors, NEW a \in {"conflict", "lost", "refused"},
               save' = [save EXCEPT ![o].at = a]
        PROVE  FALSE
    BY <1>1, <2>4 DEF Stores, Saves
  <2>5. ASSUME NEW o \in Editors, Store(o) PROVE o = e
    BY <1>1, <2>5 DEF Stores, Store, Saves
  <2>6. ASSUME NEW o \in Editors, Moves(o) PROVE Store(e)
    BY <2>1, <2>2, <2>3, <2>5, <2>6
       DEF Moves, TimerFires, Send, Load, Reloaded, Saved, Conflict, SaveFails, SaveRefused
  <2>7. ASSUME NEW o \in Editors,
               \/ OpenEditor(o) \/ Flush(o) \/ Retry(o) \/ CloseEditor(o)
               \/ LoseSave(o) \/ RefuseSave(o)
        PROVE  FALSE
    BY <2>1, <2>3, <2>4, <2>7
       DEF OpenEditor, Flush, Send, Retry, CloseEditor, LoseSave, RefuseSave
  <2> QED BY <2>1, <2>6, <2>7 DEF Next, vars, Fetch, FetchDone, Change
<1>3. save[e].version = row.version /\ row' = [version |-> row.version + 1, content |-> save[e].content]
  BY <1>1, <1>2 DEF Store, Stores, Saves
<1> QED BY <1>1, <1>2, <1>3 DEF GoodSave, Whole, Store

\* A save takes nothing away that was stored before it: updateReferenceSheet
\* refuses any version but the row's, and a draft with that version has all that
\* is in the row, unless a closed editor had left its text in the page's cache.
THEOREM StoredEditsAreKept == Spec => StoredEditsKept
<1>1. Spec => []SheetInv
  BY InitSheet, NextSheet, PTL DEF Spec
<1>2. SheetInv /\ [Next]_vars =>
        [\A e \in Editors :
            Stores(e) /\ ~save[e].patched => row.content \subseteq row'.content]_vars
  BY StoresWhole
<1> QED BY <1>1, <1>2, PTL DEF Spec, StoredEditsKept
=============================================================================
