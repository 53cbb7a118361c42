---------------------------- MODULE ReferenceSheet ----------------------------
(***************************************************************************)
(* A shared sheet of the reference book: the row of the server             *)
(* (reference.service.ts) and the drafts that pages hold of it             *)
(* (useSheetDraft.ts, ReferencePage.tsx). A sheet is saved as a whole,     *)
(* with the version its user has seen. Its content stands for the changes  *)
(* that have gone into it.                                                 *)
(*                                                                         *)
(* A page shows the sheet in an editor; when the user leaves the sheet and *)
(* comes back, that is another editor of the same page. What a page has    *)
(* last read of the sheet is in its cache.                                 *)
(***************************************************************************)
EXTENDS Integers, FiniteSets

CONSTANTS
    Pages,
    Editors,    \* each of them is opened once
    PageOf,     \* the page of an editor
    ChangesOf,  \* the changes the user of a page has to make
    MaxFaults,  \* bound on lost messages and refusals
    MaxWork,    \* bound on the editors opened, the changes made and the faults
    None

Changes == UNION {ChangesOf[p] : p \in Pages}

ASSUME SheetAssumption ==
    /\ PageOf \in [Editors -> Pages]
    /\ DOMAIN ChangesOf = Pages
    /\ \A p, q \in Pages : p # q => ChangesOf[p] \cap ChangesOf[q] = {}
    /\ MaxFaults \in Nat /\ MaxWork \in Nat
    /\ None \notin [version : Nat, content : SUBSET Changes, patched : BOOLEAN]

VARIABLES
    row,      \* the sheet as it is stored
    cache,    \* what a page has last read or written of the sheet
    fetched,  \* an answer to a page's reading on its way
    life,     \* an editor is new, open or closed
    live,     \* the draft of an editor
    save,     \* its save on the way there and back
    load,     \* its reading after a conflict
    made,     \* ghost: the changes made so far
    owed,     \* ghost: changes typed into an editor and neither stored since nor given up
    faults

vars == <<row, cache, fetched, life, live, save, load, made, owed, faults>>

NoSave == [at |-> "none", version |-> 0, content |-> {}, patched |-> FALSE]
NoLoad == [at |-> "none", sheet |-> None]

\* patched: the content was put there by an editor when it was closed
Sheet(version, content) == [version |-> version, content |-> content, patched |-> FALSE]

NewDraft(sheet) ==
    [content |-> sheet.content, version |-> sheet.version, patched |-> sheet.patched,
     dirty |-> FALSE, saving |-> FALSE, conflict |-> FALSE, refused |-> FALSE,
     timer |-> FALSE]

Work == Cardinality(made) + Cardinality({e \in Editors : life[e] # "new"}) + faults

Fault == faults < MaxFaults /\ Work < MaxWork /\ faults' = faults + 1

Open(e) == life[e] = "open"

\* The draft of an editor that is not open matters no more.
NoDraft == NewDraft(Sheet(0, {}))

Draft(e, d) == IF Open(e) THEN d ELSE NoDraft

\* The user has left the editor, or was told to make the edits again.
GivenUp(e) == owed' = {o \in owed : o[1] # e}

-----------------------------------------------------------------------------
\* Mutant: a draft with edits of its own takes over the version alone.
AdoptVersion(d, sheet) ==
    [d EXCEPT !.version = sheet.version, !.conflict = FALSE, !.refused = FALSE]

\* adopt
Adopt(d, sheet) == [NewDraft(sheet) EXCEPT !.saving = d.saving]

\* The effect on a sheet read anew: taken over when nothing is unsaved.
Noticed(d, sheet) ==
    IF sheet.version > d.version /\ ~d.dirty /\ ~d.saving /\ ~d.conflict
    THEN Adopt(d, sheet) ELSE d

\* storeSheet, or the end of a reading: the cache changes, and the editor that
\* is open on it notices. `drafts` are the drafts before it does.
Cached(p, sheet, drafts) ==
    /\ cache' = [cache EXCEPT ![p] = sheet]
    /\ live' = [e \in Editors |->
                  IF PageOf[e] = p /\ Open(e) THEN Noticed(drafts[e], sheet) ELSE drafts[e]]

\* send: the draft after it, and the save on its way
Sends(d) == d.dirty /\ ~d.saving /\ ~d.conflict

SaveOf(d) == [at |-> "sent", version |-> d.version, content |-> d.content,
              patched |-> d.patched]

Sent(d) ==
    IF Sends(d) THEN [d EXCEPT !.timer = FALSE, !.saving = TRUE, !.dirty = FALSE]
    ELSE [d EXCEPT !.timer = FALSE]

Send(e, d) ==
    /\ live' = [live EXCEPT ![e] = Sent(d)]
    /\ save' = IF Sends(d) THEN [save EXCEPT ![e] = SaveOf(d)] ELSE save

\* Mutant: after a save nothing is planned for what was typed meanwhile.
SettledNever(e, d) == Draft(e, [d EXCEPT !.saving = FALSE])

\* The finally of send, for an editor: what is unsaved is planned again.
Settled(e, d) ==
    Draft(e, [d EXCEPT !.saving = FALSE,
                       !.timer = @ \/ (d.dirty /\ ~d.conflict /\ ~d.refused)])

-----------------------------------------------------------------------------
\* SheetHost reads the sheet when it is shown, when the window comes back and
\* when the list has a newer version. A reading that brings nothing new is left
\* out.
Fetch(p) ==
    /\ fetched[p] = None
    /\ cache[p] = None \/ \E e \in Editors : PageOf[e] = p /\ Open(e)
    /\ cache[p] # Sheet(row.version, row.content)
    /\ fetched' = [fetched EXCEPT ![p] = Sheet(row.version, row.content)]
    /\ UNCHANGED <<row, cache, life, live, save, load, made, owed, faults>>

FetchDone(p) ==
    /\ fetched[p] # None
    /\ Cached(p, fetched[p], live)
    /\ fetched' = [fetched EXCEPT ![p] = None]
    /\ UNCHANGED <<row, life, save, load, made, owed, faults>>

OpenEditor(e) ==
    /\ Work < MaxWork /\ life[e] = "new" /\ cache[PageOf[e]] # None
    /\ \A o \in Editors : PageOf[o] = PageOf[e] => ~Open(o)
    /\ life' = [life EXCEPT ![e] = "open"]
    /\ live' = [live EXCEPT ![e] = NewDraft(cache[PageOf[e]])]
    /\ UNCHANGED <<row, cache, fetched, save, load, made, owed, faults>>

\* update
Change(e, x) ==
    /\ Open(e) /\ x \in ChangesOf[PageOf[e]]
    /\ Work < MaxWork /\ x \notin made /\ made' = made \cup {x}
    /\ owed' = owed \cup {<<e, x>>}
    /\ live' = [live EXCEPT ![e].content = @ \cup {x}, ![e].dirty = TRUE,
                             ![e].refused = FALSE, ![e].timer = TRUE]
    /\ UNCHANGED <<row, cache, fetched, life, save, load, faults>>

TimerFires(e) ==
    /\ Open(e) /\ live[e].timer
    /\ Send(e, live[e])
    /\ UNCHANGED <<row, cache, fetched, life, load, made, owed, faults>>

\* flush, on a renaming: the change is followed by a save at once
Flush(e) ==
    /\ Open(e) /\ live[e].dirty
    /\ Send(e, live[e])
    /\ UNCHANGED <<row, cache, fetched, life, load, made, owed, faults>>

\* retry, which is offered after an error
Retry(e) ==
    /\ Open(e) /\ (live[e].refused \/ load[e].at = "failed")
    /\ LET d == [live[e] EXCEPT !.refused = FALSE] IN
       IF d.conflict
       THEN /\ load' = [load EXCEPT ![e] = [NoLoad EXCEPT !.at = "asked"]]
            /\ live' = [live EXCEPT ![e] = d] /\ UNCHANGED save
       ELSE Send(e, d) /\ UNCHANGED load
    /\ UNCHANGED <<row, cache, fetched, life, made, owed, faults>>

\* The editor goes: its text stays in the cache, over whatever version the
\* cache has, and what is unsaved is sent once.
CloseEditor(e) ==
    LET p == PageOf[e] IN
    /\ Open(e)
    /\ life' = [life EXCEPT ![e] = "closed"]
    /\ cache' = IF live[e].dirty /\ ~live[e].conflict
                THEN [cache EXCEPT ![p] = [@ EXCEPT !.content = live[e].content,
                                                    !.patched = TRUE]]
                ELSE cache
    /\ live' = [live EXCEPT ![e] = NoDraft]
    /\ save' = IF Sends(live[e]) THEN [save EXCEPT ![e] = SaveOf(live[e])] ELSE save
    /\ load' = [load EXCEPT ![e] = IF @.at = "failed" THEN NoLoad ELSE @]
    /\ GivenUp(e)
    /\ UNCHANGED <<row, fetched, made, faults>>

-----------------------------------------------------------------------------
\* updateReferenceSheet
Store(e) ==
    /\ save[e].at = "sent"
    /\ IF save[e].version = row.version
       THEN /\ row' = [version |-> row.version + 1, content |-> save[e].content]
            /\ save' = [save EXCEPT ![e].at = "saved", ![e].version = row.version + 1]
            /\ owed' = {o \in owed : o[2] \notin save[e].content}
       ELSE save' = [save EXCEPT ![e].at = "conflict"] /\ UNCHANGED <<row, owed>>
    /\ UNCHANGED <<cache, fetched, life, live, load, made, faults>>

\* The call or its answer is lost, or the server is being restarted.
LoseSave(e) ==
    /\ save[e].at \in {"sent", "saved", "conflict"} /\ Fault
    /\ save' = [save EXCEPT ![e].at = "lost"]
    /\ UNCHANGED <<row, cache, fetched, life, live, load, made, owed>>

\* The server refuses what it is given, and would again.
RefuseSave(e) ==
    /\ save[e].at = "sent" /\ Fault
    /\ save' = [save EXCEPT ![e].at = "refused"]
    /\ UNCHANGED <<row, cache, fetched, life, live, load, made, owed>>

Saved(e) ==
    /\ save[e].at = "saved"
    /\ LET d == [live[e] EXCEPT !.version = save[e].version] IN
       Cached(PageOf[e], Sheet(save[e].version, save[e].content),
              [live EXCEPT ![e] = Settled(e, d)])
    /\ save' = [save EXCEPT ![e] = NoSave]
    /\ UNCHANGED <<row, fetched, life, load, made, owed, faults>>

Conflict(e) ==
    /\ save[e].at = "conflict"
    /\ live' = [live EXCEPT ![e] = Settled(e, [@ EXCEPT !.conflict = TRUE])]
    /\ load' = IF Open(e) THEN [load EXCEPT ![e] = [NoLoad EXCEPT !.at = "asked"]] ELSE load
    /\ save' = [save EXCEPT ![e] = NoSave]
    /\ UNCHANGED <<row, cache, fetched, life, made, owed, faults>>

\* an error that will pass: tried again, more and more slowly
SaveFails(e) ==
    /\ save[e].at = "lost"
    /\ live' = [live EXCEPT ![e] = Settled(e, [@ EXCEPT !.dirty = TRUE])]
    /\ save' = [save EXCEPT ![e] = NoSave]
    /\ UNCHANGED <<row, cache, fetched, life, load, made, owed, faults>>

\* an error that will not: shown, and left to the user
SaveRefused(e) ==
    /\ save[e].at = "refused"
    /\ live' = [live EXCEPT ![e] = Settled(e, [@ EXCEPT !.dirty = TRUE, !.refused = TRUE])]
    /\ save' = [save EXCEPT ![e] = NoSave]
    /\ UNCHANGED <<row, cache, fetched, life, load, made, owed, faults>>

\* reload: the colleague's version in place of one's own edits
Load(e) ==
    /\ load[e].at = "asked"
    /\ \/ load' = [load EXCEPT ![e] = [at |-> "read", sheet |-> Sheet(row.version, row.content)]]
          /\ UNCHANGED faults
       \/ load' = [load EXCEPT ![e] = [NoLoad EXCEPT !.at = "failed"]] /\ Fault
    /\ UNCHANGED <<row, cache, fetched, life, live, save, made, owed>>

Reloaded(e) ==
    LET sheet == load[e].sheet IN
    /\ load[e].at = "read"
    /\ Cached(PageOf[e], sheet,
              IF Open(e) THEN [live EXCEPT ![e] = Adopt(@, sheet)] ELSE live)
    /\ load' = [load EXCEPT ![e] = NoLoad]
    /\ GivenUp(e)
    /\ UNCHANGED <<row, fetched, life, save, made, faults>>

-----------------------------------------------------------------------------
(* The pages that work on one sheet of the reference book at the same time *)

Init ==
    /\ row = [version |-> 1, content |-> {}]
    /\ cache = [p \in Pages |-> None] /\ fetched = [p \in Pages |-> None]
    /\ life = [e \in Editors |-> "new"]
    /\ live = [e \in Editors |-> NoDraft]
    /\ save = [e \in Editors |-> NoSave] /\ load = [e \in Editors |-> NoLoad]
    /\ made = {} /\ owed = {} /\ faults = 0

\* What happens without anybody's doing
Moves(e) ==
    \/ TimerFires(e) \/ Store(e) \/ Load(e) \/ Reloaded(e)
    \/ Saved(e) \/ Conflict(e) \/ SaveFails(e) \/ SaveRefused(e)

Next ==
    \/ \E p \in Pages : Fetch(p) \/ FetchDone(p)
    \/ \E e \in Editors :
        \/ OpenEditor(e) \/ Flush(e) \/ Retry(e) \/ CloseEditor(e)
        \/ LoseSave(e) \/ RefuseSave(e) \/ Moves(e)
        \/ \E x \in Changes : Change(e, x)

Spec == Init /\ [][Next]_vars

\* Timers fire, the server gets to its calls and the pages to their answers,
\* in whatever order. Nothing is asked of the users.
Fairness == WF_vars(\E e \in Editors : Moves(e))

FairSpec == Spec /\ Fairness

-----------------------------------------------------------------------------
Stores(e) == save[e].at = "sent" /\ save'[e].at = "saved"

\* A save takes nothing away that was stored before it ("so that the edits of
\* others do not vanish silently", reference.service.ts): whatever was read
\* late, answered late or lost, a draft with the version of the row has all
\* that is in the row. Left out are drafts that began with a text left behind
\* by an editor that was closed.
StoredEditsKept ==
    [][\A e \in Editors :
        Stores(e) /\ ~save[e].patched => row.content \subseteq row'.content]_vars

\* The same of every draft. It does not hold: the text an editor leaves behind
\* is put under whatever version the cache has by then.
EditsOfOthersKept ==
    [][\A e \in Editors : Stores(e) => row.content \subseteq row'.content]_vars

\* What is typed into an editor is stored in the end, however late the answers
\* are and whatever is lost or overwritten meanwhile. Left out is what the user
\* gave up: by leaving the sheet, or when told that a colleague has changed it.
\* As long as an editor shows that colleague's change or a refusal by the
\* server, it waits for its user.
DraftsSettle ==
    []<>(\A o \in owed : live[o[1]].conflict \/ live[o[1]].refused)

=============================================================================
