---------------------------- MODULE RecordProofs ----------------------------
(***************************************************************************)
(* Proofs about the directories and the photos of a product, for every set *)
(* of calls, companies, units, counterparties and addresses.               *)
(*                                                                         *)
(* A call decides by what it read before its transaction. What the proofs  *)
(* rest on is that this still holds of a call that is not stale, and which *)
(* files the calls under way hold.                                         *)
(***************************************************************************)
EXTENDS Records, FiniteSetTheorems, WellFoundedInduction, TLAPS

\* A call is a record whose fields change one by one.
CallRow(x) ==
    /\ x = [kind |-> x.kind, at |-> x.at, of |-> x.of, ask |-> x.ask,
            saw |-> x.saw, stale |-> x.stale]
    /\ x.stale \in BOOLEAN
    /\ x.at = "idle" => x = Idle

CallsInv ==
    /\ call = [c \in Calls |-> call[c]]
    /\ \A c \in Calls : CallRow(call[c])

-----------------------------------------------------------------------------
\* Settings that were read and are not stale are still the settings.
Settings == [next : Nat, other : {1, 2}]

SettingsInv ==
    /\ settings \in Settings /\ numbers \subseteq Nat
    /\ \A c \in Calls : call[c].kind = "settings" =>
          /\ call[c].at = "write"
          /\ call[c].saw \in Settings
          /\ call[c].ask \in Patches
          /\ ~call[c].stale => CountersGrow(call[c].ask) /\ call[c].saw = settings

\* What a call that is not stale has decided about the mark of the default
\* company is still right.
CompanyCall(c) == call[c].kind \in {"companyCreate", "companyUpdate"}

CompanyInv ==
    /\ company \in [Companies -> [there : BOOLEAN, default : BOOLEAN,
                                  active : BOOLEAN, version : Nat]]
    /\ \A c \in Calls : CompanyCall(c) =>
          LET k == call[c].of
              ask == call[c].ask
              rest == There \ {k} # {}
          IN /\ call[c].at = "write" /\ k \in Companies
             /\ call[c].saw \in BOOLEAN /\ ask.active \in BOOLEAN
             /\ call[c].saw => ask.active
             /\ ~call[c].stale => /\ call[c].saw = (ask.default \/ ~rest)
                                  /\ ~Refused(ask.default, rest, company[k].default)

\* The synonyms a call that is not stale will write are still free.
UnitInv ==
    /\ unit \in [Units -> SUBSET Words]
    /\ \A c \in Calls : call[c].kind = "unit" =>
          /\ call[c].at = "write" /\ call[c].of \in Units /\ call[c].ask \subseteq Words
          /\ ~call[c].stale => call[c].ask \cap Taken(call[c].of) = {}

\* A list has one default at most; what was read as of the version there is
\* still has the counterparties that are active now.
PartyList(list) ==
    /\ DOMAIN list \subseteq Parties
    /\ \A p \in DOMAIN list : list[p].active \in BOOLEAN /\ list[p].default \in BOOLEAN
    /\ \A p, q \in DOMAIN list : list[p].default /\ list[q].default => p = q

ClientInv ==
    /\ client \in Nat
    /\ party \in [Parties -> [there : BOOLEAN, active : BOOLEAN, default : BOOLEAN]]
    /\ \A p \in Parties : party[p].active => party[p].there
    /\ \A c \in Calls : call[c].kind = "client" =>
          LET list == call[c].saw
              ask == call[c].ask
          IN /\ PartyList(list)
             /\ ask.version # None => ask.version \in 1 .. client
             /\ ask.list = None /\ ask.version = client =>
                  \A p \in Parties : party[p].active <=> p \in DOMAIN list /\ list[p].active

OneOffered ==
    \A p, q \in Parties :
        (/\ party[p].active /\ party[p].default
         /\ party[q].active /\ party[q].default) => p = q

-----------------------------------------------------------------------------
\* The names of files: by whom they were stored, and a number of their own
Paths(who) == [by : {who}, n : 1 .. spent]
Uploads(img) == {i \in Rows(img) : img[i].source = "upload"}

ImageRow == [source : Sources, url : Urls \cup {None},
             file : [by : {"upload", "kp"}, n : Nat] \cup {None},
             main : BOOLEAN, order : Nat]

\* Rows are numbered as they are made; a photo has a file of its own.
ImagesInv ==
    /\ image \in [Ids -> ImageRow]
    /\ made \in 0 .. MaxImages /\ Rows(image) \subseteq 1 .. made
    /\ spent \in Nat
    /\ disk \subseteq Paths("upload") \cup Paths("kp")
    /\ \A i \in Uploads(image) : image[i].file \in Paths("upload") \cap disk
    /\ \A i \in Rows(image) \ Uploads(image) :
          image[i].file # None => image[i].file \in Paths("kp") \cap disk
    /\ \A i, j \in Uploads(image) : image[i].file = image[j].file => i = j

\* A file that is being uploaded is nobody else's.
UploadsInv ==
    \A c \in Calls : call[c].kind = "upload" =>
        /\ call[c].at = "write"
        /\ call[c].of \in Paths("upload") \cap disk
        /\ \A d \in Calls : call[d].kind = "upload" /\ call[d].of = call[c].of => d = c
        /\ \A d \in Calls : call[d].kind = "remove" /\ call[d].saw.source = "upload"
                            => call[d].saw.file # call[c].of
        /\ \A i \in Uploads(image) : image[i].file # call[c].of

\* A photo that was read to be removed has still the same file, or it is gone;
\* when its file is to be removed no photo has it.
RemovesInv ==
    \A c \in Calls : call[c].kind = "remove" =>
        LET i == call[c].of
            row == call[c].saw
        IN /\ i \in 1 .. made
           /\ call[c].at \in {"write", "unlink"}
           /\ row.source = "upload" => row.file \in Paths("upload")
           /\ i \in Rows(image) =>
                /\ image[i].source = row.source
                /\ row.source = "upload" => image[i].file = row.file
           /\ call[c].at = "unlink" =>
                row.source = "upload" /\ \A j \in Uploads(image) : image[j].file # row.file

\* A KP stores a file for a photo of a feed only.
KpFilesInv ==
    \A c \in Calls : call[c].kind = "kp" =>
        /\ call[c].of \in 1 .. made
        /\ call[c].of \in Rows(image) => image[call[c].of].source = "feed"
        /\ call[c].ask \in Paths("kp")
        /\ call[c].at = "store" => call[c].ask \in disk

\* What the calls that change rows will write
RowCallsInv ==
    \A c \in Calls :
        /\ call[c].kind = "feed" => call[c].of \in Urls
                                    /\ call[c].ask \in Asks \cup {[main |-> None, order |-> None]}
        /\ call[c].kind = "patch" => call[c].of \in 1 .. made /\ call[c].ask \in Asks
        /\ call[c].kind = "price" =>
              call[c].at = "write" /\ call[c].of \in UrlLists /\ call[c].ask \in BOOLEAN

FilesInv == ImagesInv /\ UploadsInv /\ RemovesInv /\ KpFilesInv /\ RowCallsInv

\* A photo is the main one for all; what a call that is not stale has read of
\* it is still so.
MainInv ==
    crossed \/
    /\ \A i, j \in Marked(image) : i = j
    /\ shown = Synced(image)
    /\ \A c \in Calls : ~call[c].stale =>
          /\ At(c, "remove", "write") =>
               call[c].of \in Rows(image) /\ image[call[c].of].main = call[c].saw.main
          /\ call[c].kind = "price" /\ ~call[c].ask => Rows(image) = {}

-----------------------------------------------------------------------------
(* What a step does to the calls *)

Same(x, y) == /\ x.kind = y.kind /\ x.of = y.of /\ x.ask = y.ask /\ x.saw = y.saw
              /\ x.stale => y.stale

\* The call has ended, or gone on.
Passed(d) ==
    \/ call'[d] = Idle
    \/ /\ Same(call[d], call'[d])
       /\ \/ call'[d].at = call[d].at
          \/ RemoveWrite(d) /\ call'[d].at = "unlink"
          \/ KpSave(d) /\ call'[d].at = "store"

Begun(d) == StartDirectoryCall(d) \/ StartImageCall(d)

\* The calls are as before, but for one that has begun.
LEMMA CallBegins ==
    ASSUME CallsInv, NEW c \in Calls, NEW where, NEW kind, NEW of, NEW ask, NEW saw,
           Begin(c, where, kind, of, ask, saw)
    PROVE  /\ CallsInv'
           /\ call'[c] = [kind |-> kind, at |-> "write", of |-> of,
                          ask |-> ask, saw |-> saw, stale |-> FALSE]
           /\ call'[c].kind = kind /\ call'[c].at = "write" /\ call'[c].of = of
           /\ call'[c].ask = ask /\ call'[c].saw = saw /\ ~call'[c].stale
           /\ \A d \in Calls : d # c => call'[d] = call[d]
<1>1. call'[c] = [kind |-> kind, at |-> "write", of |-> of,
                  ask |-> ask, saw |-> saw, stale |-> FALSE]
  BY DEF CallsInv, Begin
<1>2. CallsInv' /\ \A d \in Calls : d # c => call'[d] = call[d]
  BY <1>1 DEF CallsInv, CallRow, Begin
<1> QED
  BY <1>1, <1>2

LEMMA BegunCalls ==
    ASSUME CallsInv, NEW c \in Calls, Begun(c)
    PROVE  /\ CallsInv'
           /\ call'[c].at = "write" /\ ~call'[c].stale
           /\ \A d \in Calls : d # c => call'[d] = call[d]
           /\ UNCHANGED <<others, image, made, shown, crossed, restarted>>
           /\ spent' = spent + 1
<1>1. ASSUME NEW where, NEW kind, NEW of, NEW ask, NEW saw,
             Begin(c, where, kind, of, ask, saw),
             UNCHANGED <<others, image, made, shown>>
      PROVE  /\ CallsInv'
             /\ call'[c].at = "write" /\ ~call'[c].stale
             /\ \A d \in Calls : d # c => call'[d] = call[d]
             /\ UNCHANGED <<others, image, made, shown, crossed, restarted>>
             /\ spent' = spent + 1
  <2>1. UNCHANGED <<crossed, restarted>> /\ spent' = spent + 1
    BY <1>1 DEF Begin, Spend
  <2>2. /\ CallsInv'
        /\ call'[c] = [kind |-> kind, at |-> "write", of |-> of,
                       ask |-> ask, saw |-> saw, stale |-> FALSE]
        /\ \A d \in Calls : d # c => call'[d] = call[d]
    BY <1>1, CallBegins
  <2> QED
    BY <1>1, <2>1, <2>2
<1>2. CASE StartDirectoryCall(c)
  <2>1. \A patch \in Patches : StartSettings(c, patch) =>
            Begin(c, "numbers", "settings", None, patch, settings)
            /\ UNCHANGED <<others, image, made, shown>>
    BY DEF StartSettings, records, photos, others
  <2>2. \A kind, k, ask : StartCompany(c, kind, k, ask) =>
            (\E saw : Begin(c, "companies", kind, k, ask, saw))
            /\ UNCHANGED <<others, image, made, shown>>
    BY DEF StartCompany, records, photos, others
  <2>3. \A u, words : StartUnit(c, u, words) =>
            Begin(c, "units", "unit", u, words \ {u}, None)
            /\ UNCHANGED <<others, image, made, shown>>
    BY DEF StartUnit, records, photos, others
  <2>4. \A ask : StartClient(c, ask) =>
            (\E list : Begin(c, "clients", "client", None, ask, list))
            /\ UNCHANGED <<others, image, made, shown>>
    BY DEF StartClient, records, photos, others
  <2> QED
    BY <1>1, <1>2, <2>1, <2>2, <2>3, <2>4 DEF StartDirectoryCall
<1>3. CASE StartImageCall(c)
  <2>1. StartUpload(c) =>
            (\E path : Begin(c, "images", "upload", path, None, None))
            /\ UNCHANGED <<others, image, made, shown>>
    BY DEF StartUpload
  <2>2. \A url, ask : StartFeed(c, url, ask) =>
            Begin(c, "images", "feed", url, ask, None)
            /\ UNCHANGED <<others, image, made, shown>>
    BY DEF StartFeed, records, photos, others
  <2>3. \A i, ask : StartPatch(c, i, ask) =>
            Begin(c, "images", "patch", i, ask, None)
            /\ UNCHANGED <<others, image, made, shown>>
    BY DEF StartPatch, records, photos, others
  <2>4. \A i : StartRemove(c, i) =>
            Begin(c, "images", "remove", i, None, image[i])
            /\ UNCHANGED <<others, image, made, shown>>
    BY DEF StartRemove, records, photos, others
  <2>5. \A i : StartKp(c, i) =>
            (\E ask : Begin(c, "images", "kp", i, ask, None))
            /\ UNCHANGED <<others, image, made, shown>>
    BY DEF StartKp, records, photos, others
  <2>6. \A urls, replace : StartPrice(c, urls, replace) =>
            Begin(c, "images", "price", urls, replace, None)
            /\ UNCHANGED <<others, image, made, shown>>
    BY DEF StartPrice, records, photos, others
  <2> QED
    BY <1>1, <1>3, <2>1, <2>2, <2>3, <2>4, <2>5, <2>6 DEF StartImageCall
<1> QED
  BY <1>2, <1>3 DEF Begun

LEMMA IdleRow == CallRow(Idle) /\ Idle.kind = "none" /\ Idle.at = "idle" /\ ~Idle.stale
BY DEF CallRow, Idle

\* Everybody else has now read something old.
LEMMA StaleCall ==
    ASSUME CallsInv, NEW d \in Calls, call'[d] = Stale(d)
    PROVE  /\ CallRow(call'[d]) /\ Same(call[d], call'[d]) /\ call'[d].at = call[d].at
           /\ call'[d].stale <=> call[d].at # "idle"
<1>1. CallRow(call[d])
  BY DEF CallsInv
<1>2. CASE call[d].at = "idle"
  <2>1. call[d] = Idle
    BY <1>1, <1>2 DEF CallRow
  <2>2. Busy(d) = FALSE
    BY <1>2 DEF Busy
  <2>3. call'[d] = [Idle EXCEPT !.stale = FALSE]
    BY <2>1, <2>2 DEF Stale
  <2>4. call'[d] = Idle
    BY <2>3 DEF Idle
  <2> QED
    BY <2>1, <2>4, <1>2, IdleRow DEF Same
<1>3. CASE call[d].at # "idle"
  BY <1>1, <1>3 DEF CallRow, Same, Stale, Busy
<1> QED
  BY <1>2, <1>3

\* What a call writes: others are stale from then on.
LEMMA WritesStale ==
    ASSUME CallsInv, NEW c \in Calls, NEW point \in {"idle", "unlink"}, Wrote(c, point)
    PROVE  /\ CallsInv'
           /\ \A d \in Calls \ {c} : /\ Same(call[d], call'[d]) /\ call'[d].at = call[d].at
                                     /\ call'[d].stale <=> call[d].at # "idle"
           /\ IF point = "idle" THEN call'[c] = Idle
              ELSE Same(call[c], call'[c]) /\ call'[c].at = point
           /\ crossed' = (crossed \/ call[c].stale)
           /\ UNCHANGED <<restarted, spent>>
<1>1. call' = [d \in Calls |-> IF d # c THEN Stale(d)
                               ELSE IF point = "idle" THEN Idle
                               ELSE [call[c] EXCEPT !.at = point]]
  BY DEF Wrote
<1>2. \A d \in Calls \ {c} : call'[d] = Stale(d)
  BY <1>1
<1>3. \A d \in Calls : CallRow(call[d])
  BY DEF CallsInv
<1>4. \A d \in Calls \ {c} : /\ CallRow(call'[d]) /\ Same(call[d], call'[d])
                             /\ call'[d].at = call[d].at
                             /\ call'[d].stale <=> call[d].at # "idle"
  BY <1>2, StaleCall
<1>5. CallRow(call'[c]) /\ IF point = "idle" THEN call'[c] = Idle
                          ELSE Same(call[c], call'[c]) /\ call'[c].at = point
  <2>1. CASE point = "idle"
    BY <1>1, <2>1, IdleRow
  <2>2. CASE point = "unlink"
    <3>1. call'[c] = [call[c] EXCEPT !.at = "unlink"]
      BY <1>1, <2>2
    <3> QED
      BY <3>1, <1>3, <2>2 DEF CallRow, Same
  <2> QED
    BY <2>1, <2>2
<1>6. CallsInv'
  BY <1>1, <1>4, <1>5 DEF CallsInv
<1> QED
  BY <1>4, <1>5, <1>6 DEF Wrote

\* A call ends without having written.
LEMMA CallEnds ==
    ASSUME CallsInv, NEW c \in Calls, End(c)
    PROVE  /\ CallsInv' /\ call'[c] = Idle
           /\ \A d \in Calls \ {c} : call'[d] = call[d]
           /\ UNCHANGED <<crossed, restarted, spent>>
BY IdleRow DEF CallsInv, End

\* A request is created.
LEMMA CreationStales ==
    ASSUME CallsInv, CreateRequest
    PROVE  /\ CallsInv'
           /\ \A d \in Calls : /\ Same(call[d], call'[d]) /\ call'[d].at = call[d].at
                               /\ call'[d].stale <=> call[d].at # "idle"
           /\ UNCHANGED <<crossed, restarted, company, unit, client, party, photos>>
<1>1. call' = [d \in Calls |-> Stale(d)]
  BY DEF CreateRequest, WroteAtOnce
<1>2. \A d \in Calls : /\ CallRow(call'[d]) /\ Same(call[d], call'[d])
                       /\ call'[d].at = call[d].at
                       /\ call'[d].stale <=> call[d].at # "idle"
  BY <1>1, StaleCall
<1>3. CallsInv'
  BY <1>1, <1>2 DEF CallsInv
<1> QED
  BY <1>2, <1>3 DEF CreateRequest, WroteAtOnce

LEMMA KpSaves ==
    ASSUME CallsInv, NEW c \in Calls, KpSave(c)
    PROVE  /\ CallsInv'
           /\ \A d \in Calls \ {c} : call'[d] = call[d]
           /\ \/ call'[c] = Idle
              \/ Same(call[c], call'[c]) /\ call'[c].at = "store"
           /\ UNCHANGED <<others, image, made, shown, crossed, restarted, spent>>
<1>1. CASE call' = [call EXCEPT ![c] = Idle]
  <2>1. CallsInv' /\ call'[c] = Idle /\ \A d \in Calls \ {c} : call'[d] = call[d]
    BY <1>1, IdleRow DEF CallsInv
  <2> QED
    BY <2>1 DEF KpSave
<1>2. CASE call' = [call EXCEPT ![c].at = "store"]
  <2>1. CallRow(call[c])
    BY DEF CallsInv
  <2>2. CallRow(call'[c]) /\ Same(call[c], call'[c]) /\ call'[c].at = "store"
    BY <1>2, <2>1 DEF CallsInv, CallRow, Same
  <2>3. CallsInv' /\ \A d \in Calls \ {c} : call'[d] = call[d]
    BY <1>2, <2>2 DEF CallsInv
  <2> QED
    BY <2>2, <2>3 DEF KpSave
<1> QED
  BY <1>1, <1>2 DEF KpSave

\* Who writes
Writes(c) ==
    \/ SettingsWrite(c) \/ CompanyWrite(c) \/ UnitWrite(c) \/ ClientWrite(c)
    \/ UploadWrite(c) \/ FeedWrite(c) \/ PatchWrite(c) \/ RemoveWrite(c) \/ PriceWrite(c)

Quits(c) == UploadFails(c) \/ RemoveUnlink(c) \/ KpStore(c)

LEMMA NextSteps ==
    ASSUME [Next]_vars
    PROVE  \/ UNCHANGED vars \/ Restart \/ CreateRequest
           \/ \E c \in Calls : Begun(c) \/ Writes(c) \/ Quits(c) \/ KpSave(c)
BY DEF Next, Finished, Begun, Writes, Quits, DirectoryStep, ImageStep

\* A writing call has ended, without or after it wrote, or only its file is left.
LEMMA WritingCalls ==
    ASSUME CallsInv, NEW c \in Calls, Writes(c)
    PROVE  \/ End(c) /\ UNCHANGED <<others, image, made, shown>>
           \/ Wrote(c, "idle")
           \/ RemoveWrite(c) /\ Wrote(c, "unlink")
<1>1. SettingsWrite(c) \/ UnitWrite(c) \/ UploadWrite(c) \/ FeedWrite(c) \/ PriceWrite(c)
        => Wrote(c, "idle")
  BY DEF SettingsWrite, UnitWrite, UploadWrite, FeedWrite, PriceWrite
<1>2. CASE CompanyWrite(c)
  BY <1>2 DEF CompanyWrite, others, photos
<1>3. CASE ClientWrite(c)
  BY <1>3 DEF ClientWrite, others, photos
<1>4. CASE PatchWrite(c)
  BY <1>4 DEF PatchWrite
<1>5. CASE RemoveWrite(c)
  BY <1>5 DEF RemoveWrite
<1> QED
  BY <1>1, <1>2, <1>3, <1>4, <1>5 DEF Writes

LEMMA QuittingCalls ==
    ASSUME NEW c \in Calls, Quits(c)
    PROVE  End(c) /\ UNCHANGED <<others, made, shown>>
BY DEF Quits, UploadFails, RemoveUnlink, KpStore

\* What a step does to the calls
LEMMA CallSteps ==
    ASSUME CallsInv, [Next]_vars
    PROVE  /\ CallsInv'
           /\ \A d \in Calls : Passed(d) \/ Begun(d)
           /\ crossed => crossed'
<1>1. CASE UNCHANGED vars
  BY <1>1 DEF vars, CallsInv, CallRow, Passed, Same
<1>2. CASE Restart
  BY <1>2, IdleRow DEF Restart, CallsInv, Passed
<1>3. CASE CreateRequest
  BY <1>3, CreationStales DEF Passed
<1>4. ASSUME NEW c \in Calls, Begun(c)
      PROVE  /\ CallsInv'
             /\ \A d \in Calls : Passed(d) \/ Begun(d)
             /\ crossed => crossed'
  BY <1>4, BegunCalls DEF Passed, Same
<1>5. ASSUME NEW c \in Calls, Writes(c)
      PROVE  /\ CallsInv'
             /\ \A d \in Calls : Passed(d) \/ Begun(d)
             /\ crossed => crossed'
  <2>1. CASE End(c)
    BY <2>1, CallEnds DEF Passed, Same
  <2>2. CASE Wrote(c, "idle")
    <3>1. /\ CallsInv' /\ call'[c] = Idle
          /\ \A d \in Calls \ {c} : Same(call[d], call'[d]) /\ call'[d].at = call[d].at
          /\ crossed' = (crossed \/ call[c].stale)
      BY <2>2, WritesStale
    <3> QED
      BY <3>1 DEF Passed
  <2>3. CASE RemoveWrite(c) /\ Wrote(c, "unlink")
    <3>1. /\ CallsInv' /\ Same(call[c], call'[c]) /\ call'[c].at = "unlink"
          /\ \A d \in Calls \ {c} : Same(call[d], call'[d]) /\ call'[d].at = call[d].at
          /\ crossed' = (crossed \/ call[c].stale)
      BY <2>3, WritesStale
    <3> QED
      BY <3>1, <2>3 DEF Passed
  <2> QED
    BY <1>5, <2>1, <2>2, <2>3, WritingCalls
<1>6. ASSUME NEW c \in Calls, Quits(c)
      PROVE  /\ CallsInv'
             /\ \A d \in Calls : Passed(d) \/ Begun(d)
             /\ crossed => crossed'
  BY <1>6, QuittingCalls, CallEnds DEF Passed, Same
<1>7. ASSUME NEW c \in Calls, KpSave(c)
      PROVE  /\ CallsInv'
             /\ \A d \in Calls : Passed(d) \/ Begun(d)
             /\ crossed => crossed'
  BY <1>7, KpSaves DEF Passed, Same
<1> QED
  BY <1>1, <1>2, <1>3, <1>4, <1>5, <1>6, <1>7, NextSteps

\* A call that does not become stale has seen no write of another.
LEMMA FreshCalls ==
    ASSUME CallsInv, [Next]_vars, NEW d \in Calls, call'[d].kind # "none",
           call'[d].at # "unlink", ~call'[d].stale
    PROVE  /\ UNCHANGED <<settings, numbers, company, unit, client, party>>
           /\ UNCHANGED image \/ \E c \in Calls : KpStore(c)
<1>1. call'[d] # Idle
  BY IdleRow
<1>2. CASE UNCHANGED vars
  BY <1>2 DEF vars, records, photos
<1>3. CASE Restart
  BY <1>3 DEF Restart, records, photos
<1>4. CASE CreateRequest
  <2>1. call[d].at = "idle"
    BY <1>4, CreationStales
  <2>2. call'[d].kind = "none"
    BY <1>4, <2>1, CreationStales, IdleRow DEF CallsInv, CallRow, Same
  <2> QED
    BY <2>2
<1>5. ASSUME NEW c \in Calls, Begun(c)
      PROVE  UNCHANGED <<settings, numbers, company, unit, client, party, image>>
  BY <1>5, BegunCalls DEF others
<1>6. ASSUME NEW c \in Calls, Writes(c)
      PROVE  UNCHANGED <<settings, numbers, company, unit, client, party, image>>
  <2>1. CASE End(c) /\ UNCHANGED <<others, image, made, shown>>
    BY <2>1 DEF others
  <2>2. ASSUME NEW point \in {"idle", "unlink"}, Wrote(c, point)
        PROVE  FALSE
    <3>1. d # c
      BY <1>1, <2>2, WritesStale
    <3>2. call[d].at = "idle" /\ Same(call[d], call'[d])
      BY <2>2, <3>1, WritesStale
    <3>3. call'[d].kind = "none"
      BY <3>2, IdleRow DEF CallsInv, CallRow, Same
    <3> QED
      BY <3>3
  <2> QED
    BY <1>6, <2>1, <2>2, WritingCalls
<1>7. ASSUME NEW c \in Calls, Quits(c)
      PROVE  /\ UNCHANGED <<settings, numbers, company, unit, client, party>>
             /\ UNCHANGED image \/ KpStore(c)
  BY <1>7 DEF Quits, UploadFails, RemoveUnlink, KpStore, others
<1>8. ASSUME NEW c \in Calls, KpSave(c)
      PROVE  UNCHANGED <<settings, numbers, company, unit, client, party, image>>
  BY <1>8 DEF KpSave, others
<1> QED
  BY <1>2, <1>3, <1>4, <1>5, <1>6, <1>7, <1>8, NextSteps

\* Who writes which record
LEMMA Frames ==
    ASSUME CallsInv, [Next]_vars
    PROVE  /\ UNCHANGED <<settings, numbers>> \/ CreateRequest
              \/ \E c \in Calls : SettingsWrite(c)
           /\ UNCHANGED company \/ \E c \in Calls : CompanyWrite(c)
           /\ UNCHANGED unit \/ \E c \in Calls : UnitWrite(c)
           /\ UNCHANGED <<client, party>> \/ \E c \in Calls : ClientWrite(c)
<1>1. CASE UNCHANGED vars \/ Restart
  BY <1>1 DEF vars, Restart, records
<1>2. CASE CreateRequest
  BY <1>2 DEF CreateRequest
<1>3. ASSUME NEW c \in Calls, Begun(c)
      PROVE  UNCHANGED <<settings, numbers, company, unit, client, party>>
  BY <1>3, BegunCalls DEF others
<1>4. ASSUME NEW c \in Calls, Writes(c)
      PROVE  \/ UNCHANGED <<settings, numbers, company, unit, client, party>>
             \/ SettingsWrite(c) /\ UNCHANGED <<company, unit, client, party>>
             \/ CompanyWrite(c) /\ UNCHANGED <<settings, numbers, unit, client, party>>
             \/ UnitWrite(c) /\ UNCHANGED <<settings, numbers, company, client, party>>
             \/ ClientWrite(c) /\ UNCHANGED <<settings, numbers, company, unit>>
  <2>1. SettingsWrite(c) => UNCHANGED <<company, unit, client, party>>
    BY DEF SettingsWrite
  <2>2. CompanyWrite(c) => UNCHANGED <<settings, numbers, unit, client, party>>
    BY DEF CompanyWrite
  <2>3. UnitWrite(c) => UNCHANGED <<settings, numbers, company, client, party>>
    BY DEF UnitWrite
  <2>4. ClientWrite(c) => UNCHANGED <<settings, numbers, company, unit>>
    BY DEF ClientWrite
  <2>5. UploadWrite(c) \/ FeedWrite(c) \/ PatchWrite(c) \/ RemoveWrite(c) \/ PriceWrite(c)
          => UNCHANGED <<settings, numbers, company, unit, client, party>>
    BY DEF UploadWrite, FeedWrite, PatchWrite, RemoveWrite, PriceWrite, others
  <2> QED
    BY <1>4, <2>1, <2>2, <2>3, <2>4, <2>5 DEF Writes
<1>5. ASSUME NEW c \in Calls, Quits(c) \/ KpSave(c)
      PROVE  UNCHANGED <<settings, numbers, company, unit, client, party>>
  BY <1>5, QuittingCalls DEF KpSave, others
<1> QED
  BY <1>1, <1>2, <1>3, <1>4, <1>5, NextSteps

-----------------------------------------------------------------------------
(* The numbers of requests *)

\* Which call has begun is seen from its kind.
LEMMA BegunAs ==
    ASSUME CallsInv, NEW c \in Calls, Begun(c)
    PROVE  /\ call'[c].kind = "settings" =>
               \E patch \in Patches : StartSettings(c, patch)
           /\ call'[c].kind = "companyCreate" =>
               \E k \in Companies, d, a \in BOOLEAN :
                 StartCompany(c, "companyCreate", k, [default |-> d, active |-> a])
           /\ call'[c].kind = "companyUpdate" =>
               \E k \in Companies, d, a \in BOOLEAN : \E v \in Seen(company[k].version) :
                 StartCompany(c, "companyUpdate", k, [default |-> d, active |-> a, version |-> v])
           /\ call'[c].kind = "unit" =>
               \E u \in Units, words \in SUBSET Words : StartUnit(c, u, words)
           /\ call'[c].kind = "client" =>
               \E list \in Lists \cup {None}, v \in Seen(client) :
                 StartClient(c, [list |-> list, version |-> v])
           /\ call'[c].kind = "upload" =>
               StartUpload(c)
           /\ call'[c].kind = "feed" =>
               \E url \in Urls, ask \in Asks \cup {[main |-> None, order |-> None]} :
                 StartFeed(c, url, ask)
           /\ call'[c].kind = "patch" =>
               \E i \in Ids, ask \in Asks : StartPatch(c, i, ask)
           /\ call'[c].kind = "remove" =>
               \E i \in Ids : StartRemove(c, i)
           /\ call'[c].kind = "kp" =>
               \E i \in Ids : StartKp(c, i)
           /\ call'[c].kind = "price" =>
               \E urls \in UrlLists, replace \in BOOLEAN : StartPrice(c, urls, replace)
<1> DEFINE SettingsBegins == \E patch \in Patches : StartSettings(c, patch)
           CreateBegins == \E k \in Companies, d, a \in BOOLEAN :
               StartCompany(c, "companyCreate", k, [default |-> d, active |-> a])
           UpdateBegins == \E k \in Companies, d, a \in BOOLEAN : \E v \in Seen(company[k].version) :
               StartCompany(c, "companyUpdate", k, [default |-> d, active |-> a, version |-> v])
           UnitBegins == \E u \in Units, words \in SUBSET Words : StartUnit(c, u, words)
           ClientBegins == \E list \in Lists \cup {None}, v \in Seen(client) :
               StartClient(c, [list |-> list, version |-> v])
           UploadBegins == StartUpload(c)
           FeedBegins == \E url \in Urls, ask \in Asks \cup {[main |-> None, order |-> None]} :
               StartFeed(c, url, ask)
           PatchBegins == \E i \in Ids, ask \in Asks : StartPatch(c, i, ask)
           RemoveBegins == \E i \in Ids : StartRemove(c, i)
           KpBegins == \E i \in Ids : StartKp(c, i)
           PriceBegins == \E urls \in UrlLists, replace \in BOOLEAN : StartPrice(c, urls, replace)
<1>1. ASSUME NEW where, NEW kind, NEW of, NEW ask, NEW saw, Begin(c, where, kind, of, ask, saw)
      PROVE  call'[c].kind = kind
  <2>1. call'[c] = [kind |-> kind, at |-> "write", of |-> of,
                    ask |-> ask, saw |-> saw, stale |-> FALSE]
    BY <1>1, CallBegins
  <2> QED
    BY <2>1
<1>2. \A patch : StartSettings(c, patch) => call'[c].kind = "settings"
  BY <1>1 DEF StartSettings
<1>3. \A kind, k, ask : StartCompany(c, kind, k, ask) => call'[c].kind = kind
  BY <1>1 DEF StartCompany
<1>4. \A u, words : StartUnit(c, u, words) => call'[c].kind = "unit"
  BY <1>1 DEF StartUnit
<1>5. \A ask : StartClient(c, ask) => call'[c].kind = "client"
  BY <1>1 DEF StartClient
<1>6. ASSUME StartDirectoryCall(c)
      PROVE  \/ call'[c].kind = "settings" /\ SettingsBegins
             \/ call'[c].kind = "companyCreate" /\ CreateBegins
             \/ call'[c].kind = "companyUpdate" /\ UpdateBegins
             \/ call'[c].kind = "unit" /\ UnitBegins
             \/ call'[c].kind = "client" /\ ClientBegins
  <2>1. CASE \E patch \in Patches : StartSettings(c, patch)
    BY <1>2, <2>1
  <2>2. ASSUME NEW k \in Companies, NEW d \in BOOLEAN, NEW a \in BOOLEAN,
               StartCompany(c, "companyCreate", k, [default |-> d, active |-> a])
        PROVE  call'[c].kind = "companyCreate"
    BY <1>3, <2>2
  <2>3. ASSUME NEW k \in Companies, NEW d \in BOOLEAN, NEW a \in BOOLEAN,
               NEW v \in Seen(company[k].version),
               StartCompany(c, "companyUpdate", k,
                            [default |-> d, active |-> a, version |-> v])
        PROVE  call'[c].kind = "companyUpdate"
    BY <1>3, <2>3
  <2>4. CASE \E u \in Units, words \in SUBSET Words : StartUnit(c, u, words)
    BY <1>4, <2>4
  <2>5. CASE \E list \in Lists \cup {None}, v \in Seen(client) :
                StartClient(c, [list |-> list, version |-> v])
    BY <1>5, <2>5
  <2> QED
    BY <1>6, <2>1, <2>2, <2>3, <2>4, <2>5 DEF StartDirectoryCall
<1>7. ASSUME StartImageCall(c)
      PROVE  \/ call'[c].kind = "upload" /\ UploadBegins
             \/ call'[c].kind = "feed" /\ FeedBegins
             \/ call'[c].kind = "patch" /\ PatchBegins
             \/ call'[c].kind = "remove" /\ RemoveBegins
             \/ call'[c].kind = "kp" /\ KpBegins
             \/ call'[c].kind = "price" /\ PriceBegins
  <2>1. StartUpload(c) => call'[c].kind = "upload"
    BY <1>1 DEF StartUpload
  <2>2. \A url, ask : StartFeed(c, url, ask) => call'[c].kind = "feed"
    BY <1>1 DEF StartFeed
  <2>3. \A i, ask : StartPatch(c, i, ask) => call'[c].kind = "patch"
    BY <1>1 DEF StartPatch
  <2>4. \A i : StartRemove(c, i) => call'[c].kind = "remove"
    BY <1>1 DEF StartRemove
  <2>5. \A i : StartKp(c, i) => call'[c].kind = "kp"
    BY <1>1 DEF StartKp
  <2>6. \A urls, replace : StartPrice(c, urls, replace) => call'[c].kind = "price"
    BY <1>1 DEF StartPrice
  <2> QED
    BY <1>7, <2>1, <2>2, <2>3, <2>4, <2>5, <2>6 DEF StartImageCall
<1>8. \/ call'[c].kind = "settings" /\ SettingsBegins
      \/ call'[c].kind = "companyCreate" /\ CreateBegins
      \/ call'[c].kind = "companyUpdate" /\ UpdateBegins
      \/ call'[c].kind = "unit" /\ UnitBegins
      \/ call'[c].kind = "client" /\ ClientBegins
      \/ call'[c].kind = "upload" /\ UploadBegins
      \/ call'[c].kind = "feed" /\ FeedBegins
      \/ call'[c].kind = "patch" /\ PatchBegins
      \/ call'[c].kind = "remove" /\ RemoveBegins
      \/ call'[c].kind = "kp" /\ KpBegins
      \/ call'[c].kind = "price" /\ PriceBegins
  <2>1. CASE StartDirectoryCall(c)
    BY <1>6, <2>1
  <2>2. CASE StartImageCall(c)
    BY <1>7, <2>2
  <2> QED
    BY <2>1, <2>2 DEF Begun
<1> HIDE DEF SettingsBegins, CreateBegins, UpdateBegins, UnitBegins, ClientBegins, UploadBegins, FeedBegins, PatchBegins, RemoveBegins, KpBegins, PriceBegins
<1>9. /\ call'[c].kind = "settings" => SettingsBegins
      /\ call'[c].kind = "companyCreate" => CreateBegins
      /\ call'[c].kind = "companyUpdate" => UpdateBegins
      /\ call'[c].kind = "unit" => UnitBegins
      /\ call'[c].kind = "client" => ClientBegins
      /\ call'[c].kind = "upload" => UploadBegins
      /\ call'[c].kind = "feed" => FeedBegins
      /\ call'[c].kind = "patch" => PatchBegins
      /\ call'[c].kind = "remove" => RemoveBegins
      /\ call'[c].kind = "kp" => KpBegins
      /\ call'[c].kind = "price" => PriceBegins
  BY <1>8
<1> QED
  BY <1>9 DEF SettingsBegins, CreateBegins, UpdateBegins, UnitBegins, ClientBegins, UploadBegins, FeedBegins, PatchBegins, RemoveBegins, KpBegins, PriceBegins

LEMMA PatchFields ==
    ASSUME NEW patch \in Patches
    PROVE  /\ patch.next = None \/ patch.next \in Nat
           /\ patch.other = None \/ patch.other \in {1, 2}
<1>1. MaxCalls["numbers"] + 1 \in Nat
  BY BoundsAssumption DEF AllAreas
<1>2. 1 .. MaxCalls["numbers"] + 1 \subseteq Nat
  BY <1>1
<1> HIDE <1>1
<1> QED
  BY <1>2 DEF Patches

LEMMA SettingsStep ==
    ASSUME CallsInv, SettingsInv, [Next]_vars
    PROVE  SettingsInv'
<1>1. settings' \in Settings /\ numbers' \subseteq Nat
  <2>1. CASE UNCHANGED <<settings, numbers>>
    BY <2>1 DEF SettingsInv
  <2>2. CASE CreateRequest
    BY <2>2 DEF SettingsInv, CreateRequest, Settings
  <2>3. ASSUME NEW c \in Calls, SettingsWrite(c)
        PROVE  settings' \in Settings /\ numbers' \subseteq Nat
    <3>1. call[c].saw \in Settings /\ call[c].ask \in Patches
      BY <2>3 DEF SettingsInv, SettingsWrite, At
    <3> DEFINE next == IF call[c].ask["next"] = None THEN call[c].saw["next"] ELSE call[c].ask["next"]
               other == IF call[c].ask["other"] = None THEN call[c].saw["other"] ELSE call[c].ask["other"]
    <3>2. next \in Nat /\ other \in {1, 2}
      BY <3>1, PatchFields DEF Settings
    <3>3. settings' = [f \in {"next", "other"} |-> IF f = "next" THEN next ELSE other]
      BY <2>3 DEF SettingsWrite
    <3> HIDE DEF next, other
    <3>4. settings' \in Settings
      BY <3>2, <3>3 DEF Settings
    <3> QED
      BY <2>3, <3>4 DEF SettingsInv, SettingsWrite
  <2> QED
    BY <2>1, <2>2, <2>3, Frames
<1>2. ASSUME NEW d \in Calls, call'[d].kind = "settings"
      PROVE  /\ call'[d].at = "write" /\ call'[d].saw \in Settings /\ call'[d].ask \in Patches
             /\ ~call'[d].stale =>
                  /\ call'[d].ask.next # None => call'[d].ask.next >= settings'.next
                  /\ call'[d].saw = settings'
  <2>1. CASE Begun(d)
    <3>1. PICK patch \in Patches : StartSettings(d, patch)
      BY <1>2, <2>1, BegunAs
    <3>2. call'[d] = [kind |-> "settings", at |-> "write", of |-> None, ask |-> patch,
                      saw |-> settings, stale |-> FALSE]
      BY <3>1, CallBegins DEF StartSettings
    <3>3. UNCHANGED settings
      BY <3>1 DEF StartSettings, records
    <3> QED
      BY <3>1, <3>2, <3>3 DEF SettingsInv, StartSettings, CountersGrow
  <2>2. CASE Passed(d)
    <3>1. call'[d] # Idle
      BY <1>2, IdleRow
    <3>2. Same(call[d], call'[d]) /\ call[d].kind = "settings"
      BY <1>2, <2>2, <3>1 DEF Passed, Same
    <3>3. call'[d].at = "write"
      BY <2>2, <3>1, <3>2 DEF Passed, RemoveWrite, KpSave, At, SettingsInv
    <3>4. call'[d].saw \in Settings /\ call'[d].ask \in Patches
      BY <3>2 DEF SettingsInv, Same
    <3>5. ASSUME ~call'[d].stale
          PROVE  /\ call'[d].ask.next # None => call'[d].ask.next >= settings'.next
                 /\ call'[d].saw = settings'
      <4>1. UNCHANGED settings
        BY <1>2, <3>3, <3>5, FreshCalls
      <4> QED
        BY <3>2, <3>5, <4>1 DEF SettingsInv, Same, CountersGrow
    <3> QED
      BY <3>3, <3>4, <3>5
  <2> QED
    BY <2>1, <2>2, CallSteps
<1> QED
  BY <1>1, <1>2 DEF SettingsInv, CountersGrow

LEMMA NumbersStep ==
    ASSUME CallsInv, SettingsInv, NextNumberFree, [Next]_vars
    PROVE  NextNumberFree'
<1> SUFFICES ASSUME ~crossed', NEW n \in numbers'
             PROVE  n < settings'.next
  BY DEF NextNumberFree
<1>1. ~crossed /\ \A m \in numbers : m < settings.next
  BY CallSteps DEF NextNumberFree
<1>2. CASE UNCHANGED <<settings, numbers>>
  BY <1>1, <1>2
<1>3. CASE CreateRequest
  <2>1. settings.next \notin numbers
    BY <1>1 DEF SettingsInv, Settings
  <2>2. settings'.next = settings.next + 1 /\ numbers' = numbers \cup {settings.next}
    BY <1>3, <2>1 DEF CreateRequest, SettingsInv, Settings
  <2> QED
    BY <1>1, <2>2 DEF SettingsInv, Settings
<1>4. ASSUME NEW c \in Calls, SettingsWrite(c)
      PROVE  n < settings'.next
  <2>1. Wrote(c, "idle") /\ call[c].kind = "settings" /\ numbers' = numbers
    BY <1>4 DEF SettingsWrite, At
  <2>2. ~call[c].stale
    BY <2>1, WritesStale
  <2>3. call[c].saw = settings /\ call[c].ask \in Patches /\ CountersGrow(call[c].ask)
    BY <2>1, <2>2 DEF SettingsInv
  <2>4. settings'.next = IF call[c].ask.next = None THEN settings.next ELSE call[c].ask.next
    BY <1>4, <2>3 DEF SettingsWrite
  <2>5. settings.next \in Nat /\ settings'.next \in Nat /\ settings'.next >= settings.next
    BY <2>3, <2>4, PatchFields DEF CountersGrow, SettingsInv, Settings
  <2> QED
    BY <1>1, <2>1, <2>5 DEF SettingsInv
<1> QED
  BY <1>2, <1>3, <1>4, Frames

-----------------------------------------------------------------------------
(* Own companies *)

LEMMA CompanyStep ==
    ASSUME CallsInv, CompanyInv, [Next]_vars
    PROVE  CompanyInv'
<1> DEFINE CompanyRow == [there : BOOLEAN, default : BOOLEAN, active : BOOLEAN, version : Nat]
<1>1. company' \in [Companies -> CompanyRow]
  <2>1. CASE UNCHANGED company
    BY <2>1 DEF CompanyInv
  <2>2. ASSUME NEW c \in Calls, CompanyWrite(c)
        PROVE  company' \in [Companies -> CompanyRow]
    <3> DEFINE k == call[c].of
               new == [there |-> TRUE, default |-> call[c].saw, active |-> call[c].ask.active,
                       version |-> company[k].version + 1]
               base == IF call[c].saw THEN Unmarked(k) ELSE company
    <3>1. company \in [Companies -> CompanyRow]
      BY DEF CompanyInv
    <3>2. k \in Companies /\ call[c].saw \in BOOLEAN /\ call[c].ask.active \in BOOLEAN
      BY <2>2 DEF CompanyInv, CompanyWrite, CompanyCall
    <3>3. new \in CompanyRow
      BY <3>1, <3>2
    <3>4. Unmarked(k) \in [Companies -> CompanyRow]
      BY <3>1 DEF Unmarked
    <3>5. company' = company \/ company' = [base EXCEPT ![k] = new]
      BY <2>2 DEF CompanyWrite
    <3>6. base \in [Companies -> CompanyRow]
      BY <3>1, <3>4
    <3> HIDE DEF new, base, k, CompanyRow
    <3> QED
      BY <3>1, <3>3, <3>5, <3>6
  <2> QED
    BY <2>1, <2>2, Frames
<1> DEFINE Agrees(d, k, ask, rest) ==
              /\ call'[d].at = "write" /\ k \in Companies
              /\ call'[d].saw \in BOOLEAN /\ ask.active \in BOOLEAN
              /\ call'[d].saw => ask.active
              /\ ~call'[d].stale => /\ call'[d].saw = (ask.default \/ ~rest)
                                    /\ ~Refused(ask.default, rest, company'[k].default)
<1>2. ASSUME NEW d \in Calls, NEW kind, NEW k \in Companies, NEW ask,
             StartCompany(d, kind, k, ask), ask.active \in BOOLEAN, ask.default \in BOOLEAN
      PROVE  Agrees(d, call'[d].of, call'[d].ask,
                    {j \in Companies : company'[j].there} \ {call'[d].of} # {})
  <2> DEFINE rest == There \ {k} # {}
             default == ask.default \/ ~rest
  <2>1. call'[d] = [kind |-> kind, at |-> "write", of |-> k, ask |-> ask,
                    saw |-> default, stale |-> FALSE]
    BY <1>2, CallBegins DEF StartCompany
  <2>2. UNCHANGED company
    BY <1>2 DEF StartCompany, records
  <2>3. default \in BOOLEAN /\ default => ask.active
    BY <1>2 DEF StartCompany
  <2>4. ~Refused(ask.default, rest, company[k].default)
    BY <1>2 DEF StartCompany
  <2>5. {j \in Companies : company'[j].there} \ {k} # {} <=> rest
    BY <2>2 DEF There
  <2> QED
    BY <1>2, <2>1, <2>2, <2>3, <2>4, <2>5 DEF Refused
<1>3. ASSUME NEW d \in Calls, CompanyCall(d)'
      PROVE  Agrees(d, call'[d].of, call'[d].ask,
                    {j \in Companies : company'[j].there} \ {call'[d].of} # {})
  <2>1. CASE Begun(d)
    <3>1. CASE call'[d].kind = "companyCreate"
      <4>1. PICK k \in Companies, b, a \in BOOLEAN :
               StartCompany(d, "companyCreate", k, [default |-> b, active |-> a])
        BY <2>1, <3>1, BegunAs
      <4> QED
        BY <1>2, <4>1
    <3>2. CASE call'[d].kind = "companyUpdate"
      <4>1. PICK k \in Companies, b, a \in BOOLEAN : \E v \in Seen(company[k].version) :
               StartCompany(d, "companyUpdate", k, [default |-> b, active |-> a, version |-> v])
        BY <2>1, <3>2, BegunAs
      <4> QED
        BY <1>2, <4>1
    <3> QED
      BY <1>3, <3>1, <3>2 DEF CompanyCall
  <2>2. CASE Passed(d)
    <3>1. call'[d] # Idle
      BY <1>3, IdleRow DEF CompanyCall
    <3>2. Same(call[d], call'[d]) /\ CompanyCall(d)
      BY <1>3, <2>2, <3>1 DEF Passed, Same, CompanyCall
    <3>3. call'[d].at = "write"
      BY <2>2, <3>1, <3>2 DEF Passed, RemoveWrite, KpSave, At, CompanyInv, CompanyCall
    <3>4. /\ call'[d].of \in Companies /\ call'[d].saw \in BOOLEAN
          /\ call'[d].ask.active \in BOOLEAN /\ call'[d].saw => call'[d].ask.active
      BY <3>2 DEF CompanyInv, Same
    <3>5. ~call'[d].stale => UNCHANGED company
      BY <1>3, <3>3, FreshCalls DEF CompanyCall
    <3> QED
      BY <3>2, <3>3, <3>4, <3>5 DEF CompanyInv, Same, There
  <2> QED
    BY <2>1, <2>2, CallSteps
<1> QED
  BY <1>1, <1>3 DEF CompanyInv, There

LEMMA DefaultStep ==
    ASSUME CallsInv, CompanyInv, OneDefaultCompany, [Next]_vars
    PROVE  OneDefaultCompany'
<1> SUFFICES ASSUME ~crossed', There' # {}
             PROVE  \E m \in There' : /\ company'[m].active
                                      /\ {j \in There' : company'[j].default} = {m}
  BY DEF OneDefaultCompany
<1>1. /\ ~crossed
      /\ There = {} \/ \E m \in There : /\ company[m].active
                                       /\ {j \in There : company[j].default} = {m}
  BY CallSteps DEF OneDefaultCompany
<1>2. CASE UNCHANGED company
  BY <1>1, <1>2 DEF There
<1>3. ASSUME NEW c \in Calls, CompanyWrite(c), company' # company
      PROVE  \E m \in There' : /\ company'[m].active
                               /\ {j \in There' : company'[j].default} = {m}
  <2> DEFINE k == call[c].of
             ask == call[c].ask
             rest == There \ {k} # {}
             new == [there |-> TRUE, default |-> call[c].saw, active |-> ask.active,
                     version |-> company[k].version + 1]
  <2>1. CompanyCall(c) /\ Wrote(c, "idle")
    BY <1>3 DEF CompanyWrite, CompanyCall
  <2>2. ~call[c].stale
    BY <2>1, WritesStale
  <2>3. /\ k \in Companies /\ call[c].saw \in BOOLEAN /\ ask.active \in BOOLEAN
        /\ call[c].saw => ask.active
        /\ call[c].saw = (ask.default \/ ~rest)
        /\ ~Refused(ask.default, rest, company[k].default)
    BY <2>1, <2>2 DEF CompanyInv
  <2>4. company' = [(IF call[c].saw THEN Unmarked(k) ELSE company) EXCEPT ![k] = new]
    BY <1>3 DEF CompanyWrite
  <2>5. company \in [Companies -> [there : BOOLEAN, default : BOOLEAN,
                                   active : BOOLEAN, version : Nat]]
    BY DEF CompanyInv
  <2>6. CASE call[c].saw
    <3>1. company' = [Unmarked(k) EXCEPT ![k] = new]
      BY <2>4, <2>6
    <3>2. company'[k] = new /\ \A j \in Companies \ {k} : ~company'[j].default
      BY <2>3, <2>5, <3>1 DEF Unmarked
    <3>3. k \in There'
      BY <2>3, <3>2 DEF There
    <3>4. company'[k].active /\ {j \in There' : company'[j].default} = {k}
      BY <2>3, <2>6, <3>2, <3>3 DEF There
    <3> QED
      BY <3>3, <3>4
  <2>7. CASE ~call[c].saw
    <3>1. company' = [company EXCEPT ![k] = new]
      BY <2>4, <2>7
    <3>2. rest /\ ~ask.default /\ ~company[k].default
      BY <2>3, <2>7 DEF Refused
    <3>3. PICK m \in There : company[m].active /\ {j \in There : company[j].default} = {m}
      BY <1>1, <3>2
    <3>4. m # k /\ m \in Companies
      BY <3>2, <3>3 DEF There
    <3>5. company'[k] = new /\ \A j \in Companies \ {k} : company'[j] = company[j]
      BY <2>3, <2>5, <3>1
    <3>6. ~company'[k].default
      BY <2>7, <3>5
    <3>7. m \in There' /\ company'[m].active
      BY <3>3, <3>4, <3>5 DEF There
    <3>8. \A j \in There' : company'[j].default <=> j = m
      BY <3>3, <3>4, <3>5, <3>6 DEF There
    <3>9. {j \in There' : company'[j].default} = {m}
      BY <3>7, <3>8
    <3> QED
      BY <3>7, <3>9
  <2> QED
    BY <2>3, <2>6, <2>7
<1> QED
  BY <1>2, <1>3, Frames

-----------------------------------------------------------------------------
(* Units *)

LEMMA UnitStep ==
    ASSUME CallsInv, UnitInv, [Next]_vars
    PROVE  UnitInv'
<1>1. unit' \in [Units -> SUBSET Words]
  <2>1. CASE UNCHANGED unit
    BY <2>1 DEF UnitInv
  <2>2. ASSUME NEW c \in Calls, UnitWrite(c)
        PROVE  unit' \in [Units -> SUBSET Words]
    BY <2>2 DEF UnitInv, UnitWrite, At
  <2> QED
    BY <2>1, <2>2, Frames
<1>2. ASSUME NEW d \in Calls, call'[d].kind = "unit"
      PROVE  /\ call'[d].at = "write" /\ call'[d].of \in Units /\ call'[d].ask \subseteq Words
             /\ ~call'[d].stale =>
                  call'[d].ask \cap ((Units \ {call'[d].of})
                                     \cup UNION {unit'[v] : v \in Units \ {call'[d].of}}) = {}
  <2>1. CASE Begun(d)
    <3>1. PICK u \in Units, words \in SUBSET Words : StartUnit(d, u, words)
      BY <1>2, <2>1, BegunAs
    <3>2. call'[d] = [kind |-> "unit", at |-> "write", of |-> u, ask |-> words \ {u},
                      saw |-> None, stale |-> FALSE]
      BY <3>1, CallBegins DEF StartUnit
    <3>3. UNCHANGED unit
      BY <3>1 DEF StartUnit, records
    <3> QED
      BY <3>1, <3>2, <3>3 DEF StartUnit, Taken
  <2>2. CASE Passed(d)
    <3>1. call'[d] # Idle
      BY <1>2, IdleRow
    <3>2. Same(call[d], call'[d]) /\ call[d].kind = "unit"
      BY <1>2, <2>2, <3>1 DEF Passed, Same
    <3>3. call'[d].at = "write"
      BY <2>2, <3>1, <3>2 DEF Passed, RemoveWrite, KpSave, At, UnitInv
    <3>4. ~call'[d].stale => UNCHANGED unit
      BY <1>2, <3>3, FreshCalls
    <3> QED
      BY <3>2, <3>3, <3>4 DEF UnitInv, Same, Taken
  <2> QED
    BY <2>1, <2>2, CallSteps
<1> QED
  BY <1>1, <1>2 DEF UnitInv, Taken

LEMMA WordsStep ==
    ASSUME CallsInv, UnitInv, WordsApart, [Next]_vars
    PROVE  WordsApart'
<1> SUFFICES ASSUME ~crossed', NEW u \in Units, NEW v \in Units, u # v
             PROVE  ({u} \cup unit'[u]) \cap ({v} \cup unit'[v]) = {}
  BY DEF WordsApart
<1>1. /\ ~crossed
      /\ \A x, y \in Units : x # y => ({x} \cup unit[x]) \cap ({y} \cup unit[y]) = {}
  BY CallSteps DEF WordsApart
<1>2. CASE UNCHANGED unit
  BY <1>1, <1>2
<1>3. ASSUME NEW c \in Calls, UnitWrite(c)
      PROVE  ({u} \cup unit'[u]) \cap ({v} \cup unit'[v]) = {}
  <2> DEFINE w == call[c].of
             ask == call[c].ask
  <2>1. call[c].kind = "unit" /\ Wrote(c, "idle") /\ unit' = [unit EXCEPT ![w] = ask]
    BY <1>3 DEF UnitWrite, At
  <2>2. ~call[c].stale
    BY <2>1, WritesStale
  <2>3. w \in Units /\ ask \cap Taken(w) = {}
    BY <2>1, <2>2 DEF UnitInv
  <2>4. unit'[w] = ask /\ \A x \in Units \ {w} : unit'[x] = unit[x]
    BY <2>1, <2>3 DEF UnitInv
  <2>5. ASSUME NEW x \in Units \ {w}
        PROVE  ({w} \cup ask) \cap ({x} \cup unit[x]) = {}
    <3>1. x \in Taken(w) /\ unit[x] \subseteq Taken(w)
      BY DEF Taken
    <3> QED
      BY <1>1, <2>3, <3>1
  <2> HIDE DEF w, ask
  <2>6. CASE u = w
    BY <2>4, <2>5, <2>6
  <2>7. CASE v = w
    BY <2>4, <2>5, <2>7
  <2>8. CASE u # w /\ v # w
    BY <1>1, <2>4, <2>8
  <2> QED
    BY <2>6, <2>7, <2>8
<1> QED
  BY <1>2, <1>3, Frames

-----------------------------------------------------------------------------
(* A client's counterparties *)

\* Whatever list a default is chosen for, it has one at most.
LEMMA OneDefault ==
    ASSUME NEW list, DOMAIN list \subseteq Parties,
           \A p \in DOMAIN list : list[p] \in [active : BOOLEAN, default : BOOLEAN],
           NEW one \in SingleDefault(list)
    PROVE  /\ PartyList(one) /\ DOMAIN one = DOMAIN list
           /\ \A p \in DOMAIN list : one[p].active = list[p].active
<1> DEFINE marked == {p \in DOMAIN list : list[p].default}
           from == IF marked = {} THEN DOMAIN list ELSE marked
<1>1. CASE \E d \in from : one = [p \in DOMAIN list |-> [list[p] EXCEPT !.default = (p = d)]]
  <2>1. PICK d \in from : one = [p \in DOMAIN list |-> [list[p] EXCEPT !.default = (p = d)]]
    BY <1>1
  <2>2. DOMAIN one = DOMAIN list
    BY <2>1
  <2>3. ASSUME NEW p \in DOMAIN list
        PROVE  /\ one[p].active = list[p].active /\ one[p].active \in BOOLEAN
               /\ one[p].default = (p = d)
    BY <2>1
  <2> QED
    BY <2>2, <2>3 DEF PartyList
<1>2. CASE from = {} /\ one = list
  BY <1>2 DEF PartyList
<1> QED
  BY <1>1, <1>2 DEF SingleDefault

LEMMA ClientTypes ==
    ASSUME CallsInv, ClientInv, [Next]_vars
    PROVE  /\ client' \in Nat /\ client <= client'
           /\ party' \in [Parties -> [there : BOOLEAN, active : BOOLEAN, default : BOOLEAN]]
           /\ \A p \in Parties : party'[p].active => party'[p].there
           /\ client' = client => party' = party
           /\ OneOffered => OneOffered'
<1>1. CASE UNCHANGED <<client, party>>
  BY <1>1 DEF ClientInv, OneOffered
<1>2. ASSUME NEW c \in Calls, ClientWrite(c), ClientAgrees(c)
      PROVE  /\ client' \in Nat /\ client <= client'
             /\ party' \in [Parties -> [there : BOOLEAN, active : BOOLEAN, default : BOOLEAN]]
             /\ \A p \in Parties : party'[p].active => party'[p].there
             /\ client' = client => party' = party
             /\ OneOffered'
  <2> DEFINE list == call[c].saw
  <2>1. PartyList(list)
    BY <1>2 DEF ClientInv, ClientWrite, At
  <2>2. /\ client' = client + 1
        /\ party' = [p \in Parties |->
             IF p \in DOMAIN list
             THEN [there |-> TRUE, active |-> list[p].active, default |-> list[p].default]
             ELSE [party[p] EXCEPT !.active = FALSE]]
    BY <1>2 DEF ClientWrite
  <2>3. \A p \in Parties : /\ party'[p] \in [there : BOOLEAN, active : BOOLEAN, default : BOOLEAN]
                           /\ party'[p].active => party'[p].there
    <3>1. TAKE p \in Parties
    <3>2. party[p] \in [there : BOOLEAN, active : BOOLEAN, default : BOOLEAN]
      BY DEF ClientInv
    <3>3. CASE p \in DOMAIN list
      BY <2>1, <2>2, <3>3 DEF PartyList
    <3>4. CASE p \notin DOMAIN list
      <4>1. party'[p] = [party[p] EXCEPT !.active = FALSE]
        BY <2>2, <3>4
      <4> QED
        BY <3>2, <4>1
    <3> QED
      BY <3>3, <3>4
  <2>4. ASSUME NEW p \in Parties, party'[p].active
        PROVE  p \in DOMAIN list /\ party'[p].default = list[p].default
    BY <2>2, <2>4 DEF ClientInv
  <2>5. OneOffered'
    BY <2>1, <2>4 DEF OneOffered, PartyList
  <2> QED
    BY <2>2, <2>3, <2>5 DEF ClientInv
<1>3. ASSUME NEW c \in Calls, ClientWrite(c), ~ClientAgrees(c)
      PROVE  UNCHANGED <<client, party>>
  BY <1>3 DEF ClientWrite
<1> QED
  BY <1>1, <1>2, <1>3, Frames

\* What is there is what a save without lists reads.
LEMMA StoredList ==
    ASSUME ClientInv
    PROVE  /\ DOMAIN Stored = {p \in Parties : party[p].there}
           /\ \A p \in DOMAIN Stored : /\ Stored[p] \in [active : BOOLEAN, default : BOOLEAN]
                                       /\ Stored[p].active = party[p].active
BY DEF Stored, ClientInv

LEMMA ClientStep ==
    ASSUME CallsInv, ClientInv, [Next]_vars
    PROVE  ClientInv'
<1>1. ASSUME NEW d \in Calls, call'[d].kind = "client"
      PROVE  LET list == call'[d].saw
                 ask == call'[d].ask
             IN /\ PartyList(list)
                /\ ask.version # None => ask.version \in 1 .. client'
                /\ ask.list = None /\ ask.version = client' =>
                     \A p \in Parties : party'[p].active <=> p \in DOMAIN list /\ list[p].active
  <2>1. CASE Begun(d)
    <3>1. PICK from \in Lists \cup {None}, v \in Seen(client) :
             StartClient(d, [list |-> from, version |-> v])
      BY <1>1, <2>1, BegunAs
    <3> DEFINE ask == [list |-> from, version |-> v]
               base == IF from = None THEN Stored ELSE from
    <3>2. PICK list \in SingleDefault(base) : Begin(d, "clients", "client", None, ask, list)
      BY <3>1 DEF StartClient
    <3>3. /\ call'[d] = [kind |-> "client", at |-> "write", of |-> None, ask |-> ask,
                        saw |-> list, stale |-> FALSE]
          /\ UNCHANGED <<client, party>>
      BY <3>1, <3>2, CallBegins DEF StartClient, records
    <3>4. /\ DOMAIN base \subseteq Parties
          /\ \A p \in DOMAIN base : base[p] \in [active : BOOLEAN, default : BOOLEAN]
      <4>1. CASE from = None
        BY <4>1, StoredList
      <4>2. CASE from # None
        <5>1. PICK ps \in SUBSET Parties : from \in [ps -> [active : {TRUE}, default : BOOLEAN]]
          BY <4>2 DEF Lists
        <5>2. base = from /\ DOMAIN from = ps
          BY <4>2, <5>1
        <5>3. \A p \in ps : from[p] \in [active : {TRUE}, default : BOOLEAN]
          BY <5>1
        <5> HIDE DEF base
        <5> QED
          BY <5>2, <5>3
      <4> QED
        BY <4>1, <4>2
    <3> HIDE DEF base
    <3>5. /\ PartyList(list) /\ DOMAIN list = DOMAIN base
          /\ \A p \in DOMAIN base : list[p].active = base[p].active
      BY <3>2, <3>4, OneDefault
    <3>6. from = None =>
             \A p \in Parties : party[p].active <=> p \in DOMAIN list /\ list[p].active
      BY <3>5, StoredList DEF base, ClientInv
    <3> QED
      BY <3>3, <3>5, <3>6 DEF Seen
  <2>2. CASE Passed(d)
    <3>1. Same(call[d], call'[d]) /\ call[d].kind = "client"
      BY <1>1, <2>2, IdleRow DEF Passed, Same
    <3>2. /\ client \in Nat /\ client' \in Nat /\ client <= client'
          /\ client' = client => party' = party
      BY ClientTypes DEF ClientInv
    <3> DEFINE ask == call'[d].ask
    <3>3. /\ PartyList(call'[d].saw)
          /\ ask.version # None => ask.version \in 1 .. client
          /\ ask.list = None /\ ask.version = client =>
               \A p \in Parties : party[p].active <=> p \in DOMAIN call'[d].saw
                                                      /\ call'[d].saw[p].active
      BY <3>1 DEF ClientInv, Same
    <3>4. ask.version = client' => client' = client
      BY <3>2, <3>3, NoneAssumption
    <3> QED
      BY <3>2, <3>3, <3>4
  <2> QED
    BY <2>1, <2>2, CallSteps
<1> QED
  BY <1>1, ClientTypes DEF ClientInv, PartyList

\* A save with a version, and no lists, that writes, writes who is there.
ListSaved(c) ==
    (/\ At(c, "client", "write") /\ call'[c] = Idle /\ client' # client
     /\ call[c].ask.list = None /\ call[c].ask.version # None)
    => \A p \in Parties : party'[p].active = party[p].active

LEMMA ListsStep ==
    ASSUME CallsInv, ClientInv, [Next]_vars, NEW c \in Calls
    PROVE  ListSaved(c)
<1> SUFFICES ASSUME At(c, "client", "write"), call'[c] = Idle, client' # client,
                    call[c].ask.list = None, call[c].ask.version # None,
                    NEW p \in Parties
             PROVE  party'[p].active = party[p].active
  BY DEF ListSaved
<1>1. PICK d \in Calls : ClientWrite(d)
  BY Frames
<1>2. ClientAgrees(d)
  BY <1>1 DEF ClientWrite
<1>3. Wrote(d, "idle")
  BY <1>1, <1>2 DEF ClientWrite
<1>4. d = c
  <2>1. call[c].kind = "client"
    BY DEF At
  <2>2. ASSUME d # c
        PROVE  call'[c].kind = "client"
    BY <2>1, <2>2, <1>3, WritesStale DEF Same
  <2> QED
    BY <2>2, IdleRow
<1>5. call[c].ask.version = client
  BY <1>2, <1>4 DEF ClientAgrees, VersionAgrees
<1> DEFINE list == call[c].saw
<1>6. /\ PartyList(list)
      /\ party[p].active <=> p \in DOMAIN list /\ list[p].active
  BY <1>5 DEF ClientInv, At
<1>7. party' = [q \in Parties |->
         IF q \in DOMAIN list
         THEN [there |-> TRUE, active |-> list[q].active, default |-> list[q].default]
         ELSE [party[q] EXCEPT !.active = FALSE]]
  BY <1>1, <1>2, <1>4 DEF ClientWrite
<1>8. party[p] \in [there : BOOLEAN, active : BOOLEAN, default : BOOLEAN]
  BY DEF ClientInv
<1>9. party'[p].active <=> p \in DOMAIN list /\ list[p].active
  BY <1>6, <1>7, <1>8 DEF PartyList
<1>10. party'[p].active \in BOOLEAN
  BY ClientTypes
<1> QED
  BY <1>6, <1>8, <1>9, <1>10

-----------------------------------------------------------------------------
(* The photos of a product: rows *)

LEMMA LastImage == MaxImages \in Nat
BY BoundsAssumption

LEMMA NewRows ==
    ASSUME ImagesInv
    PROVE  /\ made \in Nat /\ made <= MaxImages
           /\ ~Full => NextId \in Ids
           /\ Rows(image) \subseteq Ids
           /\ NewOrder(image) \in Nat
<1>1. made \in Nat /\ made <= MaxImages
  BY LastImage DEF ImagesInv
<1>2. ~Full => NextId \in Ids
  BY <1>1, LastImage DEF Full, NextId, Ids
<1>3. Rows(image) \subseteq Ids
  BY DEF Rows
<1>4. IsFiniteSet(Ids)
  BY LastImage, FS_Interval DEF Ids
<1>5. IsFiniteSet(Rows(image))
  BY <1>3, <1>4, FS_Subset
<1>6. NewOrder(image) \in Nat
  BY <1>5, FS_CardinalityType DEF NewOrder
<1> QED
  BY <1>1, <1>2, <1>3, <1>6

SameFile(x, y) == x.source = y.source /\ x.file = y.file

\* Marking and unmarking the main photo leaves the rest of a row as it is.
LEMMA Remarked ==
    ASSUME NEW img \in [Ids -> ImageRow], NEW but
    PROVE  /\ Promoted(img) \in [Ids -> ImageRow] /\ Demoted(img, but) \in [Ids -> ImageRow]
           /\ \A i \in Ids : /\ SameFile(img[i], Promoted(img)[i])
                             /\ SameFile(img[i], Demoted(img, but)[i])
<1>1. ASSUME NEW row \in ImageRow, NEW b \in BOOLEAN
      PROVE  [row EXCEPT !.main = b] \in ImageRow /\ SameFile(row, [row EXCEPT !.main = b])
  BY DEF ImageRow, SameFile
<1>2. \A i \in Ids : img[i] \in ImageRow /\ SameFile(img[i], img[i])
  BY DEF SameFile
<1>3. /\ Demoted(img, but) \in [Ids -> ImageRow]
      /\ \A i \in Ids : SameFile(img[i], Demoted(img, but)[i])
  <2>1. \A i \in Ids : Demoted(img, but)[i] = img[i]
                       \/ Demoted(img, but)[i] = [img[i] EXCEPT !.main = FALSE]
    BY DEF Demoted
  <2>2. Demoted(img, but) = [i \in Ids |-> Demoted(img, but)[i]]
    BY DEF Demoted
  <2>3. \A i \in Ids : Demoted(img, but)[i] \in ImageRow
                       /\ SameFile(img[i], Demoted(img, but)[i])
    BY <1>1, <1>2, <2>1
  <2> HIDE DEF Demoted
  <2> QED
    BY <2>2, <2>3
<1>4. /\ Promoted(img) \in [Ids -> ImageRow]
      /\ \A i \in Ids : SameFile(img[i], Promoted(img)[i])
  <2> DEFINE e == Earliest(img)
             new == [img EXCEPT ![e].main = TRUE]
  <2>1. new = [i \in Ids |-> IF i = e THEN [img[i] EXCEPT !.main = TRUE] ELSE img[i]]
    OBVIOUS
  <2>2. \A i \in Ids : [img[i] EXCEPT !.main = TRUE] \in ImageRow
                       /\ SameFile(img[i], [img[i] EXCEPT !.main = TRUE])
    BY <1>1, <1>2
  <2>3. new \in [Ids -> ImageRow] /\ \A i \in Ids : SameFile(img[i], new[i])
    <3> HIDE DEF new, e
    <3> QED
      BY <1>2, <2>1, <2>2
  <2>4. Promoted(img) = img \/ Promoted(img) = new
    BY DEF Promoted
  <2> QED
    BY <1>2, <2>3, <2>4
<1> QED
  BY <1>3, <1>4

\* What a step does to the row of a photo
Kept(i) == SameFile(image[i], image'[i])
Gone(i) == /\ image'[i].source = "none"
           /\ image[i].source # "upload" \/ \E c \in Calls : RemoveWrite(c) /\ call[c].of = i
FromFeed(i) == i \in made + 1 .. made' /\ image'[i].source = "feed" /\ image'[i].file = None
Uploaded(i, c) == /\ UploadWrite(c) /\ i = NextId
                  /\ image'[i].source = "upload" /\ image'[i].file = call[c].of
FileStored(i, c) == /\ KpStore(c) /\ i = call[c].of /\ i \in Rows(image)
                    /\ image'[i].source = image[i].source /\ image'[i].file = call[c].ask

RowChange(i) == \/ Kept(i) \/ Gone(i) \/ FromFeed(i)
                \/ \E c \in Calls : Uploaded(i, c) \/ FileStored(i, c)

RowsChange == /\ image' \in [Ids -> ImageRow]
              /\ made' \in made .. MaxImages
              /\ \A i \in Ids : RowChange(i) /\ (i > made' => image'[i].source = "none")

LEMMA RowsUnchanged ==
    ASSUME ImagesInv, UNCHANGED <<image, made>>
    PROVE  RowsChange
<1>1. \A i \in Ids : Kept(i)
  BY DEF Kept, SameFile
<1>2. \A i \in Ids : i > made' => image'[i].source = "none"
  BY LastImage DEF ImagesInv, Rows, Ids
<1>3. made' \in made .. MaxImages
  BY NewRows, LastImage
<1> QED
  BY <1>1, <1>2, <1>3 DEF RowsChange, RowChange, ImagesInv

LEMMA UploadRows ==
    ASSUME ImagesInv, UploadsInv, NEW c \in Calls, UploadWrite(c)
    PROVE  RowsChange /\ \E i \in Ids : Uploaded(i, c)
<1> DEFINE new == [source |-> "upload", url |-> None, file |-> call[c].of,
                   main |-> Rows(image) = {}, order |-> NewOrder(image)]
<1>1. NextId \in Ids /\ made' = made + 1 /\ image' = [image EXCEPT ![NextId] = new]
  BY NewRows DEF UploadWrite, Commit
<1>2. new \in ImageRow
  <2>1. call[c].of \in Paths("upload")
    BY DEF UploadsInv, UploadWrite, At
  <2>2. call[c].of \in [by : {"upload", "kp"}, n : Nat]
    BY <2>1 DEF Paths, ImagesInv
  <2> QED
    BY <2>2, NewRows DEF ImageRow, Sources
<1>3. image \in [Ids -> ImageRow] /\ made \in Nat /\ made + 1 <= MaxImages
  BY <1>1, LastImage DEF ImagesInv, NextId, Ids
<1> HIDE DEF new
<1>4. /\ image' \in [Ids -> ImageRow]
      /\ \A i \in Ids : IF i = NextId THEN image'[i] = new ELSE image'[i] = image[i]
  BY <1>1, <1>2, <1>3
<1>5. \A i \in Ids : RowChange(i)
  BY <1>4 DEF RowChange, Kept, SameFile, Uploaded, new
<1>6. \A i \in Ids : i > made' => image'[i].source = "none"
  BY <1>1, <1>3, <1>4, LastImage DEF ImagesInv, Rows, Ids, NextId
<1>7. Uploaded(NextId, c)
  BY <1>1, <1>4 DEF Uploaded, new
<1> QED
  BY <1>1, <1>3, <1>4, <1>5, <1>6, <1>7, LastImage DEF RowsChange

\* A mark or a place, of which either may be left out
LEMMA AskFields ==
    ASSUME NEW ask \in Asks \cup {[main |-> None, order |-> None]}
    PROVE  /\ ask.main = None \/ ask.main \in BOOLEAN
           /\ ask.order = None \/ ask.order = 1
           /\ ask.main = None \/ ask.order = None
BY DEF Asks

LEMMA FeedRows ==
    ASSUME ImagesInv, RowCallsInv, NEW c \in Calls, FeedWrite(c)
    PROVE  RowsChange
<1> DEFINE ask == call[c].ask
           main == IF ask.main = None THEN Rows(image) = {} ELSE ask.main
           before == IF main THEN Demoted(image, None) ELSE image
           order == IF ask.order = None THEN NewOrder(image) ELSE ask.order
           new == [source |-> "feed", url |-> call[c].of, file |-> None,
                   main |-> main, order |-> order]
<1>1. NextId \in Ids /\ made' = made + 1 /\ image' = [before EXCEPT ![NextId] = new]
  BY NewRows DEF FeedWrite, Commit
<1>2. call[c].of \in Urls /\ ask \in Asks \cup {[main |-> None, order |-> None]}
  BY DEF FeedWrite, At, RowCallsInv
<1>3. main \in BOOLEAN /\ order \in Nat
  <2>1. /\ ask.main = None \/ ask.main \in BOOLEAN
        /\ ask.order = None \/ ask.order = 1
    BY <1>2, AskFields
  <2>2. main \in BOOLEAN
    BY <2>1
  <2>3. order \in Nat
    BY <2>1, NewRows
  <2> QED
    BY <2>2, <2>3
<1>4. image \in [Ids -> ImageRow] /\ made \in Nat /\ made + 1 <= MaxImages
  BY <1>1, LastImage DEF ImagesInv, NextId, Ids
<1>5. before \in [Ids -> ImageRow] /\ \A i \in Ids : SameFile(image[i], before[i])
  BY <1>4, Remarked DEF SameFile
<1> HIDE DEF main, order, before, ask
<1>6. new \in ImageRow
  BY <1>2, <1>3 DEF ImageRow, Sources
<1>7. /\ image' \in [Ids -> ImageRow] /\ image'[NextId] = new
      /\ \A i \in Ids \ {NextId} : SameFile(image[i], image'[i])
  <2> HIDE DEF new
  <2> QED
    BY <1>1, <1>5, <1>6
<1>8. \A i \in Ids : RowChange(i)
  <2>1. FromFeed(NextId)
    BY <1>1, <1>4, <1>7 DEF FromFeed, NextId
  <2> QED
    BY <1>7, <2>1 DEF RowChange, Kept
<1>9. \A i \in Ids : i > made' => image'[i].source = "none"
  BY <1>1, <1>4, <1>7, LastImage DEF ImagesInv, Rows, Ids, NextId, SameFile
<1> QED
  BY <1>1, <1>4, <1>7, <1>8, <1>9, LastImage DEF RowsChange

LEMMA PatchRows ==
    ASSUME ImagesInv, RowCallsInv, NEW c \in Calls, PatchWrite(c)
    PROVE  RowsChange
<1> DEFINE i == call[c].of
           ask == call[c].ask
           before == IF ask.main = TRUE THEN Demoted(image, i) ELSE image
           main == IF ask.main = None THEN image[i].main ELSE ask.main
           order == IF ask.order = None THEN image[i].order ELSE ask.order
           patched == [before EXCEPT ![i].main = main, ![i].order = order]
           after == IF ask.main = FALSE THEN Promoted(patched) ELSE patched
<1>1. CASE i \notin Rows(image)
  BY <1>1, RowsUnchanged DEF PatchWrite
<1>2. CASE i \in Rows(image)
  <2>1. image' = after /\ made' = made + 0
    BY <1>2 DEF PatchWrite, Commit
  <2>2. i \in Ids /\ ask \in Asks /\ image \in [Ids -> ImageRow]
    BY <1>2 DEF PatchWrite, At, RowCallsInv, ImagesInv, Rows
  <2>3. image[i] \in ImageRow
    BY <2>2
  <2>4. main \in BOOLEAN /\ order \in Nat
    BY <2>2, <2>3 DEF Asks, ImageRow
  <2>5. before \in [Ids -> ImageRow] /\ \A j \in Ids : SameFile(image[j], before[j])
    BY <2>2, Remarked DEF SameFile
  <2> HIDE DEF main, order, before, ask, i
  <2>6. patched = [before EXCEPT ![i] = [before[i] EXCEPT !.main = main, !.order = order]]
    BY <2>2, <2>5
  <2>7. before[i] \in ImageRow
    BY <2>2, <2>5
  <2>8. /\ [before[i] EXCEPT !.main = main, !.order = order] \in ImageRow
        /\ SameFile(before[i], [before[i] EXCEPT !.main = main, !.order = order])
    BY <2>4, <2>7 DEF ImageRow, SameFile
  <2>9. patched \in [Ids -> ImageRow] /\ \A j \in Ids : SameFile(image[j], patched[j])
    <3>1. \A j \in Ids : patched[j] = IF j = i THEN [before[i] EXCEPT !.main = main, !.order = order]
                                      ELSE before[j]
      BY <2>2, <2>5, <2>6
    <3>2. patched \in [Ids -> ImageRow]
      BY <2>2, <2>5, <2>6, <2>8
    <3> HIDE DEF patched
    <3> QED
      BY <2>5, <2>8, <3>1, <3>2 DEF SameFile
  <2> HIDE DEF patched
  <2>10. after \in [Ids -> ImageRow] /\ \A j \in Ids : SameFile(image[j], after[j])
    BY <2>9, Remarked DEF SameFile
  <2> HIDE DEF after
  <2>11. \A j \in Ids : j > made' => image'[j].source = "none"
    BY <2>1, <2>10, NewRows, LastImage DEF ImagesInv, Rows, Ids, SameFile
  <2> QED
    BY <2>1, <2>10, <2>11, NewRows, LastImage DEF RowsChange, RowChange, Kept
<1> QED
  BY <1>1, <1>2

LEMMA RemoveRows ==
    ASSUME ImagesInv, NEW c \in Calls, RemoveWrite(c)
    PROVE  RowsChange /\ (call[c].of \in Rows(image) => image'[call[c].of].source = "none")
<1> DEFINE i == call[c].of
           less == [image EXCEPT ![i] = NoImage]
           after == AfterRemove(less, call[c].saw)
<1>1. CASE i \notin Rows(image)
  BY <1>1, RowsUnchanged DEF RemoveWrite
<1>2. CASE i \in Rows(image)
  <2>1. image' = after /\ made' = made + 0
    BY <1>2 DEF RemoveWrite, Commit
  <2>2. i \in Ids /\ image \in [Ids -> ImageRow]
    BY <1>2 DEF ImagesInv, Rows
  <2>3. NoImage \in ImageRow
    BY DEF NoImage, ImageRow, Sources
  <2>4. /\ less \in [Ids -> ImageRow] /\ less[i] = NoImage
        /\ \A j \in Ids \ {i} : less[j] = image[j]
    BY <2>2, <2>3
  <2> HIDE DEF less
  <2>5. after \in [Ids -> ImageRow] /\ \A j \in Ids : SameFile(less[j], after[j])
    BY <2>4, Remarked DEF SameFile, AfterRemove
  <2> HIDE DEF after
  <2>6. Gone(i)
    BY <2>1, <2>2, <2>4, <2>5 DEF Gone, SameFile, NoImage
  <2>7. \A j \in Ids \ {i} : Kept(j)
    BY <2>1, <2>4, <2>5 DEF Kept
  <2>8. \A j \in Ids : j > made' => image'[j].source = "none"
    BY <2>1, <2>6, <2>7, NewRows, LastImage DEF ImagesInv, Rows, Ids, SameFile, Gone, Kept
  <2> QED
    BY <2>1, <2>5, <2>6, <2>7, <2>8, NewRows, LastImage DEF RowsChange, RowChange, Gone
<1> QED
  BY <1>1, <1>2

LEMMA KpRows ==
    ASSUME ImagesInv, KpFilesInv, NEW c \in Calls, KpStore(c)
    PROVE  RowsChange
<1> DEFINE i == call[c].of
<1>1. CASE i \notin Rows(image)
  BY <1>1, RowsUnchanged DEF KpStore
<1>2. CASE i \in Rows(image)
  <2>1. image' = [image EXCEPT ![i].file = call[c].ask] /\ made' = made
    BY <1>2 DEF KpStore
  <2>2. i \in Ids /\ image \in [Ids -> ImageRow]
    BY <1>2 DEF ImagesInv, Rows
  <2>3. call[c].ask \in [by : {"upload", "kp"}, n : Nat]
    BY DEF KpFilesInv, KpStore, At, Paths, ImagesInv
  <2>4. image[i] \in ImageRow
    BY <2>2
  <2>5. image' = [image EXCEPT ![i] = [image[i] EXCEPT !.file = call[c].ask]]
    BY <2>1, <2>2
  <2>6. /\ [image[i] EXCEPT !.file = call[c].ask] \in ImageRow
        /\ [image[i] EXCEPT !.file = call[c].ask].source = image[i].source
        /\ [image[i] EXCEPT !.file = call[c].ask].file = call[c].ask
    BY <2>3, <2>4 DEF ImageRow
  <2>7. /\ image' \in [Ids -> ImageRow]
        /\ image'[i].source = image[i].source /\ image'[i].file = call[c].ask
        /\ \A j \in Ids \ {i} : image'[j] = image[j]
    BY <2>2, <2>5, <2>6
  <2>8. FileStored(i, c)
    BY <1>2, <2>7 DEF FileStored
  <2>9. \A j \in Ids : RowChange(j)
    BY <2>7, <2>8 DEF RowChange, Kept, SameFile
  <2>10. \A j \in Ids : j > made' => image'[j].source = "none"
    BY <2>1, <2>7, NewRows, LastImage DEF ImagesInv, Rows, Ids
  <2> QED
    BY <2>1, <2>7, <2>9, <2>10, NewRows, LastImage DEF RowsChange
<1> QED
  BY <1>1, <1>2

LEMMA PriceRows ==
    ASSUME ImagesInv, RowCallsInv, NEW c \in Calls, PriceWrite(c)
    PROVE  RowsChange
<1> DEFINE urls == call[c].of
           keep == call[c].ask /\ \E i \in Marked(image) : image[i].source = "upload"
           rest == IF ~call[c].ask THEN image
                   ELSE [i \in Ids |-> IF image[i].source = "feed" THEN NoImage ELSE image[i]]
           new(i) == [source |-> "feed", url |-> urls[i - made], file |-> None,
                      main |-> i - made = 1 /\ ~keep, order |-> i - made - 1]
<1>1. /\ made + Len(urls) <= MaxImages /\ made' = made + Len(urls)
      /\ image' = [i \in Ids |-> IF i - made \notin 1 .. Len(urls) THEN rest[i] ELSE new(i)]
  BY DEF PriceWrite
<1>2. urls \in Seq(Urls) /\ Len(urls) \in Nat /\ \A n \in 1 .. Len(urls) : urls[n] \in Urls
  BY AreasAssumption DEF PriceWrite, At, RowCallsInv
<1>3. image \in [Ids -> ImageRow] /\ made \in Nat
  BY NewRows DEF ImagesInv
<1>4. NoImage \in ImageRow
  BY DEF NoImage, ImageRow, Sources
<1>5. \A i \in Ids : /\ rest[i] \in ImageRow
                     /\ rest[i] = image[i] \/ (rest[i] = NoImage /\ image[i].source = "feed")
  BY <1>3, <1>4
<1> HIDE DEF rest
<1>6. ASSUME NEW i \in Ids, i - made \in 1 .. Len(urls)
      PROVE  new(i) \in ImageRow
  <2>1. i - made - 1 \in Nat /\ (i - made = 1 /\ ~keep) \in BOOLEAN /\ urls[i - made] \in Urls
    BY <1>2, <1>6
  <2> QED
    BY <2>1 DEF ImageRow, Sources
<1> HIDE DEF keep
<1>7. image' \in [Ids -> ImageRow]
  <2> HIDE DEF new
  <2> QED
    BY <1>1, <1>5, <1>6
<1>8. ASSUME NEW i \in Ids
      PROVE  RowChange(i) /\ (i > made' => image'[i].source = "none")
  <2>1. i \in Nat
    BY LastImage DEF Ids
  <2>2. CASE i - made \in 1 .. Len(urls)
    <3>1. image'[i] = new(i)
      BY <1>1, <2>2
    <3>2. i \in made + 1 .. made'
      BY <1>1, <1>2, <1>3, <2>1, <2>2
    <3> QED
      BY <1>1, <1>2, <1>3, <2>1, <3>1, <3>2 DEF RowChange, FromFeed
  <2>3. CASE i - made \notin 1 .. Len(urls)
    <3>1. image'[i] = rest[i]
      BY <1>1, <2>3
    <3>2. RowChange(i)
      BY <1>5, <3>1 DEF RowChange, Kept, Gone, SameFile, NoImage
    <3>3. i > made => image[i].source = "none"
      BY <1>3, <2>1 DEF ImagesInv, Rows
    <3> QED
      BY <1>1, <1>2, <1>3, <1>5, <2>1, <3>1, <3>2, <3>3 DEF NoImage
  <2> QED
    BY <2>2, <2>3
<1>9. made' \in made .. MaxImages
  BY <1>1, <1>2, <1>3, LastImage
<1> QED
  BY <1>7, <1>8, <1>9 DEF RowsChange

LEMMA ImageSteps ==
    ASSUME CallsInv, FilesInv, [Next]_vars
    PROVE  RowsChange
<1>1. CASE UNCHANGED vars \/ Restart
  BY <1>1, RowsUnchanged DEF vars, Restart, records, photos, FilesInv
<1>2. CASE CreateRequest
  BY <1>2, RowsUnchanged DEF CreateRequest, photos, FilesInv
<1>3. ASSUME NEW c \in Calls, Begun(c)
      PROVE  RowsChange
  BY <1>3, BegunCalls, RowsUnchanged DEF FilesInv
<1>4. ASSUME NEW c \in Calls, Writes(c)
      PROVE  RowsChange
  <2>1. SettingsWrite(c) \/ CompanyWrite(c) \/ UnitWrite(c) \/ ClientWrite(c)
          => UNCHANGED <<image, made>>
    BY DEF SettingsWrite, CompanyWrite, UnitWrite, ClientWrite, photos
  <2> QED
    BY <1>4, <2>1, RowsUnchanged, UploadRows, FeedRows, PatchRows, RemoveRows, PriceRows
       DEF Writes, FilesInv
<1>5. ASSUME NEW c \in Calls, Quits(c) \/ KpSave(c)
      PROVE  RowsChange
  BY <1>5, RowsUnchanged, KpRows DEF Quits, UploadFails, RemoveUnlink, KpSave, FilesInv
<1> QED
  BY <1>1, <1>2, <1>3, <1>4, <1>5, NextSteps

-----------------------------------------------------------------------------
(* The files of photos *)

LEMMA SpentSteps ==
    ASSUME CallsInv, [Next]_vars, spent \in Nat
    PROVE  /\ spent' \in Nat /\ spent <= spent'
           /\ \A who : Paths(who) \subseteq Paths(who)'
<1>1. spent' = spent \/ spent' = spent + 1
  <2>1. CASE UNCHANGED vars \/ Restart \/ CreateRequest
    BY <2>1 DEF vars, Restart, CreateRequest, WroteAtOnce, Spend
  <2>2. ASSUME NEW c \in Calls, Begun(c)
        PROVE  spent' = spent + 1
    BY <2>2, BegunCalls
  <2>3. ASSUME NEW c \in Calls, Writes(c) \/ Quits(c) \/ KpSave(c)
        PROVE  spent' = spent
    BY <2>3, WritingCalls, QuittingCalls DEF End, Wrote, KpSave
  <2> QED
    BY <2>1, <2>2, <2>3, NextSteps
<1>2. spent' \in Nat /\ spent <= spent'
  BY <1>1
<1> QED
  BY <1>2 DEF Paths

LEMMA DiskSteps ==
    ASSUME CallsInv, [Next]_vars
    PROVE  \/ disk' = disk
           \/ \E c \in Calls : StartUpload(c)
           \/ \E c \in Calls : KpSave(c) /\ call'[c].at = "store" /\ disk' = disk \cup {call[c].ask}
           \/ \E c \in Calls : UploadFails(c) /\ disk' = disk \ {call[c].of}
           \/ \E c \in Calls : RemoveUnlink(c) /\ disk' = disk \ {call[c].saw.file}
<1>1. CASE UNCHANGED vars \/ Restart \/ CreateRequest
  BY <1>1 DEF vars, Restart, CreateRequest, records, photos
<1>2. ASSUME NEW c \in Calls, Begun(c)
      PROVE  disk' = disk \/ StartUpload(c)
  <2>1. StartDirectoryCall(c) => disk' = disk
    BY DEF StartDirectoryCall, StartSettings, StartCompany, StartUnit, StartClient, records, photos
  <2>2. StartImageCall(c) => disk' = disk \/ StartUpload(c)
    BY DEF StartImageCall, StartFeed, StartPatch, StartRemove, StartKp, StartPrice, records, photos
  <2> QED
    BY <1>2, <2>1, <2>2 DEF Begun
<1>3. ASSUME NEW c \in Calls, Writes(c)
      PROVE  disk' = disk
  BY <1>3 DEF Writes, SettingsWrite, CompanyWrite, UnitWrite, ClientWrite, UploadWrite, FeedWrite,
              PatchWrite, RemoveWrite, PriceWrite, photos
<1>4. ASSUME NEW c \in Calls, Quits(c)
      PROVE  \/ disk' = disk
             \/ UploadFails(c) /\ disk' = disk \ {call[c].of}
             \/ RemoveUnlink(c) /\ disk' = disk \ {call[c].saw.file}
  BY <1>4 DEF Quits, UploadFails, RemoveUnlink, KpStore
<1>5. ASSUME NEW c \in Calls, KpSave(c)
      PROVE  disk' = disk \/ (call'[c].at = "store" /\ disk' = disk \cup {call[c].ask})
  <2>1. CASE disk' = disk \cup {call[c].ask} /\ call' = [call EXCEPT ![c].at = "store"]
    BY <2>1 DEF CallsInv, CallRow
  <2> QED
    BY <1>5, <2>1 DEF KpSave
<1> QED
  BY <1>1, <1>2, <1>3, <1>4, <1>5, NextSteps

\* What an upload that begins is given.
LEMMA NewUpload ==
    ASSUME CallsInv, NEW c \in Calls, StartUpload(c)
    PROVE  /\ call'[c].kind = "upload" /\ call'[c].at = "write"
           /\ call'[c].of = [by |-> "upload", n |-> spent']
           /\ disk' = disk \cup {call'[c].of}
           /\ spent' = spent + 1 /\ UNCHANGED image
           /\ \A d \in Calls : d # c => call'[d] = call[d]
<1>1. spent' = spent + 1
  BY DEF StartUpload, Begin, Spend
<1>2. /\ call'[c] = [kind |-> "upload", at |-> "write", of |-> [by |-> "upload", n |-> spent + 1],
                     ask |-> None, saw |-> None, stale |-> FALSE]
      /\ \A d \in Calls : d # c => call'[d] = call[d]
  BY CallBegins DEF StartUpload
<1>3. disk' = disk \cup {[by |-> "upload", n |-> spent + 1]} /\ UNCHANGED image
  BY DEF StartUpload
<1> QED
  BY <1>1, <1>2, <1>3

LEMMA NewRemoval ==
    ASSUME CallsInv, NEW c \in Calls, NEW i, StartRemove(c, i)
    PROVE  /\ i \in Rows(image) /\ UNCHANGED <<image, made>>
           /\ call'[c].of = i /\ call'[c].at = "write" /\ call'[c].saw = image[i]
           /\ ~call'[c].stale
<1>1. i \in Rows(image) /\ Begin(c, "images", "remove", i, None, image[i])
  BY DEF StartRemove
<1>2. call'[c] = [kind |-> "remove", at |-> "write", of |-> i,
                  ask |-> None, saw |-> image[i], stale |-> FALSE]
  BY <1>1, CallBegins
<1>3. UNCHANGED <<image, made>>
  BY DEF StartRemove, records, photos
<1> QED
  BY <1>1, <1>2, <1>3

\* Files of a KP stay on disk.
LEMMA KpFilesStay ==
    ASSUME CallsInv, FilesInv, [Next]_vars, NEW path \in Paths("kp") \cap disk
    PROVE  path \in disk'
<1>1. ASSUME NEW who
      PROVE  \A x \in Paths(who) : x.by = who
  BY DEF Paths
<1>2. path.by = "kp"
  BY <1>1
<1>3. ASSUME NEW c \in Calls, UploadFails(c)
      PROVE  call[c].of.by = "upload"
  BY <1>1, <1>3 DEF UploadFails, At, FilesInv, UploadsInv
<1>4. ASSUME NEW c \in Calls, RemoveUnlink(c)
      PROVE  call[c].saw.file.by = "upload"
  BY <1>1, <1>4 DEF RemoveUnlink, At, FilesInv, RemovesInv
<1> QED
  BY <1>2, <1>3, <1>4, DiskSteps, NewUpload

\* A call that goes on as it is
LEMMA PassedCalls ==
    ASSUME CallsInv, NEW d \in Calls, Passed(d), call'[d].kind # "none"
    PROVE  Same(call[d], call'[d]) /\ call'[d] # Idle
BY IdleRow DEF Passed

LEMMA NewUploads ==
    ASSUME CallsInv, FilesInv, [Next]_vars, NEW i \in Uploads(image')
    PROVE  \/ Kept(i) /\ i \in Uploads(image)
           \/ \E c \in Calls : Uploaded(i, c)
<1>1. i \in Ids /\ image'[i].source = "upload"
  BY DEF Uploads, Rows
<1>2. RowChange(i)
  BY <1>1, ImageSteps DEF RowsChange
<1>3. ASSUME NEW c \in Calls, FileStored(i, c)
      PROVE  FALSE
  BY <1>1, <1>3 DEF FileStored, FilesInv, KpFilesInv, KpStore, At
<1>4. Kept(i) => i \in Uploads(image)
  BY <1>1 DEF Kept, SameFile, Uploads, Rows
<1> QED
  BY <1>1, <1>2, <1>3, <1>4 DEF RowChange, Gone, FromFeed

LEMMA UploadsStep ==
    ASSUME CallsInv, FilesInv, [Next]_vars
    PROVE  UploadsInv'
<1>1. spent \in Nat /\ spent' \in Nat /\ spent <= spent' /\ \A who : Paths(who) \subseteq Paths(who)'
  BY SpentSteps DEF FilesInv, ImagesInv
<1>2. \A path \in Paths("upload") : path.n <= spent
  BY <1>1 DEF Paths
<1>3. ASSUME NEW c \in Calls, StartUpload(c)
      PROVE  call'[c].of \in Paths("upload")' /\ call'[c].of \notin Paths("upload")
  <2>1. call'[c].of = [by |-> "upload", n |-> spent'] /\ spent' = spent + 1
    BY <1>3, NewUpload
  <2> QED
    BY <1>1, <1>2, <2>1 DEF Paths
<1>4. ASSUME NEW c \in Calls, call'[c].kind = "upload"
      PROVE  \/ StartUpload(c)
             \/ /\ call[c].kind = "upload" /\ Same(call[c], call'[c]) /\ call'[c].at = "write"
                /\ call'[c] # Idle
  <2>1. CASE Begun(c)
    BY <1>4, <2>1, BegunAs
  <2>2. CASE Passed(c)
    <3>1. Same(call[c], call'[c]) /\ call'[c] # Idle
      BY <1>4, <2>2, PassedCalls
    <3>2. call[c].kind = "upload" /\ call[c].at = "write"
      BY <1>4, <3>1 DEF Same, FilesInv, UploadsInv
    <3> QED
      BY <2>2, <3>1, <3>2 DEF Passed, RemoveWrite, KpSave, At
  <2> QED
    BY <2>1, <2>2, CallSteps
<1>5. ASSUME NEW c \in Calls, call[c].kind = "upload"
      PROVE  /\ call[c].of \in Paths("upload") \cap disk
             /\ \A d \in Calls : call[d].kind = "upload" /\ call[d].of = call[c].of => d = c
             /\ \A d \in Calls : call[d].kind = "remove" /\ call[d].saw.source = "upload"
                                 => call[d].saw.file # call[c].of
             /\ \A i \in Uploads(image) : image[i].file # call[c].of
  BY <1>5 DEF FilesInv, UploadsInv
<1>6. ASSUME NEW c \in Calls, StartUpload(c)
      PROVE  /\ call'[c].at = "write" /\ call'[c].of \in Paths("upload")' \cap disk'
             /\ \A d \in Calls : call'[d].kind = "upload" /\ call'[d].of = call'[c].of => d = c
             /\ \A d \in Calls : call'[d].kind = "remove" /\ call'[d].saw.source = "upload"
                                 => call'[d].saw.file # call'[c].of
             /\ \A i \in Uploads(image') : image'[i].file # call'[c].of
  <2>1. /\ call'[c].kind = "upload" /\ call'[c].at = "write" /\ call'[c].of \in disk'
        /\ UNCHANGED image /\ \A d \in Calls : d # c => call'[d] = call[d]
    BY <1>6, NewUpload
  <2>2. call'[c].of \in Paths("upload")' /\ call'[c].of \notin Paths("upload")
    BY <1>3, <1>6
  <2>3. ASSUME NEW d \in Calls, call'[d].kind = "upload", call'[d].of = call'[c].of
        PROVE  d = c
    BY <1>5, <2>1, <2>2, <2>3
  <2>4. ASSUME NEW d \in Calls, call'[d].kind = "remove", call'[d].saw.source = "upload"
        PROVE  call'[d].saw.file # call'[c].of
    <3>1. call'[d] = call[d]
      BY <2>1, <2>4
    <3> QED
      BY <2>2, <2>4, <3>1 DEF FilesInv, RemovesInv
  <2>5. ASSUME NEW i \in Uploads(image')
        PROVE  image'[i].file # call'[c].of
    BY <2>1, <2>2 DEF FilesInv, ImagesInv
  <2> QED
    BY <2>1, <2>2, <2>3, <2>4, <2>5
<1>7. ASSUME NEW c \in Calls, call[c].kind = "upload", Same(call[c], call'[c]), call'[c] # Idle
      PROVE  /\ call'[c].of \in Paths("upload")' \cap disk'
             /\ \A d \in Calls : call'[d].kind = "upload" /\ call'[d].of = call'[c].of => d = c
             /\ \A d \in Calls : call'[d].kind = "remove" /\ call'[d].saw.source = "upload"
                                 => call'[d].saw.file # call'[c].of
             /\ \A i \in Uploads(image') : image'[i].file # call'[c].of
  <2>1. call'[c].of = call[c].of
    BY <1>7 DEF Same
  <2>2. call[c].of \in Paths("upload")'
    BY <1>1, <1>5, <1>7
  <2>3. call[c].of \in disk'
    <3>1. ASSUME NEW d \in Calls, UploadFails(d)
          PROVE  call[d].of # call[c].of
      <4>1. d # c
        BY <1>7, <3>1, CallEnds DEF UploadFails
      <4>2. call[d].kind = "upload"
        BY <3>1 DEF UploadFails, At
      <4> QED
        BY <1>5, <1>7, <4>1, <4>2
    <3>2. ASSUME NEW d \in Calls, RemoveUnlink(d)
          PROVE  call[d].saw.file # call[c].of
      <4>1. call[d].kind = "remove" /\ call[d].saw.source = "upload"
        BY <3>2 DEF RemoveUnlink, At, FilesInv, RemovesInv
      <4> QED
        BY <1>5, <1>7, <4>1
    <3>3. ASSUME NEW d \in Calls, StartUpload(d)
          PROVE  disk \subseteq disk'
      BY <3>3, NewUpload
    <3> QED
      BY <1>5, <1>7, <3>1, <3>2, <3>3, DiskSteps
  <2>4. ASSUME NEW d \in Calls, call'[d].kind = "upload", call'[d].of = call'[c].of
        PROVE  d = c
    <3>1. ~StartUpload(d)
      BY <1>3, <1>5, <1>7, <2>1, <2>4
    <3>2. call[d].kind = "upload" /\ Same(call[d], call'[d])
      BY <1>4, <2>4, <3>1
    <3> QED
      BY <1>5, <1>7, <2>1, <2>4, <3>2 DEF Same
  <2>5. ASSUME NEW d \in Calls, call'[d].kind = "remove", call'[d].saw.source = "upload"
        PROVE  call'[d].saw.file # call'[c].of
    <3>1. CASE Begun(d)
      <4>1. PICK i \in Ids : StartRemove(d, i)
        BY <2>5, <3>1, BegunAs
      <4>2. i \in Rows(image) /\ call'[d].saw = image[i]
        BY <4>1, NewRemoval
      <4>3. i \in Uploads(image)
        BY <2>5, <4>2 DEF Uploads
      <4> QED
        BY <1>5, <1>7, <2>1, <4>2, <4>3
    <3>2. CASE Passed(d)
      <4>1. Same(call[d], call'[d])
        BY <2>5, <3>2, PassedCalls
      <4> QED
        BY <1>5, <1>7, <2>1, <2>5, <4>1 DEF Same
    <3> QED
      BY <3>1, <3>2, CallSteps
  <2>6. ASSUME NEW i \in Uploads(image')
        PROVE  image'[i].file # call'[c].of
    <3>1. CASE Kept(i) /\ i \in Uploads(image)
      BY <1>5, <1>7, <2>1, <3>1 DEF Kept, SameFile
    <3>2. ASSUME NEW d \in Calls, Uploaded(i, d)
          PROVE  image'[i].file # call'[c].of
      <4>1. UploadWrite(d) /\ image'[i].file = call[d].of
        BY <3>2 DEF Uploaded
      <4>2. Wrote(d, "idle") /\ call[d].kind = "upload"
        BY <4>1 DEF UploadWrite, At
      <4>3. d # c
        BY <1>7, <4>2, WritesStale
      <4> QED
        BY <1>5, <1>7, <2>1, <4>1, <4>2, <4>3
    <3> QED
      BY <3>1, <3>2, NewUploads
  <2> QED
    BY <2>1, <2>2, <2>3, <2>4, <2>5, <2>6
<1> QED
  BY <1>4, <1>6, <1>7 DEF UploadsInv

\* What is stored of a photo that is there, by a step
LEMMA SameSource ==
    ASSUME CallsInv, FilesInv, [Next]_vars, NEW i \in 1 .. made, i \in Rows(image')
    PROVE  /\ i \in Rows(image) /\ image'[i].source = image[i].source
           /\ image[i].source = "upload" => image'[i].file = image[i].file
<1>1. i \in Ids /\ image'[i].source # "none" /\ RowChange(i)
  BY ImageSteps DEF Rows, RowsChange
<1>2. ~Gone(i) /\ ~FromFeed(i)
  BY <1>1, NewRows DEF Gone, FromFeed, FilesInv
<1>3. \A c \in Calls : ~Uploaded(i, c)
  BY NewRows DEF Uploaded, NextId, FilesInv
<1>4. CASE Kept(i)
  BY <1>1, <1>4 DEF Kept, SameFile, Rows
<1>5. ASSUME NEW c \in Calls, FileStored(i, c)
      PROVE  i \in Rows(image) /\ image'[i].source = image[i].source
             /\ image[i].source # "upload"
  BY <1>5 DEF FileStored, FilesInv, KpFilesInv, KpStore, At
<1> QED
  BY <1>1, <1>2, <1>3, <1>4, <1>5 DEF RowChange

LEMMA RemovesStep ==
    ASSUME CallsInv, FilesInv, [Next]_vars
    PROVE  RemovesInv'
<1>1. /\ spent \in Nat /\ \A who : Paths(who) \subseteq Paths(who)'
      /\ made \in Nat /\ made' \in Nat /\ made <= made'
  BY SpentSteps, ImageSteps, NewRows, LastImage DEF FilesInv, ImagesInv, RowsChange
<1> SUFFICES ASSUME NEW c \in Calls, call'[c].kind = "remove"
             PROVE  /\ call'[c].of \in 1 .. made'
                    /\ call'[c].at \in {"write", "unlink"}
                    /\ call'[c].saw.source = "upload" => call'[c].saw.file \in Paths("upload")'
                    /\ call'[c].of \in Rows(image') =>
                         /\ image'[call'[c].of].source = call'[c].saw.source
                         /\ call'[c].saw.source = "upload" =>
                              image'[call'[c].of].file = call'[c].saw.file
                    /\ call'[c].at = "unlink" =>
                         /\ call'[c].saw.source = "upload"
                         /\ \A j \in Uploads(image') : image'[j].file # call'[c].saw.file
  BY DEF RemovesInv
<1>2. CASE Begun(c)
  <2>1. PICK i \in Ids : StartRemove(c, i)
    BY <1>2, BegunAs
  <2>2. /\ i \in Rows(image) /\ UNCHANGED <<image, made>>
        /\ call'[c].of = i /\ call'[c].at = "write" /\ call'[c].saw = image[i]
    BY <2>1, NewRemoval
  <2>3. i \in 1 .. made
    BY <2>2 DEF FilesInv, ImagesInv
  <2>4. image[i].source = "upload" => image[i].file \in Paths("upload")
    BY <2>2 DEF FilesInv, ImagesInv, Uploads
  <2> QED
    BY <1>1, <2>2, <2>3, <2>4
<1>3. CASE Passed(c)
  <2> DEFINE i == call[c].of
             row == call[c].saw
  <2>1. /\ call[c].kind = "remove" /\ call'[c] # Idle
        /\ call'[c].of = i /\ call'[c].saw = row
    BY <1>3, PassedCalls DEF Same
  <2>2. /\ i \in 1 .. made /\ call[c].at \in {"write", "unlink"}
        /\ row.source = "upload" => row.file \in Paths("upload")
        /\ i \in Rows(image) =>
             /\ image[i].source = row.source
             /\ row.source = "upload" => image[i].file = row.file
        /\ call[c].at = "unlink" =>
             row.source = "upload" /\ \A j \in Uploads(image) : image[j].file # row.file
    BY <2>1 DEF FilesInv, RemovesInv
  <2>3. /\ i \in 1 .. made'
        /\ row.source = "upload" => row.file \in Paths("upload")'
    BY <1>1, <2>2
  <2>4. i \in Rows(image') =>
          /\ image'[i].source = row.source
          /\ row.source = "upload" => image'[i].file = row.file
    BY <2>2, SameSource
  <2>5. ASSUME NEW d \in Calls, NEW j, Uploaded(j, d), row.source = "upload"
        PROVE  image'[j].file # row.file
    <3>1. call[d].kind = "upload" /\ image'[j].file = call[d].of
      BY <2>5 DEF Uploaded, UploadWrite, At
    <3> QED
      BY <2>1, <2>5, <3>1 DEF FilesInv, UploadsInv
  <2>6. CASE call'[c].at = call[c].at
    <3>1. ASSUME call[c].at = "unlink", NEW j \in Uploads(image')
          PROVE  image'[j].file # row.file
      BY <2>2, <2>5, <3>1, NewUploads DEF Kept, SameFile
    <3> HIDE DEF i, row
    <3> QED
      BY <2>1, <2>2, <2>3, <2>4, <2>6, <3>1
  <2>7. CASE RemoveWrite(c) /\ call'[c].at = "unlink"
    <3>1. i \in Rows(image) /\ row.source = "upload"
      <4>1. End(c) \/ Wrote(c, "idle") => call'[c] = Idle
        BY CallEnds, WritesStale
      <4> QED
        BY <2>1, <2>7, <4>1 DEF RemoveWrite
    <3>2. i \in Uploads(image) /\ image[i].file = row.file
      BY <2>2, <3>1 DEF Uploads
    <3>3. i \notin Uploads(image')
      BY <2>7, <3>1, RemoveRows DEF FilesInv, Uploads
    <3>4. ASSUME NEW j \in Uploads(image')
          PROVE  image'[j].file # row.file
      <4>1. CASE Kept(j) /\ j \in Uploads(image)
        BY <3>2, <3>3, <3>4, <4>1 DEF Kept, SameFile, FilesInv, ImagesInv
      <4> QED
        BY <2>5, <3>1, <4>1, NewUploads
    <3> HIDE DEF i, row
    <3> QED
      BY <2>1, <2>3, <2>4, <2>7, <3>1, <3>4
  <2>8. CASE KpSave(c)
    BY <2>1, <2>8 DEF KpSave, At
  <2> QED
    BY <1>3, <2>1, <2>6, <2>7, <2>8 DEF Passed
<1> QED
  BY <1>2, <1>3, CallSteps

LEMMA KpFilesStep ==
    ASSUME CallsInv, FilesInv, [Next]_vars
    PROVE  KpFilesInv'
<1>1. /\ spent \in Nat /\ spent' \in Nat /\ \A who : Paths(who) \subseteq Paths(who)'
      /\ made \in Nat /\ made' \in Nat /\ made <= made'
  BY SpentSteps, ImageSteps, NewRows, LastImage DEF FilesInv, ImagesInv, RowsChange
<1> SUFFICES ASSUME NEW c \in Calls, call'[c].kind = "kp"
             PROVE  /\ call'[c].of \in 1 .. made'
                    /\ call'[c].of \in Rows(image') => image'[call'[c].of].source = "feed"
                    /\ call'[c].ask \in Paths("kp")'
                    /\ call'[c].at = "store" => call'[c].ask \in disk'
  BY DEF KpFilesInv
<1>2. CASE Begun(c)
  <2>1. PICK i \in Ids : StartKp(c, i)
    BY <1>2, BegunAs
  <2>2. /\ i \in Marked(image) /\ image[i].source = "feed"
        /\ Begin(c, "images", "kp", i, [by |-> "kp", n |-> spent + 1], None)
        /\ UNCHANGED <<image, made>>
    BY <2>1 DEF StartKp, records, photos
  <2>3. call'[c] = [kind |-> "kp", at |-> "write", of |-> i,
                    ask |-> [by |-> "kp", n |-> spent + 1], saw |-> None, stale |-> FALSE]
    BY <2>2, CallBegins
  <2>4. spent' = spent + 1
    BY <2>2 DEF Begin, Spend
  <2>5. [by |-> "kp", n |-> spent + 1] \in Paths("kp")'
    BY <1>1, <2>4 DEF Paths
  <2>6. i \in 1 .. made
    BY <2>2 DEF Marked, FilesInv, ImagesInv
  <2> QED
    BY <1>1, <2>2, <2>3, <2>5, <2>6
<1>3. CASE Passed(c)
  <2>1. Same(call[c], call'[c]) /\ call'[c] # Idle
    BY <1>3, PassedCalls
  <2>2. /\ call[c].of \in 1 .. made
        /\ call[c].of \in Rows(image) => image[call[c].of].source = "feed"
        /\ call[c].ask \in Paths("kp")
        /\ call[c].at = "store" => call[c].ask \in disk
    BY <2>1 DEF Same, FilesInv, KpFilesInv
  <2>3. call'[c].of \in 1 .. made' /\ call'[c].ask \in Paths("kp")'
    BY <1>1, <2>1, <2>2 DEF Same
  <2>4. call[c].of \in Rows(image') => image'[call[c].of].source = "feed"
    BY <2>2, SameSource
  <2>5. CASE call'[c].at = call[c].at
    <3>1. call[c].at = "store" => call[c].ask \in disk'
      BY <2>2, KpFilesStay
    <3> QED
      BY <2>1, <2>3, <2>4, <2>5, <3>1 DEF Same
  <2>6. CASE KpSave(c) /\ call'[c].at = "store"
    <3>1. disk' = disk \cup {call[c].ask}
      <4>1. call' = [call EXCEPT ![c] = Idle] => call'[c] = Idle
        BY DEF CallsInv
      <4> QED
        BY <2>1, <2>6, <4>1 DEF KpSave
    <3> QED
      BY <2>1, <2>3, <2>4, <3>1 DEF Same
  <2>7. CASE RemoveWrite(c)
    BY <2>1, <2>7 DEF RemoveWrite, At, Same
  <2> QED
    BY <1>3, <2>1, <2>5, <2>6, <2>7 DEF Passed
<1> QED
  BY <1>2, <1>3, CallSteps

LEMMA RowCallsStep ==
    ASSUME CallsInv, FilesInv, [Next]_vars
    PROVE  RowCallsInv'
<1>1. made \in Nat /\ made' \in Nat /\ made <= made'
  BY ImageSteps, NewRows, LastImage DEF FilesInv, RowsChange
<1>2. ASSUME NEW c \in Calls, call'[c].kind = "feed"
      PROVE  /\ call'[c].of \in Urls
             /\ call'[c].ask \in Asks \cup {[main |-> None, order |-> None]}
  <2>1. CASE Begun(c)
    <3>1. PICK url \in Urls, ask \in Asks \cup {[main |-> None, order |-> None]} :
             StartFeed(c, url, ask)
      BY <1>2, <2>1, BegunAs
    <3>2. Begin(c, "images", "feed", url, ask, None)
      BY <3>1 DEF StartFeed
    <3>3. call'[c] = [kind |-> "feed", at |-> "write", of |-> url,
                      ask |-> ask, saw |-> None, stale |-> FALSE]
      BY <3>2, CallBegins
    <3> QED
      BY <3>3
  <2>2. CASE Passed(c)
    BY <1>2, <2>2, PassedCalls DEF Same, FilesInv, RowCallsInv
  <2> QED
    BY <2>1, <2>2, CallSteps
<1>3. ASSUME NEW c \in Calls, call'[c].kind = "patch"
      PROVE  call'[c].of \in 1 .. made' /\ call'[c].ask \in Asks
  <2>1. CASE Begun(c)
    <3>1. PICK i \in Ids, ask \in Asks : StartPatch(c, i, ask)
      BY <1>3, <2>1, BegunAs
    <3>2. i \in Rows(image) /\ Begin(c, "images", "patch", i, ask, None)
      BY <3>1 DEF StartPatch
    <3>3. call'[c] = [kind |-> "patch", at |-> "write", of |-> i,
                      ask |-> ask, saw |-> None, stale |-> FALSE]
      BY <3>2, CallBegins
    <3> QED
      BY <1>1, <3>2, <3>3 DEF FilesInv, ImagesInv
  <2>2. CASE Passed(c)
    BY <1>1, <1>3, <2>2, PassedCalls DEF Same, FilesInv, RowCallsInv
  <2> QED
    BY <2>1, <2>2, CallSteps
<1>4. ASSUME NEW c \in Calls, call'[c].kind = "price"
      PROVE  call'[c].at = "write" /\ call'[c].of \in UrlLists /\ call'[c].ask \in BOOLEAN
  <2>1. CASE Begun(c)
    <3>1. PICK urls \in UrlLists, replace \in BOOLEAN : StartPrice(c, urls, replace)
      BY <1>4, <2>1, BegunAs
    <3>2. Begin(c, "images", "price", urls, replace, None)
      BY <3>1 DEF StartPrice
    <3>3. call'[c] = [kind |-> "price", at |-> "write", of |-> urls,
                      ask |-> replace, saw |-> None, stale |-> FALSE]
      BY <3>2, CallBegins
    <3> QED
      BY <3>3
  <2>2. CASE Passed(c)
    <3>1. Same(call[c], call'[c]) /\ call'[c] # Idle
      BY <1>4, <2>2, PassedCalls
    <3>2. call'[c].at = call[c].at
      BY <1>4, <2>2, <3>1 DEF Passed, Same, RemoveWrite, KpSave, At
    <3> QED
      BY <1>4, <3>1, <3>2 DEF Same, FilesInv, RowCallsInv
  <2> QED
    BY <2>1, <2>2, CallSteps
<1> QED
  BY <1>2, <1>3, <1>4 DEF RowCallsInv

LEMMA ImagesStep ==
    ASSUME CallsInv, FilesInv, [Next]_vars
    PROVE  ImagesInv'
<1>1. /\ spent \in Nat /\ spent' \in Nat /\ spent' >= spent
      /\ \A who : Paths(who) \subseteq Paths(who)'
  BY SpentSteps DEF FilesInv, ImagesInv
<1>2. /\ image' \in [Ids -> ImageRow] /\ made' \in 0 .. MaxImages
      /\ Rows(image') \subseteq 1 .. made'
  <2>1. made' \in made .. MaxImages /\ made \in Nat
    BY ImageSteps, NewRows DEF FilesInv, RowsChange
  <2>2. \A i \in Ids : i \in 1 .. made' \/ image'[i].source = "none"
    BY <2>1, ImageSteps, LastImage DEF RowsChange, Ids
  <2> QED
    BY <2>1, <2>2, ImageSteps, LastImage DEF RowsChange, Rows
<1>3. disk' \subseteq Paths("upload")' \cup Paths("kp")'
  <2>1. disk \subseteq Paths("upload")' \cup Paths("kp")'
    BY <1>1 DEF FilesInv, ImagesInv
  <2>2. ASSUME NEW c \in Calls, StartUpload(c)
        PROVE  disk' = disk \cup {[by |-> "upload", n |-> spent']} /\ spent' \in 1 .. spent'
    BY <1>1, <2>2, NewUpload
  <2>3. \A c \in Calls : KpSave(c) => call[c].ask \in Paths("kp")'
    BY <1>1 DEF KpSave, At, FilesInv, KpFilesInv
  <2>4. spent' \in 1 .. spent' => [by |-> "upload", n |-> spent'] \in Paths("upload")'
    BY DEF Paths
  <2> QED
    BY <2>1, <2>2, <2>3, <2>4, DiskSteps
<1>4. ASSUME NEW i \in Uploads(image')
      PROVE  image'[i].file \in Paths("upload")' \cap disk'
  <2>1. CASE Kept(i) /\ i \in Uploads(image)
    <3>1. image'[i].file = image[i].file /\ image[i].file \in Paths("upload") \cap disk
      BY <2>1 DEF Kept, SameFile, FilesInv, ImagesInv
    <3>2. ASSUME NEW c \in Calls, UploadFails(c)
          PROVE  call[c].of # image[i].file
      BY <2>1, <3>2 DEF UploadFails, At, FilesInv, UploadsInv
    <3>3. ASSUME NEW c \in Calls, RemoveUnlink(c)
          PROVE  call[c].saw.file # image[i].file
      BY <2>1, <3>3 DEF RemoveUnlink, At, FilesInv, RemovesInv
    <3>4. ASSUME NEW c \in Calls, StartUpload(c)
          PROVE  disk \subseteq disk'
      BY <3>4, NewUpload
    <3> QED
      BY <1>1, <3>1, <3>2, <3>3, <3>4, DiskSteps
  <2>2. ASSUME NEW c \in Calls, Uploaded(i, c)
        PROVE  image'[i].file \in Paths("upload")' \cap disk'
    BY <1>1, <2>2 DEF Uploaded, UploadWrite, At, FilesInv, UploadsInv
  <2> QED
    BY <2>1, <2>2, NewUploads
<1>5. ASSUME NEW i \in Rows(image') \ Uploads(image'), image'[i].file # None
      PROVE  image'[i].file \in Paths("kp")' \cap disk'
  <2>1. i \in Ids /\ image'[i].source # "none" /\ image'[i].source # "upload" /\ RowChange(i)
    BY <1>5, ImageSteps DEF Rows, Uploads, RowsChange
  <2>2. CASE Kept(i)
    <3>1. i \in Rows(image) \ Uploads(image) /\ image[i].file = image'[i].file
      BY <2>1, <2>2 DEF Kept, SameFile, Rows, Uploads
    <3>2. image[i].file \in Paths("kp") \cap disk
      BY <1>5, <3>1 DEF FilesInv, ImagesInv
    <3> QED
      BY <1>1, <3>1, <3>2, KpFilesStay
  <2>3. ASSUME NEW c \in Calls, FileStored(i, c)
        PROVE  image'[i].file \in Paths("kp")' \cap disk'
    BY <1>1, <2>3 DEF FileStored, KpStore, At, FilesInv, KpFilesInv
  <2> QED
    BY <1>5, <2>1, <2>2, <2>3 DEF RowChange, Gone, FromFeed, Uploaded
<1>6. ASSUME NEW i \in Uploads(image'), NEW j \in Uploads(image'), image'[i].file = image'[j].file
      PROVE  i = j
  <2>1. ASSUME NEW x \in Uploads(image), Kept(x), NEW y, NEW c \in Calls, Uploaded(y, c)
        PROVE  image'[x].file # image'[y].file
    <3>1. call[c].kind = "upload" /\ image'[y].file = call[c].of /\ image'[x].file = image[x].file
      BY <2>1 DEF Uploaded, UploadWrite, At, Kept, SameFile
    <3> QED
      BY <3>1 DEF FilesInv, UploadsInv
  <2>2. ASSUME i \in Uploads(image), j \in Uploads(image), Kept(i), Kept(j)
        PROVE  i = j
    BY <1>6, <2>2 DEF Kept, SameFile, FilesInv, ImagesInv
  <2>3. ASSUME NEW c \in Calls, NEW d \in Calls, Uploaded(i, c), Uploaded(j, d)
        PROVE  i = j
    BY <2>3 DEF Uploaded
  <2> QED
    BY <1>6, <2>1, <2>2, <2>3, NewUploads
<1> QED
  BY <1>1, <1>2, <1>3, <1>4, <1>5, <1>6 DEF ImagesInv

LEMMA FilesStep ==
    ASSUME CallsInv, FilesInv, [Next]_vars
    PROVE  FilesInv'
BY ImagesStep, UploadsStep, RemovesStep, KpFilesStep, RowCallsStep DEF FilesInv

\* An uploaded file is a photo's, or a call's that is under way.
FileHeld(path) ==
    \/ \E i \in Uploads(image) : image[i].file = path
    \/ \E c \in Calls : At(c, "upload", "write") /\ call[c].of = path
    \/ \E c \in Calls : At(c, "remove", "unlink") /\ call[c].saw.file = path

HeldInv == restarted \/ \A path \in disk \cap Paths("upload") : FileHeld(path)

\* Who holds a file does so until it has written or removed it.
LEMMA HoldingCalls ==
    ASSUME CallsInv, [Next]_vars, ~Restart, NEW d \in Calls,
           At(d, "upload", "write") \/ At(d, "remove", "unlink")
    PROVE  \/ Same(call[d], call'[d]) /\ call'[d].at = call[d].at
           \/ call[d].kind = "upload" /\ (UploadWrite(d) \/ UploadFails(d))
           \/ call[d].kind = "remove" /\ RemoveUnlink(d)
<1>1. CASE UNCHANGED vars
  BY <1>1 DEF vars, Same
<1>2. CASE CreateRequest
  BY <1>2, CreationStales
<1>3. ASSUME NEW c \in Calls, Begun(c)
      PROVE  Same(call[d], call'[d]) /\ call'[d].at = call[d].at
  <2>1. ~Busy(c)
    BY <1>3 DEF Begun, StartDirectoryCall, StartImageCall, StartSettings, StartCompany, StartUnit,
                StartClient, StartUpload, StartFeed, StartPatch, StartRemove, StartKp, StartPrice,
                Begin
  <2>2. c # d
    BY <2>1 DEF Busy, At
  <2> QED
    BY <1>3, <2>2, BegunCalls DEF Same
<1>4. ASSUME NEW c \in Calls, Writes(c)
      PROVE  \/ Same(call[d], call'[d]) /\ call'[d].at = call[d].at
             \/ call[d].kind = "upload" /\ UploadWrite(d)
  <2>1. CASE c = d
    BY <1>4, <2>1 DEF At, Writes, SettingsWrite, CompanyWrite, UnitWrite, ClientWrite, UploadWrite,
                      FeedWrite, PatchWrite, RemoveWrite, PriceWrite
  <2>2. CASE c # d /\ End(c)
    BY <2>2, CallEnds DEF Same
  <2>3. ASSUME NEW point \in {"idle", "unlink"}, c # d, Wrote(c, point)
        PROVE  Same(call[d], call'[d]) /\ call'[d].at = call[d].at
    BY <2>3, WritesStale
  <2> QED
    BY <1>4, <2>1, <2>2, <2>3, WritingCalls
<1>5. ASSUME NEW c \in Calls, Quits(c)
      PROVE  \/ Same(call[d], call'[d]) /\ call'[d].at = call[d].at
             \/ call[d].kind = "upload" /\ UploadFails(d)
             \/ call[d].kind = "remove" /\ RemoveUnlink(d)
  <2>1. CASE c = d
    BY <1>5, <2>1 DEF At, Quits, UploadFails, RemoveUnlink, KpStore
  <2>2. CASE c # d
    BY <1>5, <2>2, QuittingCalls, CallEnds DEF Same
  <2> QED
    BY <2>1, <2>2
<1>6. ASSUME NEW c \in Calls, KpSave(c)
      PROVE  Same(call[d], call'[d]) /\ call'[d].at = call[d].at
  <2>1. c # d
    BY <1>6 DEF KpSave, At
  <2> QED
    BY <1>6, <2>1, KpSaves DEF Same
<1> QED
  BY <1>1, <1>2, <1>3, <1>4, <1>5, <1>6, NextSteps

LEMMA HeldStep ==
    ASSUME CallsInv, FilesInv, HeldInv, [Next]_vars
    PROVE  HeldInv'
<1>1. restarted' \/ (~restarted /\ ~Restart)
  <2>1. CASE UNCHANGED vars
    BY <2>1 DEF vars, Restart
  <2>2. CASE Restart
    BY <2>2 DEF Restart
  <2>3. CASE CreateRequest
    BY <2>3 DEF CreateRequest, WroteAtOnce, Restart
  <2>4. ASSUME NEW c \in Calls, Begun(c) \/ Writes(c) \/ Quits(c) \/ KpSave(c)
        PROVE  restarted' = restarted
    BY <2>4, BegunCalls, WritingCalls, QuittingCalls DEF End, Wrote, KpSave
  <2> QED
    BY <2>1, <2>2, <2>3, <2>4, NextSteps DEF Restart
<1> SUFFICES ASSUME ~restarted, ~Restart, NEW path \in disk' \cap Paths("upload")'
             PROVE  FileHeld(path)'
  BY <1>1 DEF HeldInv
<1>2. path.by = "upload"
  BY DEF Paths
<1>3. CASE path \notin disk
  <2>1. ASSUME NEW c \in Calls, StartUpload(c)
        PROVE  FileHeld(path)'
    <3>1. /\ call'[c].kind = "upload" /\ call'[c].at = "write"
          /\ disk' = disk \cup {call'[c].of}
      BY <2>1, NewUpload
    <3>2. call'[c].of = path
      BY <1>3, <3>1
    <3> QED
      BY <3>1, <3>2 DEF FileHeld, At
  <2>2. ASSUME NEW c \in Calls, KpSave(c), disk' = disk \cup {call[c].ask}
        PROVE  FALSE
    <3>1. call[c].ask \in Paths("kp") /\ path = call[c].ask
      BY <1>3, <2>2 DEF KpSave, At, FilesInv, KpFilesInv
    <3> QED
      BY <1>2, <3>1 DEF Paths
  <2> QED
    BY <1>3, <2>1, <2>2, DiskSteps
<1>4. CASE path \in disk
  <2>1. path \in Paths("upload")
    <3>1. path \in Paths("upload") \cup Paths("kp")
      BY <1>4 DEF FilesInv, ImagesInv
    <3>2. path \notin Paths("kp")
      BY <1>2 DEF Paths
    <3> QED
      BY <3>1, <3>2
  <2>2. FileHeld(path)
    BY <1>4, <2>1 DEF HeldInv
  <2>3. ASSUME NEW i \in Uploads(image), image[i].file = path
        PROVE  FileHeld(path)'
    <3>1. i \in 1 .. made /\ i \in Ids
      BY DEF FilesInv, ImagesInv, Uploads, Rows
    <3>2. CASE i \in Rows(image')
      <4>1. image'[i].source = image[i].source /\ image'[i].file = image[i].file
        BY <3>1, <3>2, SameSource DEF Uploads
      <4> QED
        BY <2>3, <3>2, <4>1 DEF FileHeld, Uploads
    <3>3. CASE i \notin Rows(image')
      <4>1. PICK c \in Calls : RemoveWrite(c) /\ call[c].of = i
        <5>1. RowChange(i) /\ image'[i].source = "none"
          BY <3>1, <3>3, ImageSteps DEF RowsChange, Rows
        <5>2. image[i].source = "upload"
          BY DEF Uploads
        <5> QED
          BY <5>1, <5>2 DEF RowChange, Kept, SameFile, Gone, FromFeed, Uploaded, FileStored
      <4>2. /\ call[c].kind = "remove" /\ i \in Rows(image)
            /\ call[c].saw.source = "upload" /\ call[c].saw.file = path
        BY <2>3, <4>1 DEF RemoveWrite, At, Uploads, FilesInv, RemovesInv
      <4>3. Wrote(c, "unlink")
        BY <4>1, <4>2 DEF RemoveWrite
      <4>4. Same(call[c], call'[c]) /\ call'[c].at = "unlink"
        BY <4>3, WritesStale
      <4> QED
        BY <4>2, <4>4 DEF FileHeld, At, Same
    <3> QED
      BY <3>2, <3>3
  <2>4. ASSUME NEW c \in Calls, At(c, "upload", "write"), call[c].of = path
        PROVE  FileHeld(path)'
    <3>1. CASE Same(call[c], call'[c]) /\ call'[c].at = call[c].at
      BY <2>4, <3>1 DEF FileHeld, At, Same
    <3>2. CASE UploadWrite(c)
      <4>1. PICK i \in Ids : Uploaded(i, c)
        BY <3>2, UploadRows DEF FilesInv
      <4>2. i \in Uploads(image') /\ image'[i].file = path
        BY <2>4, <4>1 DEF Uploaded, Uploads, Rows
      <4> QED
        BY <4>2 DEF FileHeld
    <3>3. CASE UploadFails(c)
      BY <2>4, <3>3 DEF UploadFails
    <3> QED
      BY <2>4, <3>1, <3>2, <3>3, HoldingCalls DEF At
  <2>5. ASSUME NEW c \in Calls, At(c, "remove", "unlink"), call[c].saw.file = path
        PROVE  FileHeld(path)'
    <3>1. CASE Same(call[c], call'[c]) /\ call'[c].at = call[c].at
      BY <2>5, <3>1 DEF FileHeld, At, Same
    <3>2. CASE RemoveUnlink(c)
      BY <2>5, <3>2 DEF RemoveUnlink
    <3> QED
      BY <2>5, <3>1, <3>2, HoldingCalls DEF At
  <2> QED
    BY <2>2, <2>3, <2>4, <2>5 DEF FileHeld
<1> QED
  BY <1>3, <1>4

LEMMA FilesAreKept ==
    ASSUME FilesInv, HeldInv
    PROVE  ImageFilesKept
<1>1. \A i \in Rows(image) : image[i].file # None => image[i].file \in disk
  BY DEF FilesInv, ImagesInv
<1>2. ASSUME ~restarted, NEW path \in disk, path.by = "upload"
      PROVE  \/ \E i \in Rows(image) : image[i].file = path
             \/ \E c \in Calls : At(c, "upload", "write") /\ call[c].of = path
             \/ \E c \in Calls : At(c, "remove", "unlink") /\ call[c].saw.file = path
  <2>1. path \in Paths("upload")
    BY <1>2 DEF FilesInv, ImagesInv, Paths
  <2> QED
    BY <1>2, <2>1 DEF HeldInv, FileHeld, Uploads
<1> QED
  BY <1>1, <1>2 DEF ImageFilesKept

-----------------------------------------------------------------------------
(* The main photo *)

LEMMA Minimum ==
    ASSUME NEW T \in SUBSET Nat, T # {}
    PROVE  \E x \in T : \A y \in T : x <= y
<1> DEFINE less == {p \in Nat \X Nat : p[1] < p[2]}
<1>1. OpToRel(<, Nat) = less
  BY Zenon DEF OpToRel
<1>2. IsWellFoundedOn(less, Nat)
  BY <1>1, NatLessThanWellFounded, Zenon
<1>3. PICK x \in T : \A y \in T : ~(<<y, x>> \in less)
  <2> HIDE DEF less
  <2> QED
    BY <1>2, WFMin
<1>4. ASSUME NEW y \in T
      PROVE  x <= y
  <2>1. x \in Nat /\ y \in Nat
    OBVIOUS
  <2>2. y < x => <<y, x>> \in less
    BY <2>1
  <2> QED
    BY <1>3, <2>1, <2>2
<1> QED
  BY <1>3, <1>4

\* There is a photo that comes before all others.
LEMMA FirstPhoto ==
    ASSUME NEW img \in [Ids -> ImageRow], Rows(img) # {}
    PROVE  /\ Earliest(img) \in Rows(img)
           /\ \A j \in Rows(img) \ {Earliest(img)} : Earlier(img, Earliest(img), j)
<1> DEFINE T == IF Marked(img) # {} THEN Marked(img) ELSE Rows(img)
           orders == {img[i].order : i \in T}
<1>1. /\ T # {} /\ T \subseteq Rows(img) /\ T \subseteq Ids
      /\ \A i \in T, j \in Rows(img) \ T : img[i].main /\ ~img[j].main
      /\ \A i, j \in T : img[i].main = img[j].main
  <2>1. \A i \in Ids : img[i].main \in BOOLEAN
    BY DEF ImageRow
  <2> QED
    BY <2>1 DEF Marked, Rows
<1>2. Ids \subseteq Nat
  BY LastImage DEF Ids
<1>3. orders \in SUBSET Nat /\ orders # {}
  BY <1>1 DEF ImageRow
<1>4. PICK o \in orders : \A x \in orders : o <= x
  BY <1>3, Minimum
<1> DEFINE first == {i \in T : img[i].order = o}
<1>5. first \in SUBSET Nat /\ first # {}
  BY <1>1, <1>2
<1>6. PICK e \in first : \A i \in first : e <= i
  BY <1>5, Minimum
<1>7. ASSUME NEW j \in Rows(img) \ {e}
      PROVE  Earlier(img, e, j)
  <2>1. e \in T /\ img[e].order = o /\ e \in Nat /\ j \in Nat
    BY <1>1, <1>2, <1>6 DEF Rows
  <2>2. CASE j \notin T
    <3>1. img[e].main /\ ~img[j].main
      BY <1>1, <1>7, <2>1, <2>2
    <3> HIDE DEF T
    <3> QED
      BY <3>1 DEF Earlier
  <2>3. CASE j \in T
    <3>1. img[j].main = img[e].main /\ o <= img[j].order
      BY <1>1, <1>4, <2>1, <2>3
    <3>2. CASE img[j].order = o
      <4>1. e <= j
        BY <1>6, <2>3, <3>2
      <4>2. e < j
        BY <1>7, <2>1, <4>1
      <4> HIDE DEF T, first
      <4> QED
        BY <2>1, <3>1, <3>2, <4>2 DEF Earlier
    <3>3. CASE img[j].order # o
      <4>1. img[j].order \in Nat /\ o \in Nat
        BY <1>3, <2>3, <1>1 DEF ImageRow
      <4> HIDE DEF T, first, orders
      <4> QED
        BY <2>1, <3>1, <3>3, <4>1 DEF Earlier
    <3> QED
      BY <3>2, <3>3
  <2> QED
    BY <2>2, <2>3
<1>8. e \in Rows(img)
  BY <1>1, <1>6
<1> HIDE DEF T, orders, first
<1> QED
  BY <1>7, <1>8 DEF Earliest

OneMarked(img) == \A i, j \in Marked(img) : i = j

\* The marked photo comes first.
LEMMA MarkedFirst ==
    ASSUME NEW img \in [Ids -> ImageRow], OneMarked(img), NEW m \in Marked(img)
    PROVE  Earliest(img) = m /\ Synced(img) = UrlOf(img, m)
<1>1. m \in Rows(img) /\ img[m].main
  BY DEF Marked
<1>2. Earliest(img) = m
  <2>1. Earliest(img) \in Rows(img)
    BY <1>1, FirstPhoto
  <2>2. ASSUME Earliest(img) # m
        PROVE  FALSE
    <3>1. Earlier(img, Earliest(img), m)
      BY <1>1, <2>2, FirstPhoto
    <3>2. ~img[Earliest(img)].main
      BY <2>1, <2>2 DEF OneMarked, Marked
    <3> QED
      BY <1>1, <3>1, <3>2 DEF Earlier
  <2> QED
    BY <2>2
<1> QED
  BY <1>2 DEF Synced

\* Marks of photos that are kept or given
MarksKept(img, new) ==
    /\ OneMarked(new)
    /\ Marked(img) # {} /\ Rows(new) # {} => Marked(new) # {}

LEMMA PromotedMarks ==
    ASSUME NEW img \in [Ids -> ImageRow], OneMarked(img)
    PROVE  /\ OneMarked(Promoted(img)) /\ Rows(Promoted(img)) = Rows(img)
           /\ Rows(img) # {} => Marked(Promoted(img)) # {}
<1>1. CASE Rows(img) = {}
  BY <1>1 DEF Promoted
<1>2. CASE Rows(img) # {}
  <2> DEFINE e == Earliest(img)
             new == [img EXCEPT ![e].main = TRUE]
  <2>1. e \in Rows(img) /\ e \in Ids
    BY <1>2, FirstPhoto DEF Rows
  <2>2. Promoted(img) = new
    BY <1>2 DEF Promoted
  <2>3. \A m \in Marked(img) : e = m
    BY MarkedFirst
  <2> HIDE DEF e
  <2>4. img[e] \in ImageRow /\ new = [img EXCEPT ![e] = [img[e] EXCEPT !.main = TRUE]]
    BY <2>1
  <2>5. /\ new[e].source = img[e].source /\ new[e].main
        /\ \A i \in Ids \ {e} : new[i] = img[i]
    BY <2>1, <2>4 DEF ImageRow
  <2> HIDE DEF new
  <2>6. Rows(new) = Rows(img)
    BY <2>1, <2>5 DEF Rows
  <2>7. Marked(new) = {e}
    <3>1. e \in Marked(new)
      BY <2>1, <2>5, <2>6 DEF Marked
    <3>2. ASSUME NEW i \in Marked(new), i # e
          PROVE  FALSE
      <4>1. i \in Rows(img) /\ img[i].main
        BY <2>5, <2>6, <3>2 DEF Marked, Rows
      <4> QED
        BY <2>3, <3>2, <4>1 DEF Marked
    <3> QED
      BY <3>1, <3>2
  <2> QED
    BY <2>2, <2>6, <2>7 DEF OneMarked
<1> QED
  BY <1>1, <1>2

\* One row gets or loses its mark; the others are as before.
LEMMA OneRemarked ==
    ASSUME NEW img \in [Ids -> ImageRow], NEW new \in [Ids -> ImageRow], NEW i \in Rows(img),
           \A j \in Ids : new[j].source = img[j].source,
           \A j \in Ids \ {i} : new[j].main = img[j].main
    PROVE  /\ Rows(new) = Rows(img)
           /\ Marked(new) = IF new[i].main THEN Marked(img) \cup {i} ELSE Marked(img) \ {i}
<1>1. Rows(new) = Rows(img)
  BY DEF Rows
<1>2. \A j \in Ids \ {i} : j \in Marked(new) <=> j \in Marked(img)
  BY <1>1 DEF Marked
<1>3. i \in Marked(new) <=> new[i].main
  BY <1>1 DEF Marked
<1>4. Marked(new) \subseteq Ids /\ Marked(img) \subseteq Ids
  BY DEF Marked, Rows
<1> QED
  BY <1>1, <1>2, <1>3, <1>4

LEMMA DemotedMarks ==
    ASSUME NEW img \in [Ids -> ImageRow], NEW but
    PROVE  /\ Demoted(img, but) \in [Ids -> ImageRow]
           /\ Rows(Demoted(img, but)) = Rows(img) /\ Marked(Demoted(img, but)) \subseteq {but}
<1> DEFINE new == Demoted(img, but)
<1>1. new \in [Ids -> ImageRow] /\ \A i \in Ids : new[i].source = img[i].source
  BY Remarked DEF SameFile
<1>2. \A i \in Ids : i = but \/ ~new[i].main
  <2>1. \A i \in Ids : i = but \/ new[i] = [img[i] EXCEPT !.main = FALSE]
    BY DEF Demoted
  <2>2. \A i \in Ids : ~[img[i] EXCEPT !.main = FALSE].main
    BY DEF ImageRow
  <2> HIDE DEF new
  <2> QED
    BY <2>1, <2>2
<1> HIDE DEF new
<1>3. Rows(new) = Rows(img)
  BY <1>1 DEF Rows
<1>4. Marked(new) \subseteq {but}
  BY <1>2 DEF Marked, Rows
<1> QED
  BY <1>1, <1>3, <1>4 DEF new

\* A row is added.
LEMMA AddedMarks ==
    ASSUME NEW img \in [Ids -> ImageRow], OneMarked(img), NEW i \in Ids \ Rows(img),
           NEW row \in ImageRow, row.source # "none", row.main => Marked(img) = {}
    PROVE  /\ OneMarked([img EXCEPT ![i] = row])
           /\ Marked(img) # {} \/ row.main => Marked([img EXCEPT ![i] = row]) # {}
<1> DEFINE new == [img EXCEPT ![i] = row]
<1>1. new[i] = row /\ \A j \in Ids \ {i} : new[j] = img[j]
  OBVIOUS
<1> HIDE DEF new
<1>2. Rows(new) = Rows(img) \cup {i}
  BY <1>1 DEF Rows
<1>3. Marked(new) = IF row.main THEN {i} ELSE Marked(img)
  <2>1. \A j \in Ids \ {i} : j \in Marked(new) <=> j \in Marked(img)
    BY <1>1, <1>2 DEF Marked
  <2>2. i \in Marked(new) <=> row.main
    BY <1>1, <1>2 DEF Marked
  <2>3. Marked(new) \subseteq Ids /\ Marked(img) \subseteq Ids /\ i \notin Marked(img)
    BY DEF Marked, Rows
  <2> QED
    BY <2>1, <2>2, <2>3
<1> QED
  BY <1>3 DEF OneMarked, new

\* What a transaction on the photos leaves
Marks == MarksKept(image, image') /\ shown' = Synced(image')

LEMMA UploadMarks ==
    ASSUME ImagesInv, UploadsInv, OneMarked(image), NEW c \in Calls, UploadWrite(c)
    PROVE  Marks
<1> DEFINE new == [source |-> "upload", url |-> None, file |-> call[c].of,
                   main |-> Rows(image) = {}, order |-> NewOrder(image)]
<1>1. NextId \in Ids /\ image' = [image EXCEPT ![NextId] = new] /\ shown' = Synced(image')
  BY NewRows DEF UploadWrite, Commit
<1>2. new \in ImageRow
  <2>1. call[c].of \in Paths("upload")
    BY DEF UploadsInv, UploadWrite, At
  <2>2. call[c].of \in [by : {"upload", "kp"}, n : Nat]
    BY <2>1 DEF Paths, ImagesInv
  <2> QED
    BY <2>2, NewRows DEF ImageRow, Sources
<1>3. new.source # "none" /\ (new.main => Marked(image) = {})
  BY DEF Marked
<1>4. NextId \notin Rows(image)
  BY NewRows DEF ImagesInv, NextId
<1> HIDE DEF new
<1> QED
  BY <1>1, <1>2, <1>3, <1>4, AddedMarks DEF Marks, MarksKept, ImagesInv

LEMMA FeedMarks ==
    ASSUME ImagesInv, RowCallsInv, OneMarked(image), NEW c \in Calls, FeedWrite(c)
    PROVE  Marks
<1> DEFINE ask == call[c].ask
           main == IF ask.main = None THEN Rows(image) = {} ELSE ask.main
           before == IF main THEN Demoted(image, None) ELSE image
           order == IF ask.order = None THEN NewOrder(image) ELSE ask.order
           new == [source |-> "feed", url |-> call[c].of, file |-> None,
                   main |-> main, order |-> order]
<1>1. NextId \in Ids /\ image' = [before EXCEPT ![NextId] = new] /\ shown' = Synced(image')
  BY NewRows DEF FeedWrite, Commit
<1>2. call[c].of \in Urls /\ ask \in Asks \cup {[main |-> None, order |-> None]}
  BY DEF FeedWrite, At, RowCallsInv
<1>3. main \in BOOLEAN /\ order \in Nat
  <2>1. /\ ask.main = None \/ ask.main \in BOOLEAN
        /\ ask.order = None \/ ask.order = 1
    BY <1>2, AskFields
  <2>2. main \in BOOLEAN
    BY <2>1
  <2>3. order \in Nat
    BY <2>1, NewRows
  <2> QED
    BY <2>2, <2>3
<1> HIDE DEF main, order, ask
<1>4. /\ before \in [Ids -> ImageRow] /\ Rows(before) = Rows(image)
      /\ OneMarked(before) /\ (main => Marked(before) = {})
      /\ ~main => Marked(before) = Marked(image)
  <2>1. CASE main
    <3>1. /\ Demoted(image, None) \in [Ids -> ImageRow]
          /\ Rows(Demoted(image, None)) = Rows(image)
          /\ Marked(Demoted(image, None)) \subseteq {None}
      BY DemotedMarks DEF ImagesInv
    <3>2. None \notin Ids
      BY NoneAssumption, LastImage DEF Ids
    <3>3. Marked(Demoted(image, None)) = {}
      BY <3>1, <3>2 DEF Marked, Rows
    <3> QED
      BY <2>1, <3>1, <3>3 DEF OneMarked
  <2>2. CASE ~main
    BY <1>3, <2>2 DEF ImagesInv
  <2> QED
    BY <1>3, <2>1, <2>2
<1> HIDE DEF before
<1>5. new \in ImageRow /\ new.source # "none" /\ new.main = main
  BY <1>2, <1>3 DEF ImageRow, Sources
<1>6. NextId \notin Rows(before)
  BY <1>4, NewRows DEF ImagesInv, NextId
<1> HIDE DEF new
<1>7. /\ OneMarked([before EXCEPT ![NextId] = new])
      /\ Marked(before) # {} \/ new.main => Marked([before EXCEPT ![NextId] = new]) # {}
  BY <1>1, <1>4, <1>5, <1>6, AddedMarks
<1> QED
  BY <1>1, <1>3, <1>4, <1>5, <1>7 DEF Marks, MarksKept

LEMMA PatchMarks ==
    ASSUME ImagesInv, RowCallsInv, OneMarked(image), NEW c \in Calls, PatchWrite(c),
           call[c].of \in Rows(image)
    PROVE  Marks
<1> DEFINE i == call[c].of
           ask == call[c].ask
           before == IF ask.main = TRUE THEN Demoted(image, i) ELSE image
           main == IF ask.main = None THEN image[i].main ELSE ask.main
           order == IF ask.order = None THEN image[i].order ELSE ask.order
           patched == [before EXCEPT ![i].main = main, ![i].order = order]
           after == IF ask.main = FALSE THEN Promoted(patched) ELSE patched
<1>1. image' = after /\ shown' = Synced(image')
  BY DEF PatchWrite, Commit
<1>2. i \in Ids /\ i \in Rows(image) /\ ask \in Asks /\ image \in [Ids -> ImageRow]
  BY DEF PatchWrite, At, RowCallsInv, ImagesInv, Rows
<1>3. image[i] \in ImageRow
  BY <1>2
<1>4. /\ main \in BOOLEAN /\ order \in Nat
      /\ ask.main = None \/ (ask.main \in BOOLEAN /\ main = ask.main)
      /\ ask.main = None => ask.main # TRUE /\ ask.main # FALSE
  <2>1. ask.main = None \/ ask.main \in BOOLEAN
    BY <1>2, AskFields
  <2>2. None # TRUE /\ None # FALSE
    BY NoneAssumption
  <2>3. main \in BOOLEAN /\ order \in Nat
    BY <1>2, <1>3 DEF Asks, ImageRow
  <2>4. ask.main \in BOOLEAN => main = ask.main
    BY <2>2
  <2> QED
    BY <2>1, <2>2, <2>3, <2>4
<1>5. before \in [Ids -> ImageRow] /\ \A j \in Ids : before[j].source = image[j].source
  BY <1>2, Remarked DEF SameFile
<1>6. /\ Rows(before) = Rows(image) /\ (ask.main # TRUE => before = image)
      /\ ask.main = TRUE => Marked(before) \subseteq {i}
  BY <1>2, DemotedMarks
<1> HIDE DEF before
<1>7. /\ patched \in [Ids -> ImageRow] /\ patched[i].main = main
      /\ \A j \in Ids : patched[j].source = before[j].source
      /\ \A j \in Ids \ {i} : patched[j].main = before[j].main
  <2> HIDE DEF main, order, i
  <2>1. patched = [before EXCEPT ![i] = [before[i] EXCEPT !.main = main, !.order = order]]
    BY <1>2, <1>5
  <2>2. before[i] \in ImageRow
    BY <1>2, <1>5
  <2> DEFINE new == [before[i] EXCEPT !.main = main, !.order = order]
  <2>3. new \in ImageRow /\ new.main = main /\ new.source = before[i].source
    BY <1>4, <2>2 DEF ImageRow
  <2>4. patched = [before EXCEPT ![i] = new]
    BY <2>1
  <2> HIDE DEF patched, new
  <2> QED
    BY <1>2, <1>5, <2>3, <2>4
<1> HIDE DEF patched, main, order, ask, i
<1>8. /\ Rows(patched) = Rows(image)
      /\ Marked(patched) = IF main THEN Marked(before) \cup {i} ELSE Marked(before) \ {i}
  <2>1. i \in Rows(before)
    BY <1>2, <1>6
  <2> QED
    BY <1>5, <1>6, <1>7, <2>1, OneRemarked
<1>9. CASE ask.main = TRUE
  <2>1. Marked(patched) = {i} /\ after = patched
    BY <1>4, <1>6, <1>8, <1>9
  <2> QED
    BY <1>1, <2>1 DEF Marks, MarksKept, OneMarked
<1>10. CASE ask.main = FALSE
  <2>1. OneMarked(patched) /\ after = Promoted(patched)
    BY <1>4, <1>6, <1>8, <1>10 DEF OneMarked
  <2>2. OneMarked(after) /\ Rows(after) = Rows(image) /\ Marked(after) # {}
    BY <1>2, <1>7, <1>8, <2>1, PromotedMarks
  <2> HIDE DEF after
  <2> QED
    BY <1>1, <2>2 DEF Marks, MarksKept
<1>11. CASE ask.main = None
  <2>1. main <=> image[i].main
    BY <1>11, <1>3 DEF main
  <2>2. i \in Marked(image) <=> image[i].main
    BY <1>2 DEF Marked
  <2>3. Marked(patched) = Marked(image) /\ after = patched
    BY <1>4, <1>6, <1>8, <1>11, <2>1, <2>2
  <2> QED
    BY <1>1, <2>3 DEF Marks, MarksKept, OneMarked
<1> QED
  BY <1>4, <1>9, <1>10, <1>11

LEMMA RemoveMarks ==
    ASSUME ImagesInv, OneMarked(image), NEW c \in Calls, RemoveWrite(c),
           call[c].of \in Rows(image), image[call[c].of].main = call[c].saw.main
    PROVE  Marks
<1> DEFINE i == call[c].of
           less == [image EXCEPT ![i] = NoImage]
           after == AfterRemove(less, call[c].saw)
<1>1. image' = after /\ shown' = Synced(image')
  BY DEF RemoveWrite, Commit
<1>2. i \in Ids /\ image \in [Ids -> ImageRow]
  BY DEF ImagesInv, Rows
<1>3. NoImage \in ImageRow /\ NoImage.source = "none"
  BY DEF NoImage, ImageRow, Sources
<1>4. less \in [Ids -> ImageRow] /\ less[i] = NoImage /\ \A j \in Ids \ {i} : less[j] = image[j]
  BY <1>2, <1>3
<1> HIDE DEF less
<1>5. Rows(less) = Rows(image) \ {i}
  BY <1>3, <1>4 DEF Rows
<1>6. Marked(less) = Marked(image) \ {i}
  <2>1. \A j \in Rows(less) : j # i /\ less[j] = image[j]
    BY <1>4, <1>5 DEF Rows
  <2> QED
    BY <1>5, <2>1 DEF Marked
<1>7. i \in Marked(image) <=> call[c].saw.main
  <2>1. image[i].main \in BOOLEAN
    BY <1>2 DEF ImageRow
  <2>2. i \in Marked(image) <=> image[i].main
    BY DEF Marked
  <2> QED
    BY <2>1, <2>2
<1>8. OneMarked(less)
  BY <1>6 DEF OneMarked
<1>9. CASE call[c].saw.main
  <2>1. after = Promoted(less)
    BY <1>9 DEF AfterRemove
  <2>2. /\ OneMarked(after) /\ Rows(after) = Rows(less)
        /\ Rows(after) # {} => Marked(after) # {}
    BY <1>4, <1>8, <2>1, PromotedMarks
  <2> HIDE DEF after
  <2> QED
    BY <1>1, <2>2 DEF Marks, MarksKept
<1>10. CASE ~call[c].saw.main
  <2>1. after = less /\ Marked(less) = Marked(image)
    BY <1>6, <1>7, <1>10 DEF AfterRemove
  <2> QED
    BY <1>1, <1>8, <2>1 DEF Marks, MarksKept
<1> QED
  BY <1>9, <1>10

\* Only files change: the marks, and the address of the main photo, stay.
LEMMA SameMarks ==
    ASSUME NEW img \in [Ids -> ImageRow], NEW new \in [Ids -> ImageRow], OneMarked(img),
           \A j \in Ids : new[j].source = img[j].source /\ new[j].main = img[j].main
                          /\ new[j].url = img[j].url
    PROVE  Rows(new) = Rows(img) /\ Marked(new) = Marked(img) /\ Synced(new) = Synced(img)
<1>1. Rows(new) = Rows(img)
  BY DEF Rows
<1>2. Marked(new) = Marked(img)
  BY <1>1 DEF Marked, Rows
<1>3. CASE Marked(img) = {}
  BY <1>2, <1>3, <1>1 DEF Synced
<1>4. ASSUME NEW m \in Marked(img)
      PROVE  Synced(new) = Synced(img)
  <2>1. Synced(img) = UrlOf(img, m)
    BY MarkedFirst
  <2>2. OneMarked(new) /\ m \in Marked(new)
    BY <1>2 DEF OneMarked
  <2>3. Synced(new) = UrlOf(new, m)
    BY <2>2, MarkedFirst
  <2>4. m \in Ids
    BY DEF Marked, Rows
  <2> QED
    BY <2>1, <2>3, <2>4 DEF UrlOf
<1> QED
  BY <1>1, <1>2, <1>3, <1>4

LEMMA KpMarks ==
    ASSUME ImagesInv, KpFilesInv, OneMarked(image), NEW c \in Calls, KpStore(c)
    PROVE  Rows(image') = Rows(image) /\ Marked(image') = Marked(image)
           /\ Synced(image') = Synced(image) /\ UNCHANGED shown
           /\ \A j \in Ids : image'[j].main = image[j].main
<1> DEFINE i == call[c].of
           file == call[c].ask
<1>1. UNCHANGED shown /\ image \in [Ids -> ImageRow]
  BY DEF KpStore, ImagesInv
<1>2. CASE i \notin Rows(image)
  BY <1>1, <1>2 DEF KpStore
<1>3. CASE i \in Rows(image)
  <2>1. image' = [image EXCEPT ![i].file = file]
    BY <1>3 DEF KpStore
  <2>2. i \in Ids
    BY <1>3 DEF Rows
  <2> HIDE DEF i, file
  <2>3. image' = [image EXCEPT ![i] = [image[i] EXCEPT !.file = file]]
    BY <1>1, <2>1, <2>2
  <2>4. image[i] \in ImageRow
    BY <1>1, <2>2
  <2> DEFINE row == [image[i] EXCEPT !.file = file]
  <2>5. row.source = image[i].source /\ row.main = image[i].main /\ row.url = image[i].url
    BY <2>4 DEF ImageRow
  <2>6. image' = [image EXCEPT ![i] = row]
    BY <2>3
  <2> HIDE DEF row
  <2>7. \A j \in Ids : /\ image'[j].source = image[j].source /\ image'[j].main = image[j].main
                      /\ image'[j].url = image[j].url
    BY <1>1, <2>2, <2>5, <2>6
  <2>8. image' \in [Ids -> ImageRow]
    BY KpRows DEF RowsChange
  <2> QED
    BY <1>1, <2>7, <2>8, SameMarks
<1> QED
  BY <1>2, <1>3

LEMMA PriceMarks ==
    ASSUME ImagesInv, RowCallsInv, OneMarked(image), shown = Synced(image),
           NEW c \in Calls, PriceWrite(c), ~call[c].ask => Rows(image) = {}
    PROVE  Marks
<1> DEFINE urls == call[c].of
           keep == call[c].ask /\ \E i \in Marked(image) : image[i].source = "upload"
           rest == IF ~call[c].ask THEN image
                   ELSE [i \in Ids |-> IF image[i].source = "feed" THEN NoImage ELSE image[i]]
           new(i) == [source |-> "feed", url |-> urls[i - made], file |-> None,
                      main |-> i - made = 1 /\ ~keep, order |-> i - made - 1]
           first == made + 1
<1>1. /\ made + Len(urls) <= MaxImages /\ shown' = IF keep THEN shown ELSE urls[1]
      /\ image' = [i \in Ids |-> IF i - made \notin 1 .. Len(urls) THEN rest[i] ELSE new(i)]
  BY DEF PriceWrite
<1>2. Len(urls) \in Nat /\ Len(urls) >= 1
  <2>1. urls \in Seq(Urls) /\ urls # <<>>
    BY AreasAssumption DEF PriceWrite, At, RowCallsInv
  <2> QED
    BY <2>1
<1>3. /\ image \in [Ids -> ImageRow] /\ image' \in [Ids -> ImageRow]
      /\ made \in Nat /\ Ids \subseteq Nat /\ \A i \in Rows(image) : i <= made
  <2>1. image' \in [Ids -> ImageRow]
    BY PriceRows DEF RowsChange
  <2> QED
    BY <2>1, NewRows, LastImage DEF ImagesInv, Ids
<1>4. first \in Ids /\ first - made = 1 /\ first \notin Rows(image)
  BY <1>1, <1>2, <1>3, LastImage DEF Ids
<1>5. \A i \in Ids : i - made \in 1 .. Len(urls) =>
         /\ image'[i].source = "feed" /\ image'[i].url = urls[i - made]
         /\ image'[i].main <=> i = first /\ ~keep
         /\ i \notin Rows(image)
  <2>1. ASSUME NEW i \in Ids, i - made \in 1 .. Len(urls)
        PROVE  /\ image'[i] = new(i)
               /\ i - made = 1 <=> i = first
               /\ i \notin Rows(image)
    <3>1. i \in Nat /\ i - made >= 1
      BY <1>2, <1>3, <2>1
    <3>2. image'[i] = new(i)
      BY <1>1, <2>1
    <3> HIDE DEF keep, rest, new
    <3> QED
      BY <1>3, <3>1, <3>2
  <2>2. ASSUME NEW i \in Ids, i - made \in 1 .. Len(urls)
        PROVE  /\ image'[i].source = "feed" /\ image'[i].url = urls[i - made]
               /\ image'[i].main <=> i = first /\ ~keep
    <3> HIDE DEF keep, first
    <3>1. image'[i] = new(i) /\ (i - made = 1 <=> i = first)
      <4> HIDE DEF new
      <4> QED
        BY <2>1, <2>2
    <3>2. image'[i].main = (i - made = 1 /\ ~keep)
      BY <3>1
    <3>3. image'[i].source = "feed" /\ image'[i].url = urls[i - made]
      BY <3>1
    <3> HIDE DEF new, urls
    <3> QED
      BY <3>1, <3>2, <3>3
  <2> HIDE DEF keep, first
  <2> QED
    BY <2>1, <2>2
<1>6. \A i \in Ids : i - made \notin 1 .. Len(urls) => image'[i] = rest[i]
  BY <1>1
<1>7. /\ image'[first].source = "feed" /\ image'[first].url = urls[1]
      /\ image'[first].main <=> ~keep
  BY <1>2, <1>4, <1>5
<1>8. NoImage.source = "none" /\ ~NoImage.main
  BY DEF NoImage
<1>9. CASE keep
  <2>1. PICK m \in Marked(image) : image[m].source = "upload"
    BY <1>9
  <2>2. m \in Ids /\ m - made \notin 1 .. Len(urls)
    BY <1>3, <1>2, <2>1 DEF Marked, Rows
  <2>3. image'[m] = image[m] /\ m \in Rows(image) /\ image[m].main
    BY <1>6, <1>9, <2>1, <2>2 DEF Marked
  <2>4. m \in Marked(image')
    BY <2>1, <2>2, <2>3 DEF Marked, Rows
  <2>5. ASSUME NEW j \in Marked(image')
        PROVE  j = m
    <3>1. j \in Ids /\ image'[j].main /\ image'[j].source # "none"
      BY DEF Marked, Rows
    <3>2. image'[j] = rest[j]
      BY <1>5, <1>6, <1>9, <3>1
    <3>3. rest[j] = image[j] \/ rest[j] = NoImage
      BY <1>3, <3>1
    <3>4. image'[j] = image[j]
      BY <1>8, <3>1, <3>2, <3>3
    <3>5. j \in Marked(image)
      BY <3>1, <3>4 DEF Marked, Rows
    <3> QED
      BY <2>1, <3>5 DEF OneMarked
  <2>6. OneMarked(image')
    BY <2>5 DEF OneMarked
  <2>7. Synced(image) = UrlOf(image, m) /\ Synced(image') = UrlOf(image', m)
    BY <1>3, <2>1, <2>4, <2>6, MarkedFirst
  <2>8. shown' = Synced(image')
    BY <1>1, <1>9, <2>3, <2>7 DEF UrlOf
  <2> QED
    BY <2>4, <2>6, <2>8 DEF Marks, MarksKept
<1>10. CASE ~keep
  <2>1. first \in Marked(image')
    BY <1>4, <1>7, <1>10 DEF Marked, Rows
  <2>2. ASSUME NEW j \in Marked(image'), j # first
        PROVE  FALSE
    <3>1. j \in Ids /\ image'[j].main /\ image'[j].source # "none"
      BY DEF Marked, Rows
    <3>2. image'[j] = rest[j]
      BY <1>5, <1>6, <2>2, <3>1
    <3>3. rest[j] = image[j] \/ rest[j] = NoImage
      BY <1>3, <3>1
    <3>4. image'[j] = image[j] /\ rest[j] = image[j]
      BY <1>8, <3>1, <3>2, <3>3
    <3>5. j \in Marked(image) /\ j \in Rows(image)
      BY <3>1, <3>4 DEF Marked, Rows
    <3>6. call[c].ask
      BY <3>5
    <3>7. image[j].source # "feed"
      BY <1>8, <3>1, <3>2, <3>4, <3>6
    <3>8. image[j].source # "upload"
      BY <1>10, <3>5, <3>6
    <3>9. image[j].source \in Sources
      BY <1>3, <3>1 DEF ImageRow
    <3> QED
      BY <3>1, <3>4, <3>7, <3>8, <3>9 DEF Sources
  <2>3. OneMarked(image')
    BY <2>2 DEF OneMarked
  <2>4. Synced(image') = UrlOf(image', first)
    BY <1>3, <2>1, <2>3, MarkedFirst
  <2>5. shown' = Synced(image')
    BY <1>1, <1>7, <1>10, <2>4 DEF UrlOf
  <2> QED
    BY <2>1, <2>3, <2>5 DEF Marks, MarksKept
<1> QED
  BY <1>9, <1>10

\* As long as no stale call has written, every step keeps the marks.
LEMMA MarksStep ==
    ASSUME CallsInv, FilesInv, MainInv, [Next]_vars, ~crossed'
    PROVE  Marks
<1>1. ~crossed
  BY CallSteps
<1>2. OneMarked(image) /\ shown = Synced(image)
  BY <1>1 DEF MainInv, OneMarked
<1>3. UNCHANGED <<image, shown>> => Marks
  BY <1>2 DEF Marks, MarksKept
<1>4. CASE UNCHANGED vars \/ Restart
  BY <1>3, <1>4 DEF vars, Restart, records, photos
<1>5. CASE CreateRequest
  BY <1>3, <1>5, CreationStales DEF photos
<1>6. ASSUME NEW c \in Calls, Begun(c)
      PROVE  Marks
  BY <1>3, <1>6, BegunCalls
<1>7. ASSUME NEW c \in Calls, Writes(c)
      PROVE  Marks
  <2>1. CASE End(c) /\ UNCHANGED <<others, image, made, shown>>
    BY <1>3, <2>1
  <2>2. ASSUME NEW point \in {"idle", "unlink"}, Wrote(c, point)
        PROVE  Marks
    <3>1. ~call[c].stale
      <4>1. crossed' = (crossed \/ call[c].stale)
        BY <2>2, WritesStale
      <4> QED
        BY <4>1
    <3>2. CASE SettingsWrite(c) \/ CompanyWrite(c) \/ UnitWrite(c) \/ ClientWrite(c)
      BY <1>3, <3>2 DEF SettingsWrite, CompanyWrite, UnitWrite, ClientWrite, photos
    <3>3. CASE UploadWrite(c)
      BY <1>2, <3>3, UploadMarks DEF FilesInv
    <3>4. CASE FeedWrite(c)
      BY <1>2, <3>4, FeedMarks DEF FilesInv
    <3>5. CASE PatchWrite(c)
      <4>1. CASE call[c].of \in Rows(image)
        BY <1>2, <3>5, <4>1, PatchMarks DEF FilesInv
      <4>2. CASE call[c].of \notin Rows(image)
        BY <1>3, <3>5, <4>2 DEF PatchWrite
      <4> QED
        BY <4>1, <4>2
    <3>6. CASE RemoveWrite(c)
      <4>1. At(c, "remove", "write")
        BY <3>6 DEF RemoveWrite
      <4>2. call[c].of \in Rows(image) /\ image[call[c].of].main = call[c].saw.main
        BY <1>1, <3>1, <4>1 DEF MainInv
      <4> QED
        BY <1>2, <3>6, <4>2, RemoveMarks DEF FilesInv
    <3>7. CASE PriceWrite(c)
      <4>1. call[c].kind = "price"
        BY <3>7 DEF PriceWrite, At
      <4>2. ~call[c].ask => Rows(image) = {}
        BY <1>1, <3>1, <4>1 DEF MainInv
      <4> QED
        BY <1>2, <3>7, <4>2, PriceMarks DEF FilesInv
    <3> QED
      BY <1>7, <3>2, <3>3, <3>4, <3>5, <3>6, <3>7 DEF Writes
  <2> QED
    BY <1>7, <2>1, <2>2, WritingCalls
<1>8. ASSUME NEW c \in Calls, Quits(c)
      PROVE  Marks
  <2>1. CASE UploadFails(c) \/ RemoveUnlink(c)
    BY <1>3, <2>1 DEF UploadFails, RemoveUnlink
  <2>2. CASE KpStore(c)
    <3>1. /\ Rows(image') = Rows(image) /\ Marked(image') = Marked(image)
          /\ Synced(image') = Synced(image) /\ UNCHANGED shown
      BY <1>2, <2>2, KpMarks DEF FilesInv
    <3> QED
      BY <1>2, <3>1 DEF Marks, MarksKept, OneMarked
  <2> QED
    BY <1>8, <2>1, <2>2 DEF Quits
<1>9. ASSUME NEW c \in Calls, KpSave(c)
      PROVE  Marks
  BY <1>3, <1>9, KpSaves
<1> QED
  BY <1>4, <1>5, <1>6, <1>7, <1>8, <1>9, NextSteps

\* What a call under way has read is still so.
LEMMA MainStep ==
    ASSUME CallsInv, FilesInv, MainInv, [Next]_vars
    PROVE  MainInv'
<1> SUFFICES ASSUME ~crossed'
             PROVE  MainInv'
  BY DEF MainInv
<1>1. ~crossed
  BY CallSteps
<1>2. (\A i, j \in Marked(image') : i = j) /\ shown' = Synced(image')
  BY MarksStep DEF Marks, MarksKept, OneMarked
<1>3. OneMarked(image)
  BY <1>1 DEF MainInv, OneMarked
<1>4. ASSUME NEW d \in Calls, ~call'[d].stale,
             call'[d].kind \in {"remove", "price"}, call'[d].at = "write"
      PROVE  /\ Rows(image') = Rows(image)
             /\ \A j \in Ids : image'[j].main = image[j].main
  <2>1. UNCHANGED image \/ \E c \in Calls : KpStore(c)
    BY <1>4, FreshCalls
  <2> QED
    BY <1>3, <2>1, KpMarks DEF FilesInv
<1>5. ASSUME NEW d \in Calls, ~call'[d].stale, Passed(d), call'[d].at = "write",
             call'[d].kind \in {"remove", "price"}
      PROVE  /\ Same(call[d], call'[d]) /\ ~call[d].stale /\ call[d].at = "write"
  <2>1. Same(call[d], call'[d])
    BY <1>5, PassedCalls
  <2>2. call'[d].at = call[d].at
    BY <1>5, IdleRow DEF Passed
  <2> QED
    BY <1>5, <2>1, <2>2 DEF Same
<1>6. ASSUME NEW d \in Calls, ~call'[d].stale, call'[d].kind = "remove", call'[d].at = "write"
      PROVE  call'[d].of \in Rows(image') /\ image'[call'[d].of].main = call'[d].saw.main
  <2>1. CASE Begun(d)
    <3>1. PICK i \in Ids : StartRemove(d, i)
      BY <1>6, <2>1, BegunAs
    <3> QED
      BY <3>1, NewRemoval
  <2>2. CASE Passed(d)
    <3>1. Same(call[d], call'[d]) /\ ~call[d].stale /\ call[d].at = "write"
      BY <1>5, <1>6, <2>2
    <3>2. call[d].of \in Rows(image) /\ image[call[d].of].main = call[d].saw.main
      BY <1>1, <1>6, <3>1 DEF MainInv, At, Same
    <3>3. call[d].of \in Ids
      BY <3>2 DEF Rows
    <3> QED
      BY <1>4, <1>6, <3>1, <3>2, <3>3 DEF Same
  <2> QED
    BY <2>1, <2>2, CallSteps
<1>7. ASSUME NEW d \in Calls, ~call'[d].stale, call'[d].kind = "price", ~call'[d].ask
      PROVE  Rows(image') = {}
  <2>1. call'[d].at = "write"
    BY <1>7, RowCallsStep DEF RowCallsInv
  <2>2. CASE Begun(d)
    <3>1. PICK urls \in UrlLists, replace \in BOOLEAN : StartPrice(d, urls, replace)
      BY <1>7, <2>2, BegunAs
    <3>2. Begin(d, "images", "price", urls, replace, None)
      BY <3>1 DEF StartPrice
    <3>3. call'[d] = [kind |-> "price", at |-> "write", of |-> urls,
                      ask |-> replace, saw |-> None, stale |-> FALSE]
      BY <3>2, CallBegins
    <3>4. ~replace
      BY <1>7, <3>3
    <3>5. Rows(image) = {} /\ UNCHANGED image
      BY <3>1, <3>4 DEF StartPrice, records, photos
    <3> QED
      BY <3>5
  <2>3. CASE Passed(d)
    <3>1. Same(call[d], call'[d]) /\ ~call[d].stale
      BY <1>5, <1>7, <2>1, <2>3
    <3>2. Rows(image) = {}
      BY <1>1, <1>7, <3>1 DEF MainInv, Same
    <3> QED
      BY <1>4, <1>7, <2>1, <3>2
  <2> QED
    BY <2>2, <2>3, CallSteps
<1> QED
  BY <1>2, <1>6, <1>7 DEF MainInv, At

LEMMA MainImage ==
    ASSUME MainInv
    PROVE  crossed \/ (Cardinality(Marked(image)) <= 1 /\ shown = Synced(image))
<1> SUFFICES ASSUME ~crossed
             PROVE  Cardinality(Marked(image)) <= 1 /\ shown = Synced(image)
  OBVIOUS
<1>1. (\A i, j \in Marked(image) : i = j) /\ shown = Synced(image)
  BY DEF MainInv
<1>2. Marked(image) = {} \/ \E m : m \in Marked(image)
  OBVIOUS
<1>3. ASSUME NEW m \in Marked(image)
      PROVE  Cardinality(Marked(image)) <= 1
  <2>1. Marked(image) = {m}
    BY <1>1
  <2>2. Cardinality(Marked(image)) = 1
    BY <2>1, FS_Singleton
  <2> QED
    BY <2>2
<1>4. Cardinality({}) = 0
  BY FS_EmptySet
<1> QED
  BY <1>1, <1>2, <1>3, <1>4

-----------------------------------------------------------------------------
(* Theorems *)

\* In the initial state there are no calls, no companies and no photos.
LEMMA InitCalls ==
    ASSUME Init
    PROVE  /\ CallsInv /\ \A c \in Calls : call[c].kind = "none"
           /\ ~crossed /\ ~restarted
<1>1. call = [c \in Calls |-> Idle] /\ ~crossed /\ ~restarted
  BY DEF Init
<1>2. \A c \in Calls : call[c] = Idle
  BY <1>1
<1> QED
  BY <1>1, <1>2, IdleRow DEF CallsInv

LEMMA InitDirectories ==
    ASSUME Init
    PROVE  /\ SettingsInv /\ NextNumberFree
           /\ CompanyInv /\ OneDefaultCompany
           /\ UnitInv /\ WordsApart
           /\ ClientInv /\ OneOffered
<1>1. \A c \in Calls : call[c].kind = "none"
  BY InitCalls
<1>2. SettingsInv /\ NextNumberFree
  BY <1>1 DEF SettingsInv, Settings, NextNumberFree, Init
<1>3. CompanyInv
  BY <1>1 DEF CompanyInv, CompanyCall, NoCompany, Init
<1>4. OneDefaultCompany
  BY DEF OneDefaultCompany, There, NoCompany, Init
<1>5. UnitInv /\ WordsApart
  <2>1. unit = [u \in Units |-> {}]
    BY DEF Init
  <2>2. UnitInv
    BY <1>1, <2>1 DEF UnitInv
  <2>3. WordsApart
    BY <2>1 DEF WordsApart
  <2> QED
    BY <2>2, <2>3
<1>6. ClientInv /\ OneOffered
  BY <1>1 DEF ClientInv, OneOffered, Init
<1> QED
  BY <1>2, <1>3, <1>4, <1>5, <1>6

LEMMA InitImages ==
    ASSUME Init
    PROVE  FilesInv /\ HeldInv /\ MainInv
<1>1. \A c \in Calls : call[c].kind = "none"
  BY InitCalls
<1>2. /\ image = [i \in Ids |-> NoImage] /\ made = 0 /\ shown = None /\ disk = {} /\ spent = 0
      /\ restarted = FALSE
  BY DEF Init
<1>3. Rows(image) = {}
  BY <1>2 DEF Rows, NoImage
<1>4. Uploads(image) = {} /\ Marked(image) = {}
  BY <1>3 DEF Uploads, Marked
<1>5. image \in [Ids -> ImageRow]
  BY <1>2 DEF NoImage, ImageRow, Sources
<1>6. ImagesInv
  BY <1>2, <1>3, <1>4, <1>5, LastImage DEF ImagesInv
<1>7. UploadsInv /\ RemovesInv /\ KpFilesInv /\ RowCallsInv
  BY <1>1 DEF UploadsInv, RemovesInv, KpFilesInv, RowCallsInv
<1>8. HeldInv
  BY <1>2 DEF HeldInv
<1>9. MainInv
  BY <1>1, <1>2, <1>3, <1>4 DEF MainInv, Synced, At
<1> QED
  BY <1>6, <1>7, <1>8, <1>9 DEF FilesInv

LEMMA CallsNext == CallsInv /\ [Next]_vars => CallsInv'
BY CallSteps

\* The number of the next request is free: settings that were read before a
\* request took its number are stale, and those that are not stale were checked
\* against the counter there is (assertCountersOnlyGrow).
THEOREM NumbersAreFree == Spec => []NextNumberFree
<1> DEFINE IInv == CallsInv /\ SettingsInv /\ NextNumberFree
<1>1. Init => IInv
  BY InitCalls, InitDirectories
<1>2. IInv /\ [Next]_vars => IInv'
  BY CallsNext, SettingsStep, NumbersStep
<1>3. IInv => NextNumberFree
  OBVIOUS
<1> QED
  BY <1>1, <1>2, <1>3, PTL DEF Spec

\* There is one default company, it is active, and no word leads to two units,
\* whatever calls read before they write, as long as none writes across another.
THEOREM DirectoriesAreSound == Spec => []DirectoriesSound
<1> DEFINE IInv == CallsInv /\ CompanyInv /\ OneDefaultCompany /\ UnitInv /\ WordsApart
<1>1. Init => IInv
  BY InitCalls, InitDirectories
<1>2. IInv /\ [Next]_vars => IInv'
  BY CallsNext, CompanyStep, DefaultStep, UnitStep, WordsStep
<1>3. IInv => DirectoriesSound
  BY DEF DirectoriesSound
<1> QED
  BY <1>1, <1>2, <1>3, PTL DEF Spec

\* A client has one default counterparty to choose at most, and a save that
\* passes a version and no list leaves who is active as it is: what it writes was
\* read as of that version (updateClient).
THEOREM ListsAreKept == Spec => ListsKept
<1> DEFINE IInv == CallsInv /\ ClientInv /\ OneOffered
           Saved == \A c \in Calls : ListSaved(c)
<1>1. Init => IInv
  BY InitCalls, InitDirectories
<1>2. IInv /\ [Next]_vars => IInv'
  BY CallsNext, ClientStep, ClientTypes
<1>3. IInv /\ [Next]_vars => [Saved]_vars
  BY ListsStep
<1>4. Spec => []OneOffered
  BY <1>1, <1>2, PTL DEF Spec
<1>5. Spec => [][Saved]_vars
  BY <1>1, <1>2, <1>3, PTL DEF Spec
<1> QED
  BY <1>4, <1>5 DEF ListsKept, OneOffered, ListSaved, Saved

\* No photo misses its file, and no uploaded file is left on disk that neither a
\* photo nor a call under way holds, unless the process was stopped: a file has a
\* name of its own, and goes after its row.
THEOREM ImageFilesAreKept == Spec => []ImageFilesKept
<1> DEFINE IInv == CallsInv /\ FilesInv /\ HeldInv
<1>1. Init => IInv
  BY InitCalls, InitImages
<1>2. IInv /\ [Next]_vars => IInv'
  BY CallsNext, FilesStep, HeldStep
<1>3. IInv => ImageFilesKept
  BY FilesAreKept
<1> QED
  BY <1>1, <1>2, <1>3, PTL DEF Spec

\* One photo at most is the main one, the product shows its address, and a product
\* that has a main photo keeps one as long as it has photos, as long as no call
\* writes on the strength of what another has changed.
THEOREM OneImageIsMain == Spec => OneMainImage
<1> DEFINE IInv == CallsInv /\ FilesInv /\ MainInv
           Shows == crossed \/ (Cardinality(Marked(image)) <= 1 /\ shown = Synced(image))
           KeepsMain == crossed' \/ ((Marked(image) # {} /\ Rows(image') # {}) => Marked(image') # {})
<1>1. Init => IInv
  BY InitCalls, InitImages
<1>2. IInv /\ [Next]_vars => IInv'
  BY CallsNext, FilesStep, MainStep
<1>3. IInv => Shows
  BY MainImage
<1>4. IInv /\ [Next]_vars => [KeepsMain]_vars
  BY MarksStep DEF Marks, MarksKept
<1>5. Spec => []Shows
  BY <1>1, <1>2, <1>3, PTL DEF Spec
<1>6. Spec => [][KeepsMain]_vars
  BY <1>1, <1>2, <1>4, PTL DEF Spec
<1> QED
  BY <1>5, <1>6 DEF OneMainImage

=============================================================================
