------------------------------ MODULE ImageCalls ------------------------------
(***************************************************************************)
(* The photos of a product, the copy of the main photo's address in the    *)
(* product and the files on disk (images.service.ts, images.rules.ts), and *)
(* what price updates do to photos (priceUpdates.service.ts).              *)
(***************************************************************************)
EXTENDS RecordState

Ids == 1 .. MaxImages
NoImage == [source |-> "none", url |-> None, file |-> None, main |-> FALSE, order |-> 0]
Sources == {"none", "upload", "feed"}
Rows(img) == {i \in Ids : img[i].source # "none"}
Marked(img) == {i \in Rows(img) : img[i].main}

\* The row the next creation makes; ids follow the order of creation.
NextId == made + 1
Full == made = MaxImages

\* compareImages: main first, then the order of showing, then age
Earlier(img, i, j) ==
    IF img[i].main # img[j].main THEN img[i].main
    ELSE IF img[i].order # img[j].order THEN img[i].order < img[j].order
    ELSE i < j
Earliest(img) == CHOOSE i \in Rows(img) : \A j \in Rows(img) \ {i} : Earlier(img, i, j)

\* promoteMain: nextMainId, the marked one or the first
Promoted(img) ==
    IF Rows(img) = {} THEN img ELSE [img EXCEPT ![Earliest(img)].main = TRUE]

Demoted(img, but) ==
    [i \in Ids |-> IF i = but THEN img[i] ELSE [img[i] EXCEPT !.main = FALSE]]

\* imageUrlOf: a feed's own address, or the one our server serves the row at
UrlOf(img, i) == IF img[i].source = "feed" THEN img[i].url ELSE i

\* syncMainImageUrl
Synced(img) == IF Marked(img) = {} THEN None ELSE UrlOf(img, Earliest(img))
Commit(img, new) == image' = img /\ shown' = Synced(img) /\ made' = made + new

NewOrder(img) == Cardinality(Rows(img))

others == <<settings, numbers, company, unit, client, party>>

-----------------------------------------------------------------------------
\* addUploadedImage: the file is written first ...
StartUpload(c) ==
    LET path == [by |-> "upload", n |-> spent + 1] IN
    /\ Begin(c, "images", "upload", path, None, None)
    /\ disk' = disk \cup {path}
    /\ UNCHANGED <<others, image, made, shown>>

\* ... then the transaction; the first photo of a product is the main one
UploadWrite(c) ==
    /\ At(c, "upload", "write") /\ ~Full
    /\ Commit([image EXCEPT ![NextId] =
            [source |-> "upload", url |-> None, file |-> call[c].of,
             main |-> Rows(image) = {}, order |-> NewOrder(image)]], 1)
    /\ Wrote(c, "idle")
    /\ UNCHANGED <<others, disk>>

\* It fails: the file is removed.
UploadFails(c) ==
    /\ At(c, "upload", "write")
    /\ disk' = disk \ {call[c].of}
    /\ End(c)
    /\ UNCHANGED <<others, image, made, shown>>

\* addFeedImage: an address there is already is not added again
StartFeed(c, url, ask) ==
    /\ \A i \in Rows(image) : image[i].url # url
    /\ Begin(c, "images", "feed", url, ask, None)
    /\ UNCHANGED records

FeedWrite(c) ==
    LET ask == call[c].ask
        main == IF ask.main = None THEN Rows(image) = {} ELSE ask.main
        before == IF main THEN Demoted(image, None) ELSE image
    IN /\ At(c, "feed", "write") /\ ~Full
       /\ Commit([before EXCEPT ![NextId] =
            [source |-> "feed", url |-> call[c].of, file |-> None, main |-> main,
             order |-> IF ask.order = None THEN NewOrder(image) ELSE ask.order]], 1)
       /\ Wrote(c, "idle")
       /\ UNCHANGED <<others, disk>>

\* updateImage: a mark or a place
StartPatch(c, i, ask) ==
    /\ i \in Rows(image)
    /\ Begin(c, "images", "patch", i, ask, None)
    /\ UNCHANGED records

PatchWrite(c) ==
    LET i == call[c].of
        ask == call[c].ask
        before == IF ask.main = TRUE THEN Demoted(image, i) ELSE image
        patched == [before EXCEPT
            ![i].main = IF ask.main = None THEN image[i].main ELSE ask.main,
            ![i].order = IF ask.order = None THEN image[i].order ELSE ask.order]
    IN /\ At(c, "patch", "write")
       /\ IF i \notin Rows(image) THEN End(c) /\ UNCHANGED <<image, made, shown>>
          ELSE /\ Commit(IF ask.main = FALSE THEN Promoted(patched) ELSE patched, 0)
               /\ Wrote(c, "idle")
       /\ UNCHANGED <<others, disk>>

\* Mutant: the file goes before its row.
StartRemoveUnlinks(c, i) ==
    /\ i \in Rows(image)
    /\ Begin(c, "images", "remove", i, None, image[i])
    /\ disk' = disk \ {image[i].file}
    /\ UNCHANGED <<others, image, made, shown>>

\* removeImage: the row is read before the transaction
StartRemove(c, i) ==
    /\ i \in Rows(image)
    /\ Begin(c, "images", "remove", i, None, image[i])
    /\ UNCHANGED records

\* Mutant: the photos move up without one being marked.
AfterRemoveUnmarked(img, row) == img

\* the main photo was removed: the next one is the main one
AfterRemove(img, row) == IF row.main THEN Promoted(img) ELSE img

RemoveWrite(c) ==
    LET i == call[c].of
        row == call[c].saw
    IN /\ At(c, "remove", "write")
       /\ IF i \notin Rows(image) THEN End(c) /\ UNCHANGED <<image, made, shown>>
          ELSE /\ Commit(AfterRemove([image EXCEPT ![i] = NoImage], row), 0)
               /\ Wrote(c, IF row.source = "upload" THEN "unlink" ELSE "idle")
       /\ UNCHANGED <<others, disk>>

RemoveUnlink(c) ==
    /\ At(c, "remove", "unlink")
    /\ disk' = disk \ {call[c].saw.file}
    /\ End(c)
    /\ UNCHANGED <<others, image, made, shown>>

-----------------------------------------------------------------------------
\* mainImagesFor, of a KP: a main photo from a feed that has no file yet
StartKp(c, i) ==
    /\ i \in Marked(image) /\ image[i].source = "feed" /\ image[i].file = None
    /\ Begin(c, "images", "kp", i, [by |-> "kp", n |-> spent + 1], None)
    /\ UNCHANGED records

\* storeFeedImage: downloaded and saved, or the KP does without
KpSave(c) ==
    /\ At(c, "kp", "write")
    /\ \/ disk' = disk \cup {call[c].ask} /\ call' = [call EXCEPT ![c].at = "store"]
       \/ UNCHANGED disk /\ call' = [call EXCEPT ![c] = Idle]
    /\ UNCHANGED <<others, image, made, shown, area, crossed, restarted, spent>>

\* update where id: the row may have gone
KpStore(c) ==
    LET i == call[c].of IN
    /\ At(c, "kp", "store")
    /\ image' = IF i \in Rows(image) THEN [image EXCEPT ![i].file = call[c].ask] ELSE image
    /\ End(c)
    /\ UNCHANGED <<others, made, shown, disk>>

\* The feed's addresses in their order, as loadExisting reads them
FeedUrls(img) ==
    LET feed == {i \in Rows(img) : img[i].source = "feed"}
        rank(i) == Cardinality({j \in feed : \/ img[j].order < img[i].order
                                             \/ img[j].order = img[i].order /\ j <= i})
    IN [n \in 1 .. Cardinality(feed) |-> img[CHOOSE i \in feed : rank(i) = n].url]

\* A price update: photos are replaced when that is asked for and they differ,
\* and attached when there are none. (The cards' versions do not tell that
\* photos have changed since: no call on photos counts them up.)
StartPrice(c, urls, replace) ==
    /\ IF replace THEN urls # FeedUrls(image) ELSE Rows(image) = {}
    /\ Begin(c, "images", "price", urls, replace, None)
    /\ UNCHANGED records

\* writePlan and replaceFeedImages: the first new photo is the main one, unless
\* one that was uploaded is; the product's copy is that of the list
PriceWrite(c) ==
    LET urls == call[c].of
        keep == call[c].ask /\ \E i \in Marked(image) : image[i].source = "upload"
        rest == IF ~call[c].ask THEN image
                ELSE [i \in Ids |-> IF image[i].source = "feed" THEN NoImage ELSE image[i]]
    IN /\ At(c, "price", "write") /\ made + Len(urls) <= MaxImages
       /\ image' = [i \in Ids |->
            IF i - made \notin 1 .. Len(urls) THEN rest[i]
            ELSE [source |-> "feed", url |-> urls[i - made], file |-> None,
                  main |-> i - made = 1 /\ ~keep, order |-> i - made - 1]]
       /\ made' = made + Len(urls)
       /\ shown' = IF keep THEN shown ELSE urls[1]
       /\ Wrote(c, "idle")
       /\ UNCHANGED <<others, disk>>

-----------------------------------------------------------------------------
\* What a call can ask of a photo: a mark or a place.
Asks == [main : BOOLEAN, order : {None}] \cup [main : {None}, order : {1}]

StartImageCall(c) ==
    \/ StartUpload(c)
    \/ \E url \in Urls, ask \in Asks \cup {[main |-> None, order |-> None]} :
         StartFeed(c, url, ask)
    \/ \E i \in Ids, ask \in Asks : StartPatch(c, i, ask)
    \/ \E i \in Ids : StartRemove(c, i) \/ StartKp(c, i)
    \/ \E urls \in UrlLists, replace \in BOOLEAN : StartPrice(c, urls, replace)

ImageStep(c) ==
    \/ UploadWrite(c) \/ UploadFails(c) \/ FeedWrite(c) \/ PatchWrite(c)
    \/ RemoveWrite(c) \/ RemoveUnlink(c) \/ KpSave(c) \/ KpStore(c) \/ PriceWrite(c)

=============================================================================
