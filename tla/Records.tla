------------------------------- MODULE Records -------------------------------
(***************************************************************************)
(* The directories and the photos of a product: calls that read, and write *)
(* in a transaction later, of several people at the same time.             *)
(***************************************************************************)
EXTENDS DirectoryCalls, ImageCalls

Init ==
    /\ settings = [next |-> 1, other |-> 1] /\ numbers = {}
    /\ company = [k \in Companies |-> NoCompany]
    /\ unit = [u \in Units |-> {}]
    /\ client = 1
    /\ party = [p \in Parties |-> [there |-> FALSE, active |-> FALSE, default |-> FALSE]]
    /\ image = [i \in Ids |-> NoImage] /\ made = 0 /\ shown = None /\ disk = {}
    /\ call = [c \in Calls |-> Idle]
    /\ area \in Areas /\ crossed = FALSE /\ restarted = FALSE /\ spent = 0

\* The process stops; what calls had begun is left as it is.
Restart ==
    /\ \E c \in Calls : Busy(c)
    /\ call' = [c \in Calls |-> Idle] /\ restarted' = TRUE
    /\ UNCHANGED <<records, area, crossed, spent>>

\* Everything has been done that the bounds allow.
Finished ==
    /\ spent = MaxCalls[area] /\ \A c \in Calls : ~Busy(c)
    /\ UNCHANGED vars

Next ==
    \/ CreateRequest \/ Restart \/ Finished
    \/ \E c \in Calls :
        \/ StartDirectoryCall(c) \/ DirectoryStep(c)
        \/ StartImageCall(c) \/ ImageStep(c)

Spec == Init /\ [][Next]_vars

-----------------------------------------------------------------------------
\* The number the next request gets is free, whatever numbers administrators
\* set and requests have used (assertCountersOnlyGrow, nextRequestNumber):
\* otherwise no request could be created any more. Unless settings that were
\* read before a creation were written after it.
NextNumberFree == crossed \/ \A n \in numbers : n < settings.next

\* As soon as there are own companies, one of them is the default, and it is
\* active (resolveDefaultFlag, assertDefaultStaysActive), unless two calls
\* decided about the mark across each other.
OneDefaultCompany ==
    crossed \/ There = {} \/ \E k \in There :
        /\ company[k].active
        /\ {j \in There : company[j].default} = {k}

\* A word leads to one unit at most, as code or as synonym (assertAliasesFree),
\* unless two units got their synonyms across each other.
WordsApart ==
    crossed \/ \A u, v \in Units : u # v => ({u} \cup unit[u]) \cap ({v} \cup unit[v]) = {}

\* The directories of own companies and of units keep their rules.
DirectoriesSound == OneDefaultCompany /\ WordsApart

\* Of a client's counterparties that are offered for choice at most one is
\* marked as default; and a save with a version that passes no list leaves the
\* counterparties as they were, although it writes what it read before the
\* transaction (updateClient), however many saves are under way.
ListsKept ==
    /\ [](\A p, q \in Parties :
            (/\ party[p].active /\ party[p].default
             /\ party[q].active /\ party[q].default) => p = q)
    /\ [][ \A c \in Calls :
             (/\ At(c, "client", "write") /\ call'[c] = Idle /\ client' # client
              /\ call[c].ask.list = None /\ call[c].ask.version # None)
             => \A p \in Parties : party'[p].active = party[p].active ]_vars

\* Every photo that has a file finds it on disk; and an uploaded file is on disk
\* only for a photo or for a call under way, unless the process was stopped:
\* whatever fails or is removed in between (addUploadedImage, removeImage).
ImageFilesKept ==
    /\ \A i \in Rows(image) : image[i].file # None => image[i].file \in disk
    /\ restarted \/ \A path \in disk : path.by = "upload" =>
         \/ \E i \in Rows(image) : image[i].file = path
         \/ \E c \in Calls : At(c, "upload", "write") /\ call[c].of = path
         \/ \E c \in Calls : At(c, "remove", "unlink") /\ call[c].saw.file = path

\* At most one photo is the main one, the product shows its address, and a
\* product that has a main photo has one as long as it has photos at all, after
\* any sequence of uploads, marks, removals and price updates that did not cross.
OneMainImage ==
    /\ [](crossed \/ (Cardinality(Marked(image)) <= 1 /\ shown = Synced(image)))
    /\ [][ crossed' \/ ((Marked(image) # {} /\ Rows(image') # {}) => Marked(image') # {}) ]_vars

=============================================================================
