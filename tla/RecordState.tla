----------------------------- MODULE RecordState -----------------------------
(***************************************************************************)
(* Records of the server that several people edit with calls of two steps: *)
(* what a call decides by is read first, and written in a transaction      *)
(* later. The directories and the photos of a product are of this kind.    *)
(*                                                                         *)
(* They share no state, so a behaviour keeps to one area (documents are the *)
(* subject of RequestContent, and written in steps of it). A transaction is *)
(* one action. A call is stale when something was written since it began;  *)
(* `crossed` remembers that a stale call has written. Transactions whose   *)
(* statements interleave in the database are among those.                  *)
(***************************************************************************)
EXTENDS Integers, FiniteSets, Sequences

CONSTANTS
    Areas,       \* the areas of this instance
    Calls,       \* calls that can be in progress at the same time
    Companies, Units, Words, Parties, Urls, UrlLists,
    MaxCalls,    \* bound on the calls ever made, by area
    MaxImages,   \* bound on the photos ever added
    None

AllAreas == {"numbers", "companies", "units", "clients", "images", "documents", "quotes"}

ASSUME AreasAssumption == /\ Areas \subseteq AllAreas /\ Areas # {}
                          /\ Units \subseteq Words
                          /\ UrlLists \subseteq Seq(Urls) \ {<<>>}
ASSUME BoundsAssumption == MaxCalls \in [AllAreas -> Nat] /\ MaxImages \in Nat
ASSUME NoneAssumption == None \notin Urls \cup Parties \cup Words \cup BOOLEAN \cup Nat

VARIABLES
    settings,   \* the AppSettings row: next = nextRequestNumber, other = the rest
    numbers,    \* Request.number of the requests there are
    company,    \* OwnCompany rows
    unit,       \* the synonyms of each unit
    client,     \* the version of a Client row
    party,      \* its Counterparty rows
    image,      \* ProductImage rows of a product, in the order of creation
    made,       \* how many of them there have been (an id is never used again)
    shown,      \* its Product.imageUrl
    disk,       \* the files of its photos
    call,       \* the calls in progress
    area,       \* what this behaviour is about
    crossed,    \* ghost: a call wrote on the strength of what had changed
    restarted,  \* ghost: the process was restarted
    spent       \* calls made so far

photos == <<image, made, shown, disk>>
records == <<settings, numbers, company, unit, client, party, photos>>
vars == <<records, call, area, crossed, restarted, spent>>

-----------------------------------------------------------------------------
\* of: the record; ask: the input; saw: what was read before the transaction.
Idle == [kind |-> "none", at |-> "idle", of |-> None, ask |-> None,
         saw |-> None, stale |-> FALSE]

At(c, kind, point) == call[c].kind = kind /\ call[c].at = point
Busy(c) == call[c].at # "idle"

Spend(where) == area = where /\ spent < MaxCalls[area] /\ spent' = spent + 1

Begin(c, where, kind, of, ask, saw) ==
    /\ Spend(where) /\ ~Busy(c)
    /\ call' = [call EXCEPT ![c] = [kind |-> kind, at |-> "write", of |-> of,
                                    ask |-> ask, saw |-> saw, stale |-> FALSE]]
    /\ UNCHANGED <<area, crossed, restarted>>

\* Everybody else who is under way has now read something old.
Stale(d) == [call[d] EXCEPT !.stale = Busy(d)]

\* c has written, and is at `point` of what is left to do.
Wrote(c, point) ==
    /\ crossed' = (crossed \/ call[c].stale)
    /\ call' = [d \in Calls |-> IF d # c THEN Stale(d)
                                ELSE IF point = "idle" THEN Idle
                                ELSE [call[c] EXCEPT !.at = point]]
    /\ UNCHANGED <<area, restarted, spent>>

\* A call of one step has written.
WroteAtOnce(where) ==
    /\ Spend(where)
    /\ call' = [d \in Calls |-> Stale(d)]
    /\ UNCHANGED <<area, crossed, restarted>>

End(c) == call' = [call EXCEPT ![c] = Idle] /\ UNCHANGED <<area, crossed, restarted, spent>>

=============================================================================
