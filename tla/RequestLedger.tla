---------------------------- MODULE RequestLedger ----------------------------
(***************************************************************************)
(* What the server promises about a request, without its transactions,     *)
(* locks and stored columns: a document under a version number and a       *)
(* numbered series of offers (KPs), written one complete step at a time.   *)
(* RequestServer implements it, though its calls are several steps each.   *)
(***************************************************************************)
EXTENDS Naturals

CONSTANT Contents   \* what a document can hold, besides the offers

VARIABLES
    open,       \* the request may be edited
    version,    \* counts the writes of the document and of the status
    contents,
    offers,     \* the numbers of the offers there are
    agreed      \* the number of the offer the approved prices come from

ledger == <<open, version, contents, offers, agreed>>

\* Nothing is approved, or nothing that an offer sets the price of.
Nothing == 0

Init ==
    /\ open = TRUE /\ version = 1
    /\ contents \in Contents
    /\ offers = {} /\ agreed = Nothing

\* A save: the approvals rest on one of the offers afterwards, if on any.
Write ==
    /\ open
    /\ version' = version + 1
    /\ contents' \in Contents
    /\ agreed' \in offers \cup {Nothing}
    /\ UNCHANGED <<open, offers>>

\* A change of status: closed, or taken back into work.
Turn ==
    /\ version' = version + 1
    /\ open' = ~open
    /\ UNCHANGED <<contents, offers, agreed>>

\* A new offer has the number after all others, and may become the base.
Offer ==
    /\ open
    /\ \E n \in offers' :
        /\ \A m \in offers : m < n
        /\ offers' = offers \cup {n}
        /\ agreed' \in {agreed, n}
    /\ UNCHANGED <<open, version, contents>>

\* An offer is taken back; not the one the approvals rest on.
Withdraw ==
    /\ open
    /\ \E n \in offers \ {agreed} : offers' = offers \ {n}
    /\ UNCHANGED <<open, version, contents, agreed>>

Next == Write \/ Turn \/ Offer \/ Withdraw

Spec == Init /\ [][Next]_ledger

=============================================================================
