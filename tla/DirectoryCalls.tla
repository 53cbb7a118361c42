---------------------------- MODULE DirectoryCalls ----------------------------
(***************************************************************************)
(* The numbers of requests and the settings, own companies, units, and the *)
(* counterparties of a client.                                             *)
(***************************************************************************)
EXTENDS RecordState

\* createRequest and copyRequest: a transaction that holds the settings row
\* from the first statement on. A number there is already (it is unique)
\* rolls everything back, the counter too.
CreateRequest ==
    LET n == settings.next IN
    /\ settings' = IF n \in numbers THEN settings ELSE [settings EXCEPT !.next = n + 1]
    /\ numbers' = numbers \cup {n}
    /\ WroteAtOnce("numbers")
    /\ UNCHANGED <<company, unit, client, party, photos>>

\* Mutant: counters may be set to any value.
CountersGrowAny(patch) == TRUE

\* assertCountersOnlyGrow
CountersGrow(patch) == patch.next # None => patch.next >= settings.next

\* updateSettings: the row is read and the patch checked against it
StartSettings(c, patch) ==
    /\ CountersGrow(patch)
    /\ Begin(c, "numbers", "settings", None, patch, settings)
    /\ UNCHANGED records

\* applySettingsPatch, then every column is written as it was read or patched.
SettingsWrite(c) ==
    LET ask == call[c].ask IN
    /\ At(c, "settings", "write")
    /\ settings' = [f \in {"next", "other"} |->
                      IF ask[f] = None THEN call[c].saw[f] ELSE ask[f]]
    /\ Wrote(c, "idle")
    /\ UNCHANGED <<numbers, company, unit, client, party, photos>>

-----------------------------------------------------------------------------
NoCompany == [there |-> FALSE, default |-> FALSE, active |-> FALSE, version |-> 0]
There == {k \in Companies : company[k].there}

\* resolveDefaultFlag refuses to take the mark from the default company ...
Refused(requested, others, was) == others /\ ~requested /\ was

\* ... and marks the only company, asked or not; assertDefaultStaysActive.
StartCompany(c, kind, k, ask) ==
    LET others == There \ {k} # {}
        default == ask.default \/ ~others
    IN /\ ~Refused(ask.default, others, company[k].default)
       /\ default => ask.active
       /\ Begin(c, "companies", kind, k, ask, default)
       /\ UNCHANGED records

\* updateMany isDefault = false, of the others
Unmarked(k) == [j \in Companies |-> IF j = k THEN company[j]
                                    ELSE [company[j] EXCEPT !.default = FALSE]]

\* expectedVersion: none is asked for, or it is still that version
VersionAgrees(version, ask) == ask.version = None \/ ask.version = version

\* The transaction of createOwnCompany and updateOwnCompany.
CompanyWrite(c) ==
    LET k == call[c].of
        new == [there |-> TRUE, default |-> call[c].saw, active |-> call[c].ask.active,
                version |-> company[k].version + 1]
    IN /\ call[c].kind \in {"companyCreate", "companyUpdate"} /\ call[c].at = "write"
       /\ IF call[c].kind = "companyUpdate" /\ ~VersionAgrees(company[k].version, call[c].ask)
          THEN End(c) /\ UNCHANGED company
          ELSE /\ company' = [(IF call[c].saw THEN Unmarked(k) ELSE company) EXCEPT ![k] = new]
               /\ Wrote(c, "idle")
       /\ UNCHANGED <<settings, numbers, unit, client, party, photos>>

-----------------------------------------------------------------------------
\* Mutant: only the synonyms of the others are taken, not their codes.
TakenSynonyms(u) == UNION {unit[v] : v \in Units \ {u}}

\* assertAliasesFree: the codes and synonyms of the others
Taken(u) == (Units \ {u}) \cup UNION {unit[v] : v \in Units \ {u}}

\* updateUnit; normalizeAliases leaves out the unit's own code
StartUnit(c, u, words) ==
    /\ (words \ {u}) \cap Taken(u) = {}
    /\ Begin(c, "units", "unit", u, words \ {u}, None)
    /\ UNCHANGED records

UnitWrite(c) ==
    /\ At(c, "unit", "write")
    /\ unit' = [unit EXCEPT ![call[c].of] = call[c].ask]
    /\ Wrote(c, "idle")
    /\ UNCHANGED <<settings, numbers, company, client, party, photos>>

-----------------------------------------------------------------------------
\* A list is a function of its counterparties to whether they are active and
\* marked as default. None in place of a list: the list is not passed on.
\* withSingleDefault: one mark, of the first marked or the first; the order of
\* a list is left open.
SingleDefault(list) ==
    LET marked == {p \in DOMAIN list : list[p].default}
        from == IF marked = {} THEN DOMAIN list ELSE marked
    IN {[p \in DOMAIN list |-> [list[p] EXCEPT !.default = (p = d)]] : d \in from}
       \cup (IF from = {} THEN {list} ELSE {})

\* What a counterparty is in the list read from the database.
Stored == [p \in {q \in Parties : party[q].there} |->
             [active |-> party[p].active, default |-> party[p].default]]

\* updateClient up to prepareNested: lists that were not passed are those read.
StartClient(c, ask) ==
    /\ \E list \in SingleDefault(IF ask.list = None THEN Stored ELSE ask.list) :
         Begin(c, "clients", "client", None, ask, list)
    /\ UNCHANGED records

\* Mutant: the version is only compared when a list is passed.
ClientAgreesWithList(c) ==
    call[c].ask.list # None => VersionAgrees(client, call[c].ask)

ClientAgrees(c) == VersionAgrees(client, call[c].ask)

\* The transaction: the client's row, locked from then on, and saveNested, which
\* puts away who is not in the list, and takes over those who are.
ClientWrite(c) ==
    LET list == call[c].saw IN
    /\ At(c, "client", "write")
    /\ IF ClientAgrees(c)
       THEN /\ client' = client + 1
            /\ party' = [p \in Parties |->
                 IF p \in DOMAIN list
                 THEN [there |-> TRUE, active |-> list[p].active, default |-> list[p].default]
                 ELSE [party[p] EXCEPT !.active = FALSE]]
            /\ Wrote(c, "idle")
       ELSE End(c) /\ UNCHANGED <<client, party>>
    /\ UNCHANGED <<settings, numbers, company, unit, photos>>

-----------------------------------------------------------------------------
\* The inputs there can be. The version is one the client has seen.
Patches == [next : 1 .. MaxCalls["numbers"] + 1, other : {None}] \cup [next : {None}, other : {1, 2}]
Lists == UNION {[ps -> [active : {TRUE}, default : BOOLEAN]] : ps \in SUBSET Parties}
Seen(version) == {None} \cup 1 .. version

StartDirectoryCall(c) ==
    \/ \E patch \in Patches : StartSettings(c, patch)
    \/ \E k \in Companies, d, a \in BOOLEAN :
         \/ /\ k \notin There /\ \A e \in Calls : call[e].of # k
            /\ StartCompany(c, "companyCreate", k, [default |-> d, active |-> a])
         \/ /\ k \in There
            /\ \E v \in Seen(company[k].version) :
                 StartCompany(c, "companyUpdate", k, [default |-> d, active |-> a, version |-> v])
    \/ \E u \in Units, words \in SUBSET Words : StartUnit(c, u, words)
    \/ \E list \in Lists \cup {None}, v \in Seen(client) :
         StartClient(c, [list |-> list, version |-> v])

DirectoryStep(c) == SettingsWrite(c) \/ CompanyWrite(c) \/ UnitWrite(c) \/ ClientWrite(c)

=============================================================================
