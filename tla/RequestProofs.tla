---------------------------- MODULE RequestProofs ----------------------------
(***************************************************************************)
(* The types and the safety of the request document, its attachments and   *)
(* its edit lock, for every value of the constants; first the types, and   *)
(* the facts about KP versions that they rest on.                          *)
(*                                                                         *)
(* The argument: between SELECT ... FOR UPDATE and its commit a call sees  *)
(* exactly the stored request (TxInv), because every other writer of the   *)
(* row waits for the same row lock. So what a transaction has checked or   *)
(* computed from its view is true of the row it updates.                   *)
(*                                                                         *)
(* At the end: RequestServer implements RequestLedger. Each commit is one  *)
(* step of the ledger, and no other step shows in it.                      *)
(***************************************************************************)
EXTENDS RequestServer, TLAPS, FiniteSetTheorems, WellFoundedInduction

-----------------------------------------------------------------------------
(* Types. What approvalBaseKp picks exists because the versions of the     *)
(* KPs are bounded; a caller is a real tab as long as it is served.        *)

KpsBounded(ks, n) ==
    /\ ks \subseteq Kp
    /\ IsFiniteSet(ks)
    /\ \A k \in ks : 1 <= k.version /\ k.version <= k.id /\ k.id < n

LockTypes ==
    /\ clock \in Nat
    /\ lock \in {NoLock} \cup [tab : Tabs, expires : Nat]
    /\ blocked \subseteq Users
    /\ rowTx \in Calls \cup {NoCall}

DocTypes ==
    /\ row \in Row
    /\ nextKp \in Nat \ {0}
    /\ KpsBounded(kps, nextKp)
    /\ journal \in Seq([base : Nat, tab : Tabs])

FileTypes == files \subseteq Nat /\ disk \subseteq Nat /\ nextFile \in Nat

CallTypes ==
    /\ pc \in [Calls -> Points]
    /\ op \in [Calls -> Op]
    /\ view \in [Calls -> [row : Row, kps : SUBSET Kp]]
    /\ \A c \in Calls : op[c].kind # "none" => op[c].tab \in Tabs
    /\ \A c \in Calls : op[c].kind = "block" => op[c].user \in Users
    /\ \A c \in Calls : KpsBounded(view[c].kps, nextKp)

TypeInv == LockTypes /\ DocTypes /\ FileTypes /\ CallTypes

-----------------------------------------------------------------------------
(* A bounded, non-empty set of naturals has a largest element.             *)
LEMMA LargestExists ==
    ASSUME NEW S \in SUBSET Nat, S # {}, NEW n \in Nat, \A s \in S : s <= n
    PROVE  \E m \in S : \A s \in S : s <= m
<1> DEFINE T == {n - s : s \in S}
<1>1. T \subseteq Nat /\ T # {}
  <2>1. \A s \in S : n - s \in Nat
    OBVIOUS
  <2> QED
    BY <2>1
<1>2. \E x \in T : \A y \in T : ~ (<<y, x>> \in OpToRel(<, Nat))
  BY <1>1, WFMin, NatLessThanWellFounded
<1>3. PICK x \in T : \A y \in T : ~ (y < x)
  BY <1>1, <1>2 DEF OpToRel
<1>4. PICK m \in S : x = n - m
  OBVIOUS
<1>5. ASSUME NEW s \in S PROVE s <= m
  <2>1. n - s \in T
    OBVIOUS
  <2>2. ~ (n - s < n - m)
    BY <1>3, <1>4, <2>1
  <2> QED
    BY <2>2
<1> QED
  BY <1>5

(* A non-empty set of KPs has one with the largest version number, so what  *)
(* approvalBaseKp and the version columns CHOOSE is a KP of the set.        *)
LEMMA NewestExists ==
    ASSUME NEW ks, NEW n \in Nat, ks \subseteq Kp, ks # {},
           \A k \in ks : k.version <= n
    PROVE  \E k \in ks : \A j \in ks : j.version <= k.version
<1> DEFINE V == {k.version : k \in ks}
<1>1. V \in SUBSET Nat /\ V # {} /\ \A v \in V : v <= n
  BY DEF Kp
<1>2. PICK m \in V : \A v \in V : v <= m
  <2> HIDE DEF V
  <2> QED BY <1>1, LargestExists
<1>3. PICK k \in ks : m = k.version
  OBVIOUS
<1> QED
  BY <1>2, <1>3

(* The number a new KP gets is above every number in use, and at most one  *)
(* above the largest id.                                                   *)
LEMMA NextKpVersionFresh ==
    ASSUME NEW ks, NEW n \in Nat \ {0}, KpsBounded(ks, n)
    PROVE  /\ NextKpVersion(ks) \in Nat
           /\ 1 <= NextKpVersion(ks) /\ NextKpVersion(ks) <= n
           /\ \A k \in ks : k.version < NextKpVersion(ks)
<1>1. CASE ks = {}
  BY <1>1 DEF NextKpVersion
<1>2. CASE ks # {}
  <2>1. \E k \in ks : \A j \in ks : j.version <= k.version
    <3>1. \A k \in ks : k.version \in Nat /\ k.id \in Nat /\ k.version <= n
      BY DEF KpsBounded, Kp
    <3> QED
      BY <1>2, <3>1, NewestExists DEF KpsBounded
  <2> DEFINE newest == CHOOSE k \in ks : \A j \in ks : j.version <= k.version
  <2>2. newest \in ks /\ \A j \in ks : j.version <= newest.version
    BY <2>1
  <2>3. NextKpVersion(ks) = newest.version + 1
    BY <1>2 DEF NextKpVersion
  <2> HIDE DEF newest
  <2>4. \A k \in ks : k.version \in Nat /\ k.id \in Nat
    BY DEF KpsBounded, Kp
  <2> QED
    BY <2>2, <2>3, <2>4 DEF KpsBounded
<1> QED
  BY <1>1, <1>2

(* lastKpFinal of a bounded set of KPs is a truth value.                    *)
LEMMA LastFinalType ==
    ASSUME NEW ks, NEW n \in Nat \ {0}, KpsBounded(ks, n)
    PROVE  LastFinal(ks) \in BOOLEAN
<1>1. CASE ks = {}
  BY <1>1 DEF LastFinal
<1>2. CASE ks # {}
  <2>1. \A k \in ks : k.version \in Nat /\ k.id \in Nat /\ k.version <= n
    BY DEF KpsBounded, Kp
  <2>2. \E k \in ks : \A j \in ks : j.version <= k.version
    BY <1>2, <2>1, NewestExists DEF KpsBounded
  <2> DEFINE newest == CHOOSE k \in ks : \A j \in ks : j.version <= k.version
  <2>3. newest \in ks
    BY <2>2
  <2>4. LastFinal(ks) = newest.final
    BY <1>2 DEF LastFinal
  <2> HIDE DEF newest
  <2> QED
    BY <2>3, <2>4 DEF KpsBounded, Kp
<1> QED
  BY <1>1, <1>2

(* The base of approvals is one of the KPs, or none at all.                 *)
LEMMA ApprovalBaseType ==
    ASSUME NEW ks, NEW n \in Nat \ {0}, KpsBounded(ks, n), NEW chosen \in Nat
    PROVE  /\ ApprovalBase(ks, chosen) \in Nat
           /\ \/ ApprovalBase(ks, chosen) = NoKp
              \/ \E k \in ks : k.id = ApprovalBase(ks, chosen)
<1> DEFINE ordinary == {k \in ks : ~k.final}
           newest == CHOOSE k \in ordinary :
                        \A j \in ordinary : j.version <= k.version
<1>1. CASE \E k \in ordinary : k.id = chosen
  BY <1>1 DEF ApprovalBase
<1>2. CASE ordinary = {}
  BY <1>2 DEF ApprovalBase, NoKp
<1>3. CASE ordinary # {} /\ ~ \E k \in ordinary : k.id = chosen
  <2>1. ordinary \subseteq Kp /\ \A k \in ordinary : k.version <= n
    BY DEF KpsBounded, Kp
  <2>2. \E k \in ordinary : \A j \in ordinary : j.version <= k.version
    <3> HIDE DEF ordinary
    <3> QED BY <1>3, <2>1, NewestExists
  <2>3. newest \in ordinary
    <3> HIDE DEF ordinary
    <3> QED BY <2>2
  <2>4. ApprovalBase(ks, chosen) = newest.id
    BY <1>3 DEF ApprovalBase
  <2> HIDE DEF newest
  <2> QED
    BY <2>3, <2>4 DEF KpsBounded, Kp
<1> QED
  BY <1>1, <1>2, <1>3

LEMMA SumBaseType ==
    ASSUME NEW ks, NEW n \in Nat \ {0}, KpsBounded(ks, n), NEW chosen \in Nat,
           NEW approved \in BOOLEAN
    PROVE  SumBase(approved, ks, chosen) \in Int
BY ApprovalBaseType DEF SumBase, NoSum

(* The KP columns of the Request row have their types.                      *)
LEMMA WithKpsType ==
    ASSUME NEW ks, NEW n \in Nat \ {0}, KpsBounded(ks, n), NEW r \in Row,
           NEW chosen \in Nat
    PROVE  WithKps(r, chosen, ks) \in Row
<1>1. /\ SumBase(r.approved, ks, chosen) \in Int
      /\ LastFinal(ks) \in BOOLEAN
      /\ Cardinality(ks) \in Nat
  BY SumBaseType, LastFinalType, FS_CardinalityType DEF KpsBounded, Row
<1> HIDE DEF KpsBounded
<1> QED
  BY <1>1 DEF WithKps, Row

-----------------------------------------------------------------------------
(* What the building blocks of the steps do to the types of the calls.      *)

LEMMA StartTypes ==
    ASSUME TypeInv, NEW c \in Calls, NEW o \in Op, o.tab \in Tabs,
           o.kind = "block" => o.user \in Users,
           NEW point \in Points, Start(c, o, point)
    PROVE  TypeInv'
<1>1. LockTypes' /\ DocTypes' /\ FileTypes'
  BY DEF TypeInv, Start, LockTypes, DocTypes, FileTypes, KpsBounded, lockVars,
         docVars, fileVars
<1>2. /\ pc' \in [Calls -> Points]
      /\ op' \in [Calls -> Op]
      /\ \A d \in Calls : op'[d].kind # "none" => op'[d].tab \in Tabs
      /\ \A d \in Calls : op'[d].kind = "block" => op'[d].user \in Users
  BY DEF TypeInv, CallTypes, Start
<1>3. view' = view /\ nextKp' = nextKp
  BY DEF Start, docVars
<1> QED
  BY <1>1, <1>2, <1>3 DEF TypeInv, CallTypes, KpsBounded

LEMMA GotoTypes ==
    ASSUME CallTypes, NEW c \in Calls, NEW point \in Points, Goto(c, point),
           nextKp' = nextKp
    PROVE  CallTypes'
BY DEF CallTypes, Goto, KpsBounded

LEMMA NoOpType == NoOp \in Op
BY DEF NoOp, Op, Statuses

LEMMA NoViewType ==
    ASSUME nextKp \in Nat
    PROVE  NoView \in [row : Row, kps : SUBSET Kp] /\ KpsBounded(NoView.kps, nextKp)
<1>1. NewRow \in Row
  BY DEF NewRow, Row, Statuses, NoKp, NoSum
<1> QED
  BY <1>1, FS_EmptySet DEF NoView, KpsBounded

LEMMA EndTypes ==
    ASSUME CallTypes, NEW c \in Calls, End(c),
           nextKp \in Nat, nextKp' \in Nat, nextKp <= nextKp'
    PROVE  CallTypes'
<1>1. /\ pc' \in [Calls -> Points]
      /\ op' \in [Calls -> Op]
      /\ view' \in [Calls -> [row : Row, kps : SUBSET Kp]]
  BY NoOpType, NoViewType DEF CallTypes, End, Points
<1>2. /\ \A d \in Calls : op'[d].kind # "none" => op'[d].tab \in Tabs
      /\ \A d \in Calls : op'[d].kind = "block" => op'[d].user \in Users
  BY DEF CallTypes, End, NoOp
<1>3. ASSUME NEW d \in Calls PROVE KpsBounded(view'[d].kps, nextKp')
  <2>1. KpsBounded(view'[d].kps, nextKp)
    BY NoViewType DEF CallTypes, End
  <2>2. \A k \in view'[d].kps : k.id \in Nat
    BY <2>1 DEF KpsBounded, Kp
  <2> QED
    BY <2>1, <2>2 DEF KpsBounded
<1>4. \A d \in Calls : KpsBounded(view'[d].kps, nextKp')
  BY <1>3
<1> QED
  BY <1>1, <1>2, <1>4 DEF CallTypes

LEMMA LockRowTypes ==
    ASSUME TypeInv, NEW c \in Calls, LockRow(c),
           UNCHANGED <<clock, lockVars, docVars, fileVars>>
    PROVE  TypeInv'
<1>1. LockTypes' /\ DocTypes' /\ FileTypes'
  BY DEF TypeInv, LockRow, LockTypes, DocTypes, FileTypes, KpsBounded, lockVars,
         docVars, fileVars
<1>2. /\ pc' \in [Calls -> Points]
      /\ op' = op
      /\ view' \in [Calls -> [row : Row, kps : SUBSET Kp]]
      /\ \A d \in Calls : KpsBounded(view'[d].kps, nextKp)
  BY DEF TypeInv, CallTypes, DocTypes, LockRow, Points, KpsBounded
<1> QED
  BY <1>1, <1>2 DEF TypeInv, CallTypes, KpsBounded, docVars

(* A step that leaves lock, row and files alone keeps the types if it keeps *)
(* those of the calls.                                                      *)
LEMMA QuietTypes ==
    ASSUME TypeInv, UNCHANGED <<clock, lockVars, docVars, fileVars>>,
           rowTx' \in {rowTx, NoCall}, CallTypes'
    PROVE  TypeInv'
BY DEF TypeInv, LockTypes, DocTypes, FileTypes, KpsBounded, lockVars, docVars,
       fileVars

(* So does a step that writes a well-typed lock row.                        *)
LEMMA LockWriteTypes ==
    ASSUME TypeInv, UNCHANGED <<docVars, fileVars, rowTx>>, LockTypes', CallTypes'
    PROVE  TypeInv'
BY DEF TypeInv, DocTypes, FileTypes, KpsBounded, docVars, fileVars

LEMMA RefuseTypes ==
    ASSUME TypeInv, NEW c \in Calls, Refuse(c)
    PROVE  TypeInv'
<1>1. CallTypes'
  BY EndTypes DEF TypeInv, DocTypes, Refuse, EndTx, docVars
<1> QED
  BY <1>1, QuietTypes DEF Refuse, EndTx

LEMMA AskType ==
    ASSUME clock \in Nat, NEW kind \in AllKinds, NEW t \in Tabs
    PROVE  Ask(kind, t) \in Op /\ Ask(kind, t).tab = t /\ Ask(kind, t).kind = kind
BY NoOpType DEF Ask, Op, NoOp

-----------------------------------------------------------------------------
(* One lemma per service.                                                   *)

LEMMA StartCallTypes ==
    ASSUME TypeInv, NEW c \in Calls, StartCall(c)
    PROVE  TypeInv'
<1>1. clock \in Nat /\ row.version \in Nat /\ nextKp \in Nat /\ nextFile \in Nat
  BY DEF TypeInv, LockTypes, DocTypes, FileTypes, Row
<1>2. CASE StartLockCall(c)
  <2>1. PICK t \in Tabs :
           \/ StartAcquire(c, t) \/ StartHeartbeat(c, t) \/ StartRelease(c, t)
           \/ StartForce(c, t) \/ \E u \in Users : StartBlock(c, t, u)
    BY <1>2 DEF StartLockCall
  <2>2. CASE ~ \E u \in Users : StartBlock(c, t, u)
    <3>1. \E kind \in AllKinds, point \in Points :
                kind # "block" /\ Start(c, Ask(kind, t), point)
      BY <2>1, <2>2 DEF StartAcquire, StartHeartbeat, StartRelease, StartForce,
                        AllKinds, Points
    <3> QED
      BY <1>1, <3>1, AskType, StartTypes
  <2>3. CASE \E u \in Users : StartBlock(c, t, u)
    <3>1. PICK u \in Users : StartBlock(c, t, u)
      BY <2>3
    <3>2. Ask("block", t) \in Op /\ Ask("block", t).tab = t
      BY <1>1, AskType DEF AllKinds
    <3> DEFINE o == [Ask("block", t) EXCEPT !.user = u]
    <3>3. o \in Op /\ o.tab = t /\ o.user = u
      BY <3>2 DEF Op
    <3>4. Start(c, o, "once")
      BY <3>1 DEF StartBlock
    <3> HIDE DEF o
    <3> QED
      BY <3>3, <3>4, StartTypes DEF Points
  <2> QED
    BY <2>2, <2>3
<1>3. CASE StartDocumentCall(c)
  <2>1. PICK t \in Tabs, base \in 1 .. row.version :
           \/ \E release \in BOOLEAN : StartSave(c, t, base, release)
           \/ \E to \in Statuses : StartStatus(c, t, base, to)
    BY <1>3 DEF StartDocumentCall
  <2>2. \A kind \in AllKinds :
           Ask(kind, t) \in Op /\ Ask(kind, t).tab = t /\ Ask(kind, t).kind = kind
    BY <1>1, AskType
  <2>3. \E o \in Op : o.tab = t /\ o.kind # "block" /\ Start(c, o, "begin")
    <3>1. ASSUME NEW release \in BOOLEAN, StartSave(c, t, base, release)
          PROVE  \E o \in Op : o.tab = t /\ o.kind # "block" /\ Start(c, o, "begin")
      <4> DEFINE o == [Ask("save", t) EXCEPT !.base = base, !.flag = release]
      <4>0. base \in Nat /\ Ask("save", t) \in Op /\ Ask("save", t).tab = t
            /\ Ask("save", t).kind = "save"
        BY <1>1, <2>2 DEF AllKinds
      <4>1. o \in Op /\ o.tab = t /\ o.kind # "block"
        BY <4>0 DEF Op
      <4> QED
        BY <3>1, <4>1 DEF StartSave
    <3>2. ASSUME NEW to \in Statuses, StartStatus(c, t, base, to)
          PROVE  \E o \in Op : o.tab = t /\ o.kind # "block" /\ Start(c, o, "begin")
      <4> DEFINE o == [Ask("status", t) EXCEPT !.base = base, !.to = to]
      <4>0. base \in Nat /\ Ask("status", t) \in Op /\ Ask("status", t).tab = t
            /\ Ask("status", t).kind = "status"
        BY <1>1, <2>2 DEF AllKinds
      <4>1. o \in Op /\ o.tab = t /\ o.kind # "block"
        BY <4>0 DEF Op
      <4> QED
        BY <3>2, <4>1 DEF StartStatus
    <3> QED
      BY <2>1, <3>1, <3>2
  <2> QED
    BY <2>3, StartTypes DEF Points
<1>4. CASE StartKpCall(c)
  <2>1. PICK t \in Tabs :
           \/ \E final \in BOOLEAN : StartKpCreate(c, t, final)
           \/ \E id \in 1 .. (nextKp - 1) : StartKpDelete(c, t, id)
    BY <1>4 DEF StartKpCall
  <2>2. \A kind \in AllKinds :
           Ask(kind, t) \in Op /\ Ask(kind, t).tab = t /\ Ask(kind, t).kind = kind
    BY <1>1, AskType
  <2>3. \E o \in Op : o.tab = t /\ o.kind # "block" /\ Start(c, o, "begin")
    <3>1. ASSUME NEW final \in BOOLEAN, StartKpCreate(c, t, final)
          PROVE  \E o \in Op : o.tab = t /\ o.kind # "block" /\ Start(c, o, "begin")
      <4> DEFINE o == [Ask("kpCreate", t) EXCEPT !.flag = final]
      <4>1. o \in Op /\ o.tab = t /\ o.kind # "block"
        BY <2>2 DEF Op, AllKinds
      <4> QED
        BY <3>1, <4>1 DEF StartKpCreate
    <3>2. ASSUME NEW id \in 1 .. (nextKp - 1), StartKpDelete(c, t, id)
          PROVE  \E o \in Op : o.tab = t /\ o.kind # "block" /\ Start(c, o, "begin")
      <4> DEFINE o == [Ask("kpDelete", t) EXCEPT !.target = id]
      <4>1. o \in Op /\ o.tab = t /\ o.kind # "block"
        BY <1>1, <2>2 DEF Op, AllKinds
      <4> QED
        BY <3>2, <4>1 DEF StartKpDelete
    <3> QED
      BY <2>1, <3>1, <3>2
  <2> QED
    BY <2>3, StartTypes DEF Points
<1>5. CASE StartFileCall(c)
  <2>1. PICK t \in Tabs :
           \/ StartFileAdd(c, t)
           \/ \E id \in 1 .. (nextFile - 1) : StartFileRemove(c, t, id)
    BY <1>5 DEF StartFileCall
  <2>2. \A kind \in AllKinds :
           Ask(kind, t) \in Op /\ Ask(kind, t).tab = t /\ Ask(kind, t).kind = kind
    BY <1>1, AskType
  <2>3. \E o \in Op : o.tab = t /\ o.kind # "block" /\ Start(c, o, "check")
    <3>1. ASSUME NEW id \in 1 .. (nextFile - 1), StartFileRemove(c, t, id)
          PROVE  \E o \in Op : o.tab = t /\ o.kind # "block" /\ Start(c, o, "check")
      <4> DEFINE o == [Ask("fileRemove", t) EXCEPT !.target = id]
      <4>1. o \in Op /\ o.tab = t /\ o.kind # "block"
        BY <1>1, <2>2 DEF Op, AllKinds
      <4> QED
        BY <3>1, <4>1 DEF StartFileRemove
    <3> QED
      BY <2>1, <2>2, <3>1 DEF StartFileAdd, AllKinds
  <2> QED
    BY <2>3, StartTypes DEF Points
<1> QED
  BY <1>2, <1>3, <1>4, <1>5 DEF StartCall

LEMMA LockStepTypes ==
    ASSUME TypeInv, NEW c \in Calls, LockStep(c)
    PROVE  TypeInv'
<1>1. /\ CallTypes
      /\ nextKp \in Nat
      /\ clock \in Nat /\ lock \in {NoLock} \cup [tab : Tabs, expires : Nat]
      /\ blocked \subseteq Users /\ rowTx \in Calls \cup {NoCall}
  BY DEF TypeInv, LockTypes, DocTypes
<1>2. op[c] \in Op /\ Renewed(c) \in Nat /\ op[c].at + Ttl \in Nat
  BY <1>1, TimeAssumption DEF CallTypes, Op, Renewed
<1>3. op[c].kind # "none" => op[c].tab \in Tabs
  BY <1>1 DEF CallTypes
<1>4. HoldsLock(c) /\ op[c].kind # "none" => lock \in [tab : Tabs, expires : Nat]
  BY <1>1, <1>3, TabsAssumption DEF HoldsLock, NoLock
<1>5. CASE AcquireExpire(c) \/ Release(c) \/ DropUserLocks(c)
  <2>1. LockTypes'
    BY <1>1, <1>5 DEF AcquireExpire, Release, DropUserLocks, LockTypes
  <2>2. CallTypes'
    BY <1>1, <1>5, GotoTypes, EndTypes
       DEF AcquireExpire, Release, DropUserLocks, Points, docVars
  <2> QED
    BY <1>5, <2>1, <2>2, LockWriteTypes
       DEF AcquireExpire, Release, DropUserLocks
<1>6. CASE AcquireCreate(c) \/ ForceLock(c)
  <2>1. [tab |-> op[c].tab, expires |-> Renewed(c)] \in [tab : Tabs, expires : Nat]
    BY <1>2, <1>3, <1>6 DEF AcquireCreate, ForceLock, At
  <2>2. LockTypes'
    BY <1>1, <1>6, <2>1 DEF AcquireCreate, ForceLock, LockTypes
  <2>3. CallTypes'
    BY <1>1, <1>6, EndTypes DEF AcquireCreate, ForceLock, docVars
  <2> QED
    BY <1>6, <2>2, <2>3, LockWriteTypes DEF AcquireCreate, ForceLock
<1>7. CASE AcquireRenew(c) \/ Heartbeat(c)
  <2>1. lock \in [tab : Tabs, expires : Nat] =>
            [lock EXCEPT !.expires = Renewed(c)] \in [tab : Tabs, expires : Nat]
    BY <1>2
  <2>2. LockTypes'
    BY <1>1, <1>4, <1>7, <2>1 DEF AcquireRenew, Heartbeat, LockTypes, At
  <2>3. CallTypes'
    BY <1>1, <1>7, EndTypes DEF AcquireRenew, Heartbeat, docVars
  <2> QED
    BY <1>7, <2>2, <2>3, LockWriteTypes DEF AcquireRenew, Heartbeat
<1>8. CASE AcquireTaken(c) \/ AcquireRead(c)
  <2>1. CallTypes'
    BY <1>1, <1>8, GotoTypes, EndTypes
       DEF AcquireTaken, AcquireRead, Points, docVars
  <2> QED
    BY <1>8, <2>1, QuietTypes DEF AcquireTaken, AcquireRead
<1>9. CASE BlockUser(c)
  <2>1. op[c].user \in Users
    BY <1>1, <1>9 DEF CallTypes, BlockUser, At
  <2>2. LockTypes'
    BY <1>1, <1>9, <2>1 DEF BlockUser, LockTypes
  <2>3. CallTypes'
    BY <1>1, <1>9, GotoTypes DEF BlockUser, Points, docVars
  <2> QED
    BY <1>9, <2>2, <2>3, LockWriteTypes DEF BlockUser
<1> QED
  BY <1>5, <1>6, <1>7, <1>8, <1>9 DEF LockStep

LEMMA JournalEntryType ==
    ASSUME TypeInv, NEW c \in Calls, op[c].kind # "none"
    PROVE  JournalEntry(c) \in [base : Nat, tab : Tabs]
<1>1. op[c].base \in Nat /\ op[c].tab \in Tabs
  BY DEF TypeInv, CallTypes, Op
<1> QED
  BY <1>1 DEF JournalEntry

LEMMA DocumentStepTypes ==
    ASSUME TypeInv, NEW c \in Calls, DocumentStep(c)
    PROVE  TypeInv'
<1>1. /\ CallTypes
      /\ nextKp \in Nat \ {0}
      /\ row \in Row /\ KpsBounded(view[c].kps, nextKp)
      /\ op[c] \in Op /\ op[c].at + Ttl \in Nat
  BY TimeAssumption DEF TypeInv, DocTypes, CallTypes, Op
<1>2. CASE SaveBegin(c) \/ StatusBegin(c)
  BY <1>2, LockRowTypes DEF SaveBegin, StatusBegin
<1>3. CASE SaveAssert(c) \/ StatusAssert(c)
  <2>1. CallTypes'
    BY <1>1, <1>3, GotoTypes DEF SaveAssert, StatusAssert, Points, docVars
  <2> QED
    BY <1>3, <2>1, QuietTypes DEF SaveAssert, StatusAssert
<1>4. CASE SaveRefuse(c) \/ SaveAbort(c) \/ StatusRefuse(c) \/ StatusAbort(c)
  BY <1>4, RefuseTypes DEF SaveRefuse, SaveAbort, StatusRefuse, StatusAbort
<1>5. ASSUME NEW approval \in 0 .. (nextKp - 1), NEW approved \in BOOLEAN,
             SaveCommit(c, approval, approved)
      PROVE  TypeInv'
  <2>1. SumBase(approved, view[c].kps, approval) \in Int
    BY <1>1, SumBaseType
  <2>2. row' \in Row
    <3>1. row.version + 1 \in Nat /\ approval \in Nat
      BY <1>1 DEF Row
    <3> QED
      BY <1>1, <1>5, <2>1, <3>1 DEF SaveCommit, Row
  <2>3. journal' \in Seq([base : Nat, tab : Tabs])
    BY <1>5, JournalEntryType DEF SaveCommit, At, TypeInv, DocTypes
  <2>4. lock' \in {NoLock} \cup [tab : Tabs, expires : Nat]
    BY <1>1, <1>5 DEF SaveCommit, SaveLock, TypeInv, LockTypes
  <2>5. CallTypes'
    BY <1>1, <1>5, EndTypes DEF SaveCommit, EndTx
  <2>6. /\ UNCHANGED <<clock, blocked, kps, nextKp, fileVars>>
        /\ rowTx' = NoCall
    BY <1>5 DEF SaveCommit, EndTx
  <2> QED
    BY <2>2, <2>3, <2>4, <2>5, <2>6
       DEF TypeInv, LockTypes, DocTypes, FileTypes, KpsBounded, fileVars
<1>6. CASE StatusCommit(c)
  <2>1. row' \in Row
    <3>1. row.version + 1 \in Nat /\ op[c].to \in Statuses
      BY <1>1 DEF Row, Op
    <3> QED
      BY <1>1, <1>6, <3>1 DEF StatusCommit, Row
  <2>2. journal' \in Seq([base : Nat, tab : Tabs])
    BY <1>6, JournalEntryType DEF StatusCommit, At, TypeInv, DocTypes
  <2>3. lock' \in {NoLock} \cup [tab : Tabs, expires : Nat]
    BY <1>6 DEF StatusCommit, TypeInv, LockTypes
  <2>4. CallTypes'
    BY <1>1, <1>6, EndTypes DEF StatusCommit, EndTx
  <2>5. /\ UNCHANGED <<clock, blocked, kps, nextKp, fileVars>>
        /\ rowTx' = NoCall
    BY <1>6 DEF StatusCommit, EndTx
  <2> QED
    BY <2>1, <2>2, <2>3, <2>4, <2>5
       DEF TypeInv, LockTypes, DocTypes, FileTypes, KpsBounded, fileVars
<1> QED
  BY <1>2, <1>3, <1>4, <1>5, <1>6 DEF DocumentStep

(* Adding the next KP to a bounded set of KPs, and removing one from it,     *)
(* keep it bounded.                                                         *)
LEMMA AddKpBounded ==
    ASSUME NEW ks, NEW n \in Nat \ {0}, KpsBounded(ks, n),
           NEW kp \in Kp, kp.id = n, 1 <= kp.version, kp.version <= n
    PROVE  KpsBounded(ks \cup {kp}, n + 1)
<1>1. ks \cup {kp} \subseteq Kp
  BY DEF KpsBounded
<1>2. IsFiniteSet(ks \cup {kp})
  BY FS_AddElement DEF KpsBounded
<1>3. \A k \in ks \cup {kp} :
         1 <= k.version /\ k.version <= k.id /\ k.id < n + 1
  BY <1>1 DEF KpsBounded, Kp
<1> QED
  BY <1>1, <1>2, <1>3 DEF KpsBounded

LEMMA SubsetBounded ==
    ASSUME NEW ks, NEW n, KpsBounded(ks, n), NEW rest \in SUBSET ks
    PROVE  KpsBounded(rest, n)
BY FS_Subset DEF KpsBounded

LEMMA KpStepTypes ==
    ASSUME TypeInv, NEW c \in Calls, KpStep(c)
    PROVE  TypeInv'
<1>1. /\ CallTypes
      /\ nextKp \in Nat \ {0}
      /\ row \in Row /\ KpsBounded(kps, nextKp)
      /\ view[c].row \in Row /\ KpsBounded(view[c].kps, nextKp)
      /\ op[c] \in Op
  BY DEF TypeInv, DocTypes, CallTypes
<1>2. CASE KpCreateBegin(c) \/ KpDeleteBegin(c)
  BY <1>2, LockRowTypes DEF KpCreateBegin, KpDeleteBegin
<1>3. CASE KpCreateAssert(c) \/ KpDeleteAssert(c)
  <2>1. CallTypes'
    BY <1>1, <1>3, GotoTypes DEF KpCreateAssert, KpDeleteAssert, Points, docVars
  <2> QED
    BY <1>3, <2>1, QuietTypes DEF KpCreateAssert, KpDeleteAssert
<1>4. CASE KpCreateRefuse(c) \/ KpCreateAbort(c) \/ KpDeleteRefuse(c) \/ KpDeleteAbort(c)
  BY <1>4, RefuseTypes
     DEF KpCreateRefuse, KpCreateAbort, KpDeleteRefuse, KpDeleteAbort
<1>5. CASE KpCreateCommit(c)
  <2> DEFINE kp == [id |-> nextKp, version |-> NextKpVersion(view[c].kps),
                    final |-> op[c].flag]
  <2>1. kp \in Kp /\ kp.id = nextKp /\ 1 <= kp.version /\ kp.version <= nextKp
    BY <1>1, NextKpVersionFresh DEF Kp, Op
  <2>2. /\ kps' = kps \cup {kp} /\ nextKp' = nextKp + 1
        /\ row' = WithKps(row, row.approval, view[c].kps \cup {kp})
        /\ EndTx(c)
        /\ UNCHANGED <<clock, lockVars, journal, fileVars>>
    BY <1>5 DEF KpCreateCommit
  <2> HIDE DEF kp
  <2>3. KpsBounded(kps', nextKp') /\ KpsBounded(view[c].kps \cup {kp}, nextKp')
    BY <1>1, <2>1, <2>2, AddKpBounded
  <2>4. row' \in Row
    <3>1. row.approval \in Nat /\ nextKp' \in Nat \ {0}
      BY <1>1, <2>2 DEF Row
    <3> QED
      BY <1>1, <2>2, <2>3, <3>1, WithKpsType
  <2>5. CallTypes'
    BY <1>1, <2>2, EndTypes DEF EndTx
  <2> QED
    BY <2>2, <2>3, <2>4, <2>5
       DEF TypeInv, LockTypes, DocTypes, FileTypes, EndTx, lockVars, fileVars
<1>6. CASE KpDeleteCommit(c)
  <2> DEFINE rest   == {k \in view[c].kps : k.id # op[c].target}
             chosen == IF view[c].row.approval = op[c].target
                       THEN NoKp ELSE view[c].row.approval
  <2>1. /\ kps' = {k \in kps : k.id # op[c].target}
        /\ row' = WithKps(row, chosen, rest)
        /\ EndTx(c)
        /\ UNCHANGED <<clock, lockVars, nextKp, journal, fileVars>>
    BY <1>6 DEF KpDeleteCommit
  <2>2. KpsBounded(kps', nextKp) /\ KpsBounded(rest, nextKp)
    BY <1>1, <2>1, SubsetBounded
  <2>3. chosen \in Nat
    BY <1>1 DEF Row, NoKp
  <2>4. row' \in Row
    <3> HIDE DEF rest, chosen
    <3> QED BY <1>1, <2>1, <2>2, <2>3, WithKpsType
  <2>5. CallTypes'
    BY <1>1, <2>1, EndTypes DEF EndTx
  <2> QED
    BY <2>1, <2>2, <2>4, <2>5
       DEF TypeInv, LockTypes, DocTypes, FileTypes, EndTx, lockVars, fileVars
<1> QED
  BY <1>2, <1>3, <1>4, <1>5, <1>6 DEF KpStep

LEMMA FileStepTypes ==
    ASSUME TypeInv, NEW c \in Calls, FileStep(c)
    PROVE  TypeInv'
<1>1. /\ CallTypes /\ FileTypes
      /\ nextKp \in Nat
      /\ row \in Row /\ op[c] \in Op /\ op[c].target \in Nat
  BY DEF TypeInv, DocTypes, CallTypes, Op
<1>2. CASE FileCheck(c) \/ FileHolder(c) \/ FileRefuse(c) \/ FileInsertFails(c)
           \/ FileFind(c)
  <2>1. CallTypes'
    <3>1. \/ Goto(c, "holder") \/ Goto(c, "store") \/ Goto(c, "find")
          \/ Goto(c, "discard") \/ Goto(c, "remove") \/ End(c)
      BY <1>2 DEF FileCheck, FileHolder, FileRefuse, FileInsertFails, FileFind
    <3>2. nextKp' = nextKp
      BY <1>2 DEF FileCheck, FileHolder, FileRefuse, FileInsertFails, FileFind,
                  docVars
    <3> QED
      BY <1>1, <3>1, <3>2, GotoTypes, EndTypes DEF Points
  <2> QED
    BY <1>2, <2>1, QuietTypes
       DEF FileCheck, FileHolder, FileRefuse, FileInsertFails, FileFind
<1>3. CASE FileStore(c)
  <2>1. CallTypes'
    BY <1>1, <1>3 DEF FileStore, CallTypes, FileTypes, Op, Points, docVars
  <2>2. FileTypes'
    BY <1>1, <1>3 DEF FileStore, FileTypes
  <2> QED
    BY <1>3, <2>1, <2>2
       DEF FileStore, TypeInv, LockTypes, DocTypes, lockVars, docVars
<1>4. CASE FileDiscard(c) \/ FileUnlink(c)
  <2>1. CallTypes'
    BY <1>1, <1>4, EndTypes DEF FileDiscard, FileUnlink, docVars
  <2>2. FileTypes'
    BY <1>1, <1>4 DEF FileDiscard, FileUnlink, FileTypes
  <2> QED
    BY <1>4, <2>1, <2>2
       DEF FileDiscard, FileUnlink, TypeInv, LockTypes, DocTypes, lockVars, docVars
<1>5. CASE FileInsert(c) \/ FileRemove(c)
  <2>1. row' \in Row
    <3>1. row.filesCount + 1 \in Int /\ row.filesCount - 1 \in Int
      BY <1>1 DEF Row
    <3> QED
      BY <1>1, <1>5, <3>1 DEF FileInsert, FileRemove, Row
  <2>2. CallTypes'
    BY <1>1, <1>5, GotoTypes, EndTypes DEF FileInsert, FileRemove, Points
  <2>3. FileTypes'
    BY <1>1, <1>5 DEF FileInsert, FileRemove, FileTypes
  <2> QED
    BY <1>5, <2>1, <2>2, <2>3
       DEF FileInsert, FileRemove, TypeInv, LockTypes, DocTypes, lockVars
<1> QED
  BY <1>2, <1>3, <1>4, <1>5 DEF FileStep

-----------------------------------------------------------------------------
LEMMA InitTypes == Init => TypeInv
<1> SUFFICES ASSUME Init PROVE TypeInv
  OBVIOUS
<1>1. NewRow \in Row
  BY DEF NewRow, Row, Statuses, NoKp, NoSum
<1>2. KpsBounded({}, nextKp)
  BY FS_EmptySet DEF KpsBounded
<1>3. LockTypes /\ FileTypes
  BY DEF Init, LockTypes, FileTypes
<1>4. DocTypes
  BY <1>1, <1>2 DEF Init, DocTypes
<1>5. CallTypes
  BY <1>1, <1>2, NoOpType DEF Init, CallTypes, NoView, NoOp, Points
<1> QED
  BY <1>3, <1>4, <1>5 DEF TypeInv

LEMMA RestartTypes ==
    ASSUME TypeInv, Restart
    PROVE  TypeInv'
<1>1. NoView \in [row : Row, kps : SUBSET Kp] /\ KpsBounded(NoView.kps, nextKp)
  BY NoViewType DEF TypeInv, DocTypes
<1>2. CallTypes'
  BY <1>1, NoOpType
     DEF TypeInv, CallTypes, Restart, NoOp, Points, docVars
<1> QED
  BY <1>2, QuietTypes DEF Restart

LEMMA NextTypes == TypeInv /\ [Next]_vars => TypeInv'
<1> SUFFICES ASSUME TypeInv, [Next]_vars PROVE TypeInv'
  OBVIOUS
<1>1. CASE Tick
  BY <1>1 DEF Tick, TypeInv, LockTypes, DocTypes, FileTypes, CallTypes, lockVars,
              docVars, fileVars, callVars
<1>2. CASE Restart
  BY <1>2, RestartTypes
<1>3. ASSUME NEW c \in Calls, StartCall(c) PROVE TypeInv'
  BY <1>3, StartCallTypes
<1>4. ASSUME NEW c \in Calls, CallStep(c) PROVE TypeInv'
  BY <1>4, LockStepTypes, DocumentStepTypes, KpStepTypes, FileStepTypes
     DEF CallStep
<1>5. CASE UNCHANGED vars
  BY <1>5 DEF vars, TypeInv, LockTypes, DocTypes, FileTypes, CallTypes
<1> QED
  BY <1>1, <1>2, <1>3, <1>4, <1>5 DEF Next

(* TypeInv holds in every reachable state.                                  *)
LEMMA TypeInvariance == Spec => []TypeInv
<1> QED
  BY InitTypes, NextTypes, PTL DEF Spec

(* Every variable keeps its type, in particular the lock row is either gone *)
(* or some tab's, and the summary columns of the request stay defined,      *)
(* whatever was created and deleted before (locks, requests, kp and         *)
(* attachments services).                                                   *)
THEOREM TypeCorrect == Spec => []TypeOK
<1>1. TypeInv => TypeOK
  BY DEF TypeInv, TypeOK, LockTypes, DocTypes, FileTypes, CallTypes, KpsBounded
<1> QED
  BY <1>1, TypeInvariance, PTL


-----------------------------------------------------------------------------
(* Safety *)

\* Between taking the row and committing.
InTx(c) == pc[c] \in {"assert", "commit"}

\* A transaction holds the row, and its view of the request is the request.
TxInv ==
    \A c \in Calls : InTx(c) =>
        rowTx = c /\ view[c] = [row |-> row, kps |-> kps]

\* What a call about to commit has checked of a request r with KPs ks.
Checked(c, r, ks) ==
    /\ op[c].kind \in {"save", "status"} => op[c].base = r.version
    /\ op[c].kind \in {"save", "kpCreate", "kpDelete"} => r.status \in Editable
    /\ op[c].kind = "status" => op[c].to \in Transition[r.status]
    /\ op[c].kind = "kpDelete" =>
          ~ (ApprovalBase(ks, r.approval) = op[c].target /\ r.approved)

\* It is still so when the call commits.
CheckedInv == \A c \in Calls : pc[c] = "commit" => Checked(c, row, kps)

DocSafe ==
    /\ LinearHistory
    /\ KpVersionsUnique
    /\ KpSummaryCurrent
    /\ ApprovedSumCurrent

DocInv == TxInv /\ CheckedInv /\ DocSafe

-----------------------------------------------------------------------------
\* A step of c touches no other call.
Alone(c) == \A d \in Calls \ {c} :
                pc'[d] = pc[d] /\ op'[d] = op[d] /\ view'[d] = view[d]

LEMMA BlocksAlone ==
    ASSUME TypeInv, NEW c \in Calls
    PROVE  /\ \A point \in Points : Goto(c, point) => Alone(c) /\ pc'[c] = point
           /\ End(c) => Alone(c) /\ pc'[c] = "idle"
           /\ \A o, point : Start(c, o, point) => Alone(c) /\ pc'[c] = point
           /\ LockRow(c) => Alone(c)
BY DEF TypeInv, CallTypes, Goto, End, Start, LockRow, Alone

(* DocSafe speaks of the stored request and the journal only.              *)
LEMMA DocSafeStable ==
    ASSUME DocSafe, UNCHANGED docVars
    PROVE  DocSafe'
BY DEF DocSafe, LinearHistory, KpVersionsUnique, KpSummaryCurrent,
       ApprovedSumCurrent, docVars

(* A step of c that leaves the request alone and does not end up in a       *)
(* transaction: it keeps rowTx, or gives up a row that c holds.              *)
LEMMA OutsideTx ==
    ASSUME DocInv, NEW c \in Calls, Alone(c), UNCHANGED docVars,
           pc'[c] \notin {"assert", "commit"},
           rowTx' = rowTx \/ InTx(c)
    PROVE  DocInv'
<1>1. ASSUME NEW d \in Calls, InTx(d)' PROVE rowTx' = d /\ view'[d] = [row |-> row', kps |-> kps']
  BY <1>1 DEF DocInv, TxInv, InTx, Alone, docVars
<1>2. CheckedInv'
  BY DEF DocInv, CheckedInv, Checked, Alone, docVars
<1>3. TxInv'
  BY <1>1 DEF TxInv
<1> QED
  BY <1>2, <1>3, DocSafeStable DEF DocInv

(* Taking the row: no other call is in a transaction.                       *)
LEMMA LockRowDoc ==
    ASSUME TypeInv, DocInv, NEW c \in Calls, LockRow(c), UNCHANGED docVars
    PROVE  DocInv'
<1>1. Alone(c)
  BY BlocksAlone
<1>2. /\ pc'[c] = "assert" /\ rowTx' = c
      /\ view'[c] = [row |-> row', kps |-> kps']
  BY DEF LockRow, TypeInv, CallTypes, docVars
<1>3. \A d \in Calls : ~ InTx(d)
  BY CallsAssumption DEF DocInv, TxInv, LockRow
<1>4. TxInv'
  BY <1>1, <1>2, <1>3 DEF TxInv, InTx, Alone
<1>5. CheckedInv'
  BY <1>1, <1>2, <1>3 DEF CheckedInv, InTx, Alone
<1> QED
  BY <1>4, <1>5, DocSafeStable DEF DocInv

(* Passing the checks: they were made on the view of the call, which is the *)
(* stored request.                                                          *)
LEMMA AssertDoc ==
    ASSUME TypeInv, DocInv, NEW c \in Calls, pc[c] = "assert", Goto(c, "commit"),
           UNCHANGED <<docVars, rowTx>>,
           Checked(c, view[c].row, view[c].kps)
    PROVE  DocInv'
<1>1. /\ Alone(c) /\ pc'[c] = "commit" /\ op' = op /\ view' = view
  BY BlocksAlone DEF Goto, Points
<1>2. rowTx = c /\ view[c] = [row |-> row, kps |-> kps]
  BY DEF DocInv, TxInv, InTx
<1>3. TxInv'
  BY <1>1, <1>2 DEF DocInv, TxInv, InTx, Alone, docVars
<1>4. CheckedInv'
  BY <1>1, <1>2 DEF DocInv, CheckedInv, Checked, Alone, docVars
<1> QED
  BY <1>3, <1>4, DocSafeStable DEF DocInv

LEMMA RefuseDoc ==
    ASSUME TypeInv, DocInv, NEW c \in Calls, InTx(c), Refuse(c)
    PROVE  DocInv'
<1>1. Alone(c) /\ pc'[c] = "idle"
  BY BlocksAlone DEF Refuse, EndTx
<1> QED
  BY <1>1, OutsideTx DEF Refuse

(* After the commit of c nobody is in a transaction.                        *)
LEMMA CommitTx ==
    ASSUME TypeInv, DocInv, NEW c \in Calls, InTx(c), EndTx(c)
    PROVE  TxInv' /\ CheckedInv'
<1>1. Alone(c) /\ pc'[c] = "idle"
  BY BlocksAlone DEF EndTx
<1>2. \A d \in Calls : pc'[d] \notin {"assert", "commit"}
  BY <1>1 DEF DocInv, TxInv, InTx, Alone
<1> QED
  BY <1>2 DEF TxInv, CheckedInv, InTx

-----------------------------------------------------------------------------
(* The commits.                                                             *)

LEMMA SaveCommitDoc ==
    ASSUME TypeInv, DocInv, NEW c \in Calls, NEW approval \in 0 .. (nextKp - 1),
           NEW approved \in BOOLEAN, SaveCommit(c, approval, approved)
    PROVE  DocInv'
<1>1. /\ pc[c] = "commit" /\ op[c].kind = "save"
      /\ row' = [row EXCEPT !.version  = @ + 1, !.approval = approval,
                            !.approved = approved,
                            !.sumBase  = SumBase(approved, view[c].kps, approval)]
      /\ journal' = Append(journal, JournalEntry(c))
      /\ EndTx(c)
      /\ kps' = kps
  BY DEF SaveCommit, At
<1>2. row \in Row
  BY DEF TypeInv, DocTypes
<1>3. view[c].kps = kps /\ op[c].base = row.version
  BY <1>1 DEF DocInv, TxInv, CheckedInv, Checked, InTx
<1>4. TxInv' /\ CheckedInv'
  BY <1>1, CommitTx DEF InTx
<1>5. /\ row'.version = row.version + 1 /\ row'.approval = approval
      /\ row'.approved = approved /\ row'.sumBase = SumBase(approved, kps, approval)
      /\ row'.kpCount = row.kpCount /\ row'.lastFinal = row.lastFinal
  BY <1>1, <1>2, <1>3 DEF Row
<1>6. LinearHistory'
  <2>1. journal \in Seq([base : Nat, tab : Tabs])
    BY DEF TypeInv, DocTypes
  <2>2. /\ row.version = Len(journal) + 1
        /\ \A n \in 1 .. Len(journal) : journal[n].base = n
    BY DEF DocInv, DocSafe, LinearHistory
  <2>3. JournalEntry(c).base = Len(journal) + 1
    BY <1>3, <2>2 DEF JournalEntry
  <2>4. /\ Len(journal') = Len(journal) + 1
        /\ \A n \in 1 .. Len(journal) : journal'[n] = journal[n]
        /\ journal'[Len(journal) + 1] = JournalEntry(c)
    BY <1>1, <2>1
  <2> QED
    BY <1>5, <2>1, <2>2, <2>3, <2>4 DEF LinearHistory
<1>7. KpVersionsUnique' /\ KpSummaryCurrent' /\ ApprovedSumCurrent'
  BY <1>1, <1>5 DEF DocInv, DocSafe, KpVersionsUnique, KpSummaryCurrent,
                    ApprovedSumCurrent
<1> QED
  BY <1>4, <1>6, <1>7 DEF DocInv, DocSafe

LEMMA StatusCommitDoc ==
    ASSUME TypeInv, DocInv, NEW c \in Calls, StatusCommit(c)
    PROVE  DocInv'
<1>1. /\ pc[c] = "commit" /\ op[c].kind = "status"
      /\ row' = [row EXCEPT !.version = @ + 1, !.status = op[c].to]
      /\ journal' = Append(journal, JournalEntry(c))
      /\ EndTx(c)
      /\ kps' = kps
  BY DEF StatusCommit, At
<1>2. row \in Row
  BY DEF TypeInv, DocTypes
<1>3. op[c].base = row.version
  BY <1>1 DEF DocInv, CheckedInv, Checked
<1>4. TxInv' /\ CheckedInv'
  BY <1>1, CommitTx DEF InTx
<1>5. /\ row'.version = row.version + 1 /\ row'.approval = row.approval
      /\ row'.approved = row.approved /\ row'.sumBase = row.sumBase
      /\ row'.kpCount = row.kpCount /\ row'.lastFinal = row.lastFinal
  BY <1>1, <1>2 DEF Row
<1>6. LinearHistory'
  <2>1. journal \in Seq([base : Nat, tab : Tabs])
    BY DEF TypeInv, DocTypes
  <2>2. /\ row.version = Len(journal) + 1
        /\ \A n \in 1 .. Len(journal) : journal[n].base = n
    BY DEF DocInv, DocSafe, LinearHistory
  <2>3. JournalEntry(c).base = Len(journal) + 1
    BY <1>3, <2>2 DEF JournalEntry
  <2>4. /\ Len(journal') = Len(journal) + 1
        /\ \A n \in 1 .. Len(journal) : journal'[n] = journal[n]
        /\ journal'[Len(journal) + 1] = JournalEntry(c)
    BY <1>1, <2>1
  <2> QED
    BY <1>5, <2>1, <2>2, <2>3, <2>4 DEF LinearHistory
<1>7. KpVersionsUnique' /\ KpSummaryCurrent' /\ ApprovedSumCurrent'
  BY <1>1, <1>5 DEF DocInv, DocSafe, KpVersionsUnique, KpSummaryCurrent,
                    ApprovedSumCurrent
<1> QED
  BY <1>4, <1>6, <1>7 DEF DocInv, DocSafe

LEMMA KpCreateCommitDoc ==
    ASSUME TypeInv, DocInv, NEW c \in Calls, KpCreateCommit(c)
    PROVE  DocInv'
<1> DEFINE kp == [id |-> nextKp, version |-> NextKpVersion(view[c].kps),
                  final |-> op[c].flag]
<1>1. /\ pc[c] = "commit" /\ kps' = kps \cup {kp}
      /\ row' = WithKps(row, row.approval, view[c].kps \cup {kp})
      /\ EndTx(c) /\ journal' = journal
  BY DEF KpCreateCommit, At
<1>2. row \in Row /\ KpsBounded(kps, nextKp) /\ nextKp \in Nat \ {0}
  BY DEF TypeInv, DocTypes
<1>3. view[c].kps = kps
  BY <1>1 DEF DocInv, TxInv, InTx
<1>4. TxInv' /\ CheckedInv'
  BY <1>1, CommitTx DEF InTx
<1>5. kp.version \in Nat /\ \A k \in kps : k.version \in Nat /\ k.version < kp.version
  BY <1>2, <1>3, NextKpVersionFresh DEF KpsBounded, Kp
<1> HIDE DEF kp
<1>6. /\ row'.version = row.version /\ row'.approval = row.approval
      /\ row'.approved = row.approved
      /\ row'.sumBase = SumBase(row.approved, kps', row.approval)
      /\ row'.kpCount = Cardinality(kps') /\ row'.lastFinal = LastFinal(kps')
  BY <1>1, <1>2, <1>3 DEF WithKps, Row
<1>7. KpVersionsUnique'
  BY <1>1, <1>5 DEF DocInv, DocSafe, KpVersionsUnique
<1>8. LinearHistory' /\ KpSummaryCurrent' /\ ApprovedSumCurrent'
  BY <1>1, <1>6 DEF DocInv, DocSafe, LinearHistory, KpSummaryCurrent,
                    ApprovedSumCurrent
<1> QED
  BY <1>4, <1>7, <1>8 DEF DocInv, DocSafe

LEMMA KpDeleteCommitDoc ==
    ASSUME TypeInv, DocInv, NEW c \in Calls, KpDeleteCommit(c)
    PROVE  DocInv'
<1> DEFINE rest   == {k \in view[c].kps : k.id # op[c].target}
           chosen == IF view[c].row.approval = op[c].target
                     THEN NoKp ELSE view[c].row.approval
<1>1. /\ pc[c] = "commit" /\ kps' = {k \in kps : k.id # op[c].target}
      /\ row' = WithKps(row, chosen, rest)
      /\ EndTx(c) /\ journal' = journal
  BY DEF KpDeleteCommit, At
<1>2. row \in Row
  BY DEF TypeInv, DocTypes
<1>3. rest = kps'
  BY <1>1 DEF DocInv, TxInv, InTx
<1>4. TxInv' /\ CheckedInv'
  BY <1>1, CommitTx DEF InTx
<1> HIDE DEF rest, chosen
<1>5. /\ row'.version = row.version /\ row'.approval = chosen
      /\ row'.approved = row.approved
      /\ row'.sumBase = SumBase(row.approved, kps', chosen)
      /\ row'.kpCount = Cardinality(kps') /\ row'.lastFinal = LastFinal(kps')
  BY <1>1, <1>2, <1>3 DEF WithKps, Row
<1>6. KpVersionsUnique'
  BY <1>1 DEF DocInv, DocSafe, KpVersionsUnique
<1>7. LinearHistory' /\ KpSummaryCurrent' /\ ApprovedSumCurrent'
  BY <1>1, <1>5 DEF DocInv, DocSafe, LinearHistory, KpSummaryCurrent,
                    ApprovedSumCurrent
<1> QED
  BY <1>4, <1>6, <1>7 DEF DocInv, DocSafe

(* An attachment call changes the counter of the row, but only while no      *)
(* transaction holds it.                                                    *)
LEMMA FileRowDoc ==
    ASSUME TypeInv, DocInv, NEW c \in Calls, FileInsert(c) \/ FileRemove(c)
    PROVE  DocInv'
<1>1. /\ Alone(c) /\ pc'[c] \notin {"assert", "commit"}
      /\ rowTx = NoCall /\ UNCHANGED <<kps, nextKp, journal>>
  BY BlocksAlone DEF FileInsert, FileRemove, Points
<1>2. \A d \in Calls : pc'[d] \notin {"assert", "commit"}
  BY <1>1, CallsAssumption DEF DocInv, TxInv, InTx, Alone
<1>3. TxInv' /\ CheckedInv'
  BY <1>2 DEF TxInv, CheckedInv, InTx
<1>4. row \in Row
  BY DEF TypeInv, DocTypes
<1>5. /\ row'.version = row.version /\ row'.approval = row.approval
      /\ row'.approved = row.approved /\ row'.sumBase = row.sumBase
      /\ row'.kpCount = row.kpCount /\ row'.lastFinal = row.lastFinal
  BY <1>4 DEF FileInsert, FileRemove, Row
<1>6. DocSafe'
  BY <1>1, <1>5 DEF DocInv, DocSafe, LinearHistory, KpVersionsUnique,
                    KpSummaryCurrent, ApprovedSumCurrent
<1> QED
  BY <1>3, <1>6 DEF DocInv

-----------------------------------------------------------------------------
LEMMA StartCallDoc ==
    ASSUME TypeInv, DocInv, NEW c \in Calls, StartCall(c)
    PROVE  DocInv'
<1>1. \E o : \/ Start(c, o, "expire") \/ Start(c, o, "once")
            \/ Start(c, o, "begin") \/ Start(c, o, "check")
  <2>1. CASE StartLockCall(c)
    BY <2>1 DEF StartLockCall, StartAcquire, StartHeartbeat, StartRelease,
                StartForce, StartBlock
  <2>2. CASE StartDocumentCall(c)
    BY <2>2 DEF StartDocumentCall, StartSave, StartStatus
  <2>3. CASE StartKpCall(c)
    BY <2>3 DEF StartKpCall, StartKpCreate, StartKpDelete
  <2>4. CASE StartFileCall(c)
    BY <2>4 DEF StartFileCall, StartFileAdd, StartFileRemove
  <2> QED
    BY <2>1, <2>2, <2>3, <2>4 DEF StartCall
<1>2. Alone(c) /\ pc'[c] \notin {"assert", "commit"}
  BY <1>1, BlocksAlone
<1>3. UNCHANGED <<docVars, rowTx>>
  BY <1>1 DEF Start
<1> QED
  BY <1>2, <1>3, OutsideTx

LEMMA LockStepDoc ==
    ASSUME TypeInv, DocInv, NEW c \in Calls, LockStep(c)
    PROVE  DocInv'
<1>1. /\ UNCHANGED <<docVars, rowTx>>
      /\ \/ Goto(c, "create") \/ Goto(c, "read") \/ Goto(c, "renew")
         \/ Goto(c, "unblock") \/ End(c)
  BY DEF LockStep, AcquireExpire, AcquireCreate, AcquireTaken, AcquireRead,
         AcquireRenew, Heartbeat, Release, ForceLock, BlockUser, DropUserLocks,
         lockVars
<1>2. Alone(c) /\ pc'[c] \notin {"assert", "commit"}
  BY <1>1, BlocksAlone DEF Points
<1> QED
  BY <1>1, <1>2, OutsideTx

LEMMA DocumentStepDoc ==
    ASSUME TypeInv, DocInv, NEW c \in Calls, DocumentStep(c)
    PROVE  DocInv'
<1>1. CASE SaveBegin(c) \/ StatusBegin(c)
  BY <1>1, LockRowDoc DEF SaveBegin, StatusBegin
<1>2. CASE SaveAssert(c) \/ StatusAssert(c)
  <2>1. Checked(c, view[c].row, view[c].kps)
    BY <1>2 DEF SaveAssert, StatusAssert, At, Checked, SaveAllowed, StatusAllowed
  <2> QED
    BY <1>2, <2>1, AssertDoc DEF SaveAssert, StatusAssert, At
<1>3. CASE SaveRefuse(c) \/ SaveAbort(c) \/ StatusRefuse(c) \/ StatusAbort(c)
  BY <1>3, RefuseDoc
     DEF SaveRefuse, SaveAbort, StatusRefuse, StatusAbort, At, InTx
<1>4. CASE \E approval \in 0 .. (nextKp - 1), approved \in BOOLEAN :
              SaveCommit(c, approval, approved)
  BY <1>4, SaveCommitDoc
<1>5. CASE StatusCommit(c)
  BY <1>5, StatusCommitDoc
<1> QED
  BY <1>1, <1>2, <1>3, <1>4, <1>5 DEF DocumentStep

LEMMA KpStepDoc ==
    ASSUME TypeInv, DocInv, NEW c \in Calls, KpStep(c)
    PROVE  DocInv'
<1>1. CASE KpCreateBegin(c) \/ KpDeleteBegin(c)
  BY <1>1, LockRowDoc DEF KpCreateBegin, KpDeleteBegin
<1>2. CASE KpCreateAssert(c) \/ KpDeleteAssert(c)
  <2>1. Checked(c, view[c].row, view[c].kps)
    BY <1>2 DEF KpCreateAssert, KpDeleteAssert, At, Checked, KpAllowed,
                KpDeleteAllowed
  <2> QED
    BY <1>2, <2>1, AssertDoc DEF KpCreateAssert, KpDeleteAssert, At
<1>3. CASE KpCreateRefuse(c) \/ KpCreateAbort(c) \/ KpDeleteRefuse(c) \/ KpDeleteAbort(c)
  BY <1>3, RefuseDoc
     DEF KpCreateRefuse, KpCreateAbort, KpDeleteRefuse, KpDeleteAbort, At, InTx
<1> QED
  BY <1>1, <1>2, <1>3, KpCreateCommitDoc, KpDeleteCommitDoc DEF KpStep

LEMMA FileStepDoc ==
    ASSUME TypeInv, DocInv, NEW c \in Calls, FileStep(c)
    PROVE  DocInv'
<1>1. CASE FileInsert(c) \/ FileRemove(c)
  BY <1>1, FileRowDoc
<1>2. CASE FileStore(c)
  <2>1. /\ Alone(c) /\ pc'[c] = "insert" /\ UNCHANGED <<docVars, rowTx>>
    BY <1>2 DEF FileStore, Alone, TypeInv, CallTypes
  <2> QED
    BY <2>1, OutsideTx
<1>3. CASE ~ (FileInsert(c) \/ FileRemove(c) \/ FileStore(c))
  <2>1. /\ UNCHANGED <<docVars, rowTx>>
        /\ \/ Goto(c, "holder") \/ Goto(c, "store") \/ Goto(c, "find")
           \/ Goto(c, "discard") \/ Goto(c, "remove")
           \/ End(c)
    BY <1>3 DEF FileStep, FileCheck, FileHolder, FileRefuse, FileInsertFails,
                FileDiscard, FileFind, FileUnlink
  <2>2. Alone(c) /\ pc'[c] \notin {"assert", "commit"}
    BY <2>1, BlocksAlone DEF Points
  <2> QED
    BY <2>1, <2>2, OutsideTx
<1> QED
  BY <1>1, <1>2, <1>3

LEMMA InitDoc == Init => DocInv
BY FS_EmptySet
   DEF Init, DocInv, TxInv, CheckedInv, InTx, DocSafe, LinearHistory,
       KpVersionsUnique, KpSummaryCurrent, ApprovedSumCurrent, NewRow, LastFinal,
       SumBase

LEMMA NextDoc == TypeInv /\ DocInv /\ [Next]_vars => DocInv'
<1> SUFFICES ASSUME TypeInv, DocInv, [Next]_vars PROVE DocInv'
  OBVIOUS
<1>1. CASE Tick \/ UNCHANGED vars
  <2>1. UNCHANGED <<docVars, rowTx, callVars>>
    BY <1>1 DEF Tick, vars, docVars, callVars
  <2>2. TxInv' /\ CheckedInv'
    BY <2>1 DEF DocInv, TxInv, CheckedInv, Checked, InTx, docVars, callVars
  <2> QED
    BY <2>1, <2>2, DocSafeStable DEF DocInv
<1>2. CASE Restart
  <2>1. UNCHANGED docVars /\ \A c \in Calls : pc'[c] \notin {"assert", "commit"}
    BY <1>2 DEF Restart
  <2>2. TxInv' /\ CheckedInv'
    BY <2>1 DEF TxInv, CheckedInv, InTx
  <2> QED
    BY <2>1, <2>2, DocSafeStable DEF DocInv
<1>3. ASSUME NEW c \in Calls, StartCall(c) PROVE DocInv'
  BY <1>3, StartCallDoc
<1>4. ASSUME NEW c \in Calls, CallStep(c) PROVE DocInv'
  BY <1>4, LockStepDoc, DocumentStepDoc, KpStepDoc, FileStepDoc DEF CallStep
<1> QED
  BY <1>1, <1>2, <1>3, <1>4 DEF Next

LEMMA DocInvariance == Spec => [](TypeInv /\ DocInv)
<1>1. TypeInv /\ DocInv /\ [Next]_vars => (TypeInv /\ DocInv)'
  BY NextTypes, NextDoc
<1> QED
  BY <1>1, InitTypes, InitDoc, PTL DEF Spec

-----------------------------------------------------------------------------
(* No update is lost: every accepted save or status change was made by a    *)
(* tab that had loaded the result of the one before it (baseVersion in      *)
(* saveRequestDocument and changeStatus).                                   *)
THEOREM NoUpdateLost == Spec => []LinearHistory
BY DocInvariance, PTL DEF DocInv, DocSafe

(* Version numbers of KPs never repeat, whatever was deleted (createKp).     *)
THEOREM KpVersionsNeverRepeat == Spec => []KpVersionsUnique
BY DocInvariance, PTL DEF DocInv, DocSafe

(* The KP columns of the request describe its KPs (createKp, deleteKp).      *)
THEOREM KpSummaryIsCurrent == Spec => []KpSummaryCurrent
BY DocInvariance, PTL DEF DocInv, DocSafe

(* The stored approved total is that of the current base KP, whichever of    *)
(* save, KP creation and KP deletion ran last.                              *)
THEOREM ApprovedSumIsCurrent == Spec => []ApprovedSumCurrent
BY DocInvariance, PTL DEF DocInv, DocSafe

-----------------------------------------------------------------------------
(* The steps that write the Request row or the KPs.                         *)
Writes(c) ==
    \/ \E approval \in 0 .. (nextKp - 1), approved \in BOOLEAN :
            SaveCommit(c, approval, approved)
    \/ StatusCommit(c) \/ KpCreateCommit(c) \/ KpDeleteCommit(c)
    \/ FileInsert(c) \/ FileRemove(c)

LEMMA OnlyWritersWrite ==
    ASSUME [Next]_vars
    PROVE  UNCHANGED <<row, kps>> \/ \E c \in Calls : Writes(c)
<1>1. CASE Tick \/ Restart \/ UNCHANGED vars
  BY <1>1 DEF Tick, Restart, vars, docVars
<1>2. ASSUME NEW c \in Calls, StartCall(c) PROVE UNCHANGED <<row, kps>>
  BY <1>2 DEF StartCall, StartLockCall, StartAcquire, StartHeartbeat,
              StartRelease, StartForce, StartBlock, StartDocumentCall, StartSave,
              StartStatus, StartKpCall, StartKpCreate, StartKpDelete,
              StartFileCall, StartFileAdd, StartFileRemove, Start, docVars
<1>3. ASSUME NEW c \in Calls, CallStep(c), ~ Writes(c) PROVE UNCHANGED <<row, kps>>
  <2>1. CASE LockStep(c)
    BY <2>1 DEF LockStep, AcquireExpire, AcquireCreate, AcquireTaken, AcquireRead,
                AcquireRenew, Heartbeat, Release, ForceLock, BlockUser,
                DropUserLocks, docVars
  <2>2. CASE DocumentStep(c)
    BY <1>3, <2>2 DEF DocumentStep, SaveBegin, SaveAssert, SaveRefuse, SaveAbort,
                StatusBegin, StatusAssert, StatusRefuse, StatusAbort, Refuse,
                Writes, docVars
  <2>3. CASE KpStep(c)
    BY <1>3, <2>3 DEF KpStep, KpCreateBegin, KpCreateAssert, KpCreateRefuse,
                KpCreateAbort, KpDeleteBegin, KpDeleteAssert, KpDeleteRefuse,
                KpDeleteAbort, Refuse, Writes, docVars
  <2>4. CASE FileStep(c)
    BY <1>3, <2>4 DEF FileStep, FileCheck, FileHolder, FileStore, FileRefuse,
                FileInsertFails, FileDiscard, FileFind, FileUnlink, Writes, docVars
  <2> QED
    BY <1>3, <2>1, <2>2, <2>3, <2>4 DEF CallStep
<1> QED
  BY <1>1, <1>2, <1>3 DEF Next

(* Nothing of a closed request changes any more but its attachments: the     *)
(* status a write has checked under the row lock is still there when it      *)
(* commits (READ_ONLY in saveRequestDocument, createKp and deleteKp).        *)
THEOREM ClosedStaysFrozen == Spec => ClosedFrozen
<1>1. ASSUME TypeInv, DocInv, [Next]_vars,
             row.status \notin Editable, row'.status = row.status
      PROVE  /\ kps' = kps
             /\ row' = [row EXCEPT !.filesCount = row'.filesCount]
  <2>1. row \in Row
    BY <1>1 DEF TypeInv, DocTypes
  <2>2. CASE UNCHANGED <<row, kps>>
    BY <2>1, <2>2 DEF Row
  <2>3. ASSUME NEW c \in Calls, Writes(c)
        PROVE  FileInsert(c) \/ FileRemove(c)
    <3>1. pc[c] = "commit" => Checked(c, row, kps)
      BY <1>1 DEF DocInv, CheckedInv
    <3>2. ~ StatusCommit(c)
      <4>1. SUFFICES ASSUME StatusCommit(c) PROVE FALSE
        OBVIOUS
      <4>2. op[c].to \in Transition[row.status]
        BY <3>1, <4>1 DEF StatusCommit, At, Checked
      <4>3. row'.status = op[c].to
        BY <2>1, <4>1 DEF StatusCommit, Row
      <4>4. row.status \in {"in_progress", "done", "cancelled"}
        BY <2>1 DEF Row, Statuses
      <4> QED
        BY <1>1, <4>2, <4>3, <4>4 DEF Transition
    <3> QED
      BY <1>1, <2>3, <3>1, <3>2
         DEF Writes, SaveCommit, KpCreateCommit, KpDeleteCommit, At, Checked
  <2>4. ASSUME NEW c \in Calls, FileInsert(c) \/ FileRemove(c)
        PROVE  /\ kps' = kps
               /\ row' = [row EXCEPT !.filesCount = row'.filesCount]
    BY <2>1, <2>4 DEF FileInsert, FileRemove, Row
  <2> QED
    BY <1>1, <2>2, <2>3, <2>4, OnlyWritersWrite
<1> QED
  BY <1>1, DocInvariance, PTL DEF ClosedFrozen, Spec

(* The KP whose prices the approved lines were agreed at survives every      *)
(* step: deleteKp's check on it still holds when it commits, whether that KP *)
(* was chosen by hand or is the latest ordinary one.                         *)
THEOREM ApprovalBaseSurvives == Spec => ApprovalBaseKept
<1>1. ASSUME TypeInv, DocInv, [Next]_vars, row.approved, row.sumBase # NoKp
      PROVE  \E k \in kps' : k.id = row.sumBase
  <2>1. row.sumBase = ApprovalBase(kps, row.approval)
    BY <1>1 DEF DocInv, DocSafe, ApprovedSumCurrent, SumBase
  <2>2. PICK base \in kps : base.id = row.sumBase
    <3>1. row.approval \in Nat /\ KpsBounded(kps, nextKp) /\ nextKp \in Nat \ {0}
      BY <1>1 DEF TypeInv, DocTypes, Row
    <3> QED
      BY <1>1, <2>1, <3>1, ApprovalBaseType
  <2>3. CASE UNCHANGED <<row, kps>>
    BY <2>2, <2>3
  <2>4. ASSUME NEW c \in Calls, Writes(c)
        PROVE  base \in kps'
    <3>1. CASE KpDeleteCommit(c)
      <4>1. op[c].target # row.sumBase
        BY <1>1, <2>1, <3>1 DEF KpDeleteCommit, At, DocInv, CheckedInv, Checked
      <4> QED
        BY <2>2, <3>1, <4>1 DEF KpDeleteCommit
    <3>2. CASE ~ KpDeleteCommit(c)
      BY <2>4, <3>2 DEF Writes, SaveCommit, StatusCommit, KpCreateCommit,
                        FileInsert, FileRemove
    <3> QED
      BY <3>1, <3>2
  <2> QED
    BY <1>1, <2>2, <2>3, <2>4, OnlyWritersWrite
<1> QED
  BY <1>1, DocInvariance, PTL DEF ApprovalBaseKept, Spec

-----------------------------------------------------------------------------
(* Attachments. A call that has stored a file but no row, or has deleted a   *)
(* row but not its file, has that file in hand: nothing else knows of it.    *)
InHand(c) == pc[c] \in {"insert", "discard", "unlink"}

Inserting == {c \in Calls : pc[c] = "insert"}

FileIdsInv ==
    /\ files \subseteq disk
    /\ \A f \in files : f < nextFile
    /\ \A c \in Calls : InHand(c) =>
          op[c].target < nextFile /\ op[c].target \notin files
    /\ \A c \in Calls : pc[c] = "insert" => op[c].target \in disk
    /\ \A c, d \in Calls : c # d /\ InHand(c) /\ InHand(d) => op[c].target # op[d].target

\* Uploads that were let in are counted together with the rows there are.
FileCountInv ==
    /\ IsFiniteSet(files)
    /\ row.filesCount = Cardinality(files)
    /\ Cardinality(files) + Cardinality(Inserting) <= MaxFiles + Cardinality(Calls) - 1

FileInv == FileIdsInv /\ FileCountInv

LEMMA InsertingFinite ==
    /\ IsFiniteSet(Inserting) /\ Cardinality(Inserting) \in Nat
    /\ Cardinality(Inserting) <= Cardinality(Calls)
    /\ Cardinality(Calls) \in Nat \ {0}
<1>1. Inserting \in SUBSET Calls
  BY DEF Inserting
<1>2. IsFiniteSet(Calls) /\ Calls # {}
  BY CallsAssumption
<1> QED
  BY <1>1, <1>2, FS_Subset, FS_CardinalityType, FS_EmptySet

(* Steps that have nothing to do with files, or come before any is in hand.  *)
LEMMA FilesUntouched ==
    ASSUME FileInv, UNCHANGED fileVars, row'.filesCount = row.filesCount,
           \A c \in Calls : InHand(c)' => pc'[c] = pc[c] /\ op'[c] = op[c]
    PROVE  FileInv'
<1>1. FileIdsInv'
  BY DEF FileInv, FileIdsInv, InHand, fileVars
<1>2. FileCountInv'
  <2>1. Inserting' \in SUBSET Inserting
    BY DEF Inserting, InHand
  <2>2. Cardinality(Inserting') <= Cardinality(Inserting) /\ Cardinality(Inserting') \in Nat
    BY <2>1, InsertingFinite, FS_Subset, FS_CardinalityType
  <2>3. Cardinality(files) \in Nat
    BY FS_CardinalityType DEF FileInv, FileCountInv
  <2> QED
    BY <2>2, <2>3, InsertingFinite, BoundAssumption DEF FileInv, FileCountInv, fileVars
<1> QED
  BY <1>1, <1>2 DEF FileInv

LEMMA FilesUntouchedAlone ==
    ASSUME FileInv, NEW c \in Calls, Alone(c), pc'[c] \notin {"insert", "discard", "unlink"},
           UNCHANGED fileVars, row'.filesCount = row.filesCount
    PROVE  FileInv'
BY FilesUntouched DEF Alone, InHand

-----------------------------------------------------------------------------
(* An upload: the file gets an id that no row and no call has.               *)
LEMMA FileStoreFiles ==
    ASSUME TypeInv, FileInv, NEW c \in Calls, FileStore(c)
    PROVE  FileInv'
<1>1. /\ pc[c] = "store" /\ pc'[c] = "insert" /\ op'[c].target = nextFile
      /\ \A d \in Calls \ {c} : pc'[d] = pc[d] /\ op'[d] = op[d]
      /\ files' = files /\ disk' = disk \cup {nextFile} /\ nextFile' = nextFile + 1
      /\ row' = row /\ Cardinality(files) < MaxFiles
  BY DEF FileStore, At, TypeInv, CallTypes, Op, docVars
<1>2. /\ nextFile \in Nat /\ files \subseteq Nat
      /\ \A d \in Calls : op[d].target \in Nat
  BY DEF TypeInv, FileTypes, CallTypes, Op
<1>3. FileIdsInv'
  BY <1>1, <1>2 DEF FileInv, FileIdsInv, InHand
<1>4. FileCountInv'
  <2>1. Cardinality(Inserting') <= Cardinality(Calls) /\ Cardinality(Inserting') \in Nat
    <3>1. Inserting' \in SUBSET Calls
      BY DEF Inserting
    <3> QED
      BY <3>1, CallsAssumption, FS_Subset, FS_CardinalityType
  <2>2. Cardinality(files) \in Nat
    BY FS_CardinalityType DEF FileInv, FileCountInv
  <2> QED
    BY <1>1, <2>1, <2>2, InsertingFinite, BoundAssumption DEF FileInv, FileCountInv
<1> QED
  BY <1>3, <1>4 DEF FileInv

LEMMA FileInsertFiles ==
    ASSUME TypeInv, FileInv, NEW c \in Calls, FileInsert(c)
    PROVE  FileInv'
<1> DEFINE f == op[c].target
<1>1. /\ pc[c] = "insert" /\ pc'[c] = "idle"
      /\ \A d \in Calls \ {c} : pc'[d] = pc[d] /\ op'[d] = op[d]
      /\ files' = files \cup {f} /\ disk' = disk /\ nextFile' = nextFile
  BY DEF FileInsert, At, End, TypeInv, CallTypes
<1>2. f \in disk /\ f \notin files /\ f < nextFile
  BY <1>1 DEF FileInv, FileIdsInv, InHand
<1>3. row \in Row /\ row'.filesCount = row.filesCount + 1
  BY DEF FileInsert, TypeInv, DocTypes, Row
<1> HIDE DEF f
<1>4. FileIdsInv'
  <2>1. \A d \in Calls : InHand(d)' => d # c /\ InHand(d) /\ op'[d] = op[d] /\ pc'[d] = pc[d]
    BY <1>1 DEF InHand
  <2>2. \A d \in Calls : d # c /\ InHand(d) => op[d].target # f
    BY <1>1 DEF FileInv, FileIdsInv, InHand, f
  <2> QED
    BY <1>1, <1>2, <2>1, <2>2 DEF FileInv, FileIdsInv
<1>5. FileCountInv'
  <2>1. IsFiniteSet(files') /\ Cardinality(files') = Cardinality(files) + 1
    BY <1>1, <1>2, FS_AddElement DEF FileInv, FileCountInv
  <2>2. Inserting' = Inserting \ {c} /\ c \in Inserting
    BY <1>1 DEF Inserting
  <2>3. Cardinality(Inserting') = Cardinality(Inserting) - 1
    BY <2>2, InsertingFinite, FS_RemoveElement
  <2>4. Cardinality(files) \in Nat
    BY FS_CardinalityType DEF FileInv, FileCountInv
  <2> QED
    BY <1>3, <2>1, <2>3, <2>4, InsertingFinite, BoundAssumption DEF FileInv, FileCountInv
<1> QED
  BY <1>4, <1>5 DEF FileInv

(* The file of a failed transaction stays in hand.                           *)
LEMMA FileInsertFailsFiles ==
    ASSUME TypeInv, FileInv, NEW c \in Calls, FileInsertFails(c)
    PROVE  FileInv'
<1>1. /\ pc[c] = "insert" /\ pc'[c] = "discard" /\ op' = op
      /\ \A d \in Calls \ {c} : pc'[d] = pc[d]
      /\ UNCHANGED <<row, files, disk, nextFile>>
  BY DEF FileInsertFails, At, Goto, TypeInv, CallTypes, docVars, fileVars
<1>2. FileIdsInv'
  <2>1. \A d \in Calls : /\ InHand(d)' <=> InHand(d)
                         /\ pc'[d] = "insert" => pc[d] = "insert"
    BY <1>1 DEF InHand
  <2> QED
    BY <1>1, <2>1 DEF FileInv, FileIdsInv
<1>3. FileCountInv'
  <2>1. Inserting' \in SUBSET Inserting
    BY <1>1 DEF Inserting
  <2>2. Cardinality(Inserting') <= Cardinality(Inserting) /\ Cardinality(Inserting') \in Nat
    BY <2>1, InsertingFinite, FS_Subset, FS_CardinalityType
  <2>3. Cardinality(files) \in Nat
    BY FS_CardinalityType DEF FileInv, FileCountInv
  <2> QED
    BY <1>1, <2>2, <2>3, InsertingFinite, BoundAssumption DEF FileInv, FileCountInv
<1> QED
  BY <1>2, <1>3 DEF FileInv

(* The file in hand is removed: it is nobody else's.                         *)
LEMMA FileUnlinkFiles ==
    ASSUME TypeInv, FileInv, NEW c \in Calls, FileDiscard(c) \/ FileUnlink(c)
    PROVE  FileInv'
<1> DEFINE f == op[c].target
<1>1. /\ InHand(c) /\ pc[c] # "insert" /\ pc'[c] = "idle"
      /\ \A d \in Calls \ {c} : pc'[d] = pc[d] /\ op'[d] = op[d]
      /\ disk' = disk \ {f} /\ UNCHANGED <<row, files, nextFile>>
  BY DEF FileDiscard, FileUnlink, At, End, InHand, TypeInv, CallTypes, docVars
<1>2. f \notin files /\ \A d \in Calls \ {c} : InHand(d) => op[d].target # f
  BY <1>1 DEF FileInv, FileIdsInv
<1> HIDE DEF f
<1>3. FileIdsInv'
  <2>1. \A d \in Calls : InHand(d)' => d # c /\ InHand(d) /\ op'[d] = op[d] /\ pc'[d] = pc[d]
    BY <1>1 DEF InHand
  <2>2. \A d \in Calls : pc'[d] = "insert" => op'[d].target \in disk'
    BY <1>1, <1>2, <2>1 DEF FileInv, FileIdsInv, InHand
  <2> QED
    BY <1>1, <1>2, <2>1, <2>2 DEF FileInv, FileIdsInv
<1>4. FileCountInv'
  <2>1. Inserting' = Inserting
    BY <1>1 DEF Inserting
  <2> QED
    BY <1>1, <2>1 DEF FileInv, FileCountInv
<1> QED
  BY <1>3, <1>4 DEF FileInv

(* Only the call that deletes the row takes its file in hand.                *)
LEMMA FileRemoveFiles ==
    ASSUME TypeInv, FileInv, NEW c \in Calls, FileRemove(c)
    PROVE  FileInv'
<1> DEFINE f == op[c].target
<1>1. CASE f \notin files
  <2>1. /\ Alone(c) /\ pc'[c] = "idle" /\ row' = row /\ UNCHANGED fileVars
    BY <1>1, BlocksAlone DEF FileRemove, fileVars
  <2> QED
    BY <2>1, FilesUntouchedAlone
<1>2. CASE f \in files
  <2>1. /\ pc[c] = "remove" /\ pc'[c] = "unlink" /\ op' = op
        /\ \A d \in Calls \ {c} : pc'[d] = pc[d]
        /\ files' = files \ {f} /\ disk' = disk /\ nextFile' = nextFile
    BY <1>2 DEF FileRemove, At, Goto, TypeInv, CallTypes
  <2>2. row \in Row /\ row'.filesCount = row.filesCount - 1
    BY <1>2 DEF FileRemove, TypeInv, DocTypes, Row
  <2> HIDE DEF f
  <2>3. FileIdsInv'
    <3>1. \A d \in Calls : InHand(d)' => d = c \/ InHand(d)
      BY <2>1 DEF InHand
    <3>2. \A d \in Calls : InHand(d) => op[d].target # f
      BY <1>2 DEF FileInv, FileIdsInv
    <3>3. \A d \in Calls : pc'[d] = "insert" => pc[d] = "insert"
      BY <2>1
    <3>4. op[c].target = f /\ f < nextFile
      BY <1>2 DEF f, FileInv, FileIdsInv
    <3> QED
      BY <1>2, <2>1, <3>1, <3>2, <3>3, <3>4 DEF FileInv, FileIdsInv
  <2>4. FileCountInv'
    <3>1. IsFiniteSet(files') /\ Cardinality(files') = Cardinality(files) - 1
      BY <1>2, <2>1, FS_RemoveElement DEF FileInv, FileCountInv
    <3>2. Inserting' = Inserting
      BY <2>1 DEF Inserting
    <3>3. Cardinality(files) \in Nat
      BY FS_CardinalityType DEF FileInv, FileCountInv
    <3> QED
      BY <2>2, <3>1, <3>2, <3>3, InsertingFinite, BoundAssumption DEF FileInv, FileCountInv
  <2> QED
    BY <2>3, <2>4 DEF FileInv
<1> QED
  BY <1>1, <1>2

LEMMA FileStepFiles ==
    ASSUME TypeInv, FileInv, NEW c \in Calls, FileStep(c)
    PROVE  FileInv'
<1>1. CASE FileCheck(c) \/ FileHolder(c) \/ FileRefuse(c) \/ FileFind(c)
  <2>1. /\ UNCHANGED <<docVars, fileVars>>
        /\ \/ Goto(c, "holder") \/ Goto(c, "store") \/ Goto(c, "find")
           \/ Goto(c, "remove") \/ End(c)
    BY <1>1 DEF FileCheck, FileHolder, FileRefuse, FileFind
  <2>2. Alone(c) /\ pc'[c] \notin {"insert", "discard", "unlink"}
    BY <2>1, BlocksAlone DEF Points
  <2> QED
    BY <2>1, <2>2, FilesUntouchedAlone DEF docVars
<1> QED
  BY <1>1, FileStoreFiles, FileInsertFiles, FileInsertFailsFiles, FileUnlinkFiles,
     FileRemoveFiles DEF FileStep

-----------------------------------------------------------------------------
(* Everything else keeps the counter, whatever else of the row it writes.    *)
LEMMA OtherStepsFiles ==
    ASSUME TypeInv, FileInv, NEW c \in Calls,
           StartCall(c) \/ LockStep(c) \/ DocumentStep(c) \/ KpStep(c)
    PROVE  FileInv'
<1>1. row \in Row
  BY DEF TypeInv, DocTypes
<1>2. CASE StartCall(c)
  <2>1. \E o : \/ Start(c, o, "expire") \/ Start(c, o, "once")
              \/ Start(c, o, "begin") \/ Start(c, o, "check")
    BY <1>2 DEF StartCall, StartLockCall, StartAcquire, StartHeartbeat, StartRelease,
                StartForce, StartBlock, StartDocumentCall, StartSave, StartStatus,
                StartKpCall, StartKpCreate, StartKpDelete,
                StartFileCall, StartFileAdd, StartFileRemove
  <2>2. Alone(c) /\ pc'[c] \notin {"insert", "discard", "unlink"}
    BY <2>1, BlocksAlone
  <2>3. UNCHANGED <<docVars, fileVars>>
    BY <2>1 DEF Start
  <2> QED
    BY <2>2, <2>3, FilesUntouchedAlone DEF docVars
<1>3. CASE LockStep(c)
  <2>1. /\ UNCHANGED <<docVars, fileVars>>
        /\ \/ Goto(c, "create") \/ Goto(c, "read") \/ Goto(c, "renew")
           \/ Goto(c, "unblock") \/ End(c)
    BY <1>3 DEF LockStep, AcquireExpire, AcquireCreate, AcquireTaken, AcquireRead,
           AcquireRenew, Heartbeat, Release, ForceLock, BlockUser, DropUserLocks,
           lockVars
  <2>2. Alone(c) /\ pc'[c] \notin {"insert", "discard", "unlink"}
    BY <2>1, BlocksAlone DEF Points
  <2> QED
    BY <2>1, <2>2, FilesUntouchedAlone DEF docVars
<1>4. CASE DocumentStep(c) \/ KpStep(c)
  <2>1. /\ UNCHANGED fileVars
        /\ LockRow(c) \/ Goto(c, "commit") \/ End(c)
    BY <1>4 DEF DocumentStep, SaveBegin, SaveAssert, SaveRefuse, SaveAbort, SaveCommit,
                StatusBegin, StatusAssert, StatusRefuse, StatusAbort, StatusCommit,
                KpStep, KpCreateBegin, KpCreateAssert, KpCreateRefuse, KpCreateAbort,
                KpCreateCommit, KpDeleteBegin, KpDeleteAssert, KpDeleteRefuse,
                KpDeleteAbort, KpDeleteCommit, Refuse, EndTx
  <2>2. Alone(c) /\ pc'[c] \notin {"insert", "discard", "unlink"}
    <3>1. LockRow(c) => pc'[c] = "assert"
      BY DEF LockRow, TypeInv, CallTypes
    <3> QED
      BY <2>1, <3>1, BlocksAlone DEF Points
  <2>3. row'.filesCount = row.filesCount
    <3>1. CASE \/ \E approval \in 0 .. (nextKp - 1), approved \in BOOLEAN :
                     SaveCommit(c, approval, approved)
               \/ StatusCommit(c)
      BY <1>1, <3>1 DEF SaveCommit, StatusCommit, Row
    <3>2. CASE KpCreateCommit(c) \/ KpDeleteCommit(c)
      BY <1>1, <3>2 DEF KpCreateCommit, KpDeleteCommit, WithKps, Row
    <3> QED
      BY <1>4, <3>1, <3>2 DEF DocumentStep, SaveBegin, SaveAssert, SaveRefuse, SaveAbort,
                StatusBegin, StatusAssert, StatusRefuse, StatusAbort, KpStep,
                KpCreateBegin, KpCreateAssert, KpCreateRefuse, KpCreateAbort,
                KpDeleteBegin, KpDeleteAssert, KpDeleteRefuse, KpDeleteAbort, Refuse,
                docVars
  <2> QED
    BY <2>1, <2>2, <2>3, FilesUntouchedAlone
<1> QED
  BY <1>2, <1>3, <1>4

LEMMA InitFiles == Init => FileInv
<1> SUFFICES ASSUME Init PROVE FileInv
  OBVIOUS
<1>1. FileIdsInv
  BY DEF Init, FileIdsInv, InHand
<1>2. Inserting = {}
  BY DEF Init, Inserting
<1>3. FileCountInv
  BY <1>2, InsertingFinite, FS_EmptySet, BoundAssumption DEF Init, NewRow, FileCountInv
<1> QED
  BY <1>1, <1>3 DEF FileInv

LEMMA NextFiles == TypeInv /\ FileInv /\ [Next]_vars => FileInv'
<1> SUFFICES ASSUME TypeInv, FileInv, [Next]_vars PROVE FileInv'
  OBVIOUS
<1>1. CASE Tick \/ UNCHANGED vars
  BY <1>1, FilesUntouched DEF Tick, vars, docVars, fileVars, callVars
<1>2. CASE Restart
  BY <1>2, FilesUntouched DEF Restart, InHand, docVars
<1>3. ASSUME NEW c \in Calls, StartCall(c) \/ CallStep(c) PROVE FileInv'
  BY <1>3, OtherStepsFiles, FileStepFiles DEF CallStep
<1> QED
  BY <1>1, <1>2, <1>3 DEF Next

LEMMA FileInvariance == Spec => [](TypeInv /\ FileInv)
<1>1. TypeInv /\ FileInv /\ [Next]_vars => (TypeInv /\ FileInv)'
  BY NextTypes, NextFiles
<1> QED
  BY <1>1, InitTypes, InitFiles, PTL DEF Spec

(* An attachment has its content on disk at every moment, also when the      *)
(* process stops between the two (addAttachment, removeAttachment).          *)
THEOREM FilesAreStored == Spec => []FilesStored
<1>1. FileInv => FilesStored
  BY DEF FileInv, FileIdsInv, FilesStored
<1> QED
  BY <1>1, FileInvariance, PTL

(* The counter of the request is the number of its attachments, and these    *)
(* are at most the limit and one for each other upload (addAttachment).      *)
THEOREM FilesCountIsCurrent == Spec => []FilesCountCurrent
<1>1. FileInv => FilesCountCurrent
  BY InsertingFinite, FS_CardinalityType, BoundAssumption
     DEF FileInv, FileCountInv, FilesCountCurrent
<1> QED
  BY <1>1, FileInvariance, PTL

-----------------------------------------------------------------------------
(* The lock. A call does not know of a later time than its start, and only   *)
(* administrators have come to force.                                       *)
AskedInv ==
    \A c \in Calls :
        /\ op[c].at <= clock
        /\ op[c].kind = "force" => UserOf[op[c].tab] \in Admins

Timely(o) == o.at = clock /\ (o.kind = "force" => UserOf[o.tab] \in Admins)

LEMMA AskTimely ==
    ASSUME clock \in Nat, NEW t \in Tabs, NEW kind \in AllKinds, NEW x, NEW y,
           kind = "force" => UserOf[t] \in Admins
    PROVE  /\ Timely(Ask(kind, t))
           /\ Timely([Ask(kind, t) EXCEPT !.base = x, !.flag = y])
           /\ Timely([Ask(kind, t) EXCEPT !.base = x, !.to = y])
           /\ Timely([Ask(kind, t) EXCEPT !.flag = x])
           /\ Timely([Ask(kind, t) EXCEPT !.target = x])
           /\ Timely([Ask(kind, t) EXCEPT !.user = x])
<1>1. /\ Ask(kind, t) \in Op /\ Ask(kind, t).at = clock
      /\ Ask(kind, t).tab = t /\ Ask(kind, t).kind = kind
  BY AskType DEF Ask, NoOp
<1> QED
  BY <1>1 DEF Timely, Op

LEMMA StartAsked ==
    ASSUME TypeInv, AskedInv, NEW c \in Calls, StartCall(c)
    PROVE  AskedInv'
<1>0. clock \in Nat /\ op \in [Calls -> Op]
  BY DEF TypeInv, LockTypes, CallTypes
<1>1. \E o, point : Start(c, o, point) /\ Timely(o)
  <2>1. CASE StartLockCall(c)
    <3>1. PICK t \in Tabs :
             \/ StartAcquire(c, t) \/ StartHeartbeat(c, t) \/ StartRelease(c, t)
             \/ StartForce(c, t) \/ \E u \in Users : StartBlock(c, t, u)
      BY <2>1 DEF StartLockCall
    <3>2. CASE StartAcquire(c, t) \/ StartHeartbeat(c, t) \/ StartRelease(c, t)
      BY <1>0, <3>2, AskTimely DEF StartAcquire, StartHeartbeat, StartRelease, AllKinds
    <3>3. CASE StartForce(c, t)
      BY <1>0, <3>3, AskTimely DEF StartForce, AllKinds
    <3>4. CASE \E u \in Users : StartBlock(c, t, u)
      BY <1>0, <3>4, AskTimely DEF StartBlock, AllKinds
    <3> QED
      BY <3>1, <3>2, <3>3, <3>4
  <2>2. CASE StartDocumentCall(c)
    <3>1. PICK t \in Tabs, base \in 1 .. row.version :
             \/ \E release \in BOOLEAN : StartSave(c, t, base, release)
             \/ \E to \in Statuses : StartStatus(c, t, base, to)
      BY <2>2 DEF StartDocumentCall
    <3>2. ASSUME NEW release \in BOOLEAN, StartSave(c, t, base, release)
          PROVE  \E o, point : Start(c, o, point) /\ Timely(o)
      <4>1. Timely([Ask("save", t) EXCEPT !.base = base, !.flag = release])
        BY <1>0, AskTimely DEF AllKinds
      <4> QED
        BY <3>2, <4>1 DEF StartSave
    <3>3. ASSUME NEW to \in Statuses, StartStatus(c, t, base, to)
          PROVE  \E o, point : Start(c, o, point) /\ Timely(o)
      <4>1. Timely([Ask("status", t) EXCEPT !.base = base, !.to = to])
        BY <1>0, AskTimely DEF AllKinds
      <4> QED
        BY <3>3, <4>1 DEF StartStatus
    <3> QED
      BY <3>1, <3>2, <3>3
  <2>3. CASE StartKpCall(c)
    BY <1>0, <2>3, AskTimely DEF StartKpCall, StartKpCreate, StartKpDelete, AllKinds
  <2>4. CASE StartFileCall(c)
    BY <1>0, <2>4, AskTimely DEF StartFileCall, StartFileAdd, StartFileRemove, AllKinds
  <2> QED
    BY <2>1, <2>2, <2>3, <2>4 DEF StartCall
<1>2. PICK o, point : Start(c, o, point) /\ Timely(o)
  BY <1>1
<1>3. op' = [op EXCEPT ![c] = o] /\ clock' = clock
  BY <1>2 DEF Start
<1> QED
  BY <1>0, <1>2, <1>3 DEF AskedInv, Timely

LEMMA StepAsked ==
    ASSUME TypeInv, AskedInv, NEW c \in Calls, CallStep(c)
    PROVE  AskedInv'
<1>1. /\ clock' = clock
      /\ \/ op' = op
         \/ op' = [op EXCEPT ![c] = NoOp]
         \/ op' = [op EXCEPT ![c].target = nextFile]
  <2>1. CASE LockStep(c)
    BY <2>1 DEF LockStep, AcquireExpire, AcquireCreate, AcquireTaken, AcquireRead,
       AcquireRenew, Heartbeat, Release, ForceLock, BlockUser, DropUserLocks, Goto, End
  <2>2. CASE DocumentStep(c)
    BY <2>2 DEF DocumentStep, SaveBegin, SaveAssert, SaveRefuse, SaveAbort, SaveCommit,
       StatusBegin, StatusAssert, StatusRefuse, StatusAbort, StatusCommit, Refuse,
       LockRow, Goto, EndTx, End
  <2>3. CASE KpStep(c)
    BY <2>3 DEF KpStep, KpCreateBegin, KpCreateAssert, KpCreateRefuse, KpCreateAbort,
       KpCreateCommit, KpDeleteBegin, KpDeleteAssert, KpDeleteRefuse, KpDeleteAbort,
       KpDeleteCommit, Refuse, LockRow, Goto, EndTx, End
  <2>4. CASE FileStep(c)
    BY <2>4 DEF FileStep, FileCheck, FileHolder, FileStore, FileRefuse, FileInsert,
       FileInsertFails, FileDiscard, FileFind, FileRemove, FileUnlink, Goto, End
  <2> QED
    BY <2>1, <2>2, <2>3, <2>4 DEF CallStep
<1>2. clock \in Nat /\ op \in [Calls -> Op]
  BY DEF TypeInv, LockTypes, CallTypes
<1>3. NoOp.at = 0 /\ NoOp.kind = "none"
  BY DEF NoOp
<1>4. CASE op' = op
  BY <1>1, <1>4 DEF AskedInv
<1>5. CASE op' = [op EXCEPT ![c] = NoOp]
  BY <1>1, <1>2, <1>3, <1>5 DEF AskedInv
<1>6. CASE op' = [op EXCEPT ![c].target = nextFile]
  BY <1>1, <1>2, <1>6 DEF AskedInv, Op
<1> QED
  BY <1>1, <1>4, <1>5, <1>6

LEMMA AskedInvariance == Spec => []AskedInv
<1>1. Init => AskedInv
  BY DEF Init, NoOp, AskedInv
<1>2. TypeInv /\ AskedInv /\ [Next]_vars => AskedInv'
  <2> SUFFICES ASSUME TypeInv, AskedInv, [Next]_vars PROVE AskedInv'
    OBVIOUS
  <2>1. clock \in Nat /\ op \in [Calls -> Op]
    BY DEF TypeInv, LockTypes, CallTypes
  <2>2. CASE Tick
    BY <2>1, <2>2 DEF Tick, callVars, AskedInv, Op
  <2>3. CASE Restart
    BY <2>1, <2>3 DEF Restart, NoOp, AskedInv
  <2>4. CASE UNCHANGED vars
    BY <2>4 DEF vars, AskedInv
  <2>5. ASSUME NEW c \in Calls, StartCall(c) \/ CallStep(c) PROVE AskedInv'
    BY <2>5, StartAsked, StepAsked
  <2> QED
    BY <2>2, <2>3, <2>4, <2>5 DEF Next
<1> QED
  BY <1>1, <1>2, TypeInvariance, PTL DEF Spec

-----------------------------------------------------------------------------
\* What LiveLockKept allows a step of c to do to a live lock.
Lawful(c) ==
    lock'.tab # lock.tab =>
        \/ lock' # NoLock /\ UserOf[lock'.tab] \in Admins
        \/ /\ lock' = NoLock /\ pc'[c] # pc[c]
           /\ \/ op[c].tab = lock.tab
              \/ row'.status # row.status
              \/ op[c].kind = "block" /\ op[c].user = UserOf[lock.tab]

LEMMA LockStepLawful ==
    ASSUME TypeInv, AskedInv, NEW c \in Calls, LockStep(c),
           lock # NoLock, lock.expires > clock
    PROVE  Lawful(c)
<1>1. /\ lock \in [tab : Tabs, expires : Nat] /\ clock \in Nat
      /\ op[c] \in Op /\ op[c].at <= clock /\ pc \in [Calls -> Points]
      /\ NoTab \notin Tabs
  BY TabsAssumption DEF TypeInv, LockTypes, CallTypes, AskedInv
<1>2. CASE AcquireExpire(c)
  <2>1. op[c].at \in Nat /\ lock.expires \in Nat
    BY <1>1 DEF Op
  <2>2. ~ Expired(lock, op[c].at)
    BY <1>1, <2>1 DEF Expired
  <2> QED
    BY <1>2, <2>2 DEF AcquireExpire, Lawful
<1>3. CASE AcquireCreate(c)
  BY <1>3 DEF AcquireCreate
<1>4. CASE AcquireTaken(c) \/ AcquireRead(c) \/ BlockUser(c)
  BY <1>4 DEF AcquireTaken, AcquireRead, BlockUser, lockVars, Lawful
<1>5. CASE AcquireRenew(c) \/ Heartbeat(c)
  BY <1>1, <1>5 DEF AcquireRenew, Heartbeat, Lawful
<1>6. CASE Release(c)
  BY <1>1, <1>6 DEF Release, HoldsLock, At, End, Lawful
<1>7. CASE ForceLock(c)
  <2>1. op[c].kind = "force" /\ UserOf[op[c].tab] \in Admins
    BY <1>7 DEF ForceLock, At, AskedInv
  <2>2. op[c].tab \in Tabs
    BY <2>1 DEF TypeInv, CallTypes
  <2>3. lock' = [tab |-> op[c].tab, expires |-> Renewed(c)]
    BY <1>7 DEF ForceLock
  <2>4. lock'.tab = op[c].tab /\ lock' # NoLock
    BY <1>1, <2>2, <2>3 DEF NoLock
  <2> QED
    BY <2>1, <2>4 DEF Lawful
<1>8. CASE DropUserLocks(c)
  BY <1>1, <1>8 DEF DropUserLocks, At, End, Lawful
<1> QED
  BY <1>2, <1>3, <1>4, <1>5, <1>6, <1>7, <1>8 DEF LockStep

LEMMA DocumentStepLawful ==
    ASSUME TypeInv, DocInv, NEW c \in Calls, DocumentStep(c),
           lock # NoLock, lock.expires > clock
    PROVE  Lawful(c)
<1>1. /\ lock \in [tab : Tabs, expires : Nat] /\ pc \in [Calls -> Points]
      /\ row \in Row
  BY DEF TypeInv, LockTypes, CallTypes, DocTypes
<1>2. CASE \E approval \in 0 .. (nextKp - 1), approved \in BOOLEAN :
              SaveCommit(c, approval, approved)
  <2>1. SaveLock(c) /\ pc[c] = "commit" /\ pc'[c] = "idle"
    BY <1>1, <1>2 DEF SaveCommit, At, EndTx, End
  <2> QED
    BY <1>1, <2>1 DEF SaveLock, HoldsLock, Lawful
<1>3. CASE StatusCommit(c)
  <2>1. /\ pc[c] = "commit" /\ pc'[c] = "idle" /\ row'.status = op[c].to
        /\ lock' = IF op[c].to \in Editable THEN lock ELSE NoLock
    BY <1>1, <1>3 DEF StatusCommit, At, EndTx, End, Row
  <2>2. op[c].to \in Transition[row.status]
    BY <1>3, <2>1 DEF StatusCommit, At, DocInv, CheckedInv, Checked
  <2>3. row.status \in {"in_progress", "done", "cancelled"}
    BY <1>1 DEF Row, Statuses
  <2>4. row'.status # row.status
    BY <2>1, <2>2, <2>3 DEF Transition
  <2> QED
    BY <2>1, <2>4 DEF Lawful
<1>4. CASE ~ (StatusCommit(c)
             \/ \E approval \in 0 .. (nextKp - 1), approved \in BOOLEAN :
                    SaveCommit(c, approval, approved))
  BY <1>4 DEF DocumentStep, SaveBegin, SaveAssert, SaveRefuse, SaveAbort, StatusBegin,
     StatusAssert, StatusRefuse, StatusAbort, Refuse, lockVars, Lawful
<1> QED
  BY <1>2, <1>3, <1>4

(* A live lock goes to another tab only by an administrator's force, and     *)
(* disappears only by its own tab, a change of status or the blocking of its *)
(* user (locks.service.ts): what a call judged expired is not live, however  *)
(* long the call has waited since.                                          *)
THEOREM LiveLocksAreKept == Spec => LiveLockKept
<1>1. ASSUME TypeInv, DocInv, AskedInv, [Next]_vars,
             lock # NoLock, lock.expires > clock, lock'.tab # lock.tab
      PROVE  \E c \in Calls : Lawful(c)
  <2>1. CASE Tick \/ Restart \/ UNCHANGED vars
    BY <1>1, <2>1 DEF Tick, Restart, vars, lockVars
  <2>2. ASSUME NEW c \in Calls, StartCall(c) PROVE FALSE
    BY <1>1, <2>2 DEF StartCall, StartLockCall, StartAcquire, StartHeartbeat,
       StartRelease, StartForce, StartBlock, StartDocumentCall, StartSave,
       StartStatus, StartKpCall, StartKpCreate, StartKpDelete,
       StartFileCall, StartFileAdd, StartFileRemove, Start, lockVars
  <2>3. ASSUME NEW c \in Calls, CallStep(c) PROVE Lawful(c)
    <3>1. CASE LockStep(c)
      BY <1>1, <3>1, LockStepLawful
    <3>2. CASE DocumentStep(c)
      BY <1>1, <3>2, DocumentStepLawful
    <3>3. CASE KpStep(c)
      BY <3>3 DEF KpStep, KpCreateBegin, KpCreateAssert, KpCreateRefuse, KpCreateAbort,
         KpCreateCommit, KpDeleteBegin, KpDeleteAssert, KpDeleteRefuse, KpDeleteAbort,
         KpDeleteCommit, Refuse, lockVars, Lawful
    <3>4. CASE FileStep(c)
      BY <3>4 DEF FileStep, FileCheck, FileHolder, FileStore, FileRefuse, FileInsert,
         FileInsertFails, FileDiscard, FileFind, FileRemove, FileUnlink, lockVars, Lawful
    <3> QED
      BY <2>3, <3>1, <3>2, <3>3, <3>4 DEF CallStep
  <2> QED
    BY <1>1, <2>1, <2>2, <2>3 DEF Next
<1>2. ASSUME TypeInv, DocInv, AskedInv, [Next]_vars
      PROVE  (lock # NoLock /\ lock.expires > clock /\ lock'.tab # lock.tab) =>
                \/ lock' # NoLock /\ UserOf[lock'.tab] \in Admins
                \/ /\ lock' = NoLock
                   /\ \E c \in Calls :
                        /\ pc'[c] # pc[c]
                        /\ \/ op[c].tab = lock.tab
                           \/ row'.status # row.status
                           \/ op[c].kind = "block" /\ op[c].user = UserOf[lock.tab]
  BY <1>1, <1>2 DEF Lawful
<1> QED
  BY <1>2, DocInvariance, AskedInvariance, PTL DEF LiveLockKept, Spec

-----------------------------------------------------------------------------
(* The ledger. Beyond DocInv its refinement needs that the ids of KPs are   *)
(* unique, and what becomes of the base of approvals when a KP comes or     *)
(* goes.                                                                    *)

\* A KP is known by its id.
KpIdsUnique == \A j, k \in kps : j.id = k.id => j = k

LedgerInv == TypeInv /\ DocInv /\ KpIdsUnique

\* NumberOf for any set of KPs.
Number(ks, id) ==
    IF \E k \in ks : k.id = id THEN (CHOOSE k \in ks : k.id = id).version ELSE 0

Ordinary(ks) == {k \in ks : ~k.final}

Newest(os) == CHOOSE k \in os : \A j \in os : j.version <= k.version

\* ApprovalBase once the final KPs are left out.
BaseOf(os, chosen) ==
    IF \E k \in os : k.id = chosen THEN chosen
    ELSE IF os = {} THEN NoKp ELSE Newest(os).id

LEMMA BaseIsOfOrdinary ==
    ASSUME NEW ks, NEW chosen
    PROVE  ApprovalBase(ks, chosen) = BaseOf(Ordinary(ks), chosen)
BY DEF ApprovalBase, BaseOf, Ordinary, Newest

-----------------------------------------------------------------------------
(* The base of approvals.                                                  *)

\* A new KP either becomes the base or leaves it as it was.
LEMMA BaseAfterCreate ==
    ASSUME NEW ks, NEW kp, NEW chosen,
           ks \cup {kp} \subseteq Kp, \A k \in ks : k.version < kp.version
    PROVE  ApprovalBase(ks \cup {kp}, chosen) \in {ApprovalBase(ks, chosen), kp.id}
<1>1. CASE kp.final
  <2>1. Ordinary(ks \cup {kp}) = Ordinary(ks)
    BY <1>1 DEF Ordinary
  <2> QED
    BY <2>1, BaseIsOfOrdinary
<1>2. CASE ~kp.final
  <2> DEFINE old == Ordinary(ks)
             new == Ordinary(ks \cup {kp})
  <2>1. new = old \cup {kp}
    BY <1>2 DEF Ordinary
  <2>2. \A k \in new : k.version \in Nat /\ (k # kp => k.version < kp.version)
    BY DEF Kp, Ordinary
  <2> HIDE DEF old, new
  <2>3. Newest(new) = kp
    BY <2>1, <2>2 DEF Newest
  <2>4. BaseOf(new, chosen) \in {BaseOf(old, chosen), kp.id}
    BY <2>1, <2>3 DEF BaseOf
  <2> QED
    BY <2>4, BaseIsOfOrdinary DEF old, new
<1> QED
  BY <1>1, <1>2

\* A KP that is not the base leaves the base as it was when it goes, also when
\* it was the chosen one and the choice is forgotten.
LEMMA BaseAfterDelete ==
    ASSUME NEW ks, NEW n \in Nat \ {0}, KpsBounded(ks, n),
           \A j, k \in ks : j.version = k.version => j = k,
           NEW target, NEW chosen, ApprovalBase(ks, chosen) # target
    PROVE  ApprovalBase({k \in ks : k.id # target},
                        IF chosen = target THEN NoKp ELSE chosen)
               = ApprovalBase(ks, chosen)
<1> DEFINE old  == Ordinary(ks)
           new  == Ordinary({k \in ks : k.id # target})
           left == IF chosen = target THEN NoKp ELSE chosen
<1>1. /\ new = {k \in old : k.id # target}
      /\ \A k \in old : k.id \in Nat /\ 1 <= k.id /\ k.version \in Nat /\ k.version <= n
      /\ \A j, k \in old : j.version = k.version => j = k
      /\ old \subseteq Kp
  BY DEF KpsBounded, Kp, Ordinary
<1>2. BaseOf(old, chosen) # target
  BY BaseIsOfOrdinary
<1> SUFFICES BaseOf(new, left) = BaseOf(old, chosen)
  BY BaseIsOfOrdinary
<1> HIDE DEF old, new
<1>3. CASE \E k \in old : k.id = chosen
  BY <1>1, <1>2, <1>3 DEF BaseOf
<1>4. CASE ~ \E k \in old : k.id = chosen
  <2>1. ~ \E k \in new : k.id = left
    BY <1>1, <1>4 DEF NoKp
  <2>2. CASE old = {}
    BY <1>1, <1>4, <2>1, <2>2 DEF BaseOf
  <2>3. CASE old # {}
    <3>1. BaseOf(old, chosen) = Newest(old).id
      BY <1>4, <2>3 DEF BaseOf
    <3>2. \E k \in old : \A j \in old : j.version <= k.version
      BY <1>1, <2>3, NewestExists
    <3>3. Newest(old) \in old /\ \A j \in old : j.version <= Newest(old).version
      BY <3>2 DEF Newest
    <3>4. Newest(old) \in new /\ \A j \in new : j.version <= Newest(old).version
      BY <1>1, <1>2, <3>1, <3>3
    <3>5. Newest(new) \in new /\ \A j \in new : j.version <= Newest(new).version
      BY <3>4 DEF Newest
    <3>6. /\ Newest(new).version <= Newest(old).version
          /\ Newest(old).version <= Newest(new).version
          /\ Newest(new) \in old
      BY <1>1, <3>4, <3>5
    <3>7. Newest(new).version = Newest(old).version
      BY <1>1, <3>3, <3>6
    <3>8. Newest(new) = Newest(old)
      BY <1>1, <3>3, <3>6, <3>7
    <3>9. BaseOf(new, left) = Newest(new).id
      BY <2>1, <3>4 DEF BaseOf
    <3> QED
      BY <3>1, <3>8, <3>9
  <2> QED
    BY <2>2, <2>3
<1> QED
  BY <1>3, <1>4

-----------------------------------------------------------------------------
(* The numbers of KPs.                                                     *)

LEMMA NumberOfKp ==
    ASSUME NEW ks, \A j, k \in ks : j.id = k.id => j = k, NEW kp \in ks
    PROVE  Number(ks, kp.id) = kp.version
<1>1. \A k \in ks : k.id = kp.id => k = kp
  OBVIOUS
<1>2. (CHOOSE k \in ks : k.id = kp.id) = kp
  BY <1>1
<1> QED
  BY <1>2 DEF Number

LEMMA NoNumber ==
    ASSUME NEW ks, NEW id, ~ \E k \in ks : k.id = id
    PROVE  Number(ks, id) = 0
BY DEF Number

-----------------------------------------------------------------------------
(* The commits. Each is one step of the ledger, or none.                    *)

\* What the proofs of the commits use of the state before.
LEMMA BeforeCommit ==
    ASSUME LedgerInv
    PROVE  /\ row \in Row /\ nextKp \in Nat \ {0} /\ KpsBounded(kps, nextKp)
           /\ kps \subseteq Kp
           /\ \A k \in kps : /\ k.id \in Nat /\ 1 <= k.id /\ k.id < nextKp
                             /\ k.version \in Nat /\ 1 <= k.version
           /\ row.sumBase = SumBase(row.approved, kps, row.approval)
           /\ NumberOf(row.sumBase) = Number(kps, row.sumBase)
           /\ NumberOf(row.sumBase)' = Number(kps', row'.sumBase)
<1>1. row \in Row /\ nextKp \in Nat \ {0} /\ KpsBounded(kps, nextKp)
  BY DEF LedgerInv, TypeInv, DocTypes
<1>2. kps \subseteq Kp
  BY <1>1 DEF KpsBounded
<1>3. \A k \in kps : /\ k.id \in Nat /\ 1 <= k.id /\ k.id < nextKp
                     /\ k.version \in Nat /\ 1 <= k.version
  BY <1>1, <1>2 DEF KpsBounded, Kp
<1> QED
  BY <1>1, <1>2, <1>3
     DEF LedgerInv, DocInv, DocSafe, ApprovedSumCurrent, NumberOf, Number

LEMMA SaveCommitWrites ==
    ASSUME LedgerInv, NEW c \in Calls, NEW approval \in 0 .. (nextKp - 1),
           NEW approved \in BOOLEAN, SaveCommit(c, approval, approved)
    PROVE  Ledger!Write
<1>1. row.status \in Editable
  BY DEF LedgerInv, DocInv, CheckedInv, Checked, SaveCommit, At
<1>2. /\ row' = [row EXCEPT !.version  = @ + 1, !.approval = approval,
                            !.approved = approved,
                            !.sumBase  = SumBase(approved, view[c].kps, approval)]
      /\ kps' = kps
  BY DEF SaveCommit
<1>3. row'.version = row.version + 1 /\ row'.approved = approved /\ row'.status = row.status
  BY <1>2, BeforeCommit DEF Row
<1>4. Number(kps', row'.sumBase) \in {k.version : k \in kps} \cup {0}
  <2>1. CASE \E k \in kps : k.id = row'.sumBase
    <3>1. PICK k \in kps : k.id = row'.sumBase
      BY <2>1
    <3> QED
      BY <1>2, <3>1, NumberOfKp DEF LedgerInv, KpIdsUnique
  <2>2. CASE ~ \E k \in kps : k.id = row'.sumBase
    BY <1>2, <2>2, NoNumber
  <2> QED
    BY <2>1, <2>2
<1> QED
  BY <1>1, <1>2, <1>3, <1>4, BeforeCommit DEF Ledger!Write, Ledger!Nothing

LEMMA StatusCommitTurns ==
    ASSUME LedgerInv, NEW c \in Calls, StatusCommit(c)
    PROVE  Ledger!Turn
<1>1. op[c].to \in Transition[row.status]
  BY DEF LedgerInv, DocInv, CheckedInv, Checked, StatusCommit, At
<1>2. row' = [row EXCEPT !.version = @ + 1, !.status = op[c].to] /\ kps' = kps
  BY DEF StatusCommit
<1>3. /\ row'.version = row.version + 1 /\ row'.status = op[c].to
      /\ row'.approved = row.approved /\ row'.sumBase = row.sumBase
      /\ row.status \in {"in_progress", "done", "cancelled"}
  BY <1>2, BeforeCommit DEF Row, Statuses
<1>4. (row'.status \in Editable) = ~(row.status \in Editable)
  BY <1>1, <1>3 DEF Transition, Editable
<1> QED
  BY <1>2, <1>3, <1>4, BeforeCommit DEF Ledger!Turn

LEMMA KpCreateCommitOffers ==
    ASSUME LedgerInv, NEW c \in Calls, KpCreateCommit(c)
    PROVE  Ledger!Offer /\ KpIdsUnique'
<1> DEFINE kp == [id |-> nextKp, version |-> NextKpVersion(view[c].kps),
                  final |-> op[c].flag]
<1>1. /\ row.status \in Editable /\ view[c].kps = kps
      /\ kps' = kps \cup {kp}
      /\ row' = WithKps(row, row.approval, kps \cup {kp})
  <2>1. pc[c] = "commit" /\ op[c].kind = "kpCreate"
    BY DEF KpCreateCommit, At
  <2>2. row.status \in Editable /\ view[c] = [row |-> row, kps |-> kps]
    BY <2>1 DEF LedgerInv, DocInv, CheckedInv, Checked, TxInv, InTx
  <2> QED
    BY <2>2 DEF KpCreateCommit
<1>2. /\ row'.version = row.version /\ row'.status = row.status
      /\ row'.approved = row.approved
      /\ row'.sumBase = SumBase(row.approved, kps', row.approval)
  BY <1>1, BeforeCommit DEF WithKps, Row
<1>3. /\ kp \in Kp
      /\ \A k \in kps : k.version < kp.version /\ k.id # kp.id
  <2>1. op[c].flag \in BOOLEAN
    BY DEF LedgerInv, TypeInv, CallTypes, Op
  <2>2. NextKpVersion(kps) \in Nat /\ \A k \in kps : k.version < NextKpVersion(kps)
    BY BeforeCommit, NextKpVersionFresh
  <2> QED
    BY <1>1, <2>1, <2>2, BeforeCommit DEF Kp
<1> HIDE DEF kp
<1>4. KpIdsUnique'
  BY <1>1, <1>3 DEF LedgerInv, KpIdsUnique
<1>5. row'.sumBase \in {row.sumBase, kp.id}
  <2>1. CASE row.approved
    <3>1. kps \cup {kp} \subseteq Kp
      BY <1>3, BeforeCommit
    <3>2. ApprovalBase(kps', row.approval) \in {ApprovalBase(kps, row.approval), kp.id}
      BY <1>1, <1>3, <3>1, BaseAfterCreate
    <3> QED
      BY <1>2, <2>1, <3>2, BeforeCommit DEF SumBase
  <2>2. CASE ~row.approved
    BY <1>2, <2>2, BeforeCommit DEF SumBase
  <2> QED
    BY <2>1, <2>2
<1>6. Number(kps', row'.sumBase) \in {Number(kps, row.sumBase), kp.version}
  <2>1. Number(kps', kp.id) = kp.version
    BY <1>1, <1>4, NumberOfKp DEF KpIdsUnique
  <2>2. CASE \E k \in kps : k.id = row.sumBase
    <3>1. PICK k \in kps : k.id = row.sumBase
      BY <2>2
    <3>2. Number(kps, row.sumBase) = k.version
      BY <3>1, NumberOfKp DEF LedgerInv, KpIdsUnique
    <3>3. Number(kps', row.sumBase) = k.version
      <4>1. k \in kps' /\ \A i, j \in kps' : i.id = j.id => i = j
        BY <1>1, <1>4 DEF KpIdsUnique
      <4> QED
        BY <3>1, <4>1, NumberOfKp
    <3> QED
      BY <1>5, <2>1, <3>2, <3>3
  <2>3. CASE ~ \E k \in kps : k.id = row.sumBase
    <3>1. Number(kps, row.sumBase) = 0
      BY <2>3, NoNumber
    <3>2. CASE row.sumBase = kp.id
      BY <1>5, <2>1, <3>2
    <3>3. CASE row.sumBase # kp.id
      <4>1. Number(kps', row.sumBase) = 0
        BY <1>1, <2>3, <3>3, NoNumber
      <4> QED
        BY <1>5, <2>1, <3>1, <4>1
    <3> QED
      BY <3>2, <3>3
  <2> QED
    BY <2>2, <2>3
<1>7. {k.version : k \in kps'} = {k.version : k \in kps} \cup {kp.version}
  BY <1>1
<1>8. \A m \in {k.version : k \in kps} : m < kp.version
  BY <1>3
<1> QED
  BY <1>1, <1>2, <1>4, <1>6, <1>7, <1>8, BeforeCommit DEF Ledger!Offer

LEMMA KpDeleteCommitWithdraws ==
    ASSUME LedgerInv, NEW c \in Calls, KpDeleteCommit(c)
    PROVE  Ledger!Withdraw \/ UNCHANGED Ledger!ledger
<1> DEFINE target == op[c].target
           chosen == IF row.approval = target THEN NoKp ELSE row.approval
<1>1. /\ row.status \in Editable /\ view[c] = [row |-> row, kps |-> kps]
      /\ ~ (ApprovalBase(kps, row.approval) = target /\ row.approved)
  BY DEF LedgerInv, DocInv, CheckedInv, Checked, TxInv, InTx, KpDeleteCommit, At
<1>2. /\ kps' = {k \in kps : k.id # target}
      /\ row' = WithKps(row, chosen, kps')
  BY <1>1 DEF KpDeleteCommit
<1>3. /\ row'.version = row.version /\ row'.status = row.status
      /\ row'.approved = row.approved
      /\ row'.sumBase = SumBase(row.approved, kps', chosen)
  BY <1>2, BeforeCommit DEF WithKps, Row
<1>4. row'.sumBase = row.sumBase /\ row.sumBase # target
  <2>1. CASE row.approved
    <3>1. ApprovalBase(kps', chosen) = ApprovalBase(kps, row.approval)
      <4>1. \A j, k \in kps : j.version = k.version => j = k
        BY DEF LedgerInv, DocInv, DocSafe, KpVersionsUnique
      <4>2. KpsBounded(kps, nextKp) /\ nextKp \in Nat \ {0}
        BY BeforeCommit
      <4>3. ApprovalBase(kps, row.approval) # target
        BY <1>1, <2>1
      <4> HIDE DEF target
      <4>4. ApprovalBase({k \in kps : k.id # target},
                         IF row.approval = target THEN NoKp ELSE row.approval)
                = ApprovalBase(kps, row.approval)
        BY <4>1, <4>2, <4>3, BaseAfterDelete
      <4> QED
        BY <1>2, <4>4
    <3> QED
      BY <1>1, <1>3, <2>1, <3>1, BeforeCommit DEF SumBase
  <2>2. CASE ~row.approved
    <3>1. target \in Nat
      BY DEF LedgerInv, TypeInv, CallTypes, Op
    <3> QED
      BY <1>3, <2>2, <3>1, BeforeCommit DEF SumBase, NoSum
  <2> QED
    BY <2>1, <2>2
<1> HIDE DEF target, chosen
<1>5. Number(kps', row'.sumBase) = Number(kps, row.sumBase)
  <2>1. CASE \E k \in kps : k.id = row.sumBase
    <3>1. PICK k \in kps : k.id = row.sumBase
      BY <2>1
    <3>2. k \in kps' /\ \A i, j \in kps' : i.id = j.id => i = j
      BY <1>2, <1>4, <3>1 DEF LedgerInv, KpIdsUnique
    <3>3. Number(kps', k.id) = k.version
      BY <3>2, NumberOfKp
    <3>4. Number(kps, k.id) = k.version
      BY NumberOfKp DEF LedgerInv, KpIdsUnique
    <3> QED
      BY <1>4, <3>1, <3>3, <3>4
  <2>2. CASE ~ \E k \in kps : k.id = row.sumBase
    BY <1>2, <1>4, <2>2, NoNumber
  <2> QED
    BY <2>1, <2>2
<1>6. CASE \E k \in kps : k.id = target
  <2>1. PICK k \in kps : k.id = target
    BY <1>6
  <2>2. {i.version : i \in kps'} = {i.version : i \in kps} \ {k.version}
    BY <1>2, <2>1 DEF LedgerInv, DocInv, DocSafe, KpVersionsUnique, KpIdsUnique
  <2>3. Number(kps, row.sumBase) # k.version
    <3>1. CASE \E j \in kps : j.id = row.sumBase
      <4>1. PICK j \in kps : j.id = row.sumBase
        BY <3>1
      <4>2. Number(kps, row.sumBase) = j.version
        BY <4>1, NumberOfKp DEF LedgerInv, KpIdsUnique
      <4>3. j # k
        BY <1>4, <2>1, <4>1
      <4> QED
        BY <4>2, <4>3 DEF LedgerInv, DocInv, DocSafe, KpVersionsUnique
    <3>2. CASE ~ \E j \in kps : j.id = row.sumBase
      BY <3>2, NoNumber, BeforeCommit
    <3> QED
      BY <3>1, <3>2
  <2>4. Ledger!Withdraw
    BY <1>1, <1>3, <1>5, <2>2, <2>3, BeforeCommit DEF Ledger!Withdraw
  <2> QED
    BY <2>4
<1>7. CASE ~ \E k \in kps : k.id = target
  <2>1. kps' = kps
    BY <1>2, <1>7
  <2> QED
    BY <1>3, <1>5, <2>1, BeforeCommit DEF Ledger!ledger
<1> QED
  BY <1>6, <1>7

-----------------------------------------------------------------------------
(* The ids of KPs stay unique, and every step is one of the ledger or none. *)

LEMMA InitLedger == Init => KpIdsUnique /\ Ledger!Init
<1> SUFFICES ASSUME Init PROVE KpIdsUnique /\ Ledger!Init
  OBVIOUS
<1>1. row = NewRow /\ kps = {}
  BY DEF Init
<1> QED
  BY <1>1 DEF KpIdsUnique, Ledger!Init, Ledger!Nothing, NumberOf, NewRow, Editable

LEMMA NextLedger ==
    ASSUME LedgerInv, [Next]_vars
    PROVE  KpIdsUnique' /\ [Ledger!Next]_(Ledger!ledger)
<1>1. CASE UNCHANGED <<row, kps>>
  BY <1>1 DEF LedgerInv, KpIdsUnique, Ledger!ledger, NumberOf
<1>2. ASSUME NEW c \in Calls, Writes(c)
      PROVE  KpIdsUnique' /\ (Ledger!Next \/ UNCHANGED Ledger!ledger)
  <2>1. CASE KpCreateCommit(c)
    BY <2>1, KpCreateCommitOffers DEF Ledger!Next
  <2>2. ASSUME ~ KpCreateCommit(c) PROVE KpIdsUnique'
    BY <1>2, <2>2 DEF Writes, SaveCommit, StatusCommit, KpDeleteCommit, FileInsert,
                      FileRemove, LedgerInv, KpIdsUnique
  <2>3. ASSUME NEW approval \in 0 .. (nextKp - 1), NEW approved \in BOOLEAN,
               SaveCommit(c, approval, approved)
        PROVE  Ledger!Next
    BY <2>3, SaveCommitWrites DEF Ledger!Next
  <2>4. CASE StatusCommit(c)
    BY <2>2, <2>4, StatusCommitTurns, <2>1 DEF Ledger!Next
  <2>5. CASE KpDeleteCommit(c)
    BY <2>1, <2>2, <2>5, KpDeleteCommitWithdraws DEF Ledger!Next
  <2>6. CASE FileInsert(c) \/ FileRemove(c)
    <3>1. /\ row'.version = row.version /\ row'.status = row.status
          /\ row'.approved = row.approved /\ row'.sumBase = row.sumBase
          /\ kps' = kps
      BY <2>6, BeforeCommit DEF FileInsert, FileRemove, Row
    <3>2. UNCHANGED Ledger!ledger
      BY <3>1 DEF Ledger!ledger, NumberOf
    <3> QED
      BY <2>1, <2>2, <3>2
  <2> QED
    BY <1>2, <2>1, <2>2, <2>3, <2>4, <2>5, <2>6 DEF Writes
<1> QED
  BY <1>1, <1>2, OnlyWritersWrite

-----------------------------------------------------------------------------
(* The server keeps the ledger: the steps of simultaneous calls that take   *)
(* the Request row, check and commit amount to complete steps, one after    *)
(* another (saveRequestDocument, changeStatus, createKp, deleteKp).         *)
THEOREM ServerImplementsLedger == Spec => LedgerKept
<1>1. Init => KpIdsUnique /\ Ledger!Init
  BY InitLedger
<1>2. TypeInv /\ DocInv /\ KpIdsUnique /\ [Next]_vars =>
          KpIdsUnique' /\ [Ledger!Next]_(Ledger!ledger)
  BY NextLedger DEF LedgerInv
<1> QED
  BY <1>1, <1>2, DocInvariance, PTL DEF Spec, LedgerKept, Ledger!Spec

=============================================================================
