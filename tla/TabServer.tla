------------------------------ MODULE TabServer ------------------------------
(***************************************************************************)
(* What the server promises one tab (RequestServer models how it keeps the *)
(* promise), what the tabs of others do meanwhile, and the network, which  *)
(* may lose a request or its answer and delay both. A call is one step,    *)
(* but a write is two: the lock can be lost between its check and its      *)
(* commit.                                                                 *)
(***************************************************************************)
EXTENDS TabState

SaveFns    == {"save", "hide"}
WriteFns   == SaveFns \cup {"status"}
AcquireFns == {"load", "retry", "reopen"}
ReleaseFns == {"drop", "closing"}
ReadFns    == {"loadDoc", "refresh", "watch"}

\* READ_ONLY, LOCK_LOST, VERSION_CONFLICT, in the order they are checked
SaveCode(c) ==
    IF srv.closed THEN "READ_ONLY"
    ELSE IF srv.lock # "mine" THEN "LOCK_LOST"
    ELSE IF c.base # srv.version THEN "VERSION_CONFLICT"
    ELSE "ok"

\* setStatus closes the request, reopen opens it
StatusCode(c) ==
    IF srv.lock # "mine" THEN "LOCK_LOST"
    ELSE IF c.base # srv.version THEN "VERSION_CONFLICT"
    ELSE IF srv.closed # (c.then = "reopen") THEN "INVALID_TRANSITION"
    ELSE "ok"

CheckCode(c) == IF c.fn \in SaveFns THEN SaveCode(c) ELSE StatusCode(c)

\* A write that has passed its checks holds the Request row until it commits:
\* no other write is checked then, and no lock row inserted. A lock row that
\* is there is not held; it can pass to another tab or be deleted.
RowTaken == \E s \in Slots : calls[s].at = "checked"

\* The patch is the difference between what was saved before and what is shown.
Patched(c) == (srv.doc \ (c.cut \ c.sent)) \cup (c.sent \ c.cut)

Released == IF srv.lock = "mine" THEN "none" ELSE srv.lock

SavedBy(c) ==
    [srv EXCEPT !.version = @ + 1, !.doc = Patched(c),
                !.lock = IF c.fn = "hide" THEN Released ELSE @]

StatusBy(c) ==
    [srv EXCEPT !.version = @ + 1, !.closed = (c.then # "reopen"),
                !.lock = IF c.then = "reopen" THEN @ ELSE "none"]

\* A save that does not release the lock renews the lock row, and fails without one.
Committed(c, code, now) ==
    \/ c.fn = "save" /\ srv.lock = "none" /\ code = "NOT_FOUND" /\ now = srv
    \/ c.fn = "save" /\ srv.lock # "none" /\ code = "ok" /\ now = SavedBy(c)
    \/ c.fn = "hide" /\ code = "ok" /\ now = SavedBy(c)
    \/ c.fn = "status" /\ code = "ok" /\ now = StatusBy(c)

\* The server handles c, answers code and is `now` afterwards.
Handled(c, code, now) ==
    \/ c.fn \in WriteFns /\ ~RowTaken /\ code = CheckCode(c) /\ code # "ok" /\ now = srv
    \/ c.fn \in AcquireFns /\ srv.lock = "other" /\ code = "LOCKED" /\ now = srv
    \/ c.fn \in AcquireFns /\ srv.lock # "other" /\ (srv.lock = "none" => ~RowTaken)
       /\ code = "ok" /\ now = [srv EXCEPT !.lock = "mine"]
    \/ c.fn = "force" /\ (srv.lock = "none" => ~RowTaken)
       /\ code = "ok" /\ now = [srv EXCEPT !.lock = "mine"]
    \/ c.fn \in ReleaseFns /\ code = "ok" /\ now = [srv EXCEPT !.lock = Released]
    \/ c.fn = "beat" /\ now = srv
       /\ code = IF srv.lock = "mine" THEN "ok" ELSE "LOCK_LOST"
    \/ c.fn \in ReadFns /\ code = "ok" /\ now = srv

\* What an answer carries: everything for a read, the version for a write.
Told(c, now) ==
    IF c.fn \in {"loadDoc", "refresh"} THEN now
    ELSE IF c.fn = "watch" THEN [now EXCEPT !.doc = {}]
    ELSE IF c.fn \in WriteFns
    THEN [NoServer EXCEPT !.version = now.version]
    ELSE NoServer

\* A write takes the Request row and passes its checks.
Check(s) ==
    /\ calls[s].at = "asked" /\ calls[s].fn \in WriteFns
    /\ ~RowTaken /\ CheckCode(calls[s]) = "ok"
    /\ Become(s, [calls[s] EXCEPT !.at = "checked"])
    /\ UNCHANGED <<srv, hist, tab, user>>

Reply(s) ==
    \E code \in Codes, now \in {srv, SavedBy(calls[s]), StatusBy(calls[s])}
                               \cup {[srv EXCEPT !.lock = o] : o \in Owners} :
        /\ \/ calls[s].at = "asked" /\ Handled(calls[s], code, now)
           \/ calls[s].at = "checked" /\ Committed(calls[s], code, now)
        /\ srv' = now
        /\ hist' = IF now.version > srv.version THEN Append(hist, now.doc) ELSE hist
        /\ Become(s, [calls[s] EXCEPT !.at = "answered",
                                      !.res = [code |-> code,
                                               now |-> Told(calls[s], now)]])
        /\ UNCHANGED <<tab, user>>

Serve(s) == Check(s) \/ Reply(s)

\* A request that never arrives, or an answer that does not.
Fail(s) ==
    /\ user.fails < MaxFails
    /\ calls[s].at \in {"asked", "answered"} /\ calls[s].res.code # "network"
    /\ Become(s, [calls[s] EXCEPT !.at = "answered",
                                  !.res = [NoResult EXCEPT !.code = "network"]])
    /\ user' = [user EXCEPT !.fails = @ + 1]
    /\ UNCHANGED <<srv, hist, tab>>

-----------------------------------------------------------------------------
\* Another tab acquires a free or expired lock, or an administrator forces it.
OtherTakes ==
    /\ srv.lock # "other" /\ (srv.lock = "none" => ~RowTaken)
    /\ srv' = [srv EXCEPT !.lock = "other"]
    /\ UNCHANGED hist

\* An acquire of another tab finds this tab's lock expired and deletes it. Its
\* own lock is a step of its own (OtherTakes), or is not taken.
OtherSweeps == srv.lock = "mine" /\ srv' = [srv EXCEPT !.lock = "none"] /\ UNCHANGED hist

OtherLeaves == srv.lock = "other" /\ srv' = [srv EXCEPT !.lock = "none"] /\ UNCHANGED hist

OtherSaves ==
    /\ srv.lock = "other" /\ ~srv.closed /\ ~RowTaken
    /\ srv' = [srv EXCEPT !.version = @ + 1, !.doc = @ \cup {-(srv.version + 1)}]
    /\ hist' = Append(hist, srv'.doc)

\* ... changes the status either way; a closed request keeps no lock
OtherStatus ==
    /\ srv.lock = "other" /\ ~RowTaken
    /\ srv' = [srv EXCEPT !.version = @ + 1, !.closed = ~@,
                          !.lock = IF srv.closed THEN "other" ELSE "none"]
    /\ hist' = Append(hist, srv.doc)

Others ==
    /\ user.others < MaxOthers
    /\ OtherTakes \/ OtherSweeps \/ OtherLeaves \/ OtherSaves \/ OtherStatus
    /\ user' = [user EXCEPT !.others = @ + 1]
    /\ UNCHANGED <<tab, calls>>

=============================================================================
