------------------------------- MODULE FeedRuns -------------------------------
(***************************************************************************)
(* The clock, the process and its daily timers (jobs/schedule.ts), and the *)
(* daily update of price lists by link (jobs/priceFeeds.ts): a queue of    *)
(* suppliers, tries again in an hour, and the catch-up of a process that   *)
(* was not there at the hour. What an update does to the catalogue is the  *)
(* matter of PriceRuns; here it has one of three ends. The rates of the    *)
(* National Bank, which share the clock and the process, are in DailyJobs. *)
(*                                                                         *)
(* Time goes by the hour. The clock of the day may jump an hour or repeat  *)
(* one, while timers and ages count the hours that have really passed.     *)
(* The jobs share nothing but the clock and the process, so an instance    *)
(* looks at one of them at a time.                                         *)
(***************************************************************************)
EXTENDS Integers, Sequences, SequencesExt

CONSTANTS
    Jobs,        \* the jobs of this instance: "feeds", "rates"
    Feeds,       \* the suppliers with a link, in their order, without repeats
    HourOf,      \* the hour each of them is updated at
    Currencies, NbuHour,
    DayHours,    \* the hours of a day
    MaxRetries,
    MaxQueue,    \* bound on the tasks that wait while an hour passes
    MaxRun,      \* bound on the hours that pass while a run is going on
    MaxEvents    \* bound on failures, restarts, clock changes and calls of users

Suppliers == Range(Feeds)

ASSUME JobAssumption ==
    /\ Jobs \subseteq {"feeds", "rates"}
    /\ DayHours \in Nat \ {0} /\ NbuHour \in 0..DayHours-1
    /\ Feeds \in Seq(Suppliers) /\ HourOf \in [Suppliers -> 0..DayHours-1]
    /\ MaxRetries \in Nat /\ MaxQueue \in Nat /\ MaxRun \in Nat /\ MaxEvents \in Nat

\* No run goes on for two hours: downloading and writing a list have limits of
\* minutes (priceUpdates.fetch.ts, priceUpdates.service.ts).
ASSUME RunAssumption == MaxRun <= 1

VARIABLES
    job,       \* the job this behaviour is about
    hour,      \* the hour of the day
    up,        \* the process runs
    starting,  \* its catch-up has not been done
    timer,     \* hours until the daily timer of each hour fires
    ran,       \* age of the newest run by link in the journal
    fresh,     \* suppliers whose newest run by link has succeeded
    busy,      \* who holds the lock of a supplier, and for how long
    queue,     \* the tasks that wait for one another
    retries,   \* the timers of tasks to be tried again, with the hours left
    rates,     \* the rates of today: of a currency, from a source
    excused,   \* suppliers a run of whom left no trace, or whose turn was not read
    spent      \* failures, restarts, clock changes and calls so far

process == <<job, hour, up, starting, timer, spent>>
feeds == <<ran, fresh, busy, queue, excused>>
vars == <<job, hour, up, starting, timer, ran, fresh, busy, queue, retries, rates,
          excused, spent>>

\* An age past which nothing is told apart.
Long == DayHours + 2

Older(age) == IF age < Long THEN age + 1 ELSE Long

Nobody == [by |-> "nobody", age |-> 0]

Spend == spent < MaxEvents /\ spent' = spent + 1

\* A task of the job, tried for the n-th time. The rates are of no supplier.
Task(s, n) == [supplier |-> s, attempt |-> n]

-----------------------------------------------------------------------------
\* The hours something is due at; the other timers do nothing.
TimerHours == IF job = "feeds" THEN {HourOf[s] : s \in Suppliers} ELSE {NbuHour}

\* msUntilDaily: never none
HoursUntil(now, h) == IF h = now THEN DayHours ELSE (h - now) % DayHours

Planned(now) == [h \in TimerHours |-> HoursUntil(now, h)]

\* scheduleDaily: when the task has been run, however it ended, the next one
\* is planned by the clock
Replan(h) == timer' = [timer EXCEPT ![h] = HoursUntil(hour, h)]

\* Timers whose moment has come fire before the hour passes.
Settled ==
    /\ ~starting
    /\ \A h \in DOMAIN timer : timer[h] > 0
    /\ \A i \in DOMAIN retries : retries[i].left > 0

\* An hour passes; on the night of a clock change the clock shows the same
\* hour again, or one more.
Tick ==
    /\ up => Settled
    /\ Len(queue) <= MaxQueue /\ \A s \in Suppliers : busy[s].age < MaxRun
    /\ \E shift \in {-1, 0, 1} :
        /\ hour' = (hour + 1 + shift) % DayHours
        /\ IF shift = 0 THEN UNCHANGED spent ELSE Spend
    /\ timer' = [h \in DOMAIN timer |-> timer[h] - 1]
    /\ retries' = [i \in DOMAIN retries |-> [retries[i] EXCEPT !.left = @ - 1]]
    /\ ran' = [s \in Suppliers |-> Older(ran[s])]
    /\ busy' = [s \in Suppliers |->
                    IF busy[s] = Nobody THEN Nobody ELSE [busy[s] EXCEPT !.age = @ + 1]]
    /\ rates' = IF hour' < hour THEN {} ELSE rates
    /\ UNCHANGED <<job, up, starting, fresh, queue, excused>>

\* The process ends, and with it all it keeps in memory.
Stop ==
    /\ up /\ Spend
    /\ up' = FALSE /\ starting' = FALSE
    /\ timer' = <<>> /\ queue' = <<>> /\ retries' = <<>>
    /\ busy' = [s \in Suppliers |-> Nobody]
    /\ UNCHANGED <<job, hour, ran, fresh, rates, excused>>

\* startJobs, when the process starts
StartUp ==
    /\ ~up
    /\ up' = TRUE /\ starting' = TRUE
    /\ timer' = Planned(hour)
    /\ UNCHANGED <<job, hour, ran, fresh, busy, queue, retries, rates, excused, spent>>

-----------------------------------------------------------------------------
(* Price lists by link *)

Enqueue(tasks) == queue' = queue \o tasks

\* The first tries of the given suppliers, in their order
EnqueueAll(S) ==
    \E n \in 0..Len(Feeds) : \E at \in [1..n -> 1..Len(Feeds)] :
        /\ \A i, j \in 1..n : i < j => at[i] < at[j]
        /\ S = {Feeds[at[i]] : i \in 1..n}
        /\ Enqueue([i \in 1..n |-> Task(Feeds[at[i]], 1)])

-----------------------------------------------------------------------------
\* runDueFeeds
DueFeeds(h) ==
    /\ job = "feeds" /\ up /\ h \in DOMAIN timer /\ timer[h] = 0
    /\ EnqueueAll({s \in Suppliers : HourOf[s] = h})
    /\ Replan(h)
    /\ UNCHANGED <<job, hour, up, starting, ran, fresh, busy, retries, rates, excused, spent>>

\* Mutant: the next run is planned only when this one has gone well.
DueFeedsUnreadStops(h) ==
    /\ job = "feeds" /\ up /\ h \in DOMAIN timer /\ timer[h] = 0 /\ Spend
    /\ excused' = excused \cup {s \in Suppliers : HourOf[s] = h}
    /\ timer' = [g \in DOMAIN timer \ {h} |-> timer[g]]
    /\ UNCHANGED <<job, hour, up, starting, ran, fresh, busy, queue, retries, rates>>

\* its catch: the schedule could not be read
DueFeedsUnread(h) ==
    /\ job = "feeds" /\ up /\ h \in DOMAIN timer /\ timer[h] = 0 /\ Spend
    /\ excused' = excused \cup {s \in Suppliers : HourOf[s] = h}
    /\ Replan(h)
    /\ UNCHANGED <<job, hour, up, starting, ran, fresh, busy, queue, retries, rates>>

\* lastScheduledAt: how long ago the hour of a supplier was, by the clock
ScheduledAge(s) == DayHours - HoursUntil(hour, HourOf[s])

\* Mutant: only a supplier that has never been updated is caught up.
MissedIfNever(s) == ran[s] = Long

Missed(s) == ran[s] > ScheduledAge(s)

\* catchUpOnStart: the suppliers one by one; a failure ends it with those
\* looked at so far
CatchUpFeeds ==
    /\ job = "feeds" /\ up /\ starting
    /\ \E n \in 0..Len(Feeds) :
        LET seen == {Feeds[i] : i \in 1..n} IN
        /\ EnqueueAll({s \in seen : Missed(s)})
        /\ IF n = Len(Feeds) THEN UNCHANGED spent ELSE Spend
        /\ excused' = excused \cup (Suppliers \ seen)
    /\ starting' = FALSE
    /\ UNCHANGED <<job, hour, up, timer, ran, fresh, busy, retries, rates>>

\* A timer of runWithRetries fires.
RetryFeed(i) ==
    /\ job = "feeds" /\ i \in DOMAIN retries /\ retries[i].left = 0
    /\ Enqueue(<<Task(retries[i].supplier, retries[i].attempt)>>)
    /\ retries' = RemoveAt(retries, i)
    /\ UNCHANGED <<process, ran, fresh, busy, rates, excused>>

-----------------------------------------------------------------------------
Current == Head(queue)

Running == queue # <<>> /\ busy[Current.supplier].by = "schedule"

\* willRetry
WillRetry(t) == t.attempt <= MaxRetries

\* The catch of runWithRetries; the next task of the queue may start.
AfterFailure(t) ==
    /\ queue' = Tail(queue)
    /\ retries' = IF WillRetry(t)
                  THEN Append(retries, [supplier |-> t.supplier,
                                        attempt |-> t.attempt + 1, left |-> 1])
                  ELSE retries

\* The journal's row of a run carries the moment the run started.
Journal(s, ok) ==
    /\ ran' = [ran EXCEPT ![s] = busy[s].age]
    /\ fresh' = IF ok THEN fresh \cup {s} ELSE fresh \ {s}
    /\ excused' = excused \ {s}

NoJournal == UNCHANGED <<ran, fresh>>

Free(s) == busy' = [busy EXCEPT ![s] = Nobody]

\* withSupplierLock lets the head of the queue start ...
StartRun ==
    /\ queue # <<>> /\ busy[Current.supplier].by = "nobody"
    /\ busy' = [busy EXCEPT ![Current.supplier] = [by |-> "schedule", age |-> 0]]
    /\ UNCHANGED <<process, ran, fresh, queue, retries, rates, excused>>

\* ... or refuses it while a user's update is going on. Nothing is written.
RefuseRun ==
    /\ queue # <<>> /\ busy[Current.supplier].by = "user"
    /\ AfterFailure(Current)
    /\ excused' = excused \cup {Current.supplier}
    /\ NoJournal
    /\ UNCHANGED <<process, busy, rates>>

RunSucceeds ==
    /\ Running
    /\ Journal(Current.supplier, TRUE) /\ Free(Current.supplier)
    /\ queue' = Tail(queue)
    /\ UNCHANGED <<process, retries, rates>>

\* recordFailure
RunFails ==
    /\ Running /\ Spend
    /\ Journal(Current.supplier, FALSE) /\ Free(Current.supplier)
    /\ AfterFailure(Current)
    /\ UNCHANGED <<job, hour, up, starting, timer, rates>>

\* recordFailure's own catch: the failure is not recorded either
RunFailsUnrecorded ==
    /\ Running /\ Spend
    /\ NoJournal /\ Free(Current.supplier)
    /\ excused' = excused \cup {Current.supplier}
    /\ AfterFailure(Current)
    /\ UNCHANGED <<job, hour, up, starting, timer, rates>>

-----------------------------------------------------------------------------
\* An update a user asks for: by link, from a file, or a trial.
StartByUser(s) ==
    /\ job = "feeds" /\ up /\ busy[s].by = "nobody" /\ Spend
    /\ busy' = [busy EXCEPT ![s] = [by |-> "user", age |-> 0]]
    /\ UNCHANGED <<job, hour, up, starting, timer, ran, fresh, queue, retries, rates, excused>>

LinkByUserEnds(s, ok) ==
    /\ busy[s].by = "user"
    /\ Journal(s, ok) /\ Free(s)
    /\ UNCHANGED <<process, queue, retries, rates>>

\* a file or a trial: no run by link
OtherByUserEnds(s) ==
    /\ busy[s].by = "user"
    /\ Free(s)
    /\ UNCHANGED <<process, ran, fresh, queue, retries, rates, excused>>

ByUserEnds(s) == OtherByUserEnds(s) \/ \E ok \in BOOLEAN : LinkByUserEnds(s, ok)

\* What the head of the queue does next
RunStep == StartRun \/ RefuseRun \/ RunSucceeds \/ RunFails \/ RunFailsUnrecorded

FeedsDue == \E h \in 0..DayHours-1 : DueFeeds(h) \/ DueFeedsUnread(h)

FeedStep ==
    \/ CatchUpFeeds \/ RunStep \/ FeedsDue
    \/ \E i \in 1..Len(retries) : RetryFeed(i)
    \/ \E s \in Suppliers : StartByUser(s) \/ ByUserEnds(s)

=============================================================================
