------------------------------ MODULE JobProofs ------------------------------
(***************************************************************************)
(* No day goes by without a run of a supplier's price list, for any        *)
(* suppliers, hours and days.                                              *)
(*                                                                         *)
(* The argument: what is counted is the age of the newest run and the time *)
(* to the next turn together. That sum stays as it is while time passes; a *)
(* turn that comes puts the supplier in the queue, and whatever takes it   *)
(* from there writes a run of a new age, or excuses it. When the process   *)
(* starts, what the clock says is compared with that age for the suppliers *)
(* one by one. A run that goes on while its supplier's turn comes again,   *)
(* and one of a user that makes the turn's own run wait, are at most an    *)
(* hour old.                                                               *)
(***************************************************************************)
EXTENDS DailyJobs, TLAPS, SequenceTheorems

Tasks   == [supplier : Suppliers, attempt : Nat]
Retries == [supplier : Suppliers, attempt : Nat, left : Nat]
Holders == [by : {"nobody", "user", "schedule"}, age : Nat]

\* What is done at an age is at most a day old when the next turn comes.
Near(age, s) == age + timer[HourOf[s]] <= DayHours + 1

Queued(s)   == \E i \in 1..Len(queue) : queue[i].supplier = s
Retried(s)  == \E i \in 1..Len(retries) : retries[i].supplier = s
Waiting(s)  == Queued(s) \/ Retried(s)

JobTyped ==
    /\ hour \in 0..DayHours-1 /\ up \in BOOLEAN /\ starting \in BOOLEAN
    /\ ran \in [Suppliers -> Nat] /\ busy \in [Suppliers -> Holders]
    /\ \A s \in Suppliers : busy[s].age <= MaxRun
    /\ queue \in Seq(Tasks) /\ retries \in Seq(Retries)

\* What is in memory
MemoryInv ==
    /\ up => timer \in [TimerHours -> 0..DayHours]
    /\ up /\ starting => timer = Planned(hour)
    /\ ~up => ~starting /\ queue = <<>> /\ retries = <<>>
              /\ \A s \in Suppliers : busy[s] = Nobody

\* TriedDaily, at any moment
TriedInv ==
    up /\ ~starting =>
        \A s \in Suppliers : Near(ran[s], s) \/ Waiting(s) \/ s \in excused

FeedInv == JobTyped /\ MemoryInv /\ TriedInv

JobInv == job = "feeds" => FeedInv

-----------------------------------------------------------------------------
(* The clock                                                               *)

\* An hour is itself modulo the hours of a day, and one before midnight is the
\* day after.
LEMMA SmallRemainder ==
    ASSUME NEW d \in Nat, NEW x \in Int, x >= 0, x < d
    PROVE  x % d = x
OBVIOUS

LEMMA BelowRemainder ==
    ASSUME NEW d \in Nat, NEW x \in Int, x < 0, x + d >= 0
    PROVE  x % d = x + d
OBVIOUS

LEMMA UntilTyped ==
    ASSUME NEW now \in 0..DayHours-1, NEW h \in 0..DayHours-1
    PROVE  HoursUntil(now, h) \in 0..DayHours
<1>1. DayHours \in Nat /\ DayHours > 0
  BY JobAssumption
<1>2. (h - now) % DayHours \in 0..DayHours-1
  BY <1>1
<1> QED BY <1>1, <1>2 DEF HoursUntil

LEMMA HourTyped ==
    ASSUME NEW s \in Suppliers
    PROVE  HourOf[s] \in 0..DayHours-1 /\ (job = "feeds" => HourOf[s] \in TimerHours)
BY JobAssumption DEF TimerHours

LEMMA TimerHoursTyped == ASSUME job = "feeds" PROVE TimerHours \subseteq 0..DayHours-1
BY HourTyped DEF TimerHours

LEMMA PlannedTyped ==
    ASSUME job = "feeds", hour \in 0..DayHours-1
    PROVE  Planned(hour) \in [TimerHours -> 0..DayHours]
BY TimerHoursTyped, UntilTyped DEF Planned

\* What began within the last hour is near.
LEMMA RecentIsNear ==
    ASSUME FeedInv, job = "feeds", up, NEW s \in Suppliers, NEW age \in 0..1
    PROVE  Near(age, s)
<1>1. timer[HourOf[s]] \in 0..DayHours
  BY HourTyped DEF FeedInv, MemoryInv
<1> QED BY <1>1, JobAssumption DEF Near

LEMMA OlderByAnHour ==
    ASSUME NEW age \in Nat
    PROVE  Older(age) \in Nat /\ Older(age) <= age + 1
<1>1. Long \in Nat
  BY JobAssumption DEF Long
<1>2. CASE age < Long
  BY <1>1, <1>2 DEF Older
<1>3. CASE age >= Long
  BY <1>1, <1>3 DEF Older
<1> QED BY <1>1, <1>2, <1>3

-----------------------------------------------------------------------------
(* Queues                                                                  *)

LEMMA Appended ==
    ASSUME NEW T, NEW q \in Seq(T), NEW r \in Seq(T)
    PROVE  /\ q \o r \in Seq(T)
           /\ \A i \in 1..Len(q) : i \in 1..Len(q \o r) /\ (q \o r)[i] = q[i]
           /\ \A i \in 1..Len(r) : Len(q) + i \in 1..Len(q \o r) /\ (q \o r)[Len(q) + i] = r[i]
<1>1. Len(q) \in Nat /\ Len(r) \in Nat /\ Len(q \o r) = Len(q) + Len(r)
  BY ConcatProperties, LenProperties
<1> QED BY <1>1, ConcatProperties

LEMMA TailOf ==
    ASSUME NEW T, NEW q \in Seq(T), q # <<>>
    PROVE  /\ Tail(q) \in Seq(T) /\ q[1] \in T
           /\ \A i \in 2..Len(q) : i - 1 \in 1..Len(Tail(q)) /\ Tail(q)[i - 1] = q[i]
<1>1. /\ Tail(q) \in Seq(T) /\ Len(Tail(q)) = Len(q) - 1 /\ Len(q) \in Nat \ {0}
      /\ Head(q) \in T /\ Head(q) = q[1]
  BY HeadTailProperties, LenProperties, EmptySeq
<1>2. \A j \in 1..Len(Tail(q)) : Tail(q)[j] = q[j + 1]
  BY <1>1, HeadTailProperties
<1>3. ASSUME NEW i \in 2..Len(q) PROVE i - 1 \in 1..Len(Tail(q)) /\ Tail(q)[i - 1] = q[i]
  <2>1. i - 1 \in 1..Len(Tail(q)) /\ (i - 1) + 1 = i
    BY <1>1
  <2> QED BY <1>2, <2>1
<1> QED BY <1>1, <1>3

LEMMA RemovedAt ==
    ASSUME NEW T, NEW q \in Seq(T), NEW i \in 1..Len(q)
    PROVE  /\ RemoveAt(q, i) \in Seq(T)
           /\ \A j \in 1..Len(q) : j # i =>
                \E k \in 1..Len(RemoveAt(q, i)) : RemoveAt(q, i)[k] = q[j]
<1> DEFINE a == SubSeq(q, 1, i - 1)
           b == SubSeq(q, i + 1, Len(q))
<1>1. Len(q) \in Nat
  BY LenProperties
<1>2. /\ a \in Seq(T) /\ Len(a) = i - 1 /\ \A j \in 1..i-1 : a[j] = q[j]
  <2>1. \A k \in 1..i-1 : k \in 1..Len(q)
    BY <1>1
  <2>2. /\ 1 \in 1..Len(q)+1 /\ i - 1 \in 0..Len(q)
    BY <1>1
  <2> QED BY <1>1, <2>1, <2>2, SubSeqProperties
<1>3. /\ b \in Seq(T) /\ Len(b) = Len(q) - i /\ \A j \in 1..Len(q)-i : b[j] = q[i + j]
  <2>1. i + 1 \in 1..Len(q)+1 /\ Len(q) \in i..Len(q)
    BY <1>1
  <2> QED BY <1>1, <2>1, SubSeqProperties
<1> HIDE DEF a, b
<1>4. /\ a \o b \in Seq(T)
      /\ \A j \in 1..Len(a) : j \in 1..Len(a \o b) /\ (a \o b)[j] = a[j]
      /\ \A j \in 1..Len(b) : Len(a) + j \in 1..Len(a \o b) /\ (a \o b)[Len(a) + j] = b[j]
  <2>1. a \in Seq(T) /\ b \in Seq(T)
    BY <1>2, <1>3
  <2> HIDE <1>2, <1>3
  <2> QED BY <2>1, Appended
<1>5. ASSUME NEW j \in 1..Len(q), j # i
      PROVE  \E k \in 1..Len(a \o b) : (a \o b)[k] = q[j]
  <2>1. CASE j < i
    <3>1. j \in 1..i-1 /\ j \in 1..Len(a)
      BY <1>1, <1>2, <2>1
    <3> QED BY <1>2, <1>4, <3>1
  <2>2. CASE j > i
    <3>1. j - i \in 1..Len(q)-i /\ j - i \in 1..Len(b) /\ i + (j - i) = j
      BY <1>1, <1>3, <2>2
    <3>2. b[j - i] = q[j]
      BY <1>3, <3>1
    <3> QED BY <1>4, <3>1, <3>2
  <2> QED BY <1>1, <1>5, <2>1, <2>2
<1>6. RemoveAt(q, i) = a \o b
  BY DEF RemoveAt, a, b
<1> QED BY <1>4, <1>5, <1>6

LEMMA TasksEnqueued ==
    ASSUME JobTyped, NEW S \in SUBSET Suppliers, EnqueueAll(S)
    PROVE  /\ queue' \in Seq(Tasks)
           /\ \A s \in Suppliers : Queued(s) \/ s \in S => Queued(s)'
<1>1. PICK n \in 0..Len(Feeds) : \E at \in [1..n -> 1..Len(Feeds)] :
        /\ S = {Feeds[at[i]] : i \in 1..n}
        /\ Enqueue([i \in 1..n |-> Task(Feeds[at[i]], 1)])
  BY DEF EnqueueAll
<1>2. PICK at \in [1..n -> 1..Len(Feeds)] :
        /\ S = {Feeds[at[i]] : i \in 1..n}
        /\ Enqueue([i \in 1..n |-> Task(Feeds[at[i]], 1)])
  BY <1>1
<1> DEFINE tasks == [i \in 1..n |-> Task(Feeds[at[i]], 1)]
<1>3. Len(Feeds) \in Nat /\ n \in Nat
  BY JobAssumption, LenProperties
<1>4. ASSUME NEW i \in 1..n PROVE Task(Feeds[at[i]], 1) \in Tasks /\ Feeds[at[i]] \in S
  BY <1>2 DEF Task, Tasks
<1>5. tasks \in [1..n -> Tasks] /\ \A i \in 1..n : tasks[i] = Task(Feeds[at[i]], 1)
  BY <1>4
<1> HIDE DEF tasks
<1>6. tasks \in Seq(Tasks) /\ Len(tasks) = n
  BY <1>3, <1>5, SeqDef, LenProperties
<1>7. queue' = queue \o tasks
  BY <1>2 DEF Enqueue, tasks
<1>8. queue \in Seq(Tasks)
  BY DEF JobTyped
<1>9. /\ queue' \in Seq(Tasks)
      /\ \A i \in 1..Len(queue) : i \in 1..Len(queue') /\ queue'[i] = queue[i]
      /\ \A i \in 1..n : Len(queue) + i \in 1..Len(queue') /\ queue'[Len(queue) + i] = tasks[i]
  BY <1>6, <1>7, <1>8, Appended
<1>10. ASSUME NEW s \in Suppliers, Queued(s) PROVE Queued(s)'
  BY <1>9, <1>10 DEF Queued
<1>11. ASSUME NEW s \in S PROVE Queued(s)'
  <2>1. PICK i \in 1..n : Feeds[at[i]] = s
    BY <1>2
  <2>2. queue'[Len(queue) + i].supplier = s /\ Len(queue) + i \in 1..Len(queue')
    BY <1>5, <1>9, <2>1 DEF Task
  <2> QED BY <2>2 DEF Queued
<1> QED BY <1>9, <1>10, <1>11

-----------------------------------------------------------------------------
(* Steps                                                                   *)

\* The process and its timers are as they were, and what was tried still is.
LEMMA KeepStep ==
    ASSUME FeedInv, JobTyped', UNCHANGED <<hour, up, starting, timer>>, job = "feeds", job' = job,
           up \/ UNCHANGED <<queue, retries, busy>>,
           \A s \in Suppliers : Near(ran[s], s) \/ Waiting(s) \/ s \in excused
                                  => Near(ran'[s], s) \/ Waiting(s)' \/ s \in excused'
    PROVE  FeedInv'
<1>1. MemoryInv'
  BY DEF FeedInv, MemoryInv, Planned, TimerHours
<1>2. TriedInv'
  BY DEF FeedInv, TriedInv, Near
<1> QED BY <1>1, <1>2 DEF FeedInv

LEMMA TickStep == ASSUME FeedInv, job = "feeds", Tick PROVE FeedInv'
<1>1. JobTyped'
  <2>1. hour' \in 0..DayHours-1
    <3>1. PICK shift \in {-1, 0, 1} : hour' = (hour + 1 + shift) % DayHours
      BY DEF Tick
    <3>2. hour + 1 + shift \in Int /\ DayHours \in Nat /\ DayHours > 0
      BY JobAssumption DEF FeedInv, JobTyped
    <3>3. (hour + 1 + shift) % DayHours \in 0..DayHours-1
      BY <3>2
    <3> QED BY <3>1, <3>3
  <2>2. ran' \in [Suppliers -> Nat]
    <3>1. \A s \in Suppliers : ran[s] \in Nat
      BY DEF FeedInv, JobTyped
    <3> QED BY <3>1, OlderByAnHour DEF Tick
  <2>3. ASSUME NEW s \in Suppliers PROVE busy'[s] \in Holders /\ busy'[s].age <= MaxRun
    <3>1. /\ busy[s] \in Holders /\ busy[s].age < MaxRun /\ MaxRun \in Nat
      BY JobAssumption DEF Tick, FeedInv, JobTyped
    <3>2. busy'[s] = IF busy[s] = Nobody THEN Nobody ELSE [busy[s] EXCEPT !.age = busy[s].age + 1]
      BY DEF Tick
    <3>3. busy[s].age + 1 \in Nat /\ busy[s].age + 1 <= MaxRun
      BY <3>1 DEF Holders
    <3> QED BY <3>1, <3>2, <3>3 DEF Holders, Nobody
  <2>4. busy' \in [Suppliers -> Holders]
    BY <2>3 DEF Tick
  <2>5. retries' \in Seq(Retries)
    <3>1. CASE ~up
      <4>1. retries = <<>>
        BY <3>1 DEF FeedInv, MemoryInv
      <4>2. retries' = <<>>
        BY <4>1 DEF Tick
      <4> QED BY <4>2
    <3>2. CASE up
      <4> DEFINE n == Len(retries)
      <4>1. n \in Nat /\ retries \in [1..n -> Retries] /\ DOMAIN retries = 1..n
        BY LenProperties DEF FeedInv, JobTyped
      <4>2. \A i \in 1..n : retries[i].left > 0
        BY <3>2, <4>1 DEF Tick, Settled
      <4>3. retries' = [i \in 1..n |-> [retries[i] EXCEPT !.left = retries[i].left - 1]]
        BY <4>1 DEF Tick
      <4>4. ASSUME NEW i \in 1..n
            PROVE  [retries[i] EXCEPT !.left = retries[i].left - 1] \in Retries
        <5>1. retries[i] \in Retries /\ retries[i].left - 1 \in Nat
          BY <4>1, <4>2 DEF Retries
        <5> QED BY <5>1 DEF Retries
      <4> HIDE DEF n
      <4>5. retries' \in [1..n -> Retries]
        BY <4>3, <4>4
      <4> QED BY <4>1, <4>5, SeqDef
    <3> QED BY <3>1, <3>2
  <2> QED BY <2>1, <2>2, <2>3, <2>4, <2>5 DEF Tick, FeedInv, JobTyped
<1>2. UNCHANGED <<job, up, starting, queue, excused>>
  BY DEF Tick
<1>3. CASE ~up
  <2>1. /\ retries = <<>> /\ \A s \in Suppliers : busy[s] = Nobody
        /\ queue = <<>> /\ ~starting
    BY <1>3 DEF FeedInv, MemoryInv
  <2>2. retries' = <<>> /\ \A s \in Suppliers : busy'[s] = Nobody
    BY <2>1 DEF Tick
  <2> QED BY <1>1, <1>2, <1>3, <2>1, <2>2 DEF FeedInv, MemoryInv, TriedInv
<1>4. CASE up
  <2>1. ~starting /\ \A h \in DOMAIN timer : timer[h] > 0
    BY <1>4 DEF Tick, Settled
  <2>2. timer \in [TimerHours -> 0..DayHours] /\ TimerHours' = TimerHours
    BY <1>2, <1>4 DEF FeedInv, MemoryInv, TimerHours
  <2>3. timer' = [h \in TimerHours |-> timer[h] - 1]
    BY <2>2 DEF Tick
  <2>4. \A h \in TimerHours : timer[h] - 1 \in 0..DayHours
    BY <2>1, <2>2, JobAssumption
  <2>5. timer' \in [TimerHours' -> 0..DayHours]
    BY <2>2, <2>3, <2>4
  <2>6. MemoryInv'
    BY <1>2, <1>4, <2>1, <2>5 DEF MemoryInv
  <2>7. ASSUME NEW s \in Suppliers, Near(ran[s], s) PROVE Near(ran[s], s)'
    <3>1. /\ timer'[HourOf[s]] = timer[HourOf[s]] - 1 /\ timer[HourOf[s]] \in 0..DayHours
      BY <2>2, <2>3, HourTyped
    <3>2. ran[s] \in Nat /\ ran'[s] \in Nat /\ ran'[s] <= ran[s] + 1
      <4>1. ran[s] \in Nat /\ ran'[s] = Older(ran[s])
        BY DEF Tick, FeedInv, JobTyped
      <4> QED BY <4>1, OlderByAnHour
    <3>3. ran[s] + timer[HourOf[s]] <= DayHours + 1 /\ DayHours \in Nat
      BY <2>7, JobAssumption DEF Near
    <3>4. ran'[s] + timer'[HourOf[s]] <= DayHours + 1
      BY <3>1, <3>2, <3>3
    <3> QED BY <3>4 DEF Near
  <2>8. ASSUME NEW s \in Suppliers, Waiting(s) PROVE Waiting(s)'
    <3>1. CASE Queued(s)
      BY <1>2, <3>1 DEF Queued, Waiting
    <3>2. CASE Retried(s)
      <4>1. PICK i \in 1..Len(retries) : retries[i].supplier = s
        BY <3>2 DEF Retried
      <4>2. /\ Len(retries) \in Nat /\ DOMAIN retries = 1..Len(retries)
            /\ retries[i] \in Retries
        BY <4>1, LenProperties, ElementOfSeq DEF FeedInv, JobTyped
      <4>3. retries' = [k \in 1..Len(retries) |-> [retries[k] EXCEPT !.left = @ - 1]]
        BY <4>2 DEF Tick
      <4>4. Len(retries') = Len(retries)
        BY <1>1, <4>2, <4>3, LenProperties DEF JobTyped
      <4>5. retries'[i] = [retries[i] EXCEPT !.left = @ - 1]
        BY <4>1, <4>3
      <4>6. retries'[i].supplier = s
        BY <4>1, <4>2, <4>5 DEF Retries
      <4> QED BY <4>1, <4>4, <4>6 DEF Retried, Waiting
    <3> QED BY <2>8, <3>1, <3>2 DEF Waiting
  <2>9. TriedInv'
    BY <1>2, <1>4, <2>1, <2>7, <2>8 DEF FeedInv, TriedInv, Near
  <2> QED BY <1>1, <2>6, <2>9 DEF FeedInv
<1> QED BY <1>3, <1>4

LEMMA StopStep == ASSUME FeedInv, job = "feeds", Stop PROVE FeedInv'
<1>1. \A s \in Suppliers : busy'[s] = Nobody /\ Nobody \in Holders /\ Nobody.age <= MaxRun
  BY JobAssumption DEF Stop, Nobody, Holders
<1>2. busy' \in [Suppliers -> Holders]
  BY <1>1 DEF Stop
<1>3. queue' = <<>> /\ retries' = <<>> /\ up' = FALSE /\ starting' = FALSE /\ UNCHANGED <<hour, ran>>
  BY DEF Stop
<1>4. JobTyped'
  <2>1. queue' \in Seq(Tasks) /\ retries' \in Seq(Retries)
    BY <1>3, EmptySeq
  <2> QED BY <1>1, <1>2, <1>3, <2>1 DEF FeedInv, JobTyped
<1> QED BY <1>1, <1>3, <1>4 DEF FeedInv, MemoryInv, TriedInv

LEMMA StartUpStep == ASSUME FeedInv, job = "feeds", StartUp PROVE FeedInv'
<1>1. /\ up' = TRUE /\ starting' = TRUE /\ timer' = Planned(hour)
      /\ UNCHANGED <<job, hour, ran, busy, queue, retries>>
  BY DEF StartUp
<1>2. JobTyped'
  BY <1>1 DEF FeedInv, JobTyped
<1>3. Planned(hour)' = Planned(hour) /\ TimerHours' = TimerHours
  BY <1>1 DEF Planned, TimerHours
<1>4. Planned(hour) \in [TimerHours -> 0..DayHours]
  BY PlannedTyped DEF FeedInv, JobTyped
<1> QED BY <1>1, <1>2, <1>3, <1>4 DEF FeedInv, MemoryInv, TriedInv

\* A turn has come, read or not: the timer is planned anew.
LEMMA ReplannedTyped ==
    ASSUME FeedInv, job = "feeds", up, NEW h \in DOMAIN timer, Replan(h), ~starting
    PROVE  /\ timer' \in [TimerHours -> 0..DayHours]
           /\ \A s \in Suppliers : HourOf[s] # h => timer'[HourOf[s]] = timer[HourOf[s]]
<1>1. timer \in [TimerHours -> 0..DayHours] /\ h \in TimerHours
  BY DEF FeedInv, MemoryInv
<1>2. timer' = [timer EXCEPT ![h] = HoursUntil(hour, h)]
  BY DEF Replan
<1>3. HoursUntil(hour, h) \in 0..DayHours
  BY <1>1, TimerHoursTyped, UntilTyped DEF FeedInv, JobTyped
<1> QED BY <1>1, <1>2, <1>3, HourTyped

\* While starting no timer fires.
LEMMA NoneDueAtStart ==
    ASSUME FeedInv, job = "feeds", up, NEW h \in DOMAIN timer, timer[h] = 0
    PROVE  ~starting
<1> SUFFICES ASSUME starting PROVE FALSE
  OBVIOUS
<1>1. timer = Planned(hour) /\ timer \in [TimerHours -> 0..DayHours]
  BY DEF FeedInv, MemoryInv
<1>2. h \in 0..DayHours-1 /\ hour \in 0..DayHours-1 /\ timer[h] = HoursUntil(hour, h)
  BY <1>1, TimerHoursTyped DEF Planned, FeedInv, JobTyped
<1>3. CASE h = hour
  BY <1>2, <1>3, JobAssumption DEF HoursUntil
<1>4. CASE h > hour
  <2>1. DayHours \in Nat /\ h - hour \in Int /\ h - hour > 0 /\ h - hour < DayHours
    BY <1>2, <1>4, JobAssumption
  <2>2. (h - hour) % DayHours = h - hour
    BY <2>1, SmallRemainder
  <2> QED BY <1>2, <1>4, <2>1, <2>2 DEF HoursUntil
<1>5. CASE h < hour
  <2>1. /\ DayHours \in Nat /\ h - hour \in Int
        /\ h - hour < 0 /\ h - hour + DayHours > 0
    BY <1>2, <1>5, JobAssumption
  <2>2. (h - hour) % DayHours = h - hour + DayHours
    BY <2>1, BelowRemainder
  <2> QED BY <1>2, <1>5, <2>1, <2>2 DEF HoursUntil
<1> QED BY <1>2, <1>3, <1>4, <1>5

LEMMA DueStep ==
    ASSUME FeedInv, job = "feeds", NEW h, DueFeeds(h) \/ DueFeedsUnread(h)
    PROVE  FeedInv'
<1> DEFINE due == {s \in Suppliers : HourOf[s] = h}
<1>1. /\ up /\ h \in DOMAIN timer /\ timer[h] = 0 /\ Replan(h)
      /\ UNCHANGED <<job, hour, up, starting, ran, busy, retries>>
      /\ \/ EnqueueAll(due) /\ excused' = excused
         \/ queue' = queue /\ excused' = excused \cup due
  BY DEF DueFeeds, DueFeedsUnread
<1>2. ~starting
  BY <1>1, NoneDueAtStart
<1>3. /\ timer' \in [TimerHours -> 0..DayHours]
      /\ \A s \in Suppliers : HourOf[s] # h => timer'[HourOf[s]] = timer[HourOf[s]]
  BY <1>1, <1>2, ReplannedTyped
<1>4. /\ queue' \in Seq(Tasks)
      /\ \A s \in Suppliers : /\ Queued(s) => Queued(s)'
                              /\ s \in due => Queued(s)' \/ s \in excused'
                              /\ s \in excused => s \in excused'
  <2>1. CASE EnqueueAll(due) /\ excused' = excused
    <3>1. JobTyped /\ due \in SUBSET Suppliers
      BY DEF FeedInv
    <3>2. /\ queue' \in Seq(Tasks)
          /\ \A s \in Suppliers : Queued(s) \/ s \in due => Queued(s)'
      BY <2>1, <3>1, TasksEnqueued
    <3> QED BY <2>1, <3>2
  <2>2. CASE queue' = queue /\ excused' = excused \cup due
    BY <2>2 DEF FeedInv, JobTyped, Queued
  <2> QED BY <1>1, <2>1, <2>2
<1>5. JobTyped'
  BY <1>1, <1>4 DEF FeedInv, JobTyped
<1>6. MemoryInv'
  BY <1>1, <1>2, <1>3 DEF MemoryInv, TimerHours
<1>7. ASSUME NEW s \in Suppliers PROVE Near(ran[s], s)' \/ Waiting(s)' \/ s \in excused'
  <2>1. Near(ran[s], s) \/ Waiting(s) \/ s \in excused
    BY <1>1, <1>2 DEF FeedInv, TriedInv
  <2>2. CASE s \in due
    BY <1>4, <2>2 DEF Waiting
  <2>3. CASE s \notin due
    <3>1. Near(ran[s], s) => Near(ran[s], s)'
      BY <1>1, <1>3, <2>3 DEF Near
    <3>2. Waiting(s) => Waiting(s)'
      BY <1>1, <1>4 DEF Waiting, Retried
    <3> QED BY <1>4, <2>1, <3>1, <3>2
  <2> QED BY <2>2, <2>3
<1> QED BY <1>5, <1>6, <1>7 DEF FeedInv, TriedInv, Near

\* A supplier that was not missed was updated since its hour by the clock.
LEMMA CatchUpStep == ASSUME FeedInv, job = "feeds", CatchUpFeeds PROVE FeedInv'
<1>1. PICK n \in 0..Len(Feeds) :
        LET seen == {Feeds[i] : i \in 1..n} IN
        /\ EnqueueAll({s \in seen : Missed(s)})
        /\ excused' = excused \cup (Suppliers \ seen)
  BY DEF CatchUpFeeds
<1> DEFINE seen == {Feeds[i] : i \in 1..n}
           missed == {s \in seen : Missed(s)}
<1>2. /\ EnqueueAll(missed) /\ excused' = excused \cup (Suppliers \ seen)
      /\ up /\ starting /\ starting' = FALSE
      /\ UNCHANGED <<job, hour, up, timer, ran, busy, retries>>
  BY <1>1 DEF CatchUpFeeds
<1>3. missed \in SUBSET Suppliers
  <2>1. Len(Feeds) \in Nat /\ DOMAIN Feeds = 1..Len(Feeds)
    BY JobAssumption, LenProperties
  <2>2. \A i \in 1..n : Feeds[i] \in Suppliers
    BY <2>1, JobAssumption, ElementOfSeq
  <2> QED BY <2>2
<1> HIDE DEF missed
<1>4. /\ queue' \in Seq(Tasks)
      /\ \A s \in Suppliers : Queued(s) \/ s \in missed => Queued(s)'
  BY <1>2, <1>3, TasksEnqueued DEF FeedInv
<1>5. JobTyped'
  BY <1>2, <1>4 DEF FeedInv, JobTyped
<1>6. MemoryInv'
  BY <1>2 DEF FeedInv, MemoryInv, TimerHours
<1>7. ASSUME NEW s \in Suppliers PROVE Near(ran[s], s)' \/ Waiting(s)' \/ s \in excused'
  <2>1. CASE s \notin seen
    BY <1>2, <2>1
  <2>2. CASE s \in missed
    BY <1>4, <2>2 DEF Waiting
  <2>3. CASE s \in seen /\ ~Missed(s)
    <3>1. /\ timer[HourOf[s]] = HoursUntil(hour, HourOf[s])
          /\ timer[HourOf[s]] \in 0..DayHours
      BY <1>2, HourTyped DEF FeedInv, MemoryInv, Planned
    <3>2. ran[s] <= DayHours - timer[HourOf[s]] /\ ran[s] \in Nat
      BY <2>3, <3>1, JobAssumption DEF Missed, ScheduledAge, FeedInv, JobTyped
    <3> QED BY <1>2, <3>1, <3>2, JobAssumption DEF Near
  <2> QED BY <2>1, <2>2, <2>3 DEF missed
<1> QED BY <1>5, <1>6, <1>7 DEF FeedInv, TriedInv, Near

LEMMA RetryFeedStep ==
    ASSUME FeedInv, job = "feeds", NEW i \in 1..Len(retries), RetryFeed(i)
    PROVE  FeedInv'
<1> DEFINE t == Task(retries[i].supplier, retries[i].attempt)
<1>1. /\ queue' = queue \o <<t>> /\ retries' = RemoveAt(retries, i)
      /\ UNCHANGED <<job, hour, up, starting, timer, ran, busy, excused>>
  BY DEF RetryFeed, Enqueue, process
<1>2. queue \in Seq(Tasks) /\ retries \in Seq(Retries) /\ retries[i] \in Retries
  BY ElementOfSeq DEF FeedInv, JobTyped
<1>3. t \in Tasks /\ t.supplier = retries[i].supplier
  BY <1>2 DEF Task, Tasks, Retries
<1> HIDE DEF t
<1>4. /\ queue' \in Seq(Tasks)
      /\ \A k \in 1..Len(queue) : k \in 1..Len(queue') /\ queue'[k] = queue[k]
      /\ Len(queue) + 1 \in 1..Len(queue') /\ queue'[Len(queue) + 1] = t
  <2>1. <<t>> \in Seq(Tasks) /\ Len(<<t>>) = 1 /\ <<t>>[1] = t
    BY <1>3
  <2>2. /\ queue \o <<t>> \in Seq(Tasks)
        /\ \A k \in 1..Len(queue) :
             k \in 1..Len(queue \o <<t>>) /\ (queue \o <<t>>)[k] = queue[k]
        /\ \A k \in 1..Len(<<t>>) : /\ Len(queue) + k \in 1..Len(queue \o <<t>>)
                                    /\ (queue \o <<t>>)[Len(queue) + k] = <<t>>[k]
    BY <1>2, <2>1, Appended
  <2> QED BY <1>1, <2>1, <2>2
<1>5. /\ retries' \in Seq(Retries)
      /\ \A j \in 1..Len(retries) : j # i =>
           \E k \in 1..Len(retries') : retries'[k] = retries[j]
  BY <1>1, <1>2, RemovedAt
<1>6. JobTyped'
  BY <1>1, <1>4, <1>5 DEF FeedInv, JobTyped
<1>7. up
  <2>1. retries # <<>>
    BY <1>2, EmptySeq
  <2> QED BY <2>1 DEF FeedInv, MemoryInv
<1>8. ASSUME NEW s \in Suppliers, Waiting(s) PROVE Waiting(s)'
  <2>1. CASE Queued(s)
    BY <1>4, <2>1 DEF Queued, Waiting
  <2>2. CASE Retried(s)
    <3>1. PICK j \in 1..Len(retries) : retries[j].supplier = s
      BY <2>2 DEF Retried
    <3>2. CASE j = i
      BY <1>3, <1>4, <3>1, <3>2 DEF Queued, Waiting
    <3>3. CASE j # i
      BY <1>5, <3>1, <3>3 DEF Retried, Waiting
    <3> QED BY <3>2, <3>3
  <2> QED BY <1>8, <2>1, <2>2 DEF Waiting
<1> QED BY <1>1, <1>6, <1>7, <1>8, KeepStep

\* The head of the queue is done with; it is tried again, or not.
LEMMA AfterFailureKeeps ==
    ASSUME FeedInv, queue # <<>>, AfterFailure(Current)
    PROVE  /\ queue' \in Seq(Tasks) /\ retries' \in Seq(Retries)
           /\ \A s \in Suppliers : s # Current.supplier /\ Waiting(s) => Waiting(s)'
<1> DEFINE r == [supplier |-> Current.supplier, attempt |-> Current.attempt + 1, left |-> 1]
<1>1. queue \in Seq(Tasks) /\ retries \in Seq(Retries)
  BY DEF FeedInv, JobTyped
<1>2. /\ Current = queue[1] /\ Tail(queue) \in Seq(Tasks) /\ queue[1] \in Tasks
      /\ \A i \in 2..Len(queue) :
           i - 1 \in 1..Len(Tail(queue)) /\ Tail(queue)[i - 1] = queue[i]
  <2>1. Head(queue) = queue[1]
    BY <1>1, HeadTailProperties
  <2> QED BY <1>1, <2>1, TailOf DEF Current
<1>3. r \in Retries
  BY <1>2 DEF Tasks, Retries
<1>4. queue' = Tail(queue) /\ (retries' = retries \/ retries' = Append(retries, r))
  BY DEF AfterFailure
<1> HIDE DEF r
<1>5. /\ retries' \in Seq(Retries)
      /\ \A i \in 1..Len(retries) : i \in 1..Len(retries') /\ retries'[i] = retries[i]
  <2>1. CASE retries' = Append(retries, r)
    BY <1>1, <1>3, <2>1, AppendProperties, LenProperties
  <2> QED BY <1>1, <1>4, <2>1
<1>6. ASSUME NEW s \in Suppliers, s # Current.supplier, Waiting(s) PROVE Waiting(s)'
  <2>1. CASE Queued(s)
    <3>1. PICK i \in 1..Len(queue) : queue[i].supplier = s
      BY <2>1 DEF Queued
    <3>2. Len(queue) \in Nat /\ i # 1
      BY <1>1, <1>2, <1>6, <3>1, LenProperties
    <3>3. i \in 2..Len(queue)
      BY <3>1, <3>2
    <3> QED BY <1>2, <1>4, <3>1, <3>3 DEF Queued, Waiting
  <2>2. CASE Retried(s)
    BY <1>5, <2>2 DEF Retried, Waiting
  <2> QED BY <1>6, <2>1, <2>2 DEF Waiting
<1> QED BY <1>2, <1>4, <1>5, <1>6

LEMMA CurrentTyped ==
    ASSUME FeedInv, queue # <<>>
    PROVE  Current \in Tasks /\ Current.supplier \in Suppliers /\ up
<1>1. Current \in Tasks
  BY HeadTailProperties DEF Current, FeedInv, JobTyped
<1> QED BY <1>1 DEF Tasks, FeedInv, MemoryInv

\* The run of a supplier is written with its age, which is not above an hour.
LEMMA JournalKeeps ==
    ASSUME FeedInv, job = "feeds", up, NEW s \in Suppliers, NEW ok, Journal(s, ok),
           UNCHANGED timer
    PROVE  /\ ran' \in [Suppliers -> Nat] /\ Near(ran'[s], s)
           /\ \A o \in Suppliers : o # s => ran'[o] = ran[o] /\ (o \in excused => o \in excused')
<1>1. /\ ran \in [Suppliers -> Nat] /\ busy[s] \in Holders /\ busy[s].age <= MaxRun
  BY DEF FeedInv, JobTyped
<1>2. busy[s].age \in 0..1
  BY <1>1, JobAssumption, RunAssumption DEF Holders
<1>3. ran' = [ran EXCEPT ![s] = busy[s].age] /\ excused' = excused \ {s}
  BY DEF Journal
<1>4. Near(busy[s].age, s)
  BY <1>2, RecentIsNear
<1> QED BY <1>1, <1>2, <1>3, <1>4

LEMMA BusyTyped ==
    ASSUME FeedInv, NEW s \in Suppliers, NEW b \in {"nobody", "user", "schedule"},
           busy' = [busy EXCEPT ![s] = [by |-> b, age |-> 0]]
    PROVE  /\ busy' \in [Suppliers -> Holders]
           /\ \A o \in Suppliers : busy'[o].age <= MaxRun
<1>1. [by |-> b, age |-> 0] \in Holders /\ 0 <= MaxRun /\ [by |-> b, age |-> 0].age = 0
  BY JobAssumption DEF Holders
<1>2. busy \in [Suppliers -> Holders] /\ \A o \in Suppliers : busy[o].age <= MaxRun
  BY DEF FeedInv, JobTyped
<1> QED BY <1>1, <1>2

LEMMA FreeTyped ==
    ASSUME FeedInv, NEW s \in Suppliers, Free(s)
    PROVE  /\ busy' \in [Suppliers -> Holders]
           /\ \A o \in Suppliers : busy'[o].age <= MaxRun
BY BusyTyped DEF Free, Nobody

LEMMA StartRunStep == ASSUME FeedInv, job = "feeds", StartRun PROVE FeedInv'
<1>1. /\ queue # <<>> /\ busy' = [busy EXCEPT ![Current.supplier] = [by |-> "schedule", age |-> 0]]
      /\ UNCHANGED <<job, hour, up, starting, timer, ran, queue, retries, excused>>
  BY DEF StartRun, process
<1>2. Current.supplier \in Suppliers /\ up
  BY <1>1, CurrentTyped
<1>3. JobTyped'
  BY <1>1, <1>2, BusyTyped DEF FeedInv, JobTyped
<1>4. \A s \in Suppliers : Waiting(s)' = Waiting(s)
  BY <1>1 DEF Waiting, Queued, Retried
<1> QED BY <1>1, <1>2, <1>3, <1>4, KeepStep

\* The run of the head ends without a row: the supplier is excused.
LEMMA LeftNoTrace ==
    ASSUME FeedInv, job = "feeds", queue # <<>>, AfterFailure(Current),
           excused' = excused \cup {Current.supplier}, busy' = busy \/ Free(Current.supplier),
           UNCHANGED <<job, hour, up, starting, timer, ran>>
    PROVE  FeedInv'
<1>1. Current.supplier \in Suppliers /\ up
  BY CurrentTyped
<1>2. /\ queue' \in Seq(Tasks) /\ retries' \in Seq(Retries)
      /\ \A s \in Suppliers : s # Current.supplier /\ Waiting(s) => Waiting(s)'
  BY AfterFailureKeeps
<1>3. busy' \in [Suppliers -> Holders] /\ \A o \in Suppliers : busy'[o].age <= MaxRun
  BY <1>1, FreeTyped DEF FeedInv, JobTyped
<1>4. JobTyped'
  BY <1>2, <1>3 DEF FeedInv, JobTyped
<1> QED BY <1>1, <1>2, <1>4, KeepStep

\* It ends with a row.
LEMMA LeftTrace ==
    ASSUME FeedInv, job = "feeds", queue # <<>>, NEW ok, Journal(Current.supplier, ok),
           Free(Current.supplier), UNCHANGED <<job, hour, up, starting, timer>>,
           queue' \in Seq(Tasks), retries' \in Seq(Retries),
           \A s \in Suppliers : s # Current.supplier /\ Waiting(s) => Waiting(s)'
    PROVE  FeedInv'
<1>1. Current.supplier \in Suppliers /\ up
  BY CurrentTyped
<1> DEFINE c == Current.supplier
<1>2. /\ ran' \in [Suppliers -> Nat] /\ Near(ran'[c], c)
      /\ \A o \in Suppliers : o # c => ran'[o] = ran[o] /\ (o \in excused => o \in excused')
  BY <1>1, JournalKeeps
<1>3. busy' \in [Suppliers -> Holders] /\ \A o \in Suppliers : busy'[o].age <= MaxRun
  BY <1>1, FreeTyped
<1>4. JobTyped'
  BY <1>2, <1>3 DEF FeedInv, JobTyped
<1>5. ASSUME NEW s \in Suppliers, Near(ran[s], s) \/ Waiting(s) \/ s \in excused
      PROVE  Near(ran'[s], s) \/ Waiting(s)' \/ s \in excused'
  <2>1. CASE s = c
    BY <1>2, <2>1
  <2>2. CASE s # c
    BY <1>2, <1>5, <2>2
  <2> QED BY <2>1, <2>2
<1> QED BY <1>1, <1>4, <1>5, KeepStep

LEMMA RunStepStep == ASSUME FeedInv, job = "feeds", RunStep PROVE FeedInv'
<1>1. CASE StartRun
  BY <1>1, StartRunStep
<1>2. CASE RefuseRun
  BY <1>2, LeftNoTrace DEF RefuseRun, NoJournal, process
<1>3. CASE RunFailsUnrecorded
  BY <1>3, LeftNoTrace DEF RunFailsUnrecorded, Running, NoJournal
<1>4. CASE RunFails
  <2>1. queue # <<>> /\ AfterFailure(Current)
    BY <1>4 DEF RunFails, Running
  <2>2. /\ queue' \in Seq(Tasks) /\ retries' \in Seq(Retries)
        /\ \A s \in Suppliers : s # Current.supplier /\ Waiting(s) => Waiting(s)'
    BY <2>1, AfterFailureKeeps
  <2> QED BY <1>4, <2>1, <2>2, LeftTrace DEF RunFails
<1>5. CASE RunSucceeds
  <2>1. /\ queue # <<>> /\ queue' = Tail(queue) /\ retries' = retries
        /\ Journal(Current.supplier, TRUE) /\ Free(Current.supplier)
        /\ UNCHANGED <<job, hour, up, starting, timer>>
    BY <1>5 DEF RunSucceeds, Running, process
  <2>2. /\ queue \in Seq(Tasks) /\ retries \in Seq(Retries)
    BY DEF FeedInv, JobTyped
  <2>3. /\ Current = queue[1] /\ Tail(queue) \in Seq(Tasks)
        /\ \A i \in 2..Len(queue) :
             i - 1 \in 1..Len(Tail(queue)) /\ Tail(queue)[i - 1] = queue[i]
    <3>1. Head(queue) = queue[1]
      BY <2>1, <2>2, HeadTailProperties
    <3> QED BY <2>1, <2>2, <3>1, TailOf DEF Current
  <2>4. ASSUME NEW s \in Suppliers, s # Current.supplier, Waiting(s) PROVE Waiting(s)'
    <3>1. CASE Queued(s)
      <4>1. PICK i \in 1..Len(queue) : queue[i].supplier = s
        BY <3>1 DEF Queued
      <4>2. Len(queue) \in Nat /\ i # 1
        BY <2>2, <2>3, <2>4, <4>1, LenProperties
      <4>3. i \in 2..Len(queue)
        BY <4>1, <4>2
      <4> QED BY <2>1, <2>3, <4>1, <4>3 DEF Queued, Waiting
    <3>2. CASE Retried(s)
      BY <2>1, <3>2 DEF Retried, Waiting
    <3> QED BY <2>4, <3>1, <3>2 DEF Waiting
  <2> QED BY <2>1, <2>2, <2>3, <2>4, LeftTrace
<1> QED BY <1>1, <1>2, <1>3, <1>4, <1>5 DEF RunStep

LEMMA UserStep ==
    ASSUME FeedInv, job = "feeds", NEW s \in Suppliers, StartByUser(s) \/ ByUserEnds(s)
    PROVE  FeedInv'
<1>1. CASE StartByUser(s) \/ OtherByUserEnds(s)
  <2>1. /\ \/ busy' = [busy EXCEPT ![s] = [by |-> "user", age |-> 0]] \/ Free(s)
        /\ up \/ busy[s].by = "user"
        /\ UNCHANGED <<job, hour, up, starting, timer, ran, queue, retries, excused>>
    BY <1>1 DEF StartByUser, OtherByUserEnds, process
  <2>2. up
    BY <2>1 DEF FeedInv, MemoryInv, Nobody
  <2>3. busy' \in [Suppliers -> Holders] /\ \A o \in Suppliers : busy'[o].age <= MaxRun
    BY <2>1, BusyTyped, FreeTyped
  <2>4. JobTyped'
    BY <2>1, <2>3 DEF FeedInv, JobTyped
  <2>5. \A o \in Suppliers : Waiting(o)' = Waiting(o)
    BY <2>1 DEF Waiting, Queued, Retried
  <2> QED BY <2>1, <2>2, <2>4, <2>5, KeepStep
<1>2. ASSUME NEW ok \in BOOLEAN, LinkByUserEnds(s, ok) PROVE FeedInv'
  <2>1. /\ busy[s].by = "user" /\ Journal(s, ok) /\ Free(s)
        /\ UNCHANGED <<job, hour, up, starting, timer, queue, retries>>
    BY <1>2 DEF LinkByUserEnds, process
  <2>2. up
    BY <2>1 DEF FeedInv, MemoryInv, Nobody
  <2>3. busy' \in [Suppliers -> Holders] /\ \A o \in Suppliers : busy'[o].age <= MaxRun
    BY <2>1, FreeTyped
  <2>4. /\ ran' \in [Suppliers -> Nat] /\ Near(ran'[s], s)
        /\ \A o \in Suppliers : o # s => ran'[o] = ran[o] /\ (o \in excused => o \in excused')
    BY <2>1, <2>2, JournalKeeps
  <2>5. JobTyped'
    BY <2>1, <2>3, <2>4 DEF FeedInv, JobTyped
  <2>6. \A o \in Suppliers : Waiting(o)' = Waiting(o)
    BY <2>1 DEF Waiting, Queued, Retried
  <2>7. ASSUME NEW o \in Suppliers, Near(ran[o], o) \/ Waiting(o) \/ o \in excused
        PROVE  Near(ran'[o], o) \/ Waiting(o)' \/ o \in excused'
    <3>1. CASE o = s
      BY <2>4, <3>1
    <3>2. CASE o # s
      BY <2>4, <2>6, <2>7, <3>2
    <3> QED BY <3>1, <3>2
  <2> QED BY <2>1, <2>2, <2>5, <2>7, KeepStep
<1> QED BY <1>1, <1>2 DEF ByUserEnds

-----------------------------------------------------------------------------
(* The specification                                                       *)

LEMMA InitJobs == Init => JobInv
<1> SUFFICES ASSUME Init PROVE FeedInv
  BY DEF JobInv
<1>1. /\ ran = [s \in Suppliers |-> Long] /\ busy = [s \in Suppliers |-> Nobody]
      /\ queue = <<>> /\ retries = <<>> /\ up = FALSE /\ starting = FALSE
      /\ hour \in 0..DayHours-1
  BY DEF Init
<1>2. Long \in Nat /\ Nobody \in Holders /\ Nobody.age <= MaxRun
  BY JobAssumption DEF Long, Nobody, Holders
<1>3. /\ ran \in [Suppliers -> Nat] /\ busy \in [Suppliers -> Holders]
      /\ \A s \in Suppliers : busy[s] = Nobody /\ busy[s].age <= MaxRun
  BY <1>1, <1>2
<1>4. queue \in Seq(Tasks) /\ retries \in Seq(Retries)
  BY <1>1, EmptySeq
<1> QED BY <1>1, <1>3, <1>4 DEF FeedInv, JobTyped, MemoryInv, TriedInv

LEMMA NextJobs == JobInv /\ [Next]_vars => JobInv'
<1> SUFFICES ASSUME JobInv, [Next]_vars, job' = "feeds" PROVE FeedInv'
  BY DEF JobInv
<1>1. job = "feeds"
  BY DEF Next, vars, process, Tick, Stop, StartUp, FeedStep, CatchUpFeeds, RunStep, StartRun,
         RefuseRun, RunSucceeds, RunFails, RunFailsUnrecorded, FeedsDue, DueFeeds,
         DueFeedsUnread, RetryFeed, StartByUser, ByUserEnds, LinkByUserEnds, OtherByUserEnds,
         RateStep, RatesStart, DueRates, CatchUpRates, CatchUpRatesUnread, SyncRates,
         EnterRate, CancelRates
<1>2. FeedInv
  BY <1>1 DEF JobInv
<1>3. CASE UNCHANGED vars
  BY <1>2, <1>3 DEF vars, FeedInv, JobTyped, MemoryInv, TriedInv, Near, Waiting, Queued,
                    Retried, Planned, TimerHours
<1>4. CASE FeedStep
  BY <1>1, <1>2, <1>4, CatchUpStep, RunStepStep, DueStep, RetryFeedStep, UserStep
     DEF FeedStep, FeedsDue
<1>5. ~RateStep
  BY <1>1 DEF RateStep, RatesStart, DueRates, CatchUpRates, CatchUpRatesUnread, SyncRates,
              EnterRate, CancelRates
<1> QED BY <1>1, <1>2, <1>3, <1>4, <1>5, TickStep, StopStep, StartUpStep DEF Next

LEMMA TriedIsTriedDaily == JobInv => TriedDaily
<1> SUFFICES ASSUME JobInv, job = "feeds", up, Settled, NEW s \in Suppliers
             PROVE  ran[s] <= DayHours \/ Pending(s) \/ s \in excused
  BY DEF TriedDaily
<1>1. /\ FeedInv /\ ~starting /\ timer \in [TimerHours -> 0..DayHours]
  BY DEF JobInv, FeedInv, MemoryInv, Settled
<1>2. timer[HourOf[s]] \in Nat /\ timer[HourOf[s]] > 0
  BY <1>1, HourTyped DEF Settled
<1>3. Near(ran[s], s) \/ Waiting(s) \/ s \in excused
  BY <1>1 DEF FeedInv, TriedInv
<1>4. Near(ran[s], s) => ran[s] <= DayHours
  <2>1. ran[s] \in Nat /\ DayHours \in Nat
    BY <1>1, JobAssumption DEF FeedInv, JobTyped
  <2> QED BY <1>2, <2>1 DEF Near
<1>5. DOMAIN queue = 1..Len(queue) /\ DOMAIN retries = 1..Len(retries)
  BY <1>1, LenProperties DEF FeedInv, JobTyped
<1> QED BY <1>3, <1>4, <1>5 DEF Waiting, Queued, Retried, Pending

\* No day goes by without a run of a supplier's price list: whenever timers
\* fire and the process is stopped and started again, the newest run by link is
\* at most a day old, or one is waiting (priceFeeds.ts, schedule.ts).
THEOREM EachIsTriedDaily == Spec => []TriedDaily
<1>1. Spec => []JobInv
  BY InitJobs, NextJobs, PTL DEF Spec
<1> QED BY <1>1, TriedIsTriedDaily, PTL
=============================================================================
