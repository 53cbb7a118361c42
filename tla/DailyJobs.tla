------------------------------- MODULE DailyJobs -------------------------------
(***************************************************************************)
(* The daily jobs of the server with their clock, their timers and the     *)
(* restarts of the process.                                                *)
(***************************************************************************)
EXTENDS FeedRuns

-----------------------------------------------------------------------------
(* The daily rates of the National Bank (jobs/nbuRates.ts): asked for in    *)
(* the morning and when the process starts without them, again in an hour   *)
(* when one of the currencies was not given.                                *)

Sources == {"nbu", "manual"}

ToAsk(n, left) == [supplier |-> "nbu", attempt |-> n, left |-> left]

\* The timer of the morning; runWithRetries(1) asks at once.
DueRates ==
    /\ job = "rates" /\ up /\ NbuHour \in DOMAIN timer /\ timer[NbuHour] = 0
    /\ retries' = Append(retries, ToAsk(1, 0))
    /\ Replan(NbuHour)
    /\ UNCHANGED <<job, hour, up, starting, spent, feeds, rates>>

\* There is a rate of today for every currency.
RatesKnown == \A c \in Currencies : \E by \in Sources : <<c, by>> \in rates

\* catchUpOnStart. Rates of today are not enough to be fresh: the one in force
\* is the highest, which may be an older one entered by a user.
CatchUpRates ==
    /\ job = "rates" /\ up /\ starting
    /\ \/ RatesKnown /\ UNCHANGED retries
       \/ retries' = Append(retries, ToAsk(1, 0))
    /\ starting' = FALSE
    /\ UNCHANGED <<job, hour, up, timer, spent, feeds, rates>>

\* its catch: what there is could not be read
CatchUpRatesUnread ==
    /\ job = "rates" /\ up /\ starting /\ Spend
    /\ starting' = FALSE
    /\ UNCHANGED <<job, hour, up, timer, feeds, retries, rates>>

\* The catch of runWithRetries, which asks for all of them again
AskAgain(i) ==
    LET n == retries[i].attempt IN
    IF n <= MaxRetries THEN Append(RemoveAt(retries, i), ToAsk(n + 1, 1))
    ELSE RemoveAt(retries, i)

\* syncNbuRates
SyncRates(i) ==
    /\ job = "rates" /\ i \in DOMAIN retries /\ retries[i].left = 0
    /\ \E got \in SUBSET Currencies :
        /\ rates' = rates \cup (got \X {"nbu"})
        /\ IF got = Currencies
           THEN retries' = RemoveAt(retries, i) /\ UNCHANGED spent
           ELSE retries' = AskAgain(i) /\ Spend
    /\ UNCHANGED <<job, hour, up, starting, timer, feeds>>

\* addManualRate, for today
EnterRate(c) ==
    /\ job = "rates" /\ up /\ Spend
    /\ rates' = rates \cup {<<c, "manual">>}
    /\ UNCHANGED <<job, hour, up, starting, timer, feeds, retries>>

\* cancelManualRates
CancelRates(c) ==
    /\ job = "rates" /\ up /\ Spend
    /\ rates' = rates \ {<<c, "manual">>}
    /\ UNCHANGED <<job, hour, up, starting, timer, feeds, retries>>

RatesStart == DueRates \/ CatchUpRates \/ CatchUpRatesUnread

RateStep ==
    \/ RatesStart
    \/ \E i \in 1..Len(retries) : SyncRates(i)
    \/ \E c \in Currencies : EnterRate(c) \/ CancelRates(c)

-----------------------------------------------------------------------------
(* All of them, and the process *)

Init ==
    /\ job \in Jobs /\ hour \in 0..DayHours-1
    /\ up = FALSE /\ starting = FALSE /\ timer = <<>>
    /\ ran = [s \in Suppliers |-> Long] /\ fresh = {}
    /\ busy = [s \in Suppliers |-> Nobody]
    /\ queue = <<>> /\ retries = <<>>
    /\ rates = {} /\ excused = {} /\ spent = 0

Next == Tick \/ Stop \/ StartUp \/ FeedStep \/ RateStep

Spec == Init /\ [][Next]_vars

\* Time passes, the container is started again, timers fire, and what has
\* been asked for is answered: downloads and queries have time limits.
Fairness ==
    /\ WF_vars(Tick) /\ WF_vars(StartUp)
    /\ WF_vars(CatchUpFeeds) /\ WF_vars(FeedsDue) /\ WF_vars(RunStep)
    /\ WF_vars(\E i \in 1..Len(retries) : RetryFeed(i))
    /\ WF_vars(RatesStart)
    /\ WF_vars(\E i \in 1..Len(retries) : SyncRates(i))
    /\ \A s \in Suppliers : WF_vars(ByUserEnds(s))

FairSpec == Spec /\ Fairness

-----------------------------------------------------------------------------
Pending(s) ==
    \/ \E i \in DOMAIN queue : queue[i].supplier = s
    \/ \E i \in DOMAIN retries : retries[i].supplier = s

\* No day goes by without a run of a supplier's price list: while the process
\* is there and has done what its timers told it, the newest run by link is
\* at most a day old, or one is waiting. This holds through clock changes,
\* and through restarts at any moment, also when the process was not there at
\* the hour or went down while the run was waiting. Excused is a supplier
\* whose last turn left no trace or was not read.
TriedDaily ==
    job = "feeds" /\ up /\ Settled =>
        \A s \in Suppliers : ran[s] <= DayHours \/ Pending(s) \/ s \in excused

\* No failure is for ever: as failures, restarts and other users are finally
\* over, every price list is updated again and again, and the rates of a day
\* are there again and again.
UpdatedAgain ==
    /\ \A s \in Suppliers : []<>(job = "feeds" => s \in fresh /\ ran[s] <= MaxRun)
    /\ []<>(job = "rates" => RatesKnown)

=============================================================================
