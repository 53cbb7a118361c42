----------------------------- MODULE MCDailyJobs -----------------------------
(* A small instance of the daily jobs for TLC. *)
EXTENDS DailyJobs, TLC

CONSTANTS s1, s2, USD, EUR

MCFeeds == <<s1, s2>>
MCHourOf == (s1 :> 1) @@ (s2 :> 1)

=============================================================================
