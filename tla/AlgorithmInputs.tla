-------------------------- MODULE AlgorithmInputs --------------------------
(* The operators of Algorithms on every short input: patterns and names,
   schedules and times, sequences of calls, each grown by one element a step. *)
EXTENDS Algorithms

CONSTANTS
    MaxLen,     \* bound on the length of patterns and names
    MaxTerms,   \* bound on the terms of a schedule field
    MaxCalls,   \* bound on the requests of one client
    MaxSecond   \* bound on the clock of the limiter

VARIABLES
    pattern, name,  \* input of sql_like_match
    hours, days,    \* the fields of a schedule
    calls           \* requests of one client to the limiter, in lock order

matcher == <<pattern, name>>
schedule == <<hours, days>>
inputs == <<matcher, schedule, calls>>

HourTerms == {Bad, Star(1), Span(9, 17, 4)}
DayTerms == {Bad, Star(1), Star(5), Span(5, 7, 1), Span(1, 7, 3), Span(7, 7, 1),
             Span(1, 5, 2)}

NoInput == <<<<>>, <<>>>>
Untried == pattern = <<>> /\ name = <<>> /\ hours = <<>> /\ days = <<>> /\ calls = <<>>

\* One input at a time; of a pair the first component is completed first.
Grow(v, S, max) == Len(v) < max /\ \E e \in S : v' = Append(v, e)
ExtendPattern ==
    /\ name = <<>> /\ schedule = NoInput /\ calls = <<>>
    /\ Grow(pattern, {"a", "b", "_", "*"}, MaxLen)
    /\ UNCHANGED <<name, schedule, calls>>
ExtendName ==
    /\ schedule = NoInput /\ calls = <<>>
    /\ Grow(name, {"a", "b"}, MaxLen)
    /\ UNCHANGED <<pattern, schedule, calls>>
ExtendHours ==
    /\ matcher = NoInput /\ days = <<>> /\ calls = <<>>
    /\ Grow(hours, HourTerms, MaxTerms)
    /\ UNCHANGED <<matcher, days, calls>>
ExtendDays ==
    /\ hours # <<>>
    /\ Grow(days, DayTerms, MaxTerms)
    /\ UNCHANGED <<matcher, hours, calls>>
Call ==
    /\ matcher = NoInput /\ schedule = NoInput
    /\ Grow(calls, [now : 0..MaxSecond, sweep : BOOLEAN], MaxCalls)
    /\ UNCHANGED <<matcher, schedule>>
Restart ==
    /\ ~Untried
    /\ pattern' = <<>> /\ name' = <<>> /\ hours' = <<>> /\ days' = <<>> /\ calls' = <<>>

Try == ExtendPattern \/ ExtendName \/ ExtendHours \/ ExtendDays \/ Call \/ Restart

\* sql_like_match accepts exactly what its pattern means and cron_window_matches
\* is open exactly when its fields say so (LikeExact, ScheduleExact), whatever
\* the backtracking of the one and the evaluation order of the other.
MatchersExact ==
    /\ matcher # NoInput => LikeExact(pattern, name)
    /\ days # <<>> =>
         \A hour \in {8, 9, 13}, dow \in 0..6 : ScheduleExact(hours, days, hour, dow)

\* NetRateLimiter::allow lets through no more than configured while a bucket's
\* clock does not step back (BurstBound), exceeds it by at most the rate times
\* the seconds the clock does step back, which it credits twice (ExcessBound),
\* and sheds no client that keeps within its rate (OnlyFloodsShed), with idle
\* buckets dropped at any time.
RateLimitExact == calls # <<>> => BurstBound(calls) /\ ExcessBound(calls) /\ OnlyFloodsShed(calls)
=============================================================================
