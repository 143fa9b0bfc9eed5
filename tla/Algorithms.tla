----------------------------- MODULE Algorithms -----------------------------
(***************************************************************************)
(* The decision procedures of the access checks as operators: the pattern  *)
(* matcher and the schedule test of acl_check (auth.rs) and the token      *)
(* bucket of the network rate limiter (net_ratelimit.rs), each with the    *)
(* definition it is meant to compute.                                      *)
(***************************************************************************)
EXTENDS Naturals, Sequences, FiniteSets

CONSTANTS
    Burst,      \* capacity of a bucket
    Rate,       \* tokens per second
    Idle        \* seconds after which a sweep may drop a bucket

\* from_env: the limiter is enabled, and with its defaults a bucket that is old
\* enough to be swept has been full again for long.
ASSUME AlgorithmsAssumption ==
    /\ Burst \in Nat \ {0} /\ Rate \in Nat \ {0} /\ Idle \in Nat
    /\ Rate * Idle >= Burst

-----------------------------------------------------------------------------
(* sql_like_match: i over the text, j over the pattern, the last star and the
   text position it has absorbed up to. *)

\* Faulty variant: the first star is kept.
LikeStepFirstStar(p, t, s) ==
    IF s.j < Len(p) /\ p[s.j + 1] \in {"_", t[s.i + 1]}
    THEN [s EXCEPT !.i = @ + 1, !.j = @ + 1]
    ELSE IF s.j < Len(p) /\ p[s.j + 1] = "*"
    THEN IF s.star <= Len(p) THEN [s EXCEPT !.j = @ + 1]
         ELSE [s EXCEPT !.j = @ + 1, !.star = s.j, !.mark = s.i]
    ELSE IF s.star > Len(p) THEN [s EXCEPT !.fails = TRUE]
    ELSE [s EXCEPT !.j = s.star + 1, !.mark = @ + 1, !.i = s.mark + 1]

\* One turn of the loop.  Without a star, star is Len(p) + 1.
LikeStep(p, t, s) ==
    IF s.j < Len(p) /\ p[s.j + 1] \in {"_", t[s.i + 1]}
    THEN [s EXCEPT !.i = @ + 1, !.j = @ + 1]
    ELSE IF s.j < Len(p) /\ p[s.j + 1] = "*"
    THEN [s EXCEPT !.j = @ + 1, !.star = s.j, !.mark = s.i]
    ELSE IF s.star > Len(p) THEN [s EXCEPT !.fails = TRUE]
    ELSE [s EXCEPT !.j = s.star + 1, !.mark = @ + 1, !.i = s.mark + 1]

\* The states of the loop; a state the loop ends in is repeated.
LikeTrace(p, t) ==
    LET start == [i |-> 0, j |-> 0, star |-> Len(p) + 1, mark |-> 0, fails |-> FALSE]
        turns == (Len(p) + 1) * (Len(t) + 1)
        run[k \in 0..turns] ==
            IF k = 0 THEN start
            ELSE LET s == run[k - 1] IN
                 IF s.fails \/ s.i = Len(t) THEN s ELSE LikeStep(p, t, s)
    IN  run[turns]

SqlLikeMatch(p, t) ==
    LET s == LikeTrace(p, t) IN
    /\ ~s.fails /\ s.i = Len(t)
    /\ \A k \in (s.j + 1)..Len(p) : p[k] = "*"

\* What a pattern means: each of its characters takes a part of the text.
Like(p, t) ==
    LET fits[j \in 0..Len(p), i \in 0..Len(t)] ==
            IF j = 0 THEN i = 0
            ELSE IF p[j] = "*" THEN \E k \in 0..i : fits[j - 1, k]
            ELSE i > 0 /\ p[j] \in {"_", t[i]} /\ fits[j - 1, i - 1]
    IN  fits[Len(p), Len(t)]

\* The matcher accepts exactly what the pattern means, and within |p| * |t|
\* turns (sql_like_match: "O(pattern * text) worst case"), for names without
\* a literal star.
LikeExact(p, t) ==
    /\ SqlLikeMatch(p, t) = Like(p, t)
    /\ LikeTrace(p, t).fails \/ LikeTrace(p, t).i = Len(t)

-----------------------------------------------------------------------------
(* cron_window_matches *)

\* A term is a range with a step, or malformed; "*" is the range of the field.
Term(star, lo, hi, step) == [star |-> star, lo |-> lo, hi |-> hi, step |-> step]
Span(lo, hi, step) == Term(FALSE, lo, hi, step)
Star(step) == Term(TRUE, 0, 0, step)
Bad == Span(0, 0, 0)

Hits(term, val, min, max) ==
    LET lo == IF term.star THEN min ELSE term.lo
        hi == IF term.star THEN max ELSE term.hi
    IN  val >= lo /\ val <= hi /\ (val - lo) % term.step = 0

\* The terms are tried in order up to the first that is malformed or hit.
CronField(field, val, min, max) ==
    LET stops == {k \in DOMAIN field : field[k] = Bad \/ Hits(field[k], val, min, max)}
        first == CHOOSE k \in stops : \A l \in stops : k <= l
    IN  IF stops = {} THEN "no" ELSE IF field[first] = Bad THEN "error" ELSE "yes"

\* Day of the week: Sunday is 0, and when that does not hit, 7.
DayOfWeek(field, dow) ==
    IF dow = 0 /\ CronField(field, 0, 0, 6) = "no" THEN CronField(field, 7, 0, 7)
    ELSE CronField(field, dow, 0, 6)

\* The conjunction of the fields ends at the first that is not hit; minute, day
\* and month are tested as the hour is.
CronWindow(hours, days, hour, dow) ==
    LET h == CronField(hours, hour, 0, 23) IN
    IF h = "yes" THEN DayOfWeek(days, dow) ELSE h

\* The values a term names, counted from its lower end.
Named(term, min, max) ==
    IF term = Bad THEN {}
    ELSE IF term.star THEN {min + k * term.step : k \in 0..max} \cap (min..max)
    ELSE {term.lo + k * term.step : k \in 0..max} \cap (term.lo..term.hi)
Meant(field, min, max) == UNION {Named(field[k], min, max) : k \in DOMAIN field}

\* A schedule is open at exactly the hours and days its fields name, 7 being
\* Sunday; with malformed terms in it, at no time its other terms do not name.
ScheduleExact(hours, days, hour, dow) ==
    LET meant == /\ hour \in Meant(hours, 0, 23)
                 /\ dow \in {d % 7 : d \in Meant(days, 0, 7)}
        open == CronWindow(hours, days, hour, dow) = "yes"
        malformed == \/ \E k \in DOMAIN hours : hours[k] = Bad
                     \/ \E k \in DOMAIN days : days[k] = Bad
    IN  (open => meant) /\ (meant => open \/ malformed)

-----------------------------------------------------------------------------
(* NetRateLimiter: the bucket of one client.  A call takes the time before it
   takes the lock, so the times of successive calls may step back. *)

NoBucket == [tokens |-> 0, last |-> 0, there |-> FALSE, ok |-> FALSE]
Least(a, b) == IF a < b THEN a ELSE b
Elapsed(now, then) == IF now > then THEN now - then ELSE 0

\* Faulty variant: the refill is not capped.
AllowUncapped(b, call) ==
    LET c == IF ~b.there THEN [b EXCEPT !.tokens = Burst, !.last = call.now] ELSE b
        n == c.tokens + Elapsed(call.now, c.last) * Rate
    IN  [tokens |-> IF n >= 1 THEN n - 1 ELSE n, last |-> call.now, there |-> TRUE,
         ok |-> n >= 1]

\* allow: with many clients the idle buckets are swept first; then the bucket
\* is created or refilled, and a token taken.
Allow(b, call) ==
    LET swept == call.sweep /\ Elapsed(call.now, b.last) >= Idle
        c == IF ~b.there \/ swept THEN [b EXCEPT !.tokens = Burst, !.last = call.now] ELSE b
        n == Least(c.tokens + Elapsed(call.now, c.last) * Rate, Burst)
    IN  [tokens |-> IF n >= 1 THEN n - 1 ELSE n, last |-> call.now, there |-> TRUE,
         ok |-> n >= 1]

\* The bucket after each call of a sequence.
Calls(a) ==
    LET b[k \in 0..Len(a)] == IF k = 0 THEN NoBucket ELSE Allow(b[k - 1], a[k]) IN b

\* The seconds the clock of a client's calls steps back between calls i and j.
SteppedBack(a, i, j) ==
    LET f[k \in i..j] == IF k = i THEN 0 ELSE f[k - 1] + Elapsed(a[k - 1].now, a[k].now)
    IN  f[j]
Allowed(b, i, j) == Cardinality({k \in i..j : b[k].ok})

\* The seconds that allow credits between calls i and j: those that pass, and
\* once more those the clock steps back, which the next call makes up again.
Credited(a, i, j) == (a[j].now - a[i].now) + SteppedBack(a, i, j)

\* While its clock does not step back a client is never allowed more than the
\* burst and the rate give for the time that passes.
BurstBound(a) ==
    LET b == Calls(a) IN
    \A i, j \in 1..Len(a) :
        (i <= j /\ SteppedBack(a, i, j) = 0) =>
            Allowed(b, i, j) <= Burst + Rate * (a[j].now - a[i].now)

\* Where the clock steps back allow exceeds that bound, but by no more than the
\* rate gives for the seconds stepped back.
ExcessBound(a) ==
    LET b == Calls(a) IN
    \A i, j \in 1..Len(a) : i <= j => Allowed(b, i, j) <= Burst + Rate * Credited(a, i, j)

\* Only floods are shed: whoever is refused has called, in some interval up to
\* then, more often than the burst and the rate give.
OnlyFloodsShed(a) ==
    LET b == Calls(a) IN
    \A j \in 1..Len(a) :
        ~b[j].ok => \E i \in 1..j : j - i + 1 > Burst + Rate * Credited(a, i, j)
=============================================================================
