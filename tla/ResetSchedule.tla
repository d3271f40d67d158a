---------------------------- MODULE ResetSchedule ----------------------------
(***************************************************************************)
(* When an automatic reset runs: the pure functions ResetTime and          *)
(* resetWindowOpen of control/reset_schedule.go.  A time is a day and a    *)
(* second of that day in Shanghai, which knows no daylight saving.  The    *)
(* state machine only enumerates their inputs: the expiry of a credit, and *)
(* how long after the planned second a worker asks whether the window is   *)
(* open.                                                                   *)
(***************************************************************************)
EXTENDS Integers

CONSTANTS
    Stride,       \* distance between the expiries considered
    LastDay,      \* the last day considered
    MaxDelay      \* the longest delay of the worker considered

VARIABLES
    expiry,       \* when the credit expires
    delay         \* how late the worker notices that the job is due

vars == <<expiry, delay>>

Minute == 60
Hour == 60 * Minute
Day == 24 * Hour

ASSUME BoundsAssumption ==
    /\ Stride \in Nat /\ 0 < Stride /\ Stride < Day
    /\ LastDay \in Nat
    /\ MaxDelay \in Nat

Times == {t \in [day : Nat, second : Nat] : t.second < Day}

Before(t, u) == t.day < u.day \/ (t.day = u.day /\ t.second < u.second)

\* One hour before expiry, moved into 09:00-21:00: a credit that expires at or
\* before 09:00 is used the evening before.
ResetTime(e) ==
    IF e.second <= 9 * Hour THEN [day |-> e.day - 1, second |-> 21 * Hour]
    ELSE IF e.second - Hour < 9 * Hour THEN [day |-> e.day, second |-> 9 * Hour]
    ELSE IF e.second - Hour > 21 * Hour THEN [day |-> e.day, second |-> 21 * Hour]
    ELSE [day |-> e.day, second |-> e.second - Hour]

HourOf(n) == n.second \div Hour
MinuteOf(n) == (n.second % Hour) \div Minute

\* Mutant: the window closes at 21:00 sharp.
Mut_ClosesSharp(n) == n.second >= 9 * Hour /\ n.second <= 21 * Hour

\* Hours 9 to 20, and the first minute of hour 21.
resetWindowOpen(n) ==
    HourOf(n) >= 9 /\ (HourOf(n) < 21 \/ (HourOf(n) = 21 /\ MinuteOf(n) = 0))

\* The expiries considered lie on, just after and just before a multiple of
\* the stride.
Init ==
    /\ \E s \in {0, 1, Stride - 1} : expiry = [day |-> 1, second |-> s]
    /\ delay = 0

NextExpiry ==
    /\ \/ /\ expiry.second + Stride < Day
          /\ expiry' = [day |-> expiry.day, second |-> expiry.second + Stride]
       \/ /\ expiry.second + Stride >= Day /\ expiry.day < LastDay
          /\ expiry' = [day |-> expiry.day + 1, second |-> expiry.second % Stride]
    /\ delay' = 0

NoticeLater ==
    /\ delay < MaxDelay
    /\ delay' = delay + 1
    /\ UNCHANGED expiry

Next == NextExpiry \/ NoticeLater

Spec == Init /\ [][Next]_vars

-----------------------------------------------------------------------------
(* Properties.                                                             *)

\* A planned job can be executed as planned: at its run_at the window is open
\* and the credit has not expired.
PlanIsRunnable ==
    /\ resetWindowOpen(ResetTime(expiry))
    /\ Before(ResetTime(expiry), expiry)

\* The planned second is the best one of the documented policy: it is that
\* day's 09:00 for a credit that expires between 09:00 and 10:00; otherwise it
\* leaves an hour before the expiry, and no later second of 09:00-21:00 does.
PlanIsLatest ==
    LET abs(t) == t.day * Day + t.second
        allowed(n) == n % Day >= 9 * Hour /\ n % Day <= 21 * Hour
        run == abs(ResetTime(expiry))
    IN delay = 0 =>
         IF expiry.second > 9 * Hour /\ expiry.second < 10 * Hour
         THEN run = expiry.day * Day + 9 * Hour
         ELSE /\ allowed(run) /\ run <= abs(expiry) - Hour
              /\ \A n \in run + 1..abs(expiry) - Hour : ~allowed(n)

\* "The 21:00 trigger minute permits normal processing latency": a worker that
\* notices a due job within a minute still finds the window open.
LatencyTolerated ==
    LET run == ResetTime(expiry)
    IN delay < Minute => resetWindowOpen([day |-> run.day, second |-> run.second + delay])

\* A plan can be executed, is the latest the policy allows, and survives the
\* minute a worker takes to notice it.
ScheduleSafe == PlanIsRunnable /\ PlanIsLatest /\ LatencyTolerated
=============================================================================
