-------------------------- MODULE BackgroundProofs --------------------------
(***************************************************************************)
(* What runs beside the requests: planned resets, their notices and the    *)
(* daily report, and the sessions with the Codex app server.               *)
(***************************************************************************)
EXTENDS ResetSchedule, ResetNotice, DailyReport, AppServer, FiniteSetTheorems, TLAPS
-----------------------------------------------------------------------------
(* Planned resets. Every plan ResetTime makes can be executed, whatever    *)
(* the expiry, and by a worker that is up to a minute late.                *)

\* The hour and the minute of the seconds from 09:00:00 to 21:00:59.
LEMMA HoursOfTheWindow ==
    ASSUME NEW r \in Int, 32400 <= r, r < 75660
    PROVE  /\ r \div 3600 >= 9
           /\ r \div 3600 < 21 \/ (r \div 3600 = 21 /\ (r % 3600) \div 60 = 0)
<1>1. r \div 3600 >= 9
  BY SMT
<1>2. CASE r < 75600
  <2>1. r \div 3600 < 21
    BY <1>2, SMT
  <2> QED
    BY <1>1, <2>1
<1>3. CASE r >= 75600
  <2>1. r \div 3600 = 21
    BY <1>3, SMT
  <2>2. (r % 3600) \div 60 = 0
    <3>1. r % 3600 < 60 /\ r % 3600 >= 0
      BY <1>3, SMT
    <3> QED
      BY <3>1, SMT
  <2> QED
    BY <1>1, <2>1, <2>2
<1> QED
  BY <1>2, <1>3, SMT

\* resetWindowOpen accepts all of them.
LEMMA WindowSeconds ==
    ASSUME NEW n, n.second \in Int, 32400 <= n.second, n.second < 75660
    PROVE  resetWindowOpen(n)
<1> DEFINE r == n.second
<1>1. /\ r \div 3600 >= 9
      /\ r \div 3600 < 21 \/ (r \div 3600 = 21 /\ (r % 3600) \div 60 = 0)
  <2> HIDE DEF r
  <2>1. r \in Int /\ 32400 <= r /\ r < 75660
    BY DEF r
  <2> QED
    BY <2>1, HoursOfTheWindow
<1>2. HourOf(n) = r \div 3600 /\ MinuteOf(n) = (r % 3600) \div 60
  BY SMT DEF HourOf, MinuteOf, Hour, Minute
<1> HIDE DEF r
<1>3. HourOf(n) >= 9
  BY <1>1, <1>2
<1>4. HourOf(n) < 21 \/ (HourOf(n) = 21 /\ MinuteOf(n) = 0)
  BY <1>1, <1>2
<1> QED
  BY <1>3, <1>4 DEF resetWindowOpen

\* What ResetTime returns: a second of 09:00-21:00 that lies before the expiry.
LEMMA ResetTimeBounds ==
    ASSUME NEW e \in Times, e.day > 0
    PROVE  /\ ResetTime(e) \in Times
           /\ 32400 <= ResetTime(e).second
           /\ ResetTime(e).second <= 75600
           /\ Before(ResetTime(e), e)
  BY SMT DEF ResetTime, Times, Before, Minute, Hour, Day

\* The credits considered expire on the first day or later.
ExpiryInv == expiry \in Times /\ expiry.day > 0 /\ delay \in Nat

\* The expiry a plan is made for is a time.
LEMMA ExpiryInvariant == Spec => []ExpiryInv
<1>1. Init => ExpiryInv
  BY SMT, BoundsAssumption DEF Init, ExpiryInv, Times, Minute, Hour, Day
<1>2. ExpiryInv /\ [Next]_vars => ExpiryInv'
  <2> SUFFICES ASSUME ExpiryInv, [Next]_vars
               PROVE  ExpiryInv'
    OBVIOUS
  <2>1. CASE NextExpiry
    <3>1. expiry.second % Stride \in Nat /\ expiry.second % Stride < Stride
      BY SMT, BoundsAssumption DEF ExpiryInv, Times
    <3> QED
      BY SMT, <2>1, <3>1, BoundsAssumption DEF ExpiryInv, Times, NextExpiry,
                                                   Minute, Hour, Day
  <2>2. CASE NoticeLater
    BY SMT, <2>2 DEF ExpiryInv, NoticeLater
  <2>3. CASE UNCHANGED vars
    BY SMT, <2>3 DEF ExpiryInv, vars
  <2> QED
    BY <2>1, <2>2, <2>3 DEF Next
<1> QED
  BY <1>1, <1>2, PTL DEF Spec

\* Whatever credit discovery finds, the job planned for it can be run at its
\* run_at: the window is open and the credit has not expired.
THEOREM PlansAreRunnable == Spec => []PlanIsRunnable
<1>1. ExpiryInv => PlanIsRunnable
  <2> SUFFICES ASSUME ExpiryInv
               PROVE  PlanIsRunnable
    OBVIOUS
  <2> DEFINE run == ResetTime(expiry)
  <2>1. run \in Times /\ 32400 <= run.second /\ run.second <= 75600 /\ Before(run, expiry)
    BY ResetTimeBounds DEF ExpiryInv
  <2> HIDE DEF run
  <2>2. run.second \in Int /\ 32400 <= run.second /\ run.second < 75660
    BY SMT, <2>1 DEF Times
  <2>3. resetWindowOpen(run)
    BY <2>2, WindowSeconds
  <2> QED
    BY <2>1, <2>3 DEF PlanIsRunnable, run
<1> QED
  BY <1>1, ExpiryInvariant, PTL

\* A worker that notices the job within a minute still finds the window open.
THEOREM LatencyIsTolerated == Spec => []LatencyTolerated
<1>1. ExpiryInv => LatencyTolerated
  <2> SUFFICES ASSUME ExpiryInv, delay < Minute
               PROVE  resetWindowOpen([day |-> ResetTime(expiry).day,
                                       second |-> ResetTime(expiry).second + delay])
    BY Zenon DEF LatencyTolerated
  <2> DEFINE run == ResetTime(expiry)
             late == [day |-> run.day, second |-> run.second + delay]
  <2>1. run \in Times /\ 32400 <= run.second /\ run.second <= 75600
    BY ResetTimeBounds DEF ExpiryInv
  <2>2. late.second \in Int /\ 32400 <= late.second /\ late.second < 75660
    <3> HIDE DEF run
    <3> QED
      BY SMT, <2>1 DEF ExpiryInv, Times, Minute
  <2>3. resetWindowOpen(late)
    <3> HIDE DEF late
    <3> QED
      BY <2>2, WindowSeconds
  <2> QED
    BY <2>3
<1> QED
  BY <1>1, ExpiryInvariant, PTL
\* The second of the day of a time counted from the first day.
LEMMA SecondOfDay ==
    ASSUME NEW n \in Int, NEW d \in Int, d * 86400 <= n, n < d * 86400 + 86400
    PROVE  n % 86400 = n - d * 86400
BY SMT

\* The evening before, and the night up to an hour before the expiry, have no
\* allowed second after 21:00.
LEMMA NothingAtNight ==
    ASSUME NEW d \in Int, NEW n \in Int,
           d * 86400 + 75600 < n, n <= d * 86400 + 86400 + 28800
    PROVE  ~(n % 86400 >= 32400 /\ n % 86400 <= 75600)
<1>1. CASE n < d * 86400 + 86400
  <2>1. n % 86400 = n - d * 86400
    BY <1>1, SecondOfDay, SMT
  <2> QED
    BY <2>1, SMT
<1>2. CASE n >= d * 86400 + 86400
  <2>1. n % 86400 = n - (d + 1) * 86400
    <3>1. d + 1 \in Int /\ (d + 1) * 86400 <= n /\ n < (d + 1) * 86400 + 86400
      BY <1>2, SMT
    <3> QED
      BY <3>1, SecondOfDay
  <2> QED
    BY <2>1, SMT
<1> QED
  BY <1>1, <1>2, SMT

\* The planned second is the latest the policy allows: the day's 09:00 for a
\* credit that expires in the hour after it, otherwise the last second of
\* 09:00-21:00 that leaves an hour.
LEMMA LatestSecond ==
    ASSUME NEW e \in Times, e.day > 0,
           NEW run, run = ResetTime(e).day * 86400 + ResetTime(e).second,
           NEW last, last = e.day * 86400 + e.second - 3600
    PROVE  IF e.second > 32400 /\ e.second < 36000
           THEN run = e.day * 86400 + 32400
           ELSE /\ run % 86400 >= 32400 /\ run % 86400 <= 75600 /\ run <= last
                /\ \A n \in run + 1..last : ~(n % 86400 >= 32400 /\ n % 86400 <= 75600)
<1>0. e.day \in Int /\ e.second \in Int /\ 0 <= e.second /\ e.second < 86400
  BY SMT DEF Times, Day, Hour, Minute
<1>1. CASE e.second <= 32400
  <2>1. run = (e.day - 1) * 86400 + 75600
    BY <1>0, <1>1, SMT DEF ResetTime, Hour, Minute
  <2>2. run % 86400 = 75600
    <3>1. e.day - 1 \in Int /\ run \in Int
      BY <1>0, <2>1, SMT
    <3>2. run % 86400 = run - (e.day - 1) * 86400
      <4>1. (e.day - 1) * 86400 <= run /\ run < (e.day - 1) * 86400 + 86400
        BY <1>0, <2>1, SMT
      <4> QED
        BY <3>1, <4>1, SecondOfDay
    <3> QED
      BY <1>0, <2>1, <3>2, SMT
  <2>3. run <= last
    BY <1>0, <2>1, SMT
  <2>4. ASSUME NEW n \in run + 1..last
        PROVE  ~(n % 86400 >= 32400 /\ n % 86400 <= 75600)
    <3>1. /\ e.day - 1 \in Int /\ n \in Int
          /\ (e.day - 1) * 86400 + 75600 < n
          /\ n <= (e.day - 1) * 86400 + 86400 + 28800
      BY <1>0, <1>1, <2>1, SMT
    <3> QED
      BY <3>1, NothingAtNight
  <2> QED
    BY <1>0, <1>1, <2>2, <2>3, <2>4, SMT
<1>2. CASE e.second > 32400 /\ e.second < 36000
  <2>1. run = e.day * 86400 + 32400
    BY <1>0, <1>2, SMT DEF ResetTime, Hour, Minute
  <2> QED
    BY <1>2, <2>1
<1>3. CASE e.second >= 36000 /\ e.second <= 79200
  <2>1. run = last
    BY <1>0, <1>3, SMT DEF ResetTime, Hour, Minute
  <2>2. run % 86400 = e.second - 3600
    <3>1. run \in Int /\ e.day * 86400 <= run /\ run < e.day * 86400 + 86400
      BY <1>0, <1>3, <2>1, SMT
    <3>2. run % 86400 = run - e.day * 86400
      BY <1>0, <3>1, SecondOfDay
    <3> QED
      BY <1>0, <2>1, <3>2, SMT
  <2>3. run + 1..last = {}
    BY <1>0, <2>1, SMT
  <2> QED
    BY <1>0, <1>3, <2>1, <2>2, <2>3, SMT
<1>4. CASE e.second > 79200
  <2>1. run = e.day * 86400 + 75600
    BY <1>0, <1>4, SMT DEF ResetTime, Hour, Minute
  <2>2. run % 86400 = 75600
    <3>1. run \in Int /\ e.day * 86400 <= run /\ run < e.day * 86400 + 86400
      BY <1>0, <2>1, SMT
    <3>2. run % 86400 = run - e.day * 86400
      BY <1>0, <3>1, SecondOfDay
    <3> QED
      BY <1>0, <2>1, <3>2, SMT
  <2>3. run <= last
    BY <1>0, <1>4, <2>1, SMT
  <2>4. ASSUME NEW n \in run + 1..last
        PROVE  ~(n % 86400 >= 32400 /\ n % 86400 <= 75600)
    <3>1. e.day * 86400 + 75600 < n /\ n <= e.day * 86400 + 86400 + 28800 /\ n \in Int
      BY <1>0, <2>1, SMT
    <3> QED
      BY <1>0, <3>1, NothingAtNight
  <2> QED
    BY <1>0, <1>4, <2>2, <2>3, <2>4, SMT
<1> QED
  BY <1>0, <1>1, <1>2, <1>3, <1>4, SMT

\* For every expiry the plan is the latest second that the documented policy
\* allows.
THEOREM PlansAreLatest == Spec => []PlanIsLatest
<1>1. ExpiryInv => PlanIsLatest
  <2> SUFFICES ASSUME ExpiryInv
               PROVE  PlanIsLatest
    OBVIOUS
  <2> DEFINE run == ResetTime(expiry).day * Day + ResetTime(expiry).second
             last == (expiry.day * Day + expiry.second) - Hour
  <2>1. Day = 86400 /\ Hour = 3600 /\ 9 * Hour = 32400 /\ 10 * Hour = 36000 /\ 21 * Hour = 75600
    BY SMT DEF Day, Hour, Minute
  <2>2. /\ run = ResetTime(expiry).day * 86400 + ResetTime(expiry).second
        /\ last = expiry.day * 86400 + expiry.second - 3600
    BY <2>1, SMT DEF ExpiryInv, Times
  <2>3. IF expiry.second > 9 * Hour /\ expiry.second < 10 * Hour
        THEN run = expiry.day * Day + 9 * Hour
        ELSE /\ run % Day >= 9 * Hour /\ run % Day <= 21 * Hour /\ run <= last
             /\ \A n \in run + 1..last : ~(n % Day >= 9 * Hour /\ n % Day <= 21 * Hour)
    <3> HIDE DEF run, last
    <3>1. IF expiry.second > 32400 /\ expiry.second < 36000
          THEN run = expiry.day * 86400 + 32400
          ELSE /\ run % 86400 >= 32400 /\ run % 86400 <= 75600 /\ run <= last
               /\ \A n \in run + 1..last : ~(n % 86400 >= 32400 /\ n % 86400 <= 75600)
      BY <2>2, LatestSecond DEF ExpiryInv
    <3> QED
      BY <2>1, <3>1, SMT
  <2> QED
    BY <2>3, Zenon DEF PlanIsLatest
<1> QED
  BY <1>1, ExpiryInvariant, PTL

\* What the run checks of every plan, for every expiry.
THEOREM PlansAreSafe == Spec => []ScheduleSafe
<1>1. PlanIsRunnable /\ PlanIsLatest /\ LatencyTolerated => ScheduleSafe
  BY DEF ScheduleSafe
<1> QED
  BY <1>1, PlansAreRunnable, PlansAreLatest, LatencyIsTolerated, PTL

-----------------------------------------------------------------------------
(* Notices. The row is inserted by one replica only, and what follows the  *)
(* insertion happens at most once: for any number of replicas and crashes  *)
(* the notice is posted at most once.                                      *)

Past == {"send", "sent", "unconfirmed"}

NoticeTypeOK ==
    /\ notice \in {"none", "claimed", "sent", "unconfirmed"}
    /\ notifier \in [Notifiers -> {"idle", "claim"} \cup Past]
    /\ posted \in Nat

\* One replica at most is past the claim; before the claim nothing is posted,
\* and before the post neither.
ClaimIsExclusive ==
    /\ \A m, n \in Notifiers : notifier[m] \in Past /\ notifier[n] \in Past => m = n
    /\ notice = "none" => posted = 0 /\ \A n \in Notifiers : notifier[n] \notin Past
    /\ \A n \in Notifiers : notifier[n] = "send" => posted = 0 /\ notice # "sent"
    /\ \A n \in Notifiers : notifier[n] = "sent" => posted = 1

NoticeInv == NoticeTypeOK /\ ClaimIsExclusive /\ NoticePostedOnce /\ SentMeansPosted

\* Nothing has been claimed or posted.
LEMMA NoticeInitially == NoticeInit => NoticeInv
  BY DEF NoticeInit, NoticeInv, NoticeTypeOK, ClaimIsExclusive, NoticePostedOnce, SentMeansPosted, Past

\* Every step of a replica preserves the invariant: the claim lets one replica
\* pass, and the post takes it out of "send".
LEMMA NoticeStep ==
    ASSUME NoticeInv, [NoticeNext]_noticeVars
    PROVE  NoticeInv'
<1> USE DEF NoticeInv, NoticeTypeOK, ClaimIsExclusive, NoticePostedOnce, SentMeansPosted, Past, Notify
<1>1. CASE UNCHANGED noticeVars
  BY <1>1 DEF noticeVars
<1>2. CASE NoticeNext
  <2> PICK n \in Notifiers : \/ NoticeDue(n) \/ ClaimResetNotice(n) \/ SendNotice(n)
                             \/ FinishResetNotice(n) \/ NotifierStops(n)
    BY <1>2 DEF NoticeNext
  <2>1. CASE NoticeDue(n)
    BY <2>1 DEF NoticeDue
  <2>2. CASE ClaimResetNotice(n)
    <3>1. CASE notice = "none"
      BY <2>2, <3>1 DEF ClaimResetNotice
    <3>2. CASE notice # "none"
      BY <2>2, <3>2 DEF ClaimResetNotice
    <3> QED
      BY <3>1, <3>2
  <2>3. CASE SendNotice(n)
    <3> PICK p \in {0, 1}, result \in {"sent", "unconfirmed"} :
               /\ result = "sent" => p = 1
               /\ posted' = posted + p
               /\ notifier' = [notifier EXCEPT ![n] = result]
      BY <2>3 DEF SendNotice
    <3>1. notifier[n] = "send" /\ UNCHANGED notice
      BY <2>3 DEF SendNotice
    <3>2. posted = 0 /\ notice # "none" /\ notice # "sent" /\ posted' = p
      BY <3>1
    <3>3. NoticeTypeOK' /\ NoticePostedOnce' /\ SentMeansPosted'
      BY <3>1, <3>2
    <3>4. ClaimIsExclusive'
      BY <3>1, <3>2
    <3> QED
      BY <3>3, <3>4
  <2>4. CASE FinishResetNotice(n)
    <3>1. CASE notifier[n] = "sent"
      BY <2>4, <3>1 DEF FinishResetNotice
    <3>2. CASE notifier[n] = "unconfirmed"
      BY <2>4, <3>2 DEF FinishResetNotice
    <3> QED
      BY <2>4, <3>1, <3>2 DEF FinishResetNotice
  <2>5. CASE NotifierStops(n)
    BY <2>5 DEF NotifierStops
  <2> QED
    BY <2>1, <2>2, <2>3, <2>4, <2>5
<1> QED
  BY <1>1, <1>2

\* SendDue posts the notice of a day at most once, although the tool has no
\* idempotency key and replicas may stop anywhere.
THEOREM PostedAtMostOnce == NoticeSpec => []NoticePostedOnce
<1>1. NoticeInv => NoticePostedOnce
  BY DEF NoticeInv
<1> QED
  BY NoticeInitially, NoticeStep, <1>1, PTL DEF NoticeSpec

\* A row that FinishResetNotice has marked as sent stands for a posted message.
THEOREM SentIsPosted == NoticeSpec => []SentMeansPosted
<1>1. NoticeInv => SentMeansPosted
  BY DEF NoticeInv
<1> QED
  BY NoticeInitially, NoticeStep, <1>1, PTL DEF NoticeSpec

\* What the run checks of a notice, for any number of processes.
THEOREM NoticesAreTrue == NoticeSpec => []NoticeIsTrue
<1>1. NoticePostedOnce /\ SentMeansPosted => NoticeIsTrue
  BY DEF NoticeIsTrue
<1> QED
  BY <1>1, PostedAtMostOnce, SentIsPosted, PTL

-----------------------------------------------------------------------------
(* The daily report: the lease of the day and what was frozen with it.     *)

Sending(r) == reporter[r].at \in {"send", "finish", "retry"}

\* The replica that sends has the frozen payload and a lease that outlives its
\* context; it is the only one; and all that was ever delivered is what is frozen.
ReportInv ==
    /\ ReportTypeOK
    /\ \A r \in Reporters : reporter[r].at = "claim" => reporter[r].payload \in Payloads
    /\ \A r \in Reporters : Sending(r) =>
          /\ reporter[r].left < report.lease
          /\ report.attempts > 0 /\ reporter[r].payload = report.payload
    /\ \A r, s \in Reporters : Sending(r) /\ Sending(s) => r = s
    /\ report.attempts > 0 => report.payload \in Payloads
    /\ delivered \subseteq (IF report.attempts = 0 THEN {} ELSE {report.payload})

Replica == [at : {"idle", "claim", "send", "finish", "retry"},
            payload : Payloads \cup {NoPayload}, left : 0..SendTime]
ReportRow == [payload : Payloads \cup {NoPayload}, attempts : 0..MaxReportAttempts,
              lease : 0..Lease, sent : BOOLEAN]

\* One replica goes on with what it has, the row does not change for the others.
LEMMA ReplicaGoesOn ==
    ASSUME ReportInv, NEW r \in Reporters, NEW f \in Replica, Reports(r, f),
           NEW row \in ReportRow, report' = row,
           f.at = "claim" => f.payload \in Payloads,
           f.at \in {"send", "finish", "retry"} =>
              /\ f.left < row.lease /\ row.attempts > 0 /\ f.payload = row.payload
              /\ \A s \in Reporters \ {r} : ~Sending(s),
           \A s \in Reporters \ {r} : Sending(s) =>
              row.lease = report.lease /\ row.attempts = report.attempts /\ row.payload = report.payload,
           row.attempts > 0 => row.payload \in Payloads,
           delivered' \subseteq (IF row.attempts = 0 THEN {} ELSE {row.payload})
    PROVE  ReportInv'
<1>1. /\ reporter \in [Reporters -> Replica] /\ reporter' = [reporter EXCEPT ![r] = f]
  BY DEF ReportInv, ReportTypeOK, Replica, Reports
<1>2. /\ reporter' \in [Reporters -> Replica] /\ reporter'[r] = f
      /\ \A s \in Reporters \ {r} : reporter'[s] = reporter[s]
  BY <1>1
<1>3. ReportTypeOK'
  <2>1. delivered' \subseteq Payloads
    <3>1. row.attempts \in Nat
      BY ReportAssumption DEF ReportRow
    <3> QED
      BY <3>1
  <2> QED
    BY <1>2, <2>1 DEF ReportTypeOK, Replica, ReportRow
<1>4. \A s \in Reporters : reporter'[s].at = "claim" => reporter'[s].payload \in Payloads
  BY <1>2 DEF ReportInv
<1>5. \A s \in Reporters : Sending(s)' =>
          /\ reporter'[s].left < report'.lease
          /\ report'.attempts > 0 /\ reporter'[s].payload = report'.payload
  BY <1>2 DEF ReportInv, Sending
<1>6. \A s, t \in Reporters : Sending(s)' /\ Sending(t)' => s = t
  BY <1>2 DEF ReportInv, Sending
<1> QED
  BY <1>3, <1>4, <1>5, <1>6 DEF ReportInv

\* A replica that gives up, or ends, while the row stays.
LEMMA ReplicaStops ==
    ASSUME ReportInv, NEW r \in Reporters, Reports(r, NoSend), UNCHANGED <<report, delivered>>
    PROVE  ReportInv'
<1>1. NoSend \in Replica /\ NoSend.at = "idle"
  BY ReportAssumption DEF NoSend, Replica
<1>2. PICK row \in ReportRow : row = report
  BY DEF ReportInv, ReportTypeOK, ReportRow
<1> QED
  BY <1>1, <1>2, ReplicaGoesOn DEF ReportInv

\* A claim is given only once the lease of the last holder is over.
LEMMA ClaimKeepsReport ==
    ASSUME ReportInv, NEW r \in Reporters, ClaimDailyReport(r)
    PROVE  ReportInv'
<1> DEFINE p == IF report.attempts = 0 THEN reporter[r].payload ELSE report.payload
           f == [reporter[r] EXCEPT !.at = "send", !.payload = p]
           row == [payload |-> p, attempts |-> report.attempts + 1, lease |-> Lease, sent |-> FALSE]
<1>1. CASE ~Claimable
  BY <1>1, ReplicaStops DEF ClaimDailyReport
<1>2. CASE Claimable
  <2>1. /\ report' = row /\ Reports(r, f) /\ UNCHANGED delivered
        /\ report.lease = 0 /\ report.attempts < MaxReportAttempts /\ reporter[r].at = "claim"
    BY <1>2 DEF ClaimDailyReport, Claim, Claimable
  <2>2. /\ reporter[r] \in Replica /\ report \in ReportRow
        /\ reporter \in [Reporters -> Replica]
    BY DEF ReportInv, ReportTypeOK, Replica, ReportRow
  <2>3. p \in Payloads
    BY <2>1, <2>2 DEF ReportInv, ReportRow
  <2>4. \A s \in Reporters : ~Sending(s)
    <3>1. \A s \in Reporters : reporter[s].left \in 0..SendTime
      BY <2>2 DEF Replica
    <3> QED
      BY <2>1, <3>1, ReportAssumption DEF ReportInv
  <2>5. delivered \subseteq {p}
    BY DEF ReportInv
  <2> HIDE DEF p
  <2>6. f \in Replica /\ f.at = "send" /\ f.payload = p /\ f.left \in 0..SendTime
    BY <2>2, <2>3 DEF Replica
  <2>7. /\ row \in ReportRow /\ row.lease = Lease /\ row.payload = p /\ row.attempts > 0
    BY <2>1, <2>2, <2>3, ReportAssumption DEF ReportRow
  <2> HIDE DEF f, row
  <2>8. /\ f.left < row.lease /\ row.attempts # 0 /\ delivered' \subseteq {row.payload}
    BY <2>1, <2>5, <2>6, <2>7, ReportAssumption DEF ReportRow
  <2>9. PICK f1 \in Replica, row1 \in ReportRow : f1 = f /\ row1 = row
    BY <2>6, <2>7
  <2> QED
    BY <2>1, <2>3, <2>4, <2>6, <2>7, <2>8, <2>9, ReplicaGoesOn
<1> QED
  BY <1>1, <1>2

\* The steps of one replica keep the frozen body and its one holder.
LEMMA ReporterKeeps ==
    ASSUME ReportInv, NEW r \in Reporters, ReporterStep(r)
    PROVE  ReportInv'
<1>1. /\ reporter \in [Reporters -> Replica] /\ reporter[r] \in Replica /\ report \in ReportRow
      /\ NoSend \in Replica /\ NoSend.at = "idle" /\ SendTime \in 0..SendTime
  BY ReportAssumption DEF ReportInv, ReportTypeOK, Replica, ReportRow, NoSend
<1>2. PICK old \in ReportRow : old = report
  BY <1>1
<1>3. CASE RenderReport(r)
  <2>1. PICK p \in Payloads : Reports(r, [at |-> "claim", payload |-> p, left |-> SendTime])
    BY <1>3 DEF RenderReport
  <2>2. [at |-> "claim", payload |-> p, left |-> SendTime] \in Replica
    BY <1>1 DEF Replica
  <2>3. UNCHANGED <<report, delivered>>
    BY <1>3 DEF RenderReport
  <2> QED
    BY <1>2, <2>1, <2>2, <2>3, ReplicaGoesOn DEF ReportInv
<1>4. CASE SendReport(r)
  <2>1. PICK given \in BOOLEAN, at \in {"finish", "retry"} :
           /\ delivered' = IF given THEN delivered \cup {reporter[r].payload} ELSE delivered
           /\ Reports(r, [reporter[r] EXCEPT !.at = at])
    BY <1>4 DEF SendReport
  <2>2. reporter[r].at = "send" /\ Sending(r) /\ UNCHANGED report
    BY <1>4 DEF SendReport, Sending
  <2> DEFINE f == [reporter[r] EXCEPT !.at = at]
  <2>3. f \in Replica /\ f.at = at /\ f.payload = reporter[r].payload /\ f.left = reporter[r].left
    BY <1>1 DEF Replica
  <2>4. Reports(r, f)
    BY <2>1
  <2> HIDE DEF f
  <2>5. /\ f.left < old.lease /\ old.attempts > 0 /\ f.payload = old.payload
        /\ \A s \in Reporters \ {r} : ~Sending(s)
    BY <1>2, <2>2, <2>3 DEF ReportInv
  <2>6. delivered' \subseteq {old.payload}
    BY <1>2, <2>1, <2>3, <2>5 DEF ReportInv
  <2>7. old.attempts # 0 /\ old.payload \in Payloads
    BY <1>2, <2>5 DEF ReportInv, ReportRow
  <2> QED
    BY <1>2, <2>2, <2>3, <2>4, <2>5, <2>6, <2>7, ReplicaGoesOn
<1>5. CASE FinishDailyReport(r) \/ (RetryDailyReport(r) /\ ~report.sent)
  <2>1. /\ Reports(r, NoSend) /\ UNCHANGED delivered /\ Sending(r)
        /\ report' = [report EXCEPT !.sent = TRUE] \/ report' = [report EXCEPT !.lease = RetryDelay]
    BY <1>5 DEF FinishDailyReport, RetryDailyReport, Sending
  <2>2. /\ [report EXCEPT !.sent = TRUE] \in ReportRow /\ [report EXCEPT !.lease = RetryDelay] \in ReportRow
    BY <1>1, ReportAssumption DEF ReportRow
  <2>3. PICK row \in ReportRow : report' = row /\ row.attempts = report.attempts /\ row.payload = report.payload
    <3>1. report'.attempts = report.attempts /\ report'.payload = report.payload /\ report' \in ReportRow
      BY <1>1, <2>1, <2>2 DEF ReportRow
    <3> QED
      BY <3>1
  <2>4. \A s \in Reporters \ {r} : ~Sending(s)
    BY <2>1 DEF ReportInv
  <2> QED
    BY <1>1, <2>1, <2>3, <2>4, ReplicaGoesOn DEF ReportInv
<1>6. CASE RetryDailyReport(r) /\ report.sent
  BY <1>6, ReplicaStops DEF RetryDailyReport
<1> QED
  BY <1>3, <1>4, <1>5, <1>6, ClaimKeepsReport DEF ReporterStep

\* Time and replicas that stop keep them too.
LEMMA ReportInvNext == ReportInv /\ [ReportNext]_reportVars => ReportInv'
<1> SUFFICES ASSUME ReportInv, [ReportNext]_reportVars PROVE ReportInv'
  OBVIOUS
<1>1. CASE ReportMinute
  <2>1. /\ reporter \in [Reporters -> Replica] /\ report \in ReportRow /\ NoSend \in Replica
        /\ report.lease > 0 /\ UNCHANGED delivered
        /\ \A r \in Reporters : reporter[r].at # "idle" => reporter[r].left > 0
    BY <1>1, ReportAssumption DEF ReportMinute, ReportInv, ReportTypeOK, Replica, ReportRow, NoSend
  <2>2. /\ report' = [report EXCEPT !.lease = report.lease - 1]
        /\ reporter' = [r \in Reporters |-> IF reporter[r].at = "idle" THEN NoSend
                                        ELSE [reporter[r] EXCEPT !.left = reporter[r].left - 1]]
    BY <1>1 DEF ReportMinute
  <2>3. /\ report' \in ReportRow /\ report'.lease = report.lease - 1 /\ report'.attempts = report.attempts
        /\ report'.payload = report.payload
    BY <2>1, <2>2, ReportAssumption DEF ReportRow
  <2>4. ASSUME NEW r \in Reporters
        PROVE  /\ reporter'[r] \in Replica
               /\ \/ reporter[r].at = "idle" /\ reporter'[r].at = "idle"
                  \/ /\ reporter'[r].at = reporter[r].at /\ reporter'[r].payload = reporter[r].payload
                     /\ reporter'[r].left = reporter[r].left - 1
    <3>1. CASE reporter[r].at = "idle"
      BY <2>1, <2>2, <3>1 DEF NoSend
    <3>2. CASE reporter[r].at # "idle"
      <4>1. reporter'[r] = [reporter[r] EXCEPT !.left = reporter[r].left - 1]
        BY <2>2, <3>2
      <4>2. reporter[r].left - 1 \in 0..SendTime /\ reporter[r] \in Replica
        BY <2>1, <3>2, ReportAssumption DEF Replica
      <4> QED
        BY <4>1, <4>2 DEF Replica
    <3> QED
      BY <3>1, <3>2
  <2>5. reporter' \in [Reporters -> Replica]
    BY <2>2, <2>4
  <2>6. ReportTypeOK'
    BY <2>1, <2>3, <2>5 DEF ReportTypeOK, ReportInv, Replica, ReportRow
  <2>7. \A r \in Reporters : Sending(r)' => Sending(r) /\ reporter'[r].left < report'.lease
                                            /\ reporter'[r].payload = reporter[r].payload
    <3>1. \A r \in Reporters : reporter[r].left \in Int /\ report.lease \in Int
      BY <2>1, ReportAssumption DEF Replica, ReportRow
    <3> QED
      BY <2>3, <2>4, <3>1 DEF Sending, ReportInv
  <2> QED
    BY <2>1, <2>3, <2>4, <2>6, <2>7 DEF ReportInv
<1>2. CASE UNCHANGED reportVars
  BY <1>2 DEF reportVars, ReportInv, ReportTypeOK, Sending
<1>3. ASSUME NEW r \in Reporters, ReporterStops(r)
      PROVE  ReportInv'
  BY <1>3, ReplicaStops DEF ReporterStops
<1> QED
  BY <1>1, <1>2, <1>3, ReporterKeeps DEF ReportNext

\* However often the day is claimed and its sender crashes or its answer is
\* lost: one e-mail, one replica at a time.
THEOREM OneReport == ReportSpec => []ReportSafe
<1>1. ReportInit => ReportInv
  <2> SUFFICES ASSUME ReportInit PROVE ReportInv
    OBVIOUS
  <2>1. NoSend \in Replica /\ NoSend.at = "idle"
    BY ReportAssumption DEF NoSend, Replica
  <2>2. report \in ReportRow /\ report.attempts = 0
    BY ReportAssumption DEF ReportInit, ReportRow
  <2> QED
    BY <2>1, <2>2 DEF ReportInit, ReportInv, ReportTypeOK, Sending, Replica, ReportRow
<1>2. ReportInv => ReportSafe
  <2> SUFFICES ASSUME ReportInv PROVE ReportSafe
    OBVIOUS
  <2>1. ASSUME NEW S, NEW x, S \subseteq {x}
        PROVE  Cardinality(S) <= 1
    <3>1. CASE S = {}
      <4>1. Cardinality({}) = 0
        BY FS_EmptySet
      <4> QED
        BY <3>1, <4>1
    <3>2. CASE S = {x}
      <4>1. Cardinality({x}) = 1
        BY FS_Singleton
      <4> QED
        BY <3>2, <4>1
    <3> QED
      BY <2>1, <3>1, <3>2
  <2>2. OneReportPerDay
    <3>1. delivered \subseteq {report.payload}
      BY DEF ReportInv
    <3> QED
      BY <2>1, <3>1 DEF OneReportPerDay
  <2>3. OneReporterAtATime
    <3> DEFINE B == {r \in Reporters : Sending(r)}
    <3>1. \E x : B \subseteq {x}
      <4>1. CASE B = {}
        BY <4>1
      <4>2. ASSUME NEW r \in B
            PROVE  B \subseteq {r}
        BY <4>2 DEF ReportInv
      <4> QED
        BY <4>1, <4>2
    <3>2. Cardinality(B) <= 1
      BY <2>1, <3>1
    <3> QED
      BY <3>2 DEF OneReporterAtATime, Sending
  <2> QED
    BY <2>2, <2>3 DEF ReportSafe, ReportInv
<1> QED
  BY <1>1, <1>2, ReportInvNext, PTL DEF ReportSpec

-----------------------------------------------------------------------------
(* Sessions with the Codex app server: whose answer is under way, the      *)
(* redemption, and the operation.                                          *)

Credits == {"nil", "zero", "counted", "detailed"}
SomeOutcome == RedeemOutcomes \cup {"none", "empty"}
SomeLimit == Limits \cup {NoLimits}
Bodies == [credits : Credits, limits : SomeLimit, outcome : SomeOutcome, page : Nat, next : Nat]
Methods == {"none", "initialize", "login", "read", "consume", "list", "token"}
Requests == [id : Nat, method : Methods, arg : Nat]
Messages == [kind : {"result", "error", "refresh", "notice", "garbage"}, id : Nat, body : Bodies]
JobTypes ==
    [kind : {"usage", "credits", "consume", "models"},
     at : {"new", "init", "login", "op", "close", "reap", "done"}, tries : Nat, outcome : SomeOutcome,
     pages : Seq(Nat), credits : Credits, limits : SomeLimit,
     usage : {NoUsage} \cup {NormalizeAppServerRateLimits(l) : l \in SomeLimit}, result : {"none", "ok", "error"}]
CallTypes == [at : {"idle", "send", "wait", "ok", "failed"}, id : Nat, method : Methods, arg : Nat, body : Bodies]

AppTypeOK ==
    /\ job \in JobTypes /\ call \in CallTypes
    /\ child \in {"none", "running", "dead", "reaped"} /\ dir \in BOOLEAN /\ over \in BOOLEAN
    /\ stdin \in Seq(Requests) /\ stdout \in Seq(Messages) /\ held \in Requests
    /\ noise \in Nat /\ spent \in SomeOutcome /\ total \in Nat \ {0} /\ stray \in BOOLEAN

\* What the call is for; calls are numbered upwards.
Calling(j, c) ==
    /\ j.at = "init" => c.id = 1 /\ c.method = "initialize"
    /\ j.at = "login" => c.id = 2 /\ c.method = "login"
    /\ j.at = "op" =>
         /\ c.id >= 3
         /\ j.kind \in {"usage", "credits"} => c.method = "read"
         /\ j.kind = "models" => /\ c.method = "list"
                                 /\ c.arg = IF Len(j.pages) = 0 THEN 0 ELSE Len(j.pages) + 1
         /\ j.kind = "consume" => IF j.outcome = "none" THEN c.id = 3 /\ c.method = "consume"
                                  ELSE c.id > 3 /\ c.method = "read"

\* What a request or a message says belongs to the call in progress, or to an
\* earlier one; a message that is no answer says nothing.
PageOf(arg, b) ==
    LET page == IF arg = 0 THEN 1 ELSE arg
    IN b.page = page /\ IF page < total THEN b.next = page + 1 ELSE b.next \in {0, arg}
Answers(c, b) ==
    /\ c.method = "list" => PageOf(c.arg, b) \/ (stray /\ b.page = 0 /\ b.next = 0)
    /\ c.method = "consume" => (spent # "none" /\ b.outcome = spent) \/ (stray /\ b.outcome = "none")

Asks(c, r) == r.id < c.id \/ (r.id = c.id /\ c.at # "send" /\ r.method = c.method /\ r.arg = c.arg)
Says(c, m) ==
    m.kind \in {"result", "notice"} => m.id < c.id \/ (m.id = c.id /\ (c.at # "send" \/ stray) /\ Answers(c, m.body))

Active(j) == j.at \in {"init", "login", "op"}

CallInv ==
    /\ Calling(job, call)
    /\ Active(job) =>
         /\ \A i \in 1..Len(stdin) : Asks(call, stdin[i])
         /\ held # NoRequest => Asks(call, held)
         /\ \A i \in 1..Len(stdout) : Says(call, stdout[i])
         /\ call.at = "ok" => Answers(call, call.body)

\* A redemption is asked for once and done once.
ConsumeInv ==
    /\ \A i \in 1..Len(stdin) : stdin[i].method = "consume" => stdin[i].id = 3 /\ spent = "none"
    /\ \A i, k \in 1..Len(stdin) : stdin[i].method = "consume" /\ stdin[k].method = "consume" => i = k
    /\ held.method = "consume" =>
         held.id = 3 /\ spent = "none" /\ \A i \in 1..Len(stdin) : stdin[i].method # "consume"
    /\ call.method = "consume" => call.id = 3
    /\ call.method = "consume" /\ call.at = "send" =>
         spent = "none" /\ held.method # "consume" /\ \A i \in 1..Len(stdin) : stdin[i].method # "consume"
    /\ job.at \in {"new", "init", "login"} => spent = "none"
    /\ job.outcome # "none" => job.outcome = spent \/ (stray /\ job.outcome = "empty")

\* The listing has all pages, or ends in what was no page.
Listed(pages) ==
    \/ Len(pages) = total /\ \A i \in 1..Len(pages) : pages[i] = i
    \/ /\ stray /\ Len(pages) \in 1..(total + 1)
       /\ \A i \in 1..Len(pages) : pages[i] = IF i < Len(pages) THEN i ELSE 0

\* The operation.
JobInv ==
    /\ job.at = "new" => /\ child = "none" /\ ~dir /\ call = Idle /\ held = NoRequest
                         /\ stdin = <<>> /\ stdout = <<>>
    /\ job.at = "reap" => child = "dead"
    /\ job.at = "done" => child \in {"none", "reaped"} /\ ~dir
    /\ job.at \in {"new", "init", "login"} => job.outcome = "none" /\ job.pages = <<>> /\ job.usage = NoUsage
    /\ job.at = "new" \/ Active(job) => job.result = "none"
    /\ job.kind = "models" /\ Active(job) => Len(job.pages) < total /\ \A i \in 1..Len(job.pages) : job.pages[i] = i
    /\ job.kind = "models" /\ job.result = "ok" => Listed(job.pages)
    /\ job.usage = NoUsage \/ job.usage = NormalizeAppServerRateLimits(job.limits)
    /\ job.at \in {"close", "reap", "done"} =>
         /\ job.kind = "consume" => (job.result = "ok" <=> job.outcome # "none")
         /\ job.kind \in {"credits", "consume"} /\ job.result = "ok" => job.credits # "counted"
    /\ job.kind # "consume" => job.outcome = "none"

AppInv == AppTypeOK /\ CallInv /\ ConsumeInv /\ JobInv

\* A message at the end of a pipe comes after all that were there.
LEMMA AppendFacts ==
    ASSUME NEW S, NEW s \in Seq(S), NEW e \in S
    PROVE  /\ Append(s, e) \in Seq(S) /\ Len(Append(s, e)) = Len(s) + 1 /\ Len(s) \in Nat
           /\ \A i \in 1..Len(s) : Append(s, e)[i] = s[i]
           /\ Append(s, e)[Len(s) + 1] = e
           /\ \A i \in 1..Len(Append(s, e)) : i \in 1..Len(s) \/ i = Len(s) + 1
  OBVIOUS

\* The message at the head of a pipe leaves the others in their order.
LEMMA TailFacts ==
    ASSUME NEW S, NEW s \in Seq(S), s # <<>>
    PROVE  /\ Head(s) \in S /\ Head(s) = s[1] /\ 1 \in 1..Len(s)
           /\ Tail(s) \in Seq(S) /\ Len(s) \in Nat /\ Len(Tail(s)) = Len(s) - 1
           /\ \A i \in 1..Len(Tail(s)) : i + 1 \in 1..Len(s) /\ Tail(s)[i] = s[i + 1]
  OBVIOUS

\* The values a session starts from have their types.
LEMMA AppConstants ==
    /\ NoLimits \in SomeLimit /\ Body \in Bodies /\ Idle \in CallTypes /\ NoRequest \in Requests
    /\ Body.outcome = "none" /\ Body.credits = "nil" /\ NoUsage.given = FALSE
    /\ Idle.at = "idle" /\ Idle.id = 0 /\ Idle.method = "none"
    /\ NoRequest.id = 0 /\ NoRequest.method = "none" /\ NoRequest.arg = 0
<1>1. NoLimits \in SomeLimit
  BY DEF SomeLimit
<1>2. Body \in Bodies /\ Body.outcome = "none" /\ Body.credits = "nil"
  BY <1>1 DEF Body, Bodies, Credits, SomeOutcome
<1> QED
  BY <1>1, <1>2 DEF Idle, CallTypes, NoRequest, Requests, Methods, NoUsage

\* The parts of the invariant that a step may disturb.
LEMMA AppFacts ==
    ASSUME AppInv
    PROVE  /\ job \in JobTypes /\ call \in CallTypes
           /\ child \in {"none", "running", "dead", "reaped"} /\ dir \in BOOLEAN /\ over \in BOOLEAN
           /\ stdin \in Seq(Requests) /\ stdout \in Seq(Messages) /\ held \in Requests
           /\ noise \in Nat /\ spent \in SomeOutcome /\ total \in Nat \ {0} /\ stray \in BOOLEAN
           /\ Calling(job, call)
  BY DEF AppInv, AppTypeOK, CallInv

\* Whatever is in a pipe is a request or a message with a number.
LEMMA QueuedFacts ==
    ASSUME AppInv
    PROVE  /\ \A i \in 1..Len(stdin) : stdin[i] \in Requests /\ stdin[i].id \in Nat
           /\ \A i \in 1..Len(stdout) : stdout[i] \in Messages /\ stdout[i].id \in Nat
           /\ held \in Requests /\ held.id \in Nat /\ call.id \in Nat
<1>1. \A i \in 1..Len(stdin) : stdin[i] \in Requests
  BY AppFacts
<1>2. \A i \in 1..Len(stdout) : stdout[i] \in Messages
  BY AppFacts
<1>3. \A q \in Requests : q.id \in Nat
  BY DEF Requests
<1>4. \A m \in Messages : m.id \in Nat
  BY DEF Messages
<1>5. held \in Requests /\ call.id \in Nat
  BY AppFacts DEF CallTypes
<1> QED
  BY <1>1, <1>2, <1>3, <1>4, <1>5

\* What the child has said without being asked makes no other answer wrong.
LEMMA StillSaid ==
    ASSUME stray => stray', UNCHANGED <<call, spent, total>>
    PROVE  /\ \A b : Answers(call, b) => Answers(call, b)'
           /\ \A m : Says(call, m) => Says(call, m)'
           /\ \A pages : Listed(pages) => Listed(pages)'
<1>1. \A b : Answers(call, b) => Answers(call, b)'
  BY DEF Answers, PageOf
<1>2. \A pages : Listed(pages) => Listed(pages)'
  BY DEF Listed
<1> QED
  BY <1>1, <1>2 DEF Says

\* What does not touch the operation, its call or the queues of the child.
LEMMA ElsewhereStep ==
    ASSUME AppInv, UNCHANGED <<job, call, stdin, held, spent, total>>, stray' \in BOOLEAN, stray => stray',
           child' = child \/ (child = "running" /\ child' = "dead"), dir' = dir, over' \in BOOLEAN, noise' \in Nat,
           \/ stdout' = stdout
           \/ /\ child = "running"
              /\ \E kind \in {"notice", "garbage"}, id \in {0, call.id} :
                   /\ stdout' = Append(stdout, [kind |-> kind, id |-> id, body |-> Body])
                   /\ kind = "notice" /\ id # 0 => stray'
    PROVE  AppInv'
<1>1. child = "running" => job.at # "new"
  BY DEF AppInv, JobInv
<1>2. /\ stdout' \in Seq(Messages) /\ (stdout' # stdout => child = "running")
      /\ \A i \in 1..Len(stdout') : \E m \in Messages :
           /\ stdout'[i] = m
           /\ (\E k \in 1..Len(stdout) : m = stdout[k]) \/ (Active(job) => Says(call, m)')
  <2>1. CASE stdout' = stdout
    BY <2>1, AppFacts
  <2>2. CASE /\ child = "running"
             /\ \E kind \in {"notice", "garbage"}, id \in {0, call.id} :
                  /\ stdout' = Append(stdout, [kind |-> kind, id |-> id, body |-> Body])
                  /\ kind = "notice" /\ id # 0 => stray'
    <3>1. PICK kind \in {"notice", "garbage"}, id \in {0, call.id} :
                  /\ stdout' = Append(stdout, [kind |-> kind, id |-> id, body |-> Body])
                  /\ kind = "notice" /\ id # 0 => stray'
      BY <2>2
    <3>2. PICK m : m = [kind |-> kind, id |-> id, body |-> Body]
      OBVIOUS
    <3>3. id \in Nat /\ call.id \in Nat /\ call'= call /\ (Active(job) => call.id > 0)
      BY QueuedFacts, AppFacts DEF Active, Calling
    <3>4. m \in Messages /\ m.kind = kind /\ m.id = id /\ m.body = Body
      BY <3>2, <3>3, AppConstants DEF Messages
    <3>5. Body.page = 0 /\ Body.next = 0 /\ Body.outcome = "none"
      BY DEF Body
    <3>6. id # 0 => kind # "notice" \/ Answers(call, m.body)'
      BY <3>1, <3>4, <3>5 DEF Answers
    <3>7. Active(job) => Says(call, m)'
      BY <3>1, <3>3, <3>4, <3>6 DEF Says
    <3>8. stdout \in Seq(Messages)
      BY AppFacts
    <3> QED
      BY <2>2, <3>1, <3>2, <3>4, <3>7, <3>8, AppendFacts
  <2> QED
    BY <2>1, <2>2
<1>3. AppTypeOK'
  BY <1>2, AppFacts DEF AppTypeOK
<1>4. CallInv'
  <2>1. ASSUME Active(job), NEW i \in 1..Len(stdout')
        PROVE  \E m : stdout'[i] = m /\ Says(call, m)'
    <3>1. PICK m \in Messages :
            /\ stdout'[i] = m
            /\ (\E k \in 1..Len(stdout) : m = stdout[k]) \/ Says(call, m)'
      BY <1>2, <2>1
    <3>2. \A k \in 1..Len(stdout) : Says(call, stdout[k])
      BY <2>1 DEF AppInv, CallInv
    <3>3. \A n : Says(call, n) => Says(call, n)'
      BY StillSaid
    <3> QED
      BY <3>1, <3>2, <3>3
  <2> QED
    BY <2>1, StillSaid DEF AppInv, CallInv
<1>5. ConsumeInv'
  BY DEF AppInv, ConsumeInv
<1>6. JobInv'
  <2>1. job.kind = "models" /\ job.result = "ok" => Listed(job.pages)'
    BY StillSaid DEF AppInv, JobInv
  <2> QED
    BY <1>1, <1>2, <2>1 DEF AppInv, JobInv
<1> QED
  BY <1>3, <1>4, <1>5, <1>6 DEF AppInv

\* The call goes on; its number, method and argument stay.
LEMMA CallGoesOn ==
    ASSUME NEW c, c.id = call.id, c.method = call.method, c.arg = call.arg, c.at # "send"
    PROVE  /\ Calling(job, call) => Calling(job, c)
           /\ \A r : Asks(call, r) => Asks(c, r)
           /\ \A m : Says(call, m) => Says(c, m)
           /\ \A b : Answers(call, b) <=> Answers(c, b)
<1>1. \A b : Answers(call, b) <=> Answers(c, b)
  BY DEF Answers
<1> QED
  BY <1>1 DEF Calling, Asks, Says

\* It fails, or is answered, and at most messages have been read.
LEMMA FailedStep ==
    ASSUME AppInv, NEW c \in CallTypes, call' = c, c.at \in {"wait", "ok", "failed"},
           c.id = call.id, c.method = call.method, c.arg = call.arg,
           UNCHANGED <<job, child, dir, over, stdin, held, noise, spent, total, stray>>, job.at # "new",
           stdout' = stdout \/ (stdout # <<>> /\ stdout' = Tail(stdout)),
           Active(job) /\ c.at = "ok" => Answers(call, c.body)
    PROVE  AppInv'
<1>1. /\ stdout' \in Seq(Messages)
      /\ \A i \in 1..Len(stdout') : \E k \in 1..Len(stdout) : stdout'[i] = stdout[k]
  <2>1. stdout \in Seq(Messages)
    BY AppFacts
  <2>2. CASE stdout # <<>> /\ stdout' = Tail(stdout)
    <3>1. stdout' \in Seq(Messages) /\ \A i \in 1..Len(stdout') : i + 1 \in 1..Len(stdout) /\ stdout'[i] = stdout[i + 1]
      BY <2>1, <2>2, TailFacts
    <3> QED
      BY <3>1
  <2>3. CASE stdout' = stdout
    BY <2>1, <2>3
  <2> QED
    BY <2>2, <2>3
<1>2. AppTypeOK'
  BY <1>1, AppFacts DEF AppTypeOK
<1>3. CallInv'
  <2>1. Calling(job, c) /\ (\A r : Asks(call, r) => Asks(c, r)) /\ \A b : Answers(call, b) <=> Answers(c, b)
    BY AppFacts, CallGoesOn
  <2>2. \A m : Says(call, m) => Says(c, m)
    BY CallGoesOn
  <2>3. Active(job) => /\ \A i \in 1..Len(stdin) : Asks(c, stdin[i])
                       /\ held # NoRequest => Asks(c, held)
                       /\ \A i \in 1..Len(stdout') : Says(c, stdout'[i])
                       /\ c.at = "ok" => Answers(c, c.body)
    BY <1>1, <2>1, <2>2 DEF AppInv, CallInv
  <2> QED
    BY <2>1, <2>3 DEF CallInv, Asks, Says, Answers, PageOf
<1>4. ConsumeInv'
  BY DEF AppInv, ConsumeInv
<1>5. JobInv'
  BY DEF AppInv, JobInv, Listed
<1> QED
  BY <1>2, <1>3, <1>4, <1>5 DEF AppInv

\* A request gets the next number and goes to the end of the pipe.
LEMMA WriteStep ==
    ASSUME AppInv, WriteRequest
    PROVE  AppInv'
<1>1. /\ call.at = "send" /\ UNCHANGED <<job, child, dir, over, stdout, held, noise, spent, total, stray>>
  BY DEF WriteRequest, childVars
<1>2. job.at # "new"
  BY <1>1, AppConstants DEF AppInv, JobInv
<1>3. CASE child = "running"
  <2>1. PICK q, c : q = [id |-> call.id, method |-> call.method, arg |-> call.arg] /\ c = [call EXCEPT !.at = "wait"]
    OBVIOUS
  <2>2. q \in Requests /\ q.id = call.id /\ q.method = call.method /\ q.arg = call.arg
    BY <2>1, AppFacts DEF CallTypes, Requests
  <2>3. c \in CallTypes /\ c.at = "wait" /\ c.id = call.id /\ c.method = call.method /\ c.arg = call.arg
    BY <2>1, AppFacts DEF CallTypes
  <2>4. stdin' = Append(stdin, q) /\ call' = c
    BY <1>3, <2>1 DEF WriteRequest
  <2>5. /\ stdin' \in Seq(Requests)
        /\ \A i \in 1..Len(stdin') : (i \in 1..Len(stdin) /\ stdin'[i] = stdin[i]) \/ (i = Len(stdin) + 1 /\ stdin'[i] = q)
    <3>1. stdin \in Seq(Requests)
      BY AppFacts
    <3> QED
      BY <2>2, <2>4, <3>1, AppendFacts
  <2>6. AppTypeOK'
    BY <1>1, <2>3, <2>4, <2>5, AppFacts DEF AppTypeOK
  <2>7. CallInv'
    <3>1. Calling(job, c) /\ \A r : Asks(call, r) => Asks(c, r)
      BY <2>3, AppFacts, CallGoesOn
    <3>2. \A m : Says(call, m) => Says(c, m)
      BY <2>3, CallGoesOn
    <3>3. Asks(c, q)
      BY <2>2, <2>3 DEF Asks
    <3>4. Active(job) => /\ \A i \in 1..Len(stdin') : Asks(c, stdin'[i])
                         /\ held # NoRequest => Asks(c, held)
                         /\ \A i \in 1..Len(stdout) : Says(c, stdout[i])
      BY <2>5, <3>1, <3>2, <3>3 DEF AppInv, CallInv
    <3>5. \A m : Says(c, m) => Says(c, m)'
      BY <1>1, <2>4 DEF Says, Answers, PageOf
    <3> QED
      BY <1>1, <2>3, <2>4, <3>1, <3>4, <3>5 DEF CallInv, Asks, Says, Answers
  <2>8. ConsumeInv'
    BY <1>1, <2>2, <2>3, <2>4, <2>5 DEF AppInv, ConsumeInv
  <2>9. JobInv'
    BY <1>1, <1>2 DEF AppInv, JobInv, Listed
  <2> QED
    BY <2>6, <2>7, <2>8, <2>9 DEF AppInv
<1>4. CASE child # "running"
  <2>1. PICK c : c = [call EXCEPT !.at = "failed"]
    OBVIOUS
  <2>2. c \in CallTypes /\ c.at = "failed" /\ c.id = call.id /\ c.method = call.method /\ c.arg = call.arg
    BY <2>1, AppFacts DEF CallTypes
  <2>3. stdin' = stdin /\ call' = c
    BY <1>4, <2>1 DEF WriteRequest
  <2> QED
    BY <1>1, <1>2, <2>2, <2>3, FailedStep
<1> QED
  BY <1>3, <1>4

\* Only a message with the number of the call becomes its answer.
LEMMA ReadMessageStep ==
    ASSUME AppInv, ReadMessage
    PROVE  AppInv'
<1>1. /\ call.at = "wait" /\ stdout # <<>> /\ stdout' = Tail(stdout)
      /\ UNCHANGED <<job, child, dir, over, held, noise, spent, total, stray>>
  BY DEF ReadMessage, childVars
<1>2. job.at # "new" /\ call \in CallTypes /\ stdin \in Seq(Requests) /\ stdout \in Seq(Messages)
  BY <1>1, AppConstants, AppFacts DEF AppInv, JobInv
<1>3. PICK m : m = Head(stdout)
  OBVIOUS
<1>4. m \in Messages /\ m = stdout[1] /\ 1 \in 1..Len(stdout)
  BY <1>1, <1>2, <1>3, TailFacts
<1>5. \/ stdin' = Append(stdin, [NoRequest EXCEPT !.method = "token"]) /\ call' = call
      \/ stdin' = stdin /\ call' = [call EXCEPT !.at = "failed"]
      \/ stdin' = stdin /\ call' = call
      \/ /\ m.kind \in {"result", "notice"} /\ m.id = call.id
         /\ stdin' = stdin /\ call' = [call EXCEPT !.at = "ok", !.body = m.body]
  BY <1>3 DEF ReadMessage
<1>6. CASE stdin' = stdin /\ call' = [call EXCEPT !.at = "failed"]
  <2>1. PICK c : c = [call EXCEPT !.at = "failed"]
    OBVIOUS
  <2>2. c \in CallTypes /\ c.at = "failed" /\ c.id = call.id /\ c.method = call.method /\ c.arg = call.arg
    BY <1>2, <2>1 DEF CallTypes
  <2> QED
    BY <1>1, <1>2, <1>6, <2>1, <2>2, FailedStep
<1>7. CASE stdin' = stdin /\ call' = call
  BY <1>1, <1>2, <1>7, FailedStep
<1>8. CASE /\ m.kind \in {"result", "notice"} /\ m.id = call.id
           /\ stdin' = stdin /\ call' = [call EXCEPT !.at = "ok", !.body = m.body]
  <2>1. PICK c : c = [call EXCEPT !.at = "ok", !.body = m.body]
    OBVIOUS
  <2>2. /\ c \in CallTypes /\ c.at = "ok" /\ c.id = call.id /\ c.method = call.method /\ c.arg = call.arg
        /\ c.body = m.body
    BY <1>2, <1>4, <2>1 DEF CallTypes, Messages
  <2>3. Active(job) => Answers(call, m.body)
    <3>1. Active(job) => Says(call, m)
      BY <1>4 DEF AppInv, CallInv
    <3>2. call.id \in Nat
      BY <1>2 DEF CallTypes
    <3> QED
      BY <1>8, <3>1, <3>2 DEF Says
  <2> QED
    BY <1>1, <1>2, <1>8, <2>1, <2>2, <2>3, FailedStep
<1>9. CASE stdin' = Append(stdin, [NoRequest EXCEPT !.method = "token"]) /\ call' = call
  <2>1. PICK q : q = [NoRequest EXCEPT !.method = "token"]
    OBVIOUS
  <2>2. q \in Requests /\ q.id = 0 /\ q.method = "token"
    BY <2>1, AppConstants DEF Requests, Methods
  <2>3. /\ stdin' \in Seq(Requests)
        /\ \A i \in 1..Len(stdin') : (i \in 1..Len(stdin) /\ stdin'[i] = stdin[i]) \/ (i = Len(stdin) + 1 /\ stdin'[i] = q)
    BY <1>2, <1>9, <2>1, <2>2, AppendFacts
  <2>4. stdout' \in Seq(Messages) /\ \A i \in 1..Len(stdout') : i + 1 \in 1..Len(stdout) /\ stdout'[i] = stdout[i + 1]
    BY <1>1, <1>2, TailFacts
  <2>5. AppTypeOK'
    BY <1>1, <1>9, <2>3, <2>4, AppFacts DEF AppTypeOK
  <2>6. CallInv'
    <3>1. Active(job) => Asks(call, q)
      BY <1>2, <2>2, AppFacts DEF Asks, Active, Calling, CallTypes
    <3>2. Active(job) => /\ \A i \in 1..Len(stdin') : Asks(call, stdin'[i])
                         /\ \A i \in 1..Len(stdout') : Says(call, stdout'[i])
      BY <2>3, <2>4, <3>1 DEF AppInv, CallInv
    <3> QED
      BY <1>1, <1>9, <3>2 DEF AppInv, CallInv, Says, Answers, PageOf
  <2>7. ConsumeInv'
    BY <1>1, <1>9, <2>2, <2>3 DEF AppInv, ConsumeInv
  <2>8. JobInv'
    BY <1>1, <1>2, <1>9 DEF AppInv, JobInv, Listed
  <2> QED
    BY <2>5, <2>6, <2>7, <2>8 DEF AppInv
<1> QED
  BY <1>5, <1>6, <1>7, <1>8, <1>9

\* The end of the output fails the call in progress.
LEMMA OutputEndsStep ==
    ASSUME AppInv, OutputEnds
    PROVE  AppInv'
<1>1. /\ call.at = "wait" /\ UNCHANGED <<job, child, dir, over, stdin, stdout, held, noise, spent, total, stray>>
      /\ call' = [call EXCEPT !.at = "failed"]
  BY DEF OutputEnds, childVars
<1>2. job.at # "new" /\ call \in CallTypes
  BY <1>1, AppConstants, AppFacts DEF AppInv, JobInv
<1>3. PICK c : c = [call EXCEPT !.at = "failed"]
  OBVIOUS
<1>4. c \in CallTypes /\ c.at = "failed" /\ c.id = call.id /\ c.method = call.method /\ c.arg = call.arg
  BY <1>2, <1>3 DEF CallTypes
<1> QED
  BY <1>1, <1>2, <1>3, <1>4, FailedStep

\* The operation takes the answer and makes its next call, which nothing that
\* is under way belongs to.
LEMMA NextCallStep ==
    ASSUME AppInv, NEW j \in JobTypes, NEW c \in CallTypes, job' = j, call' = c,
           Active(job) \/ (job.at = "new" /\ c.id > 0), Active(j), call.at = "ok" \/ job.at = "new",
           c.at = "send", c.id > call.id, Calling(j, c), c.method = "consume" => c.id = 3 /\ job.at = "login",
           child' = child \/ job.at = "new", child' \in {"running", child}, dir' \in BOOLEAN,
           UNCHANGED <<over, stdin, stdout, held, noise, spent, total, stray>>,
           j.kind = job.kind, j.result = "none",
           (j.usage = job.usage /\ j.limits = job.limits) \/ j.usage = NormalizeAppServerRateLimits(j.limits),
           j.at \in {"init", "login"} => j.outcome = "none" /\ j.pages = <<>> /\ j.usage = NoUsage /\ spent = "none",
           j.outcome # "none" => j.kind = "consume" /\ (j.outcome = spent \/ (stray /\ j.outcome = "empty")),
           j.kind = "models" => /\ \A i \in 1..Len(j.pages) : j.pages[i] = i
                                /\ Len(j.pages) < total
    PROVE  AppInv'
<1>1. AppTypeOK'
  BY AppFacts DEF AppTypeOK
<1>2. CallInv'
  <2>1. call.id \in Nat /\ c.id \in Nat /\ \A i \in 1..Len(stdin) : stdin[i].id \in Nat
    BY QueuedFacts DEF CallTypes
  <2>2. held.id \in Nat /\ \A i \in 1..Len(stdout) : stdout[i].id \in Nat
    BY QueuedFacts
  <2>3. CASE Active(job)
    <3>1. \A i \in 1..Len(stdin) : Asks(call, stdin[i])
      BY <2>3 DEF AppInv, CallInv
    <3>2. \A i \in 1..Len(stdin) : stdin[i].id < c.id
      BY <2>1, <3>1 DEF Asks
    <3>3. held # NoRequest => held.id < c.id
      BY <2>1, <2>2, <2>3 DEF AppInv, CallInv, Asks
    <3>4. \A i \in 1..Len(stdout) : stdout[i].kind \in {"result", "notice"} => stdout[i].id < c.id
      <4>1. \A i \in 1..Len(stdout) : Says(call, stdout[i])
        BY <2>3 DEF AppInv, CallInv
      <4> QED
        BY <2>1, <2>2, <4>1 DEF Says
    <3> QED
      BY <3>2, <3>3, <3>4 DEF CallInv, Asks, Says
  <2>4. CASE job.at = "new"
    <3>1. stdin = <<>> /\ stdout = <<>> /\ held = NoRequest
      BY <2>4 DEF AppInv, JobInv
    <3> QED
      BY <3>1 DEF CallInv
  <2> QED
    BY <2>3, <2>4
<1>3. ConsumeInv'
  <2>1. c.method = "consume" => /\ spent = "none" /\ held.method # "consume"
                                /\ \A i \in 1..Len(stdin) : stdin[i].method # "consume"
    <3> SUFFICES ASSUME c.method = "consume" PROVE /\ spent = "none" /\ held.method # "consume"
                                                   /\ \A i \in 1..Len(stdin) : stdin[i].method # "consume"
      OBVIOUS
    <3>1. job.at = "login" /\ call.id = 2 /\ spent = "none"
      BY AppFacts DEF AppInv, ConsumeInv, Calling
    <3>2. \A i \in 1..Len(stdin) : Asks(call, stdin[i])
      BY <3>1 DEF AppInv, CallInv, Active
    <3>3. held # NoRequest => Asks(call, held)
      BY <3>1 DEF AppInv, CallInv, Active
    <3>4. stdin \in Seq(Requests) /\ held \in Requests
      BY AppFacts
    <3>5. \A i \in 1..Len(stdin) : stdin[i].id # 3
      BY <3>1, <3>2, <3>4, SMTT(20) DEF Asks, Requests
    <3>6. held.method = "consume" => held.id # 3
      BY <3>1, <3>3, <3>4, AppConstants DEF Asks, Requests
    <3> QED
      BY <3>1, <3>5, <3>6 DEF AppInv, ConsumeInv
  <2>2. j.at # "new"
    BY DEF Active
  <2> QED
    BY <2>1, <2>2 DEF AppInv, ConsumeInv
<1>4. JobInv'
  <2>1. j.at \in {"init", "login", "op"}
    BY DEF Active
  <2> QED
    BY <2>1 DEF AppInv, JobInv, Active
<1> QED
  BY <1>1, <1>2, <1>3, <1>4 DEF AppInv

\* The operation has its result, or gives up.
LEMMA EndsStep ==
    ASSUME AppInv, NEW j \in JobTypes, job' = j, call' = Idle \/ (call' = call /\ call.method # "consume"),
           UNCHANGED <<child, dir, over, stdin, stdout, held, noise, spent, total, stray>>,
           j.at = "close" \/ (j.at = "done" /\ job.at = "new"), j.kind = job.kind,
           job.at \in {"new", "init", "login", "op"},
           j.usage = NoUsage \/ j.usage = NormalizeAppServerRateLimits(j.limits),
           j.kind = "consume" => (j.result = "ok" <=> j.outcome # "none"), j.result # "none",
           j.kind \in {"credits", "consume"} /\ j.result = "ok" => j.credits # "counted",
           j.outcome = job.outcome,
           j.kind = "models" /\ j.result = "ok" => Listed(j.pages)
    PROVE  AppInv'
<1>1. call' \in CallTypes /\ (call'.method = "consume" => FALSE) /\ ~Active(j) /\ j.at # "new"
  BY AppConstants, AppFacts DEF Active
<1>2. AppTypeOK'
  BY <1>1, AppFacts DEF AppTypeOK
<1>3. CallInv'
  BY <1>1 DEF CallInv, Calling, Active
<1>4. ConsumeInv'
  BY <1>1 DEF AppInv, ConsumeInv
<1>5. JobInv'
  BY <1>1 DEF AppInv, JobInv, Active, Listed
<1> QED
  BY <1>2, <1>3, <1>4, <1>5 DEF AppInv

\* A child is started, or not, in a directory that exists.
LEMMA LaunchStep ==
    ASSUME AppInv, Launch
    PROVE  AppInv'
<1>1. /\ job.at = "new" /\ UNCHANGED <<over, stdin, stdout, held, noise, spent, total, stray>>
      /\ job \in JobTypes /\ call = Idle /\ child = "none" /\ ~dir
      /\ job.outcome = "none" /\ job.pages = <<>> /\ job.usage = NoUsage /\ job.result = "none" /\ spent = "none"
  BY AppFacts DEF Launch, childVars, AppInv, JobInv, ConsumeInv
<1>2. CASE /\ child' = "running" /\ dir' = TRUE /\ job' = [job EXCEPT !.at = "init"]
           /\ Request(1, "initialize", 0)
  <2>1. PICK j, c : j = [job EXCEPT !.at = "init"] /\ c = [Idle EXCEPT !.at = "send", !.id = 1, !.method = "initialize", !.arg = 0]
    OBVIOUS
  <2>2. /\ j \in JobTypes /\ j.at = "init" /\ j.kind = job.kind /\ j.result = "none" /\ j.usage = job.usage
        /\ j.limits = job.limits /\ j.outcome = "none" /\ j.pages = <<>>
    BY <1>1, <2>1 DEF JobTypes
  <2>3. c \in CallTypes /\ c.at = "send" /\ c.id = 1 /\ c.method = "initialize"
    BY <2>1, AppConstants DEF CallTypes, Methods
  <2>4. job' = j /\ call' = c
    BY <1>2, <2>1 DEF Request
  <2>5. Calling(j, c) /\ Active(j)
    BY <2>2, <2>3 DEF Calling, Active
  <2>6. Len(j.pages) < total
    BY <2>2, AppFacts
  <2>7. c.id > call.id
    BY <1>1, <2>3, AppConstants
  <2> QED
    BY <1>1, <1>2, <2>2, <2>3, <2>4, <2>5, <2>6, <2>7, NextCallStep
<1>3. CASE job' = [job EXCEPT !.at = "done", !.result = "error"] /\ UNCHANGED <<child, dir, call>>
  <2>1. PICK j : j = [job EXCEPT !.at = "done", !.result = "error"]
    OBVIOUS
  <2>2. /\ j \in JobTypes /\ j.at = "done" /\ j.kind = job.kind /\ j.result = "error" /\ j.usage = job.usage
        /\ j.limits = job.limits /\ j.outcome = "none" /\ j.pages = <<>>
    BY <1>1, <2>1 DEF JobTypes
  <2>3. job' = j
    BY <1>3, <2>1
  <2> QED
    BY <1>1, <1>3, <2>2, <2>3, EndsStep
<1> QED
  BY <1>2, <1>3 DEF Launch, Request

\* A handshake that failed leads to Close like everything else.
LEMMA AbandonStep ==
    ASSUME AppInv, AbandonHandshake
    PROVE  AppInv'
<1>1. /\ job.at = "init" /\ UNCHANGED <<call, child, dir, over, stdin, stdout, held, noise, spent, total, stray>>
      /\ job \in JobTypes /\ job.outcome = "none" /\ job.pages = <<>> /\ job.usage = NoUsage
  BY AppFacts DEF AbandonHandshake, childVars, AppInv, JobInv
<1>2. PICK j : j = [job EXCEPT !.at = "close", !.result = "error"]
  OBVIOUS
<1>3. /\ j \in JobTypes /\ j.at = "close" /\ j.kind = job.kind /\ j.result = "error" /\ j.usage = job.usage
      /\ j.limits = job.limits /\ j.outcome = "none" /\ j.pages = <<>>
  BY <1>1, <1>2 DEF JobTypes
<1>4. job' = j /\ call.method # "consume"
  BY <1>1, <1>2, AppFacts DEF AbandonHandshake, Calling
<1> QED
  BY <1>1, <1>3, <1>4, EndsStep

\* A session that is ready asks the first question of its operation.
LEMMA SessionReadyStep ==
    ASSUME AppInv, SessionReady
    PROVE  AppInv'
<1>1. /\ job.at \in {"init", "login"} /\ call.at = "ok"
      /\ UNCHANGED <<child, dir, over, stdin, stdout, held, noise, spent, total, stray>>
      /\ job \in JobTypes /\ job.outcome = "none" /\ job.pages = <<>> /\ job.usage = NoUsage /\ job.result = "none"
      /\ spent = "none" /\ Calling(job, call) /\ child = child /\ dir \in BOOLEAN
  BY AppFacts DEF SessionReady, childVars, AppInv, JobInv, ConsumeInv, Active
<1>2. PICK n, method, place :
        /\ job' = [job EXCEPT !.at = place] /\ call' = [Idle EXCEPT !.at = "send", !.id = n, !.method = method, !.arg = 0]
        /\ \/ job.at = "init" /\ place = "login" /\ n = 2 /\ method = "login"
           \/ /\ job.at = "login" /\ place = "op" /\ n = 3
              /\ method = CASE job.kind = "consume" -> "consume" [] job.kind = "models" -> "list" [] OTHER -> "read"
  <2>1. CASE job.at = "init"
    BY <2>1 DEF SessionReady, Request
  <2>2. CASE job.at = "login"
    BY <2>2 DEF SessionReady, Request
  <2> QED
    BY <1>1, <2>1, <2>2
<1>3. PICK j : j = [job EXCEPT !.at = place]
  OBVIOUS
<1>4. PICK c : c = [Idle EXCEPT !.at = "send", !.id = n, !.method = method, !.arg = 0]
  OBVIOUS
<1>5. n \in Nat /\ method \in Methods /\ place \in {"login", "op"}
  BY <1>2 DEF Methods
<1>6. /\ j \in JobTypes /\ j.at = place /\ j.kind = job.kind /\ j.result = "none" /\ j.usage = job.usage
      /\ j.limits = job.limits /\ j.outcome = "none" /\ j.pages = <<>>
  BY <1>1, <1>3, <1>5 DEF JobTypes
<1>7. c \in CallTypes /\ c.at = "send" /\ c.id = n /\ c.method = method /\ c.arg = 0
  BY <1>4, <1>5, AppConstants DEF CallTypes
<1>8. job.kind \in {"usage", "credits", "consume", "models"}
  BY <1>1 DEF JobTypes
<1>9. Calling(j, c) /\ Active(j)
  <2>1. CASE place = "login"
    BY <1>2, <1>6, <1>7, <2>1 DEF Calling, Active
  <2>2. CASE place = "op"
    <3>1. Len(j.pages) = 0
      BY <1>6
    <3> QED
      BY <1>2, <1>6, <1>7, <1>8, <2>2, <3>1 DEF Calling, Active
  <2> QED
    BY <1>5, <2>1, <2>2
<1>10. Len(j.pages) < total
  BY <1>6, AppFacts
<1>11. c.id > call.id /\ (c.method = "consume" => c.id = 3 /\ job.at = "login")
  BY <1>1, <1>2, <1>7 DEF Calling
<1>12. job' = j /\ call' = c /\ Active(job)
  BY <1>1, <1>2, <1>3, <1>4 DEF Active
<1> QED
  BY <1>1, <1>6, <1>7, <1>9, <1>10, <1>11, <1>12, NextCallStep

\* A reading of the limits.
LEMMA Reading ==
    ASSUME AppInv, job.at = "op", call.at = "ok", NEW j, j = ReadRateLimits(job, call.body)
    PROVE  /\ j \in JobTypes /\ j.at = "op" /\ j.kind = job.kind /\ j.result = "none" /\ j.outcome = job.outcome
           /\ j.pages = job.pages /\ j.credits = call.body.credits
           /\ j.usage = NormalizeAppServerRateLimits(j.limits)
<1>1. job \in JobTypes /\ call.body \in Bodies /\ job.result = "none"
  BY AppFacts DEF CallTypes, AppInv, JobInv, Active
<1>2. PICK k, cr, l, u : /\ k = job.tries + 1 /\ cr = call.body.credits /\ l = call.body.limits
                         /\ u = NormalizeAppServerRateLimits(l)
  OBVIOUS
<1>3. k \in Nat /\ cr \in Credits /\ l \in SomeLimit
  BY <1>1, <1>2 DEF JobTypes, Bodies
<1>4. u \in {NormalizeAppServerRateLimits(x) : x \in SomeLimit}
  BY <1>2, <1>3
<1>5. j = [job EXCEPT !.tries = k, !.credits = cr, !.limits = l, !.usage = u]
  BY <1>2 DEF ReadRateLimits
<1>6. /\ j \in JobTypes /\ j.at = "op" /\ j.kind = job.kind /\ j.result = "none" /\ j.outcome = job.outcome
      /\ j.pages = job.pages /\ j.credits = cr /\ j.usage = u /\ j.limits = l
  BY <1>1, <1>3, <1>4, <1>5 DEF JobTypes
<1> QED
  BY <1>2, <1>6

\* The result is put down and the session is closed.
Ending(j, result) == [[j EXCEPT !.result = result] EXCEPT !.at = "close"]

\* An operation that ends keeps what it has learned.
LEMMA Ended ==
    ASSUME NEW j \in JobTypes, NEW result \in {"ok", "error"}
    PROVE  /\ Ending(j, result) \in JobTypes /\ Ending(j, result).at = "close"
           /\ Ending(j, result).result = result /\ Ending(j, result).kind = j.kind
           /\ Ending(j, result).outcome = j.outcome /\ Ending(j, result).pages = j.pages
           /\ Ending(j, result).credits = j.credits /\ Ending(j, result).usage = j.usage
           /\ Ending(j, result).limits = j.limits
<1>1. PICK k : k = [j EXCEPT !.result = result]
  OBVIOUS
<1>2. /\ k \in JobTypes /\ k.result = result /\ k.kind = j.kind /\ k.outcome = j.outcome /\ k.pages = j.pages
      /\ k.credits = j.credits /\ k.usage = j.usage /\ k.limits = j.limits
  BY <1>1 DEF JobTypes
<1>3. PICK e : e = [k EXCEPT !.at = "close"]
  OBVIOUS
<1>4. /\ e \in JobTypes /\ e.at = "close" /\ e.result = k.result /\ e.kind = k.kind /\ e.outcome = k.outcome
      /\ e.pages = k.pages /\ e.credits = k.credits /\ e.usage = k.usage /\ e.limits = k.limits
  BY <1>2, <1>3 DEF JobTypes
<1>5. Ending(j, result) = e
  BY <1>1, <1>3 DEF Ending
<1> QED
  BY <1>2, <1>4, <1>5

\* The limits are read from the answer of this call.
LEMMA UsageStep ==
    ASSUME AppInv, Usage
    PROVE  AppInv'
<1>1. /\ job.at = "op" /\ job.kind = "usage" /\ call.at = "ok"
      /\ UNCHANGED <<child, dir, over, stdin, stdout, held, noise, spent, total, stray>> /\ call' = Idle
  BY DEF Usage, Finish, childVars
<1>2. PICK j : j = ReadRateLimits(job, call.body)
  OBVIOUS
<1>3. /\ j \in JobTypes /\ j.kind = "usage" /\ j.outcome = job.outcome
      /\ j.usage = NormalizeAppServerRateLimits(j.limits)
  BY <1>1, <1>2, Reading
<1>4. PICK result \in {"ok", "error"} : job' = Ending(j, result)
  BY <1>2 DEF Usage, Finish, Ending
<1>5. PICK e : e = Ending(j, result)
  OBVIOUS
<1>7. /\ e \in JobTypes /\ e.at = "close" /\ e.result = result /\ e.kind = j.kind /\ e.outcome = j.outcome
      /\ e.usage = j.usage /\ e.limits = j.limits
  BY <1>3, <1>5, Ended
<1>8. job' = e
  BY <1>4, <1>5
<1> QED
  BY <1>1, <1>3, <1>7, <1>8, EndsStep

\* Credits are counted only with their details.
LEMMA CreditsStep ==
    ASSUME AppInv, ReadResetCreditDetails
    PROVE  AppInv'
<1>1. /\ job.at = "op" /\ call.at = "ok" /\ UNCHANGED <<child, dir, over, stdin, stdout, held, noise, spent, total, stray>>
      /\ job.kind = "credits" \/ (job.kind = "consume" /\ job.outcome # "none")
  BY DEF ReadResetCreditDetails, childVars
<1>2. PICK j : j = ReadRateLimits(job, call.body)
  OBVIOUS
<1>3. /\ j \in JobTypes /\ j.at = "op" /\ j.kind = job.kind /\ j.result = "none" /\ j.outcome = job.outcome
      /\ j.pages = job.pages /\ j.credits = call.body.credits
      /\ j.usage = NormalizeAppServerRateLimits(j.limits)
  BY <1>1, <1>2, Reading
<1>4. job.kind = "credits" => job.outcome = "none"
  BY DEF AppInv, JobInv
<1>5. CASE j.credits # "counted"
  <2>1. PICK result \in {"ok", "error"} : result = "ok"
    OBVIOUS
  <2>2. PICK e : e = Ending(j, result)
    OBVIOUS
  <2>3. /\ e \in JobTypes /\ e.at = "close" /\ e.result = "ok" /\ e.kind = j.kind /\ e.outcome = j.outcome
        /\ e.credits = j.credits /\ e.usage = j.usage /\ e.limits = j.limits
    BY <1>3, <2>1, <2>2, Ended
  <2>4. job' = e /\ call' = Idle
    BY <1>2, <1>5, <2>1, <2>2 DEF ReadResetCreditDetails, Finish, Ending
  <2> QED
    BY <1>1, <1>3, <1>5, <2>3, <2>4, EndsStep
<1>6. CASE j.credits = "counted" /\ j.tries < MaxTries
  <2>1. PICK n : n = call.id + 1
    OBVIOUS
  <2>2. n \in Nat /\ n > call.id /\ call.id \in Nat
    BY <2>1, QueuedFacts
  <2>3. PICK c : c = [Idle EXCEPT !.at = "send", !.id = n, !.method = "read", !.arg = 0]
    OBVIOUS
  <2>4. c \in CallTypes /\ c.at = "send" /\ c.id = n /\ c.method = "read"
    BY <2>2, <2>3, AppConstants DEF CallTypes, Methods
  <2>5. job' = j /\ call' = c
    BY <1>2, <1>6, <2>1, <2>3 DEF ReadResetCreditDetails, Request
  <2>6. Calling(j, c) /\ Active(j) /\ Active(job)
    <3>1. Calling(job, call)
      BY AppFacts
    <3> QED
      BY <1>1, <1>3, <2>2, <2>4, <3>1 DEF Calling, Active
  <2>7. j.outcome # "none" => j.kind = "consume" /\ (j.outcome = spent \/ (stray /\ j.outcome = "empty"))
    BY <1>3 DEF AppInv, ConsumeInv, JobInv
  <2>8. dir \in BOOLEAN /\ j.kind # "models"
    BY <1>1, <1>3, AppFacts
  <2> QED
    BY <1>1, <1>3, <2>2, <2>4, <2>5, <2>6, <2>7, <2>8, NextCallStep
<1>7. CASE j.credits = "counted" /\ ~(j.tries < MaxTries)
  <2>1. PICK b : b = [j EXCEPT !.credits = "nil", !.usage = NoUsage]
    OBVIOUS
  <2>2. PICK result \in {"ok", "error"} : result = IF job.kind = "consume" THEN "ok" ELSE "error"
    OBVIOUS
  <2>4. PICK e : e = Ending(b, result)
    OBVIOUS
  <2>5. b \in JobTypes /\ b.kind = j.kind /\ b.outcome = j.outcome /\ b.credits = "nil" /\ b.usage = NoUsage
    BY <1>3, <2>1 DEF JobTypes, Credits
  <2>6. /\ e \in JobTypes /\ e.at = "close" /\ e.result = result /\ e.kind = b.kind /\ e.outcome = b.outcome
        /\ e.credits = b.credits /\ e.usage = b.usage
    BY <2>4, <2>5, Ended
  <2>7. job' = e /\ call' = Idle
    BY <1>2, <1>7, <2>1, <2>2, <2>4 DEF ReadResetCreditDetails, Finish, Ending
  <2>8. e.kind = "consume" => (e.result = "ok" <=> e.outcome # "none")
    BY <1>1, <1>3, <2>2, <2>5, <2>6
  <2>9. e.kind # "models" /\ e.credits # "counted" /\ e.kind = job.kind /\ e.outcome = job.outcome
    BY <1>1, <1>3, <2>5, <2>6
  <2> QED
    BY <1>1, <2>2, <2>5, <2>6, <2>7, <2>8, <2>9, EndsStep
<1> QED
  BY <1>5, <1>6, <1>7

\* The outcome of a redemption is that of its one answer.
LEMMA ConsumeStep ==
    ASSUME AppInv, ConsumeResetCredit
    PROVE  AppInv'
<1>1. /\ job.at = "op" /\ job.kind = "consume" /\ job.outcome = "none" /\ call.at = "ok"
      /\ UNCHANGED <<child, dir, over, stdin, stdout, held, noise, spent, total, stray>>
  BY DEF ConsumeResetCredit, childVars
<1>2. /\ job \in JobTypes /\ call.body.outcome \in SomeOutcome /\ job.result = "none"
      /\ call.id = 3 /\ call.method = "consume" /\ Active(job) /\ dir \in BOOLEAN
  BY <1>1, AppFacts DEF CallTypes, Bodies, AppInv, JobInv, Active, Calling
<1>3. (spent # "none" /\ call.body.outcome = spent) \/ (stray /\ call.body.outcome = "none")
  BY <1>1, <1>2 DEF AppInv, CallInv, Answers
<1>4. PICK j, o : /\ j = [job EXCEPT !.outcome = o]
                  /\ o = IF call.body.outcome = "none" THEN "empty" ELSE call.body.outcome
  OBVIOUS
<1>10. o \in SomeOutcome /\ o # "none" /\ (o = spent \/ (stray /\ o = "empty"))
  BY <1>2, <1>3, <1>4 DEF SomeOutcome
<1>5. /\ j \in JobTypes /\ j.at = "op" /\ j.kind = "consume" /\ j.result = "none" /\ j.outcome = o
      /\ j.usage = job.usage /\ j.limits = job.limits
  BY <1>1, <1>2, <1>4, <1>10 DEF JobTypes
<1>6. PICK c : c = [Idle EXCEPT !.at = "send", !.id = 4, !.method = "read", !.arg = 0]
  OBVIOUS
<1>7. c \in CallTypes /\ c.at = "send" /\ c.id = 4 /\ c.method = "read"
  BY <1>6, AppConstants DEF CallTypes, Methods
<1>8. job' = j /\ call' = c
  BY <1>4, <1>6 DEF ConsumeResetCredit, Request
<1>9. Calling(j, c) /\ Active(j)
  BY <1>5, <1>7, <1>10 DEF Calling, Active
<1> QED
  BY <1>1, <1>2, <1>5, <1>7, <1>8, <1>9, <1>10, NextCallStep

\* A page is the next one of the listing; there is none after the last.
LEMMA ListStep ==
    ASSUME AppInv, ListModels
    PROVE  AppInv'
<1>1. /\ job.at = "op" /\ job.kind = "models" /\ call.at = "ok"
      /\ UNCHANGED <<child, dir, over, stdin, stdout, held, noise, spent, total, stray>>
  BY DEF ListModels, childVars
<1>2. PICK n, b, arg : n = Len(job.pages) /\ b = call.body /\ arg = call.arg
  OBVIOUS
<1>3. /\ job \in JobTypes /\ job.pages \in Seq(Nat) /\ b \in Bodies /\ b.page \in Nat /\ b.next \in Nat
      /\ job.result = "none" /\ job.outcome = "none" /\ call.method = "list" /\ Active(job) /\ dir \in BOOLEAN
      /\ arg = (IF n = 0 THEN 0 ELSE n + 1) /\ n < total /\ total \in Nat /\ n \in Nat
      /\ \A i \in 1..n : job.pages[i] = i
      /\ job.usage = NoUsage \/ job.usage = NormalizeAppServerRateLimits(job.limits)
  <2>1. job \in JobTypes /\ job.pages \in Seq(Nat) /\ total \in Nat /\ dir \in BOOLEAN
    BY AppFacts DEF JobTypes
  <2>2. b \in Bodies /\ b.page \in Nat /\ b.next \in Nat
    BY <1>2, AppFacts DEF CallTypes, Bodies
  <2>3. call.method = "list" /\ arg = (IF n = 0 THEN 0 ELSE n + 1)
    BY <1>1, <1>2, AppFacts DEF Calling
  <2>4. /\ job.result = "none" /\ job.outcome = "none" /\ Active(job) /\ n < total
        /\ \A i \in 1..n : job.pages[i] = i
        /\ job.usage = NoUsage \/ job.usage = NormalizeAppServerRateLimits(job.limits)
    BY <1>1, <1>2 DEF AppInv, JobInv, Active
  <2> QED
    BY <1>2, <2>1, <2>2, <2>3, <2>4
<1>4. \/ b.page = n + 1 /\ IF n + 1 < total THEN b.next = n + 2 ELSE b.next \in {0, arg}
      \/ stray /\ b.page = 0 /\ b.next = 0
  <2>1. Answers(call, b)
    BY <1>1, <1>2, <1>3 DEF AppInv, CallInv
  <2>2. PageOf(arg, b) \/ (stray /\ b.page = 0 /\ b.next = 0)
    BY <1>2, <1>3, <2>1 DEF Answers
  <2>3. (IF arg = 0 THEN 1 ELSE arg) = n + 1
    BY <1>3
  <2> QED
    BY <1>3, <2>2, <2>3 DEF PageOf
<1>5. PICK pages : pages = Append(job.pages, b.page)
  OBVIOUS
<1>6. /\ pages \in Seq(Nat) /\ Len(pages) = n + 1
      /\ \A i \in 1..Len(pages) : pages[i] = IF i <= n THEN i ELSE b.page
  BY <1>2, <1>3, <1>5, AppendFacts
<1>7. PICK j : j = [job EXCEPT !.pages = pages]
  OBVIOUS
<1>8. /\ j \in JobTypes /\ j.at = "op" /\ j.kind = "models" /\ j.result = "none" /\ j.outcome = "none"
      /\ j.pages = pages /\ j.usage = job.usage /\ j.limits = job.limits
  BY <1>1, <1>3, <1>6, <1>7 DEF JobTypes
<1>9. \/ b.next \in {0, arg} /\ job' = Ending(j, "ok") /\ call' = Idle
      \/ job' = Ending(j, "error") /\ call' = Idle
      \/ b.next \notin {0, arg} /\ job' = j /\ Request(call.id + 1, "list", b.next)
  BY <1>2, <1>5, <1>7 DEF ListModels, Finish, Ending
<1>10. ASSUME NEW result \in {"ok", "error"}, job' = Ending(j, result), call' = Idle,
              result = "ok" => b.next \in {0, arg}
       PROVE  AppInv'
  <2>1. PICK e : e = Ending(j, result)
    OBVIOUS
  <2>2. /\ e \in JobTypes /\ e.at = "close" /\ e.result = result /\ e.kind = "models" /\ e.outcome = "none"
        /\ e.pages = pages /\ e.usage = j.usage /\ e.limits = j.limits
    BY <1>8, <2>1, Ended
  <2>3. result = "ok" => Listed(pages)
    <3>1. CASE b.page = n + 1 /\ IF n + 1 < total THEN b.next = n + 2 ELSE b.next \in {0, arg}
      <4>1. \A i \in 1..Len(pages) : pages[i] = i
        BY <1>3, <1>6, <3>1
      <4>2. result = "ok" => Len(pages) = total
        BY <1>3, <1>6, <1>10, <3>1
      <4> QED
        BY <4>1, <4>2 DEF Listed
    <3>2. CASE stray /\ b.page = 0 /\ b.next = 0
      <4>1. \A i \in 1..Len(pages) : pages[i] = IF i < Len(pages) THEN i ELSE 0
        BY <1>3, <1>6, <3>2
      <4> QED
        BY <1>3, <1>6, <3>2, <4>1 DEF Listed
    <3> QED
      BY <1>4, <3>1, <3>2
  <2> QED
    BY <1>1, <1>3, <1>8, <1>10, <2>1, <2>2, <2>3, EndsStep
<1>11. CASE b.next \notin {0, arg} /\ job' = j /\ Request(call.id + 1, "list", b.next)
  <2>1. PICK m : m = call.id + 1
    OBVIOUS
  <2>2. call.id \in Nat /\ call.id >= 3 /\ m \in Nat /\ m > call.id /\ m > 3
    BY <1>1, <2>1, QueuedFacts, AppFacts DEF Calling
  <2>3. n + 1 < total /\ b.next = n + 2 /\ \A i \in 1..Len(pages) : pages[i] = i
    BY <1>3, <1>4, <1>6, <1>11
  <2>4. PICK c : c = [Idle EXCEPT !.at = "send", !.id = m, !.method = "list", !.arg = b.next]
    OBVIOUS
  <2>5. c \in CallTypes /\ c.at = "send" /\ c.id = m /\ c.method = "list" /\ c.arg = n + 2
    BY <1>3, <2>2, <2>3, <2>4, AppConstants DEF CallTypes, Methods
  <2>6. call' = c
    BY <1>11, <2>1, <2>4 DEF Request
  <2>7. Calling(j, c) /\ Active(j)
    BY <1>3, <1>6, <1>8, <2>2, <2>5 DEF Calling, Active
  <2> QED
    BY <1>1, <1>3, <1>6, <1>8, <1>11, <2>2, <2>3, <2>5, <2>6, <2>7, NextCallStep
<1> QED
  BY <1>9, <1>10, <1>11

\* A call that fails makes the operation fail, with no outcome and no list.
LEMMA FailsStep ==
    ASSUME AppInv, CallFails
    PROVE  AppInv'
<1>1. /\ job.at \in {"init", "login", "op"} /\ call' = Idle
      /\ UNCHANGED <<child, dir, over, stdin, stdout, held, noise, spent, total, stray>>
  BY DEF CallFails, Finish, childVars
<1>2. /\ job \in JobTypes
      /\ job.usage = NoUsage \/ job.usage = NormalizeAppServerRateLimits(job.limits)
      /\ job.kind # "consume" => job.outcome = "none"
  BY AppFacts DEF AppInv, JobInv
<1>3. CASE job.outcome = "none"
  <2>1. PICK result \in {"ok", "error"} : result = "error"
    OBVIOUS
  <2>2. PICK e : e = Ending(job, result)
    OBVIOUS
  <2>3. /\ e \in JobTypes /\ e.at = "close" /\ e.result = "error" /\ e.kind = job.kind /\ e.outcome = job.outcome
        /\ e.pages = job.pages /\ e.usage = job.usage /\ e.limits = job.limits
    BY <1>2, <2>1, <2>2, Ended
  <2>4. job' = e
    BY <1>3, <2>1, <2>2 DEF CallFails, Finish, Ending
  <2> QED
    BY <1>1, <1>2, <1>3, <2>3, <2>4, EndsStep
<1>4. CASE job.outcome # "none"
  <2>1. PICK b : b = [job EXCEPT !.credits = "nil", !.usage = NoUsage]
    OBVIOUS
  <2>2. PICK e : e = [b EXCEPT !.result = "ok", !.at = "close"]
    OBVIOUS
  <2>3. b \in JobTypes /\ b.kind = job.kind /\ b.outcome = job.outcome /\ b.credits = "nil" /\ b.usage = NoUsage
    BY <1>2, <2>1 DEF JobTypes, Credits
  <2>4. /\ e \in JobTypes /\ e.at = "close" /\ e.result = "ok" /\ e.kind = job.kind /\ e.outcome = job.outcome
        /\ e.credits = "nil" /\ e.usage = NoUsage
    BY <2>2, <2>3 DEF JobTypes
  <2>5. job' = e
    <3>1. job' = [[job EXCEPT !.credits = "nil", !.usage = NoUsage, !.result = "ok"] EXCEPT !.at = "close"]
      BY <1>4 DEF CallFails, Finish
    <3> QED
      BY <1>2, <2>1, <2>2, <3>1 DEF JobTypes
  <2>6. job.kind = "consume"
    BY <1>2, <1>4
  <2> QED
    BY <1>1, <1>4, <2>4, <2>5, <2>6, EndsStep
<1> QED
  BY <1>3, <1>4

\* Close leaves neither a process nor a directory.
LEMMA CloseStep ==
    ASSUME AppInv, Close
    PROVE  AppInv'
<1>1. UNCHANGED <<call, over, stdout, held, noise, spent, total, stray>>
  BY DEF Close, childVars
<1>2. CASE job.at = "close" /\ child' = "dead" /\ stdin' = <<>> /\ dir' = dir /\ job' = [job EXCEPT !.at = "reap"]
  <2>1. PICK j : j = [job EXCEPT !.at = "reap"]
    OBVIOUS
  <2>2. /\ j \in JobTypes /\ j.at = "reap" /\ j.result = job.result /\ j.kind = job.kind /\ j.outcome = job.outcome
        /\ j.pages = job.pages /\ j.credits = job.credits /\ j.usage = job.usage /\ j.limits = job.limits
    BY <2>1, AppFacts DEF JobTypes
  <2>3. job' = j
    BY <1>2, <2>1
  <2>4. AppTypeOK'
    BY <1>1, <1>2, <2>2, <2>3, AppFacts DEF AppTypeOK
  <2>5. CallInv'
    BY <2>2, <2>3 DEF CallInv, Calling, Active
  <2>6. ConsumeInv'
    BY <1>1, <1>2, <2>2, <2>3 DEF AppInv, ConsumeInv
  <2>7. JobInv'
    BY <1>1, <1>2, <2>2, <2>3 DEF AppInv, JobInv, Active, Listed
  <2> QED
    BY <2>4, <2>5, <2>6, <2>7 DEF AppInv
<1>3. CASE job.at = "reap" /\ child' = "reaped" /\ dir' = FALSE /\ stdin' = stdin /\ job' = [job EXCEPT !.at = "done"]
  <2>1. PICK j : j = [job EXCEPT !.at = "done"]
    OBVIOUS
  <2>2. /\ j \in JobTypes /\ j.at = "done" /\ j.result = job.result /\ j.kind = job.kind /\ j.outcome = job.outcome
        /\ j.pages = job.pages /\ j.credits = job.credits /\ j.usage = job.usage /\ j.limits = job.limits
    BY <2>1, AppFacts DEF JobTypes
  <2>3. job' = j
    BY <1>3, <2>1
  <2>4. AppTypeOK'
    BY <1>1, <1>3, <2>2, <2>3, AppFacts DEF AppTypeOK
  <2>5. CallInv'
    BY <2>2, <2>3 DEF CallInv, Calling, Active
  <2>6. ConsumeInv'
    BY <1>1, <1>3, <2>2, <2>3 DEF AppInv, ConsumeInv
  <2>7. JobInv'
    BY <1>1, <1>3, <2>2, <2>3 DEF AppInv, JobInv, Active, Listed
  <2> QED
    BY <2>4, <2>5, <2>6, <2>7 DEF AppInv
<1> QED
  BY <1>2, <1>3 DEF Close

\* What the child does to its queues: it takes the first request, and says
\* something.  The outcome of a redemption may come with it.
LEMMA ServeStep ==
    ASSUME AppInv, child = "running", stdin # <<>>,
           UNCHANGED <<job, call, child, dir, over, total>>, noise' \in Nat, stdin' = Tail(stdin),
           stray' \in BOOLEAN, stray => stray',
           NEW h \in Requests, held' = h, NEW m \in Messages, m.kind # "notice", stdout' = Append(stdout, m),
           NEW r \in Requests, r = IF held # NoRequest THEN held ELSE Head(stdin),
           h = NoRequest \/ (h = Head(stdin) /\ held = NoRequest),
           \/ r.method # "consume" /\ spent' = spent
           \/ h # NoRequest /\ spent' = spent
           \/ r.method = "consume" /\ h = NoRequest /\ spent' \in RedeemOutcomes,
           m.kind = "result" =>
              /\ m.id = r.id
              /\ r.method = "consume" => \/ m.body.outcome = spent' /\ spent' \in RedeemOutcomes
                                         \/ m.body.outcome = "none" /\ stray'
              /\ r.method = "list" => \/ PageOf(r.arg, m.body)
                                      \/ stray' /\ m.body.page = 0 /\ m.body.next = 0
    PROVE  AppInv'
<1>1. /\ stdin \in Seq(Requests) /\ stdout \in Seq(Messages)
  BY AppFacts
<1>2. /\ Head(stdin) = stdin[1] /\ 1 \in 1..Len(stdin) /\ stdin' \in Seq(Requests)
      /\ \A i \in 1..Len(stdin') : i + 1 \in 1..Len(stdin) /\ stdin'[i] = stdin[i + 1]
  BY <1>1, TailFacts
<1>3. /\ stdout' \in Seq(Messages)
      /\ \A i \in 1..Len(stdout') : (i \in 1..Len(stdout) /\ stdout'[i] = stdout[i]) \/ stdout'[i] = m
  BY <1>1, AppendFacts
<1>4. r.method = "consume" => /\ spent = "none" /\ r.id = 3
                              /\ \A i \in 1..Len(stdin') : stdin'[i].method # "consume"
  <2>1. CASE held # NoRequest
    BY <1>2, <2>1 DEF AppInv, ConsumeInv
  <2>2. CASE held = NoRequest
    <3>1. ASSUME r.method = "consume", NEW i \in 1..Len(stdin'), stdin'[i].method = "consume"
          PROVE  FALSE
      <4>1. i + 1 = 1
        BY <1>2, <2>2, <3>1 DEF AppInv, ConsumeInv
      <4> QED
        BY <4>1
    <3> QED
      BY <1>2, <2>2, <3>1 DEF AppInv, ConsumeInv
  <2> QED
    BY <2>1, <2>2
<1>5. spent' = spent \/ (spent = "none" /\ spent' # "none" /\ r.method = "consume" /\ h = NoRequest)
  BY <1>4, AppServerAssumption
<1>6. job.at # "new" /\ job.at # "reap" /\ job.at # "done"
  BY DEF AppInv, JobInv
<1>7. AppTypeOK'
  <2>1. spent' \in SomeOutcome
    BY AppFacts DEF SomeOutcome
  <2> QED
    BY <1>2, <1>3, <2>1, AppFacts DEF AppTypeOK
<1>8. Active(job) => Asks(call, r)
  <2>1. CASE held # NoRequest
    BY <2>1 DEF AppInv, CallInv
  <2>2. CASE held = NoRequest
    BY <1>2, <2>2 DEF AppInv, CallInv
  <2> QED
    BY <2>1, <2>2
\* An answer is to a request that has been made, and none of a redemption was
\* heard before it was done.
<1>9. \A b : Active(job) /\ Answers(call, b) => Answers(call, b)'
  <2>1. CASE spent' = spent
    BY <2>1 DEF Answers, PageOf
  <2>2. CASE spent = "none"
    BY <2>2 DEF Answers, PageOf
  <2> QED
    BY <1>5, <2>1, <2>2
<1>10. Active(job) => Says(call, m)'
  <2> SUFFICES ASSUME Active(job), m.kind = "result", ~(m.id < call.id)
               PROVE  m.id = call.id /\ (call.at # "send" \/ stray') /\ Answers(call, m.body)'
    BY DEF Says
  <2>1. m.id = call.id /\ call.at # "send" /\ r.method = call.method /\ r.arg = call.arg
    BY <1>8, QueuedFacts DEF Asks
  <2>2. call.method = "list" => PageOf(call.arg, m.body)' \/ (stray' /\ m.body.page = 0 /\ m.body.next = 0)
    BY <2>1 DEF PageOf
  <2>3. call.method = "consume" =>
           (spent' # "none" /\ m.body.outcome = spent') \/ (stray' /\ m.body.outcome = "none")
    BY <2>1, AppServerAssumption
  <2> QED
    BY <2>1, <2>2, <2>3 DEF Answers
<1>11. CallInv'
  <2>1. Calling(job, call)
    BY AppFacts
  <2>2. Active(job) => \A i \in 1..Len(stdin') : Asks(call, stdin'[i])
    BY <1>2 DEF AppInv, CallInv
  <2>3. Active(job) /\ h # NoRequest => Asks(call, h)
    BY <1>2 DEF AppInv, CallInv
  <2>4. Active(job) => \A i \in 1..Len(stdout) : Says(call, stdout[i])'
    <3>1. Active(job) => \A i \in 1..Len(stdout) : Says(call, stdout[i])
      BY DEF AppInv, CallInv
    <3> QED
      BY <1>9, <3>1 DEF Says
  <2> QED
    BY <1>3, <1>9, <1>10, <2>1, <2>2, <2>3, <2>4 DEF AppInv, CallInv, Says
<1>12. ConsumeInv'
  <2>1. \A i \in 1..Len(stdin') : stdin'[i].method = "consume" => stdin'[i].id = 3 /\ spent' = "none"
    BY <1>2, <1>4, <1>5 DEF AppInv, ConsumeInv
  <2>2. \A i, k \in 1..Len(stdin') : stdin'[i].method = "consume" /\ stdin'[k].method = "consume" => i = k
    <3> SUFFICES ASSUME NEW i \in 1..Len(stdin'), NEW k \in 1..Len(stdin'),
                        stdin'[i].method = "consume", stdin'[k].method = "consume"
                 PROVE  i = k
      OBVIOUS
    <3>1. i + 1 = k + 1
      BY <1>2 DEF AppInv, ConsumeInv
    <3> QED
      BY <3>1
  <2>3. h.method = "consume" => /\ h.id = 3 /\ spent' = "none"
                                /\ \A i \in 1..Len(stdin') : stdin'[i].method # "consume"
    <3> SUFFICES ASSUME h.method = "consume" PROVE /\ h.id = 3 /\ spent' = "none"
                                                   /\ \A i \in 1..Len(stdin') : stdin'[i].method # "consume"
      OBVIOUS
    <3>1. h # NoRequest /\ h = r
      BY AppConstants
    <3> QED
      BY <1>4, <1>5, <3>1
  <2>4. call.method = "consume" /\ call.at = "send" =>
           spent' = "none" /\ h.method # "consume" /\ \A i \in 1..Len(stdin') : stdin'[i].method # "consume"
    <3> SUFFICES ASSUME call.method = "consume", call.at = "send"
                 PROVE  spent' = "none" /\ h.method # "consume" /\ \A i \in 1..Len(stdin') : stdin'[i].method # "consume"
      OBVIOUS
    <3>1. spent = "none" /\ held.method # "consume" /\ \A i \in 1..Len(stdin) : stdin[i].method # "consume"
      BY DEF AppInv, ConsumeInv
    <3>2. r.method # "consume"
      BY <1>2, <3>1
    <3> QED
      BY <1>2, <1>5, <3>1, <3>2, AppConstants
  <2>5. job.at \in {"init", "login"} => spent' = "none"
    <3>1. job.at \in {"init", "login"} => spent = "none" /\ call.id < 3 /\ Asks(call, r)
      BY <1>8, AppFacts DEF AppInv, ConsumeInv, Calling, Active
    <3>2. call.id \in Nat /\ r.id \in Nat
      BY QueuedFacts DEF Requests
    <3>3. job.at \in {"init", "login"} => r.method # "consume"
      BY <1>4, <3>1, <3>2 DEF Asks
    <3> QED
      BY <1>5, <3>1, <3>3
  <2>6. job.outcome # "none" => job.outcome = spent' \/ (stray' /\ job.outcome = "empty")
    BY <1>5 DEF AppInv, ConsumeInv
  <2> QED
    BY <1>6, <2>1, <2>2, <2>3, <2>4, <2>5, <2>6 DEF AppInv, ConsumeInv
<1>13. JobInv'
  <2>1. job.kind = "models" /\ job.result = "ok" => Listed(job.pages)'
    BY DEF AppInv, JobInv, Listed
  <2> QED
    BY <1>6, <2>1 DEF AppInv, JobInv
<1> QED
  BY <1>7, <1>11, <1>12, <1>13 DEF AppInv

\* What the child answers to a page of the listing is that page.
LEMMA RepliesAnswer ==
    ASSUME AppInv, NEW r \in Requests, r.method # "consume", NEW b \in Replies(r)
    PROVE  b \in Bodies /\ (r.method = "list" => PageOf(r.arg, b))
<1>1. CASE r.method = "read"
  <2>1. b \in [credits : {"nil", "zero", "counted", "detailed"}, limits : Limits, outcome : {"none"}, page : {0}, next : {0}]
    BY <1>1 DEF Replies
  <2> QED
    BY <1>1, <2>1 DEF Bodies, Credits, SomeLimit, SomeOutcome
<1>2. CASE r.method = "list"
  <2>1. PICK arg, page : arg = r.arg /\ page = IF arg = 0 THEN 1 ELSE arg
    OBVIOUS
  <2>2. arg \in Nat /\ page \in Nat /\ total \in Nat
    BY <2>1, AppFacts DEF Requests
  <2>3. PICK n \in {0, arg} : b = [Body EXCEPT !.page = page, !.next = IF page < total THEN page + 1 ELSE n]
    BY <1>2, <2>1 DEF Replies
  <2>4. PICK next : next = IF page < total THEN page + 1 ELSE n
    OBVIOUS
  <2>5. next \in Nat
    BY <2>2, <2>3, <2>4
  <2>6. b \in Bodies /\ b.page = page /\ b.next = next
    BY <2>2, <2>3, <2>4, <2>5, AppConstants DEF Bodies
  <2>7. b.page = page /\ IF page < total THEN b.next = page + 1 ELSE b.next \in {0, arg}
    BY <2>3, <2>4, <2>6
  <2> QED
    BY <2>1, <2>6, <2>7 DEF PageOf
<1>3. CASE r.method \notin {"read", "list"}
  BY <1>3, AppConstants DEF Replies
<1> QED
  BY <1>1, <1>2, <1>3

\* The child serves the oldest request: its answer has that number.
LEMMA ServedStep ==
    ASSUME AppInv, Serve
    PROVE  AppInv'
<1>1. /\ child = "running" /\ stdin # <<>> /\ stdin' = Tail(stdin) /\ held' = NoRequest
      /\ UNCHANGED <<job, call, child, dir, over, total>>
  BY DEF Serve
<1>2. PICK r : r = IF held # NoRequest THEN held ELSE Head(stdin)
  OBVIOUS
<1>3. r \in Requests /\ r.id \in Nat
  <2>1. stdin \in Seq(Requests) /\ held \in Requests
    BY AppFacts
  <2>2. Head(stdin) \in Requests
    BY <1>1, <2>1, TailFacts
  <2> QED
    BY <1>2, <2>1, <2>2 DEF Requests
<1>4. PICK h : h = NoRequest
  OBVIOUS
<1>5. /\ IF r.method = "consume" THEN spent' \in RedeemOutcomes ELSE spent' = spent
      /\ \/ /\ \/ \E b \in Replies(r) :
                    ChildSays("result", r.id, IF r.method = "consume" THEN [b EXCEPT !.outcome = spent'] ELSE b)
               \/ ChildSays("error", r.id, Body)
            /\ UNCHANGED <<noise, stray>>
         \/ ChildSays("result", r.id, Body) /\ noise' = noise + 1 /\ stray' = TRUE
  BY <1>2 DEF Serve
<1>6. noise' \in Nat /\ stray' \in BOOLEAN /\ (stray => stray')
  <2>1. (noise' = noise /\ stray' = stray) \/ (noise' = noise + 1 /\ stray' = TRUE)
    BY <1>5
  <2>2. noise \in Nat /\ stray \in BOOLEAN
    BY AppFacts
  <2>3. noise' \in Nat
    BY <2>1, <2>2
  <2> QED
    BY <2>1, <2>2, <2>3
<1>7. \E kind \in {"result", "error"}, b \in Bodies :
        /\ ChildSays(kind, r.id, b)
        /\ kind = "result" =>
             /\ r.method = "consume" => b.outcome = spent' \/ (b.outcome = "none" /\ stray')
             /\ r.method = "list" => PageOf(r.arg, b) \/ (stray' /\ b.page = 0 /\ b.next = 0)
  <2>1. CASE ChildSays("error", r.id, Body)
    BY <2>1, AppConstants
  <2>2. CASE ChildSays("result", r.id, Body) /\ stray' = TRUE
    <3>1. Body.page = 0 /\ Body.next = 0 /\ Body.outcome = "none"
      BY DEF Body
    <3> QED
      BY <2>2, <3>1, AppConstants
  <2>3. ASSUME NEW b \in Replies(r),
               ChildSays("result", r.id, IF r.method = "consume" THEN [b EXCEPT !.outcome = spent'] ELSE b)
        PROVE  \E kind \in {"result", "error"}, x \in Bodies :
                  /\ ChildSays(kind, r.id, x)
                  /\ kind = "result" =>
                       /\ r.method = "consume" => x.outcome = spent' \/ (x.outcome = "none" /\ stray')
                       /\ r.method = "list" => PageOf(r.arg, x) \/ (stray' /\ x.page = 0 /\ x.next = 0)
    <3>1. CASE r.method = "consume"
      <4>1. b = Body /\ spent' \in SomeOutcome
        BY <1>5, <2>3, <3>1 DEF Replies, SomeOutcome
      <4>2. PICK x : x = [b EXCEPT !.outcome = spent']
        OBVIOUS
      <4>3. x \in Bodies /\ x.outcome = spent'
        BY <4>1, <4>2, AppConstants DEF Bodies
      <4> QED
        BY <2>3, <3>1, <4>2, <4>3
    <3>2. CASE r.method # "consume"
      BY <1>3, <2>3, <3>2, RepliesAnswer
    <3> QED
      BY <3>1, <3>2
  <2> QED
    BY <1>5, <2>1, <2>2, <2>3
<1>8. PICK kind \in {"result", "error"}, b \in Bodies :
        /\ ChildSays(kind, r.id, b)
        /\ kind = "result" =>
             /\ r.method = "consume" => b.outcome = spent' \/ (b.outcome = "none" /\ stray')
             /\ r.method = "list" => PageOf(r.arg, b) \/ (stray' /\ b.page = 0 /\ b.next = 0)
  BY <1>7
<1>9. PICK m : m = [kind |-> kind, id |-> r.id, body |-> b]
  OBVIOUS
<1>10. m \in Messages /\ m.kind = kind /\ m.id = r.id /\ m.body = b
  BY <1>3, <1>9 DEF Messages
<1>11. stdout' = Append(stdout, m)
  BY <1>8, <1>9 DEF ChildSays
<1>12. (r.method # "consume" /\ spent' = spent) \/ (r.method = "consume" /\ spent' \in RedeemOutcomes)
  BY <1>5
<1> QED
  BY <1>1, <1>2, <1>3, <1>4, <1>6, <1>8, <1>10, <1>11, <1>12, AppConstants, ServeStep

\* A child may ask for a token before it answers; that is no answer.
LEMMA TokenStep ==
    ASSUME AppInv, AskToken
    PROVE  AppInv'
<1>1. /\ child = "running" /\ stdin # <<>> /\ held = NoRequest /\ held' = Head(stdin) /\ stdin' = Tail(stdin)
      /\ UNCHANGED <<job, call, child, dir, over, spent, total, stray>> /\ noise' \in Nat /\ stray \in BOOLEAN
  BY AppFacts DEF AskToken
<1>2. PICK r : r = Head(stdin)
  OBVIOUS
<1>3. r \in Requests /\ r.id \in Nat
  <2>1. stdin \in Seq(Requests)
    BY AppFacts
  <2>2. Head(stdin) \in Requests
    BY <1>1, <2>1, TailFacts
  <2> QED
    BY <1>2, <2>2 DEF Requests
<1>4. PICK id \in {0, r.id} : ChildSays("refresh", id, Body)
  BY <1>2 DEF AskToken
<1>5. PICK m : m = [kind |-> "refresh", id |-> id, body |-> Body]
  OBVIOUS
<1>6. m \in Messages /\ m.kind = "refresh"
  BY <1>3, <1>5, AppConstants DEF Messages
<1>7. stdout' = Append(stdout, m)
  BY <1>4, <1>5 DEF ChildSays
<1>8. r # NoRequest \/ r.method # "consume"
  BY AppConstants
<1> QED
  BY <1>1, <1>2, <1>3, <1>6, <1>7, <1>8, ServeStep

\* An operation that has not begun satisfies the invariant.
LEMMA AppStarts == AppInit => AppInv
<1> SUFFICES ASSUME AppInit PROVE AppInv
  OBVIOUS
<1>1. PICK k \in {"usage", "credits", "consume", "models"} :
        job = [kind |-> k, at |-> "new", tries |-> 0, outcome |-> "none", pages |-> <<>>,
               credits |-> "nil", limits |-> NoLimits, usage |-> NoUsage, result |-> "none"]
  BY DEF AppInit
<1>2. /\ job \in JobTypes /\ job.at = "new" /\ job.outcome = "none" /\ job.pages = <<>> /\ job.usage = NoUsage
      /\ job.result = "none"
  BY <1>1 DEF JobTypes, SomeLimit, SomeOutcome, Credits
<1>3. total \in Nat \ {0}
  BY AppServerAssumption DEF AppInit
<1>4. /\ call = Idle /\ child = "none" /\ dir = FALSE /\ over = FALSE /\ stdin = <<>> /\ stdout = <<>>
      /\ held = NoRequest /\ noise = 0 /\ spent = "none" /\ stray = FALSE
  BY DEF AppInit
<1>5. AppTypeOK
  <2>1. stdin \in Seq(Requests) /\ stdout \in Seq(Messages)
    BY <1>4
  <2>2. call \in CallTypes /\ held \in Requests
    BY <1>4, AppConstants
  <2>3. child \in {"none", "running", "dead", "reaped"} /\ dir \in BOOLEAN /\ over \in BOOLEAN /\ noise \in Nat
    BY <1>4
  <2>4. spent \in SomeOutcome /\ stray \in BOOLEAN
    BY <1>4 DEF SomeOutcome
  <2> QED
    BY <1>2, <1>3, <2>1, <2>2, <2>3, <2>4 DEF AppTypeOK
<1>6. CallInv
  BY <1>2 DEF CallInv, Calling, Active
<1>7. ConsumeInv
  BY <1>2, <1>4, AppConstants DEF ConsumeInv
<1>8. JobInv
  BY <1>2, <1>4 DEF JobInv, Active
<1> QED
  BY <1>5, <1>6, <1>7, <1>8 DEF AppInv

\* Every step of the client, of the child and of the context keeps it.
LEMMA AppSteps == AppInv /\ [AppNext]_appVars => AppInv'
<1> SUFFICES ASSUME AppInv, [AppNext]_appVars PROVE AppInv'
  OBVIOUS
<1>1. CASE CallStep
  BY <1>1, WriteStep, ReadMessageStep, OutputEndsStep DEF CallStep
<1>2. CASE Launch \/ AbandonHandshake \/ SessionReady
  BY <1>2, LaunchStep, AbandonStep, SessionReadyStep
<1>3. CASE Usage \/ ReadResetCreditDetails \/ ConsumeResetCredit \/ ListModels
  BY <1>3, UsageStep, CreditsStep, ConsumeStep, ListStep
<1>4. CASE CallFails \/ Close
  BY <1>4, FailsStep, CloseStep
<1>5. CASE Serve \/ AskToken
  BY <1>5, ServedStep, TokenStep
<1>6. CASE Babble \/ ChildDies \/ ContextEnds \/ ContextKills
  <2>1. UNCHANGED <<job, call, stdin, held, spent, total>> /\ dir' = dir
    BY <1>6 DEF Babble, ChildDies, ContextEnds, ContextKills, childVars
  <2>2. child' = child \/ (child = "running" /\ child' = "dead")
    BY <1>6 DEF Babble, ChildDies, ContextEnds, ContextKills
  <2>3. over' \in BOOLEAN /\ noise' \in Nat
    <3>1. over' = over \/ over' = TRUE
      BY <1>6 DEF Babble, ChildDies, ContextEnds, ContextKills
    <3>2. noise' = noise \/ noise' = noise + 1
      BY <1>6 DEF Babble, ChildDies, ContextEnds, ContextKills, childVars
    <3>3. over' \in BOOLEAN
      BY <3>1, AppFacts
    <3>4. noise' \in Nat
      BY <3>2, AppFacts
    <3> QED
      BY <3>3, <3>4
  <2>4. \/ stdout' = stdout
        \/ /\ child = "running"
           /\ \E kind \in {"notice", "garbage"}, id \in {0, call.id} :
                /\ stdout' = Append(stdout, [kind |-> kind, id |-> id, body |-> Body])
                /\ kind = "notice" /\ id # 0 => stray'
    BY <1>6 DEF Babble, ChildSays, ChildDies, ContextEnds, ContextKills, childVars
  <2>5. stray' \in BOOLEAN /\ (stray => stray')
    <3>1. stray' = stray \/ \E id \in {0, call.id} : stray' = (stray \/ id # 0)
      BY <1>6 DEF Babble, ChildDies, ContextEnds, ContextKills, childVars
    <3>2. stray \in BOOLEAN
      BY AppFacts
    <3>3. (stray \/ TRUE) = TRUE /\ (stray \/ FALSE) = stray
      BY <3>2
    <3>4. stray' = stray \/ stray' = TRUE
      BY <3>1, <3>2, <3>3
    <3> QED
      BY <3>2, <3>4
  <2> QED
    BY <2>1, <2>2, <2>3, <2>4, <2>5, ElsewhereStep
<1>7. CASE UNCHANGED appVars
  BY <1>7, AppFacts, ElsewhereStep DEF appVars
<1> QED
  BY <1>1, <1>2, <1>3, <1>4, <1>5, <1>6, <1>7 DEF AppNext, JobStep

\* A full window that lasts a week, or a full first one, blocks.
LEMMA FullBlocks ==
    ASSUME NEW l, l.primary.full \/ (l.secondary.full /\ l.secondary.long)
    PROVE  ~NormalizeAppServerRateLimits(l).allowed
<1>1. PICK p, s : p = l.primary /\ s = l.secondary
  OBVIOUS
<1>2. PICK week, five : /\ week = IF p.given /\ p.long THEN p ELSE IF s.given /\ ~s.long THEN NoWindow ELSE s
                        /\ five = IF p.given /\ p.long THEN s ELSE p
  OBVIOUS
<1>3. NormalizeAppServerRateLimits(l).allowed = ~(l.reached = "limit" \/ l.spend \/ five.full \/ week.full)
  BY <1>1, <1>2 DEF NormalizeAppServerRateLimits
<1>4. CASE p.full
  BY <1>2, <1>3, <1>4
<1>5. CASE s.full /\ s.long
  BY <1>2, <1>3, <1>5
<1> QED
  BY <1>1, <1>4, <1>5

\* The invariant says what the run checks.
LEMMA AppInvSuffices == AppInv => OperationSafe
<1> SUFFICES ASSUME AppInv PROVE OperationSafe
  OBVIOUS
<1>1. NothingLeftBehind /\ CreditsAreDetailed
  BY DEF AppInv, JobInv, NothingLeftBehind, CreditsAreDetailed
<1>2. OutcomeReported
  BY DEF AppInv, JobInv, ConsumeInv, OutcomeReported
<1>3. FullWindowBlocks
  BY FullBlocks, AppConstants DEF AppInv, JobInv, FullWindowBlocks
<1>4. ListIsWhole
  <2> SUFFICES ASSUME job.kind = "models", job.at = "done", job.result = "ok"
               PROVE  \/ job.pages = [i \in 1..total |-> i]
                      \/ stray /\ \E n \in 0..total : job.pages = [i \in 1..(n + 1) |-> IF i <= n THEN i ELSE 0]
    BY DEF ListIsWhole
  <2>1. job.pages \in Seq(Nat) /\ total \in Nat
    BY AppFacts DEF JobTypes
  <2>2. Listed(job.pages)
    BY DEF AppInv, JobInv
  <2>3. CASE Len(job.pages) = total /\ \A i \in 1..Len(job.pages) : job.pages[i] = i
    BY <2>1, <2>3
  <2>4. CASE /\ stray /\ Len(job.pages) \in 1..(total + 1)
             /\ \A i \in 1..Len(job.pages) : job.pages[i] = IF i < Len(job.pages) THEN i ELSE 0
    <3>1. PICK n : n = Len(job.pages) - 1
      OBVIOUS
    <3>2. n \in 0..total /\ Len(job.pages) = n + 1
      BY <2>1, <2>4, <3>1
    <3>3. \A i \in 1..(n + 1) : job.pages[i] = IF i <= n THEN i ELSE 0
      BY <2>4, <3>2
    <3>4. job.pages = [i \in 1..(n + 1) |-> IF i <= n THEN i ELSE 0]
      BY <2>1, <3>2, <3>3
    <3> QED
      BY <2>4, <3>2, <3>4
  <2> QED
    BY <2>2, <2>3, <2>4 DEF Listed
<1> QED
  BY <1>1, <1>2, <1>3, <1>4 DEF OperationSafe

\* It holds of every operation.
LEMMA AppInvariant == AppSpec => []AppInv
  BY AppStarts, AppSteps, PTL DEF AppSpec

\* Whatever the child says, out of turn, twice or not at all, and whenever it
\* dies or the context ends, for any limits of pages and readings: an operation
\* that has returned leaves no process and no directory; a redemption is
\* reported exactly when its answer was read, with the provider's outcome, or
\* with none if what was read names none; no count without details and no listing with a page missing is handed on; a
\* full window blocks.
THEOREM OperationsAreSafe == AppSpec => []OperationSafe
  BY AppInvariant, AppInvSuffices, PTL
=============================================================================
