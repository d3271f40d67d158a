----------------------------- MODULE DailyReport -----------------------------
(***************************************************************************)
(* The team's daily e-mail (reporting/service.go, store/reports.go).       *)
(* Every replica renders the report when it is due and tries to claim the  *)
(* day.  The first claim freezes the payload; a claim is a lease that the  *)
(* next replica takes over when its holder has not finished.  The mail     *)
(* service accepts one message for an idempotency key.                     *)
(***************************************************************************)
EXTENDS Naturals, FiniteSets

CONSTANTS
    Reporters,       \* replicas
    Payloads,        \* reports that renderings of the same day may produce
    NoPayload,
    Lease,           \* minutes of a claim
    RetryDelay,      \* minutes of lease left by RetryDailyReport
    SendTime,        \* minutes of the context of SendDue
    MaxReportAttempts

ASSUME ReportAssumption ==
    /\ NoPayload \notin Payloads
    /\ Lease \in Nat /\ RetryDelay \in 0..Lease /\ SendTime \in Nat /\ SendTime < Lease
    /\ MaxReportAttempts \in Nat \ {0}

VARIABLES
    report,      \* row of the day: frozen payload, attempts, minutes of lease left, email id set
    reporter,    \* progress of a replica, its payload, minutes left of its context
    delivered    \* payloads the mail service was given under the key of the day

reportVars == <<report, reporter, delivered>>

NoSend == [at |-> "idle", payload |-> NoPayload, left |-> 0]

ReportTypeOK ==
    /\ report \in [payload : Payloads \cup {NoPayload}, attempts : 0..MaxReportAttempts,
                   lease : 0..Lease, sent : BOOLEAN]
    /\ reporter \in [Reporters -> [at : {"idle", "claim", "send", "finish", "retry"},
                                   payload : Payloads \cup {NoPayload}, left : 0..SendTime]]
    /\ delivered \subseteq Payloads

ReportInit ==
    /\ report = [payload |-> NoPayload, attempts |-> 0, lease |-> 0, sent |-> FALSE]
    /\ reporter = [r \in Reporters |-> NoSend]
    /\ delivered = {}

Reports(r, f) == reporter' = [reporter EXCEPT ![r] = f]
-----------------------------------------------------------------------------
\* SendDue up to the claim: accounts, requests and model usage are read and
\* rendered on every cycle, also when the day is claimed or the report sent.
RenderReport(r) ==
    /\ reporter[r].at = "idle"
    /\ \E p \in Payloads : Reports(r, [at |-> "claim", payload |-> p, left |-> SendTime])
    /\ UNCHANGED <<report, delivered>>

\* A row without email id whose lease ended, and with attempts left.
Claimable == ~report.sent /\ report.lease = 0 /\ report.attempts < MaxReportAttempts

Claim(r, payload) ==
    /\ report' = [payload |-> payload, attempts |-> report.attempts + 1, lease |-> Lease, sent |-> FALSE]
    /\ Reports(r, [reporter[r] EXCEPT !.at = "send", !.payload = payload])

\* Mutant: the report just rendered is sent, not the frozen one.
Mut_SendRendered(r) ==
    /\ reporter[r].at = "claim"
    /\ IF Claimable THEN Claim(r, reporter[r].payload) ELSE Reports(r, NoSend) /\ UNCHANGED report
    /\ UNCHANGED delivered

\* ClaimDailyReport: inserted, taken over with the payload of the row, or refused.
ClaimDailyReport(r) ==
    /\ reporter[r].at = "claim"
    /\ IF Claimable
       THEN Claim(r, IF report.attempts = 0 THEN reporter[r].payload ELSE report.payload)
       ELSE Reports(r, NoSend) /\ UNCHANGED report
    /\ UNCHANGED delivered

\* send: taken by the service, refused, or taken and the answer is lost.
SendReport(r) ==
    /\ reporter[r].at = "send"
    /\ \E given \in BOOLEAN, at \in {"finish", "retry"} :
         /\ at = "finish" => given
         /\ delivered' = IF given THEN delivered \cup {reporter[r].payload} ELSE delivered
         /\ Reports(r, [reporter[r] EXCEPT !.at = at])
    /\ UNCHANGED report

FinishDailyReport(r) ==
    /\ reporter[r].at = "finish"
    /\ report' = [report EXCEPT !.sent = TRUE]
    /\ Reports(r, NoSend)
    /\ UNCHANGED delivered

RetryDailyReport(r) ==
    /\ reporter[r].at = "retry"
    /\ report' = IF report.sent THEN report ELSE [report EXCEPT !.lease = RetryDelay]
    /\ Reports(r, NoSend)
    /\ UNCHANGED delivered

\* The context or the process ends, or a statement fails, and with it the
\* write that would finish the report or allow a retry.
ReporterStops(r) ==
    /\ reporter[r].at # "idle"
    /\ Reports(r, NoSend)
    /\ UNCHANGED <<report, delivered>>

\* No context outlives its 45 seconds.
ReportMinute ==
    /\ \A r \in Reporters : reporter[r].at # "idle" => reporter[r].left > 0
    /\ report.lease > 0
    /\ report' = [report EXCEPT !.lease = @ - 1]
    /\ reporter' = [r \in Reporters |-> IF reporter[r].at = "idle" THEN NoSend
                                        ELSE [reporter[r] EXCEPT !.left = @ - 1]]
    /\ UNCHANGED delivered

ReporterStep(r) ==
    \/ RenderReport(r) \/ ClaimDailyReport(r) \/ SendReport(r)
    \/ FinishDailyReport(r) \/ RetryDailyReport(r)

ReportNext == ReportMinute \/ \E r \in Reporters : ReporterStep(r) \/ ReporterStops(r)

\* The ticker of a replica that runs fires again, and what it has begun it
\* continues or gives up; a replica gets to its claim again and again.
ReportFairness ==
    /\ SF_reportVars(ReportMinute)
    /\ \A r \in Reporters : WF_reportVars(ReporterStep(r)) /\ SF_reportVars(ClaimDailyReport(r))

ReportSpec == ReportInit /\ [][ReportNext]_reportVars /\ ReportFairness
-----------------------------------------------------------------------------
(* Properties.                                                              *)

\* Every send of the day, whichever replica repeats it after a crash or a lost
\* answer, carries the same body under the same key, so that the mail service
\* recognises it: the team gets one e-mail a day.
OneReportPerDay == Cardinality(delivered) <= 1

\* The lease outlives the context of its holder: two replicas never talk to
\* the mail service at the same time, and no late RetryDailyReport shortens
\* the lease of the replica that took over.
OneReporterAtATime ==
    Cardinality({r \in Reporters : reporter[r].at \in {"send", "finish", "retry"}}) <= 1

\* A replica that crashes with the claim does not keep the report: it ends up
\* sent, or its attempts have been used.
ReportSettled == report.attempts > 0 ~> (report.sent \/ report.attempts = MaxReportAttempts)

\* One report a day by one replica at a time, however often it is claimed.
ReportSafe == ReportTypeOK /\ OneReportPerDay /\ OneReporterAtATime
=============================================================================
