---------------------------- MODULE MCBackground -----------------------------
(***************************************************************************)
(* The parts that work on their own until they are done: checks and the    *)
(* recovery of accounts, device logins, the daily report, the operations   *)
(* of a child process.  The initial state chooses the part that moves, as  *)
(* in MCLocks.                                                             *)
(***************************************************************************)
EXTENDS AccountHealth, DeviceLogin, DailyReport, AppServer

VARIABLE part

\* A week in either place, a full window of each kind, the provider's word.
Lasting(long, full) == [long |-> long, full |-> full, given |-> TRUE]
Both(p, s) == [NoLimits EXCEPT !.primary = p, !.secondary = s, !.given = TRUE]
SomeLimits ==
    {NoLimits, [Both(NoWindow, NoWindow) EXCEPT !.reached = "limit"],
     Both(Lasting(TRUE, FALSE), Lasting(FALSE, TRUE)), Both(Lasting(FALSE, TRUE), NoWindow),
     Both(Lasting(FALSE, FALSE), Lasting(TRUE, TRUE))}

\* A part that does not move has one initial state.
BackgroundInit ==
    /\ part \in {"accounts", "device", "report", "app"}
    /\ HealthInit
    /\ part # "accounts" =>
         \A a \in Accounts : provider[a] = "codex" /\ row[a] = ApplyNewAccount("healthy")
    /\ DeviceLoginInit /\ ReportInit
    /\ AppInit /\ (part # "app" => job.kind = "usage")

BackgroundNext ==
    \/ part = "accounts" /\ HealthNext /\ UNCHANGED <<part, deviceVars, reportVars, appVars>>
    \/ part = "device" /\ DeviceLoginNext /\ UNCHANGED <<part, healthVars, reportVars, appVars>>
    \/ part = "report" /\ ReportNext /\ UNCHANGED <<part, healthVars, deviceVars, appVars>>
    \/ part = "app" /\ AppNext /\ UNCHANGED <<part, healthVars, deviceVars, reportVars>>

\* The fairness of each part, asked of the part that moves.
BackgroundFairness ==
    /\ WF_healthVars(part = "accounts" /\ HealthTick)
    /\ \A w \in Workers : WF_healthVars(part = "accounts" /\ ClaimProviderHealthChecks(w))
    /\ \A w \in Workers, a \in Accounts : WF_healthVars(part = "accounts" /\ CheckStep(w, a))
    /\ \A a \in Accounts : /\ WF_healthVars(part = "accounts" /\ Answer(a))
                           /\ WF_healthVars(part = "accounts" /\ persistResetQuota(a))
    /\ \A l \in Logins : WF_deviceVars(part = "device" /\ LoginStep(l))
    /\ SF_reportVars(part = "report" /\ ReportMinute)
    /\ \A r \in Reporters : /\ WF_reportVars(part = "report" /\ ReporterStep(r))
                            /\ SF_reportVars(part = "report" /\ ClaimDailyReport(r))
    /\ WF_appVars(part = "app" /\ CallStep) /\ WF_appVars(part = "app" /\ JobStep)
    /\ WF_appVars(part = "app" /\ ContextEnds) /\ WF_appVars(part = "app" /\ ContextKills)

BackgroundSpec ==
    /\ BackgroundInit /\ [][BackgroundNext]_<<part, healthVars, deviceVars, reportVars, appVars>>
    /\ BackgroundFairness
-----------------------------------------------------------------------------
\* What works on its own comes to an end: a device login, the report of a day,
\* an operation on a child process.
EverythingSettles == LoginsEnd /\ ReportSettled /\ OperationEnds
=============================================================================
