----------------------------- MODULE AccountRow -----------------------------
(***************************************************************************)
(* One row of provider_accounts and the SQL statements that change it.     *)
(* Every component that writes the row uses these operators; they hold no  *)
(* state of their own.  Columns that no decision reads (names, times of    *)
(* the last success, error codes of the health columns) are left out.      *)
(*                                                                         *)
(* Times are counted in ticks from now: cooldown is NoTime for NULL and 0  *)
(* once cooldown_until has passed; next is 0 once next_health_check_at has *)
(* passed or is NULL.                                                      *)
(***************************************************************************)
EXTENDS Naturals

CONSTANTS
    UnhealthyAfter,  \* consecutive failures that make an account unhealthy (3)
    CheckInterval,   \* ticks to the next check after a result (5 minutes)
    MaxCooldown,     \* the longest cooldown (15 minutes)
    NoTime           \* NULL

ASSUME RowAssumption ==
    /\ UnhealthyAfter \in Nat \ {0, 1}
    /\ CheckInterval \in Nat \ {0}
    /\ MaxCooldown \in Nat
    /\ NoTime \notin Nat

Statuses == {"active", "disabled", "cooling_down", "auth_failed", "exhausted"}
HealthStatuses == {"unknown", "healthy", "unhealthy"}

\* allowed is what the stored quota snapshot says of usage.
Rows == [status : Statuses, cooldown : (0..MaxCooldown) \cup {NoTime},
         health : HealthStatuses, failures : 0..UnhealthyAfter,
         next : 0..CheckInterval, allowed : BOOLEAN]

\* CreateProviderAccount: validateNewAccount refuses a credential that the
\* provider rejects, and ApplyNewAccount stores any other first result. The
\* check opens the credential which the same call has just sealed, so that it
\* is never found to be unavailable here.
NewRow == [status |-> "active", cooldown |-> NoTime, health |-> "healthy", failures |-> 0,
           next |-> CheckInterval, allowed |-> TRUE]

ApplyNewAccount(result) ==
    CASE result = "blocked"      -> [NewRow EXCEPT !.status = "exhausted", !.allowed = FALSE]
      [] result = "failure"      -> [NewRow EXCEPT !.health = "unknown", !.failures = 1]
      [] result \in {"quota_failed", "unknown"} -> [NewRow EXCEPT !.health = "unknown"]
      [] OTHER                   -> NewRow

\* The rows that routing may pick.
Eligible(r) ==
    /\ r.status = "active" \/ (r.status = "cooling_down" /\ r.cooldown = 0)
    /\ r.health # "unhealthy"

\* The gateway's own test of a row it has read.
accountHealthy(r) == Eligible(r) /\ r.allowed

\* The statement has no condition on the old status.
UpdateProviderStatus(r, status, cooldown) ==
    LET reached == status \in {"auth_failed", "cooling_down"}
    IN  [r EXCEPT
            !.status = status,
            !.cooldown = cooldown,
            !.health = CASE status = "auth_failed" -> "unhealthy"
                         [] status = "cooling_down" -> "healthy"
                         [] OTHER -> @,
            !.failures = CASE status = "auth_failed" -> UnhealthyAfter
                           [] status = "cooling_down" -> 0
                           [] OTHER -> @,
            !.next = IF reached THEN CheckInterval ELSE @]

\* The administrator's update; only activation clears the cooldown.
UpdateProviderAccount(r, status) ==
    [r EXCEPT !.status = status, !.cooldown = IF status = "active" THEN NoTime ELSE @]

\* Statuses that a success or a new credential does not overrule.
Held(r) == r.status \in {"disabled", "exhausted"}

RecordRequestSuccess(r) ==
    [r EXCEPT !.status = IF Held(r) THEN @ ELSE "active",
              !.cooldown = IF Held(r) THEN @ ELSE NoTime,
              !.health = "healthy",
              !.failures = 0]

\* The row columns of UpdateProviderCredentialCAS.
CredentialStored(r) ==
    [r EXCEPT !.status = IF Held(r) THEN @ ELSE "active",
              !.cooldown = IF Held(r) THEN @ ELSE NoTime]

SetProviderUsageAllowed(r, allowed) ==
    LET applies == \/ allowed /\ r.status = "exhausted"
                   \/ ~allowed /\ r.status \in {"active", "cooling_down", "exhausted"}
    IN  [r EXCEPT !.status = IF ~applies THEN @ ELSE IF allowed THEN "active" ELSE "exhausted",
                  !.cooldown = IF applies THEN NoTime ELSE @]

\* No caller stores "unhealthy" with this statement.
SetProviderHealth(r, health) ==
    [r EXCEPT !.health = health, !.failures = 0, !.next = CheckInterval]

\* The counter stops at the limit, from which on only its reset matters.
RecordProviderHealthFailure(r) ==
    LET failures == r.failures + 1
    IN  [r EXCEPT !.failures = IF failures > UnhealthyAfter THEN UnhealthyAfter ELSE failures,
                  !.health = IF failures >= UnhealthyAfter THEN "unhealthy" ELSE @,
                  !.next = CheckInterval]

UpdateProviderDetailsWithQuota(r, allowed) ==
    [r EXCEPT !.allowed = allowed]

SetProviderQuotaError(r) == [r EXCEPT !.next = CheckInterval]

CooldownOver(r) == r.status = "cooling_down" /\ r.cooldown = 0

ReactivateProviderIfCooldownExpired(r) ==
    IF CooldownOver(r) THEN [r EXCEPT !.status = "active", !.cooldown = NoTime] ELSE r

\* Time passes for the row.
Aged(r) ==
    [r EXCEPT !.cooldown = IF @ = NoTime \/ @ = 0 THEN @ ELSE @ - 1,
              !.next = IF @ = 0 THEN 0 ELSE @ - 1]
-----------------------------------------------------------------------------
(* What a request that was sent to the account leaves in the row.          *)

Outcomes == {"success", "limit", "auth", "failed", "quota", "neutral"}

\* retryAfter: the provider's time, or a minute, but never more than the cap;
\* a refresh failure and a limit named in a stream cool down for a minute.
Cooldowns(outcome) == IF outcome = "limit" THEN 0..MaxCooldown ELSE {NoTime}

\* evaluateResponse, evaluateProviderError, recordRefreshFailure and
\* recordProviderStreamLimit.  A timeout, a cancelled client, an unsupported
\* model and an error of the request itself leave the row alone, and so does a
\* success that the activity throttle swallows.
AfterRequest(r, outcome, cooldown) ==
    CASE outcome = "success" -> RecordRequestSuccess(r)
      [] outcome = "limit"   -> UpdateProviderStatus(r, "cooling_down", cooldown)
      [] outcome = "auth"    -> UpdateProviderStatus(r, "auth_failed", NoTime)
      [] outcome = "failed"  -> RecordProviderHealthFailure(r)
      [] outcome = "quota"   -> SetProviderUsageAllowed(r, FALSE)
      [] outcome = "neutral" -> r
=============================================================================
