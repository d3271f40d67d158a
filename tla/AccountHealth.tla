---------------------------- MODULE AccountHealth ----------------------------
(***************************************************************************)
(* Who changes the status and the health of a provider account, and in     *)
(* which order: the scheduled checks of every replica (health.Checker),    *)
(* the administrator's check, update and refresh (control.Server), the     *)
(* redemption of a reset credit, and the requests in flight in the gateway *)
(* (evaluateResponse and its kin).  Each of them reads the row, waits for  *)
(* the provider and writes the row, with no lock around the three.         *)
(*                                                                         *)
(* A check holds no state of another account except the semaphore of its   *)
(* batch, so a queued check is given the time that the batch may take it.  *)
(***************************************************************************)
EXTENDS AccountRow, FiniteSets, Sequences, FiniteSetsExt

CONSTANTS
    Accounts,
    Providers,    \* the providers that the accounts may have
    Workers,      \* what may check at once: each a replica's batch, or a
                  \* check that the administrator asked for
    Batch,        \* claims of one batch (50)
    Gate,         \* checks of a batch that run at once (8)
    CheckTime,    \* longest check with its writes (15 s + 2 s)
    ClaimTime,    \* how long a claim holds (2 minutes)
    ActivityTTL,  \* ticks for which a further success is not recorded (1 minute)
    KeepOrders,   \* whether ordered is kept
    MaxInFlight   \* bound: requests in flight per account

ASSUME HealthAssumption ==
    /\ IsFiniteSet(Accounts)
    /\ Providers \subseteq {"codex", "copilot", "openai_compatible", "antigravity"}
    /\ {Batch, Gate, CheckTime} \subseteq Nat \ {0}
    /\ ClaimTime \in 1..CheckInterval
    /\ ((Batch + Gate - 1) \div Gate - 1) * CheckTime + CheckTime < ClaimTime
    /\ {ActivityTTL, MaxInFlight} \subseteq Nat

VARIABLES
    row,       \* provider_accounts
    provider,  \* of the account
    check,     \* the checks of each process
    inFlight,  \* requests sent to the account and not answered
    throttle,  \* requestActivityThrottle: ticks until a success counts again
    reset,     \* of a redemption in progress: did it read a status it may lift
    ordered,   \* the last status that the administrator asked for
    calm       \* the providers work and nobody touches the accounts any more

healthVars == <<row, provider, check, inFlight, throttle, reset, ordered, calm>>

\* What a check may find, provider by provider.  Only Codex and Copilot report
\* usage_allowed.  A failed usage read of a provider that has no other probe
\* says nothing of the account ("quota_failed").
classifyError == {"auth", "failure", "unknown"}
classifyCodexQuotaError == {"auth", "quota_failed"}
classifyCopilotQuotaError == {"auth", "quota_failed", "failure"}
antigravityQuotaFailure == {"auth", "quota_failed"}
compatibleHealth == classifyError \cup {"healthy"}
checkAntigravity == antigravityQuotaFailure \cup {"failure", "reachable"}
Measured == {"allowed", "blocked", "reachable"}

checkResults ==
    [codex             |-> classifyCodexQuotaError \cup Measured \cup {"failure"},
     copilot           |-> classifyCopilotQuotaError \cup Measured,
     openai_compatible |-> compatibleHealth,
     antigravity       |-> checkAntigravity]

ReportsUsage(p) == p \in {"codex", "copilot"}

\* persist: the statements that store a result, in their order.  What the
\* quota part of a check brought decides the last one.
persist(result) ==
    CASE result = "quota_failed" -> {<<"quota_error">>}
      [] result = "allowed" -> {<<"usage_allowed", "healthy", "details_allowed">>}
      [] result = "blocked" -> {<<"usage_blocked", "healthy", "details_blocked">>}
      [] result = "reachable" -> {<<"healthy", "details_allowed">>}
      [] OTHER -> {<<result>>, <<result, "quota_error">>}

Statements == {"quota_error", "usage_allowed", "usage_blocked", "details_allowed", "details_blocked",
               "auth", "failure", "healthy", "unknown"}

\* cooling: claimed while cooling down; recooled: cooled down since the claim.
NoCheck == [at |-> "none", age |-> 0, cooling |-> FALSE, recooled |-> FALSE, left |-> <<>>]
Checks == [at : {"none", "queued", "probing", "console", "storing"}, age : Nat,
           cooling : BOOLEAN, recooled : BOOLEAN, left : Seq(Statements)]

HealthTypeOK ==
    /\ row \in [Accounts -> Rows]
    /\ provider \in [Accounts -> Providers]
    /\ check \in [Workers -> [Accounts -> Checks]]
    /\ inFlight \in [Accounts -> 0..MaxInFlight]
    /\ throttle \in [Accounts -> 0..ActivityTTL]
    /\ reset \in [Accounts -> BOOLEAN \cup {NoTime}]
    /\ ordered \in [Accounts -> {"active", "disabled"}]
    /\ calm \in BOOLEAN

HealthInit ==
    /\ provider \in [Accounts -> Providers]
    /\ row \in [Accounts -> {ApplyNewAccount(r) : r \in {"healthy", "blocked", "failure"}}]
    /\ \A a \in Accounts : row[a].status = "exhausted" => ReportsUsage(provider[a])
    /\ check = [w \in Workers |-> [a \in Accounts |-> NoCheck]]
    /\ inFlight = [a \in Accounts |-> 0]
    /\ throttle = [a \in Accounts |-> 0]
    /\ reset = [a \in Accounts |-> NoTime]
    /\ ordered = [a \in Accounts |-> "active"]
    /\ calm = FALSE

\* A write of the row; checks in progress learn of a new cooldown only when
\* they compare its end with the time of their batch.
Write(a, r) == row' = [row EXCEPT ![a] = r]
Recool(a, r) ==
    check' = [w \in Workers |-> [check[w] EXCEPT ![a].recooled =
                 @ \/ (check[w][a].at \in {"queued", "probing"} /\ r.status = "cooling_down")]]
-----------------------------------------------------------------------------
(* The scheduled checks.                                                    *)

\* Mutant: accounts that ran out of quota are not looked at again.
Mut_DueActiveOnly(r) == (r.status = "active" /\ r.next = 0) \/ CooldownOver(r)

Due(r) == \/ r.status \in {"active", "exhausted"} /\ r.next = 0
          \/ CooldownOver(r)

ClaimedUntil == ClaimTime

\* runBatch claims what is due, in one statement, and waits for its checks.
ClaimProviderHealthChecks(w) ==
    LET due == {a \in Accounts : Due(row[a])} IN
    /\ \A a \in Accounts : check[w][a] = NoCheck
    /\ calm => \A v \in Workers \ {w} : check[v] = check[w]
    /\ \E claimed \in SUBSET due :
         /\ Cardinality(claimed) = Min({Batch, Cardinality(due)})
         /\ claimed # {}
         /\ row' = [a \in Accounts |-> IF a \in claimed THEN [row[a] EXCEPT !.next = ClaimedUntil] ELSE row[a]]
         /\ check' = [check EXCEPT ![w] = [a \in Accounts |->
                IF a \in claimed THEN [NoCheck EXCEPT !.at = "queued", !.cooling = (row[a].status = "cooling_down")] ELSE NoCheck]]
    /\ UNCHANGED <<provider, inFlight, throttle, reset, ordered, calm>>

Begin(w, a) == check' = [check EXCEPT ![w][a] = [@ EXCEPT !.at = "probing", !.age = 0, !.cooling = FALSE]]
Drop(w, a) == check' = [check EXCEPT ![w][a] = NoCheck]

\* Mutant: the check goes on whether or not it ended the cooldown itself.
Mut_CheckWithoutReactivation(w, a) ==
    /\ check[w][a].at = "queued"
    /\ Begin(w, a)
    /\ Write(a, IF check[w][a].cooling THEN ReactivateProviderIfCooldownExpired(row[a]) ELSE row[a])
    /\ UNCHANGED <<provider, inFlight, throttle, reset, ordered, calm>>

\* A claim of a cooling account is worth a check only if this process ends the
\* cooldown; the end is compared with the time of the batch, so a cooldown set
\* since then counts as over only if the provider named a time in the past.
StartCheck(w, a) ==
    /\ check[w][a].at = "queued"
    /\ IF ~check[w][a].cooling
       THEN Begin(w, a) /\ UNCHANGED row
       ELSE \/ CooldownOver(row[a]) /\ Begin(w, a) /\ Write(a, ReactivateProviderIfCooldownExpired(row[a]))
            \/ /\ ~CooldownOver(row[a]) \/ check[w][a].recooled
               /\ Drop(w, a) /\ UNCHANGED row
    /\ UNCHANGED <<provider, inFlight, throttle, reset, ordered, calm>>

\* The administrator's check of one account, whatever its status.
CheckAccount(w, a) ==
    /\ ~calm /\ check[w][a] = NoCheck
    /\ Write(a, ReactivateProviderIfCooldownExpired(row[a]))
    /\ check' = [check EXCEPT ![w][a].at = "console"]
    /\ UNCHANGED <<provider, inFlight, throttle, reset, ordered, calm>>

\* check: the provider answers or the time is up.
EndCheck(w, a) ==
    /\ check[w][a].at \in {"probing", "console"}
    /\ \E result \in checkResults[provider[a]] : \E statements \in persist(result) :
         /\ calm => result = (IF ReportsUsage(provider[a]) THEN "allowed"
                          ELSE IF provider[a] = "antigravity" THEN "reachable" ELSE "healthy")
         /\ check' = [check EXCEPT ![w][a] = [NoCheck EXCEPT !.at = "storing", !.left = statements]]
    /\ UNCHANGED <<row, provider, inFlight, throttle, reset, ordered, calm>>

Stored(r, statement) ==
    CASE statement = "quota_error"            -> SetProviderQuotaError(r)
      [] statement = "auth"                   -> UpdateProviderStatus(r, "auth_failed", NoTime)
      [] statement = "failure"                -> RecordProviderHealthFailure(r)
      [] statement = "usage_allowed"          -> SetProviderUsageAllowed(r, TRUE)
      [] statement = "usage_blocked"          -> SetProviderUsageAllowed(r, FALSE)
      [] statement \in {"healthy", "unknown"} -> SetProviderHealth(r, statement)
      [] statement = "details_allowed"        -> UpdateProviderDetailsWithQuota(r, TRUE)
      [] statement = "details_blocked"        -> UpdateProviderDetailsWithQuota(r, FALSE)

\* One statement of persist.
PersistStep(w, a) ==
    LET c == check[w][a] IN
    /\ c.at = "storing"
    /\ Write(a, Stored(row[a], Head(c.left)))
    /\ check' = [check EXCEPT ![w][a] =
           IF Len(c.left) = 1 THEN NoCheck ELSE [c EXCEPT !.left = Tail(c.left)]]
    /\ UNCHANGED <<provider, inFlight, throttle, reset, ordered, calm>>

\* A statement that fails ends persist; a reactivation that fails ends the check.
CheckLost(w, a) ==
    /\ ~calm /\ check[w][a].at \in {"storing", "queued"}
    /\ Drop(w, a)
    /\ UNCHANGED <<row, provider, inFlight, throttle, reset, ordered, calm>>

\* The process stops in the middle of its checks; its claims run out.
Restart(w) ==
    /\ ~calm /\ \E a \in Accounts : check[w][a] # NoCheck
    /\ check' = [check EXCEPT ![w] = [a \in Accounts |-> NoCheck]]
    /\ UNCHANGED <<row, provider, inFlight, throttle, reset, ordered, calm>>
-----------------------------------------------------------------------------
(* The requests in flight.                                                  *)

Send(a) ==
    /\ ~calm /\ accountHealthy(row[a]) /\ inFlight[a] < MaxInFlight
    /\ inFlight' = [inFlight EXCEPT ![a] = @ + 1]
    /\ UNCHANGED <<row, provider, check, throttle, reset, ordered, calm>>

\* A success is stored only if the activity throttle lets it through.
Answer(a) ==
    /\ inFlight[a] > 0
    /\ inFlight' = [inFlight EXCEPT ![a] = @ - 1]
    /\ \E outcome \in Outcomes : \E cooldown \in Cooldowns(outcome) :
         LET swallowed == outcome = "success" /\ throttle[a] > 0
             r == IF swallowed THEN row[a] ELSE AfterRequest(row[a], outcome, cooldown)
         IN  /\ Write(a, r) /\ Recool(a, r)
             /\ throttle' = [throttle EXCEPT ![a] = IF outcome = "success" /\ @ = 0 THEN ActivityTTL ELSE @]
    /\ UNCHANGED <<provider, reset, ordered, calm>>
-----------------------------------------------------------------------------
(* The control plane.                                                       *)

SetStatus(a, status) ==
    /\ ~calm
    /\ Write(a, UpdateProviderAccount(row[a], status))
    /\ ordered' = IF KeepOrders THEN [ordered EXCEPT ![a] = status] ELSE ordered
    /\ UNCHANGED <<provider, check, inFlight, throttle, reset, calm>>

\* refreshProviderAccount, with its three outcomes.
ManualRefresh(a) ==
    /\ ~calm
    /\ \E r \in {CredentialStored(row[a]), UpdateProviderStatus(row[a], "auth_failed", NoTime)}
              \cup {UpdateProviderStatus(row[a], "cooling_down", t) : t \in Cooldowns("limit")} :
         Write(a, r) /\ Recool(a, r)
    /\ UNCHANGED <<provider, inFlight, throttle, reset, ordered, calm>>

\* consumeResetCredit reads the account, redeems and then stores the quota it
\* was told; when that is not possible it relies on the status it has read.
ResetStart(a) ==
    /\ ~calm /\ reset[a] = NoTime /\ provider[a] = "codex"
    /\ reset' = [reset EXCEPT ![a] = row[a].status \in {"cooling_down", "exhausted"}]
    /\ UNCHANGED <<row, provider, check, inFlight, throttle, ordered, calm>>

persistResetQuota(a) ==
    /\ reset[a] # NoTime
    /\ \E r \in { SetProviderUsageAllowed(UpdateProviderDetailsWithQuota(row[a], TRUE), TRUE),
                  IF reset[a] THEN UpdateProviderStatus(row[a], "active", NoTime) ELSE row[a] } : Write(a, r)
    /\ reset' = [reset EXCEPT ![a] = NoTime]
    /\ UNCHANGED <<provider, check, inFlight, throttle, ordered, calm>>
-----------------------------------------------------------------------------
\* A queued check waits for the rounds of the semaphore before its own, a
\* running one is cut off by its timeout, and the writes take no time.
Patience(c) ==
    CASE c.at = "queued"  -> ((Batch + Gate - 1) \div Gate - 1) * CheckTime
      [] c.at = "storing" -> 0
      [] OTHER            -> CheckTime

HealthTick ==
    /\ \A w \in Workers, a \in Accounts : check[w][a].at # "none" => check[w][a].age < Patience(check[w][a])
    /\ row' = [a \in Accounts |-> Aged(row[a])]
    /\ throttle' = [a \in Accounts |-> IF throttle[a] = 0 THEN 0 ELSE throttle[a] - 1]
    /\ check' = [w \in Workers |-> [a \in Accounts |->
           IF check[w][a].at = "none" THEN NoCheck ELSE [check[w][a] EXCEPT !.age = @ + 1]]]
    /\ UNCHANGED <<provider, inFlight, reset, ordered, calm>>

\* From here on the providers work, the statements succeed and nobody touches
\* the accounts; of the replicas, one is sure to be left.
Settle ==
    /\ ~calm /\ calm' = TRUE
    /\ \E w \in Workers : check' = [v \in Workers |-> IF v = w THEN check[v] ELSE [a \in Accounts |-> NoCheck]]
    /\ UNCHANGED <<row, provider, inFlight, throttle, reset, ordered>>

CheckStep(w, a) == StartCheck(w, a) \/ EndCheck(w, a) \/ PersistStep(w, a)

HealthNext ==
    \/ \E w \in Workers : ClaimProviderHealthChecks(w) \/ Restart(w)
    \/ \E w \in Workers, a \in Accounts : CheckAccount(w, a) \/ CheckStep(w, a) \/ CheckLost(w, a)
    \/ \E a \in Accounts : Send(a) \/ Answer(a) \/ ManualRefresh(a)
    \/ \E a \in Accounts, status \in {"active", "disabled"} : SetStatus(a, status)
    \/ \E a \in Accounts : ResetStart(a) \/ persistResetQuota(a)
    \/ HealthTick \/ Settle

HealthFairness ==
    /\ WF_healthVars(HealthTick)
    /\ \A w \in Workers : WF_healthVars(ClaimProviderHealthChecks(w))
    /\ \A w \in Workers, a \in Accounts : WF_healthVars(CheckStep(w, a))
    /\ \A a \in Accounts : WF_healthVars(Answer(a)) /\ WF_healthVars(persistResetQuota(a))

HealthSpec == HealthInit /\ [][HealthNext]_healthVars /\ HealthFairness
-----------------------------------------------------------------------------
(* Properties.                                                              *)

\* A cooling account always has the end of its cooldown, without which no
\* check would ever claim it again, and it is unhealthy exactly while its
\* consecutive failures have reached the limit, whichever of the writers of
\* the two columns wrote last.
RowConsistent ==
    \A a \in Accounts :
        /\ row[a].status = "cooling_down" => row[a].cooldown # NoTime
        /\ row[a].health = "unhealthy" <=> row[a].failures = UnhealthyAfter

\* The claim of a scheduled check is still in force when the check ends, even
\* for the last account of a full batch: no other replica has taken it over.
ClaimOutlivesCheck ==
    \A w \in Workers, a \in Accounts :
        check[w][a].at \in {"queued", "probing"} => row[a].next > 0

\* Two replicas may claim an account whose cooldown is over, but only one of
\* them checks it, unless a request has cooled it down again meanwhile.
OneCheckPerCooldown ==
    \A a \in Accounts, v, w \in Workers :
        (/\ v # w
         /\ check[v][a].at = "probing" /\ check[w][a].at = "probing")
        => check[v][a].recooled \/ check[w][a].recooled

\* Only the administrator brings these back: disabled, a rejected credential,
\* and a quota end of an account whose check says nothing of its usage.
NeedsAdministrator(a) ==
    \/ row[a].status \in {"disabled", "auth_failed"}
    \/ row[a].status = "exhausted" /\ ~ReportsUsage(provider[a])

\* Once the providers work again, every account that does not wait for the
\* administrator is open to routing again, whatever failures, lost writes and
\* restarts came before.
Recovers ==
    \A a \in Accounts : calm ~> (accountHealthy(row[a]) \/ NeedsAdministrator(a))

\* The account's row under its many writers: its columns agree, the claim of a
\* check outlives it, and one replica checks an account after a cooldown.
AccountSafe == HealthTypeOK /\ RowConsistent /\ ClaimOutlivesCheck /\ OneCheckPerCooldown

\* What an administrator has disabled stays disabled until an administrator
\* enables it ("disabled: disabled by an administrator").
DisabledStaysDisabled ==
    \A a \in Accounts : ordered[a] = "disabled" => row[a].status = "disabled"
=============================================================================
