------------------------------ MODULE MCServing ------------------------------
(***************************************************************************)
(* The parts around a request and the writes that must not be repeated or  *)
(* lost: bodies and rates that are admitted, the account's row, its        *)
(* credential, notices, callbacks, planned resets, a converted stream, the *)
(* choice by quota, the polls of a balance.  The initial state chooses the *)
(* part that moves, as in MCLocks.                                         *)
(***************************************************************************)
EXTENDS AccountHealth, RequestBody, RateLimit, CredentialRefresh,
        GoogleLogin, ResetNotice, ResetSchedule, ChatStream, QuotaRouting,
        BillingPoll, TLC

VARIABLE part

Limits == [max |-> 3, inflight |-> 12]
Symmetry == Permutations(Reqs) \cup Permutations(Workers)

OneEach == CHOOSE p \in [Refreshers -> Processes] : p[CHOOSE w \in Refreshers : TRUE] = CHOOSE i \in Processes : TRUE

\* Accounts on both sides of the margin, of two priorities and plans, with and
\* without room, and with snapshots that do not count.
Used(u) == [used |-> u, reset |-> FALSE]
Shape == [priority |-> 0, fiveHour |-> Used(10), weekly |-> Absent, plan |-> "plus", capacity |-> TRUE,
          keys |-> 1, weight |-> 1, age |-> 5, error |-> FALSE, allowed |-> TRUE]
Shapes ==
    {[Shape EXCEPT !.priority = pr, !.fiveHour = Used(u), !.plan = plan] : pr \in {0, 1}, u \in {10, 14, 20}, plan \in {"plus", "pro"}}
    \cup {[Shape EXCEPT !.weekly = Used(20)], [Shape EXCEPT !.weekly = Used(14), !.capacity = FALSE],
          [Shape EXCEPT !.weekly = Used(100)], [Shape EXCEPT !.fiveHour = Absent], [Shape EXCEPT !.age = MaxAge + 1],
          [Shape EXCEPT !.fiveHour.reset = TRUE], [Shape EXCEPT !.keys = 2, !.weight = 3]}
SomePool == CHOOSE p \in [1..1 -> Candidates] : TRUE

\* A part that does not move has one initial state.
ServingInit ==
    /\ part \in {"accounts", "body", "rate", "refresh", "google", "notice", "schedule", "chat", "quota",
                "billing"}
    /\ HealthInit
    /\ part # "accounts" =>
         \A a \in Accounts : provider[a] = "codex" /\ row[a] = ApplyNewAccount("healthy")
    /\ BodyInit /\ RateInit
    /\ RefreshInit /\ (part # "refresh" => ~rotates /\ process = OneEach)
    /\ GoogleInit /\ NoticeInit
    /\ IF part = "schedule" THEN Init ELSE expiry = [day |-> 1, second |-> 12 * Hour] /\ delay = 0
    /\ ChatInit
    /\ IF part = "quota" THEN QuotaInit ELSE pool = SomePool /\ choice = 1 /\ rounds = 0
    /\ BillingInit /\ (part # "billing" => billing = CHOOSE k \in BillingKeys : TRUE)

bodyEtc == <<bodyVars, rateVars>>
otherParts == <<refreshVars, googleVars, noticeVars, vars, chatVars, quotaVars, billingVars>>

ServingNext ==
    \/ part = "accounts" /\ HealthNext /\ UNCHANGED <<part, bodyEtc, otherParts>>
    \/ part = "body" /\ BodyNext /\ UNCHANGED <<part, healthVars, rateVars, otherParts>>
    \/ part = "rate" /\ RateNext /\ UNCHANGED <<part, healthVars, bodyVars, otherParts>>
    \/ part = "refresh" /\ RefreshNext /\ UNCHANGED <<part, healthVars, bodyEtc, googleVars, noticeVars, vars, chatVars, quotaVars, billingVars>>
    \/ part = "google" /\ GoogleNext /\ UNCHANGED <<part, healthVars, bodyEtc, refreshVars, noticeVars, vars, chatVars, quotaVars, billingVars>>
    \/ part = "notice" /\ NoticeNext /\ UNCHANGED <<part, healthVars, bodyEtc, refreshVars, googleVars, vars, chatVars, quotaVars, billingVars>>
    \/ part = "schedule" /\ Next /\ UNCHANGED <<part, healthVars, bodyEtc, refreshVars, googleVars, noticeVars, chatVars, quotaVars, billingVars>>
    \/ part = "chat" /\ ChatNext /\ UNCHANGED <<part, healthVars, bodyEtc, refreshVars, googleVars, noticeVars, vars, quotaVars, billingVars>>
    \/ part = "quota" /\ QuotaNext /\ UNCHANGED <<part, healthVars, bodyEtc, refreshVars, googleVars, noticeVars, vars, chatVars, billingVars>>
    \/ part = "billing" /\ BillingNext /\ UNCHANGED <<part, healthVars, bodyEtc, refreshVars, googleVars, noticeVars, vars, chatVars, quotaVars>>

ServingSpec == ServingInit /\ [][ServingNext]_<<part, healthVars, bodyEtc, otherParts>>
=============================================================================
