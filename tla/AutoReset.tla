------------------------------ MODULE AutoReset ------------------------------
(***************************************************************************)
(* The automatic Codex reset service.  Every worker (one RunAutoResets     *)
(* loop of one SubPool process) repeats a bounded cycle: it discovers the  *)
(* reset credits of every account, plans one durable job per account,      *)
(* claims one durable batch of due jobs, redeems the credits of the batch  *)
(* upstream and mails one report.  Workers crash and restart, requests and *)
(* replies get lost, leases and cycles run out, an administrator disables  *)
(* accounts and uses credits by hand.                                      *)
(*                                                                         *)
(* Time is relative: Tick is one unit, and the two durations that race,    *)
(* the cycle's context timeout and the batch lease, are counted down.      *)
(***************************************************************************)
EXTENDS Naturals, FiniteSets

CONSTANTS
    Workers,        \* RunAutoResets loops, one per SubPool process
    Accounts,       \* Codex subscription accounts
    Credits,        \* reset credits
    AccountOf,      \* the account that owns a credit
    ExpiryRank,     \* the order in which the credits expire
    Batches,        \* identifiers of reset batches; their number is a bound
    CycleTimeout,   \* the context timeout of one cycle (8 minutes)
    BatchLease,     \* the lease of a claimed batch (10 minutes)
    RetryLease,     \* the lease left behind by a finished cycle (1 minute)
    MaxClaims,      \* how often one batch may be claimed (attempts < 5)
    BatchSize,      \* how many jobs one batch takes (LIMIT 20)
    GateSize,       \* accounts a worker processes at the same time (2)
    MaxEvents,      \* bound on the number of events from outside the service
    None            \* the SQL NULL

ASSUME ConstantsAssumption ==
    /\ AccountOf \in [Credits -> Accounts]
    /\ ExpiryRank \in [Credits -> Nat]
    /\ CycleTimeout \in Nat \ {0}
    /\ BatchLease \in Nat
    /\ RetryLease \in 0..BatchLease
    /\ MaxClaims \in Nat \ {0}
    /\ MaxEvents \in Nat

\* The cycle that claims a batch is over before the batch's lease is.
ASSUME LeaseOutlivesCycle == CycleTimeout < BatchLease

VARIABLES
    credit,      \* upstream: the state of each credit
    call,        \* upstream: the redemption request of each credit
    requests,    \* how many redemption requests the service sent per credit
    disabled,    \* accounts an administrator has disabled
    window,      \* is it between 09:00 and 21:00 in Shanghai
    cache,       \* provider_accounts.reset_credits_snapshot and its age
    console,     \* a console refresh that has read upstream and not yet stored
    job,         \* table codex_reset_jobs
    batch,       \* table codex_reset_batches
    cycle,       \* the state of every worker's current cycle
    step,        \* the step runResetJob is at, for every worker and credit
    mem,         \* the worker's in-memory copy of its batch's jobs
    mails,       \* the report bodies handed to the mail service
    events       \* crashes and other events from outside so far

upstreamVars == <<credit, call, requests>>
outsideVars == <<disabled, window, cache, console>>
tableVars == <<job, batch>>
workerVars == <<cycle, step, mem>>
vars == <<upstreamVars, outsideVars, tableVars, workerVars, mails, events>>

-----------------------------------------------------------------------------
(* Types. "missed" and "disabled" are the two refusals runResetJob words   *)
(* differently from "failed"; "retired" is ReconcilePendingResets' skip.   *)

NotSent == {"failed", "missed", "disabled", "skipped"}
Outcomes == NotSent \cup {"unconfirmed", "succeeded", "not_applied"}
RowOutcomes == Outcomes \cup {"retired", None}

\* A report: the outcome of each job, and when it was rendered.
Bodies == [results : SUBSET (Credits \X Outcomes), at : 1..MaxClaims]

ASSUME NoneIsNoValue ==
    None \notin Batches /\ None \notin Outcomes \cup {"retired"} /\ None \notin Bodies

CreditStates == {"ungranted", "available", "redeemed", "gone"}
CallStates == {"none", "sent", "reset", "refused"}
Cycles == {"idle", "discover", "store", "reconcile", "plan", "claim", "jobs",
           "mail", "record", "retry"}
Steps == {"none", "todo", "attempt", "send", "await", "check", "finish",
          "done", "error"}

JobRows == [planned : BOOLEAN, due : BOOLEAN, batch : Batches \cup {None},
            attempted : BOOLEAN, outcome : RowOutcomes]

BatchRows == [made : BOOLEAN, lease : 0..BatchLease, attempts : 0..MaxClaims,
              payload : {None} \cup Bodies, mailed : BOOLEAN]

CycleStates == [at : Cycles, left : 0..CycleTimeout, todo : SUBSET Accounts,
                account : Accounts \cup {None}, avail : SUBSET Credits,
                fresh : BOOLEAN, allowNew : BOOLEAN, batch : Batches \cup {None}]

Copies == [attempted : BOOLEAN, outcome : RowOutcomes]

EmptyRow == [planned |-> FALSE, due |-> FALSE, batch |-> None,
             attempted |-> FALSE, outcome |-> None]

FreshBatch == [made |-> FALSE, lease |-> 0, attempts |-> 0, payload |-> None,
               mailed |-> FALSE]

IdleCycle == [at |-> "idle", left |-> 0, todo |-> {}, account |-> None,
              avail |-> {}, fresh |-> FALSE, allowNew |-> FALSE, batch |-> None]

NoMem == [attempted |-> FALSE, outcome |-> None]

Init ==
    /\ credit \in [Credits -> {"ungranted", "available"}]
    /\ call = [c \in Credits |-> "none"]
    /\ requests = [c \in Credits |-> 0]
    /\ disabled = {}
    /\ window \in BOOLEAN
    /\ cache = [a \in Accounts |-> [known |-> FALSE, fresh |-> FALSE, avail |-> {}]]
    /\ console = [a \in Accounts |-> None]
    /\ job = [c \in Credits |-> EmptyRow]
    /\ batch = [b \in Batches |-> FreshBatch]
    /\ cycle = [w \in Workers |-> IdleCycle]
    /\ step = [w \in Workers |-> [c \in Credits |-> "none"]]
    /\ mem = [w \in Workers |-> [c \in Credits |-> NoMem]]
    /\ mails = {}
    /\ events = 0

-----------------------------------------------------------------------------
(* Upstream, the clock, the administrator and the console.                 *)

\* Crashes, and what upstream, the clock, the administrator and the console do
\* on their own account, are bounded together.
FromOutside == events < MaxEvents /\ events' = events + 1

Listed(a) == {c \in Credits : AccountOf[c] = a /\ credit[c] = "available"}

\* Upstream grants a credit, or withdraws or expires one, or the owner uses
\* it from Codex itself.
CreditChanges(c) ==
    /\ FromOutside
    /\ \/ credit[c] = "ungranted" /\ credit' = [credit EXCEPT ![c] = "available"]
       \/ credit[c] = "available" /\ \E s \in {"redeemed", "gone"} :
              credit' = [credit EXCEPT ![c] = s]
    /\ UNCHANGED <<call, requests, outsideVars, tableVars, workerVars, mails>>

\* Upstream serves a redemption request: it redeems an available credit,
\* confirms one that was redeemed before, and applies nothing otherwise.
\* The request may arrive long after its sender has given up on it.
ServeConsume(c) ==
    /\ call[c] = "sent"
    /\ IF credit[c] \in {"available", "redeemed"}
       THEN /\ credit' = [credit EXCEPT ![c] = "redeemed"]
            /\ call' = [call EXCEPT ![c] = "reset"]
       ELSE /\ call' = [call EXCEPT ![c] = "refused"]
            /\ UNCHANGED credit
    /\ UNCHANGED <<requests, outsideVars, tableVars, workerVars, mails, events>>

\* The administrator disables or enables an account.
ToggleAccount(a) ==
    /\ FromOutside
    /\ disabled' = IF a \in disabled THEN disabled \ {a} ELSE disabled \cup {a}
    /\ UNCHANGED <<upstreamVars, window, cache, console, tableVars, workerVars, mails>>

\* resetWindowOpen changes its answer at 09:00 and at 21:01.
WindowOpens ==
    /\ ~window
    /\ window' = TRUE
    /\ UNCHANGED <<upstreamVars, disabled, cache, console, tableVars, workerVars, mails, events>>

WindowCloses ==
    /\ FromOutside
    /\ window
    /\ window' = FALSE
    /\ UNCHANGED <<upstreamVars, disabled, cache, console, tableVars, workerVars, mails>>

\* A planned job's run_at passes.
JobFallsDue(c) ==
    /\ job[c].planned /\ ~job[c].due
    /\ job' = [job EXCEPT ![c].due = TRUE]
    /\ UNCHANGED <<upstreamVars, outsideVars, batch, workerVars, mails, events>>

\* One unit of time. A context that has run out fails the call in progress
\* at once, so no cycle is still at work beyond its timeout.
Active(w) == cycle[w].at # "idle"

Tick ==
    /\ \A w \in Workers : Active(w) => cycle[w].left > 0
    /\ cycle' = [w \in Workers |->
           IF Active(w) THEN [cycle[w] EXCEPT !.left = cycle[w].left - 1] ELSE cycle[w]]
    /\ batch' = [b \in Batches |->
           IF batch[b].lease > 0 THEN [batch[b] EXCEPT !.lease = batch[b].lease - 1] ELSE batch[b]]
    /\ UNCHANGED <<upstreamVars, outsideVars, job, step, mem, mails, events>>

\* The cached credit list grows older than resetCreditsFreshFor.
CacheAges(a) ==
    /\ FromOutside
    /\ cache[a].fresh
    /\ cache' = [cache EXCEPT ![a].fresh = FALSE]
    /\ UNCHANGED <<upstreamVars, disabled, window, console, tableVars, workerVars, mails>>

\* getResetCredits with refresh=true (or on an empty or stale cache): the
\* request reads upstream first and stores what it read later.
ConsoleReads(a) ==
    /\ FromOutside
    /\ console[a] = None
    /\ console' = [console EXCEPT ![a] = Listed(a)]
    /\ UNCHANGED <<upstreamVars, disabled, window, cache, tableVars, workerVars, mails>>

SetProviderResetCredits(a, avail) ==
    cache' = [cache EXCEPT ![a] = [known |-> TRUE, fresh |-> TRUE, avail |-> avail]]

\* A status written without a look at the one it replaces (UpdateProviderStatus
\* in persistResetQuota and in the health checks that follow a redemption):
\* an account that was disabled in the meantime may be enabled by it.
StatusWritten(a) == disabled' \in {disabled, disabled \ {a}}

ConsoleStores(a) ==
    /\ console[a] # None
    /\ SetProviderResetCredits(a, console[a])
    /\ console' = [console EXCEPT ![a] = None]
    /\ UNCHANGED <<upstreamVars, disabled, window, tableVars, workerVars, mails, events>>

\* consumeResetCredit: the administrator uses a credit from the console; the
\* new list is stored when upstream's answer carries one.
ConsoleConsumes(c) ==
    /\ FromOutside
    /\ credit[c] = "available"
    /\ credit' = [credit EXCEPT ![c] = "redeemed"]
    /\ StatusWritten(AccountOf[c])
    /\ \/ UNCHANGED cache
       \/ SetProviderResetCredits(AccountOf[c], Listed(AccountOf[c]) \ {c})
    /\ UNCHANGED <<call, requests, window, console, tableVars, workerVars, mails>>

-----------------------------------------------------------------------------
(* Discovery.                                                              *)

\* Is the cycle's context still alive?
Alive(w) == cycle[w].left > 0

At(w, at) == cycle[w].at = at

\* A tick of RunAutoResets starts a cycle.
StartCycle(w) ==
    /\ At(w, "idle")
    /\ cycle' = [cycle EXCEPT ![w] = [IdleCycle EXCEPT
           !.at = "discover", !.left = CycleTimeout, !.todo = Accounts \ disabled]]
    /\ UNCHANGED <<upstreamVars, outsideVars, tableVars, step, mem, mails, events>>

\* discoverResets takes the next account: a fresh snapshot is used as it is,
\* an older one is refreshed, and if reading or storing the new list fails
\* the old one is used but not trusted.
discoverResets(w) ==
    /\ At(w, "discover") /\ Alive(w)
    /\ \E a \in cycle[w].todo :
         \/ /\ cache[a].fresh
            /\ cycle' = [cycle EXCEPT ![w] = [cycle[w] EXCEPT !.at = "reconcile",
                  !.account = a, !.avail = cache[a].avail, !.fresh = TRUE]]
         \/ /\ ~cache[a].fresh
            /\ cycle' = [cycle EXCEPT ![w] = [cycle[w] EXCEPT !.at = "store",
                  !.account = a, !.avail = Listed(a), !.fresh = TRUE]]
         \/ /\ ~cache[a].fresh
            /\ cycle' = [cycle EXCEPT ![w] = [cycle[w] EXCEPT !.at = "reconcile",
                  !.account = a, !.avail = cache[a].avail, !.fresh = FALSE]]
    /\ UNCHANGED <<upstreamVars, outsideVars, tableVars, step, mem, mails, events>>

\* refreshResetCredits stores the list it has read.
refreshResetCredits(w) ==
    /\ At(w, "store") /\ Alive(w)
    /\ SetProviderResetCredits(cycle[w].account, cycle[w].avail)
    /\ cycle' = [cycle EXCEPT ![w].at = "reconcile"]
    /\ UNCHANGED <<upstreamVars, disabled, window, console, tableVars, step, mem, mails, events>>

\* The rows ReconcilePendingResets retires for a list of available credits.
Obsolete(a, avail) ==
    {c \in Credits : /\ AccountOf[c] = a
                     /\ job[c].planned /\ job[c].batch = None
                     /\ ~job[c].attempted /\ job[c].outcome = None
                     /\ c \notin avail}

ReconcilePendingResets(w) ==
    /\ At(w, "reconcile") /\ Alive(w)
    /\ job' = IF cycle[w].fresh
              THEN [c \in Credits |-> IF c \in Obsolete(cycle[w].account, cycle[w].avail)
                                      THEN [job[c] EXCEPT !.outcome = "retired"]
                                      ELSE job[c]]
              ELSE job
    /\ cycle' = [cycle EXCEPT ![w].at = "plan"]
    /\ UNCHANGED <<upstreamVars, outsideVars, batch, step, mem, mails, events>>

\* Mutant: the upsert lacks its WHERE clause and plans a settled job again.
Mut_PlanAnyRow(w) ==
    /\ At(w, "plan") /\ Alive(w)
    /\ \E c \in cycle[w].avail : job' = [job EXCEPT ![c] = [EmptyRow EXCEPT !.planned = TRUE]]
    /\ cycle' = [cycle EXCEPT ![w] = [cycle[w] EXCEPT !.at = "discover",
           !.todo = cycle[w].todo \ {cycle[w].account}, !.account = None, !.avail = {},
           !.fresh = FALSE]]
    /\ UNCHANGED <<upstreamVars, outsideVars, batch, step, mem, mails, events>>

\* The credit that expires first is planned, unless its row is already
\* claimed or settled: a row that exists keeps its batch, intent and outcome
\* (the upsert rewrites the label and the two times a credit determines).
PlanReset(w) ==
    /\ At(w, "plan") /\ Alive(w)
    /\ \/ /\ cycle[w].avail = {}
          /\ UNCHANGED job
       \/ \E c \in cycle[w].avail :
            /\ \A d \in cycle[w].avail : ExpiryRank[c] <= ExpiryRank[d]
            /\ job' = IF ~job[c].planned
                      THEN [job EXCEPT ![c] = [EmptyRow EXCEPT !.planned = TRUE]]
                      ELSE job
    /\ cycle' = [cycle EXCEPT ![w] = [cycle[w] EXCEPT !.at = "discover",
           !.todo = cycle[w].todo \ {cycle[w].account}, !.account = None, !.avail = {},
           !.fresh = FALSE]]
    /\ UNCHANGED <<upstreamVars, outsideVars, batch, step, mem, mails, events>>

\* Mutant: the answer of resetWindowOpen does not reach the batch.
Mut_WindowForgotten(w) ==
    /\ At(w, "discover") /\ (cycle[w].todo = {} \/ ~Alive(w))
    /\ cycle' = [cycle EXCEPT ![w] = [cycle[w] EXCEPT !.at = "claim", !.todo = {}]]
    /\ UNCHANGED <<upstreamVars, outsideVars, tableVars, step, mem, mails, events>>

\* Discovery is over, or an error of the store or the end of the context has
\* cut it short; either way the cycle goes on to process a batch.  It asks
\* once whether the window is open and processes the batch with that answer.
DiscoveryEnds(w) ==
    /\ \/ At(w, "discover") /\ (cycle[w].todo = {} \/ ~Alive(w))
       \/ At(w, "store") /\ ~Alive(w)
       \/ At(w, "reconcile")
       \/ At(w, "plan")
    /\ cycle' = [cycle EXCEPT ![w] = [cycle[w] EXCEPT !.at = "claim", !.todo = {},
           !.account = None, !.avail = {}, !.fresh = FALSE, !.allowNew = window]]
    /\ UNCHANGED <<upstreamVars, outsideVars, tableVars, step, mem, mails, events>>

-----------------------------------------------------------------------------
(* Claiming a batch.                                                       *)

Reclaimable(b) ==
    batch[b].made /\ ~batch[b].mailed /\ batch[b].lease = 0 /\ batch[b].attempts < MaxClaims

DueJobs == {c \in Credits : /\ job[c].planned /\ job[c].due
                            /\ job[c].batch = None /\ job[c].outcome = None}

JobsOf(b) == {c \in Credits : job[c].batch = b}

\* The worker takes the rows of its batch into memory; without a frozen
\* report the jobs without an outcome are run, otherwise only mail is left.
TakeBatch(w, b) ==
    /\ cycle' = [cycle EXCEPT ![w] = [cycle[w] EXCEPT !.batch = b,
           !.at = IF batch'[b].payload = None THEN "jobs" ELSE "mail"]]
    /\ mem' = [mem EXCEPT ![w] = [c \in Credits |->
           IF job'[c].batch = b
           THEN [attempted |-> job'[c].attempted, outcome |-> job'[c].outcome]
           ELSE NoMem]]
    /\ step' = [step EXCEPT ![w] = [c \in Credits |->
           IF job'[c].batch = b /\ job'[c].outcome = None /\ batch'[b].payload = None
           THEN "todo" ELSE "none"]]

\* An unsent batch whose lease has run out is leased again before any new
\* one is made.
ReclaimBatch(w, b) ==
    /\ At(w, "claim") /\ Alive(w)
    /\ Reclaimable(b)
    /\ batch' = [batch EXCEPT ![b] = [batch[b] EXCEPT !.lease = BatchLease,
           !.attempts = batch[b].attempts + 1]]
    /\ UNCHANGED job
    /\ TakeBatch(w, b)
    /\ UNCHANGED <<upstreamVars, outsideVars, mails, events>>

\* Inside the window the due jobs become a new batch.
ClaimNewBatch(w, b) ==
    /\ At(w, "claim") /\ Alive(w)
    /\ ~\E o \in Batches : Reclaimable(o)
    /\ cycle[w].allowNew
    /\ ~batch[b].made
    /\ \E jobs \in SUBSET DueJobs :
         /\ Cardinality(jobs) = IF Cardinality(DueJobs) < BatchSize
                                THEN Cardinality(DueJobs) ELSE BatchSize
         /\ jobs # {}
         /\ job' = [c \in Credits |-> IF c \in jobs THEN [job[c] EXCEPT !.batch = b] ELSE job[c]]
    /\ batch' = [batch EXCEPT ![b] = [FreshBatch EXCEPT
           !.made = TRUE, !.lease = BatchLease, !.attempts = 1]]
    /\ TakeBatch(w, b)
    /\ UNCHANGED <<upstreamVars, outsideVars, mails, events>>

\* There is nothing to claim, or the claim failed.
ClaimNothing(w) ==
    /\ At(w, "claim")
    /\ cycle' = [cycle EXCEPT ![w] = IdleCycle]
    /\ UNCHANGED <<upstreamVars, outsideVars, tableVars, step, mem, mails, events>>

-----------------------------------------------------------------------------
(* Running the jobs of a batch: runResetJob, one goroutine per account.    *)

Running == {"attempt", "send", "await", "check", "finish"}

\* The accounts of w that have passed the gate and are not done yet: a job of
\* theirs is running, or one is done and the next has not begun.
Gated(w) ==
    {a \in Accounts :
        LET mine == {step[w][c] : c \in {d \in Credits : AccountOf[d] = a}}
        IN mine \cap Running # {} \/ ({"todo", "done"} \subseteq mine /\ "error" \notin mine)}

\* The next job of an account: those that expire earlier are done, no job of
\* the account has failed, and the gate has room.
MayStart(w, c) ==
    /\ At(w, "jobs") /\ step[w][c] = "todo"
    /\ \A d \in Credits \ {c} : AccountOf[d] = AccountOf[c] =>
          /\ step[w][d] \notin Running \cup {"error"}
          /\ step[w][d] = "todo" => ExpiryRank[c] <= ExpiryRank[d]
    /\ AccountOf[c] \in Gated(w) \/ Cardinality(Gated(w)) < GateSize

GoTo(w, c, s) == step' = [step EXCEPT ![w][c] = s]

\* The job ends with this outcome, which FinishResetJob will store.
Settle(w, c, o) ==
    /\ mem' = [mem EXCEPT ![w][c].outcome = o]
    /\ GoTo(w, c, "finish")

\* What the job reports when nothing more is learnt about it.
Unverified(w, c) == IF mem[w][c].attempted THEN "unconfirmed" ELSE "failed"

jobFrame == <<upstreamVars, outsideVars, tableVars, cycle, mails, events>>

\* The checks before a redemption. Credentials or the credit list cannot be
\* read; the account is disabled; an earlier attempt is reconciled with what
\* upstream says; the credit is no longer available; its windows are full.
JobSettledUnsent(w, c) ==
    /\ MayStart(w, c)
    /\ LET recovering == mem[w][c].attempted
           usable == recovering \/ cycle[w].allowNew
       IN \/ ~usable /\ Settle(w, c, "missed")
          \/ usable /\ Settle(w, c, Unverified(w, c))
          \/ /\ usable /\ Alive(w) /\ AccountOf[c] \in disabled
             /\ Settle(w, c, "disabled")
          \/ /\ recovering /\ Alive(w) /\ AccountOf[c] \notin disabled
             /\ Settle(w, c, IF credit[c] = "redeemed" THEN "succeeded" ELSE "unconfirmed")
          \/ /\ ~recovering /\ usable /\ Alive(w) /\ AccountOf[c] \notin disabled
             /\ credit[c] = "available"
             /\ Settle(w, c, "skipped")
    /\ UNCHANGED jobFrame

\* Mutant: the intent of an earlier attempt is not looked at.
Mut_VerifiedAgain(w, c) ==
    /\ MayStart(w, c) /\ Alive(w) /\ cycle[w].allowNew
    /\ AccountOf[c] \notin disabled /\ credit[c] = "available"
    /\ GoTo(w, c, "attempt")
    /\ UNCHANGED <<jobFrame, mem>>

\* Every check passes.
JobVerified(w, c) ==
    /\ MayStart(w, c) /\ Alive(w)
    /\ ~mem[w][c].attempted /\ cycle[w].allowNew
    /\ AccountOf[c] \notin disabled
    /\ credit[c] = "available"
    /\ GoTo(w, c, "attempt")
    /\ UNCHANGED <<jobFrame, mem>>

\* The redemption intent is stored before the request; no row is checked for
\* being changed, so a job already attempted would go on as well.
StartResetAttempt(w, c) ==
    /\ step[w][c] = "attempt" /\ Alive(w)
    /\ job' = [job EXCEPT ![c].attempted = TRUE]
    /\ GoTo(w, c, "send")
    /\ UNCHANGED <<upstreamVars, outsideVars, batch, cycle, mem, mails, events>>

\* ConsumeResetCredit: the request leaves, or fails before it does.
SendConsume(w, c) ==
    /\ step[w][c] = "send"
    /\ mem' = [mem EXCEPT ![w][c].outcome = "unconfirmed"]
    /\ \/ /\ Alive(w)
          /\ requests' = [requests EXCEPT ![c] = @ + 1]
          /\ call' = [call EXCEPT ![c] = "sent"]
          /\ GoTo(w, c, "await")
       \/ GoTo(w, c, "check") /\ UNCHANGED <<requests, call>>
    /\ UNCHANGED <<credit, outsideVars, tableVars, cycle, mails, events>>

\* What a reply leaves behind besides the outcome: the credit list, if the
\* answer carries one and storing it succeeds.
ReplyStored(c) ==
    /\ UNCHANGED cache \/ SetProviderResetCredits(AccountOf[c], Listed(AccountOf[c]))
    /\ UNCHANGED <<upstreamVars, window, console, tableVars, cycle, mails, events>>

\* The reply arrives and decides the outcome; the account's quota and health
\* are brought up to date.
ConsumeReplied(w, c) ==
    /\ step[w][c] = "await" /\ Alive(w)
    /\ \/ call[c] = "reset" /\ Settle(w, c, "succeeded")
       \/ call[c] = "refused" /\ Settle(w, c, "not_applied")
    /\ StatusWritten(AccountOf[c])
    /\ ReplyStored(c)

\* The request times out, or its reply is lost ...
ConsumeUnanswered(w, c) ==
    /\ step[w][c] = "await"
    /\ GoTo(w, c, "check")
    /\ UNCHANGED <<jobFrame, mem>>

\* ... or it says nothing known.
ConsumeUnclear(w, c) ==
    /\ step[w][c] = "await" /\ Alive(w)
    /\ call[c] \in {"reset", "refused"}
    /\ GoTo(w, c, "check")
    /\ ReplyStored(c)
    /\ UNCHANGED <<disabled, mem>>

\* Mutant: a credit that is no longer listed counts as redeemed.
Mut_MissingIsRedeemed(w, c) ==
    /\ step[w][c] = "check"
    /\ \/ Alive(w) /\ credit[c] # "available" /\ Settle(w, c, "succeeded")
       \/ Settle(w, c, "unconfirmed")
    /\ UNCHANGED jobFrame

\* The health check and the follow-up read of an unconfirmed job: only
\* "redeemed" is evidence.
JobChecked(w, c) ==
    /\ step[w][c] = "check"
    /\ \/ Alive(w) /\ credit[c] = "redeemed" /\ Settle(w, c, "succeeded")
       \/ Settle(w, c, "unconfirmed")
    /\ StatusWritten(AccountOf[c])
    /\ UNCHANGED <<upstreamVars, window, cache, console, tableVars, cycle, mails, events>>

\* FinishResetJob stores the outcome of a row that has none.
FinishResetJob(w, c) ==
    /\ step[w][c] = "finish" /\ Alive(w)
    /\ job' = [job EXCEPT ![c].outcome = IF job[c].outcome = None
                                               THEN mem[w][c].outcome ELSE job[c].outcome]
    /\ GoTo(w, c, "done")
    /\ UNCHANGED <<upstreamVars, outsideVars, batch, cycle, mem, mails, events>>

\* The store fails, or the context is over: this account's goroutine stops.
JobStoreFails(w, c) ==
    /\ step[w][c] \in {"attempt", "finish"}
    /\ GoTo(w, c, "error")
    /\ UNCHANGED <<jobFrame, mem>>

\* A goroutine still at the gate gives up when the context ends.
GateTimesOut(w, c) ==
    /\ At(w, "jobs") /\ step[w][c] = "todo" /\ ~Alive(w)
    /\ AccountOf[c] \notin Gated(w)
    /\ GoTo(w, c, "error")
    /\ UNCHANGED <<jobFrame, mem>>

-----------------------------------------------------------------------------
(* Reporting the batch.                                                    *)

\* Every goroutine has returned: none runs and each is done or has failed.
JobsReturned(w) ==
    \A c \in Credits :
        /\ step[w][c] \notin Running
        /\ step[w][c] = "todo" => \E d \in Credits :
              AccountOf[d] = AccountOf[c] /\ step[w][d] = "error"

JobsFailed(w) ==
    /\ At(w, "jobs") /\ JobsReturned(w)
    /\ \E c \in Credits : step[w][c] = "error"
    /\ cycle' = [cycle EXCEPT ![w].at = "retry"]
    /\ UNCHANGED <<upstreamVars, outsideVars, tableVars, step, mem, mails, events>>

\* The report a worker renders from its memory; it carries the time of the
\* rendering, of which there is at most one per claim.
Rendered(w) ==
    [results |-> {<<c, mem[w][c].outcome>> : c \in JobsOf(cycle[w].batch)},
     at |-> batch[cycle[w].batch].attempts]

\* FreezeResetReport: the first body stored for a batch is kept.
FreezeResetReport(w) ==
    /\ At(w, "jobs") /\ Alive(w) /\ JobsReturned(w)
    /\ \A c \in Credits : step[w][c] # "error"
    /\ batch' = [batch EXCEPT ![cycle[w].batch].payload =
           IF @ = None THEN Rendered(w) ELSE @]
    /\ cycle' = [cycle EXCEPT ![w].at = "mail"]
    /\ UNCHANGED <<upstreamVars, outsideVars, job, step, mem, mails, events>>

\* Mutant: a retry of the mail renders the report again.
Mut_SendRendered(w) ==
    /\ At(w, "mail") /\ Alive(w)
    /\ mails' = mails \cup {[batch |-> cycle[w].batch, body |-> Rendered(w)]}
    /\ \E at \in {"record", "retry"} : cycle' = [cycle EXCEPT ![w].at = at]
    /\ UNCHANGED <<upstreamVars, outsideVars, tableVars, step, mem, events>>

\* SendMessage: the mail service accepts the body, and the worker learns of
\* it or not.
SendMessage(w) ==
    /\ At(w, "mail") /\ Alive(w)
    /\ mails' = mails \cup {[batch |-> cycle[w].batch,
                             body |-> batch[cycle[w].batch].payload]}
    /\ \E at \in {"record", "retry"} : cycle' = [cycle EXCEPT ![w].at = at]
    /\ UNCHANGED <<upstreamVars, outsideVars, tableVars, step, mem, events>>

FinishResetReport(w) ==
    /\ At(w, "record") /\ Alive(w)
    /\ batch' = [batch EXCEPT ![cycle[w].batch].mailed = TRUE]
    /\ cycle' = [cycle EXCEPT ![w].at = "retry"]
    /\ UNCHANGED <<upstreamVars, outsideVars, job, step, mem, mails, events>>

\* Freezing, sending or recording fails.
ReportFails(w) ==
    /\ \/ At(w, "jobs") /\ JobsReturned(w)
       \/ At(w, "mail")
       \/ At(w, "record")
    /\ cycle' = [cycle EXCEPT ![w].at = "retry"]
    /\ UNCHANGED <<upstreamVars, outsideVars, tableVars, step, mem, mails, events>>

\* The deferred RetryResetBatch shortens the lease of an unsent batch, with a
\* context of its own; if it fails the long lease stays.
RetryResetBatch(w) ==
    /\ At(w, "retry")
    /\ \/ /\ ~batch[cycle[w].batch].mailed
          /\ batch' = [batch EXCEPT ![cycle[w].batch].lease = RetryLease]
       \/ UNCHANGED batch
    /\ cycle' = [cycle EXCEPT ![w] = IdleCycle]
    /\ step' = [step EXCEPT ![w] = [c \in Credits |-> "none"]]
    /\ mem' = [mem EXCEPT ![w] = [c \in Credits |-> NoMem]]
    /\ UNCHANGED <<upstreamVars, outsideVars, job, mails, events>>

\* The process dies and is started again: only the tables survive.
Crash(w) ==
    /\ Active(w) /\ FromOutside
    /\ cycle' = [cycle EXCEPT ![w] = IdleCycle]
    /\ step' = [step EXCEPT ![w] = [c \in Credits |-> "none"]]
    /\ mem' = [mem EXCEPT ![w] = [c \in Credits |-> NoMem]]
    /\ UNCHANGED <<upstreamVars, outsideVars, tableVars, mails>>

-----------------------------------------------------------------------------
JobStep(w, c) ==
    \/ JobSettledUnsent(w, c) \/ JobVerified(w, c) \/ StartResetAttempt(w, c)
    \/ SendConsume(w, c) \/ ConsumeReplied(w, c) \/ ConsumeUnanswered(w, c)
    \/ ConsumeUnclear(w, c)
    \/ JobChecked(w, c) \/ FinishResetJob(w, c) \/ JobStoreFails(w, c)
    \/ GateTimesOut(w, c)

WorkerStep(w) ==
    \/ discoverResets(w) \/ refreshResetCredits(w) \/ ReconcilePendingResets(w)
    \/ PlanReset(w) \/ DiscoveryEnds(w)
    \/ \E b \in Batches : ReclaimBatch(w, b) \/ ClaimNewBatch(w, b)
    \/ ClaimNothing(w)
    \/ \E c \in Credits : JobStep(w, c)
    \/ JobsFailed(w) \/ FreezeResetReport(w) \/ SendMessage(w)
    \/ FinishResetReport(w) \/ ReportFails(w) \/ RetryResetBatch(w)

Environment ==
    \/ \E c \in Credits : CreditChanges(c) \/ ConsoleConsumes(c) \/ ServeConsume(c) \/ JobFallsDue(c)
    \/ \E a \in Accounts : ToggleAccount(a) \/ CacheAges(a) \/ ConsoleReads(a) \/ ConsoleStores(a)
    \/ WindowOpens \/ WindowCloses

Next ==
    \/ Environment \/ Tick
    \/ \E w \in Workers : StartCycle(w) \/ WorkerStep(w) \/ Crash(w)

Spec == Init /\ [][Next]_vars

\* Every worker keeps running its loop, time passes and the night ends; a store
\* that keeps being asked for a batch answers in the end; and discovery, which
\* shares the cycle's eight minutes with the batch, does not use them all up in
\* every cycle.
Fairness ==
    /\ WF_vars(Tick)
    /\ WF_vars(WindowOpens)
    /\ \A w \in Workers :
         /\ WF_vars(StartCycle(w))
         /\ WF_vars(WorkerStep(w))
         /\ []<>(At(w, "claim") /\ Alive(w))
         /\ SF_vars(\E b \in Batches : ReclaimBatch(w, b))
         /\ SF_vars(\E b \in Batches : ClaimNewBatch(w, b))

FairSpec == Spec /\ Fairness

-----------------------------------------------------------------------------
(* Properties.                                                             *)

\* Every variable of the model keeps its type.
UpstreamOK ==
    /\ credit \in [Credits -> CreditStates]
    /\ call \in [Credits -> CallStates]
    /\ requests \in [Credits -> Nat]

OutsideOK ==
    /\ disabled \subseteq Accounts
    /\ window \in BOOLEAN
    /\ cache \in [Accounts -> [known : BOOLEAN, fresh : BOOLEAN, avail : SUBSET Credits]]
    /\ console \in [Accounts -> {None} \cup SUBSET Credits]
    /\ events \in 0..MaxEvents

TypeOK ==
    /\ UpstreamOK /\ OutsideOK
    /\ job \in [Credits -> JobRows]
    /\ batch \in [Batches -> BatchRows]
    /\ cycle \in [Workers -> CycleStates]
    /\ step \in [Workers -> [Credits -> Steps]]
    /\ mem \in [Workers -> [Credits -> Copies]]

\* Two workers never process the same batch at the same time: the lease taken
\* in ClaimResetBatch outlives the cycle that took it, and only the holder's
\* own deferred RetryResetBatch shortens it.
BatchHeldOnce ==
    \A v, w \in Workers :
        v # w /\ cycle[v].batch # None => cycle[v].batch # cycle[w].batch

\* "A restart never resubmits an attempted credit": over all cycles, crashes,
\* lost replies and workers the service sends at most one redemption request
\* for a credit (StartResetAttempt itself does not stop a second one).
NeverResubmitted == \A c \in Credits : requests[c] <= 1

\* "Redemption intent is stored before the upstream call", in a row that
\* belongs to a batch, so that a restart finds what may have been sent.
IntentBeforeRequest ==
    \A c \in Credits : requests[c] > 0 => job[c].attempted /\ job[c].batch # None

\* A stored outcome agrees with upstream: "succeeded" means the credit is
\* redeemed ("a missing credit alone is not proof of success"), and failed,
\* missed, skipped and retired jobs, all of which tell the reader that no
\* request was sent, never sent one.  The "disabled" outcome is the exception.
OutcomesAreTrue ==
    \A c \in Credits :
        /\ job[c].outcome = "succeeded" => credit[c] = "redeemed"
        /\ job[c].outcome \in (NotSent \ {"disabled"}) \cup {"retired"} => requests[c] = 0

\* Every report handed to the mail service lists exactly the jobs of its
\* batch, each with the outcome that is stored for it: no job is reported
\* before it is settled, and no retired job is reported at all.
ReportsMatchJobs ==
    \A m \in mails :
        /\ m.body.results = {<<c, job[c].outcome>> : c \in JobsOf(m.batch)}
        /\ \A c \in JobsOf(m.batch) : job[c].outcome \in Outcomes

\* All submissions for a batch carry one body, so that the stable Resend key
\* makes retries idempotent: FreezeResetReport keeps what was sent first.
OneBodyPerBatch ==
    \A m, n \in mails : m.batch = n.batch => m.body = n.body

\* The outcome of a job, once stored, is final, and so is a redemption intent
\* and the batch a job belongs to (discovery, recovery and a late worker may
\* all write the row again).
JobRowsAreFinal ==
    [][\A c \in Credits :
          /\ job[c].outcome # None => job'[c].outcome = job[c].outcome
          /\ job[c].attempted => job'[c].attempted
          /\ job[c].batch # None => job'[c].batch = job[c].batch]_vars

\* A batch is reported, or has used up its claims: a crashed or failed cycle
\* never leaves one behind that no later cycle picks up.
BatchesEnd ==
    \A b \in Batches :
        batch[b].made ~> (batch[b].mailed \/ batch[b].attempts = MaxClaims)

\* A job that has fallen due is taken into a batch or retired, for as long as
\* Batches has an identifier left.
DueJobsAreTaken ==
    \A c \in Credits :
        (c \in DueJobs) ~> (job[c].batch # None \/ job[c].outcome # None \/ \A b \in Batches : batch[b].made)

\* A credit cannot be given back, so a batch has one holder, and a credit is
\* requested once at most and only after the intent has been stored, whatever
\* replicas crash and whatever leases expire in between.
ResetSafe == TypeOK /\ BatchHeldOnce /\ IntentBeforeRequest /\ NeverResubmitted

\* The administrator reads the same report however often the mail is sent, and
\* it says of each job of the batch what is stored of it.
ReportIsTrue == OneBodyPerBatch /\ ReportsMatchJobs

\* With a worker that keeps running no batch stays open and no due job is
\* forgotten, whatever crashes happen.
ResetsProgress == BatchesEnd /\ DueJobsAreTaken

-----------------------------------------------------------------------------
(* What the documentation says and the code does not do.                   *)

\* "Account is disabled; no reset request was sent." and the other wordings of
\* a job that was not sent are true of the job (control/auto_resets.go:218).
UnsentIsUnsent ==
    \A c \in Credits : job[c].outcome \in NotSent => requests[c] = 0
=============================================================================
