# SubPool: specifications, model checks and proofs

SubPool is a gateway that pools AI provider accounts (Codex, Copilot, Antigravity,
OpenAI-compatible, Bailian) behind the API keys of a team. This directory holds TLA+
models of what it keeps in memory and in PostgreSQL, the TLC configurations that check
them on small instances, and TLAPS proofs of the results that matter most. Every
definition is a translation of the Go source or of its SQL; `PROJECT.json` gives the
lines, the hazards each property is meant for, and a mutant of the code that breaks it.

## 1. Inventory

| Component | State it keeps | What is hard about it |
|---|---|---|
| WebSocket hub, `gateway/responsesws/hub.go` | session map, connection and turn counters, shutdown flag | upgrades half done when shutdown or a routing change begins; counters whose floors hide errors |
| WebSocket session, `session*.go`, `protocol.go` | pinned account, upstream connection, streams, turns, remembered responses | five kinds of goroutine share a lock they release around every dial, write and store call; failover in mid-turn |
| Request bodies, `gateway/request_body*.go` | one atomic byte counter, reservations, limits | lock-free admission under limits that change; several owners of one release |
| HTTP failover, `gateway/server.go`, `proxy.go` | the attempt of each request | other requests move the key meanwhile; answers are recorded long after the account was chosen |
| Routing store, `store/routing.go`, `quota_routing.go`, SQL | key bindings, pools, response sessions, usage events | READ COMMITTED snapshots, advisory and row locks in different orders |
| Account status store, `store/postgres.go`, SQL | status, cooldown, health, quota of an account row | six writers, most of them with what they read before a slow call |
| Health checks, `health/*.go` | claims in the row, billing polls in the process | replicas, a semaphore in front of a lease, credentials replaced in mid-request |
| Credential refresh, `credential/refresher.go` | credential and version | rotating tokens, a lock of one process and a database for all |
| Copilot tokens, `provider/copilot/client.go` | map of entries with channels | whoever deletes an entry may delete another one's |
| Rate limit, `store/runtime.go` | one row per key | clocks of replicas |
| Model listing, `gateway/models.go`, `catalog` | cache | goroutines, slots, arrival order |
| Automatic resets, `control/auto_resets.go`, `store/auto_resets.go` | jobs, batches | crashes between intent and request, leases against timeouts, lost replies |
| Reset schedule, `control/reset_schedule.go` | none | edges of the daily window |
| Reset credit console, `control/reset_credits.go` | snapshot, refresh claim | a list read earlier is stored later |
| Daily report, reset notices, `reporting`, `resetnotice` | report row, notice row | a mail or a post that may have been made before the crash |
| Device login, `control/device_login.go` | logins, channels, timers | consent, cancellation, expiry and shutdown at once |
| Google authorization, `provider/antigravity/oauth.go` | pending states | a callback pasted twice |
| Administrator sign-in, `auth`, `store/runtime.go` | failure windows, sessions | attempts counted one by one under two locks |
| Codex app-server, `provider/codex/appserver.go` | child process, directory, pipes | a child that does anything, at any time |
| Stream conversion, `adapter/protocol`, `antigravitywire` | open items, tool calls, signatures | fragments of several calls interleaved; a goroutine behind a pipe |
| Document conversion, clients, cryptography, configuration | none that is shared | content |

The gateway and the hub ask the routing store for an account and report limits to the
status store; sessions take turns from the hub's counters and bodies from the byte
budget; a refused request goes through credential refresh; health checks, redemptions,
the administrator and the gateway all write the account row; the console starts logins,
which make accounts; changes to accounts call `CloseAccount`; `cmd/subpool` starts the
loops and calls `CloseAll`.

## 2. Modules

| Module | Models |
|---|---|
| `ResponsesWSHub` | the hub; a member of `Conns` is one call of `Handle`, every critical section of `Hub.mu` one action |
| `ResponsesWSSession` | one session with all its goroutines, the account turn counters and a store that routes, binds and refuses |
| `RequestBody` | the byte budget (load and compare-and-swap are separate steps), reservations, limits |
| `Gateway` | requests of one key: route, quota preference, attempts, refresh also before the first attempt, failover, recording, with lost writes and their retries |
| `KeyBindings` | abstract: a key moves in one step to an account that exists and has room |
| `Assignments` | the transactions that do it, statement by statement, with advisory locks, row locks, snapshots, deadlock aborts |
| `QuotaRouting` | the choice of an account by quota as a fold over the candidates |
| `AccountRow`, `AccountHealth` | the row and each statement that writes it; checks, console, requests in flight and redemptions that do |
| `BillingPoll` | the polls of an OpenAI balance while its credentials are replaced |
| `CredentialRefresh` | refreshes of several requests in several processes against a provider that rotates tokens |
| `TokenCache` | single flight, invalidation and the one retry of Copilot tokens |
| `RateLimit` | the counting statement under differing clocks |
| `ModelListing` | listings of a pool that share a cache and wait for slots |
| `AutoReset` | workers, tables, upstream, console and mail of the reset service |
| `ResetSchedule` | the two pure functions |
| `DailyReport`, `ResetNotice` | the frozen report with its lease; the notice that is claimed before it is posted |
| `DeviceLogin`, `GoogleLogin`, `AdminLogin` | the three ways somebody signs in |
| `AppServer` | one operation on a codex child process |
| `CopilotStream`, `AntigravityStream` | chat chunks turned into Responses events; the goroutine and the pipe in front of it |
| `ChatStream` | Responses events turned into chat chunks |
| `MCResponsesWSHub`, `MCResponsesWSSession`, `MCAutoReset`, `MCAccounts` | instances of one component |
| `MCServing`, `MCLocks`, `MCBackground`, `MCOnce` | instances of several |
| `ResponsesWSHubProofs`, `ResponsesWSSessionProofs`, `AutoResetProofs` | theorems about one module |
| `SignInProofs`, `AccountProofs`, `RequestProofs`, `BackgroundProofs`, `LoopProofs` | theorems about the modules of one subject: sign-in, a provider account with the keys assigned to it, a request, what runs beside the requests, what loops and streams compute |

Definitions called `Mut_...` are wrong variants of the definition after them. No
specification uses them; each shows that a property would notice the mistake.

How the larger modules correspond to the code:

- `ResponsesWSHub`: `pc` is the place of each `Handle` between two critical sections;
  `active`, `connections`, `sessions`, `closing` are the fields of `Hub`.
  `removeSession` is two steps because it locks twice. `CloseAll` is called at most
  once, as in `cmd/subpool`; `CloseAccount` again and again. It closes the sessions that
  have the account; one that is dialling has none yet and may be pinned afterwards with
  the settings it has read before, which nothing in the code excludes (a hazard without a
  property).
- `ResponsesWSSession`: `reader`, `up`, `bridge`, `closer` and `idle` are the program
  counters of the client reader, the upstream reader, the bridge workers, `close` and
  `monitorIdle`; `pin` is the pinned account and connection, `turns` and `queue` the
  streams. Each section under `session.mu`, each call outside it and each step of a
  failover is an action; what `finishTurn` does after its section, which is to give the
  body and the turn of the account back, is one action with it. Payloads are the account
  whose identity they carry and the response they continue. `MaxOthers` turns of other
  sessions compete.
- `AutoReset`: `job` and `batch` are the tables, `cycle`, `step` and `mem` what a
  process loses in a crash. A transaction is one action. `Tick` counts down the
  cycle's context (8 minutes) and the lease of a batch (10 minutes), of which only the
  order matters. The reply to a redemption may be late, lost, or never come. All
  outside events and crashes are bounded together by `MaxEvents`.
- `RequestBody`: what ends a reading before the body is whole is one outcome: a broken
  connection, a timeout, settings that cannot be read (503) and a hundred empty reads
  differ in the status they answer with, not in what they release.
- `Assignments`: `tx` is a transaction with the statement it is at and what it has
  read; `rowLock` and `poolLock` are PostgreSQL's. The first statement of a request
  chooses by a snapshot, then locks the row it chose and counts again. PostgreSQL
  aborts one of two transactions that wait for each other. `Limit` is a constant: an
  administrator may lower `max_api_keys_per_account` below the number of keys an account
  already has, which the code allows and takes no key away for, so that
  `AccountWithinLimit` is about a limit that stays.
- `AccountHealth`: a check is claimed, waits for its place in the batch, ends the
  cooldown if it can, probes, and stores its result by up to three statements; a
  replica may stop at each. Ticks stand for the minutes of the claim. An account begins as
  `ApplyNewAccount` leaves it; that its credential cannot be opened is left out there,
  because the same call has just sealed it.
- `Gateway`: `bound` is the binding all requests of the key share, `request` a request,
  `owner` which account produced an answer. `Subscriptions` and `Antigravity` are the
  accounts whose credential is refreshed, the latter also before the first attempt when it
  is about to expire. `hashes` and `counted` are the table of event hashes and the tokens
  added: one transaction writes both or, when it is rolled back, neither, and its reply may
  be lost in either case. An assignment is one step here, which `Assignments` justifies.
- `CredentialRefresh`: `live` is the token the provider accepts; `lost` counts its
  answers that did not arrive and new credentials that were not written. A reading of the
  row that fails, and a write that is carried out and not answered, are steps of their own
  and not counted: the credential stays usable in spite of them.
- `AppServer`: the child may answer, fail, answer with nothing in it, ask for a token
  first, send anything out of turn, also with the number of the call, keep silent or die;
  `ContextKills` is the context of the operation. The session takes any message with the
  number of its call for the answer, so `stray` remembers that such a message or an empty
  answer was sent: `OutcomeReported` and `ListIsWhole` say what is reported then, too.
- `AntigravityStream`: a call of a function is read, its signature stored (`sign`; a
  statement with its own two seconds), and only then passed on (`call`); the stream may
  fail or be closed at each.
- `ChatStream`: `sentRole` is the flag of `proxyChatStream`; an error that comes first is
  written without a role.

The four composed instances put components side by side that share no variable with
each other, and let the initial state choose which one moves (`part`); the parts that
do not move have one initial state. So one run checks many components, each as if
alone, and its states are their sum, not their product. The components that do share
state are modelled in one module: the hub's counters in the session, the row in
`AccountHealth`, the pipe between `AntigravityStream` and `CopilotStream`.

## 3. Runs

| Run | Instance | Shows |
|---|---|---|
| `hub` | 2 connections, 2 keys with one connection each, 2 accounts | `HubSafe` and `HubSettles` |
| `session_streams` | 2 streams, 2 turns, 2 Codex accounts, dialled or bridged | counters through failover, attribution of events, nothing replayed, no stranded turn, no leak |
| `session_live` | one Codex and one bridged account, one turn each, a competing session, an earlier response | exact account turns; the session ends |
| `session_continuation` | native session, 3 turns | violated, see below |
| `once` | two parts: 2 reset workers, 1 credit, 1 outside event; or 2 requests of one key with 3 accounts (Codex, Antigravity, API key) and 2 answers, 2 attempts, 2 tries of each write | one holder, one redemption after its intent, true and final outcomes; `GatewaySafe` |
| `reset_reports` | 1 worker, 2 accounts, up to 2 batches, a gate of 1 | one truthful body per batch |
| `reset_live` | 1 worker, 1 credit, 2 events | due jobs are taken, batches end |
| `reset_unsent` | 1 worker, 1 credit | violated, see below |
| `account_disabled` | 1 account, 1 replica, console | violated, see below |
| `serving` | ten parts, below | safety around a request and of the writes that must not repeat |
| `locks` | five parts, below | safety where one waits for another, and that nobody waits forever |
| `background` | four parts, below | what works on its own ends, and with a true result |

`serving` moves one of: one Codex account under 2 replicas, requests, console and
redemption, unhealthy after 2 failures (`AccountSafe`); 2 bodies with lengths at, below
and above the limit while the limits change once (`BudgetIsExact`, `AloneIsAdmitted`); 2
replicas whose clocks differ by a minute, 2 requests a minute (`WindowWithinLimit`); up to
4 refreshes of 2 requests in one process or two, one of them losing an answer
(`CredentialUsable`, `CredentialOnlyAdvances`); 3 callbacks with 2 states
(`CodeExchangedOnce`); 2 processes with one notice (`NoticeIsTrue`); expiries of two days
(`ScheduleSafe`); a stream with 2 calls (`ChatFaithful`); up to 3 candidates of 19
shapes on both sides of every threshold (`QuotaMovesPay`); 2 polls and 2 credentials
(`BillingSafe`).

`locks` moves one of: 2 transactions over 2 keys, 2 accounts in 2 pools with opposite
priorities and one key per account (`ImplementsKeyBindings`, `AssignSafe`); 3 sign-in
attempts for 2 users from one address, one failure allowed (`LoginSafe`,
`NoLoginWhileBlocked`); 3 requests of a Copilot account (`RetryUsesAnotherToken`); 2
listings of 3 accounts with 2 slots (`OwnersIndependentOfOrder`); a stream of up to 4
chunks with texts, a refusal and 2 calls, from Copilot or through the pipe
(`StreamFaithful`). `NobodyWaitsForever` is the liveness of all five.

`background` moves one of: one account of each kind of provider through failure and
recovery (`Recovers`); 2 device logins with one place (`DeviceLoginSafe`); 2 replicas
that render different reports, 3 attempts (`ReportSafe`); one operation of each kind on
a child (`OperationSafe`). `EverythingSettles` is the liveness of the last three.

A property that is a conjunction has named parts, each with the code behaviour it is
about; its mutant breaks one of them.

Bounds. The limits of the code (256, 32, 16, 20, 5, 2 ...) are constants, chosen so
that each one binds: a key has one connection, an account room for one key, the body
limit lies between the lengths, a batch may be claimed twice, a report three times. The
one exception is the hub's global limit, which two connections cannot exceed: it is
proved for all instances. In `once` there is one lost write or changed account
(`Trouble`), or a write that is lost twice and given up (`SecondTrouble`). Two of
everything that races are enough for the pairwise races the code has, three where one
waits for another that is served (tokens, sign-in). Bounds that are the model's own are
named in the modules: `MaxEvents`, `MaxTurns`, `MaxOthers`, `Trouble`, `MaxLost`,
`MaxClock`, `MaxMinutes`, `MaxNoise`, `MaxChunks`, `MaxText`, `MaxCandidates`,
`Faults`, `MaxExchanges`. Symmetry is used for values no definition orders, and never
with a liveness property. Deadlock is not checked: a hub that has shut down, a session
that has ended and a login that is over stop; that nobody waits for ever is the subject
of the liveness properties.

Fairness, and why the code justifies it:

- hub: goroutines that can run do run; nothing is assumed of clients, upgrades or the
  administrator. Session: only once its context is cancelled, when no call blocks.
- `Assignments`: strong fairness of each transaction's next statement, since
  PostgreSQL queues the waiters of a lock and aborts one of a deadlock. `AdminLogin`:
  the locks are taken in one order.
- `TokenCache`, `ModelListing`, `AppServer`: the calls have timeouts (`overdue`, the
  context), so they end, though not with an answer.
- `AntigravityStream`: nothing is assumed of Google; the gateway closes the body, and
  storing a signature ends within its two seconds.
- `DeviceLogin`: timers fire, goroutines run; nothing is assumed of the user.
- `AccountHealth`: the ticker of a running replica ticks and its calls end. `Recovers`
  speaks of the time after the providers answer again.
- `DailyReport`: some replica keeps running and time passes; its claim is asked for
  each minute, hence strong.
- `AutoReset`: the loop keeps running, time passes and the window opens again; a store
  asked for a batch again and again answers in the end; and discovery does not use up
  the eight minutes of every cycle. The code does not guarantee the last one: discovery
  and the batch share one context. It is stated as an assumption and listed as a hazard.

### Disagreements between the code and its documentation

- `session_continuation`: a response the session remembers is continued without a look
  at its account. After a failover it goes to the new account, although
  `docs/mixed-provider-pools.md` says that continuations never change theirs.
- `reset_unsent`: a job whose request was sent before a crash is stored, and mailed, as
  "Account is disabled; no reset request was sent." if the account has been disabled
  in between, instead of being reconciled.
- `account_disabled`: `UpdateProviderStatus` has no condition on the old status. A late
  answer or a failed refresh stores `cooling_down` over the administrator's `disabled`,
  and the health checker reactivates the account when the cooldown is over.

Two more were met while modelling and have no run: the reset window is asked once per
cycle (`control/auto_resets.go:50`) and the answer used for up to eight minutes, so that
a redemption can start after the window has closed; and a credit list is as fresh as its
storing, not its reading, so that a console refresh that read before a credit was
granted makes discovery retire the job of an available credit.

## 4. Proofs

Eight modules prove, for every value of the constants:

| Module | Results | Argument |
|---|---|---|
| `ResponsesWSHubProofs` | `HubIsSafe` | `HubInv`: the counters equal the number of goroutines between reservation and release (so that the floors never apply), the session map is the set between `addSession` and `removeSession`, and once the flag is set every registered session is one `CloseAll` waits for. The limits alone are not inductive. |
| `ResponsesWSSessionProofs` | `SessionIsSafe`, `AccountTurnsAreExact`, `EventsAreAttributed`, `OutputIsNotReplayed`, `TurnsAreAttended`, `SessionLeaksNothing` | `SInv`, explained below. |
| `AutoResetProofs` | `ResetsAreSafe`, `OutcomesAgreeWithUpstream`, `ReportsAreTrue`, `SettledRowsStay` | `ResetInv`. `HoldInv`: a cycle ends before the lease of its batch, so a batch has one holder. `RowInv`: rows are planned, taken, attempted and settled in this order. `SentInv`: a request is preceded by its intent, and what a worker has in memory, what is stored and what upstream did agree at each place of a job. `ReportInv`: a frozen body is the table's account of the batch. Most steps leave the job in hand alone (`Aside`) or move only it (`JobMove`); both are shown once to keep the invariant. |
| `SignInProofs` | `SignInIsSafe`, `BlockedStaysOut`, `ExchangedAtMostOnce`, `DeviceLoginsAreTrue` | `LoginInv`: what an attempt has read of a scope stays true while it holds its lock. A Google state is pending, or in the hands of one callback, or exchanged. `DeviceInv`: `LoginOK` ties the places of the two goroutines of a login to what the console shows, and the places of a provider are counted with the handshakes that have taken one. |
| `AccountProofs` | `TransactionsImplementBindings`, `AssignmentsAreSafe`, `CredentialAdvances`, `CredentialStaysUsable`, `RetriesUseAnotherToken`, `AccountRowsAreSafe`, `BalanceIsAskedOnce` | Refinement, with `B == INSTANCE KeyBindings WITH ...` of `Assignments`. `AssignInv` says of each transaction what it owns: while it holds the row of an account, the account exists and has the room the transaction has counted. So each write is a step of `KeyBindings`; the limit and the absence of dangling keys are then proved of the abstract steps. `RefreshInv`: the provider's token is stored or carried by one request. `TokenInv`: the token a request was refused with is older than any entry it finds afterwards. `HealthInv`: every statement keeps the columns of a row consistent whatever the writer had read (`GoodAndWarm`, one lemma per statement); a check is no older than its claim has left (`CheckOK`); two checks that have both ended a cooldown are told apart by the cooldown begun between them (`PairOK`). `BillingInv`: an entry in flight has a request with its identity. |
| `RequestProofs` | `RateIsBounded`, `RequestsAreSafe`, `BudgetIsKept`, `RoomForOne` | Rate: what was admitted in a minute is at most what the row counts of it. `GatewayInv`: at every place of a request its account, the accounts tried and the answer it continues or records fit together (`CallOK`). `BodyInv`: the counter is the sum of the reservations, each goroutine has reserved what its place says, and what was reserved under a limit stays within it. A sum is the cardinality of a disjoint union (`Total`), which needs no recursion; `GoroutineStep` reduces a step of one goroutine to two numbers. |
| `BackgroundProofs` | `PlansAreSafe`, `NoticesAreTrue`, `OneReport`, `OperationsAreSafe` | Plans: lemmas on `\div` and `%`, for every expiry. Notices: a claimed notice is in the hands of one process, before its post. `ReportInv`: who may send is within its lease and has the body of the row. `AppInv`: calls are numbered, requests and answers lie in the pipes in the order of their numbers, and a redemption is asked for once, so that the answer with the number of the call is the answer to it, unless the child has used that number for something else. |
| `LoopProofs` | `ListingIsIndependentOfOrder`, `ChatIsFaithful`, `QuotaMovesAreFinal`, `StreamsAreFaithful` | Induction over data, explained below. |

None of the properties is inductive by itself: `ResetSafe` does not say that a cycle ends
before its lease, nor `BudgetIsExact` where each goroutine is, nor `AccountSafe` how old
a check is.

The session has one invariant, `SInv`, for all its properties; each of them follows from
it, and one lemma per handler shows that a step of the handler keeps it. `SessionInv`
alone is not inductive: it does not say that a turn the upstream answers is the one at the
head of its queue. `SInv` adds

- `PipeOK`: while the upstream reader has a connection, the queue of a stream is the turn
  whose last event is being handled, then what the upstream has yet to answer, in order,
  then the turn the client reader is about to write. `EventAttribution` follows, and so
  does that `Without` removes the head. The connection is replaced only when nothing is
  under way (`UpOK`), which keeps this true of the new one;
- `ReaderOK` and `UpOK`: the client reader and the upstream reader hold the body, the turn
  and the reservation of their place, and a turn they may send again has shown no output
  and continues nothing (`SentOK`);
- `BridgeOK` and `QueueOK`: `bridgeRunning` is set while there is a worker, and a live turn
  that has been sent is served by it, so that it is sent once;
- `CloseInv`: every live turn is on the list of the goroutine that closes.

The counters need lemmas on the cardinality of the live turns of an account when one is
added, removed or moved; the rest of a step leaves either the turns or the goroutines
alone, which is shown once for each kind of step.

`LoopProofs` proves what loops and streams compute for data of any length. A set of
numbers has a least one (`LeastNumber`), which gives induction over numbers as a lemma
about sets (`NumberInduction`); a fold is unrolled into a table of its intermediate
values (`IterateExists`), over which the induction runs. On these rest

- the listing: after some answers the list is `Merged(from)`, what these answers give as
  a set, so that their order cannot matter;
- the quota choice: after n candidates the best one so far is the best acceptable one of
  them (`BestSoFar`), and after a move `NowhereToGo` holds of the same candidates;
- chunks from events (`ChatInv`): of each call, what the state remembers, what the
  provider has made of it and what the client was sent are one text;
- events from chunks (`StreamInv`): the log of events is `Sound`, which says of each event
  that it may follow (`Follows`) those before it, and `Live` says that the state of the
  renderer is what the log shows: every item, part and call begun and not ended is in the
  log with its text so far, nothing has been said of an index not yet dealt, and the
  indexes are dealt without a gap (`Numbered`). Each writer of the renderer is one lemma
  (`TextWritten`, `CallWritten` ...); `Closing` is the invariant of the loop that finishes
  the calls. For the goroutine, a queued call has its signature stored and a queued reason
  to finish is Google's (`WireOK`), so that the renderer learns nothing else (`Backed`).

Assumptions: those named `...Assumption`, `ConnsFinite`, `LimitsArePositive`,
`LeaseOutlivesCycle` and the like in the modules, which TLC evaluates in the runs. Sets
are finite where the code counts; limits are natural numbers; marker values are no
members; a lease is longer than the context of its holder (`LeaseOutlivesCycle`: 10
minutes against 8), a claim longer than a batch of checks takes; and no body has more
than four copies (`RequestBodyAssumptions`), which bounds what the settings may ask for.

Only model-checked are the liveness properties (`HubSettles`, `SessionEnds`,
`ResetsProgress`, `NobodyWaitsForever`, `Recovers`, `EverythingSettles`): fairness and
`ENABLED` are beyond the prover. Every invariant and every action property of the passing
runs is the statement of a theorem.

## 5. Not modelled

- Document conversion (`adapter/protocol` without its streams, `protocol/*`), provider
  clients, JSON and schema helpers, encryption, configuration, statistics and quota
  headers: functions of their input or plain I/O. Provider services and PostgreSQL are
  the environment, with the locks and snapshots the code relies on.
- The periodic deletion of old rows, the one-shot reset command (a shell around the
  modelled redemption), the refresh claim of the reset-credit console.
- Membership of pools is fixed in `Assignments`; listings and summaries of the console
  are reads. A key's requests see assignments as one step in `Gateway`.
- Compaction is modelled as far as the memory it holds (`RequestBody`).

## 6. What could follow

A refinement that maps a session to a place of the hub; one abstract specification of
sending once that reports, notices and reset mails implement; the refresh claim of the
console.
