------------------------- MODULE ResponsesWSSession -------------------------
(***************************************************************************)
(* One Responses WebSocket session                                         *)
(* (internal/gateway/responsesws/session.go, session_client.go,            *)
(* protocol.go) with the hub's per-account turn counters.                  *)
(*                                                                         *)
(* The goroutines of a session are                                         *)
(*   - the client reader, which runs readClient and handleRequest;         *)
(*   - the upstream reader of a native (Codex) session, readUpstream;      *)
(*   - one bridge worker per stream of a bridged session, runBridge;       *)
(*   - monitorIdle;                                                        *)
(*   - whoever runs session.close, once.                                   *)
(* An action is one critical section of session.mu or of Hub.mu together   *)
(* with the goroutine-local work around it; finishTurn, whose two sections *)
(* no other step can tell apart (the turn is marked finished in the first) *)
(* is one action.                                                          *)
(*                                                                         *)
(* Left to the environment: which account routing chooses, whether a dial, *)
(* a write or an attempt succeeds, what the upstream answers (in request   *)
(* order on each stream, and only to requests it received), and the turns  *)
(* that the other sessions hold on an account.                             *)
(***************************************************************************)
EXTENDS Naturals, Sequences, FiniteSets

CONSTANTS
    Streams,              \* stream ids, with the unnamed one
    DefaultStream,        \* the empty stream id of a request without one
    Accounts,             \* provider accounts of the pool
    Codex,                \* the accounts dialled natively
    Earlier,              \* responses of earlier connections of the key
    MaxTurns,             \* bound of the model: turns accepted in a session
    MaxOthers,            \* bound of the model: turns of the other sessions
    MaxTurnsPerConnection,\* responsesWSMaxTurnsPerConnection (16)
    MaxTurnsPerAccount,   \* responsesWSMaxTurnsPerAccount (16)
    MaxNamedStreams,      \* responsesWSMaxNamedStreams (32)
    MaxRememberedIDs,     \* responsesWSMaxRememberedIDs (128)
    MaxProviderAttempts,  \* maxProviderAttempts (8)
    ForceHTTPBridge,      \* Hub.forceHTTPBridge
    NoAccount, NoResponse

ASSUME SessionAssumptions ==
    /\ DefaultStream \in Streams
    /\ Codex \subseteq Accounts
    /\ NoAccount \notin Accounts
    /\ MaxTurns \in Nat /\ MaxOthers \in Nat /\ MaxTurnsPerAccount \in Nat \ {0}
    /\ MaxTurnsPerConnection \in Nat \ {0}
    /\ MaxNamedStreams \in Nat /\ MaxProviderAttempts \in Nat
    /\ MaxRememberedIDs \in Nat \ {0}
    /\ ForceHTTPBridge \in BOOLEAN
    /\ NoResponse \notin (1..MaxTurns) \cup Earlier

Turns == 1..MaxTurns
Responses == Turns \cup Earlier     \* turn t, if it answers, is response t
AnyAccount == Accounts \cup {NoAccount}
AnyResponse == Responses \cup {NoResponse}

VARIABLES
    pin,          \* pinned, native, nativeSwitching, account, upstream
    closed,       \* session.closed
    cancelled,    \* session.ctx is done
    closer,       \* closeOnce: not run, running with turns to finish, done
    idle,         \* monitorIdle: watching, decided to close, ended
    turns,        \* the responsesWSTurn objects
    made,         \* how many turns were made
    queue,        \* streams[st].turns
    named,        \* session.named
    running,      \* streams[st].bridgeRunning
    pending,      \* session.pending
    remembered,   \* session.responses
    reader,       \* the client reader's goroutine
    up,           \* the upstream reader's goroutine
    bridge,       \* the bridge workers, one per stream
    accountTurns, \* Hub.accountTurns
    others,       \* turns the other sessions hold on each account
    bodies,       \* request bodies whose reservation is not released
    binding,      \* stored response -> account bindings of the key
    wire,         \* requests the current upstream has not answered, by stream
    sent          \* history: every request that was sent to an account

turnVars == <<turns, made, queue, named, running, pending, remembered>>
sessionVars == <<pin, closed, cancelled, turnVars>>
workerVars == <<up, bridge, closer, idle>>     \* all but the reader
nativeVars == <<reader, bridge, closer, idle>> \* all but the upstream reader
goVars == <<reader, workerVars>>
storeVars == <<others, binding, wire, sent>>
outerVars == <<accountTurns, bodies, storeVars>>
vars == <<sessionVars, goVars, outerVars>>

-----------------------------------------------------------------------------
NoTurn == 0
Turn(st, a, prev) ==
    [stream |-> st, account |-> a, prev |-> prev, forwarded |-> FALSE,
     finished |-> FALSE, terminal |-> "none", bound |-> FALSE]
NoTurnYet == [Turn(DefaultStream, NoAccount, NoResponse) EXCEPT !.finished = TRUE]

ReaderPlaces == {"read", "route", "resolve", "pin", "dial", "worker",
    "validate", "prepare", "reserve", "append", "dispatch", "attempt", "move",
    "transfer", "failed", "closing", "exit", "wait", "done"}
UpPlaces == {"off", "read", "limit", "redial", "transfer", "rewrite",
    "observe", "forward", "closing"}
BridgePlaces == {"off", "loop", "route", "stream", "closing", "finish"}
Terminals == {"none", "completed", "failed"}

PinStates == [pinned : BOOLEAN, native : BOOLEAN, switching : BOOLEAN,
              account : AnyAccount, upstream : AnyAccount]
TurnStates == [stream : Streams, account : AnyAccount, prev : AnyResponse,
               forwarded : BOOLEAN, finished : BOOLEAN, terminal : Terminals,
               bound : BOOLEAN]
ReaderStates == [at : ReaderPlaces, stream : Streams, prev : AnyResponse,
                 account : AnyAccount, identity : AnyAccount,
                 attempted : SUBSET Accounts, failover : BOOLEAN,
                 first : BOOLEAN, body : BOOLEAN, reset : BOOLEAN]
UpStates == [at : UpPlaces, turn : Turns \cup {NoTurn}, of : Turns \cup {NoTurn},
             event : {"delta", "completed", "failed", "limit"},
             account : AnyAccount, attempted : SUBSET Accounts, safe : BOOLEAN]
BridgeStates == [at : BridgePlaces, turn : Turns \cup {NoTurn}, initial : BOOLEAN]
Requests == [turn : Turns, account : Accounts, identity : AnyAccount,
             prev : AnyResponse, again : BOOLEAN, seen : BOOLEAN]

TypeOK ==
    /\ pin \in PinStates
    /\ closed \in BOOLEAN /\ cancelled \in BOOLEAN
    /\ closer \in [at : {"no", "run", "done"}, todo : SUBSET Turns]
    /\ idle \in {"watch", "fire", "off"}
    /\ turns \in [Turns -> TurnStates] /\ made \in 0..MaxTurns
    /\ queue \in [Streams -> Seq(Turns)] /\ wire \in [Streams -> Seq(Turns)]
    /\ named \subseteq Streams
    /\ running \in [Streams -> BOOLEAN]
    /\ pending \in Nat /\ bodies \in Nat
    /\ remembered \subseteq Responses
    /\ reader \in ReaderStates /\ up \in UpStates
    /\ bridge \in [Streams -> BridgeStates]
    /\ accountTurns \in [Accounts -> Nat] /\ others \in [Accounts -> Nat]
    /\ binding \in [Responses -> AnyAccount]
    /\ sent \subseteq Requests

IdleReader == [at |-> "read", stream |-> DefaultStream, prev |-> NoResponse,
               account |-> NoAccount, identity |-> NoAccount, attempted |-> {},
               failover |-> FALSE, first |-> FALSE, body |-> FALSE,
               reset |-> FALSE]
IdleUp == [at |-> "off", turn |-> NoTurn, of |-> NoTurn, event |-> "delta",
           account |-> NoAccount, attempted |-> {}, safe |-> FALSE]

Init ==
    /\ pin = [pinned |-> FALSE, native |-> FALSE, switching |-> FALSE,
              account |-> NoAccount, upstream |-> NoAccount]
    /\ closed = FALSE /\ cancelled = FALSE
    /\ closer = [at |-> "no", todo |-> {}]
    /\ idle = "watch"
    /\ turns = [t \in Turns |-> NoTurnYet]
    /\ made = 0
    /\ queue = [st \in Streams |-> <<>>]
    /\ named = {}
    /\ running = [st \in Streams |-> FALSE]
    /\ pending = 0
    /\ remembered = {}
    /\ reader = IdleReader
    /\ up = IdleUp
    /\ bridge = [st \in Streams |-> [at |-> "off", turn |-> NoTurn, initial |-> FALSE]]
    /\ accountTurns = [a \in Accounts |-> 0]
    /\ others = [a \in Accounts |-> 0]
    /\ bodies = 0
    /\ binding \in {b \in [Responses -> AnyAccount] :
                       \A r \in Responses : b[r] = NoAccount <=> r \in Turns}
    /\ wire = [st \in Streams |-> <<>>]
    /\ sent = {}

-----------------------------------------------------------------------------
(* Hub.reserveAccountTurn and Hub.releaseAccountTurn.                      *)

HasTurnCapacity(a) == accountTurns[a] < MaxTurnsPerAccount
Reserved(at, a) == [at EXCEPT ![a] = @ + 1]
Released(at, a) == [at EXCEPT ![a] = IF @ <= 1 THEN 0 ELSE @ - 1]

\* Other sessions take and return turns of their own.
OtherReserves(a) ==
    /\ HasTurnCapacity(a) /\ others[a] < MaxOthers
    /\ accountTurns' = Reserved(accountTurns, a)
    /\ others' = [others EXCEPT ![a] = @ + 1]
    /\ UNCHANGED <<sessionVars, goVars, bodies, binding, wire, sent>>

OtherReleases(a) ==
    /\ others[a] > 0
    /\ accountTurns' = Released(accountTurns, a)
    /\ others' = [others EXCEPT ![a] = @ - 1]
    /\ UNCHANGED <<sessionVars, goVars, bodies, binding, wire, sent>>

-----------------------------------------------------------------------------
(* Helpers of the session.                                                 *)

Live == {t \in Turns : ~turns[t].finished}

\* rememberResponseLocked: at the limit an arbitrary entry makes room, even
\* for an id that is already there.
Remembers(r, after) ==
    \/ Cardinality(remembered) < MaxRememberedIDs /\ after = remembered \cup {r}
    \/ /\ Cardinality(remembered) >= MaxRememberedIDs
       /\ \E evicted \in remembered : after = (remembered \ {evicted}) \cup {r}

\* The turns of a stream without the first entry that is turn t.
Without(q, t) ==
    IF \A i \in DOMAIN q : q[i] # t THEN q
    ELSE LET first == CHOOSE i \in DOMAIN q : q[i] = t /\ \A j \in 1..(i - 1) : q[j] # t
         IN SubSeq(q, 1, first - 1) \o SubSeq(q, first + 1, Len(q))

\* Mutant: close and the goroutine that served the turn both finish it.
Mut_FinishUnchecked(t) ==
    /\ turns' = [turns EXCEPT ![t].finished = TRUE]
    /\ queue' = [queue EXCEPT ![turns[t].stream] = Without(@, t)]
    /\ pending' = IF pending > 0 THEN pending - 1 ELSE pending
    /\ bodies' = IF turns[t].finished THEN bodies ELSE bodies - 1
    /\ accountTurns' = Released(accountTurns, turns[t].account)
    /\ UNCHANGED <<remembered, binding>>

\* finishTurn: a turn that is finished already, or no turn, is left alone.
\* Otherwise the turn leaves its stream, its body and its account turn are
\* released and CompleteTurn stores the binding of a successful response.
finishTurn(t) ==
    IF t = NoTurn \/ turns[t].finished
    THEN UNCHANGED <<turns, queue, pending, bodies, accountTurns, remembered, binding>>
    ELSE /\ turns' = [turns EXCEPT ![t].finished = TRUE]
         /\ queue' = [queue EXCEPT ![turns[t].stream] = Without(@, t)]
         /\ pending' = IF pending > 0 THEN pending - 1 ELSE pending
         /\ bodies' = bodies - 1
         /\ accountTurns' = Released(accountTurns, turns[t].account)
         /\ IF turns[t].terminal = "completed" /\ turns[t].bound
              THEN /\ Remembers(t, remembered')
                   /\ binding' = [binding EXCEPT ![t] = turns[t].account]
              ELSE UNCHANGED <<remembered, binding>>

\* observeTurn: an event of an unfinished turn marks it as forwarded; a
\* successful terminal event with a response id (bound) is remembered at once.
observeTurn(t, terminal, bound) ==
    IF t = NoTurn \/ turns[t].finished
    THEN UNCHANGED <<turns, remembered>>
    ELSE /\ turns' = [turns EXCEPT ![t].forwarded = TRUE,
                                   ![t].terminal = IF terminal = "none" THEN @ ELSE terminal,
                                   ![t].bound = @ \/ bound]
         /\ IF terminal = "completed" /\ bound
              THEN Remembers(t, remembered') ELSE UNCHANGED remembered

\* What the history records of a request sent for turn t to account a.
Sends(t, a, identity) ==
    sent' = sent \cup {[turn |-> t, account |-> a, identity |-> identity,
                        prev |-> turns[t].prev,
                        again |-> \E s \in sent : s.turn = t,
                        seen |-> turns[t].forwarded]}

\* Mutant: an event belongs to the turn that was sent last on the stream.
Mut_LastTurn(st) == IF queue[st] = <<>> THEN NoTurn ELSE queue[st][Len(queue[st])]

\* currentTurn: an event belongs to the oldest live turn of its stream.
currentTurn(st) == IF queue[st] = <<>> THEN NoTurn ELSE Head(queue[st])

-----------------------------------------------------------------------------
(* Closing.  closeOnce: the first caller marks the session closed, takes a *)
(* snapshot of the turns, cancels the context, closes both connections and *)
(* finishes the turns; every other caller waits until that is done.        *)

\* Mutant: close does not cancel the session's context.
Mut_CloseNoCancel ==
    /\ closer.at = "no"
    /\ closed' = TRUE /\ UNCHANGED cancelled
    /\ closer' = [at |-> "run",
                  todo |-> UNION {{queue[st][i] : i \in DOMAIN queue[st]} : st \in Streams}]

CloseSection ==
    /\ closer.at = "no"
    /\ closed' = TRUE /\ cancelled' = TRUE
    /\ closer' = [at |-> "run",
                  todo |-> UNION {{queue[st][i] : i \in DOMAIN queue[st]} : st \in Streams}]

\* A caller of close: starts it, or finds it started.
Close == CloseSection \/ (closer.at # "no" /\ UNCHANGED <<closed, cancelled, closer>>)

CloseFinishes(t) ==
    /\ closer.at = "run" /\ t \in closer.todo
    /\ closer' = [closer EXCEPT !.todo = @ \ {t}]
    /\ finishTurn(t)
    /\ UNCHANGED <<pin, closed, cancelled, made, named, running, reader, up,
                   bridge, idle, others, wire, sent>>

CloseReturns ==
    /\ closer = [at |-> "run", todo |-> {}]
    /\ closer' = [closer EXCEPT !.at = "done"]
    /\ UNCHANGED <<sessionVars, reader, up, bridge, idle, outerVars>>

\* CloseAll, CloseAccount.
CloseFromHub ==
    /\ CloseSection
    /\ UNCHANGED <<pin, turnVars, reader, up, bridge, idle, outerVars>>

\* The 55 minutes of the session's context end, or the client's request does.
LifetimeEnds ==
    /\ ~cancelled
    /\ cancelled' = TRUE
    /\ UNCHANGED <<pin, closed, turnVars, goVars, outerVars>>

\* monitorIdle reads pending, then compares clocks, then closes: a request
\* can arrive in between.
IdleDecides ==
    /\ idle = "watch" /\ ~cancelled /\ pending = 0
    /\ idle' = "fire"
    /\ UNCHANGED <<sessionVars, reader, up, bridge, closer, outerVars>>

IdleCloses ==
    /\ idle = "fire"
    /\ idle' = "off"
    /\ Close
    /\ UNCHANGED <<pin, turnVars, reader, up, bridge, outerVars>>

IdleEnds ==
    /\ idle = "watch" /\ cancelled
    /\ idle' = "off"
    /\ UNCHANGED <<sessionVars, reader, up, bridge, closer, outerVars>>

-----------------------------------------------------------------------------
(* The client reader.                                                      *)

ReaderTo(place) == reader' = [reader EXCEPT !.at = place]

\* A request is answered with an error: its body is released.
Reject ==
    /\ reader' = IdleReader
    /\ bodies' = bodies - 1

\* readClient receives a well-formed response.create message.
ClientSends(st, prev) ==
    /\ reader.at = "read" /\ ~cancelled /\ made < MaxTurns
    /\ reader' = [IdleReader EXCEPT !.at = "route", !.stream = st, !.prev = prev,
                                    !.body = TRUE]
    /\ bodies' = bodies + 1
    /\ UNCHANGED <<sessionVars, workerVars, accountTurns, storeVars>>

\* The client leaves, a timer fires, or a message cannot be read or buffered.
ReadFails ==
    /\ reader.at = "read"
    /\ ReaderTo("exit")
    /\ UNCHANGED <<sessionVars, workerVars, outerVars>>

\* resolveRoute, first section: pinned and the account's id ...
ResolveReads ==
    /\ reader.at = "route"
    /\ reader' = [reader EXCEPT !.at = "resolve",
                     !.account = IF pin.pinned THEN pin.account ELSE NoAccount]
    /\ UNCHANGED <<sessionVars, workerVars, outerVars>>

\* ... and after the store's answer the account is written back.
ResolveWrites ==
    /\ reader.at = "resolve"
    /\ pin' = IF reader.account # NoAccount
                THEN [pin EXCEPT !.account = reader.account] ELSE pin
    /\ reader' = [reader EXCEPT !.at = "pin"]
    /\ UNCHANGED <<closed, cancelled, turnVars, workerVars, outerVars>>

\* The store or AllowAPIKeyRequest refuses; a revoked key closes the session.
RouteRefused ==
    /\ reader.at = "resolve"
    /\ \/ Reject
       \/ reader' = [IdleReader EXCEPT !.at = "closing"] /\ bodies' = bodies - 1
    /\ UNCHANGED <<sessionVars, workerVars, accountTurns, storeVars>>

\* close called by the reader inside handleRequest, which then returns false.
ReaderCloses ==
    /\ reader.at = "closing"
    /\ Close
    /\ ReaderTo("exit")
    /\ UNCHANGED <<pin, turnVars, up, bridge, idle, outerVars>>

\* ensurePinned on a pinned session: refused during a failover; a native
\* session whose model changes is closed.
AlreadyPinned ==
    /\ reader.at = "pin" /\ pin.pinned
    /\ \/ /\ ~pin.switching
          /\ ReaderTo("validate")
          /\ UNCHANGED bodies
       \/ pin.switching /\ Reject
       \/ /\ ~pin.switching /\ pin.native
          /\ reader' = [IdleReader EXCEPT !.at = "closing"] /\ bodies' = bodies - 1
    /\ UNCHANGED <<sessionVars, workerVars, accountTurns, storeVars>>

\* initialAccount: a continuation goes to the account of its response, any
\* other request to an account routing chooses; either may be refused.
InitialAccount ==
    /\ reader.at = "pin" /\ ~pin.pinned
    /\ \/ \E a \in Accounts :
            /\ reader.prev = NoResponse \/ reader.prev \in {r \in Responses : binding[r] = a}
            /\ reader' = [reader EXCEPT !.at = "dial", !.account = a, !.attempted = {a}]
            /\ UNCHANGED bodies
       \/ Reject
    /\ UNCHANGED <<sessionVars, workerVars, accountTurns, storeVars>>

Native(a) == a \in Codex /\ ~ForceHTTPBridge

\* pinAccount
PinTo(a, isNative) ==
    pin' = [pinned |-> TRUE, native |-> isNative, switching |-> pin.switching,
            account |-> a, upstream |-> IF isNative THEN a ELSE NoAccount]

\* The account is bridged (or the request carries Subpool's own compaction
\* state): pinned without an upstream connection.
PinBridge ==
    /\ reader.at = "dial"
    /\ ~Native(reader.account) \/ reader.attempted = {reader.account}
    /\ IF closed
         THEN Reject /\ UNCHANGED pin
         ELSE /\ PinTo(reader.account, FALSE)
              /\ reader' = [reader EXCEPT !.at = "validate", !.first = TRUE,
                                          !.failover = (reader.prev = NoResponse)]
              /\ UNCHANGED bodies
    /\ UNCHANGED <<closed, cancelled, turnVars, workerVars, accountTurns,
                   storeVars>>

\* dialCodex succeeds and pinAccount runs.
DialSucceeds ==
    /\ reader.at = "dial" /\ Native(reader.account) /\ ~cancelled
    /\ IF closed
         THEN Reject /\ UNCHANGED pin
         ELSE PinTo(reader.account, TRUE) /\ ReaderTo("worker") /\ UNCHANGED bodies
    /\ UNCHANGED <<closed, cancelled, turnVars, workerVars, accountTurns,
                   storeVars>>

\* startWorker(readUpstream); a session closed since then refuses.
StartUpstreamReader ==
    /\ reader.at = "worker"
    /\ IF closed
         THEN Reject /\ UNCHANGED up
         ELSE /\ up' = [IdleUp EXCEPT !.at = "read"]
              /\ ReaderTo("validate")
              /\ UNCHANGED bodies
    /\ UNCHANGED <<sessionVars, bridge, closer, idle, accountTurns, storeVars>>

\* dialCodex fails: another account if the failure can be retried, the
\* request is no continuation and attempts are left; an error otherwise.
DialFails ==
    /\ reader.at = "dial" /\ Native(reader.account)
    /\ \/ /\ reader.prev = NoResponse
          /\ Cardinality(reader.attempted) < MaxProviderAttempts
          /\ \E a \in Accounts \ reader.attempted :
               reader' = [reader EXCEPT !.account = a, !.attempted = @ \cup {a}]
          /\ UNCHANGED bodies
       \/ Reject
    /\ UNCHANGED <<sessionVars, workerVars, accountTurns, storeVars>>

\* validateContinuation: a response of this session, or one whose stored
\* binding is the session's account.
ContinuationValid ==
    reader.prev \in {NoResponse} \cup remembered
                      \cup {r \in Responses : binding[r] = pin.account}

validateContinuation ==
    /\ reader.at = "validate"
    /\ \/ ContinuationValid /\ ReaderTo("prepare") /\ UNCHANGED bodies
       \/ ~(reader.prev \in remembered \cup {NoResponse}) /\ Reject
    /\ UNCHANGED <<sessionVars, workerVars, accountTurns, storeVars>>

\* preparePayload: a native payload carries the device identity of the
\* account it was normalised for; normalisation may fail.
preparePayload ==
    /\ reader.at = "prepare"
    /\ \/ /\ reader' = [reader EXCEPT !.at = "reserve",
                           !.identity = IF pin.native THEN pin.account ELSE NoAccount]
          /\ UNCHANGED bodies
       \/ Reject
    /\ UNCHANGED <<sessionVars, workerVars, accountTurns, storeVars>>

\* reserveTurn, first section with its checks, and the account's turn.
TurnAdmissible ==
    /\ ~closed /\ ~pin.switching
    /\ pending < MaxTurnsPerConnection
    /\ reader.stream = DefaultStream \/ reader.stream \in named
          \/ Cardinality(named) < MaxNamedStreams

\* Mutant: the turn is appended without looking at closed again.
Mut_ReserveAgain == ~pin.switching

\* reserveTurn, second section: what has to hold still.
StillAdmissible == ~closed /\ ~pin.switching

ReserveAccountTurn ==
    /\ reader.at = "reserve"
    /\ IF TurnAdmissible /\ HasTurnCapacity(pin.account)
         THEN /\ accountTurns' = Reserved(accountTurns, pin.account)
              /\ reader' = [reader EXCEPT !.at = "append", !.account = pin.account]
              /\ UNCHANGED bodies
         ELSE Reject /\ UNCHANGED accountTurns
    /\ UNCHANGED <<sessionVars, workerVars, storeVars>>

\* reserveTurn, second section: the turn is appended under its stream, for
\* the account id read in the first section.
AppendTurn ==
    /\ reader.at = "append"
    /\ LET t == made + 1 IN
       IF StillAdmissible
       THEN /\ made' = t
            /\ turns' = [turns EXCEPT ![t] = Turn(reader.stream, reader.account, reader.prev)]
            /\ queue' = [queue EXCEPT ![reader.stream] = Append(@, t)]
            /\ named' = IF reader.stream = DefaultStream THEN named
                                                         ELSE named \cup {reader.stream}
            /\ pending' = pending + 1
            /\ reader' = [reader EXCEPT !.at = "dispatch", !.body = FALSE]
            /\ UNCHANGED <<bodies, accountTurns>>
       ELSE /\ Reject
            /\ accountTurns' = Released(accountTurns, reader.account)
            /\ UNCHANGED <<made, turns, queue, named, pending>>
    /\ UNCHANGED <<pin, closed, cancelled, running, remembered, workerVars,
                   storeVars>>

\* A native turn is written to the upstream of the moment.
WriteUpstream ==
    /\ reader.at = "dispatch" /\ pin.native /\ ~cancelled
    /\ wire' = [wire EXCEPT ![reader.stream] = Append(@, made)]
    /\ Sends(made, pin.upstream, reader.identity)
    /\ reader' = IdleReader
    /\ UNCHANGED <<sessionVars, workerVars, accountTurns, others, bodies,
                   binding>>

\* The write fails: the turn is finished and the session closed.
WriteUpstreamFails ==
    /\ reader.at = "dispatch" /\ pin.native
    /\ finishTurn(made)
    /\ reader' = [IdleReader EXCEPT !.at = "closing"]
    /\ UNCHANGED <<pin, closed, cancelled, made, named, running, workerVars,
                   others, wire, sent>>

\* startBridge: one worker per stream; a session closed by now starts none.
StartBridge(st, initial) ==
    IF closed \/ running[st]
    THEN UNCHANGED <<running, bridge>>
    ELSE /\ running' = [running EXCEPT ![st] = TRUE]
         /\ bridge' = [bridge EXCEPT ![st] = [at |-> "loop", turn |-> NoTurn,
                                              initial |-> initial]]

DispatchBridge ==
    /\ reader.at = "dispatch" /\ ~pin.native
    /\ IF reader.first
         THEN /\ reader' = [reader EXCEPT !.at = "attempt", !.attempted = {pin.account}]
              /\ UNCHANGED <<running, bridge>>
         ELSE /\ StartBridge(reader.stream, FALSE)
              /\ reader' = IdleReader
    /\ UNCHANGED <<pin, closed, cancelled, turns, made, queue, named, pending,
                   remembered, up, closer, idle, outerVars>>

\* openInitialBridge: one attempt on the pinned account.  It answers, or it
\* fails: for good (failed, the pin kept or reset) or safely for another try.
AttemptAnswers ==
    /\ reader.at = "attempt" /\ ~cancelled
    /\ Sends(made, pin.account, NoAccount)
    /\ StartBridge(reader.stream, TRUE)
    /\ reader' = IdleReader
    /\ UNCHANGED <<pin, closed, cancelled, turns, made, queue, named, pending,
                   remembered, up, closer, idle, accountTurns, others, bodies,
                   binding, wire>>

AttemptFails ==
    /\ reader.at = "attempt"
    /\ Sends(made, pin.account, NoAccount)
    /\ \/ ~reader.failover /\ reader' = [reader EXCEPT !.at = "failed", !.reset = FALSE]
       \/ /\ reader.failover
          /\ \E reset \in BOOLEAN :
               reader' = [reader EXCEPT !.at = "failed", !.reset = reset]
       \/ reader.failover /\ ReaderTo("move")
    /\ UNCHANGED <<sessionVars, workerVars, accountTurns, others, bodies,
                   binding, wire>>

\* The next account's turn is reserved; ReassignAPIKey may find none, and an
\* account without capacity is passed over.
MoveBridge ==
    /\ reader.at = "move"
    /\ \/ /\ Cardinality(reader.attempted) < MaxProviderAttempts
          /\ \E a \in Accounts \ reader.attempted :
               IF HasTurnCapacity(a)
               THEN /\ accountTurns' = Reserved(accountTurns, a)
                    /\ reader' = [reader EXCEPT !.at = "transfer", !.account = a,
                                                !.attempted = @ \cup {a}]
               ELSE /\ reader' = [reader EXCEPT !.attempted = @ \cup {a}]
                    /\ UNCHANGED accountTurns
       \/ reader' = [reader EXCEPT !.at = "failed", !.reset = TRUE]
            /\ UNCHANGED accountTurns
    /\ UNCHANGED <<sessionVars, workerVars, storeVars, bodies>>

\* Mutant: a failed transfer keeps the turn it reserved on the next account.
Mut_TransferKeeps(a) == accountTurns

\* What a transfer that is refused gives back.
TransferRefused(a) == Released(accountTurns, a)

\* transferBridgeAccount
TransferBridge ==
    /\ reader.at = "transfer"
    /\ IF closed \/ turns[made].finished
         THEN /\ accountTurns' = TransferRefused(reader.account)
              /\ ReaderTo("move")
              /\ UNCHANGED <<pin, turns>>
         ELSE /\ pin' = [pin EXCEPT !.account = reader.account]
              /\ turns' = [turns EXCEPT ![made].account = reader.account]
              /\ accountTurns' = Released(accountTurns, turns[made].account)
              /\ ReaderTo("attempt")
    /\ UNCHANGED <<closed, cancelled, made, queue, named, running, pending,
                   remembered, workerVars, storeVars, bodies>>

\* startInitialBridge without an answer: error, finishTurn, resetBridgePin.
InitialBridgeFails ==
    /\ reader.at = "failed"
    /\ finishTurn(made)
    /\ pin' = IF reader.reset /\ ~closed /\ pending' = 0
                THEN [pin EXCEPT !.pinned = FALSE, !.account = NoAccount] ELSE pin
    /\ reader' = IdleReader
    /\ UNCHANGED <<closed, cancelled, made, named, running, workerVars, others,
                   wire, sent>>

\* Handle's deferred function: close, workers.Wait, then the session is done.
ReaderExits ==
    /\ reader.at = "exit"
    /\ Close
    /\ ReaderTo("wait")
    /\ UNCHANGED <<pin, turnVars, up, bridge, idle, outerVars>>

WorkersEnded == /\ up.at = "off" /\ idle = "off"
                /\ \A st \in Streams : bridge[st].at = "off"

ReaderDone ==
    /\ reader.at = "wait" /\ closer.at = "done" /\ WorkersEnded
    /\ ReaderTo("done")
    /\ UNCHANGED <<sessionVars, workerVars, outerVars>>

-----------------------------------------------------------------------------
(* The upstream reader of a native session.                                *)

UpTo(place) == up' = [up EXCEPT !.at = place]

\* An event of the oldest request the upstream has not answered on a stream;
\* the session attributes it to the stream's first turn.
UpstreamEvent(st, event) ==
    /\ up.at = "read" /\ ~cancelled /\ wire[st] # <<>>
    /\ up' = [IdleUp EXCEPT !.at = IF event = "limit" THEN "limit" ELSE "observe",
                            !.turn = currentTurn(st), !.of = Head(wire[st]),
                            !.event = event]
    /\ wire' = IF event = "delta" THEN wire ELSE [wire EXCEPT ![st] = Tail(@)]
    /\ UNCHANGED <<sessionVars, nativeVars, accountTurns, others, bodies,
                   binding, sent>>

\* The connection drops, or the session's context is done.
UpstreamReadFails ==
    /\ up.at = "read"
    /\ UpTo("closing")
    /\ UNCHANGED <<sessionVars, nativeVars, outerVars>>

\* Mutant: a continuation is moved to another account like any other turn.
Mut_RetryContinuation(t) ==
    t # NoTurn /\ ~turns[t].finished /\ ~turns[t].forwarded /\ pending = 1

\* retryNativeLimitedTurn: only the single pending turn, of no continuation,
\* of which the client has seen nothing.
RetrySafe(t) ==
    /\ t # NoTurn /\ ~turns[t].finished
    /\ turns[t].prev = NoResponse /\ ~turns[t].forwarded
    /\ pending = 1

LimitReceived ==
    /\ up.at = "limit"
    /\ pin' = [pin EXCEPT !.switching = TRUE]
    /\ LET safe == ~pin.switching /\ RetrySafe(up.turn) IN
       \/ up' = [up EXCEPT !.at = "observe"]
       \/ /\ safe
          /\ \E a \in Accounts \ {pin.account} :
               up' = [up EXCEPT !.at = "redial", !.account = a,
                                !.attempted = {pin.account, a}]
    /\ UNCHANGED <<closed, cancelled, turnVars, nativeVars, outerVars>>

\* A replacement is dialled, its payload normalised and its turn reserved.
RedialSucceeds ==
    /\ up.at = "redial" /\ up.account \in Codex /\ ~cancelled
    /\ HasTurnCapacity(up.account)
    /\ accountTurns' = Reserved(accountTurns, up.account)
    /\ UpTo("transfer")
    /\ UNCHANGED <<sessionVars, nativeVars, storeVars, bodies>>

\* The dial, the normalisation or the reservation fails: the next account,
\* or none is left and the limit reaches the client.
RedialFails ==
    /\ up.at = "redial"
    /\ \/ /\ up.account \in Codex
          /\ Cardinality(up.attempted) < MaxProviderAttempts
          /\ \E a \in Accounts \ up.attempted :
               up' = [up EXCEPT !.account = a, !.attempted = @ \cup {a}]
       \/ UpTo("observe")
    /\ UNCHANGED <<sessionVars, nativeVars, outerVars>>

\* transferNativeAccount: everything is checked again under the lock.
TransferNative ==
    /\ up.at = "transfer"
    /\ IF closed \/ turns[up.turn].finished \/ turns[up.turn].forwarded \/ pending # 1
         THEN /\ accountTurns' = TransferRefused(up.account)
              /\ UpTo("observe")
              /\ UNCHANGED <<pin, turns, wire>>
         ELSE /\ pin' = [pin EXCEPT !.account = up.account, !.upstream = up.account]
              /\ turns' = [turns EXCEPT ![up.turn].account = up.account]
              /\ accountTurns' = Released(accountTurns, turns[up.turn].account)
              /\ wire' = [st \in Streams |-> <<>>]
              /\ UpTo("rewrite")
    /\ UNCHANGED <<closed, cancelled, made, queue, named, running, pending,
                   remembered, nativeVars, others, bodies, binding, sent>>

\* The turn is written to the replacement; finishNativeSwitch.
Rewrite ==
    /\ up.at = "rewrite" /\ ~cancelled
    /\ Sends(up.turn, up.account, up.account)
    /\ wire' = [wire EXCEPT ![turns[up.turn].stream] = Append(@, up.turn)]
    /\ pin' = [pin EXCEPT !.switching = FALSE]
    /\ UpTo("read")
    /\ UNCHANGED <<closed, cancelled, turnVars, nativeVars, accountTurns,
                   others, bodies, binding>>

RewriteFails ==
    /\ up.at = "rewrite"
    /\ UpTo("closing")
    /\ UNCHANGED <<sessionVars, nativeVars, outerVars>>

Terminal(event) == CASE event = "delta" -> "none"
                     [] event = "completed" -> "completed"
                     [] OTHER -> "failed"

ObserveUpstream ==
    /\ up.at = "observe"
    /\ observeTurn(up.turn, Terminal(up.event), TRUE)
    /\ UpTo("forward")
    /\ UNCHANGED <<pin, closed, cancelled, made, queue, named, running,
                   pending, nativeVars, outerVars>>

\* The event is written to the client; a terminal one finishes the turn; a
\* limit that was not retried closes the session.
ForwardUpstream ==
    /\ up.at = "forward"
    /\ \/ /\ up.event = "delta"
          /\ UNCHANGED <<turns, queue, pending, bodies, accountTurns, remembered,
                   binding>>
       \/ up.event # "delta" /\ finishTurn(up.turn)
    /\ UpTo(IF up.event = "limit" THEN "closing" ELSE "read")
    /\ UNCHANGED <<pin, closed, cancelled, made, named, running, nativeVars,
                   others, wire, sent>>

ForwardUpstreamFails ==
    /\ up.at = "forward"
    /\ UpTo("closing")
    /\ UNCHANGED <<sessionVars, nativeVars, outerVars>>

\* The upstream reader calls close and, once it has run, ends.
UpstreamCloses ==
    /\ up.at = "closing" /\ closer.at = "no"
    /\ CloseSection
    /\ UNCHANGED <<pin, turnVars, reader, up, bridge, idle, outerVars>>

UpstreamEnds ==
    /\ up.at = "closing" /\ closer.at = "done"
    /\ up' = IdleUp
    /\ UNCHANGED <<sessionVars, nativeVars, outerVars>>

-----------------------------------------------------------------------------
(* The bridge workers.                                                     *)

BridgeTo(st, place) == bridge' = [bridge EXCEPT ![st].at = place]

\* Mutant: bridgeRunning stays set when the worker finds no turn.
Mut_StopKeepsFlag(st) == UNCHANGED running

\* The flag is cleared in the section that found the queue empty.
StopBridge(st) == running' = [running EXCEPT ![st] = FALSE]

\* runBridge takes the stream's first turn, or stops.
BridgeNext(st) ==
    /\ bridge[st].at = "loop"
    /\ IF queue[st] = <<>>
         THEN /\ StopBridge(st)
              /\ bridge' = [bridge EXCEPT ![st] = [at |-> "off", turn |-> NoTurn,
                                                   initial |-> FALSE]]
         ELSE /\ bridge' = [bridge EXCEPT ![st] =
                    [at |-> IF bridge[st].initial THEN "stream" ELSE "route",
                     turn |-> Head(queue[st]), initial |-> FALSE]]
              /\ UNCHANGED running
    /\ UNCHANGED <<pin, closed, cancelled, turns, made, queue, named, pending,
                   remembered, reader, up, closer, idle, outerVars>>

\* runBridgeTurn: resolveRoute and one attempt, answered or not.
BridgeAttempts(st) ==
    /\ bridge[st].at = "route"
    /\ \/ /\ ~cancelled
          /\ Sends(bridge[st].turn, pin.account, NoAccount)
          /\ BridgeTo(st, "stream")
       \/ /\ Sends(bridge[st].turn, pin.account, NoAccount) \/ UNCHANGED sent
          /\ BridgeTo(st, "finish")
    /\ UNCHANGED <<sessionVars, reader, up, closer, idle, accountTurns, others,
                   bodies, binding, wire>>

\* An event of the response stream is observed and forwarded.  A synthetic
\* compaction response (noSession) has no id to remember.
BridgeEvent(st, event, bound) ==
    /\ bridge[st].at = "stream" /\ ~cancelled
    /\ observeTurn(bridge[st].turn, Terminal(event), bound)
    /\ UNCHANGED <<pin, closed, cancelled, made, queue, named, running,
                   pending, goVars, outerVars>>

\* The client cannot be told its credits: the worker closes the session.
BridgeClientGone(st) ==
    /\ bridge[st].at = "stream"
    /\ Close
    /\ BridgeTo(st, "closing")
    /\ UNCHANGED <<pin, turnVars, reader, up, idle, outerVars>>

BridgeClosed(st) ==
    /\ bridge[st].at = "closing" /\ closer.at = "done"
    /\ BridgeTo(st, "finish")
    /\ UNCHANGED <<sessionVars, reader, up, closer, idle, outerVars>>

\* The stream ends, with or without a terminal event, or breaks off, or was
\* an error.
BridgeStreamEnds(st) ==
    /\ bridge[st].at = "stream"
    /\ BridgeTo(st, "finish")
    /\ UNCHANGED <<sessionVars, reader, up, closer, idle, outerVars>>

\* finishTurn, then the next turn unless the context is done.
BridgeFinishes(st) ==
    /\ bridge[st].at = "finish"
    /\ finishTurn(bridge[st].turn)
    /\ bridge' = [bridge EXCEPT ![st] = [at |-> IF cancelled THEN "off" ELSE "loop",
                                         turn |-> NoTurn, initial |-> FALSE]]
    /\ UNCHANGED <<pin, closed, cancelled, made, named, running, reader, up,
                   closer, idle, others, wire, sent>>

-----------------------------------------------------------------------------
\* What handleRequest does, from the message read to the turn dispatched.
HandleRequest ==
    \/ ResolveReads \/ ResolveWrites \/ RouteRefused \/ ReaderCloses
    \/ AlreadyPinned \/ InitialAccount \/ PinBridge \/ DialSucceeds
    \/ StartUpstreamReader \/ DialFails \/ validateContinuation \/ preparePayload
    \/ ReserveAccountTurn \/ AppendTurn \/ WriteUpstream \/ WriteUpstreamFails
    \/ DispatchBridge \/ AttemptAnswers \/ AttemptFails \/ MoveBridge
    \/ TransferBridge \/ InitialBridgeFails

\* readUpstream's steps that wait for nobody.
UpstreamReader ==
    \/ UpstreamReadFails \/ LimitReceived \/ RedialSucceeds \/ RedialFails
    \/ TransferNative \/ Rewrite \/ RewriteFails \/ ObserveUpstream
    \/ ForwardUpstream \/ ForwardUpstreamFails \/ UpstreamCloses \/ UpstreamEnds

BridgeWorker(st) ==
    \/ BridgeNext(st) \/ BridgeAttempts(st) \/ BridgeStreamEnds(st)
    \/ BridgeClientGone(st) \/ BridgeClosed(st) \/ BridgeFinishes(st)

Next ==
    \/ \E st \in Streams, prev \in AnyResponse : ClientSends(st, prev)
    \/ ReadFails \/ HandleRequest \/ ReaderExits \/ ReaderDone
    \/ \E st \in Streams, e \in {"delta", "completed", "failed", "limit"} :
          UpstreamEvent(st, e)
    \/ UpstreamReader
    \/ \E st \in Streams : BridgeWorker(st)
    \/ \E st \in Streams, e \in {"delta", "completed", "failed"}, b \in BOOLEAN :
          BridgeEvent(st, e, b)
    \/ \E t \in Turns : CloseFinishes(t)
    \/ CloseReturns \/ CloseFromHub \/ LifetimeEnds
    \/ IdleDecides \/ IdleCloses \/ IdleEnds
    \/ \E a \in Accounts : OtherReserves(a) \/ OtherReleases(a)

\* Once the session's context is done no call of a goroutine blocks: dials,
\* writes, reads and attempts all take that context.  Before that nothing is
\* assumed of the client, of the upstream or of the store.
Fairness ==
    /\ WF_vars(cancelled /\ (HandleRequest \/ ReadFails))
    /\ WF_vars(ReaderExits) /\ WF_vars(ReaderDone)
    /\ WF_vars(cancelled /\ UpstreamReader)
    /\ \A st \in Streams : WF_vars(cancelled /\ BridgeWorker(st))
    /\ WF_vars(\E t \in Turns : CloseFinishes(t)) /\ WF_vars(CloseReturns)
    /\ WF_vars(IdleCloses) /\ WF_vars(IdleEnds)

Spec == Init /\ [][Next]_vars
FairSpec == Spec /\ Fairness

-----------------------------------------------------------------------------
(***************************************************************************)
(* Properties.                                                             *)
(***************************************************************************)

One(b) == IF b THEN 1 ELSE 0

\* The turns of account a that this session has reserved and not released:
\* its live turns, the one reserveTurn has not appended yet, and the one a
\* failover holds on the next account before the transfer.
HeldOn(a) ==
    Cardinality({t \in Live : turns[t].account = a})
      + One(reader.at \in {"append", "transfer"} /\ reader.account = a)
      + One(up.at = "transfer" /\ up.account = a)

\* Hub.accountTurns is exact through every failover, refusal and close: the
\* turns this session holds and those of the other sessions, no more than the
\* limit.  releaseAccountTurn stops at zero and so would hide an error.
AccountTurnsExact ==
    \A a \in Accounts :
        /\ accountTurns[a] = others[a] + HeldOn(a)
        /\ accountTurns[a] <= MaxTurnsPerAccount

\* session.pending counts the live turns, every one of which is in its
\* stream's queue once, and never exceeds the limit of a connection.
PendingExact ==
    /\ pending = Cardinality(Live)
    /\ pending <= MaxTurnsPerConnection
    /\ \A st \in Streams :
         /\ \A i, j \in DOMAIN queue[st] : i # j => queue[st][i] # queue[st][j]
         /\ {queue[st][i] : i \in DOMAIN queue[st]} = {t \in Live : turns[t].stream = st}

\* Every request body that was read is released once: it belongs to a live
\* turn, or to the request the reader is handling.
BodiesReleased == bodies = Cardinality(Live) + One(reader.body)

\* The three with the places of the goroutines: who can be where, and with what.
SessionInv ==
    /\ TypeOK
    /\ AccountTurnsExact /\ PendingExact /\ BodiesReleased
    /\ \A t \in Live : t <= made /\ turns[t].account \in Accounts
    /\ pin.pinned => pin.account \in Accounts
    /\ pin.native => pin.pinned /\ pin.upstream \in Accounts
    /\ up.at # "off" => pin.native
    /\ up.at = "transfer" => up.account \in Accounts /\ up.turn # NoTurn
    /\ reader.at \in {"append", "transfer"} => reader.account \in Accounts
    /\ reader.at \in {"validate", "prepare", "reserve", "append", "dispatch",
                      "attempt", "move", "transfer", "failed"} => pin.pinned
    /\ reader.body <=> reader.at \in {"route", "resolve", "pin", "dial", "worker",
                                      "validate", "prepare", "reserve", "append"}
    /\ reader.at \in {"dispatch", "attempt", "move", "transfer", "failed"} => made > 0
    /\ \A st \in Streams : bridge[st].at # "off" => running[st] /\ ~pin.native
    /\ closed <=> closer.at # "no"
    /\ closed => cancelled
    /\ closer.at = "done" => closer.todo = {} /\ Live = {}
    /\ closer.at = "run" => Live \subseteq closer.todo

\* When Handle's deferred function has waited for the workers nothing of the
\* session is left: no turn, no body, no turn reserved on an account.
NothingLeaksAtDone ==
    reader.at = "done" =>
        /\ Live = {} /\ pending = 0 /\ bodies = 0
        /\ accountTurns = others

\* A turn is sent a second time only if the client has seen none of its
\* output and it continues no response.
NoReplayAfterOutput ==
    \A s \in sent : s.again => ~s.seen /\ s.prev = NoResponse

\* An upstream event is attributed to the turn that caused it, across
\* failovers and interleaved streams, while the session is open.
EventAttribution ==
    up.at \in {"limit", "redial", "transfer", "rewrite", "observe", "forward"}
        => up.turn = up.of \/ closed

\* A turn of an open bridged session is attended: by a worker on its stream,
\* or by the reader that is about to start one or to fail it.
NoStrandedTurn ==
    ~pin.native /\ ~cancelled =>
        \A t \in Live :
            \/ bridge[turns[t].stream].at # "off"
            \/ t = made /\ reader.at \in {"dispatch", "attempt", "move",
                                          "transfer", "failed"}

\* A session that was closed, or whose context ended, comes to its end.
SessionEnds == (closed \/ cancelled) ~> (reader.at = "done")

\* close, the upstream reader, the bridge worker and the client reader may all
\* finish a turn: each body is given back once, and a session that is done
\* holds neither bodies nor turns of an account.
NothingLeaks == BodiesReleased /\ NothingLeaksAtDone

\* docs/mixed-provider-pools.md: "Continuation requests never change their
\* bound account."
ContinuationStaysOnAccount ==
    \A s \in sent : s.prev # NoResponse /\ binding[s.prev] # NoAccount
                        => binding[s.prev] = s.account
=============================================================================
