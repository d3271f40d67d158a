------------------------------- MODULE Gateway -------------------------------
(***************************************************************************)
(* One HTTP request of the gateway (gateway/server.go, gateway/proxy.go):  *)
(* the route of its key is read, a preferred account may be chosen, the    *)
(* request is sent, sent again with refreshed credentials or moved to      *)
(* another account, and what the answer says is recorded: which account    *)
(* serves the conversation, the tokens, the account's request.  Requests   *)
(* of one key run concurrently and each of them may move the binding of    *)
(* the key.  An assignment is one step here (module Assignments).          *)
(***************************************************************************)
EXTENDS Naturals, FiniteSets

CONSTANTS
    Requests, Clients,        \* requests and the API keys that send them
    Upstreams,                \* accounts of the pool
    Subscriptions,            \* those with a Codex subscription
    Antigravity,              \* those with an Antigravity one; the others have an API key
    Answers,                  \* response ids
    Nothing,
    MaxProviderAttempts, StoreTries,
    Trouble                   \* bound: changes of accounts, statements that fail

ASSUME GatewayAssumption ==
    /\ Subscriptions \subseteq Upstreams /\ Antigravity \subseteq Upstreams \ Subscriptions
    /\ Nothing \notin Upstreams \cup Answers
    /\ MaxProviderAttempts \in Nat \ {0} /\ StoreTries \in Nat \ {0}

VARIABLES
    condition,   \* of an account: "up", "blocked" by its quota, "down", or "barred" from the pool
    bound,       \* api_key_account_bindings
    request,        \* the requests
    owner,       \* the account that really produced a response
    session,     \* session_bindings
    hashes,      \* usage_event_dedup: the responses whose usage event was inserted
    counted,     \* usage: response, and how often its tokens were added
    chargedTo,      \* provider_request_events: the account a response is charged to
    trouble

gatewayVars == <<condition, bound, request, owner, session, hashes, counted, chargedTo, trouble>>
recordVars == <<session, hashes, counted, chargedTo>>

Conditions == {"up", "blocked", "down", "barred"}

NewCall == [at |-> "new", kind |-> "responses", key |-> Nothing, cont |-> Nothing, member |-> TRUE,
            acc |-> Nothing, seen |-> "up", tried |-> {}, n |-> 0,
            resp |-> Nothing, tries |-> 0, again |-> FALSE]

GatewayPlaces == {"new", "route", "quota", "check", "send", "answer", "refresh", "move",
           "session", "usage", "record", "done"}

RequestStates == [at : GatewayPlaces, kind : {"responses", "chat", "image"}, key : Clients \cup {Nothing},
               cont : Answers \cup {Nothing}, member : BOOLEAN, acc : Upstreams \cup {Nothing},
               seen : Conditions, tried : SUBSET Upstreams, n : 0..MaxProviderAttempts,
               resp : Answers \cup {Nothing}, tries : 0..StoreTries, again : BOOLEAN]

GatewayTypeOK ==
    /\ condition \in [Upstreams -> Conditions]
    /\ bound \in [Clients -> Upstreams]
    /\ request \in [Requests -> RequestStates]
    /\ owner \in [Answers -> Upstreams \cup {Nothing}]
    /\ session \in [Answers -> Upstreams \cup {Nothing}]
    /\ hashes \subseteq Answers
    /\ counted \in [Answers -> Nat] /\ chargedTo \in [Answers -> Upstreams \cup {Nothing}]

GatewayInit ==
    /\ condition = [a \in Upstreams |-> "up"]
    /\ bound \in [Clients -> Upstreams]
    /\ request = [q \in Requests |-> NewCall]
    /\ owner = [r \in Answers |-> Nothing] /\ session = [r \in Answers |-> Nothing]
    /\ hashes = {} /\ counted = [r \in Answers |-> 0] /\ chargedTo = [r \in Answers |-> Nothing]
    /\ trouble = 0
-----------------------------------------------------------------------------
Healthy(c) == c = "up"
Selectable(excluded) == {a \in Upstreams \ excluded : condition[a] \in {"up", "blocked"}}

CallGoes(q, c) == request' = [request EXCEPT ![q] = c]
Done(q) == CallGoes(q, [NewCall EXCEPT !.at = "done"])
Take(c, a, at) == [c EXCEPT !.acc = a, !.seen = condition[a], !.at = at]

\* ReassignAPIKey: the binding and the account the request goes on with; it
\* fails when no account is left or has room.
Reassign(q, c, excluded, at) ==
    \E a \in Selectable(excluded) :
        /\ bound' = [bound EXCEPT ![c.key] = a]
        /\ CallGoes(q, Take(c, a, at))

\* ResolveAPIKey: the bound account as it is now, and whether it still
\* belongs to the pool.
ResolveAPIKey(k) ==
    Take([NewCall EXCEPT !.key = k, !.member = condition[bound[k]] # "barred"], bound[k], "route")

\* ResolveSessionAccount: the account of a response while it is in the pool.
ResolveSessionAccount(r) ==
    IF session[r] = Nothing \/ condition[session[r]] = "barred" THEN Nothing ELSE session[r]

\* authorize, and the request's body.
Authorize(q, k, kind, cont) ==
    /\ request[q] = NewCall
    /\ cont # Nothing => kind = "responses" /\ owner[cont] # Nothing
    /\ CallGoes(q, [ResolveAPIKey(k) EXCEPT !.kind = kind, !.cont = cont])
    /\ UNCHANGED <<condition, bound, owner, recordVars, trouble>>

\* A continuation goes to the account of its session; an API-key account is
\* left for a preferred one.
Route(q) ==
    LET c == request[q] IN
    /\ c.at = "route"
    /\ IF c.cont # Nothing
       THEN /\ UNCHANGED bound
            /\ IF ResolveSessionAccount(c.cont) = Nothing THEN Done(q)
               ELSE CallGoes(q, Take(c, ResolveSessionAccount(c.cont), "check"))
       ELSE \/ c.kind # "image" /\ c.acc \notin Subscriptions \cup Antigravity /\ Reassign(q, c, {}, "quota")
            \/ UNCHANGED bound /\ CallGoes(q, [c EXCEPT !.at = "quota"])
    /\ UNCHANGED <<condition, owner, recordVars, trouble>>

\* PreferQuotaAccount starts from the binding as it is now.
PreferQuota(q) ==
    LET c == request[q] IN
    /\ c.at = "quota"
    /\ \/ /\ c.kind # "image" /\ c.member /\ c.acc \in Subscriptions /\ Healthy(c.seen)
          /\ \E a \in {bound[c.key]} \cup (Subscriptions \cap Selectable({})) :
               /\ bound' = [bound EXCEPT ![c.key] = a]
               /\ CallGoes(q, Take(c, a, "check"))
       \/ UNCHANGED bound /\ CallGoes(q, [c EXCEPT !.at = "check"])
    /\ UNCHANGED <<condition, owner, recordVars, trouble>>

Check(q) ==
    LET c == request[q] IN
    /\ c.at = "check"
    /\ IF (c.cont # Nothing \/ c.member) /\ Healthy(c.seen)
       THEN UNCHANGED bound /\ CallGoes(q, [c EXCEPT !.at = "send", !.member = TRUE])
       ELSE \/ UNCHANGED bound /\ Done(q)
            \/ c.cont = Nothing /\ Reassign(q, [c EXCEPT !.tried = {c.acc}, !.member = TRUE], {c.acc}, "send")
    /\ UNCHANGED <<condition, owner, recordVars, trouble>>

\* attemptAccount up to the answer.  An image needs a Codex subscription and an
\* unreadable credential a different account; neither reaches the provider.
\* Antigravity's credential is refreshed first in the last minute of its life.
AttemptAccount(q) ==
    LET c == [request[q] EXCEPT !.n = request[q].n + 1, !.tried = request[q].tried \cup {request[q].acc},
                            !.again = FALSE, !.seen = "up"] IN
    /\ request[q].at = "send"
    /\ IF c.kind = "image" /\ c.acc \notin Subscriptions
       THEN CallGoes(q, [c EXCEPT !.at = "move"])
       ELSE \/ CallGoes(q, [c EXCEPT !.at = "answer"])
            \/ c.acc \in Antigravity /\ CallGoes(q, [c EXCEPT !.at = "refresh"])
    /\ UNCHANGED <<condition, bound, owner, recordVars, trouble>>

\* The status of the account is written with the answer that calls for it;
\* a failed write is ignored.
MarkDown(a) ==
    \/ UNCHANGED condition
    \/ condition' = [condition EXCEPT ![a] = IF @ = "barred" THEN @ ELSE "down"]

\* The provider gives every response an id of its own.
NewAnswer == CHOOSE r \in Answers : owner[r] = Nothing

\* evaluateResponse and evaluateProviderError: an answer, an error for the
\* client (or a timeout: the provider may have done the work), or a reason to
\* try another account.
EvaluateResponse(q) ==
    LET c == request[q] IN
    /\ c.at = "answer"
    /\ \/ /\ \E r \in Answers : owner[r] = Nothing
          /\ owner' = [owner EXCEPT ![NewAnswer] = c.acc]
          /\ CallGoes(q, [c EXCEPT !.resp = NewAnswer, !.n = 0, !.tried = {}, !.again = FALSE,
                              !.at = IF c.kind = "responses" THEN "session" ELSE "usage"])
          /\ UNCHANGED condition
       \/ Done(q) /\ UNCHANGED <<condition, owner>>
       \/ CallGoes(q, [c EXCEPT !.at = "move"]) /\ MarkDown(c.acc) /\ UNCHANGED owner
       \/ /\ ~c.again /\ c.acc \in Subscriptions \cup Antigravity
          /\ CallGoes(q, [c EXCEPT !.at = "refresh"]) /\ UNCHANGED <<condition, owner>>
    /\ UNCHANGED <<bound, recordVars, trouble>>

\* retryRefreshedAccount: once, on the same account.
Refresh(q) ==
    LET c == request[q] IN
    /\ c.at = "refresh"
    /\ \/ CallGoes(q, [c EXCEPT !.at = "answer", !.again = TRUE]) /\ UNCHANGED condition
       \/ CallGoes(q, [c EXCEPT !.at = "move"]) /\ MarkDown(c.acc)
    /\ UNCHANGED <<bound, owner, recordVars, trouble>>

\* Mutant: a continuation moves like any other request.
Mut_ContinuationMoves(q) ==
    LET c == request[q] IN
    /\ c.at = "move"
    /\ \/ UNCHANGED bound /\ Done(q)
       \/ c.n < MaxProviderAttempts /\ Reassign(q, c, c.tried, "send")
    /\ UNCHANGED <<condition, owner, recordVars, trouble>>

\* The rest of the loop of call.
Failover(q) ==
    LET c == request[q] IN
    /\ c.at = "move"
    /\ \/ UNCHANGED bound /\ Done(q)
       \/ /\ c.cont = Nothing /\ c.n < MaxProviderAttempts
          /\ Reassign(q, c, c.tried, "send")
    /\ UNCHANGED <<condition, owner, recordVars, trouble>>
-----------------------------------------------------------------------------
(* What is recorded of an answer.  Each write is tried StoreTries times: it *)
(* succeeds, fails, or is committed and its reply is lost.                  *)

After(q, at) == IF at = "done" THEN Done(q) ELSE CallGoes(q, [request[q] EXCEPT !.at = at, !.tries = 0])

Try(q, at, next, written) ==
    LET c == request[q]
        last == c.tries + 1 = StoreTries
        Again == IF last THEN After(q, next) ELSE CallGoes(q, [c EXCEPT !.tries = c.tries + 1])
    IN
    /\ c.at = at
    /\ \/ written /\ After(q, next) /\ UNCHANGED trouble
       \/ trouble < Trouble /\ trouble' = trouble + 1 /\ Again /\ (written \/ UNCHANGED recordVars)

\* The account a response is recorded for, kept with the response.
AnsweredBy(q) == request[q].acc

\* SaveSessionBinding: the first account keeps the response, and is recorded
\* as the one that served the request.
SaveBinding(q) ==
    LET r == request[q].resp IN
    /\ session' = [session EXCEPT ![r] = IF @ = Nothing THEN AnsweredBy(q) ELSE @]
    /\ chargedTo' = [chargedTo EXCEPT ![r] = IF @ = Nothing THEN AnsweredBy(q) ELSE @]
    /\ UNCHANGED <<hashes, counted>>

SaveSession(q) == Try(q, "session", "usage", SaveBinding(q)) /\ UNCHANGED <<condition, bound, owner>>

\* AddUsage: one transaction inserts the hash of the response's usage event and
\* adds the tokens, unless the hash was there.  An error before the commit rolls
\* both back, and no reader sees one without the other.
CountTokens(q) ==
    LET r == request[q].resp IN
    \/ r \in hashes /\ UNCHANGED recordVars
    \/ /\ r \notin hashes /\ hashes' = hashes \cup {r}
       /\ counted' = [counted EXCEPT ![r] = @ + 1]
       /\ UNCHANGED <<session, chargedTo>>

AddUsage(q) == Try(q, "usage", "record", CountTokens(q)) /\ UNCHANGED <<condition, bound, owner>>

ChargeAccount(q) ==
    LET r == request[q].resp IN
    /\ chargedTo' = [chargedTo EXCEPT ![r] = IF @ = Nothing THEN AnsweredBy(q) ELSE @]
    /\ UNCHANGED <<session, hashes, counted>>

RecordProviderRequest(q) == Try(q, "record", "done", ChargeAccount(q)) /\ UNCHANGED <<condition, bound, owner>>

\* A limit reported in the stream, or a client that goes away before the id
\* or the tokens have been seen.
StreamEnds(q) ==
    /\ request[q].at \in {"session", "usage"} /\ request[q].tries = 0
    /\ Done(q) /\ MarkDown(request[q].acc)
    /\ UNCHANGED <<bound, owner, recordVars, trouble>>

\* Checks, reports and the administrator change accounts at any time.
ConditionChanges(a, c) ==
    /\ trouble < Trouble /\ trouble' = trouble + 1
    /\ condition[a] # c
    /\ condition' = [condition EXCEPT ![a] = c]
    /\ UNCHANGED <<bound, request, owner, recordVars>>

CallStep(q) ==
    \/ Route(q) \/ PreferQuota(q) \/ Check(q) \/ AttemptAccount(q) \/ EvaluateResponse(q) \/ Refresh(q) \/ Failover(q)
    \/ SaveSession(q) \/ AddUsage(q) \/ RecordProviderRequest(q) \/ StreamEnds(q)

GatewayNext ==
    \/ \E q \in Requests :
         \/ CallStep(q)
         \/ \E k \in Clients, kind \in {"responses", "chat", "image"}, r \in Answers \cup {Nothing} :
              Authorize(q, k, kind, r)
    \/ \E a \in Upstreams, c \in Conditions : ConditionChanges(a, c)

GatewaySpec == GatewayInit /\ [][GatewayNext]_gatewayVars
-----------------------------------------------------------------------------
(* Properties.                                                              *)

\* A continuation is only ever sent to the account that produced the response
\* it continues, however often the key has been moved meanwhile.
ContinuationPinned ==
    \A q \in Requests :
        request[q].cont # Nothing /\ request[q].at = "answer" => request[q].acc = owner[request[q].cont]

\* A response is bound and charged to the account that produced it, also when
\* another request of the key has moved the key before it was recorded.
RecordedForItsAccount ==
    \A r \in Answers : session[r] \in {Nothing, owner[r]} /\ chargedTo[r] \in {Nothing, owner[r]}

\* The tokens of a response are added at most once, also when the reply of a
\* committed write is lost and the write is repeated, and its usage event is
\* never on record without them: what counts the calls of a key and what counts
\* its tokens agree.
TokensCountedOnce == \A r \in Answers : counted[r] = IF r \in hashes THEN 1 ELSE 0

\* A request never goes back to an account it has failed on, whatever other
\* requests did to the binding of its key, so that its failover ends.
NoAccountTriedTwice == \A q \in Requests : request[q].at = "send" => request[q].acc \notin request[q].tried

\* Whatever other requests of the key do meanwhile: a continuation stays with
\* its account, what is recorded names the account that answered, tokens are
\* counted once, and failover never goes back.
GatewaySafe ==
    /\ GatewayTypeOK /\ ContinuationPinned /\ RecordedForItsAccount
    /\ TokensCountedOnce /\ NoAccountTriedTwice
=============================================================================
