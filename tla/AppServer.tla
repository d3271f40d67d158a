------------------------------ MODULE AppServer ------------------------------
(***************************************************************************)
(* One operation on a Codex account through a `codex app-server` child     *)
(* process (provider/codex/appserver.go).  The operation launches the      *)
(* child in a directory of its own, makes its calls one after the other    *)
(* over the pipes, and closes the session whatever happened.  The child    *)
(* may answer, fail, ask for a token before it answers, talk out of turn,  *)
(* keep silent or die; the context of the operation kills it.              *)
(***************************************************************************)
EXTENDS Naturals, Sequences

CONSTANTS
    RedeemOutcomes,     \* what a redemption may come to
    Limits,       \* the rate limits a child may report
    MaxTries,     \* readings of the credits until their details are there
    MaxPages,     \* pages of a model listing
    MaxNoise      \* bound: messages that answer nothing, and empty answers

ASSUME AppServerAssumption ==
    /\ MaxTries \in Nat \ {0} /\ MaxPages \in Nat \ {0} /\ MaxNoise \in Nat
    /\ RedeemOutcomes \cap {"none", "empty"} = {}     \* these stand for no answer, and none in it

VARIABLES
    job,      \* the operation: kind, progress, what it has gathered, its result
    call,     \* the call in progress; the handshake's runs in a goroutine
    child,    \* "none", "running", "dead", "reaped"
    dir,      \* CODEX_HOME of the child exists
    over,     \* the context of the operation is done
    stdin,    \* requests the child has not read
    stdout,   \* messages the session has not read
    held,     \* the request the child answers once it has its token
    noise,    \* messages sent out of turn
    spent,    \* what became of the redemption at the provider
    total,    \* pages of the provider's model listing
    stray     \* history: the child has given an answer with nothing in it, or
              \* used the number of a call for something that is no answer

appVars == <<job, call, child, dir, over, stdin, stdout, held, noise, spent, total, stray>>
childVars == <<held, noise, spent, total, stray>>

NoWindow == [long |-> FALSE, full |-> FALSE, given |-> FALSE]
NoLimits == [primary |-> NoWindow, secondary |-> NoWindow, reached |-> "no", spend |-> FALSE, given |-> FALSE]
NoUsage == [given |-> FALSE, fiveHour |-> NoWindow, weekly |-> NoWindow, allowed |-> FALSE]
Body == [credits |-> "nil", limits |-> NoLimits, outcome |-> "none", page |-> 0, next |-> 0]
Idle == [at |-> "idle", id |-> 0, method |-> "none", arg |-> 0, body |-> Body]
NoRequest == [id |-> 0, method |-> "none", arg |-> 0]

AppInit ==
    /\ \E k \in {"usage", "credits", "consume", "models"} :
         job = [kind |-> k, at |-> "new", tries |-> 0, outcome |-> "none", pages |-> <<>>,
                credits |-> "nil", limits |-> NoLimits, usage |-> NoUsage, result |-> "none"]
    /\ total \in IF job.kind = "models" THEN 1..(MaxPages + 1) ELSE {1}
    /\ call = Idle /\ child = "none" /\ dir = FALSE /\ over = FALSE
    /\ stdin = <<>> /\ stdout = <<>> /\ held = NoRequest /\ noise = 0 /\ spent = "none" /\ stray = FALSE
-----------------------------------------------------------------------------
(* A call.                                                                  *)

Request(id, method, arg) == call' = [Idle EXCEPT !.at = "send", !.id = id, !.method = method, !.arg = arg]

\* The request is written; the pipe of a child that is gone refuses it.
WriteRequest ==
    /\ call.at = "send"
    /\ IF child = "running"
       THEN /\ stdin' = Append(stdin, [id |-> call.id, method |-> call.method, arg |-> call.arg])
            /\ call' = [call EXCEPT !.at = "wait"]
       ELSE call' = [call EXCEPT !.at = "failed"] /\ UNCHANGED stdin
    /\ UNCHANGED <<job, child, dir, over, stdout, childVars>>

\* One turn of the reading loop: a request for a token is answered, a message
\* with another id is skipped, an error or an unreadable line ends the call,
\* and so does whatever else has the id of the call: that is its answer, and
\* what it does not say stays as it was.
ReadMessage ==
    /\ call.at = "wait" /\ stdout # <<>>
    /\ stdout' = Tail(stdout)
    /\ LET m == Head(stdout) IN
       \/ /\ m.kind = "refresh" /\ child = "running"
          /\ stdin' = Append(stdin, [NoRequest EXCEPT !.method = "token"]) /\ UNCHANGED call
       \/ /\ m.kind = "garbage" \/ (m.kind = "refresh" /\ child # "running") \/ (m.kind = "error" /\ m.id = call.id)
          /\ call' = [call EXCEPT !.at = "failed"] /\ UNCHANGED stdin
       \/ /\ m.kind \notin {"refresh", "garbage"} /\ m.id # call.id
          /\ UNCHANGED <<call, stdin>>
       \/ /\ m.kind \in {"result", "notice"} /\ m.id = call.id
          /\ call' = [call EXCEPT !.at = "ok", !.body = m.body] /\ UNCHANGED stdin
    /\ UNCHANGED <<job, child, dir, over, childVars>>

\* The output of the child has ended before the answer.
OutputEnds ==
    /\ call.at = "wait" /\ stdout = <<>> /\ child \in {"dead", "reaped"}
    /\ call' = [call EXCEPT !.at = "failed"]
    /\ UNCHANGED <<job, child, dir, over, stdin, stdout, childVars>>
-----------------------------------------------------------------------------
(* The operation.                                                           *)

\* launchAppServerProcess; a failure leaves neither a directory nor a child.
Launch ==
    /\ job.at = "new"
    /\ \/ /\ ~over
          /\ child' = "running" /\ dir' = TRUE
          /\ job' = [job EXCEPT !.at = "init"]
          /\ Request(1, "initialize", 0)
       \/ job' = [job EXCEPT !.at = "done", !.result = "error"] /\ UNCHANGED <<child, dir, call>>
    /\ UNCHANGED <<over, stdin, stdout, childVars>>

Finish(j) == job' = [j EXCEPT !.at = "close"] /\ call' = Idle

\* Mutant: an abandoned handshake leaves its session open.
Mut_AbandonOpen ==
    /\ job.at = "init" /\ over
    /\ job' = [job EXCEPT !.at = "done", !.result = "error"]
    /\ UNCHANGED <<call, child, dir, over, stdin, stdout, childVars>>

\* callContext gives the handshake up when the context is done; the goroutine
\* that makes the call is left to itself.
AbandonHandshake ==
    /\ job.at = "init" /\ over
    /\ job' = [job EXCEPT !.at = "close", !.result = "error"]
    /\ UNCHANGED <<call, child, dir, over, stdin, stdout, childVars>>

\* initializeAppServer and startAppServerSession: handshake, then login, then
\* the first call of the operation.
SessionReady ==
    /\ job.at \in {"init", "login"} /\ call.at = "ok"
    /\ IF job.at = "init"
       THEN job' = [job EXCEPT !.at = "login"] /\ Request(2, "login", 0)
       ELSE /\ job' = [job EXCEPT !.at = "op"]
            /\ Request(3, CASE job.kind = "consume" -> "consume" [] job.kind = "models" -> "list" [] OTHER -> "read", 0)
    /\ UNCHANGED <<child, dir, over, stdin, stdout, childVars>>

\* A primary window of a week takes the weekly place; a short secondary one
\* does not.  Usage is blocked by what the provider says, or by a full window.
NormalizeAppServerRateLimits(limits) ==
    LET p == limits.primary s == limits.secondary
        swap == p.given /\ p.long
        week == IF swap THEN p ELSE IF s.given /\ ~s.long THEN NoWindow ELSE s
        five == IF swap THEN s ELSE p
    IN [given |-> limits.given, fiveHour |-> five, weekly |-> week,
        allowed |-> ~(limits.reached = "limit" \/ limits.spend \/ five.full \/ week.full)]

\* readRateLimits: what a reading of the limits gives the operation.
ReadRateLimits(j, body) ==
    [j EXCEPT !.tries = @ + 1, !.credits = body.credits, !.limits = body.limits,
              !.usage = NormalizeAppServerRateLimits(body.limits)]

\* Usage: a reading without usage is an error.
Usage ==
    /\ job.at = "op" /\ job.kind = "usage" /\ call.at = "ok"
    /\ LET j == ReadRateLimits(job, call.body)
       IN Finish([j EXCEPT !.result = IF j.usage.given THEN "ok" ELSE "error"])
    /\ UNCHANGED <<child, dir, over, stdin, stdout, childVars>>

\* readResetCreditDetails: a count without details is read again, with the
\* next id.  After a redemption the details do not decide about the result.
ReadResetCreditDetails ==
    /\ job.at = "op" /\ call.at = "ok"
    /\ job.kind = "credits" \/ (job.kind = "consume" /\ job.outcome # "none")
    /\ LET j == ReadRateLimits(job, call.body)
           nothing == [j EXCEPT !.credits = "nil", !.usage = NoUsage]
       IN IF j.credits # "counted" THEN Finish([j EXCEPT !.result = "ok"])
          ELSE IF j.tries < MaxTries THEN job' = j /\ Request(call.id + 1, "read", 0)
          ELSE Finish([nothing EXCEPT !.result = IF job.kind = "consume" THEN "ok" ELSE "error"])
    /\ UNCHANGED <<child, dir, over, stdin, stdout, childVars>>

\* ConsumeResetCredit: the outcome is kept, an empty one too, and the credits
\* are read.
ConsumeResetCredit ==
    /\ job.at = "op" /\ job.kind = "consume" /\ job.outcome = "none" /\ call.at = "ok"
    /\ job' = [job EXCEPT !.outcome = IF call.body.outcome = "none" THEN "empty" ELSE call.body.outcome]
    /\ Request(4, "read", 0)
    /\ UNCHANGED <<child, dir, over, stdin, stdout, childVars>>

\* ListModels: a page, and the call for the next one if there is one and the
\* limit of pages is not reached.
ListModels ==
    /\ job.at = "op" /\ job.kind = "models" /\ call.at = "ok"
    /\ LET b == call.body j == [job EXCEPT !.pages = Append(@, b.page)]
       IN IF b.next \in {0, call.arg} THEN Finish([j EXCEPT !.result = "ok"])
          ELSE IF Len(j.pages) = MaxPages THEN Finish([j EXCEPT !.result = "error"])
          ELSE job' = j /\ Request(call.id + 1, "list", b.next)
    /\ UNCHANGED <<child, dir, over, stdin, stdout, childVars>>

\* A call failed, and with it the operation, unless the redemption is done.
CallFails ==
    /\ job.at \in {"init", "login", "op"} /\ call.at = "failed"
    /\ Finish(IF job.outcome = "none" THEN [job EXCEPT !.result = "error"]
              ELSE [job EXCEPT !.credits = "nil", !.usage = NoUsage, !.result = "ok"])
    /\ UNCHANGED <<child, dir, over, stdin, stdout, childVars>>

\* close: the pipe is closed and the child killed, then it is waited for and
\* its directory removed.
Close ==
    \/ /\ job.at = "close"
       /\ child' = "dead" /\ stdin' = <<>> /\ job' = [job EXCEPT !.at = "reap"]
       /\ UNCHANGED <<call, dir, over, stdout, childVars>>
    \/ /\ job.at = "reap"
       /\ child' = "reaped" /\ dir' = FALSE /\ job' = [job EXCEPT !.at = "done"]
       /\ UNCHANGED <<call, over, stdin, stdout, childVars>>
-----------------------------------------------------------------------------
(* The child, the provider behind it, and the context.                      *)

ChildSays(kind, id, body) == stdout' = Append(stdout, [kind |-> kind, id |-> id, body |-> body])

\* What the child may answer to a request.
Replies(r) ==
    CASE r.method = "read" -> [credits : {"nil", "zero", "counted", "detailed"}, limits : Limits, outcome : {"none"}, page : {0}, next : {0}]
      [] r.method = "list" -> LET page == IF r.arg = 0 THEN 1 ELSE r.arg
                              IN {[Body EXCEPT !.page = page, !.next = IF page < total THEN page + 1 ELSE n] : n \in {0, r.arg}}
      [] OTHER -> {Body}

\* The child answers a request, or the one it held back for its token.  What
\* was asked may have been done although the answer is an error, or is empty.
Serve ==
    /\ child = "running" /\ stdin # <<>>
    /\ LET r == IF held # NoRequest THEN held ELSE Head(stdin) IN
       /\ IF r.method = "consume" THEN spent' \in RedeemOutcomes ELSE UNCHANGED spent
       /\ \/ /\ \/ \E b \in Replies(r) :
                     ChildSays("result", r.id, IF r.method = "consume" THEN [b EXCEPT !.outcome = spent'] ELSE b)
                \/ ChildSays("error", r.id, Body)
             /\ UNCHANGED <<noise, stray>>
          \/ /\ r.method \in {"consume", "list"} /\ noise < MaxNoise
             /\ ChildSays("result", r.id, Body) /\ noise' = noise + 1 /\ stray' = TRUE
    /\ stdin' = Tail(stdin) /\ held' = NoRequest
    /\ UNCHANGED <<job, call, child, dir, over, total>>

\* Before it answers, the child asks for a token, under a number of its own
\* that may be the one of the call.
AskToken ==
    /\ child = "running" /\ stdin # <<>> /\ held = NoRequest /\ noise < MaxNoise
    /\ held' = Head(stdin) /\ stdin' = Tail(stdin) /\ noise' = noise + 1
    /\ \E id \in {0, Head(stdin).id} : ChildSays("refresh", id, Body)
    /\ UNCHANGED <<job, call, child, dir, over, spent, total, stray>>

\* The child reports something, or asks for something under a number of its own
\* that may be the one of the call, or writes a line that is not JSON.
Babble ==
    /\ child = "running" /\ noise < MaxNoise /\ noise' = noise + 1
    /\ \/ \E id \in {0, call.id} : ChildSays("notice", id, Body) /\ stray' = (stray \/ id # 0)
       \/ ChildSays("garbage", 0, Body) /\ UNCHANGED stray
    /\ UNCHANGED <<job, call, child, dir, over, stdin, held, spent, total>>

ChildDies ==
    /\ child = "running" /\ child' = "dead"
    /\ UNCHANGED <<job, call, dir, over, stdin, stdout, childVars>>

\* The timeout of the caller, or its client is gone.
ContextEnds ==
    /\ ~over /\ job.at # "done" /\ over' = TRUE
    /\ UNCHANGED <<job, call, child, dir, stdin, stdout, childVars>>

\* Mutant: the context only bounds the handshake.
Mut_HandshakeOnly ==
    /\ over /\ child = "running" /\ job.at = "init" /\ child' = "dead"
    /\ UNCHANGED <<job, call, dir, over, stdin, stdout, childVars>>

\* exec.CommandContext kills the child when the context is done.
ContextKills ==
    /\ over /\ child = "running" /\ child' = "dead"
    /\ UNCHANGED <<job, call, dir, over, stdin, stdout, childVars>>
-----------------------------------------------------------------------------
CallStep == WriteRequest \/ ReadMessage \/ OutputEnds
JobStep ==
    \/ Launch \/ AbandonHandshake \/ SessionReady
    \/ Usage \/ ReadResetCreditDetails \/ ConsumeResetCredit \/ ListModels
    \/ CallFails \/ Close

AppNext ==
    \/ CallStep \/ JobStep
    \/ Serve \/ AskToken \/ Babble \/ ChildDies
    \/ ContextEnds \/ ContextKills

\* The child owes nothing; the context ends and the kernel delivers the kill.
AppFairness == /\ WF_appVars(CallStep) /\ WF_appVars(JobStep)
               /\ WF_appVars(ContextEnds) /\ WF_appVars(ContextKills)

AppSpec == AppInit /\ [][AppNext]_appVars /\ AppFairness
-----------------------------------------------------------------------------
(* Properties.                                                              *)

\* Whatever the child and the context did, an operation that has returned has
\* left neither a process nor the directory with the account's token.
NothingLeftBehind == job.at = "done" => child \in {"none", "reaped"} /\ ~dir

\* ConsumeResetCredit reports success exactly when it has read an answer to the
\* redemption, with the outcome the provider gave to it, however the calls
\* after it went and whatever the child said in between.  A message without an
\* outcome in the place of the answer gives none: the operator is then told
\* that the redemption is unconfirmed (control/auto_resets.go:262).
OutcomeReported ==
    job.kind = "consume" /\ job.at = "done" =>
        /\ job.result = "ok" <=> job.outcome # "none"
        /\ job.result = "ok" => job.outcome = spent \/ (stray /\ job.outcome = "empty")

\* A count that came before its details is never handed on, so that it cannot
\* replace the details that are stored.
CreditsAreDetailed ==
    job.kind \in {"credits", "consume"} /\ job.at = "done" /\ job.result = "ok" => job.credits # "counted"

\* A full window that lasts a week, wherever the provider put it, and a full
\* primary window keep the account from being used.
FullWindowBlocks ==
    job.at = "done" /\ job.usage.given /\ (job.limits.primary.full \/ (job.limits.secondary.full /\ job.limits.secondary.long)) =>
        ~job.usage.allowed

\* A model listing that is returned has every page of the provider, once and
\* in order; one that is too long is an error.  A page that came empty, or that
\* another message stood for, is the end of it.
ListIsWhole ==
    job.kind = "models" /\ job.at = "done" /\ job.result = "ok" =>
        \/ job.pages = [i \in 1..total |-> i]
        \/ stray /\ \E n \in 0..total : job.pages = [i \in 1..(n + 1) |-> IF i <= n THEN i ELSE 0]

\* Every operation that has launched its child ends, and so does the goroutine
\* of an abandoned handshake.
OperationEnds == dir ~> (job.at = "done" /\ call.at \notin {"send", "wait"})

\* An operation on a child process leaves nothing behind and answers with what
\* the child said, none of it cut short or dropped.
OperationSafe ==
    /\ NothingLeftBehind /\ OutcomeReported /\ CreditsAreDetailed
    /\ FullWindowBlocks /\ ListIsWhole
=============================================================================
