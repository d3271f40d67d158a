----------------------------- MODULE DeviceLogin -----------------------------
(***************************************************************************)
(* Connecting a subscription from the console (control/device_login.go,    *)
(* the DeviceAuth of the Codex and Copilot providers).  A login is shared  *)
(* by a goroutine that waits for the user's consent, one that saves the    *)
(* account, an expiry timer, the console that polls and cancels, and       *)
(* shutdown.  The first two talk through a channel of one result that is   *)
(* always closed.                                                          *)
(***************************************************************************)
EXTENDS Naturals, FiniteSets

CONSTANTS
    Logins,
    MaxPendingLogins    \* maxPendingDeviceLogin of each provider

ASSUME DeviceLoginAssumption == MaxPendingLogins \in Nat \ {0} /\ IsFiniteSet(Logins)

VARIABLES
    login,       \* per login: provider, progress of Start, of the waiting and of the saving goroutine
    pending,     \* DeviceAuth.pending
    entry,       \* Server.logins: status shown to the console
    finalizing,
    canceled,    \* the context of the attempt is canceled
    toCancel,    \* cancelAuth is about to be called
    saved,       \* the account has been created
    closed       \* DeviceAuth.Close has been called

deviceVars == <<login, pending, entry, finalizing, canceled, toCancel, saved, closed>>
consoleVars == <<entry, finalizing, canceled, toCancel, saved>>

NewLogin == [kind |-> "codex", start |-> "no", wait |-> "no", channel |-> "empty", finish |-> "no"]

DeviceLoginInit ==
    /\ login = [l \in Logins |-> NewLogin]
    /\ pending = {} /\ finalizing = {} /\ canceled = {} /\ toCancel = {} /\ saved = {}
    /\ entry = [l \in Logins |-> "none"]
    /\ closed = FALSE

Set(l, f) == login' = [login EXCEPT ![l] = f]
-----------------------------------------------------------------------------
(* DeviceAuth of the provider.                                              *)

PendingOf(kind) == {l \in pending : login[l].kind = kind}
StartingOf(kind) == {l \in Logins : login[l].kind = kind /\ login[l].start = "starting"}

\* Codex reserves its slot before the process is launched; Copilot only looks.
Start(l, kind) ==
    /\ login[l].start = "no"
    /\ kind = "codex" => ~closed
    /\ Cardinality(PendingOf(kind)) + (IF kind = "codex" THEN Cardinality(StartingOf(kind)) ELSE 0) < MaxPendingLogins
    /\ Set(l, [NewLogin EXCEPT !.kind = kind, !.start = "starting"])
    /\ UNCHANGED <<pending, consoleVars, closed>>

\* The provider has answered: the login becomes pending and is waited for,
\* unless the handshake failed or Copilot's slots were taken meanwhile.
Add(l) ==
    /\ login[l].start = "starting"
    /\ \/ Set(l, [login[l] EXCEPT !.start = "refused"]) /\ UNCHANGED pending
       \/ /\ login[l].kind = "copilot" => Cardinality(PendingOf("copilot")) < MaxPendingLogins
          /\ pending' = pending \cup {l}
          /\ Set(l, [login[l] EXCEPT !.start = "added", !.wait = "waiting"])
    /\ UNCHANGED <<consoleVars, closed>>

\* The user consents or refuses, the provider or the process fails, the time
\* is up, or the session has been closed.
ConsentOutcomes(l) == IF closed \/ l \notin pending THEN {"failed"} ELSE {"granted", "failed"}

Consent(l) ==
    /\ login[l].wait = "waiting"
    /\ \E outcome \in ConsentOutcomes(l) : Set(l, [login[l] EXCEPT !.wait = outcome])
    /\ UNCHANGED <<pending, consoleVars, closed>>

\* The end of wait and poll: the slot is freed, the result is sent if the
\* login was still pending, and the channel is closed.
Deliver(l) ==
    /\ login[l].wait \in {"granted", "failed"}
    /\ pending' = pending \ {l}
    /\ Set(l, [login[l] EXCEPT !.wait = "end", !.channel = IF l \in pending THEN login[l].wait ELSE "closed"])
    /\ UNCHANGED <<consoleVars, closed>>

\* DeviceAuth.Cancel.
CancelAuth(l) ==
    /\ l \in toCancel
    /\ toCancel' = toCancel \ {l}
    /\ pending' = pending \ {l}
    /\ UNCHANGED <<login, entry, finalizing, canceled, saved, closed>>

CloseAuth ==
    /\ ~closed /\ closed' = TRUE
    /\ pending' = {}
    /\ UNCHANGED <<login, consoleVars>>
-----------------------------------------------------------------------------
(* The console's attempts.                                                  *)

\* startDeviceLogin after Start has returned: the attempt, its timer, and the
\* goroutine that will save the account.
Register(l) ==
    /\ login[l].start = "added"
    /\ entry' = [entry EXCEPT ![l] = "pending"]
    /\ Set(l, [login[l] EXCEPT !.start = "returned", !.finish = "receive"])
    /\ UNCHANGED <<pending, finalizing, canceled, toCancel, saved, closed>>

\* beginDeviceLoginFinalization, and the verdict of the provider.
Receive(l) ==
    /\ login[l].finish = "receive" /\ login[l].channel # "empty"
    /\ IF entry[l] # "pending" THEN Set(l, [login[l] EXCEPT !.finish = "end"]) /\ UNCHANGED finalizing
       ELSE /\ finalizing' = finalizing \cup {l}
            /\ Set(l, [login[l] EXCEPT !.finish = IF login[l].channel = "granted" THEN "save" ELSE "denied"])
    /\ UNCHANGED <<pending, entry, canceled, toCancel, saved, closed>>

\* saveCodexAccount and saveCopilotAccount: a check of the account and one
\* insert, whose reply may be lost.  A canceled context ends the goroutine.
SaveOutcomes(l) ==
    {o \in [written : BOOLEAN, next : {"completed", "unsaved", "end"}] :
        (o.next = "completed" => o.written) /\ (o.next = "end" => l \in canceled)}

Save(l) ==
    /\ login[l].finish = "save"
    /\ \E o \in SaveOutcomes(l) :
         /\ saved' = IF o.written THEN saved \cup {l} ELSE saved
         /\ Set(l, [login[l] EXCEPT !.finish = o.next])
    /\ UNCHANGED <<pending, entry, finalizing, canceled, toCancel, closed>>

\* completeDeviceLogin, unless the attempt was canceled.
Complete(l) ==
    /\ login[l].finish \in {"completed", "unsaved", "denied"}
    /\ IF entry[l] = "none" THEN UNCHANGED <<entry, finalizing, canceled>>
       ELSE /\ entry' = [entry EXCEPT ![l] = login[l].finish]
            /\ finalizing' = finalizing \ {l}
            /\ canceled' = canceled \cup {l}
    /\ Set(l, [login[l] EXCEPT !.finish = "end"])
    /\ UNCHANGED <<pending, toCancel, saved, closed>>

\* Mutant: a login that is being saved may expire.
Mut_ExpireFinalizing(l) ==
    /\ entry[l] = "pending"
    /\ entry' = [entry EXCEPT ![l] = "expired"]
    /\ canceled' = canceled \cup {l} /\ toCancel' = toCancel \cup {l}
    /\ UNCHANGED <<login, pending, finalizing, saved, closed>>

\* expireDeviceLogin, by the timer or by a poll of the console.
Expire(l) ==
    /\ entry[l] = "pending" /\ l \notin finalizing
    /\ entry' = [entry EXCEPT ![l] = "expired"]
    /\ canceled' = canceled \cup {l} /\ toCancel' = toCancel \cup {l}
    /\ UNCHANGED <<login, pending, finalizing, saved, closed>>

CancelLogin(l) ==
    /\ entry[l] # "none"
    /\ entry' = [entry EXCEPT ![l] = "none"]
    /\ canceled' = canceled \cup {l} /\ toCancel' = toCancel \cup {l}
    /\ UNCHANGED <<login, pending, finalizing, saved, closed>>

\* scheduleDeviceLoginRemovalLocked: a settled login is kept for a while.
RemoveLogin(l) ==
    /\ entry[l] \notin {"none", "pending"}
    /\ entry' = [entry EXCEPT ![l] = "none"]
    /\ UNCHANGED <<login, pending, finalizing, canceled, toCancel, saved, closed>>
-----------------------------------------------------------------------------
LoginStep(l) ==
    \/ Add(l) \/ Consent(l) \/ Deliver(l) \/ CancelAuth(l) \/ Register(l)
    \/ Receive(l) \/ Save(l) \/ Complete(l) \/ Expire(l) \/ RemoveLogin(l)

DeviceLoginNext ==
    \/ \E l \in Logins :
         \/ \E kind \in {"codex", "copilot"} : Start(l, kind)
         \/ LoginStep(l)
         \/ CancelLogin(l)
    \/ CloseAuth

\* Timers fire, goroutines run, and consent is given or refused within the
\* life of the code.
DeviceLoginFairness == \A l \in Logins : WF_deviceVars(LoginStep(l))

DeviceLoginSpec == DeviceLoginInit /\ [][DeviceLoginNext]_deviceVars /\ DeviceLoginFairness
-----------------------------------------------------------------------------
(* Properties.                                                              *)

\* What the console shows is what happened: an account has been created when
\* the login is completed, and none has been, nor will be, when it expired or
\* was refused, also when consent arrives while the timer fires.
LoginOutcomeTrue ==
    \A l \in Logins : /\ entry[l] = "completed" => l \in saved
                      /\ entry[l] \in {"expired", "denied"} =>
                            l \notin saved /\ login[l].finish \notin {"save", "completed"}

\* The processes and polls of one provider never exceed its slots, although
\* logins start concurrently and a slow handshake holds none of Copilot's.
PendingLoginsBounded ==
    \A kind \in {"codex", "copilot"} :
        Cardinality({l \in Logins : login[l].kind = kind /\ login[l].wait = "waiting" /\ l \in pending}) <= MaxPendingLogins

\* Every login that was started ends: its slot is free, both goroutines are
\* gone and the console has forgotten it, whoever canceled or closed it.
LoginsEnd ==
    <>[](\A l \in Logins : login[l].start \in {"added", "returned"} =>
            l \notin pending /\ login[l].wait = "end" /\ login[l].finish = "end" /\ entry[l] = "none")

\* A device login ends with the outcome that is true, whoever races for it, and
\* the pending ones never exceed their limit.
DeviceLoginSafe == LoginOutcomeTrue /\ PendingLoginsBounded
=============================================================================
