-------------------------- MODULE CredentialRefresh --------------------------
(***************************************************************************)
(* The refresh of one account's OAuth credential (credential/refresher.go).*)
(* A request that was refused with the version it had read takes the lock  *)
(* of the account in its process, reads the credential again, refreshes it *)
(* at the provider unless somebody already has, and writes it with a       *)
(* compare-and-swap on the version.  The lock is of one process only; the  *)
(* provider may accept a refresh token once and hand out its successor.    *)
(***************************************************************************)
EXTENDS Naturals

CONSTANTS
    Refreshers,     \* requests
    Processes,      \* replicas of the program
    NoRefresher,
    MaxRefreshes,   \* bound: refreshes asked for
    MaxLost         \* bound: answers and new credentials that are lost

ASSUME RefreshAssumption == NoRefresher \notin Refreshers

VARIABLES
    stored,      \* row: credential_version, the refresh token in it, and the status
    live,        \* the refresh token the provider accepts
    rotates,     \* whether the provider replaces it
    process,     \* where a request runs
    mutex,       \* RefreshManager.locks of each process
    refresh,     \* the requests
    asked,
    lost

refreshVars == <<stored, live, rotates, process, mutex, refresh, asked, lost>>
worldVars == <<rotates, process>>

NoRefresh == [at |-> "idle", seen |-> 0, version |-> 0, token |-> 0]

RefreshInit ==
    /\ stored = [version |-> 1, token |-> 1, status |-> "active"]
    /\ live = 1 /\ rotates \in BOOLEAN
    /\ process \in [Refreshers -> Processes]
    /\ mutex = [p \in Processes |-> NoRefresher]
    /\ refresh = [w \in Refreshers |-> NoRefresh]
    /\ asked = 0 /\ lost = 0

To(w, f) == refresh' = [refresh EXCEPT ![w] = f]
\* The lock is held until RefreshAccount returns.
Return(w, f) == /\ To(w, f)
                /\ mutex' = [mutex EXCEPT ![process[w]] = NoRefresher]
-----------------------------------------------------------------------------
\* A request reads the account; the provider refuses its access token later.
Refused(w) ==
    /\ refresh[w].at = "idle" /\ asked < MaxRefreshes
    /\ asked' = asked + 1
    /\ \E v \in 1..stored.version : To(w, [at |-> "lock", seen |-> v, version |-> 0, token |-> 0])
    /\ UNCHANGED <<stored, live, worldVars, mutex, lost>>

\* Mutant: requests of one process do not wait for each other.
Mut_NoLock(w) ==
    /\ refresh[w].at = "lock"
    /\ mutex' = [mutex EXCEPT ![process[w]] = w]
    /\ To(w, [refresh[w] EXCEPT !.at = "read"])
    /\ UNCHANGED <<stored, live, worldVars, asked, lost>>

Lock(w) ==
    /\ refresh[w].at = "lock" /\ mutex[process[w]] = NoRefresher
    /\ mutex' = [mutex EXCEPT ![process[w]] = w]
    /\ To(w, [refresh[w] EXCEPT !.at = "read"])
    /\ UNCHANGED <<stored, live, worldVars, asked, lost>>

\* A newer credential is returned as it is.
ReadAccount(w) ==
    /\ refresh[w].at = "read"
    /\ IF stored.version > refresh[w].seen THEN Return(w, NoRefresh)
       ELSE /\ To(w, [refresh[w] EXCEPT !.at = "provider", !.version = stored.version, !.token = stored.token])
            /\ UNCHANGED mutex
    /\ UNCHANGED <<stored, live, worldVars, asked, lost>>

\* refreshCredentials: without a new token in the answer the old one is kept.
RefreshCredentials(f) == [f EXCEPT !.at = "write", !.token = IF rotates THEN live + 1 ELSE @]

\* The provider refuses a token it has replaced.
AskProvider(w) ==
    LET f == refresh[w] IN
    /\ f.at = "provider"
    /\ IF f.token = live
       THEN To(w, RefreshCredentials(f)) /\ live' = IF rotates THEN live + 1 ELSE live
       ELSE UNCHANGED live /\ To(w, [f EXCEPT !.at = "denied"])
    /\ UNCHANGED <<stored, worldVars, mutex, asked, lost>>

\* The client goes away, the answer times out, or the write is not carried
\* out: the provider may already have replaced the token.
LoseAnswer(w) ==
    LET f == refresh[w] IN
    /\ f.at \in {"provider", "write"} /\ lost < MaxLost
    /\ lost' = lost + 1
    /\ live' = IF f.at = "provider" /\ f.token = live /\ rotates THEN live + 1 ELSE live
    /\ To(w, [f EXCEPT !.at = "failed"])
    /\ UNCHANGED <<stored, worldVars, mutex, asked>>

\* Mutant: the credential is written whatever the version is.
Mut_WriteAlways(w) ==
    LET f == refresh[w] IN
    /\ f.at = "write"
    /\ stored' = [version |-> f.version + 1, token |-> f.token, status |-> "active"]
    /\ Return(w, NoRefresh)
    /\ UNCHANGED <<live, worldVars, asked, lost>>

\* The row as UpdateProviderCredentialCAS leaves it: the account is active again.
CredentialAfterCAS(f) ==
    IF stored.version = f.version THEN [version |-> f.version + 1, token |-> f.token, status |-> "active"] ELSE stored

\* Without an update the account is read once more.
WriteCredential(w) ==
    LET f == refresh[w] IN
    /\ f.at = "write"
    /\ stored' = CredentialAfterCAS(f)
    /\ IF stored.version = f.version THEN Return(w, NoRefresh)
       ELSE To(w, [f EXCEPT !.at = "reread"]) /\ UNCHANGED mutex
    /\ UNCHANGED <<live, worldVars, asked, lost>>

\* The write is carried out and its answer does not arrive.
WriteUnanswered(w) ==
    /\ refresh[w].at = "write"
    /\ stored' = CredentialAfterCAS(refresh[w])
    /\ To(w, [refresh[w] EXCEPT !.at = "failed"])
    /\ UNCHANGED <<live, worldVars, mutex, asked, lost>>

\* The account cannot be read, before the refresh or after a write that
\* updated nothing.
AccountUnread(w) ==
    /\ refresh[w].at \in {"read", "reread"}
    /\ To(w, [refresh[w] EXCEPT !.at = "failed"])
    /\ UNCHANGED <<stored, live, worldVars, mutex, asked, lost>>

Reread(w) ==
    /\ refresh[w].at = "reread"
    /\ Return(w, NoRefresh)
    /\ UNCHANGED <<stored, live, worldVars, asked, lost>>

\* recordRefreshFailure, after the lock has been given back.
GiveUp(w) ==
    /\ refresh[w].at \in {"denied", "failed"} /\ mutex[process[w]] = w
    /\ mutex' = [mutex EXCEPT ![process[w]] = NoRefresher]
    /\ UNCHANGED <<stored, live, worldVars, refresh, asked, lost>>

\* An error of the status write is ignored.
RecordRefreshFailure(w) ==
    /\ refresh[w].at \in {"denied", "failed"} /\ mutex[process[w]] # w
    /\ \/ stored' = [stored EXCEPT !.status = IF refresh[w].at = "denied" THEN "auth_failed" ELSE "cooling_down"]
       \/ UNCHANGED stored
    /\ To(w, NoRefresh)
    /\ UNCHANGED <<live, worldVars, mutex, asked, lost>>

RefreshStep(w) ==
    \/ Lock(w) \/ ReadAccount(w) \/ AskProvider(w) \/ LoseAnswer(w) \/ WriteCredential(w)
    \/ WriteUnanswered(w) \/ Reread(w) \/ AccountUnread(w) \/ GiveUp(w) \/ RecordRefreshFailure(w)

RefreshNext == \E w \in Refreshers : Refused(w) \/ RefreshStep(w)

RefreshSpec == RefreshInit /\ [][RefreshNext]_refreshVars
-----------------------------------------------------------------------------
(* Properties.                                                              *)

\* The stored credential only moves forward, and one version is one
\* credential, whichever replicas refresh it at the same time.
CredentialOnlyAdvances ==
    [][stored' # stored =>
         \/ stored'.version = stored.version /\ stored'.token = stored.token
         \/ stored'.version = stored.version + 1 /\ stored'.token >= stored.token]_refreshVars

\* Unless an answer or a new credential was lost, the stored token is the one the
\* provider accepts, or the request that holds its successor is about to
\* write it.
CredentialNotLost ==
    lost = 0 => \/ stored.token = live
                \/ \E w \in Refreshers : refresh[w].at = "write" /\ refresh[w].token = live

\* In one process a refresh that nothing interrupts never ends with an account
\* marked as unauthorized: no request presents a token that another one of the
\* process has already spent.
NoFalseAuthFailure ==
    lost = 0 /\ (\A v, w \in Refreshers : process[v] = process[w]) => stored.status # "auth_failed"

\* Unless something is lost on the way the account can go on: its credential is
\* the provider's or about to be, and one process does not condemn it.
CredentialUsable == CredentialNotLost /\ NoFalseAuthFailure
=============================================================================
