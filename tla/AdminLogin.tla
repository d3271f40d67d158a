----------------------------- MODULE AdminLogin ------------------------------
(***************************************************************************)
(* Sign-in to the console (auth/admin.go, store/runtime.go).  Attempts     *)
(* from one address share a failure counter with all others from it and    *)
(* one with those for the same user name.  An attempt locks both scopes in *)
(* sorted order, "credential:..." before "ip:...", and decides and records *)
(* under the locks, with the time at which it arrived.                     *)
(***************************************************************************)
EXTENDS Naturals, Sequences

CONSTANTS
    Attempts,        \* sign-in requests, of any replica
    Users,           \* user names tried from the one address
    Address,         \* scope of the address
    NoAttempt,
    FailureLimit,    \* adminFailureLimit
    Window,          \* length of a failure window
    MaxClock         \* bound on time

ASSUME AdminLoginAssumption ==
    /\ Address \notin Users /\ NoAttempt \notin Attempts
    /\ FailureLimit \in Nat \ {0} /\ Window \in Nat \ {0} /\ MaxClock \in Nat

VARIABLES
    failures,     \* admin_login_failures, reset = 0 when there is no row
    scopeLock,    \* holder of the advisory lock of a scope
    attempt,      \* progress, user, credentials valid, arrival, scopes locked; "in" with its session
    clock

loginVars == <<failures, scopeLock, attempt, clock>>

Scopes == Users \cup {Address}
NoRow == [count |-> 0, reset |-> 0]
Ended(at) == [at |-> at, user |-> Address, valid |-> FALSE, now |-> 0, locked |-> 0]

LoginTypeOK ==
    /\ failures \in [Scopes -> [count : Nat, reset : 0..(MaxClock + Window)]]
    /\ scopeLock \in [Scopes -> Attempts \cup {NoAttempt}]
    /\ attempt \in [Attempts -> [at : {"new", "lock", "decide", "session", "in", "out"}, user : Scopes,
                                 valid : BOOLEAN, now : 0..MaxClock, locked : 0..2]]
    /\ clock \in 0..MaxClock

LoginInit ==
    /\ failures = [s \in Scopes |-> NoRow]
    /\ scopeLock = [s \in Scopes |-> NoAttempt]
    /\ attempt = [a \in Attempts |-> Ended("new")]
    /\ clock = 0

ScopeKeys(a) == <<attempt[a].user, Address>>

\* Commit and rollback release the advisory locks.
ReleaseScopes(a) == scopeLock' = [s \in Scopes |-> IF scopeLock[s] = a THEN NoAttempt ELSE scopeLock[s]]
-----------------------------------------------------------------------------
\* Authenticate: the time is read before any lock is waited for.
Authenticate(a) ==
    /\ attempt[a].at = "new"
    /\ \E u \in Users, valid \in BOOLEAN :
         attempt' = [attempt EXCEPT ![a] = [at |-> "lock", user |-> u, valid |-> valid, now |-> clock, locked |-> 0]]
    /\ UNCHANGED <<failures, scopeLock, clock>>

Blocked(s, now) == now < failures[s].reset /\ failures[s].count >= FailureLimit

\* Mutant: the scope is read without its lock.
Mut_ReadUnlocked(a) ==
    LET s == ScopeKeys(a)[attempt[a].locked + 1] IN
    /\ attempt[a].at = "lock"
    /\ attempt' = [attempt EXCEPT ![a].at = IF Blocked(s, attempt[a].now) THEN "out"
                                            ELSE IF attempt[a].locked = 1 THEN "decide" ELSE "lock",
                                  ![a].locked = @ + 1]
    /\ UNCHANGED <<failures, scopeLock, clock>>

\* Mutant: only the counter of the user name is looked at.
Mut_OneScopeChecked(a) ==
    LET s == ScopeKeys(a)[attempt[a].locked + 1] IN
    /\ attempt[a].at = "lock" /\ scopeLock[s] = NoAttempt
    /\ IF s # Address /\ Blocked(s, attempt[a].now)
       THEN ReleaseScopes(a) /\ attempt' = [attempt EXCEPT ![a] = Ended("out")]
       ELSE /\ scopeLock' = [scopeLock EXCEPT ![s] = a]
            /\ attempt' = [attempt EXCEPT ![a].at = IF attempt[a].locked = 1 THEN "decide" ELSE @, ![a].locked = @ + 1]
    /\ UNCHANGED <<failures, clock>>

\* One turn of the loop of RecordAdminLoginAttempt: lock, read, and give up
\* when the scope is blocked.
LockAdminLoginScope(a) ==
    LET s == ScopeKeys(a)[attempt[a].locked + 1] IN
    /\ attempt[a].at = "lock" /\ scopeLock[s] = NoAttempt
    /\ IF Blocked(s, attempt[a].now)
       THEN ReleaseScopes(a) /\ attempt' = [attempt EXCEPT ![a] = Ended("out")]
       ELSE /\ scopeLock' = [scopeLock EXCEPT ![s] = a]
            /\ attempt' = [attempt EXCEPT ![a].at = IF attempt[a].locked = 1 THEN "decide" ELSE @, ![a].locked = @ + 1]
    /\ UNCHANGED <<failures, clock>>

\* RecordAdminLoginFailure: a window that has ended starts again.
CountFailure(row, now) ==
    IF row.reset <= now THEN [count |-> 1, reset |-> now + Window]
    ELSE [row EXCEPT !.count = @ + 1]

\* The credentials decide: the counters are cleared, or both are advanced.
RecordAdminLoginAttempt(a) ==
    /\ attempt[a].at = "decide"
    /\ failures' = [s \in Scopes |->
         IF s \notin {attempt[a].user, Address} THEN failures[s]
         ELSE IF attempt[a].valid THEN NoRow ELSE CountFailure(failures[s], attempt[a].now)]
    /\ ReleaseScopes(a)
    /\ attempt' = [attempt EXCEPT ![a] = Ended(IF attempt[a].valid THEN "session" ELSE "out")]
    /\ UNCHANGED clock

\* A statement fails or the client goes away: nothing is recorded.
AttemptFails(a) ==
    /\ attempt[a].at \in {"lock", "decide", "session"}
    /\ ReleaseScopes(a)
    /\ attempt' = [attempt EXCEPT ![a] = Ended("out")]
    /\ UNCHANGED <<failures, clock>>

CreateAdminSession(a) ==
    /\ attempt[a].at = "session"
    /\ attempt' = [attempt EXCEPT ![a] = Ended("in")]
    /\ UNCHANGED <<failures, scopeLock, clock>>

\* logout, and the end of the session's life.
Revoke(a) ==
    /\ attempt[a].at = "in"
    /\ attempt' = [attempt EXCEPT ![a] = Ended("out")]
    /\ UNCHANGED <<failures, scopeLock, clock>>

LoginTick ==
    /\ clock < MaxClock
    /\ clock' = clock + 1
    /\ UNCHANGED <<failures, scopeLock, attempt>>

AttemptStep(a) == Authenticate(a) \/ LockAdminLoginScope(a) \/ RecordAdminLoginAttempt(a) \/ CreateAdminSession(a)

LoginNext == LoginTick \/ \E a \in Attempts : AttemptStep(a) \/ AttemptFails(a) \/ Revoke(a)

\* A lock that is free is granted to some waiter, and no attempt comes back.
LoginFairness == \A a \in Attempts : WF_loginVars(AttemptStep(a))

LoginSpec == LoginInit /\ [][LoginNext]_loginVars /\ LoginFairness
-----------------------------------------------------------------------------
(* Properties.                                                              *)

\* However many attempts arrive together, at whatever replicas and however long
\* they wait, a window of a scope counts no failure beyond the limit.
FailuresBounded == \A s \in Scopes : failures[s].count <= FailureLimit

\* No attempt is let in while either counter blocks it: what it read of the
\* first scope still holds when it has waited for the second.
NoLoginWhileBlocked ==
    [][\A a \in Attempts : attempt[a].at # "session" /\ attempt'[a].at = "session"
         => \A s \in {attempt[a].user, Address} : ~Blocked(s, attempt[a].now)]_loginVars

\* Every attempt is answered: refused and failed ones leave no lock behind.
LoginsAnswered == <>[](\A a \in Attempts : attempt[a].at \in {"new", "in", "out"})

\* Attempts that arrive at once are counted one by one: no window outlives the
\* last arrival by more than its length or counts beyond the limit.
LoginSafe == LoginTypeOK /\ FailuresBounded
=============================================================================
