---------------------------- MODULE SignInProofs ----------------------------
(***************************************************************************)
(* Signing in: the limit on failed attempts of an administrator, the       *)
(* authorization of an account at Google, and the login of an account with *)
(* a code on a device.                                                     *)
(***************************************************************************)
EXTENDS AdminLogin, GoogleLogin, DeviceLogin, FiniteSetTheorems, TLAPS
-----------------------------------------------------------------------------
(* Administrators. The limit on failed sign-ins holds for any number of    *)
(* attempts, users and replicas. What an attempt has read of a scope stays *)
(* true while it waits for the next one, because nobody writes a scope     *)
(* without its lock; the arrival time it compares with is its own.         *)

Progress == [at : {"new", "lock", "decide", "session", "in", "out"}, user : Scopes,
             valid : BOOLEAN, now : 0..MaxClock, locked : 0..2]

\* The scope belongs to the attempt, which is not blocked there.
Passed(a, s) == scopeLock[s] = a /\ ~Blocked(s, attempt[a].now)

\* What an attempt holds at each place.
Holds(a) ==
    /\ attempt[a].at = "lock" => attempt[a].locked \in {0, 1} /\ attempt[a].user \in Users
    /\ attempt[a].at = "lock" /\ attempt[a].locked = 1 => Passed(a, attempt[a].user)
    /\ attempt[a].at = "decide" => attempt[a].user \in Users /\ Passed(a, attempt[a].user) /\ Passed(a, Address)

LoginInv == LoginTypeOK /\ FailuresBounded /\ \A a \in Attempts : Holds(a)

\* The step of somebody else, who writes only what he has locked.
LEMMA OthersHold ==
    ASSUME LoginInv, NEW b \in Attempts, attempt'[b] = attempt[b],
           \A s \in Scopes : scopeLock[s] = b => scopeLock'[s] = b /\ failures'[s] = failures[s]
    PROVE  Holds(b)'
<1>1. Holds(b) /\ attempt[b].user \in Scopes /\ Address \in Scopes
  BY DEF LoginInv, LoginTypeOK, Scopes
<1>2. ASSUME NEW s \in Scopes, Passed(b, s) PROVE Passed(b, s)'
  BY <1>2 DEF Passed, Blocked
<1> QED
  BY <1>1, <1>2 DEF Holds

\* Commit and rollback give back the attempt's own scopes.
LEMMA ScopesReleased ==
    ASSUME LoginInv, NEW a \in Attempts, ReleaseScopes(a)
    PROVE  /\ scopeLock' \in [Scopes -> Attempts \cup {NoAttempt}]
           /\ \A b \in Attempts \ {a}, s \in Scopes : scopeLock[s] = b => scopeLock'[s] = b
  BY DEF LoginInv, LoginTypeOK, ReleaseScopes

\* A step that leaves the counters as they are.
LEMMA CountersKept ==
    ASSUME LoginInv, NEW a \in Attempts, UNCHANGED failures, LoginTypeOK',
           \A b \in Attempts \ {a} : attempt'[b] = attempt[b],
           \A b \in Attempts \ {a}, s \in Scopes : scopeLock[s] = b => scopeLock'[s] = b,
           Holds(a)'
    PROVE  LoginInv'
<1>1. ASSUME NEW b \in Attempts \ {a} PROVE Holds(b)'
  BY <1>1, OthersHold
<1>2. FailuresBounded'
  BY DEF LoginInv, FailuresBounded
<1> QED
  BY <1>1, <1>2 DEF LoginInv

\* An attempt that has ended holds nothing.
LEMMA EndedStep ==
    ASSUME LoginInv, NEW a \in Attempts, NEW at \in {"session", "in", "out"},
           attempt' = [attempt EXCEPT ![a] = Ended(at)], ReleaseScopes(a) \/ UNCHANGED scopeLock,
           UNCHANGED <<failures, clock>>
    PROVE  LoginInv'
<1>1. Ended(at) \in Progress /\ Ended(at).at = at
  BY AdminLoginAssumption DEF Ended, Progress, Scopes
<1>2. LoginTypeOK' /\ attempt'[a] = Ended(at) /\ \A b \in Attempts \ {a} : attempt'[b] = attempt[b]
  BY <1>1, ScopesReleased DEF LoginInv, LoginTypeOK, Progress
<1>3. Holds(a)'
  BY <1>1, <1>2 DEF Holds
<1>4. \A b \in Attempts \ {a}, s \in Scopes : scopeLock[s] = b => scopeLock'[s] = b
  BY ScopesReleased
<1> QED
  BY <1>2, <1>3, <1>4, CountersKept

\* Nobody has tried anything.
LEMMA LoginInitially == LoginInit => LoginInv
<1> SUFFICES ASSUME LoginInit PROVE LoginInv
  OBVIOUS
<1>1. Ended("new") \in Progress /\ Ended("new").at = "new"
  BY AdminLoginAssumption DEF Ended, Progress, Scopes
<1>2. LoginTypeOK
  BY <1>1, AdminLoginAssumption DEF LoginInit, LoginTypeOK, NoRow, Progress
<1>3. FailuresBounded
  BY AdminLoginAssumption DEF LoginInit, FailuresBounded, NoRow
<1>4. \A a \in Attempts : Holds(a)
  BY <1>1 DEF LoginInit, Holds
<1> QED
  BY <1>2, <1>3, <1>4 DEF LoginInv

\* An attempt that arrives.
LEMMA AuthenticateStep ==
    ASSUME LoginInv, NEW a \in Attempts, Authenticate(a)
    PROVE  LoginInv'
<1>1. PICK u \in Users, valid \in BOOLEAN :
        attempt' = [attempt EXCEPT ![a] = [at |-> "lock", user |-> u, valid |-> valid, now |-> clock, locked |-> 0]]
  BY DEF Authenticate
<1>2. UNCHANGED <<failures, scopeLock, clock>>
  BY DEF Authenticate
<1>3. LoginTypeOK' /\ attempt'[a] = [at |-> "lock", user |-> u, valid |-> valid, now |-> clock, locked |-> 0]
      /\ \A b \in Attempts \ {a} : attempt'[b] = attempt[b]
  BY <1>1, <1>2 DEF LoginInv, LoginTypeOK, Scopes
<1>4. Holds(a)'
  BY <1>3 DEF Holds
<1> QED
  BY <1>2, <1>3, <1>4, CountersKept

\* A scope is locked and read.
LEMMA LockStep ==
    ASSUME LoginInv, NEW a \in Attempts, LockAdminLoginScope(a)
    PROVE  LoginInv'
<1> DEFINE s == ScopeKeys(a)[attempt[a].locked + 1]
           f == attempt[a]
<1>1. /\ f.at = "lock" /\ f.locked \in {0, 1} /\ f.user \in Users /\ scopeLock[s] = NoAttempt
      /\ UNCHANGED <<failures, clock>>
  BY DEF LockAdminLoginScope, LoginInv, Holds
<1>2. s = (IF f.locked = 0 THEN f.user ELSE Address) /\ s \in Scopes /\ f.user # Address
  BY <1>1, AdminLoginAssumption DEF ScopeKeys, Scopes
<1>3. CASE Blocked(s, f.now)
  BY <1>1, <1>3, EndedStep DEF LockAdminLoginScope
<1>4. CASE ~Blocked(s, f.now)
  <2>1. /\ scopeLock' = [scopeLock EXCEPT ![s] = a]
        /\ attempt' = [attempt EXCEPT ![a].at = IF f.locked = 1 THEN "decide" ELSE "lock", ![a].locked = f.locked + 1]
    BY <1>1, <1>4 DEF LockAdminLoginScope, LoginInv, LoginTypeOK
  <2>2. /\ attempt'[a].at = (IF f.locked = 1 THEN "decide" ELSE "lock") /\ attempt'[a].locked = f.locked + 1
        /\ attempt'[a].user = f.user /\ attempt'[a].now = f.now
        /\ \A b \in Attempts \ {a} : attempt'[b] = attempt[b]
    BY <2>1 DEF LoginInv, LoginTypeOK
  <2>3. LoginTypeOK'
    BY <1>1, <1>2, <2>1 DEF LoginInv, LoginTypeOK
  <2>4. \A b \in Attempts \ {a}, r \in Scopes : scopeLock[r] = b => scopeLock'[r] = b
    BY <1>1, <1>2, <2>1, AdminLoginAssumption DEF LoginInv, LoginTypeOK
  <2>5. scopeLock'[s] = a /\ (f.user # s => scopeLock'[f.user] = scopeLock[f.user])
    BY <1>1, <1>2, <2>1 DEF LoginInv, LoginTypeOK, Scopes
  <2>6. ASSUME f.locked = 0 PROVE Holds(a)'
    <3>1. s = f.user /\ attempt'[a].at = "lock" /\ attempt'[a].locked = 1 /\ attempt'[a].user = f.user
      BY <1>2, <2>2, <2>6
    <3> QED
      BY <1>1, <1>4, <2>2, <2>5, <3>1 DEF Holds, Passed, Blocked
  <2>7. ASSUME f.locked = 1 PROVE Holds(a)'
    <3>1. s = Address /\ attempt'[a].at = "decide" /\ attempt'[a].user = f.user
      BY <1>2, <2>2, <2>7
    <3>2. scopeLock[f.user] = a /\ ~Blocked(f.user, f.now)
      BY <1>1, <2>7 DEF LoginInv, Holds, Passed
    <3>3. scopeLock'[f.user] = a /\ scopeLock'[Address] = a
      BY <1>2, <2>5, <3>1, <3>2
    <3> QED
      BY <1>1, <1>4, <2>2, <3>1, <3>2, <3>3 DEF Holds, Passed, Blocked
  <2> QED
    BY <1>1, <2>2, <2>3, <2>4, <2>6, <2>7, CountersKept
<1> QED
  BY <1>3, <1>4

\* The decision: both scopes are the attempt's own.
LEMMA RecordStep ==
    ASSUME LoginInv, NEW a \in Attempts, RecordAdminLoginAttempt(a)
    PROVE  LoginInv'
<1> DEFINE mine == {attempt[a].user, Address}
<1>1. /\ attempt[a].at = "decide" /\ ReleaseScopes(a) /\ UNCHANGED clock
      /\ attempt' = [attempt EXCEPT ![a] = Ended(IF attempt[a].valid THEN "session" ELSE "out")]
      /\ failures' = [s \in Scopes |->
           IF s \notin mine THEN failures[s]
           ELSE IF attempt[a].valid THEN NoRow ELSE CountFailure(failures[s], attempt[a].now)]
  BY DEF RecordAdminLoginAttempt
<1>2. attempt[a].user \in Users /\ mine \subseteq Scopes /\ \A s \in mine : Passed(a, s)
  BY <1>1 DEF LoginInv, Holds, Scopes
<1>3. ASSUME NEW s \in Scopes
      PROVE  /\ failures'[s] \in [count : Nat, reset : 0..(MaxClock + Window)]
             /\ failures'[s].count <= FailureLimit
  <2>1. /\ failures[s] \in [count : Nat, reset : 0..(MaxClock + Window)] /\ failures[s].count <= FailureLimit
        /\ attempt[a].now \in 0..MaxClock
    BY DEF LoginInv, LoginTypeOK, FailuresBounded
  <2>2. CASE s \notin mine
    BY <1>1, <2>1, <2>2
  <2>3. CASE s \in mine /\ attempt[a].valid
    BY <1>1, <2>3, AdminLoginAssumption DEF NoRow
  <2>4. CASE s \in mine /\ ~attempt[a].valid
    <3>1. failures'[s] = CountFailure(failures[s], attempt[a].now) /\ ~Blocked(s, attempt[a].now)
      BY <1>1, <1>2, <2>4 DEF Passed
    <3>2. CASE failures[s].reset <= attempt[a].now
      BY <2>1, <3>1, <3>2, AdminLoginAssumption DEF CountFailure
    <3>3. CASE ~(failures[s].reset <= attempt[a].now)
      <4>1. failures[s].count < FailureLimit
        BY <2>1, <3>1, <3>3, AdminLoginAssumption DEF Blocked
      <4>2. failures'[s] = [failures[s] EXCEPT !.count = @ + 1]
        BY <3>1, <3>3 DEF CountFailure
      <4> QED
        BY <2>1, <4>1, <4>2, AdminLoginAssumption
    <3> QED
      BY <3>2, <3>3
  <2> QED
    BY <2>2, <2>3, <2>4
<1>4. FailuresBounded'
  BY <1>3 DEF FailuresBounded
<1>5. \A at \in {"session", "out"} : Ended(at) \in Progress /\ Ended(at).at = at
  BY AdminLoginAssumption DEF Ended, Progress, Scopes
<1>6. PICK at \in {"session", "out"} : attempt' = [attempt EXCEPT ![a] = Ended(at)]
  BY <1>1
<1>7. attempt' \in [Attempts -> Progress] /\ attempt'[a].at = at /\ \A b \in Attempts \ {a} : attempt'[b] = attempt[b]
  BY <1>5, <1>6 DEF LoginInv, LoginTypeOK, Progress
<1>8. LoginTypeOK'
  BY <1>1, <1>3, <1>7, ScopesReleased DEF LoginInv, LoginTypeOK, Progress
<1>9. Holds(a)'
  BY <1>7 DEF Holds
<1>10. ASSUME NEW b \in Attempts \ {a} PROVE Holds(b)'
  <2>1. ASSUME NEW s \in Scopes, scopeLock[s] = b PROVE scopeLock'[s] = b /\ failures'[s] = failures[s]
    <3>1. s \notin mine
      BY <1>2, <2>1 DEF Passed
    <3> QED
      BY <1>1, <2>1, <3>1, ScopesReleased
  <2> QED
    BY <1>7, <2>1, OthersHold
<1> QED
  BY <1>4, <1>8, <1>9, <1>10 DEF LoginInv

\* Every step preserves the invariant.
LEMMA LoginPreserved == LoginInv /\ [LoginNext]_loginVars => LoginInv'
<1> SUFFICES ASSUME LoginInv, [LoginNext]_loginVars PROVE LoginInv'
  OBVIOUS
<1>1. ASSUME NEW a \in Attempts, AttemptFails(a) \/ CreateAdminSession(a) \/ Revoke(a) PROVE LoginInv'
  BY <1>1, EndedStep DEF AttemptFails, CreateAdminSession, Revoke
<1>2. CASE LoginTick \/ UNCHANGED loginVars
  <2>1. UNCHANGED <<failures, scopeLock, attempt>> /\ clock' \in 0..MaxClock
    BY <1>2, AdminLoginAssumption DEF LoginTick, loginVars, LoginInv, LoginTypeOK
  <2>2. LoginTypeOK' /\ FailuresBounded'
    BY <2>1 DEF LoginInv, LoginTypeOK, FailuresBounded
  <2>3. ASSUME NEW b \in Attempts PROVE Holds(b)'
    BY <2>1, OthersHold
  <2> QED
    BY <2>2, <2>3 DEF LoginInv
<1>3. CASE \E a \in Attempts : AttemptStep(a) \/ AttemptFails(a) \/ Revoke(a)
  BY <1>1, <1>3, AuthenticateStep, LockStep, RecordStep DEF AttemptStep
<1> QED
  BY <1>2, <1>3 DEF LoginNext

\* Rows, locks and attempts keep their shape: no window ends later than one
\* window after the last arrival.
THEOREM SignInTypes == LoginSpec => []LoginTypeOK
<1>1. LoginInv => LoginTypeOK
  BY DEF LoginInv
<1> QED
  BY LoginInitially, LoginPreserved, <1>1, PTL DEF LoginSpec

\* However many attempts are made at the same time, a window of a scope counts
\* no failure beyond the limit.
THEOREM FailuresAreBounded == LoginSpec => []FailuresBounded
<1>1. LoginInv => FailuresBounded
  BY DEF LoginInv
<1> QED
  BY LoginInitially, LoginPreserved, <1>1, PTL DEF LoginSpec

\* Nobody is let in whom one of the two counters blocks.
THEOREM BlockedStaysOut == LoginSpec => NoLoginWhileBlocked
<1> DEFINE Admission ==
      \A a \in Attempts : attempt[a].at # "session" /\ attempt'[a].at = "session"
        => \A s \in {attempt[a].user, Address} : ~Blocked(s, attempt[a].now)
<1>1. LoginInv /\ [LoginNext]_loginVars => [Admission]_loginVars
  <2> SUFFICES ASSUME LoginInv, LoginNext, NEW a \in Attempts, attempt[a].at # "session", attempt'[a].at = "session"
               PROVE  attempt[a].at = "decide"
    BY DEF LoginInv, Holds, Passed
  <2>1. attempt \in [Attempts -> Progress]
    BY DEF LoginInv, LoginTypeOK, Progress
  <2>2. CASE LoginTick
    BY <2>2 DEF LoginTick
  <2>3. ASSUME NEW b \in Attempts, b # a, AttemptStep(b) \/ AttemptFails(b) \/ Revoke(b) PROVE attempt'[a] = attempt[a]
    BY <2>1, <2>3 DEF AttemptStep, Authenticate, LockAdminLoginScope, RecordAdminLoginAttempt, CreateAdminSession, AttemptFails, Revoke
  <2>4. CASE AttemptFails(a) \/ Revoke(a) \/ CreateAdminSession(a)
    BY <2>1, <2>4 DEF AttemptFails, Revoke, CreateAdminSession, Ended
  <2>5. CASE Authenticate(a)
    BY <2>1, <2>5 DEF Authenticate
  <2>6. CASE LockAdminLoginScope(a)
    <3>1. CASE attempt' = [attempt EXCEPT ![a] = Ended("out")]
      BY <2>1, <3>1 DEF Ended
    <3>2. CASE attempt' # [attempt EXCEPT ![a] = Ended("out")]
      <4>1. attempt[a].at = "lock"
            /\ attempt' = [attempt EXCEPT ![a].at = IF attempt[a].locked = 1 THEN "decide" ELSE @, ![a].locked = @ + 1]
        BY <2>6, <3>2 DEF LockAdminLoginScope
      <4>2. attempt'[a].at \in {"decide", "lock"}
        BY <2>1, <4>1 DEF Progress
      <4> QED
        BY <4>2
    <3> QED
      BY <3>1, <3>2
  <2>7. CASE RecordAdminLoginAttempt(a)
    BY <2>7 DEF RecordAdminLoginAttempt
  <2> QED
    BY <2>2, <2>3, <2>4, <2>5, <2>6, <2>7 DEF LoginNext, AttemptStep
<1> QED
  BY LoginInitially, LoginPreserved, <1>1, PTL DEF LoginSpec, NoLoginWhileBlocked

\* What the run checks of the counters, for any attempts and users.
THEOREM SignInIsSafe == LoginSpec => []LoginSafe
<1>1. LoginTypeOK /\ FailuresBounded => LoginSafe
  BY DEF LoginSafe
<1> QED
  BY <1>1, SignInTypes, FailuresAreBounded, PTL

-----------------------------------------------------------------------------
(* Google. An authorization leaves the map before its code is exchanged    *)
(* and never comes back: for any number of authorizations and callbacks    *)
(* every code is exchanged at most once.                                   *)

GoogleTypeOK ==
    /\ authorization \in [States -> {"new", "pending", "expired", "taken"}]
    /\ callback \in [Callbacks -> [at : {"idle", "exchange", "save", "end"}, of : SUBSET States]]
    /\ exchanged \in [States -> Nat]

\* A callback that is about to exchange the code of s.
Exchanging(c, s) == callback[c].at = "exchange" /\ s \in callback[c].of

\* Such a callback has taken its authorization for itself, and has not been
\* there before.
TakenForOne ==
    /\ \A c, d \in Callbacks, s \in States : Exchanging(c, s) /\ Exchanging(d, s) => c = d
    /\ \A c \in Callbacks, s \in States : Exchanging(c, s) => authorization[s] = "taken" /\ exchanged[s] = 0
    /\ \A s \in States : authorization[s] # "taken" => exchanged[s] = 0

GoogleInv == GoogleTypeOK /\ TakenForOne /\ CodeExchangedOnce

\* No callback has come yet.
LEMMA GoogleInitially == GoogleInit => GoogleInv
  BY DEF GoogleInit, GoogleInv, GoogleTypeOK, TakenForOne, Exchanging, CodeExchangedOnce

\* Every step preserves the invariant; the one that matters is CompleteGoogle,
\* which removes the authorization in the step that reads it.
LEMMA GoogleStep ==
    ASSUME GoogleInv, [GoogleNext]_googleVars
    PROVE  GoogleInv'
<1> USE DEF GoogleInv, GoogleTypeOK, TakenForOne, Exchanging, CodeExchangedOnce
<1>1. ASSUME NEW s \in States, StartGoogle(s)
      PROVE  GoogleInv'
  BY <1>1 DEF StartGoogle
<1>2. ASSUME NEW s \in States, GoogleExpires(s)
      PROVE  GoogleInv'
  BY <1>2 DEF GoogleExpires
<1>3. ASSUME NEW c \in Callbacks, NEW s \in States, CompleteGoogle(c, s)
      PROVE  GoogleInv'
  <2>1. CASE authorization[s] = "pending"
    <3>1. callback' = [callback EXCEPT ![c] = [at |-> "exchange", of |-> {s}]]
      BY <1>3, <2>1 DEF CompleteGoogle, CallbackGoes
    <3>2. authorization' = [authorization EXCEPT ![s] = "taken"] /\ UNCHANGED exchanged
      BY <1>3 DEF CompleteGoogle
    <3>3. GoogleTypeOK' /\ CodeExchangedOnce'
      BY <3>1, <3>2
    <3>4. TakenForOne'
      BY <2>1, <3>1, <3>2
    <3> QED
      BY <3>3, <3>4
  <2>2. CASE authorization[s] # "pending"
    <3>1. callback' = [callback EXCEPT ![c] = [at |-> "end", of |-> {}]]
      BY <1>3, <2>2 DEF CompleteGoogle, CallbackGoes
    <3>2. authorization' = [authorization EXCEPT ![s] = "taken"] /\ UNCHANGED exchanged
      BY <1>3 DEF CompleteGoogle
    <3> QED
      BY <3>1, <3>2
  <2> QED
    BY <2>1, <2>2
<1>4. ASSUME NEW c \in Callbacks, NEW s \in States, ExchangeCode(c, s)
      PROVE  GoogleInv'
  <2>1. Exchanging(c, s) /\ exchanged' = [exchanged EXCEPT ![s] = 1] /\ UNCHANGED authorization
    <3>1. callback[c].at = "exchange" /\ callback[c].of = {s}
      BY <1>4 DEF ExchangeCode
    <3>2. exchanged[s] = 0
      BY <3>1
    <3>3. exchanged' = [exchanged EXCEPT ![s] = exchanged[s] + 1] /\ UNCHANGED authorization
      BY <1>4 DEF ExchangeCode
    <3> QED
      BY <3>1, <3>2, <3>3
  <2>2. PICK at \in {"save", "end"}, held \in SUBSET States : callback' = [callback EXCEPT ![c] = [at |-> at, of |-> held]]
    BY <1>4 DEF ExchangeCode, CallbackGoes
  <2>3. GoogleTypeOK' /\ CodeExchangedOnce'
    BY <2>1, <2>2
  <2>4. TakenForOne'
    BY <2>1, <2>2
  <2> QED
    BY <2>3, <2>4
<1>5. ASSUME NEW c \in Callbacks, SaveAntigravityAccount(c)
      PROVE  GoogleInv'
  BY <1>5 DEF SaveAntigravityAccount, CallbackGoes
<1>6. CASE UNCHANGED googleVars
  BY <1>6 DEF googleVars
<1> QED
  BY <1>1, <1>2, <1>3, <1>4, <1>5, <1>6 DEF GoogleNext

\* OAuth.Complete never exchanges the code of an authorization twice.
THEOREM ExchangedAtMostOnce == GoogleSpec => []CodeExchangedOnce
<1>1. GoogleInv => CodeExchangedOnce
  BY DEF GoogleInv
<1> QED
  BY GoogleInitially, GoogleStep, <1>1, PTL DEF GoogleSpec

-----------------------------------------------------------------------------
(* Devices: who decides the outcome of a login, and the slots of a         *)
(* provider.                                                               *)

LoginStates == [kind : {"codex", "copilot"}, start : {"no", "starting", "refused", "added", "returned"},
                wait : {"no", "waiting", "granted", "failed", "end"},
                channel : {"empty", "granted", "failed", "closed"},
                finish : {"no", "receive", "save", "denied", "completed", "unsaved", "end"}]

Outcomes == {"none", "pending", "expired", "denied", "completed", "unsaved"}

\* The goroutine that saves has marked the login before it begins, so that
\* neither the timer nor a poll expires it; a canceled login is no longer
\* pending; what is saved stays saved.
LoginOK(f, e, final, cancel, done) ==
    /\ e # "none" \/ f.finish # "no" \/ cancel => f.start = "returned"
    /\ cancel => e # "pending"
    /\ done => f.finish \in {"completed", "unsaved", "end"}
    /\ f.finish = "completed" => done
    /\ f.finish \in {"save", "completed", "unsaved", "denied"} => e = "none" \/ (e = "pending" /\ final)
    /\ e = "pending" /\ ~final => f.finish = "receive"
    /\ e = "pending" => f.finish # "end"
    /\ e \in {"expired", "denied"} => ~done /\ f.finish \in {"receive", "end"}
    /\ e = "completed" => done

Slots(kind) == PendingOf(kind) \cup (IF kind = "codex" THEN StartingOf(kind) ELSE {})

\* ... and the logins that occupy a slot are those that started and are not over.
DeviceInv ==
    /\ login \in [Logins -> LoginStates] /\ entry \in [Logins -> Outcomes]
    /\ pending \subseteq Logins
    /\ \A l \in pending : login[l].start \in {"added", "returned"}
    /\ \A l \in Logins : LoginOK(login[l], entry[l], l \in finalizing, l \in canceled, l \in saved)
    /\ \A kind \in {"codex", "copilot"} : Cardinality(Slots(kind)) <= MaxPendingLogins

\* Fewer logins need no more places.
LEMMA FewerThan ==
    ASSUME NEW S \in SUBSET Logins, NEW T \in SUBSET Logins, S \subseteq T, Cardinality(T) <= MaxPendingLogins
    PROVE  Cardinality(S) <= MaxPendingLogins
<1>1. IsFiniteSet(T) /\ IsFiniteSet(S)
  BY DeviceLoginAssumption, FS_Subset
<1>2. Cardinality(S) <= Cardinality(T) /\ Cardinality(S) \in Nat /\ Cardinality(T) \in Nat
  BY <1>1, FS_Subset, FS_CardinalityType
<1> QED
  BY <1>2, DeviceLoginAssumption

\* One login goes on; it may leave its slot, and no other login notices.
LEMMA LoginGoesOn ==
    ASSUME DeviceInv, NEW l \in Logins, NEW f \in LoginStates, Set(l, f),
           f.kind = login[l].kind, f.start = "starting" => login[l].start = "starting",
           NEW e \in Outcomes, entry' = [entry EXCEPT ![l] = e],
           finalizing' \in {finalizing, finalizing \cup {l}, finalizing \ {l}},
           canceled' \in {canceled, canceled \cup {l}}, saved' \in {saved, saved \cup {l}},
           LoginOK(f, e, l \in finalizing', l \in canceled', l \in saved'),
           pending' \subseteq pending, l \in pending' => f.start \in {"added", "returned"}
    PROVE  DeviceInv'
<1>1. /\ login \in [Logins -> LoginStates] /\ entry \in [Logins -> Outcomes]
      /\ pending \subseteq Logins /\ (\A k \in pending : login[k].start \in {"added", "returned"})
      /\ login' = [login EXCEPT ![l] = f]
  BY DEF DeviceInv, Set
<1>2. /\ login' \in [Logins -> LoginStates] /\ login'[l] = f /\ \A k \in Logins \ {l} : login'[k] = login[k]
      /\ entry' \in [Logins -> Outcomes] /\ entry'[l] = e /\ \A k \in Logins \ {l} : entry'[k] = entry[k]
  BY <1>1
<1>3. pending' \subseteq Logins /\ \A k \in pending' : login'[k].start \in {"added", "returned"}
  BY <1>1, <1>2
<1>4. ASSUME NEW k \in Logins
      PROVE  LoginOK(login[k], entry[k], k \in finalizing, k \in canceled, k \in saved)'
  <2>1. CASE k = l
    BY <1>2, <2>1 DEF LoginOK
  <2>2. CASE k # l
    <3>1. LoginOK(login[k], entry[k], k \in finalizing, k \in canceled, k \in saved)
      BY DEF DeviceInv
    <3>2. /\ login'[k] = login[k] /\ entry'[k] = entry[k] /\ (k \in finalizing' <=> k \in finalizing)
          /\ (k \in canceled' <=> k \in canceled) /\ (k \in saved' <=> k \in saved)
      BY <1>2, <2>2
    <3> QED
      BY <3>1, <3>2 DEF LoginOK
  <2> QED
    BY <2>1, <2>2
<1>5. ASSUME NEW kind \in {"codex", "copilot"}
      PROVE  Cardinality(Slots(kind))' <= MaxPendingLogins
  <2>1. Slots(kind) \subseteq Logins /\ Slots(kind)' \subseteq Slots(kind)
    BY <1>1, <1>2 DEF Slots, PendingOf, StartingOf
  <2>2. Cardinality(Slots(kind)) <= MaxPendingLogins
    BY DEF DeviceInv
  <2> QED
    BY <2>1, <2>2, FewerThan
<1> QED
  BY <1>2, <1>3, <1>4, <1>5 DEF DeviceInv

\* A login gets a slot: when Codex is started, and when Copilot has answered.
LEMMA SlotTaken ==
    ASSUME DeviceInv, NEW l \in Logins, NEW f \in LoginStates, Set(l, f),
           login[l].start \in {"no", "starting"}, f.finish = "no",
           \/ f.start = "starting" /\ UNCHANGED pending
           \/ f.start = "added" /\ pending' = pending \cup {l} /\ f.kind = login[l].kind,
           \A kind \in {"codex", "copilot"} : Cardinality(Slots(kind))' <= MaxPendingLogins,
           UNCHANGED consoleVars
    PROVE  DeviceInv'
<1>1. /\ login \in [Logins -> LoginStates] /\ entry \in [Logins -> Outcomes]
      /\ pending \subseteq Logins /\ (\A k \in pending : login[k].start \in {"added", "returned"})
      /\ login' = [login EXCEPT ![l] = f] /\ UNCHANGED <<entry, finalizing, canceled, saved>>
  BY DEF DeviceInv, Set, consoleVars
<1>2. login' \in [Logins -> LoginStates] /\ login'[l] = f /\ \A k \in Logins \ {l} : login'[k] = login[k]
  BY <1>1
<1>3. pending' \subseteq Logins /\ \A k \in pending' : login'[k].start \in {"added", "returned"}
  BY <1>1, <1>2
<1>4. ASSUME NEW k \in Logins
      PROVE  LoginOK(login[k], entry[k], k \in finalizing, k \in canceled, k \in saved)'
  <2>1. LoginOK(login[k], entry[k], k \in finalizing, k \in canceled, k \in saved)
    BY DEF DeviceInv
  <2>2. CASE k = l
    BY <1>1, <1>2, <2>1, <2>2 DEF LoginOK, LoginStates
  <2>3. CASE k # l
    BY <1>1, <1>2, <2>1, <2>3 DEF LoginOK
  <2> QED
    BY <2>2, <2>3
<1> QED
  BY <1>1, <1>2, <1>3, <1>4 DEF DeviceInv

\* One more login fits where fewer than the limit are.
LEMMA OneMoreSlot ==
    ASSUME NEW S \in SUBSET Logins, NEW l \in Logins, Cardinality(S) < MaxPendingLogins
    PROVE  Cardinality(S \cup {l}) <= MaxPendingLogins
<1>1. IsFiniteSet(S)
  BY DeviceLoginAssumption, FS_Subset
<1>2. Cardinality(S) \in Nat
  BY <1>1, FS_CardinalityType
<1>3. CASE l \in S
  <2>1. S \cup {l} = S
    BY <1>3
  <2> QED
    BY <1>2, <2>1, DeviceLoginAssumption
<1>4. CASE l \notin S
  <2>1. Cardinality(S \cup {l}) = Cardinality(S) + 1
    BY <1>1, <1>4, FS_AddElement
  <2> QED
    BY <1>2, <2>1, DeviceLoginAssumption
<1> QED
  BY <1>3, <1>4

\* A login is started while a place is free.
LEMMA StartKeepsLogins ==
    ASSUME DeviceInv, NEW l \in Logins, NEW kind \in {"codex", "copilot"}, Start(l, kind)
    PROVE  DeviceInv'
<1> DEFINE f == [NewLogin EXCEPT !.kind = kind, !.start = "starting"]
<1>1. /\ Set(l, f) /\ login[l].start = "no" /\ UNCHANGED <<pending, consoleVars>>
      /\ Cardinality(PendingOf(kind)) + (IF kind = "codex" THEN Cardinality(StartingOf(kind)) ELSE 0) < MaxPendingLogins
  BY DEF Start
<1>2. f \in LoginStates /\ f.kind = kind /\ f.start = "starting" /\ f.finish = "no"
  <2>1. PICK n : n = NewLogin
    OBVIOUS
  <2>2. n \in LoginStates /\ n.finish = "no"
    BY <2>1 DEF NewLogin, LoginStates
  <2>3. f = [n EXCEPT !.kind = kind, !.start = "starting"]
    BY <2>1
  <2> HIDE DEF f
  <2> QED
    BY <2>2, <2>3 DEF LoginStates
<1> HIDE DEF f
<1>3. /\ login \in [Logins -> LoginStates] /\ pending \subseteq Logins
      /\ \A k \in pending : login[k].start \in {"added", "returned"}
  BY DEF DeviceInv
<1>4. login' = [login EXCEPT ![l] = f]
  BY <1>1 DEF Set
<1>5. login'[l] = f /\ (\A k \in Logins \ {l} : login'[k] = login[k]) /\ pending' = pending /\ l \notin pending
  BY <1>1, <1>3, <1>4
<1>6. \A k \in {"codex", "copilot"} : PendingOf(k)' = PendingOf(k)
  BY <1>3, <1>5 DEF PendingOf
<1>7. StartingOf("codex")' = StartingOf("codex") \cup (IF kind = "codex" THEN {l} ELSE {})
  BY <1>1, <1>2, <1>5 DEF StartingOf
<1>8. ASSUME NEW k \in {"codex", "copilot"}
      PROVE  Cardinality(Slots(k))' <= MaxPendingLogins
  <2>1. Cardinality(Slots(k)) <= MaxPendingLogins
    BY DEF DeviceInv
  <2>2. CASE k = "copilot" \/ kind # "codex"
    <3>1. Slots(k)' = Slots(k)
      BY <1>6, <1>7, <2>2 DEF Slots
    <3> QED
      BY <2>1, <3>1
  <2>3. CASE k = "codex" /\ kind = "codex"
    <3>1. Slots(k)' = (PendingOf("codex") \cup StartingOf("codex")) \cup {l}
      BY <1>6, <1>7, <2>3 DEF Slots
    <3>2. /\ PendingOf("codex") \cap StartingOf("codex") = {}
          /\ PendingOf("codex") \in SUBSET Logins /\ StartingOf("codex") \in SUBSET Logins
      BY <1>3 DEF PendingOf, StartingOf
    <3>3. IsFiniteSet(PendingOf("codex")) /\ IsFiniteSet(StartingOf("codex"))
      BY <3>2, DeviceLoginAssumption, FS_Subset
    <3>4. /\ Cardinality(PendingOf("codex") \cup StartingOf("codex"))
               = Cardinality(PendingOf("codex")) + Cardinality(StartingOf("codex"))
                    - Cardinality(PendingOf("codex") \cap StartingOf("codex"))
      BY <3>3, FS_Union
    <3>5. Cardinality(PendingOf("codex") \cap StartingOf("codex")) = 0
      BY <3>2, FS_EmptySet
    <3>6. Cardinality(PendingOf("codex")) + Cardinality(StartingOf("codex")) < MaxPendingLogins
      BY <1>1, <2>3
    <3>7. Cardinality(PendingOf("codex")) \in Nat /\ Cardinality(StartingOf("codex")) \in Nat
      BY <3>3, FS_CardinalityType
    <3>8. Cardinality(PendingOf("codex") \cup StartingOf("codex")) < MaxPendingLogins
      BY <3>4, <3>5, <3>6, <3>7
    <3>9. PendingOf("codex") \cup StartingOf("codex") \in SUBSET Logins
      BY <3>2
    <3> QED
      BY <3>1, <3>8, <3>9, OneMoreSlot
  <2> QED
    BY <2>2, <2>3
<1> QED
  BY <1>1, <1>2, <1>8, SlotTaken

\* A handshake that has finished adds the login if a place is still free.
LEMMA AddKeepsLogins ==
    ASSUME DeviceInv, NEW l \in Logins, Add(l)
    PROVE  DeviceInv'
<1>1. /\ login \in [Logins -> LoginStates] /\ login[l] \in LoginStates /\ pending \subseteq Logins
      /\ \A k \in pending : login[k].start \in {"added", "returned"}
      /\ LoginOK(login[l], entry[l], l \in finalizing, l \in canceled, l \in saved)
      /\ entry \in [Logins -> Outcomes] /\ login[l].start = "starting" /\ UNCHANGED consoleVars
  BY DEF DeviceInv, Add
<1>2. CASE Set(l, [login[l] EXCEPT !.start = "refused"]) /\ UNCHANGED pending
  <2>1. PICK f : f = [login[l] EXCEPT !.start = "refused"]
    OBVIOUS
  <2>2. /\ f \in LoginStates /\ f.kind = login[l].kind /\ f.start = "refused"
        /\ f.finish = login[l].finish
    BY <1>1, <2>1 DEF LoginStates
  <2>3. /\ entry' = [entry EXCEPT ![l] = entry[l]] /\ entry[l] \in Outcomes
        /\ UNCHANGED <<finalizing, canceled, saved>>
    BY <1>1 DEF consoleVars
  <2>4. LoginOK(f, entry[l], l \in finalizing', l \in canceled', l \in saved') /\ l \notin pending'
    BY <1>1, <1>2, <2>2, <2>3 DEF LoginOK
  <2>5. PICK e \in Outcomes : e = entry[l]
    BY <2>3
  <2> QED
    BY <1>2, <2>1, <2>2, <2>3, <2>4, <2>5, LoginGoesOn
<1>3. CASE /\ login[l].kind = "copilot" => Cardinality(PendingOf("copilot")) < MaxPendingLogins
           /\ pending' = pending \cup {l}
           /\ Set(l, [login[l] EXCEPT !.start = "added", !.wait = "waiting"])
  <2>1. PICK f : f = [login[l] EXCEPT !.start = "added", !.wait = "waiting"]
    OBVIOUS
  <2>2. /\ f \in LoginStates /\ f.kind = login[l].kind /\ f.start = "added"
        /\ f.finish = login[l].finish
    BY <1>1, <2>1 DEF LoginStates
  <2>3. f.finish = "no"
    BY <1>1, <2>2 DEF LoginOK
  <2>4. login' = [login EXCEPT ![l] = f]
    BY <1>3, <2>1 DEF Set
  <2>5. login'[l] = f /\ \A k \in Logins \ {l} : login'[k] = login[k]
    BY <1>1, <2>4
  <2>6. ASSUME NEW k \in {"codex", "copilot"}
        PROVE  Cardinality(Slots(k))' <= MaxPendingLogins
    <3>1. Cardinality(Slots(k)) <= MaxPendingLogins /\ Slots(k) \in SUBSET Logins
      BY <1>1 DEF DeviceInv, Slots, PendingOf, StartingOf
    <3>2. CASE k = "codex" \/ login[l].kind = "codex"
      <4>1. Slots(k)' = Slots(k)
        BY <1>1, <1>3, <2>2, <2>5, <3>2 DEF Slots, PendingOf, StartingOf
      <4> QED
        BY <3>1, <4>1
    <3>3. CASE k = "copilot" /\ login[l].kind = "copilot"
      <4>1. Slots(k)' = PendingOf("copilot") \cup {l}
        BY <1>1, <1>3, <2>2, <2>5, <3>3 DEF Slots, PendingOf
      <4>2. PendingOf("copilot") \in SUBSET Logins
        BY <1>1 DEF PendingOf
      <4> QED
        BY <1>3, <3>3, <4>1, <4>2, OneMoreSlot
    <3>4. login[l].kind \in {"codex", "copilot"}
      BY <1>1 DEF LoginStates
    <3> QED
      BY <3>2, <3>3, <3>4
  <2> QED
    BY <1>1, <1>3, <2>1, <2>2, <2>3, <2>6, SlotTaken
<1> QED
  BY <1>2, <1>3 DEF Add

\* The goroutines of a login that has its slot.
LEMMA GoroutinesKeepLogins ==
    ASSUME DeviceInv, NEW l \in Logins,
           Consent(l) \/ Deliver(l) \/ Register(l) \/ Receive(l) \/ Save(l) \/ Complete(l)
    PROVE  DeviceInv'
<1> DEFINE g == login[l]
           e0 == entry[l]
<1>1. /\ g \in LoginStates /\ LoginOK(g, e0, l \in finalizing, l \in canceled, l \in saved)
      /\ entry \in [Logins -> Outcomes] /\ e0 \in Outcomes
      /\ entry' \in {entry, [entry EXCEPT ![l] = entry'[l]]}
      /\ l \in pending => g.start \in {"added", "returned"}
  BY DEF DeviceInv, Consent, Deliver, Register, Receive, Save, Complete, consoleVars
<1>2. entry = [entry EXCEPT ![l] = e0]
  BY <1>1
<1>3. CASE Consent(l) \/ Deliver(l)
  <2>1. PICK w \in {"granted", "failed", "end"}, c \in {"empty", "granted", "failed", "closed"} :
           Set(l, [g EXCEPT !.wait = w, !.channel = c])
    <3>1. CASE Consent(l)
      <4>1. PICK w \in {"granted", "failed"} : Set(l, [g EXCEPT !.wait = w])
        BY <3>1 DEF Consent, ConsentOutcomes
      <4>2. [g EXCEPT !.wait = w] = [g EXCEPT !.wait = w, !.channel = g.channel] /\ g.channel \in {"empty", "granted", "failed", "closed"}
        BY <1>1 DEF LoginStates
      <4> QED
        BY <4>1, <4>2
    <3>2. CASE Deliver(l)
      BY <3>2 DEF Deliver
    <3> QED
      BY <1>3, <3>1, <3>2
  <2>2. pending' \subseteq pending /\ UNCHANGED <<entry, finalizing, canceled, saved>>
    BY <1>3 DEF Consent, Deliver, consoleVars
  <2> HIDE DEF g, e0
  <2>3. PICK f : f = [g EXCEPT !.wait = w, !.channel = c]
    OBVIOUS
  <2>4. f \in LoginStates /\ f.kind = g.kind /\ f.start = g.start /\ f.finish = g.finish
    BY <1>1, <2>3 DEF LoginStates
  <2>5. LoginOK(f, e0, l \in finalizing', l \in canceled', l \in saved')
    BY <1>1, <2>2, <2>4 DEF LoginOK
  <2>6. PICK e \in Outcomes : e = e0
    BY <1>1
  <2> QED
    BY <1>1, <1>2, <2>1, <2>2, <2>3, <2>4, <2>5, <2>6, LoginGoesOn DEF g, e0
<1>4. CASE Register(l)
  <2>1. /\ g.start = "added" /\ entry' = [entry EXCEPT ![l] = "pending"]
        /\ Set(l, [g EXCEPT !.start = "returned", !.finish = "receive"])
        /\ UNCHANGED <<pending, finalizing, canceled, saved>>
    BY <1>4 DEF Register
  <2> HIDE DEF g, e0
  <2>3. PICK f : f = [g EXCEPT !.start = "returned", !.finish = "receive"]
    OBVIOUS
  <2>4. f \in LoginStates /\ f.kind = g.kind /\ f.start = "returned" /\ f.finish = "receive"
    BY <1>1, <2>3 DEF LoginStates
  <2>5. LoginOK(f, "pending", l \in finalizing', l \in canceled', l \in saved')
    BY <1>1, <2>1, <2>4 DEF LoginOK
  <2>6. "pending" \in Outcomes
    BY DEF Outcomes
  <2> QED
    BY <1>1, <2>1, <2>3, <2>4, <2>5, <2>6, LoginGoesOn DEF g, e0
<1>5. ASSUME NEW n \in {"save", "denied", "completed", "unsaved", "end"}, Set(l, [g EXCEPT !.finish = n]),
             NEW e \in Outcomes, entry' = [entry EXCEPT ![l] = e],
             finalizing' \in {finalizing, finalizing \cup {l}, finalizing \ {l}},
             canceled' \in {canceled, canceled \cup {l}}, saved' \in {saved, saved \cup {l}}, UNCHANGED pending,
             \A f : f.start = g.start /\ f.finish = n => LoginOK(f, e, l \in finalizing', l \in canceled', l \in saved')
      PROVE  DeviceInv'
  <2> HIDE DEF g, e0
  <2>3. PICK f : f = [g EXCEPT !.finish = n]
    OBVIOUS
  <2>4. f \in LoginStates /\ f.kind = g.kind /\ f.start = g.start /\ f.finish = n
    BY <1>1, <2>3 DEF LoginStates
  <2> QED
    BY <1>1, <1>5, <2>3, <2>4, LoginGoesOn DEF g, e0
<1>6. CASE Receive(l) /\ entry[l] # "pending"
  <2>1. /\ g.finish = "receive" /\ Set(l, [g EXCEPT !.finish = "end"]) /\ e0 # "pending"
        /\ UNCHANGED <<pending, entry, finalizing, canceled, saved>>
    BY <1>6 DEF Receive
  <2> HIDE DEF g, e0
  <2>2. \A f : f.start = g.start /\ f.finish = "end" => LoginOK(f, e0, l \in finalizing', l \in canceled', l \in saved')
    BY <1>1, <2>1 DEF LoginOK
  <2> QED
    BY <1>1, <1>2, <1>5, <2>1, <2>2
<1>7. CASE Receive(l) /\ entry[l] = "pending"
  <2>1. PICK n \in {"save", "denied"} : Set(l, [g EXCEPT !.finish = n])
    BY <1>7 DEF Receive
  <2>2. /\ g.finish = "receive" /\ e0 = "pending" /\ finalizing' = finalizing \cup {l}
        /\ UNCHANGED <<pending, entry, canceled, saved>>
    BY <1>7 DEF Receive
  <2> HIDE DEF g, e0
  <2>3. \A f : f.start = g.start /\ f.finish = n => LoginOK(f, e0, l \in finalizing', l \in canceled', l \in saved')
    BY <1>1, <2>2 DEF LoginOK
  <2> QED
    BY <1>1, <1>2, <1>5, <2>1, <2>2, <2>3
<1>8. CASE Save(l)
  <2>1. PICK o \in SaveOutcomes(l) :
           /\ saved' = IF o.written THEN saved \cup {l} ELSE saved
           /\ Set(l, [g EXCEPT !.finish = o.next])
    BY <1>8 DEF Save
  <2>2. /\ g.finish = "save" /\ UNCHANGED <<pending, entry, finalizing, canceled>>
        /\ o.next \in {"completed", "unsaved", "end"}
        /\ o.next = "completed" => o.written
        /\ o.next = "end" => l \in canceled
    BY <1>8 DEF Save, SaveOutcomes
  <2> HIDE DEF g, e0
  <2>3. \A f : f.start = g.start /\ f.finish = o.next => LoginOK(f, e0, l \in finalizing', l \in canceled', l \in saved')
    BY <1>1, <2>1, <2>2 DEF LoginOK
  <2>4. saved' \in {saved, saved \cup {l}}
    BY <2>1
  <2> QED
    BY <1>1, <1>2, <1>5, <2>1, <2>2, <2>3, <2>4
<1>9. CASE Complete(l) /\ entry[l] = "none"
  <2>1. /\ g.finish \in {"completed", "unsaved", "denied"} /\ Set(l, [g EXCEPT !.finish = "end"]) /\ e0 = "none"
        /\ UNCHANGED <<pending, entry, finalizing, canceled, saved>>
    BY <1>9 DEF Complete
  <2> HIDE DEF g, e0
  <2>2. \A f : f.start = g.start /\ f.finish = "end" => LoginOK(f, e0, l \in finalizing', l \in canceled', l \in saved')
    BY <1>1, <2>1 DEF LoginOK
  <2> QED
    BY <1>1, <1>2, <1>5, <2>1, <2>2
<1>10. CASE Complete(l) /\ entry[l] # "none"
  <2>1. /\ g.finish \in {"completed", "unsaved", "denied"} /\ Set(l, [g EXCEPT !.finish = "end"]) /\ e0 # "none"
        /\ UNCHANGED <<pending, saved>>
        /\ entry' = [entry EXCEPT ![l] = g.finish]
        /\ finalizing' = finalizing \ {l} /\ canceled' = canceled \cup {l}
    BY <1>10 DEF Complete
  <2>2. g.finish \in Outcomes
    BY <2>1 DEF Outcomes
  <2> HIDE DEF g, e0
  <2>3. \A f : f.start = g.start /\ f.finish = "end" => LoginOK(f, g.finish, l \in finalizing', l \in canceled', l \in saved')
    BY <1>1, <2>1 DEF LoginOK
  <2>4. PICK e \in Outcomes : e = g.finish
    BY <2>2
  <2> QED
    BY <1>5, <2>1, <2>3, <2>4
<1> QED
  BY <1>3, <1>4, <1>6, <1>7, <1>8, <1>9, <1>10

\* What the console, the timer and shutdown do to a login.
LEMMA ConsoleKeepsLogins ==
    ASSUME DeviceInv, NEW l \in Logins,
           CancelAuth(l) \/ Expire(l) \/ RemoveLogin(l) \/ CancelLogin(l) \/ CloseAuth
    PROVE  DeviceInv'
<1>1. /\ login[l] \in LoginStates
      /\ LoginOK(login[l], entry[l], l \in finalizing, l \in canceled, l \in saved)
      /\ login \in [Logins -> LoginStates] /\ entry \in [Logins -> Outcomes] /\ entry[l] \in Outcomes
      /\ l \in pending => login[l].start \in {"added", "returned"}
  BY DEF DeviceInv
<1>2. Set(l, login[l]) /\ pending' \subseteq pending /\ UNCHANGED <<finalizing, saved>>
  BY <1>1 DEF Set, CancelAuth, Expire, RemoveLogin, CancelLogin, CloseAuth, consoleVars
<1>3. PICK e \in Outcomes :
         /\ entry' = [entry EXCEPT ![l] = e] /\ canceled' \in {canceled, canceled \cup {l}}
         /\ \/ e = entry[l] /\ UNCHANGED canceled
            \/ e = "expired" /\ entry[l] = "pending" /\ l \notin finalizing
            \/ e = "none" /\ entry[l] # "none"
  <2>1. CASE CancelAuth(l) \/ CloseAuth
    <3>1. UNCHANGED <<entry, canceled>> /\ entry = [entry EXCEPT ![l] = entry[l]]
      BY <1>1, <2>1 DEF CancelAuth, CloseAuth, consoleVars
    <3> QED
      BY <1>1, <3>1
  <2>2. CASE Expire(l)
    BY <2>2 DEF Expire, Outcomes
  <2>3. CASE RemoveLogin(l) \/ CancelLogin(l)
    BY <2>3 DEF RemoveLogin, CancelLogin, Outcomes
  <2> QED
    BY <2>1, <2>2, <2>3
<1>4. LoginOK(login[l], e, l \in finalizing', l \in canceled', l \in saved')
  BY <1>1, <1>2, <1>3 DEF LoginOK
<1>5. PICK f \in LoginStates : f = login[l]
  BY <1>1
<1> QED
  BY <1>1, <1>2, <1>3, <1>4, <1>5, LoginGoesOn

\* A login ends with the outcome that is true, whoever races for it, and the
\* pending ones never exceed the slots of their provider.
THEOREM DeviceLoginsAreTrue == DeviceLoginSpec => []DeviceLoginSafe
<1>1. DeviceLoginInit => DeviceInv
  <2> SUFFICES ASSUME DeviceLoginInit PROVE DeviceInv
    OBVIOUS
  <2>1. NewLogin \in LoginStates /\ NewLogin.finish = "no" /\ NewLogin.start = "no"
    BY DEF NewLogin, LoginStates
  <2>2. \A kind \in {"codex", "copilot"} : Slots(kind) = {}
    BY <2>1 DEF DeviceLoginInit, Slots, PendingOf, StartingOf
  <2>3. \A kind \in {"codex", "copilot"} : Cardinality(Slots(kind)) <= MaxPendingLogins
    BY <2>2, FS_EmptySet, DeviceLoginAssumption
  <2> QED
    BY <2>1, <2>3 DEF DeviceLoginInit, DeviceInv, LoginOK, Outcomes
<1>2. DeviceInv /\ [DeviceLoginNext]_deviceVars => DeviceInv'
  <2> SUFFICES ASSUME DeviceInv, [DeviceLoginNext]_deviceVars PROVE DeviceInv'
    OBVIOUS
  <2>1. CASE UNCHANGED deviceVars
    BY <2>1 DEF deviceVars, DeviceInv, LoginOK, Slots, PendingOf, StartingOf
  <2>2. CASE CloseAuth
    <3>1. CASE Logins = {}
      BY <2>2, <3>1 DEF CloseAuth, consoleVars, DeviceInv, Slots, PendingOf, StartingOf
    <3>2. CASE Logins # {}
      BY <2>2, <3>2, ConsoleKeepsLogins
    <3> QED
      BY <3>1, <3>2
  <2> QED
    BY <2>1, <2>2, StartKeepsLogins, AddKeepsLogins, GoroutinesKeepLogins, ConsoleKeepsLogins
       DEF DeviceLoginNext, LoginStep
<1>3. DeviceInv => DeviceLoginSafe
  <2> SUFFICES ASSUME DeviceInv PROVE DeviceLoginSafe
    OBVIOUS
  <2>1. LoginOutcomeTrue
    BY DEF DeviceInv, LoginOK, LoginOutcomeTrue
  <2>2. ASSUME NEW kind \in {"codex", "copilot"}
        PROVE  Cardinality({l \in Logins : login[l].kind = kind /\ login[l].wait = "waiting" /\ l \in pending})
                  <= MaxPendingLogins
    <3> DEFINE S == {l \in Logins : login[l].kind = kind /\ login[l].wait = "waiting" /\ l \in pending}
    <3>1. S \in SUBSET Logins /\ Slots(kind) \in SUBSET Logins /\ S \subseteq Slots(kind)
      BY DEF DeviceInv, Slots, PendingOf, StartingOf
    <3>2. Cardinality(Slots(kind)) <= MaxPendingLogins
      BY DEF DeviceInv
    <3> HIDE DEF S
    <3>3. Cardinality(S) <= MaxPendingLogins
      BY <3>1, <3>2, FewerThan
    <3> QED
      BY <3>3 DEF S
  <2> QED
    BY <2>1, <2>2 DEF DeviceLoginSafe, PendingLoginsBounded
<1> QED
  BY <1>1, <1>2, <1>3, PTL DEF DeviceLoginSpec
=============================================================================
