--------------------------- MODULE AccountProofs ----------------------------
(***************************************************************************)
(* A provider account: its credential and access tokens, its row under the *)
(* many writers of its status, its balance, and the keys bound to it.      *)
(***************************************************************************)
EXTENDS CredentialRefresh, TokenCache, AccountHealth, BillingPoll, Assignments,
        FiniteSetTheorems, TLAPS
-----------------------------------------------------------------------------
(* The credential. The compare-and-swap keeps the stored credential moving *)
(* forward for any number of requests and replicas. What keeps it usable   *)
(* as well is that the provider accepts a token once: of the requests that *)
(* have read the same version only one gets a successor, and that version  *)
(* is still stored when it writes.                                         *)

Locked == {"read", "provider", "write", "reread"}

RefreshTypeOK ==
    /\ stored \in [version : Nat, token : Nat, status : {"active", "auth_failed", "cooling_down"}]
    /\ live \in Nat /\ rotates \in BOOLEAN /\ lost \in Nat
    /\ process \in [Refreshers -> Processes]
    /\ mutex \in [Processes -> Refreshers \cup {NoRefresher}]
    /\ refresh \in [Refreshers -> [at : {"idle", "lock", "denied", "failed"} \cup Locked,
                                   seen : Nat, version : Nat, token : Nat]]

\* What a request carries compared with what is stored.
Carried ==
    /\ stored.token <= live
    /\ \A w \in Refreshers : LET f == refresh[w] IN
         /\ f.at \in {"provider", "write"} => f.version <= stored.version /\ f.token <= live
         /\ f.at = "provider" => f.token <= stored.token
         /\ f.at = "provider" /\ f.version = stored.version => f.token = stored.token
         /\ f.at = "write" /\ f.version = stored.version => f.token >= stored.token

\* A provider that keeps the token accepts the stored one.
Kept ==
    ~rotates => /\ stored.token = live
                /\ \A w \in Refreshers : refresh[w].at \in {"provider", "write"} => refresh[w].token = live

\* A provider that replaces the token has handed its successor to one request
\* at most, which is the one that can write.
Replaced ==
    rotates /\ lost = 0 =>
        /\ \A v, w \in Refreshers : refresh[v].at = "write" /\ refresh[w].at = "write" => v = w
        /\ \A w \in Refreshers : refresh[w].at = "write" =>
             refresh[w].token = live /\ refresh[w].version = stored.version /\ stored.token < live
        /\ (\A w \in Refreshers : refresh[w].at # "write") => stored.token = live
        /\ \A w \in Refreshers : refresh[w].at = "provider" /\ refresh[w].token = stored.token =>
             refresh[w].version = stored.version

\* The lock of a process is held from the reading on.
LockHeld == \A w \in Refreshers : refresh[w].at \in Locked => mutex[process[w]] = w

\* Requests of one process carry the stored version, and none is denied.
OneProcess ==
    (\A v, w \in Refreshers : process[v] = process[w]) =>
        /\ \A w \in Refreshers : refresh[w].at = "provider" => refresh[w].version = stored.version
        /\ lost = 0 => stored.status # "auth_failed" /\ \A w \in Refreshers : refresh[w].at # "denied"

RefreshInv == RefreshTypeOK /\ Carried /\ Kept /\ Replaced /\ LockHeld /\ OneProcess

\* One credential is stored and nobody is refreshing it.
LEMMA RefreshInitially == RefreshInit => RefreshInv
  BY DEF RefreshInit, RefreshInv, RefreshTypeOK, Carried, Kept, Replaced, LockHeld, OneProcess, NoRefresh, Locked

\* Two requests of one process are not both past the lock.
LEMMA LockExcludes ==
    ASSUME RefreshInv, NEW v \in Refreshers, NEW w \in Refreshers, process[v] = process[w],
           refresh[v].at \in Locked, refresh[w].at \in Locked
    PROVE  v = w
  BY DEF RefreshInv, LockHeld

\* A step of a request that had no credential to write, and after which it
\* carries none, disturbs nothing but the locks.
LEMMA CarriesNothing ==
    ASSUME RefreshInv, NEW w \in Refreshers,
           refresh[w].at # "write", refresh'[w].at \notin {"provider", "write", "denied"},
           \A u \in Refreshers \ {w} : refresh'[u] = refresh[u],
           UNCHANGED <<stored, live, rotates, process, lost>>
    PROVE  Carried' /\ Kept' /\ Replaced' /\ OneProcess'
<1>1. \A u \in Refreshers : refresh'[u].at \in {"provider", "write", "denied"} => refresh'[u] = refresh[u]
  OBVIOUS
<1>2. Carried' /\ Kept'
  BY <1>1 DEF RefreshInv, Carried, Kept
<1>3. Replaced'
  <2> SUFFICES ASSUME rotates, lost = 0 PROVE Replaced'
    BY DEF Replaced
  <2>1. (\A u \in Refreshers : refresh'[u].at # "write") => \A u \in Refreshers : refresh[u].at # "write"
    OBVIOUS
  <2> QED
    BY <1>1, <2>1 DEF RefreshInv, Replaced
<1>4. OneProcess'
  BY <1>1 DEF RefreshInv, OneProcess
<1> QED
  BY <1>2, <1>3, <1>4

\* A request that arrives or takes the lock carries nothing yet.
LEMMA ArrivalSteps ==
    ASSUME RefreshInv, NEW w \in Refreshers, Refused(w) \/ Lock(w)
    PROVE  RefreshInv'
<1>1. CASE Refused(w)
  <2>1. PICK v \in 1..stored.version : refresh' = [refresh EXCEPT ![w] = [at |-> "lock", seen |-> v, version |-> 0, token |-> 0]]
    BY <1>1 DEF Refused, To
  <2>2. UNCHANGED <<stored, live, rotates, process, mutex, lost>> /\ refresh[w].at = "idle"
    BY <1>1 DEF Refused, worldVars
  <2>3. v \in Nat
    BY DEF RefreshInv, RefreshTypeOK
  <2>4. RefreshTypeOK' /\ refresh'[w].at = "lock" /\ \A u \in Refreshers \ {w} : refresh'[u] = refresh[u]
    BY <2>1, <2>2, <2>3 DEF RefreshInv, RefreshTypeOK, Locked
  <2>5. LockHeld'
    BY <2>2, <2>4 DEF RefreshInv, LockHeld, Locked
  <2> QED
    BY <2>2, <2>4, <2>5, CarriesNothing DEF RefreshInv
<1>2. CASE Lock(w)
  <2>1. /\ refresh' = [refresh EXCEPT ![w] = [refresh[w] EXCEPT !.at = "read"]]
        /\ mutex' = [mutex EXCEPT ![process[w]] = w]
        /\ refresh[w].at = "lock" /\ mutex[process[w]] = NoRefresher
        /\ UNCHANGED <<stored, live, rotates, process, lost>>
    BY <1>2 DEF Lock, To, worldVars
  <2>2. RefreshTypeOK' /\ refresh'[w].at = "read" /\ \A u \in Refreshers \ {w} : refresh'[u] = refresh[u]
    BY <2>1 DEF RefreshInv, RefreshTypeOK, Locked
  <2>3. LockHeld'
    BY <2>1, <2>2, RefreshAssumption DEF LockHeld, RefreshInv, RefreshTypeOK, Locked
  <2> QED
    BY <2>1, <2>2, <2>3, CarriesNothing DEF RefreshInv
<1> QED
  BY <1>1, <1>2

\* RefreshAccount returns: the lock is free and the request carries nothing.
LEMMA ReturnStep ==
    ASSUME RefreshInv, NEW w \in Refreshers, refresh[w].at \in {"read", "reread"}, Return(w, NoRefresh),
           UNCHANGED <<stored, live, rotates, process, lost>>
    PROVE  RefreshInv'
<1>1. RefreshTypeOK' /\ refresh'[w].at = "idle" /\ \A u \in Refreshers \ {w} : refresh'[u] = refresh[u]
  BY DEF Return, To, NoRefresh, RefreshInv, RefreshTypeOK, Locked
<1>2. mutex' = [mutex EXCEPT ![process[w]] = NoRefresher]
  BY DEF Return
<1>3. LockHeld'
  BY <1>1, <1>2 DEF LockHeld, RefreshInv, RefreshTypeOK, Locked
<1> QED
  BY <1>1, <1>3, CarriesNothing DEF RefreshInv

\* The account is read again under the lock.
LEMMA ReadStep ==
    ASSUME RefreshInv, NEW w \in Refreshers, ReadAccount(w)
    PROVE  RefreshInv'
<1> USE DEF RefreshInv, RefreshTypeOK, Locked
<1>1. refresh[w].at = "read" /\ UNCHANGED <<stored, live, rotates, process, lost>>
  BY DEF ReadAccount, worldVars
<1>2. CASE stored.version > refresh[w].seen
  BY <1>1, <1>2, ReturnStep DEF ReadAccount
<1>3. CASE ~(stored.version > refresh[w].seen)
  <2>1. /\ refresh' = [refresh EXCEPT ![w] = [refresh[w] EXCEPT !.at = "provider", !.version = stored.version, !.token = stored.token]]
        /\ UNCHANGED mutex
    BY <1>3 DEF ReadAccount, To
  <2>2. RefreshTypeOK' /\ \A u \in Refreshers \ {w} : refresh'[u] = refresh[u]
    BY <1>1, <2>1
  <2>3. refresh'[w].at = "provider" /\ refresh'[w].version = stored.version /\ refresh'[w].token = stored.token
    BY <2>1
  <2>4. Carried' /\ Kept' /\ LockHeld' /\ OneProcess'
    BY <1>1, <2>1, <2>2, <2>3 DEF Carried, Kept, LockHeld, OneProcess
  <2>5. Replaced'
    BY <1>1, <2>2, <2>3 DEF Replaced
  <2> QED
    BY <2>2, <2>4, <2>5
<1> QED
  BY <1>2, <1>3

\* The provider answers: the token it accepts is the stored one, so that no
\* other request holds a successor.
LEMMA ProviderStep ==
    ASSUME RefreshInv, NEW w \in Refreshers, AskProvider(w)
    PROVE  RefreshInv'
<1> USE DEF RefreshInv, RefreshTypeOK, Locked
<1>1. refresh[w].at = "provider" /\ UNCHANGED <<stored, rotates, process, mutex, lost>>
  BY DEF AskProvider, worldVars
<1>2. CASE refresh[w].token = live
  <2> DEFINE new == IF rotates THEN live + 1 ELSE live
  <2>1. refresh' = [refresh EXCEPT ![w] = [refresh[w] EXCEPT !.at = "write", !.token = new]] /\ live' = new
    BY <1>2 DEF AskProvider, To, RefreshCredentials
  <2>2. new \in Nat
    OBVIOUS
  <2>3. RefreshTypeOK' /\ \A u \in Refreshers \ {w} : refresh'[u] = refresh[u]
    <3> HIDE DEF new
    <3> QED
      BY <1>1, <2>2, <2>1
  <2>4. refresh'[w].at = "write" /\ refresh'[w].version = refresh[w].version /\ refresh'[w].token = new /\ live' = new
    BY <2>1
  <2>5. stored.token = live
    BY <1>1, <1>2 DEF Carried
  <2>6. Carried' /\ Kept'
    BY <1>1, <1>2, <2>3, <2>4, <2>5 DEF Carried, Kept
  <2>7. Replaced'
    <3> SUFFICES ASSUME rotates, lost = 0 PROVE Replaced'
      BY <1>1 DEF Replaced
    <3>1. \A u \in Refreshers : refresh[u].at # "write"
      BY <2>5 DEF Replaced
    <3>2. refresh[w].version = stored.version
      BY <1>1, <1>2, <2>5 DEF Replaced
    <3>3. \A u \in Refreshers \ {w} : refresh'[u].at # "write"
      BY <2>3, <3>1
    <3>4. stored.token < live' /\ refresh'[w].token = live'
      BY <2>4, <2>5
    <3>5. \A u \in Refreshers \ {w} : refresh'[u].at = "provider" /\ refresh'[u].token = stored.token => refresh'[u].version = stored.version
      BY <2>3 DEF Replaced
    <3> QED
      BY <1>1, <2>4, <3>2, <3>3, <3>4, <3>5 DEF Replaced
  <2>8. LockHeld'
    BY <1>1, <2>3, <2>4 DEF LockHeld
  <2>9. OneProcess'
    BY <1>1, <2>3, <2>4 DEF OneProcess
  <2> QED
    BY <2>3, <2>6, <2>7, <2>8, <2>9
<1>3. CASE refresh[w].token # live
  <2>1. refresh' = [refresh EXCEPT ![w] = [refresh[w] EXCEPT !.at = "denied"]] /\ UNCHANGED live
    BY <1>3 DEF AskProvider, To
  <2>2. RefreshTypeOK' /\ refresh'[w].at = "denied" /\ \A u \in Refreshers \ {w} : refresh'[u] = refresh[u]
    BY <1>1, <2>1
  <2>3. Carried' /\ Kept' /\ Replaced' /\ LockHeld'
    BY <1>1, <2>1, <2>2 DEF Carried, Kept, Replaced, LockHeld
  <2>4. OneProcess'
    <3> SUFFICES ASSUME \A u, v \in Refreshers : process[u] = process[v], lost = 0 PROVE FALSE
      BY <1>1, <2>2 DEF OneProcess
    <3>1. refresh[w].token = stored.token
      BY <1>1 DEF OneProcess, Carried
    <3>2. \A u \in Refreshers : refresh[u].at # "write"
      BY <1>1, LockExcludes
    <3> QED
      BY <1>1, <1>3, <3>1, <3>2 DEF Kept, Replaced
  <2> QED
    BY <2>2, <2>3, <2>4
<1> QED
  BY <1>2, <1>3

\* A lost answer ends the claims about what the provider accepts.
LEMMA LoseStep ==
    ASSUME RefreshInv, NEW w \in Refreshers, LoseAnswer(w)
    PROVE  RefreshInv'
<1> USE DEF RefreshInv, RefreshTypeOK, Locked
<1>1. /\ refresh[w].at \in {"provider", "write"} /\ lost' = lost + 1
      /\ refresh' = [refresh EXCEPT ![w] = [refresh[w] EXCEPT !.at = "failed"]]
      /\ UNCHANGED <<stored, rotates, process, mutex>>
  BY DEF LoseAnswer, To, worldVars
<1>2. live' \in {live, live + 1} /\ (~rotates => live' = live)
  BY DEF LoseAnswer
<1>3. RefreshTypeOK' /\ refresh'[w].at = "failed" /\ \A u \in Refreshers \ {w} : refresh'[u] = refresh[u]
  BY <1>1, <1>2
<1>4. lost' # 0
  BY <1>1
<1> QED
  BY <1>1, <1>2, <1>3, <1>4 DEF Carried, Kept, Replaced, LockHeld, OneProcess

\* The compare-and-swap.
LEMMA WriteStep ==
    ASSUME RefreshInv, NEW w \in Refreshers, WriteCredential(w)
    PROVE  RefreshInv'
<1> USE DEF RefreshInv, RefreshTypeOK, Locked
<1>1. refresh[w].at = "write" /\ UNCHANGED <<live, rotates, process, lost>>
  BY DEF WriteCredential, worldVars
<1>2. CASE stored.version = refresh[w].version
  <2>1. /\ stored' = [version |-> stored.version + 1, token |-> refresh[w].token, status |-> "active"]
        /\ refresh' = [refresh EXCEPT ![w] = NoRefresh]
        /\ mutex' = [mutex EXCEPT ![process[w]] = NoRefresher]
    BY <1>2 DEF WriteCredential, CredentialAfterCAS, Return, To
  <2>2. RefreshTypeOK' /\ refresh'[w].at = "idle" /\ \A u \in Refreshers \ {w} : refresh'[u] = refresh[u]
    BY <1>1, <2>1 DEF NoRefresh
  <2>3. stored.token <= refresh[w].token /\ refresh[w].token <= live
    BY <1>1, <1>2 DEF Carried
  <2>4. Carried' /\ Kept'
    BY <1>1, <2>1, <2>2, <2>3 DEF Carried, Kept
  <2>5. Replaced'
    <3> SUFFICES ASSUME rotates, lost = 0 PROVE Replaced'
      BY <1>1 DEF Replaced
    <3>1. \A u \in Refreshers : refresh'[u].at # "write"
      BY <1>1, <2>2 DEF Replaced
    <3>2. stored'.token = live /\ stored.token < live
      BY <1>1, <2>1 DEF Replaced
    <3>3. \A u \in Refreshers : refresh'[u].at = "provider" => refresh'[u].token # stored'.token
      BY <2>2, <3>2 DEF Carried
    <3> QED
      BY <1>1, <3>1, <3>2, <3>3 DEF Replaced
  <2>6. LockHeld'
    BY <1>1, <2>1, <2>2 DEF LockHeld
  <2>7. OneProcess'
    <3> SUFFICES ASSUME \A u, v \in Refreshers : process[u] = process[v] PROVE OneProcess'
      BY <1>1 DEF OneProcess
    <3>1. \A u \in Refreshers : refresh'[u].at # "provider"
      BY <1>1, <2>2, LockExcludes
    <3>2. stored'.status = "active"
      BY <2>1
    <3> QED
      BY <1>1, <2>2, <3>1, <3>2 DEF OneProcess
  <2> QED
    BY <2>2, <2>4, <2>5, <2>6, <2>7
<1>3. CASE stored.version # refresh[w].version
  <2>1. refresh' = [refresh EXCEPT ![w] = [refresh[w] EXCEPT !.at = "reread"]] /\ UNCHANGED <<stored, mutex>>
    BY <1>3 DEF WriteCredential, CredentialAfterCAS, To
  <2>2. RefreshTypeOK' /\ refresh'[w].at = "reread" /\ \A u \in Refreshers \ {w} : refresh'[u] = refresh[u]
    BY <1>1, <2>1
  <2>3. ~(rotates /\ lost = 0)
    BY <1>1, <1>3 DEF Replaced
  <2> QED
    BY <1>1, <2>1, <2>2, <2>3 DEF Carried, Kept, Replaced, LockHeld, OneProcess
<1> QED
  BY <1>2, <1>3

\* The same write without its answer: the request still has the lock and
\* carries nothing any more.
LEMMA UnansweredStep ==
    ASSUME RefreshInv, NEW w \in Refreshers, WriteUnanswered(w)
    PROVE  RefreshInv'
<1> USE DEF RefreshInv, RefreshTypeOK, Locked
<1>1. /\ refresh[w].at = "write" /\ UNCHANGED <<live, rotates, process, mutex, lost>>
      /\ refresh' = [refresh EXCEPT ![w] = [refresh[w] EXCEPT !.at = "failed"]]
  BY DEF WriteUnanswered, To, worldVars
<1>2. CASE stored.version = refresh[w].version
  <2>1. stored' = [version |-> stored.version + 1, token |-> refresh[w].token, status |-> "active"]
    BY <1>2 DEF WriteUnanswered, CredentialAfterCAS
  <2>2. RefreshTypeOK' /\ refresh'[w].at = "failed" /\ \A u \in Refreshers \ {w} : refresh'[u] = refresh[u]
    BY <1>1, <2>1
  <2>3. stored.token <= refresh[w].token /\ refresh[w].token <= live
    BY <1>1, <1>2 DEF Carried
  <2>4. Carried' /\ Kept'
    BY <1>1, <2>1, <2>2, <2>3 DEF Carried, Kept
  <2>5. Replaced'
    <3> SUFFICES ASSUME rotates, lost = 0 PROVE Replaced'
      BY <1>1 DEF Replaced
    <3>1. \A u \in Refreshers : refresh'[u].at # "write"
      BY <1>1, <2>2 DEF Replaced
    <3>2. stored'.token = live /\ stored.token < live
      BY <1>1, <2>1 DEF Replaced
    <3>3. \A u \in Refreshers : refresh'[u].at = "provider" => refresh'[u].token # stored'.token
      BY <2>2, <3>2 DEF Carried
    <3> QED
      BY <1>1, <3>1, <3>2, <3>3 DEF Replaced
  <2>6. LockHeld'
    BY <1>1, <2>1, <2>2 DEF LockHeld
  <2>7. OneProcess'
    <3> SUFFICES ASSUME \A u, v \in Refreshers : process[u] = process[v] PROVE OneProcess'
      BY <1>1 DEF OneProcess
    <3>1. \A u \in Refreshers : refresh'[u].at # "provider"
      BY <1>1, <2>2, LockExcludes
    <3>2. stored'.status = "active"
      BY <2>1
    <3> QED
      BY <1>1, <2>2, <3>1, <3>2 DEF OneProcess
  <2> QED
    BY <2>2, <2>4, <2>5, <2>6, <2>7
<1>3. CASE stored.version # refresh[w].version
  <2>1. UNCHANGED stored
    BY <1>3 DEF WriteUnanswered, CredentialAfterCAS
  <2>2. RefreshTypeOK' /\ refresh'[w].at = "failed" /\ \A u \in Refreshers \ {w} : refresh'[u] = refresh[u]
    BY <1>1, <2>1
  <2>3. ~(rotates /\ lost = 0)
    BY <1>1, <1>3 DEF Replaced
  <2> QED
    BY <1>1, <2>1, <2>2, <2>3 DEF Carried, Kept, Replaced, LockHeld, OneProcess
<1> QED
  BY <1>2, <1>3

\* A read that fails leaves everything as it is.
LEMMA UnreadStep ==
    ASSUME RefreshInv, NEW w \in Refreshers, AccountUnread(w)
    PROVE  RefreshInv'
<1>1. /\ refresh[w].at \in {"read", "reread"}
      /\ refresh' = [refresh EXCEPT ![w] = [refresh[w] EXCEPT !.at = "failed"]]
      /\ UNCHANGED <<stored, live, rotates, process, mutex, lost>>
  BY DEF AccountUnread, To, worldVars
<1>2. RefreshTypeOK' /\ refresh'[w].at = "failed" /\ \A u \in Refreshers \ {w} : refresh'[u] = refresh[u]
  BY <1>1 DEF RefreshInv, RefreshTypeOK, Locked
<1>3. LockHeld'
  BY <1>1, <1>2 DEF LockHeld, RefreshInv, Locked
<1> QED
  BY <1>1, <1>2, <1>3, CarriesNothing DEF RefreshInv

\* A request that failed gives the lock back and then writes the status.
LEMMA FailureSteps ==
    ASSUME RefreshInv, NEW w \in Refreshers, GiveUp(w) \/ RecordRefreshFailure(w)
    PROVE  RefreshInv'
<1> USE DEF RefreshInv, RefreshTypeOK, worldVars, Locked
<1>1. CASE GiveUp(w)
  <2>1. /\ mutex' = [mutex EXCEPT ![process[w]] = NoRefresher] /\ mutex[process[w]] = w
        /\ refresh[w].at \in {"denied", "failed"}
        /\ UNCHANGED <<stored, live, rotates, process, refresh, lost>>
    BY <1>1 DEF GiveUp
  <2>2. RefreshTypeOK' /\ LockHeld'
    BY <2>1 DEF LockHeld
  <2> QED
    BY <2>1, <2>2 DEF Carried, Kept, Replaced, OneProcess
<1>2. CASE RecordRefreshFailure(w)
  <2>1. /\ \/ stored' = [stored EXCEPT !.status = IF refresh[w].at = "denied" THEN "auth_failed" ELSE "cooling_down"]
           \/ UNCHANGED stored
        /\ refresh[w].at \in {"denied", "failed"}
        /\ refresh' = [refresh EXCEPT ![w] = NoRefresh]
        /\ UNCHANGED <<live, rotates, process, mutex, lost>>
    BY <1>2 DEF RecordRefreshFailure, To
  <2>2. RefreshTypeOK' /\ refresh'[w].at = "idle" /\ \A u \in Refreshers \ {w} : refresh'[u] = refresh[u]
    BY <2>1 DEF NoRefresh
  <2>3. stored'.version = stored.version /\ stored'.token = stored.token
    BY <2>1
  <2>4. stored'.status = "auth_failed" => refresh[w].at = "denied" \/ stored.status = "auth_failed"
    BY <2>1
  <2> QED
    BY <2>1, <2>2, <2>3, <2>4 DEF Carried, Kept, Replaced, LockHeld, OneProcess
<1> QED
  BY <1>1, <1>2

\* Every step preserves the invariant.
LEMMA RefreshPreserved == RefreshInv /\ [RefreshNext]_refreshVars => RefreshInv'
<1> SUFFICES ASSUME RefreshInv, [RefreshNext]_refreshVars PROVE RefreshInv'
  OBVIOUS
<1>1. CASE UNCHANGED refreshVars
  BY <1>1 DEF refreshVars, RefreshInv, RefreshTypeOK, Carried, Kept, Replaced, LockHeld, OneProcess
<1>2. ASSUME NEW w \in Refreshers, Reread(w) PROVE RefreshInv'
  BY <1>2, ReturnStep DEF Reread, worldVars
<1>3. CASE RefreshNext
  BY <1>2, <1>3, ArrivalSteps, ReadStep, ProviderStep, LoseStep, WriteStep, UnansweredStep, UnreadStep, FailureSteps
     DEF RefreshNext, RefreshStep
<1> QED
  BY <1>1, <1>3

\* The stored credential advances one version at a time, with a token that is
\* not older, whichever replicas refresh it at the same time.
THEOREM CredentialAdvances == RefreshSpec => CredentialOnlyAdvances
<1> DEFINE Step == stored' # stored =>
                     \/ stored'.version = stored.version /\ stored'.token = stored.token
                     \/ stored'.version = stored.version + 1 /\ stored'.token >= stored.token
<1>1. RefreshInv /\ [RefreshNext]_refreshVars => [Step]_refreshVars
  <2> SUFFICES ASSUME RefreshInv, RefreshNext PROVE Step
    OBVIOUS
  <2>1. ASSUME NEW w \in Refreshers, WriteCredential(w) \/ WriteUnanswered(w) PROVE Step
    <3>0. refresh[w].at = "write" /\ stored' = CredentialAfterCAS(refresh[w])
      BY <2>1 DEF WriteCredential, WriteUnanswered
    <3>1. CASE stored.version = refresh[w].version
      <4>1. stored' = [version |-> stored.version + 1, token |-> refresh[w].token, status |-> "active"]
        BY <3>0, <3>1 DEF CredentialAfterCAS
      <4>2. refresh[w].token >= stored.token
        BY <3>0, <3>1 DEF RefreshInv, Carried
      <4> QED
        BY <4>1, <4>2
    <3>2. CASE stored.version # refresh[w].version
      BY <3>0, <3>2 DEF CredentialAfterCAS
    <3> QED
      BY <3>1, <3>2
  <2>2. ASSUME NEW w \in Refreshers, RecordRefreshFailure(w) PROVE Step
    BY <2>2 DEF RecordRefreshFailure, RefreshInv, RefreshTypeOK
  <2>3. ASSUME NEW w \in Refreshers,
               \/ Refused(w) \/ Lock(w) \/ ReadAccount(w) \/ AskProvider(w) \/ LoseAnswer(w)
               \/ Reread(w) \/ AccountUnread(w) \/ GiveUp(w)
        PROVE  Step
    BY <2>3 DEF Refused, Lock, ReadAccount, AskProvider, LoseAnswer, Reread, AccountUnread, GiveUp
  <2> QED
    BY <2>1, <2>2, <2>3 DEF RefreshNext, RefreshStep
<1> QED
  BY RefreshInitially, RefreshPreserved, <1>1, PTL DEF RefreshSpec, CredentialOnlyAdvances

\* As long as no answer and no write is lost, the provider accepts the stored
\* token, or the one request that has its successor is about to write it.
THEOREM CredentialIsKept == RefreshSpec => []CredentialNotLost
<1>1. RefreshInv => CredentialNotLost
  BY DEF RefreshInv, RefreshTypeOK, Kept, Replaced, CredentialNotLost
<1> QED
  BY RefreshInitially, RefreshPreserved, <1>1, PTL DEF RefreshSpec

\* In one process, for any number of requests, a refresh that is not
\* interrupted never marks the account as unauthorized.
THEOREM OneProcessIsNeverDenied == RefreshSpec => []NoFalseAuthFailure
<1>1. RefreshInv => NoFalseAuthFailure
  BY DEF RefreshInv, OneProcess, NoFalseAuthFailure
<1> QED
  BY RefreshInitially, RefreshPreserved, <1>1, PTL DEF RefreshSpec

\* What the run checks of the credential, for any requests and processes.
THEOREM CredentialStaysUsable == RefreshSpec => []CredentialUsable
<1>1. CredentialNotLost /\ NoFalseAuthFailure => CredentialUsable
  BY DEF CredentialUsable
<1> QED
  BY <1>1, CredentialIsKept, OneProcessIsNeverDenied, PTL

-----------------------------------------------------------------------------
(* Access tokens: entries are numbered, and a number never comes back.     *)

CallerStates == [at : {"new", "look", "wait", "exchange", "send", "done"},
                 entry : 0..MaxExchanges, used : 0..MaxExchanges, again : BOOLEAN]

\* A request that was refused has removed the entry it was refused for, which
\* no later exchange can bring back.
CallerOK(f) ==
    /\ f.entry <= issued
    /\ f.at \in {"exchange", "send"} => f.entry > 0
    /\ f.again => f.used \in 1..issued /\ f.used # cached
    /\ f.again /\ f.at \in {"exchange", "send"} => f.entry # f.used

TokenInv ==
    /\ issued \in 0..MaxExchanges
    /\ cached \in {NoEntry} \cup 1..issued /\ fresh \in BOOLEAN
    /\ fresh => cached # NoEntry
    /\ caller \in [Callers -> CallerStates]
    /\ \A c \in Callers : CallerOK(caller[c])

\* A request that is done carries no token and no claim on an entry.
LEMMA CallerDone ==
    [NewCaller EXCEPT !.at = "done"] \in CallerStates /\ [NewCaller EXCEPT !.at = "done"].again = FALSE
    /\ [NewCaller EXCEPT !.at = "done"].entry = 0 /\ [NewCaller EXCEPT !.at = "done"].at = "done"
<1>1. NewCaller \in CallerStates /\ NewCaller.again = FALSE /\ NewCaller.entry = 0
  BY TokenAssumption DEF NewCaller, CallerStates
<1>2. PICK f \in CallerStates : f = NewCaller
  BY <1>1
<1>3. PICK g : g = [f EXCEPT !.at = "done"]
  OBVIOUS
<1>4. 0 \in 0..MaxExchanges
  BY TokenAssumption
<1>5. g \in CallerStates /\ g.at = "done" /\ g.entry = f.entry /\ g.again = f.again
  BY <1>3, <1>4 DEF CallerStates
<1> QED
  BY <1>1, <1>2, <1>3, <1>5

\* One request goes on; entries are only added, and the map holds the newest
\* one, the one it held, or none.
LEMMA CallerGoesOn ==
    ASSUME TokenInv, NEW c \in Callers, NEW f \in CallerStates, Be(c, f),
           issued' \in issued..MaxExchanges,
           cached' \in {cached, NoEntry} \cup (issued + 1)..issued',
           fresh' \in BOOLEAN, fresh' => cached' # NoEntry,
           CallerOK(f)'
    PROVE  TokenInv'
<1> DEFINE g == IF f.at = "done" THEN [NewCaller EXCEPT !.at = "done"] ELSE f
<1>1. /\ caller \in [Callers -> CallerStates] /\ issued \in 0..MaxExchanges
      /\ cached \in {NoEntry} \cup 1..issued
      /\ \A d \in Callers : caller[d] \in CallerStates /\ CallerOK(caller[d])
  BY DEF TokenInv
<1>2. g \in CallerStates
  BY CallerDone
<1>3. CallerOK(g)'
  <2>1. CASE f.at = "done"
    <3>1. PICK h : h = [NewCaller EXCEPT !.at = "done"]
      OBVIOUS
    <3>2. g = h /\ h.at = "done" /\ h.again = FALSE /\ h.entry = 0
      BY <2>1, <3>1, CallerDone
    <3>3. CallerOK(h)'
      BY <1>1, <3>2, TokenAssumption DEF CallerOK
    <3> QED
      BY <3>2, <3>3
  <2>2. CASE f.at # "done"
    BY <2>2
  <2> QED
    BY <2>1, <2>2
<1>4. caller' = [caller EXCEPT ![c] = g]
  BY DEF Be
<1> HIDE DEF g
<1>5. caller' \in [Callers -> CallerStates] /\ caller'[c] = g /\ \A d \in Callers \ {c} : caller'[d] = caller[d]
  BY <1>1, <1>2, <1>4
<1>6. issued' \in 0..MaxExchanges /\ cached' \in {NoEntry} \cup 1..issued'
  BY <1>1, TokenAssumption
<1>7. ASSUME NEW d \in Callers
      PROVE  CallerOK(caller[d])'
  <2>1. CASE d = c
    BY <1>3, <1>5, <2>1 DEF CallerOK
  <2>2. CASE d # c
    BY <1>1, <1>5, <2>2, TokenAssumption DEF CallerOK, CallerStates
  <2> QED
    BY <2>1, <2>2
<1> QED
  BY <1>5, <1>6, <1>7 DEF TokenInv

\* token finds an entry or makes one; a refused token is never the one it
\* finds.
LEMMA LookKeepsTokens ==
    ASSUME TokenInv, NEW c \in Callers, Look(c)
    PROVE  TokenInv'
<1> DEFINE f == caller[c]
<1>1. /\ f \in CallerStates /\ CallerOK(f) /\ f.at = "look" /\ issued \in 0..MaxExchanges
      /\ cached \in {NoEntry} \cup 1..issued /\ fresh \in BOOLEAN /\ (fresh => cached # NoEntry)
  BY DEF TokenInv, Look
<1> HIDE DEF f
<1>2. CASE /\ cached \in Refreshing
           /\ Be(c, [f EXCEPT !.at = "wait", !.entry = cached])
           /\ UNCHANGED <<cached, fresh, issued>>
  <2>1. cached \in 0..MaxExchanges /\ cached <= issued
    <3>1. PICK d \in Callers : cached = caller[d].entry
      BY <1>2 DEF Refreshing
    <3> QED
      BY <3>1 DEF TokenInv, CallerOK, CallerStates
  <2>2. PICK g : g = [f EXCEPT !.at = "wait", !.entry = cached]
    OBVIOUS
  <2>2a. g \in CallerStates /\ g.at = "wait" /\ g.entry = cached /\ g.used = f.used /\ g.again = f.again
    <3>1. 0 \in 0..MaxExchanges /\ f.entry \in 0..MaxExchanges
      BY <1>1, TokenAssumption DEF CallerStates
    <3> QED
      BY <1>1, <2>1, <2>2 DEF CallerStates
  <2>3. CallerOK(g)'
    BY <1>1, <1>2, <2>1, <2>2a DEF CallerOK, CallerStates
  <2> QED
    BY <1>1, <1>2, <2>2, <2>2a, <2>3, TokenAssumption, CallerGoesOn
<1>3. CASE /\ fresh
           /\ Be(c, [f EXCEPT !.at = "send", !.entry = cached])
           /\ UNCHANGED <<cached, fresh, issued>>
  <2>1. cached \in 1..issued /\ cached \in 0..MaxExchanges
    BY <1>1, <1>3, TokenAssumption
  <2>2. PICK g : g = [f EXCEPT !.at = "send", !.entry = cached]
    OBVIOUS
  <2>2a. g \in CallerStates /\ g.at = "send" /\ g.entry = cached /\ g.used = f.used /\ g.again = f.again
    <3>1. 0 \in 0..MaxExchanges /\ f.entry \in 0..MaxExchanges
      BY <1>1, TokenAssumption DEF CallerStates
    <3> QED
      BY <1>1, <2>1, <2>2 DEF CallerStates
  <2>3. CallerOK(g)'
    BY <1>1, <1>3, <2>1, <2>2a DEF CallerOK, CallerStates
  <2> QED
    BY <1>1, <1>3, <2>2, <2>2a, <2>3, TokenAssumption, CallerGoesOn
<1>4. CASE /\ ~fresh /\ issued < MaxExchanges
           /\ issued' = issued + 1 /\ cached' = issued' /\ UNCHANGED fresh
           /\ Be(c, [f EXCEPT !.at = "exchange", !.entry = issued'])
  <2>1. PICK n \in 0..MaxExchanges : n = issued' /\ n > 0
    BY <1>1, <1>4, TokenAssumption
  <2>2. PICK g : g = [f EXCEPT !.at = "exchange", !.entry = n]
    OBVIOUS
  <2>2a. g \in CallerStates /\ g.at = "exchange" /\ g.entry = n /\ g.used = f.used /\ g.again = f.again
    <3>1. 0 \in 0..MaxExchanges /\ f.entry \in 0..MaxExchanges
      BY <1>1, TokenAssumption DEF CallerStates
    <3> QED
      BY <1>1, <2>1, <2>2 DEF CallerStates
  <2>3. CallerOK(g)'
    BY <1>1, <1>4, <2>1, <2>2a, TokenAssumption DEF CallerOK, CallerStates
  <2> QED
    BY <1>1, <1>4, <2>1, <2>2, <2>2a, <2>3, TokenAssumption, CallerGoesOn
<1> QED
  BY <1>2, <1>3, <1>4 DEF Look, f

\* The end of an exchange, of a request, and the turns that leave the map alone.
LEMMA CallerKeepsTokens ==
    ASSUME TokenInv, NEW c \in Callers, RequestToken(c) \/ Wake(c) \/ Exchange(c) \/ SendWithToken(c)
    PROVE  TokenInv'
<1> DEFINE f == caller[c]
<1>1. /\ f \in CallerStates /\ CallerOK(f) /\ issued \in 0..MaxExchanges
      /\ cached \in {NoEntry} \cup 1..issued /\ fresh \in BOOLEAN /\ (fresh => cached # NoEntry)
  BY DEF TokenInv
<1>2. UNCHANGED issued /\ issued' \in issued..MaxExchanges
  BY <1>1, TokenAssumption DEF RequestToken, Wake, Exchange, SendWithToken
<1>3. \/ /\ \E at \in {"look", "done"} : Be(c, [f EXCEPT !.at = at])
         /\ UNCHANGED <<cached, fresh>>
      \/ /\ f.at = "exchange" /\ Be(c, [f EXCEPT !.at = "send"])
         /\ fresh' = (fresh \/ cached = f.entry) /\ UNCHANGED cached
      \/ f.at = "exchange" /\ Be(c, [f EXCEPT !.at = "done"]) /\ cached' = NoEntry /\ fresh' = FALSE
      \/ /\ f.at = "send" /\ cached' = NoEntry /\ fresh' = FALSE
         /\ \E at \in {"look", "done"} : Be(c, [f EXCEPT !.at = at, !.used = f.entry, !.again = TRUE])
  BY DEF RequestToken, Wake, Exchange, SendWithToken
<1> HIDE DEF f
<1>4. ASSUME NEW at \in {"look", "done", "send"}, at = "send" => f.at = "exchange", Be(c, [f EXCEPT !.at = at]),
             cached' \in {cached, NoEntry}, fresh' \in BOOLEAN, fresh' => cached' # NoEntry
      PROVE  TokenInv'
  <2>1. PICK g : g = [f EXCEPT !.at = at]
    OBVIOUS
  <2>1a. g \in CallerStates /\ g.at = at /\ g.entry = f.entry /\ g.used = f.used /\ g.again = f.again
    <3>1. 0 \in 0..MaxExchanges /\ f.entry \in 0..MaxExchanges
      BY <1>1, TokenAssumption DEF CallerStates
    <3> QED
      BY <1>1, <2>1, <3>1, TokenAssumption DEF CallerStates
  <2>2. CallerOK(g)'
    BY <1>1, <1>2, <1>4, <2>1a, TokenAssumption DEF CallerOK, CallerStates
  <2> QED
    BY <1>2, <1>4, <2>1, <2>1a, <2>2, CallerGoesOn
<1>5. CASE f.at = "exchange" /\ fresh' = (fresh \/ cached = f.entry) /\ UNCHANGED cached
             /\ Be(c, [f EXCEPT !.at = "send"])
  <2>1. fresh' => cached' # NoEntry
    BY <1>1, <1>5, TokenAssumption DEF CallerOK, CallerStates
  <2> QED
    BY <1>1, <1>4, <1>5, <2>1
<1>6. ASSUME NEW at \in {"look", "done"}, Be(c, [f EXCEPT !.at = at, !.used = f.entry, !.again = TRUE]),
             f.at = "send", cached' = NoEntry, fresh' = FALSE
      PROVE  TokenInv'
  <2>1. PICK g : g = [f EXCEPT !.at = at, !.used = f.entry, !.again = TRUE]
    OBVIOUS
  <2>1a. g \in CallerStates /\ g.at = at /\ g.entry = f.entry /\ g.used = f.entry /\ g.again = TRUE
    <3>1. 0 \in 0..MaxExchanges /\ f.entry \in 0..MaxExchanges
      BY <1>1, TokenAssumption DEF CallerStates
    <3> QED
      BY <1>1, <2>1, <3>1, TokenAssumption DEF CallerStates
  <2>2. CallerOK(g)'
    BY <1>1, <1>2, <1>6, <2>1a, TokenAssumption DEF CallerOK, CallerStates
  <2> QED
    BY <1>2, <1>6, <2>1, <2>1a, <2>2, CallerGoesOn
<1> QED
  <2>1. ASSUME NEW at \in {"look", "done"}, Be(c, [f EXCEPT !.at = at]), UNCHANGED <<cached, fresh>>
        PROVE  TokenInv'
    BY <1>1, <1>4, <2>1
  <2>2. CASE f.at = "exchange" /\ Be(c, [f EXCEPT !.at = "done"]) /\ cached' = NoEntry /\ fresh' = FALSE
    BY <1>4, <2>2
  <2> QED
    BY <1>3, <1>5, <1>6, <2>1, <2>2

\* A request that was refused is repeated with another token, whatever other
\* requests put into the map and remove from it meanwhile.
THEOREM RetriesUseAnotherToken == TokenSpec => []RetryUsesAnotherToken
<1>1. TokenInit => TokenInv
  <2> SUFFICES ASSUME TokenInit PROVE TokenInv
    OBVIOUS
  <2>1. NewCaller \in CallerStates
    BY TokenAssumption DEF NewCaller, CallerStates
  <2>2. \A c \in Callers : CallerOK(caller[c])
    BY DEF TokenInit, CallerOK, NewCaller
  <2>3. issued \in 0..MaxExchanges /\ cached = NoEntry /\ fresh = FALSE
    BY TokenAssumption DEF TokenInit
  <2>4. caller \in [Callers -> CallerStates]
    BY <2>1 DEF TokenInit
  <2> QED
    BY <2>2, <2>3, <2>4 DEF TokenInv
<1>2. TokenInv /\ [TokenNext]_tokenVars => TokenInv'
  <2> SUFFICES ASSUME TokenInv, [TokenNext]_tokenVars PROVE TokenInv'
    OBVIOUS
  <2>1. CASE TokenAges \/ UNCHANGED tokenVars
    <3>1. UNCHANGED <<cached, issued, caller>> /\ (fresh' = FALSE \/ UNCHANGED fresh)
      BY <2>1 DEF TokenAges, tokenVars
    <3>2. \A c \in Callers : CallerOK(caller[c])'
      BY <3>1 DEF TokenInv, CallerOK
    <3>3. /\ issued \in 0..MaxExchanges /\ cached \in {NoEntry} \cup 1..issued /\ fresh \in BOOLEAN
          /\ fresh => cached # NoEntry
          /\ caller \in [Callers -> CallerStates]
      BY DEF TokenInv
    <3>4. /\ issued' \in 0..MaxExchanges /\ cached' \in {NoEntry} \cup 1..issued' /\ fresh' \in BOOLEAN
          /\ fresh' => cached' # NoEntry
          /\ caller' \in [Callers -> CallerStates]
      <4>1. CASE fresh' = FALSE
        BY <3>1, <3>3, <4>1
      <4>2. CASE UNCHANGED fresh
        BY <3>1, <3>3, <4>2
      <4> QED
        BY <3>1, <4>1, <4>2
    <3> QED
      BY <3>2, <3>4 DEF TokenInv
  <2> QED
    BY <2>1, LookKeepsTokens, CallerKeepsTokens DEF TokenNext, CallerStep
<1>3. TokenInv => RetryUsesAnotherToken
  BY DEF TokenInv, CallerOK, RetryUsesAnotherToken
<1> QED
  BY <1>1, <1>2, <1>3, PTL DEF TokenSpec

-----------------------------------------------------------------------------
(* The row: what the statements make of it.                                *)

\* A cooling row has the end of its cooldown; a row is unhealthy exactly while
\* its failures have reached the limit.
RowOK(r) ==
    /\ r.status = "cooling_down" => r.cooldown # NoTime
    /\ r.health = "unhealthy" <=> r.failures = UnhealthyAfter

\* What a statement makes of a row: its columns agree, and the next check is
\* where it was, a full interval away or at the end of a claim.
Good(r, s) == s \in Rows /\ RowOK(s) /\ s.next \in {r.next, CheckInterval, ClaimTime}

\* ... and it does not begin a cooldown.
GoodAndWarm(r, s) == Good(r, s) /\ (s.status = "cooling_down" => r.status = "cooling_down")

\* The columns of a row, each with its type.
LEMMA RowFields ==
    ASSUME NEW r \in Rows
    PROVE  /\ r.status \in Statuses /\ r.cooldown \in (0..MaxCooldown) \cup {NoTime}
           /\ r.health \in HealthStatuses /\ r.failures \in 0..UnhealthyAfter
           /\ r.next \in 0..CheckInterval /\ r.allowed \in BOOLEAN
  BY DEF Rows

\* The values the statements write are of those types.
LEMMA RowConstants ==
    /\ 0 \in 0..UnhealthyAfter /\ UnhealthyAfter \in 0..UnhealthyAfter /\ UnhealthyAfter # 0
    /\ CheckInterval \in 0..CheckInterval /\ 0 \in 0..CheckInterval
    /\ NoTime \in (0..MaxCooldown) \cup {NoTime} /\ NoTime \notin 0..MaxCooldown
  BY RowAssumption

\* The writes of status and cooldown alone.
LEMMA StatusWritten ==
    ASSUME NEW r \in Rows, RowOK(r), NEW s \in Statuses, NEW t \in (0..MaxCooldown) \cup {NoTime},
           s = "cooling_down" => t # NoTime, NEW g, g = [r EXCEPT !.status = s, !.cooldown = t]
    PROVE  Good(r, g) /\ g.status = s
<1>1. g \in Rows
  BY DEF Rows
<1>2. g.status = s /\ g.cooldown = t /\ g.health = r.health /\ g.failures = r.failures /\ g.next = r.next
  BY DEF Rows
<1> QED
  BY <1>1, <1>2 DEF Good, RowOK

\* The console enables or disables an account.
LEMMA AdministratorWrites ==
    ASSUME NEW r \in Rows, RowOK(r), NEW status \in {"active", "disabled"}
    PROVE  GoodAndWarm(r, UpdateProviderAccount(r, status))
<1> DEFINE t == IF status = "active" THEN NoTime ELSE r.cooldown
<1>1. t \in (0..MaxCooldown) \cup {NoTime} /\ status \in Statuses /\ status # "cooling_down"
  BY RowFields DEF Statuses
<1>2. PICK g : g = UpdateProviderAccount(r, status)
  OBVIOUS
<1>3. g = [r EXCEPT !.status = status, !.cooldown = t]
  BY <1>2 DEF UpdateProviderAccount
<1> HIDE DEF t
<1>4. g \in Rows
  BY <1>1, <1>3 DEF Rows
<1>5. g.status = status /\ g.cooldown = t /\ g.health = r.health /\ g.failures = r.failures /\ g.next = r.next
  BY <1>3 DEF Rows
<1> QED
  BY <1>1, <1>2, <1>4, <1>5 DEF GoodAndWarm, Good, RowOK

\* A refresh or a login stores a credential.
LEMMA CredentialWrites ==
    ASSUME NEW r \in Rows, RowOK(r)
    PROVE  GoodAndWarm(r, CredentialStored(r))
<1> DEFINE s == IF Held(r) THEN r.status ELSE "active"
           t == IF Held(r) THEN r.cooldown ELSE NoTime
<1>1. /\ t \in (0..MaxCooldown) \cup {NoTime} /\ s \in Statuses
      /\ s # "cooling_down"
  BY RowFields DEF Statuses, Held
<1>2. PICK g : g = CredentialStored(r)
  OBVIOUS
<1>3. g = [r EXCEPT !.status = s, !.cooldown = t]
  BY <1>2 DEF CredentialStored
<1> HIDE DEF s, t
<1>4. Good(r, g) /\ g.status = s
  BY <1>1, <1>3, StatusWritten
<1> QED
  BY <1>1, <1>2, <1>4 DEF GoodAndWarm

\* A usage flag is stored.
LEMMA UsageWrites ==
    ASSUME NEW r \in Rows, RowOK(r), NEW allowed \in BOOLEAN
    PROVE  GoodAndWarm(r, SetProviderUsageAllowed(r, allowed))
<1> DEFINE applies == \/ allowed /\ r.status = "exhausted"
                      \/ ~allowed /\ r.status \in {"active", "cooling_down", "exhausted"}
           s == IF ~applies THEN r.status ELSE IF allowed THEN "active" ELSE "exhausted"
           t == IF applies THEN NoTime ELSE r.cooldown
<1>1. /\ t \in (0..MaxCooldown) \cup {NoTime} /\ s \in Statuses
      /\ s = "cooling_down" => t # NoTime /\ r.status = "cooling_down"
  BY RowFields DEF Statuses, RowOK
<1>2. PICK g : g = SetProviderUsageAllowed(r, allowed)
  OBVIOUS
<1>3. g = [r EXCEPT !.status = s, !.cooldown = t]
  BY <1>2 DEF SetProviderUsageAllowed
<1> HIDE DEF s, t
<1>4. Good(r, g) /\ g.status = s
  BY <1>1, <1>3, StatusWritten
<1> QED
  BY <1>1, <1>2, <1>4 DEF GoodAndWarm

\* A cooldown that is over ends in an active account.
LEMMA ReactivationWrites ==
    ASSUME NEW r \in Rows, RowOK(r)
    PROVE  /\ GoodAndWarm(r, ReactivateProviderIfCooldownExpired(r))
           /\ CooldownOver(r) => ReactivateProviderIfCooldownExpired(r).status = "active"
<1>1. PICK g : g = ReactivateProviderIfCooldownExpired(r)
  OBVIOUS
<1>2. CASE CooldownOver(r)
  <2>1. g = [r EXCEPT !.status = "active", !.cooldown = NoTime] /\ "active" \in Statuses
    BY <1>1, <1>2 DEF ReactivateProviderIfCooldownExpired, Statuses
  <2>2. PICK s, t : s = "active" /\ t = NoTime
    OBVIOUS
  <2>3. /\ s \in Statuses /\ t \in (0..MaxCooldown) \cup {NoTime} /\ s # "cooling_down"
        /\ g = [r EXCEPT !.status = s, !.cooldown = t]
    BY <2>1, <2>2
  <2>4. Good(r, g) /\ g.status = s
    BY <2>3, StatusWritten
  <2> QED
    BY <1>1, <2>2, <2>3, <2>4 DEF GoodAndWarm
<1>3. CASE ~CooldownOver(r)
  BY <1>1, <1>3 DEF ReactivateProviderIfCooldownExpired, GoodAndWarm, Good
<1> QED
  BY <1>2, <1>3

\* The statement of the gateway: it also says what it thinks of the health.
LEMMA StatusWrites ==
    ASSUME NEW r \in Rows, RowOK(r), NEW status \in {"active", "auth_failed", "cooling_down"},
           NEW t \in (0..MaxCooldown) \cup {NoTime}, status = "cooling_down" => t # NoTime
    PROVE  /\ Good(r, UpdateProviderStatus(r, status, t))
           /\ UpdateProviderStatus(r, status, t).status = status
<1> DEFINE h == CASE status = "auth_failed" -> "unhealthy" [] status = "cooling_down" -> "healthy" [] OTHER -> r.health
           f == CASE status = "auth_failed" -> UnhealthyAfter [] status = "cooling_down" -> 0 [] OTHER -> r.failures
           n == IF status \in {"auth_failed", "cooling_down"} THEN CheckInterval ELSE r.next
<1>1. /\ h \in HealthStatuses /\ f \in 0..UnhealthyAfter /\ n \in {r.next, CheckInterval} /\ n \in 0..CheckInterval
      /\ h = "unhealthy" <=> f = UnhealthyAfter
  <2>1. CASE status = "auth_failed"
    BY <2>1, RowConstants DEF HealthStatuses
  <2>2. CASE status = "cooling_down"
    BY <2>2, RowConstants DEF HealthStatuses
  <2>3. CASE status = "active"
    BY <2>3, RowFields DEF RowOK
  <2> QED
    BY <2>1, <2>2, <2>3
<1>2. PICK g : g = UpdateProviderStatus(r, status, t)
  OBVIOUS
<1>3. g = [r EXCEPT !.status = status, !.cooldown = t, !.health = h, !.failures = f, !.next = n]
  BY <1>2 DEF UpdateProviderStatus
<1>4. status \in Statuses
  BY DEF Statuses
<1> HIDE DEF h, f, n
<1>5. g \in Rows
  BY <1>1, <1>3, <1>4 DEF Rows
<1>6. g.status = status /\ g.cooldown = t /\ g.health = h /\ g.failures = f /\ g.next = n
  BY <1>3 DEF Rows
<1> QED
  BY <1>1, <1>2, <1>5, <1>6 DEF Good, RowOK

\* A request that succeeded is recorded, unless the account is held.
LEMMA SuccessWrites ==
    ASSUME NEW r \in Rows, RowOK(r)
    PROVE  GoodAndWarm(r, RecordRequestSuccess(r))
<1> DEFINE s == IF Held(r) THEN r.status ELSE "active"
           t == IF Held(r) THEN r.cooldown ELSE NoTime
<1>1. t \in (0..MaxCooldown) \cup {NoTime} /\ s \in Statuses /\ s # "cooling_down"
  BY RowFields DEF Statuses, Held
<1>2. PICK g : g = RecordRequestSuccess(r)
  OBVIOUS
<1>3. g = [r EXCEPT !.status = s, !.cooldown = t, !.health = "healthy", !.failures = 0]
  BY <1>2 DEF RecordRequestSuccess
<1> HIDE DEF s, t
<1>4. 0 \in 0..UnhealthyAfter /\ UnhealthyAfter # 0 /\ "healthy" \in HealthStatuses
  BY RowConstants DEF HealthStatuses
<1>5. g \in Rows
  BY <1>1, <1>3, <1>4 DEF Rows
<1>6. g.status = s /\ g.cooldown = t /\ g.health = "healthy" /\ g.failures = 0 /\ g.next = r.next
  BY <1>3 DEF Rows
<1> QED
  BY <1>1, <1>2, <1>4, <1>5, <1>6 DEF GoodAndWarm, Good, RowOK

\* A result without a failure is stored.
LEMMA HealthWrites ==
    ASSUME NEW r \in Rows, RowOK(r), NEW health \in {"healthy", "unknown"}
    PROVE  GoodAndWarm(r, SetProviderHealth(r, health))
<1>1. PICK g : g = SetProviderHealth(r, health)
  OBVIOUS
<1>2. g = [r EXCEPT !.health = health, !.failures = 0, !.next = CheckInterval]
  BY <1>1 DEF SetProviderHealth
<1>3. 0 \in 0..UnhealthyAfter /\ UnhealthyAfter # 0 /\ health \in HealthStatuses /\ CheckInterval \in 0..CheckInterval
  BY RowConstants DEF HealthStatuses
<1>4. g \in Rows
  BY <1>2, <1>3 DEF Rows
<1>5. /\ g.status = r.status /\ g.cooldown = r.cooldown /\ g.health = health /\ g.failures = 0
      /\ g.next = CheckInterval
  BY <1>2 DEF Rows
<1> QED
  BY <1>1, <1>3, <1>4, <1>5 DEF GoodAndWarm, Good, RowOK

\* A failure counts up to the threshold and no further.
LEMMA FailureWrites ==
    ASSUME NEW r \in Rows, RowOK(r)
    PROVE  GoodAndWarm(r, RecordProviderHealthFailure(r))
<1> DEFINE f == IF r.failures + 1 > UnhealthyAfter THEN UnhealthyAfter ELSE r.failures + 1
           h == IF r.failures + 1 >= UnhealthyAfter THEN "unhealthy" ELSE r.health
<1>1. f \in 0..UnhealthyAfter /\ h \in HealthStatuses /\ CheckInterval \in 0..CheckInterval
  BY RowFields, RowAssumption DEF HealthStatuses
<1>2. h = "unhealthy" <=> f = UnhealthyAfter
  BY RowFields, RowAssumption DEF RowOK
<1>3. PICK g : g = RecordProviderHealthFailure(r)
  OBVIOUS
<1>4. g = [r EXCEPT !.failures = f, !.health = h, !.next = CheckInterval]
  BY <1>3 DEF RecordProviderHealthFailure
<1> HIDE DEF f, h
<1>5. g \in Rows
  BY <1>1, <1>4 DEF Rows
<1>6. g.status = r.status /\ g.cooldown = r.cooldown /\ g.health = h /\ g.failures = f /\ g.next = CheckInterval
  BY <1>4 DEF Rows
<1> QED
  BY <1>2, <1>3, <1>5, <1>6 DEF GoodAndWarm, Good, RowOK

\* Details with a quota, or the error in reading them, are stored.
LEMMA SnapshotWrites ==
    ASSUME NEW r \in Rows, RowOK(r), NEW allowed \in BOOLEAN
    PROVE  /\ GoodAndWarm(r, UpdateProviderDetailsWithQuota(r, allowed))
           /\ GoodAndWarm(r, SetProviderQuotaError(r))
<1>1. PICK g : g = [r EXCEPT !.allowed = allowed]
  OBVIOUS
<1>2. PICK e : e = [r EXCEPT !.next = CheckInterval]
  OBVIOUS
<1>3. CheckInterval \in 0..CheckInterval
  BY RowConstants
<1>4. g \in Rows /\ e \in Rows
  BY <1>1, <1>2, <1>3 DEF Rows
<1>5. /\ g.status = r.status /\ g.cooldown = r.cooldown /\ g.health = r.health /\ g.failures = r.failures
      /\ g.next = r.next
  BY <1>1 DEF Rows
<1>6. /\ e.status = r.status /\ e.cooldown = r.cooldown /\ e.health = r.health /\ e.failures = r.failures
      /\ e.next = CheckInterval
  BY <1>2 DEF Rows
<1>7. GoodAndWarm(r, g) /\ GoodAndWarm(r, e)
  BY <1>4, <1>5, <1>6 DEF GoodAndWarm, Good, RowOK
<1> QED
  BY <1>1, <1>2, <1>7 DEF UpdateProviderDetailsWithQuota, SetProviderQuotaError

\* A statement of a check, and what a request leaves.
LEMMA StoredWrites ==
    ASSUME NEW r \in Rows, RowOK(r), NEW statement \in Statements
    PROVE  GoodAndWarm(r, Stored(r, statement))
<1>1. NoTime \in (0..MaxCooldown) \cup {NoTime}
  OBVIOUS
<1>2. /\ Good(r, UpdateProviderStatus(r, "auth_failed", NoTime))
      /\ UpdateProviderStatus(r, "auth_failed", NoTime).status = "auth_failed"
  BY <1>1, StatusWrites
<1>3. CASE statement = "auth"
  BY <1>2, <1>3 DEF Stored, GoodAndWarm
<1>4. CASE statement \in {"quota_error", "details_allowed", "details_blocked"}
  BY <1>4, SnapshotWrites DEF Stored
<1>5. CASE statement \in {"usage_allowed", "usage_blocked"}
  BY <1>5, UsageWrites DEF Stored
<1>6. CASE statement \in {"healthy", "unknown"}
  BY <1>6, HealthWrites DEF Stored
<1>7. CASE statement = "failure"
  BY <1>7, FailureWrites DEF Stored
<1> QED
  BY <1>3, <1>4, <1>5, <1>6, <1>7 DEF Statements

\* What the gateway stores of an answer may begin a cooldown.
LEMMA RequestWrites ==
    ASSUME NEW r \in Rows, RowOK(r), NEW outcome \in Outcomes, NEW t \in Cooldowns(outcome)
    PROVE  Good(r, AfterRequest(r, outcome, t))
<1>1. CASE outcome = "limit"
  <2>1. t \in (0..MaxCooldown) \cup {NoTime} /\ t # NoTime
    BY <1>1, RowConstants DEF Cooldowns
  <2>2. Good(r, UpdateProviderStatus(r, "cooling_down", t))
    BY <2>1, StatusWrites
  <2> QED
    BY <1>1, <2>2 DEF AfterRequest
<1>2. CASE outcome = "auth"
  <2>1. NoTime \in (0..MaxCooldown) \cup {NoTime}
    OBVIOUS
  <2>2. Good(r, UpdateProviderStatus(r, "auth_failed", NoTime))
    BY <2>1, StatusWrites
  <2> QED
    BY <1>2, <2>2 DEF AfterRequest
<1>3. CASE outcome = "success"
  BY <1>3, SuccessWrites DEF AfterRequest, GoodAndWarm
<1>4. CASE outcome = "failed"
  BY <1>4, FailureWrites DEF AfterRequest, GoodAndWarm
<1>5. CASE outcome = "quota"
  BY <1>5, UsageWrites DEF AfterRequest, GoodAndWarm
<1>6. CASE outcome = "neutral"
  BY <1>6 DEF AfterRequest, Good
<1> QED
  BY <1>1, <1>2, <1>3, <1>4, <1>5, <1>6 DEF Outcomes

-----------------------------------------------------------------------------
(* The invariant: what a check in progress may rely on.                    *)

\* The longest wait of a claimed account for its turn in the batch.
QueueTime == ((Batch + Gate - 1) \div Gate - 1) * CheckTime

InProgress(c) == c.at \in {"queued", "probing"}

\* The claim covers what is left of the wait and of the check, and an account
\* that cools down is noticed: by the claim, or by the write that did it.
CheckOK(c, r) ==
    /\ c.at = "queued" => c.age <= QueueTime /\ r.next + c.age >= ClaimTime
    /\ c.at = "probing" => c.age <= CheckTime /\ r.next + c.age > CheckTime /\ ~c.cooling
    /\ InProgress(c) /\ ~c.cooling /\ ~c.recooled => r.status # "cooling_down"
    /\ c.at = "storing" => c.left # <<>>

\* Two checks of one account: one of them still has to end the cooldown, or a
\* request has begun another one since its claim.
PairOK(c, d) ==
    InProgress(c) /\ InProgress(d) => c.recooled \/ d.recooled \/ c.cooling \/ d.cooling

RowsOK == row \in [Accounts -> Rows] /\ \A a \in Accounts : RowOK(row[a])
ChecksOK ==
    /\ check \in [Workers -> [Accounts -> Checks]]
    /\ \A w \in Workers, a \in Accounts : CheckOK(check[w][a], row[a])
PairsOK == \A v, w \in Workers, a \in Accounts : v # w => PairOK(check[v][a], check[w][a])

HealthInv == HealthTypeOK /\ RowsOK /\ ChecksOK /\ PairsOK

\* A claim outlives the queue and the check together.
LEMMA HealthConstants ==
    /\ CheckTime \in Nat /\ ClaimTime \in Nat /\ CheckInterval \in Nat
    /\ 0 < CheckTime /\ CheckTime < ClaimTime /\ ClaimTime <= CheckInterval
    /\ QueueTime \in Nat /\ QueueTime + CheckTime < ClaimTime
<1>1. /\ Batch \in Nat \ {0} /\ Gate \in Nat \ {0} /\ CheckTime \in Nat \ {0}
      /\ ClaimTime \in 1..CheckInterval /\ CheckInterval \in Nat
      /\ QueueTime + CheckTime < ClaimTime
  BY HealthAssumption, RowAssumption DEF QueueTime
<1>2. PICK n : n = Batch + Gate - 1
  OBVIOUS
<1>3. n \in Nat /\ n >= Gate
  BY <1>1, <1>2
<1>4. PICK k : k = n \div Gate
  OBVIOUS
<1>5. k \in Nat /\ k >= 1
  BY <1>1, <1>3, <1>4
<1>6. PICK m : m = k - 1
  OBVIOUS
<1>7. m \in Nat
  BY <1>5, <1>6
<1>8. QueueTime = m * CheckTime
  BY <1>2, <1>4, <1>6 DEF QueueTime
<1>9. m * CheckTime \in Nat
  BY <1>1, <1>7
<1> QED
  BY <1>1, <1>8, <1>9

\* No check asks nothing of the row.
LEMMA NoCheckOK ==
    /\ NoCheck \in Checks /\ ~InProgress(NoCheck) /\ NoCheck.at = "none"
    /\ \A r : CheckOK(NoCheck, r)
<1>1. <<>> \in Seq(Statements)
  OBVIOUS
<1> QED
  BY <1>1 DEF NoCheck, Checks, InProgress, CheckOK

\* What a check relies on survives every statement of another writer.
LEMMA RowWritten ==
    ASSUME NEW r \in Rows, NEW s, GoodAndWarm(r, s), NEW c \in Checks, CheckOK(c, r)
    PROVE  CheckOK(c, s)
<1>1. s.next \in {r.next, CheckInterval, ClaimTime} /\ (s.status = "cooling_down" => r.status = "cooling_down")
  BY DEF GoodAndWarm, Good
<1>2. r.next \in Nat /\ c.age \in Nat
  BY HealthConstants DEF Rows, Checks
<1>3. c.at = "queued" => s.next + c.age >= ClaimTime
  BY <1>1, <1>2, HealthConstants DEF CheckOK
<1>4. c.at = "probing" => s.next + c.age > CheckTime
  BY <1>1, <1>2, HealthConstants DEF CheckOK
<1> QED
  BY <1>1, <1>3, <1>4 DEF CheckOK

\* ... and a cooldown that a request begins, once the checks have learnt of it.
Recooled(c, s) == [c EXCEPT !.recooled = @ \/ (c.at \in {"queued", "probing"} /\ s.status = "cooling_down")]

\* A check only remembers that its account was set to cooling down meanwhile.
LEMMA RecooledFields ==
    ASSUME NEW c \in Checks, NEW s
    PROVE  /\ Recooled(c, s) \in Checks
           /\ Recooled(c, s).at = c.at /\ Recooled(c, s).age = c.age /\ Recooled(c, s).left = c.left
           /\ Recooled(c, s).cooling = c.cooling
           /\ Recooled(c, s).recooled <=> c.recooled \/ (InProgress(c) /\ s.status = "cooling_down")
<1>1. PICK b : b = (c.recooled \/ (c.at \in {"queued", "probing"} /\ s.status = "cooling_down"))
  OBVIOUS
<1>2. PICK d : d = [c EXCEPT !.recooled = b]
  OBVIOUS
<1>3. Recooled(c, s) = d
  BY <1>1, <1>2 DEF Recooled
<1>4. b \in BOOLEAN
  BY <1>1
<1>5. d \in Checks
  BY <1>2, <1>4 DEF Checks
<1>6. d.at = c.at /\ d.age = c.age /\ d.left = c.left /\ d.cooling = c.cooling /\ d.recooled = b
  BY <1>2 DEF Checks
<1> QED
  BY <1>1, <1>3, <1>5, <1>6 DEF InProgress

\* A check that remembers this agrees with the row as it is written.
LEMMA RowRecooled ==
    ASSUME NEW r \in Rows, NEW s, Good(r, s), NEW c \in Checks, CheckOK(c, r)
    PROVE  CheckOK(Recooled(c, s), s)
<1>1. PICK d : d = Recooled(c, s)
  OBVIOUS
<1>2. /\ d.at = c.at /\ d.age = c.age /\ d.left = c.left /\ d.cooling = c.cooling
      /\ d.recooled <=> c.recooled \/ (InProgress(c) /\ s.status = "cooling_down")
  BY <1>1, RecooledFields
<1>3. s.next \in {r.next, CheckInterval, ClaimTime}
  BY DEF Good
<1>4. r.next \in Nat /\ c.age \in Nat
  BY HealthConstants DEF Rows, Checks
<1>5. c.at = "queued" => s.next + c.age >= ClaimTime
  BY <1>3, <1>4, HealthConstants DEF CheckOK
<1>6. c.at = "probing" => s.next + c.age > CheckTime
  BY <1>3, <1>4, HealthConstants DEF CheckOK
<1>7. CheckOK(d, s)
  BY <1>2, <1>5, <1>6 DEF CheckOK, InProgress
<1> QED
  BY <1>1, <1>7

\* A row that is left alone is fine.
LEMMA Untouched ==
    ASSUME NEW r \in Rows, RowOK(r)
    PROVE  GoodAndWarm(r, r)
  BY DEF GoodAndWarm, Good

-----------------------------------------------------------------------------
(* What the actions do to the rows and the checks.                         *)

Untangled == RowsOK /\ ChecksOK /\ PairsOK

\* What the invariant says of one account and one replica.
LEMMA HealthTyped ==
    ASSUME HealthInv, NEW a \in Accounts, NEW w \in Workers
    PROVE  row[a] \in Rows /\ RowOK(row[a]) /\ check[w][a] \in Checks /\ CheckOK(check[w][a], row[a])
  BY DEF HealthInv, RowsOK, ChecksOK

\* What the invariant says of one account.
LEMMA HealthTypedRow ==
    ASSUME HealthInv, NEW a \in Accounts
    PROVE  row[a] \in Rows /\ RowOK(row[a])
  BY DEF HealthInv, RowsOK

\* One row is written, by a writer that begins no cooldown.
LEMMA WarmWrite ==
    ASSUME HealthInv, NEW a \in Accounts, NEW s, GoodAndWarm(row[a], s),
           row' = [row EXCEPT ![a] = s], check' = check
    PROVE  Untangled'
<1>1. \A b \in Accounts : row'[b] \in Rows /\ GoodAndWarm(row[b], row'[b])
  BY HealthTypedRow, Untouched DEF HealthInv, RowsOK, GoodAndWarm, Good
<1>2. row' \in [Accounts -> Rows]
  BY <1>1 DEF HealthInv, RowsOK, GoodAndWarm, Good
<1>3. \A b \in Accounts : RowOK(row'[b])
  BY <1>1 DEF GoodAndWarm, Good
<1>4. \A w \in Workers, b \in Accounts : CheckOK(check'[w][b], row'[b])
  BY <1>1, HealthTyped, RowWritten
<1> QED
  BY <1>2, <1>3, <1>4 DEF HealthInv, Untangled, RowsOK, ChecksOK, PairsOK

\* One row is written, perhaps with a new cooldown.
LEMMA RecoolingWrite ==
    ASSUME HealthInv, NEW a \in Accounts, NEW s, Good(row[a], s),
           row' = [row EXCEPT ![a] = s], Recool(a, s)
    PROVE  Untangled'
<1>1. /\ row' \in [Accounts -> Rows] /\ row'[a] = s
      /\ \A b \in Accounts \ {a} : row'[b] = row[b]
  BY DEF HealthInv, RowsOK, Good
<1>2. \A b \in Accounts : RowOK(row'[b])
  BY <1>1 DEF HealthInv, RowsOK, Good
<1>3. check' = [w \in Workers |-> [check[w] EXCEPT ![a] = Recooled(check[w][a], s)]]
  BY DEF Recool, Recooled
<1>4. \A w \in Workers : Recooled(check[w][a], s) \in Checks
  BY HealthTyped, RecooledFields
<1>5. /\ \A w \in Workers : check'[w][a] = Recooled(check[w][a], s)
      /\ \A w \in Workers : \A b \in Accounts \ {a} : check'[w][b] = check[w][b]
  BY <1>3 DEF HealthInv, ChecksOK
<1>6. check' \in [Workers -> [Accounts -> Checks]]
  BY <1>3, <1>4 DEF HealthInv, ChecksOK
<1>7. \A w \in Workers, b \in Accounts : CheckOK(check'[w][b], row'[b])
  <2> TAKE w \in Workers, b \in Accounts
  <2>1. CASE b = a
    BY <2>1, <1>1, <1>5, HealthTyped, RowRecooled
  <2>2. CASE b # a
    BY <2>2, <1>1, <1>5, HealthTyped
  <2> QED
    BY <2>1, <2>2
<1>8. \A v, w \in Workers, b \in Accounts : v # w => PairOK(check'[v][b], check'[w][b])
  <2> SUFFICES ASSUME NEW v \in Workers, NEW w \in Workers, NEW b \in Accounts, v # w
               PROVE  PairOK(check'[v][b], check'[w][b])
    OBVIOUS
  <2>1. PairOK(check[v][b], check[w][b])
    BY DEF HealthInv, PairsOK
  <2>2. CASE b = a
    <3>1. PICK c, d : c = check[v][a] /\ d = check[w][a]
      OBVIOUS
    <3>2. c \in Checks /\ d \in Checks
      BY <3>1, HealthTyped
    <3>3. check'[v][b] = Recooled(c, s) /\ check'[w][b] = Recooled(d, s)
      BY <2>2, <3>1, <1>5
    <3>4. /\ Recooled(c, s).at = c.at /\ Recooled(c, s).cooling = c.cooling
          /\ c.recooled => Recooled(c, s).recooled
      BY <3>2, RecooledFields
    <3>5. /\ Recooled(d, s).at = d.at /\ Recooled(d, s).cooling = d.cooling
          /\ d.recooled => Recooled(d, s).recooled
      BY <3>2, RecooledFields
    <3> QED
      BY <2>1, <2>2, <3>1, <3>3, <3>4, <3>5 DEF PairOK, InProgress
  <2>3. CASE b # a
    BY <2>1, <2>3, <1>5
  <2> QED
    BY <2>2, <2>3
<1> QED
  BY <1>1, <1>2, <1>6, <1>7, <1>8 DEF Untangled, RowsOK, ChecksOK, PairsOK

\* One check moves on, and writes its row or not.
LEMMA CheckMoves ==
    ASSUME HealthInv, NEW w \in Workers, NEW a \in Accounts, NEW s, NEW d \in Checks,
           GoodAndWarm(row[a], s), row' = [row EXCEPT ![a] = s],
           check' = [check EXCEPT ![w][a] = d], CheckOK(d, s),
           \A v \in Workers : v # w => PairOK(d, check[v][a])
    PROVE  Untangled'
<1>1. \A b \in Accounts : row'[b] \in Rows /\ GoodAndWarm(row[b], row'[b])
  BY HealthTypedRow, Untouched DEF HealthInv, RowsOK, GoodAndWarm, Good
<1>2. row' \in [Accounts -> Rows] /\ row'[a] = s
  BY <1>1 DEF HealthInv, RowsOK, GoodAndWarm, Good
<1>3. \A b \in Accounts : RowOK(row'[b])
  BY <1>1 DEF GoodAndWarm, Good
<1>4. /\ check'[w][a] = d /\ check' \in [Workers -> [Accounts -> Checks]]
      /\ \A v \in Workers, b \in Accounts : v # w \/ b # a => check'[v][b] = check[v][b]
  BY DEF HealthInv, ChecksOK
<1>5. \A v \in Workers, b \in Accounts : CheckOK(check'[v][b], row'[b])
  <2> TAKE v \in Workers, b \in Accounts
  <2>1. CASE v = w /\ b = a
    BY <2>1, <1>2, <1>4
  <2>2. CASE v # w \/ b # a
    BY <2>2, <1>1, <1>4, HealthTyped, RowWritten
  <2> QED
    BY <2>1, <2>2
<1>6. \A u, v \in Workers, b \in Accounts : u # v => PairOK(check'[u][b], check'[v][b])
  <2> SUFFICES ASSUME NEW u \in Workers, NEW v \in Workers, NEW b \in Accounts, u # v
               PROVE  PairOK(check'[u][b], check'[v][b])
    OBVIOUS
  <2>1. PairOK(check[u][b], check[v][b])
    BY DEF HealthInv, PairsOK
  <2>2. CASE u = w /\ b = a
    BY <2>2, <1>4
  <2>3. CASE v = w /\ b = a
    <3>1. PairOK(d, check[u][a])
      BY <2>3
    <3> QED
      BY <2>3, <3>1, <1>4 DEF PairOK
  <2>4. CASE b # a \/ (u # w /\ v # w)
    BY <2>1, <2>4, <1>4
  <2> QED
    BY <2>2, <2>3, <2>4
<1> QED
  BY <1>2, <1>3, <1>4, <1>5, <1>6 DEF Untangled, RowsOK, ChecksOK, PairsOK

\* ... or ends.
LEMMA ChecksEnd ==
    ASSUME HealthInv, row' = row, check' \in [Workers -> [Accounts -> Checks]],
           \A w \in Workers, a \in Accounts : check'[w][a] = check[w][a] \/ check'[w][a] = NoCheck
    PROVE  Untangled'
<1>1. \A w \in Workers, a \in Accounts : CheckOK(check'[w][a], row'[a])
  BY HealthTyped, NoCheckOK
<1>2. \A v, w \in Workers, a \in Accounts : v # w => PairOK(check'[v][a], check'[w][a])
  BY NoCheckOK DEF HealthInv, PairsOK, PairOK
<1> QED
  BY <1>1, <1>2 DEF HealthInv, Untangled, RowsOK, ChecksOK, PairsOK

\* Everything else is a matter of types.
LEMMA HealthKept ==
    ASSUME HealthInv, Untangled',
           /\ provider' \in [Accounts -> Providers]
           /\ inFlight' \in [Accounts -> 0..MaxInFlight]
           /\ throttle' \in [Accounts -> 0..ActivityTTL]
           /\ reset' \in [Accounts -> BOOLEAN \cup {NoTime}]
           /\ ordered' \in [Accounts -> {"active", "disabled"}]
           /\ calm' \in BOOLEAN
    PROVE  HealthInv'
  BY DEF HealthInv, HealthTypeOK, Untangled, RowsOK, ChecksOK

-----------------------------------------------------------------------------
(* Each action preserves the invariant.                                    *)

\* A claim moves the time of the next check and nothing else.
LEMMA Claimed ==
    ASSUME NEW r \in Rows, RowOK(r)
    PROVE  GoodAndWarm(r, [r EXCEPT !.next = ClaimTime])
<1>1. PICK g : g = [r EXCEPT !.next = ClaimTime]
  OBVIOUS
<1>2. ClaimTime \in 0..CheckInterval
  BY HealthConstants
<1>3. g \in Rows
  BY <1>1, <1>2 DEF Rows
<1>4. /\ g.status = r.status /\ g.cooldown = r.cooldown /\ g.health = r.health /\ g.failures = r.failures
      /\ g.next = ClaimTime
  BY <1>1 DEF Rows
<1>5. GoodAndWarm(r, g)
  BY <1>3, <1>4 DEF GoodAndWarm, Good, RowOK
<1> QED
  BY <1>1, <1>5

\* The check of an account that has just been claimed.
LEMMA ClaimedCheck ==
    ASSUME NEW r \in Rows, NEW s \in Rows, s.next = ClaimTime, s.status = r.status,
           NEW c, c = [NoCheck EXCEPT !.at = "queued", !.cooling = (r.status = "cooling_down")]
    PROVE  /\ c \in Checks /\ CheckOK(c, s)
           /\ c.cooling <=> r.status = "cooling_down"
<1>1. PICK b : b = (r.status = "cooling_down")
  OBVIOUS
<1>2. PICK n : n = NoCheck
  OBVIOUS
<1>3. n \in Checks /\ n.age = 0 /\ n.recooled = FALSE /\ b \in BOOLEAN
  BY <1>1, <1>2, NoCheckOK DEF NoCheck
<1>4. c = [n EXCEPT !.at = "queued", !.cooling = b]
  BY <1>1, <1>2
<1>5. c \in Checks /\ c.at = "queued" /\ c.age = 0 /\ c.cooling = b /\ c.recooled = FALSE
  BY <1>3, <1>4 DEF Checks
<1>6. 0 <= QueueTime /\ s.next + c.age >= ClaimTime
  BY <1>5, HealthConstants
<1> QED
  BY <1>1, <1>5, <1>6 DEF CheckOK, InProgress

\* The claim of a batch: due rows get a later time and a check in the queue.
LEMMA ClaimHealthStep ==
    ASSUME HealthInv, NEW w \in Workers, ClaimProviderHealthChecks(w)
    PROVE  HealthInv'
<1>1. PICK claimed \in SUBSET Accounts :
        /\ \A a \in claimed : Due(row[a])
        /\ row' = [a \in Accounts |-> IF a \in claimed THEN [row[a] EXCEPT !.next = ClaimTime] ELSE row[a]]
        /\ check' = [check EXCEPT ![w] = [a \in Accounts |->
               IF a \in claimed THEN [NoCheck EXCEPT !.at = "queued", !.cooling = (row[a].status = "cooling_down")] ELSE NoCheck]]
  BY DEF ClaimProviderHealthChecks, ClaimedUntil
<1>2. \A a \in Accounts : GoodAndWarm(row[a], row'[a])
  BY <1>1, HealthTypedRow, Untouched, Claimed
<1>3. row' \in [Accounts -> Rows] /\ \A a \in Accounts : RowOK(row'[a])
  BY <1>1, <1>2 DEF GoodAndWarm, Good
<1>4. \A a \in claimed : row'[a].next = ClaimTime /\ row'[a].status = row[a].status /\ row[a] \in Rows /\ row'[a] \in Rows
  <2> TAKE a \in claimed
  <2>1. PICK r : r = row[a]
    OBVIOUS
  <2>2. r \in Rows /\ row'[a] = [r EXCEPT !.next = ClaimTime] /\ row'[a] \in Rows
    BY <1>1, <1>3, <2>1, HealthTypedRow
  <2> QED
    BY <2>1, <2>2 DEF Rows
<1>5. /\ \A v \in Workers, a \in Accounts : v # w => check'[v][a] = check[v][a]
      /\ \A a \in Accounts \ claimed : check'[w][a] = NoCheck
      /\ \A a \in claimed : check'[w][a] = [NoCheck EXCEPT !.at = "queued", !.cooling = (row[a].status = "cooling_down")]
  BY <1>1 DEF HealthInv, ChecksOK
<1>6. \A a \in claimed : /\ check'[w][a] \in Checks /\ CheckOK(check'[w][a], row'[a])
                         /\ check'[w][a].cooling <=> row[a].status = "cooling_down"
  <2> TAKE a \in claimed
  <2>1. PICK r, s, c : r = row[a] /\ s = row'[a] /\ c = check'[w][a]
    OBVIOUS
  <2>2. r \in Rows /\ s \in Rows /\ s.next = ClaimTime /\ s.status = r.status
    BY <2>1, <1>4
  <2>3. c = [NoCheck EXCEPT !.at = "queued", !.cooling = (r.status = "cooling_down")]
    BY <2>1, <1>5
  <2>4. c \in Checks /\ CheckOK(c, s) /\ (c.cooling <=> r.status = "cooling_down")
    BY <2>2, <2>3, ClaimedCheck
  <2> QED
    BY <2>1, <2>4
<1>7. \A a \in Accounts : check'[w][a] \in Checks /\ CheckOK(check'[w][a], row'[a])
  BY <1>5, <1>6, NoCheckOK
<1>8. check' \in [Workers -> [Accounts -> Checks]]
  <2>1. check'[w] \in [Accounts -> Checks]
    BY <1>1, <1>7 DEF HealthInv, ChecksOK
  <2> QED
    BY <1>1, <2>1 DEF HealthInv, ChecksOK
<1>9. \A v \in Workers, a \in Accounts : CheckOK(check'[v][a], row'[a])
  <2> TAKE v \in Workers, a \in Accounts
  <2>1. CASE v = w
    BY <2>1, <1>7
  <2>2. CASE v # w
    BY <2>2, <1>2, <1>5, HealthTyped, RowWritten
  <2> QED
    BY <2>1, <2>2
\* A claimed account whose check still goes on has a claim in force: it is due
\* because its cooldown is over.
<1>10. \A a \in claimed, v \in Workers : v # w /\ InProgress(check[v][a]) => check'[w][a].cooling
  <2> SUFFICES ASSUME NEW a \in claimed, NEW v \in Workers, v # w, InProgress(check[v][a])
               PROVE  check'[w][a].cooling
    OBVIOUS
  <2>1. PICK r, c : r = row[a] /\ c = check[v][a]
    OBVIOUS
  <2>2. r \in Rows /\ c \in Checks /\ CheckOK(c, r) /\ InProgress(c) /\ Due(r)
    BY <2>1, <1>1, HealthTyped
  <2>3. r.next \in Nat /\ c.age \in Nat
    BY <2>2, HealthConstants DEF Rows, Checks
  <2>4. r.next # 0
    BY <2>2, <2>3, HealthConstants DEF CheckOK, InProgress
  <2>5. r.status = "cooling_down"
    BY <2>2, <2>4 DEF Due, CooldownOver
  <2> QED
    BY <2>1, <2>5, <1>6
<1>11. \A u, v \in Workers, a \in Accounts : u # v => PairOK(check'[u][a], check'[v][a])
  <2> SUFFICES ASSUME NEW u \in Workers, NEW v \in Workers, NEW a \in Accounts, u # v
               PROVE  PairOK(check'[u][a], check'[v][a])
    OBVIOUS
  <2>1. PairOK(check[u][a], check[v][a])
    BY DEF HealthInv, PairsOK
  <2>2. CASE u = w
    <3>1. check'[v][a] = check[v][a]
      BY <2>2, <1>5
    <3>2. CASE a \in claimed
      <4>1. InProgress(check'[v][a]) => check'[u][a].cooling
        BY <2>2, <3>1, <3>2, <1>10
      <4> QED
        BY <4>1 DEF PairOK
    <3>3. CASE a \notin claimed
      <4>1. ~InProgress(check'[u][a])
        BY <2>2, <3>3, <1>5, NoCheckOK
      <4> QED
        BY <4>1 DEF PairOK
    <3> QED
      BY <3>2, <3>3
  <2>3. CASE v = w
    <3>1. check'[u][a] = check[u][a]
      BY <2>3, <1>5
    <3>2. CASE a \in claimed
      <4>1. InProgress(check'[u][a]) => check'[v][a].cooling
        BY <2>3, <3>1, <3>2, <1>10
      <4> QED
        BY <4>1 DEF PairOK
    <3>3. CASE a \notin claimed
      <4>1. ~InProgress(check'[v][a])
        BY <2>3, <3>3, <1>5, NoCheckOK
      <4> QED
        BY <4>1 DEF PairOK
    <3> QED
      BY <3>2, <3>3
  <2>4. CASE u # w /\ v # w
    BY <2>1, <2>4, <1>5
  <2> QED
    BY <2>2, <2>3, <2>4
<1>12. Untangled'
  BY <1>3, <1>8, <1>9, <1>11 DEF Untangled, RowsOK, ChecksOK, PairsOK
<1> QED
  BY <1>12, HealthKept DEF ClaimProviderHealthChecks, HealthInv, HealthTypeOK

\* A restart forgets checks; their claims run out.
LEMMA RestartStep ==
    ASSUME HealthInv, NEW w \in Workers, Restart(w)
    PROVE  HealthInv'
<1>1. check' = [check EXCEPT ![w] = [a \in Accounts |-> NoCheck]] /\ row' = row
  BY DEF Restart
<1>2. \A v \in Workers, a \in Accounts : check'[v][a] = check[v][a] \/ check'[v][a] = NoCheck
  BY <1>1 DEF HealthInv, ChecksOK
<1>3. [a \in Accounts |-> NoCheck] \in [Accounts -> Checks]
  BY NoCheckOK
<1>4. check' \in [Workers -> [Accounts -> Checks]]
  BY <1>1, <1>3 DEF HealthInv, ChecksOK
<1>5. Untangled'
  BY <1>1, <1>2, <1>4, ChecksEnd
<1> QED
  BY <1>5, HealthKept DEF Restart, HealthInv, HealthTypeOK

\* The providers answer again: neither rows nor checks change.
LEMMA SettleStep ==
    ASSUME HealthInv, Settle
    PROVE  HealthInv'
<1>1. PICK w \in Workers : check' = [v \in Workers |-> IF v = w THEN check[v] ELSE [a \in Accounts |-> NoCheck]]
  BY DEF Settle
<1>2. \A v \in Workers, a \in Accounts : check'[v][a] = check[v][a] \/ check'[v][a] = NoCheck
  BY <1>1
<1>3. [a \in Accounts |-> NoCheck] \in [Accounts -> Checks]
  BY NoCheckOK
<1>4. check' \in [Workers -> [Accounts -> Checks]]
  BY <1>1, <1>3 DEF HealthInv, ChecksOK
<1>5. row' = row
  BY DEF Settle
<1>6. Untangled'
  BY <1>2, <1>4, <1>5, ChecksEnd
<1> QED
  BY <1>6, HealthKept DEF Settle, HealthInv, HealthTypeOK

\* The check of one account.
LEMMA RowKept ==
    ASSUME HealthInv, NEW a \in Accounts, row' = row
    PROVE  row' = [row EXCEPT ![a] = row[a]] /\ GoodAndWarm(row[a], row[a])
<1>1. row \in [Accounts -> Rows]
  BY DEF HealthInv, RowsOK
<1> QED
  BY <1>1, HealthTypedRow, Untouched

\* A check that is not in progress is entangled with no other.
LEMMA CheckCopied ==
    ASSUME HealthInv, NEW w \in Workers, NEW a \in Accounts, NEW d \in Checks,
           ~InProgress(d)
    PROVE  \A v \in Workers : v # w => PairOK(d, check[v][a])
  BY DEF PairOK

\* A check that found its account cooling down is dropped.
LEMMA DropStep ==
    ASSUME HealthInv, NEW w \in Workers, NEW a \in Accounts, Drop(w, a), row' = row
    PROVE  Untangled'
<1>1. check' = [check EXCEPT ![w][a] = NoCheck]
  BY DEF Drop
<1>2. NoCheck \in Checks /\ CheckOK(NoCheck, row[a]) /\ ~InProgress(NoCheck)
  BY NoCheckOK
<1>3. \A v \in Workers : v # w => PairOK(NoCheck, check[v][a])
  BY <1>2, CheckCopied
<1>4. row' = [row EXCEPT ![a] = row[a]] /\ GoodAndWarm(row[a], row[a])
  BY RowKept
<1> QED
  BY <1>1, <1>2, <1>3, <1>4, CheckMoves

\* A check that cannot store its result is dropped.
LEMMA CheckLostStep ==
    ASSUME HealthInv, NEW w \in Workers, NEW a \in Accounts, CheckLost(w, a)
    PROVE  HealthInv'
<1>1. Drop(w, a) /\ row' = row
  BY DEF CheckLost
<1>2. Untangled'
  BY <1>1, DropStep
<1> QED
  BY <1>2, HealthKept DEF CheckLost, HealthInv, HealthTypeOK

\* A check begins: whoever else looks at the account while it no longer cools
\* down still has the cooldown to end, or knows of a later one.
LEMMA BeginStep ==
    ASSUME HealthInv, NEW w \in Workers, NEW a \in Accounts, check[w][a].at = "queued", Begin(w, a),
           \/ ~check[w][a].cooling /\ row' = row
           \/ CooldownOver(row[a]) /\ Write(a, ReactivateProviderIfCooldownExpired(row[a]))
    PROVE  Untangled'
<1>1. PICK r, c : r = row[a] /\ c = check[w][a]
  OBVIOUS
<1>2. r \in Rows /\ RowOK(r) /\ c \in Checks /\ CheckOK(c, r) /\ c.at = "queued"
  BY <1>1, HealthTyped
<1>3. PICK d : d = [c EXCEPT !.at = "probing", !.age = 0, !.cooling = FALSE]
  OBVIOUS
<1>4. check' = [check EXCEPT ![w][a] = d]
  BY <1>1, <1>3 DEF Begin
<1>5. PICK s : /\ GoodAndWarm(r, s) /\ row' = [row EXCEPT ![a] = s] /\ s.next = r.next
               /\ \/ ~c.cooling /\ s = r
                  \/ CooldownOver(r) /\ s.status # "cooling_down"
  <2>1. CASE ~check[w][a].cooling /\ row' = row
    BY <2>1, <1>1, RowKept
  <2>2. CASE CooldownOver(row[a]) /\ Write(a, ReactivateProviderIfCooldownExpired(row[a]))
    <3>1. PICK s : s = ReactivateProviderIfCooldownExpired(r)
      OBVIOUS
    <3>2. GoodAndWarm(r, s) /\ s.status = "active"
      BY <2>2, <1>1, <1>2, <3>1, ReactivationWrites
    <3>3. s = [r EXCEPT !.status = "active", !.cooldown = NoTime]
      BY <2>2, <1>1, <3>1 DEF ReactivateProviderIfCooldownExpired
    <3>4. s.next = r.next
      BY <1>2, <3>3 DEF Rows
    <3>5. row' = [row EXCEPT ![a] = s]
      BY <2>2, <1>1, <3>1 DEF Write
    <3> QED
      BY <2>2, <1>1, <3>2, <3>4, <3>5
  <2> QED
    BY <2>1, <2>2
<1>6. s \in Rows /\ (s.status # "cooling_down" \/ s.status = r.status) /\ (c.cooling => s.status # "cooling_down")
  BY <1>5 DEF GoodAndWarm, Good
<1>7. d \in Checks /\ CheckOK(d, s) /\ d.recooled = c.recooled /\ d.at = "probing" /\ ~d.cooling
  <2>1. d \in Checks
    BY <1>2, <1>3 DEF Checks
  <2>2. d.recooled = c.recooled /\ d.at = "probing" /\ d.cooling = FALSE /\ d.age = 0
    BY <1>2, <1>3 DEF Checks
  <2>3. r.next \in Nat /\ c.age \in Nat
    BY <1>2, HealthConstants DEF Rows, Checks
  <2>4. s.next > CheckTime
    BY <1>2, <1>5, <2>3, HealthConstants DEF CheckOK
  <2>5. s.next + d.age > CheckTime /\ d.age <= CheckTime
    <3>1. s.next \in Nat
      BY <1>5, <2>3, HealthConstants
    <3> QED
      BY <2>2, <2>4, <3>1, HealthConstants
  <2>6. ~d.recooled => s.status # "cooling_down"
    <3>1. CASE c.cooling
      BY <3>1, <1>6
    <3>2. CASE ~c.cooling /\ ~c.recooled
      BY <3>2, <1>2, <1>6 DEF CheckOK, InProgress
    <3> QED
      BY <2>2, <3>1, <3>2
  <2> QED
    BY <2>1, <2>2, <2>5, <2>6 DEF CheckOK
<1>8. \A v \in Workers : v # w => PairOK(d, check[v][a])
  <2> SUFFICES ASSUME NEW v \in Workers, v # w
               PROVE  PairOK(d, check[v][a])
    OBVIOUS
  <2>1. PICK e : e = check[v][a]
    OBVIOUS
  <2>2. PairOK(c, e)
    BY <1>1, <2>1 DEF HealthInv, PairsOK
  <2>3. CheckOK(e, r)
    BY <1>1, <2>1, HealthTyped
  <2>4. CASE ~c.cooling
    BY <2>1, <2>2, <2>4, <1>2, <1>7 DEF PairOK, InProgress
  <2>5. CASE CooldownOver(r)
    BY <2>1, <2>3, <2>5 DEF PairOK, CheckOK, CooldownOver
  <2> QED
    BY <1>5, <2>4, <2>5
<1> QED
  BY <1>1, <1>4, <1>5, <1>7, <1>8, CheckMoves

\* A queued check gets its slot and looks at the row.
LEMMA StartStep ==
    ASSUME HealthInv, NEW w \in Workers, NEW a \in Accounts, StartCheck(w, a)
    PROVE  HealthInv'
<1>1. Untangled'
  <2>1. CASE ~check[w][a].cooling
    BY <2>1, BeginStep DEF StartCheck
  <2>2. CASE CooldownOver(row[a]) /\ Begin(w, a) /\ Write(a, ReactivateProviderIfCooldownExpired(row[a]))
    BY <2>2, BeginStep DEF StartCheck
  <2>3. CASE Drop(w, a) /\ row' = row
    BY <2>3, DropStep
  <2> QED
    BY <2>1, <2>2, <2>3 DEF StartCheck
<1> QED
  BY <1>1, HealthKept DEF StartCheck, HealthInv, HealthTypeOK

\* The console checks an account without a claim.
LEMMA ConsoleStep ==
    ASSUME HealthInv, NEW w \in Workers, NEW a \in Accounts, CheckAccount(w, a)
    PROVE  HealthInv'
<1>1. PICK r, c : r = row[a] /\ c = check[w][a]
  OBVIOUS
<1>2. r \in Rows /\ RowOK(r) /\ c \in Checks /\ c = NoCheck
  BY <1>1, HealthTyped DEF CheckAccount
<1>3. PICK s : s = ReactivateProviderIfCooldownExpired(r)
  OBVIOUS
<1>4. GoodAndWarm(r, s)
  BY <1>2, <1>3, ReactivationWrites
<1>5. PICK d : d = [c EXCEPT !.at = "console"]
  OBVIOUS
<1>6. d \in Checks /\ d.at = "console"
  BY <1>2, <1>5 DEF Checks
<1>7. CheckOK(d, s) /\ ~InProgress(d)
  BY <1>6 DEF CheckOK, InProgress
<1>8. row' = [row EXCEPT ![a] = s] /\ check' = [check EXCEPT ![w][a] = d]
  BY <1>1, <1>3, <1>5 DEF CheckAccount, Write
<1>9. \A v \in Workers : v # w => PairOK(d, check[v][a])
  BY <1>6, <1>7, CheckCopied
<1>10. Untangled'
  BY <1>1, <1>4, <1>6, <1>7, <1>8, <1>9, CheckMoves
<1> QED
  BY <1>10, HealthKept DEF CheckAccount, HealthInv, HealthTypeOK

\* What persist is given is never empty.
LEMMA PersistTypes ==
    ASSUME NEW p \in Providers, NEW result \in checkResults[p], NEW statements \in persist(result)
    PROVE  statements \in Seq(Statements) /\ statements # <<>>
<1>1. p \in {"codex", "copilot", "openai_compatible", "antigravity"}
  BY HealthAssumption
<1>2. result \in {"auth", "failure", "unknown", "healthy", "quota_failed"} \cup Measured
  BY <1>1 DEF checkResults, classifyError, classifyCodexQuotaError, classifyCopilotQuotaError, antigravityQuotaFailure,
              compatibleHealth, checkAntigravity, Measured
<1>3. CASE result \in {"auth", "failure", "unknown", "healthy"}
  <2>1. statements = <<result>> \/ statements = <<result, "quota_error">>
    BY <1>3 DEF persist
  <2>2. PICK e, q \in Statements : statements = <<e>> \/ statements = <<e, q>>
    BY <1>3, <2>1 DEF Statements
  <2>3. CASE statements = <<e>>
    BY <2>3
  <2>4. CASE statements = <<e, q>>
    BY <2>4
  <2> QED
    BY <2>2, <2>3, <2>4
<1>4. CASE result = "quota_failed"
  <2>1. statements = <<"quota_error">> /\ "quota_error" \in Statements
    BY <1>4 DEF persist, Statements
  <2> QED
    BY <2>1
<1>5. CASE result = "reachable"
  <2>1. PICK u, d \in Statements : statements = <<u, d>>
    BY <1>5 DEF persist, Statements
  <2> QED
    BY <2>1
<1>6. CASE result \in {"allowed", "blocked"}
  <2>1. PICK u, h, d \in Statements : statements = <<u, h, d>>
    BY <1>6 DEF persist, Statements
  <2> QED
    BY <2>1
<1> QED
  BY <1>2, <1>3, <1>4, <1>5, <1>6 DEF Measured

\* The probe answers, and its result becomes up to three statements.
LEMMA EndStep ==
    ASSUME HealthInv, NEW w \in Workers, NEW a \in Accounts, EndCheck(w, a)
    PROVE  HealthInv'
<1>1. PICK result \in checkResults[provider[a]] : \E statements \in persist(result) :
        check' = [check EXCEPT ![w][a] = [NoCheck EXCEPT !.at = "storing", !.left = statements]]
  BY DEF EndCheck
<1>a. PICK statements \in persist(result) :
        check' = [check EXCEPT ![w][a] = [NoCheck EXCEPT !.at = "storing", !.left = statements]]
  BY <1>1
<1>2. provider[a] \in Providers
  BY DEF HealthInv, HealthTypeOK
<1>3. statements \in Seq(Statements) /\ statements # <<>>
  BY <1>a, <1>2, PersistTypes
<1>4. PICK n : n = NoCheck
  OBVIOUS
<1>5. PICK d : d = [n EXCEPT !.at = "storing", !.left = statements]
  OBVIOUS
<1>6. d \in Checks /\ d.at = "storing" /\ d.left = statements
  BY <1>3, <1>4, <1>5, NoCheckOK DEF Checks
<1>7. CheckOK(d, row[a]) /\ ~InProgress(d)
  BY <1>3, <1>6 DEF CheckOK, InProgress
<1>8. check' = [check EXCEPT ![w][a] = d]
  BY <1>a, <1>4, <1>5
<1>9. \A v \in Workers : v # w => PairOK(d, check[v][a])
  BY <1>6, <1>7, CheckCopied
<1>10. row' = [row EXCEPT ![a] = row[a]] /\ GoodAndWarm(row[a], row[a])
  BY RowKept DEF EndCheck
<1>11. Untangled'
  BY <1>6, <1>7, <1>8, <1>9, <1>10, CheckMoves
<1> QED
  BY <1>11, HealthKept DEF EndCheck, HealthInv, HealthTypeOK

\* Each of these statements writes a row whose columns agree.
LEMMA PersistStepOK ==
    ASSUME HealthInv, NEW w \in Workers, NEW a \in Accounts, PersistStep(w, a)
    PROVE  HealthInv'
<1>1. PICK r, c : r = row[a] /\ c = check[w][a]
  OBVIOUS
<1>2. r \in Rows /\ RowOK(r) /\ c \in Checks /\ c.at = "storing" /\ c.left # <<>>
  BY <1>1, HealthTyped DEF PersistStep, CheckOK
<1>3. PICK left : left = c.left
  OBVIOUS
<1>4. left \in Seq(Statements) /\ left # <<>>
  BY <1>2, <1>3 DEF Checks
<1>5. Head(left) \in Statements /\ Tail(left) \in Seq(Statements) /\ (Len(left) # 1 => Tail(left) # <<>>)
  <2>1. Len(left) \in Nat /\ Len(left) # 0
    BY <1>4
  <2>2. Head(left) \in Statements /\ Tail(left) \in Seq(Statements)
    BY <1>4
  <2>3. Len(Tail(left)) = Len(left) - 1
    BY <1>4
  <2>4. Len(left) # 1 => Len(Tail(left)) # 0
    BY <2>1, <2>3
  <2>5. PICK rest : rest = Tail(left)
    OBVIOUS
  <2>6. Len(left) # 1 => rest # <<>>
    BY <2>4, <2>5
  <2> QED
    BY <2>2, <2>5, <2>6
<1>6. PICK s : s = Stored(r, Head(left))
  OBVIOUS
<1>7. GoodAndWarm(r, s)
  BY <1>2, <1>5, <1>6, StoredWrites
<1>8. PICK e : e = [c EXCEPT !.left = Tail(left)]
  OBVIOUS
<1>9. e \in Checks /\ e.at = "storing" /\ e.left = Tail(left)
  BY <1>2, <1>5, <1>8 DEF Checks
<1>10. PICK d : d = IF Len(left) = 1 THEN NoCheck ELSE e
  OBVIOUS
<1>11. d \in Checks /\ ~InProgress(d) /\ CheckOK(d, s)
  <2>1. CASE Len(left) = 1
    BY <2>1, <1>10, NoCheckOK
  <2>2. CASE Len(left) # 1
    BY <2>2, <1>5, <1>9, <1>10 DEF InProgress, CheckOK
  <2> QED
    BY <2>1, <2>2
<1>12. row' = [row EXCEPT ![a] = s] /\ check' = [check EXCEPT ![w][a] = d]
  BY <1>1, <1>3, <1>6, <1>8, <1>10 DEF PersistStep, Write
<1>13. \A v \in Workers : v # w => PairOK(d, check[v][a])
  BY <1>11, CheckCopied
<1>14. Untangled'
  BY <1>1, <1>7, <1>11, <1>12, <1>13, CheckMoves
<1> QED
  BY <1>14, HealthKept DEF PersistStep, HealthInv, HealthTypeOK

\* A request is under way: the row is as it was.
LEMMA SendStep ==
    ASSUME HealthInv, NEW a \in Accounts, Send(a)
    PROVE  HealthInv'
<1>1. inFlight' \in [Accounts -> 0..MaxInFlight]
  BY HealthAssumption DEF Send, HealthInv, HealthTypeOK
<1>2. Untangled'
  BY DEF Send, HealthInv, Untangled, RowsOK, ChecksOK, PairsOK
<1> QED
  BY <1>1, <1>2, HealthKept DEF Send, HealthInv, HealthTypeOK

\* Its answer is recorded in the row as it is by then.
LEMMA AnswerStep ==
    ASSUME HealthInv, NEW a \in Accounts, Answer(a)
    PROVE  HealthInv'
<1>1. inFlight' \in [Accounts -> 0..MaxInFlight]
  BY HealthAssumption DEF Answer, HealthInv, HealthTypeOK
<1>2. PICK outcome \in Outcomes : \E cooldown \in Cooldowns(outcome) :
        LET swallowed == outcome = "success" /\ throttle[a] > 0
            r == IF swallowed THEN row[a] ELSE AfterRequest(row[a], outcome, cooldown)
        IN  /\ Write(a, r) /\ Recool(a, r)
            /\ throttle' = [throttle EXCEPT ![a] = IF outcome = "success" /\ @ = 0 THEN ActivityTTL ELSE @]
  BY DEF Answer
<1>3. PICK cooldown \in Cooldowns(outcome) :
        LET swallowed == outcome = "success" /\ throttle[a] > 0
            r == IF swallowed THEN row[a] ELSE AfterRequest(row[a], outcome, cooldown)
        IN  /\ Write(a, r) /\ Recool(a, r)
            /\ throttle' = [throttle EXCEPT ![a] = IF outcome = "success" /\ @ = 0 THEN ActivityTTL ELSE @]
  BY <1>2
<1>4. throttle' \in [Accounts -> 0..ActivityTTL]
  BY <1>3, HealthAssumption DEF HealthInv, HealthTypeOK
<1>5. PICK s : /\ s \in {row[a], AfterRequest(row[a], outcome, cooldown)}
               /\ Write(a, s) /\ Recool(a, s)
  BY <1>3
<1>6. Good(row[a], s)
  BY <1>5, HealthTypedRow, Untouched, RequestWrites DEF GoodAndWarm
<1>7. Untangled'
  BY <1>5, <1>6, RecoolingWrite DEF Write
<1> QED
  BY <1>1, <1>4, <1>7, HealthKept DEF Answer, HealthInv, HealthTypeOK

\* The console refreshes a credential.
LEMMA ManualRefreshStep ==
    ASSUME HealthInv, NEW a \in Accounts, ManualRefresh(a)
    PROVE  HealthInv'
<1>1. PICK s \in {CredentialStored(row[a]), UpdateProviderStatus(row[a], "auth_failed", NoTime)}
                 \cup {UpdateProviderStatus(row[a], "cooling_down", t) : t \in Cooldowns("limit")} :
        Write(a, s) /\ Recool(a, s)
  BY DEF ManualRefresh
<1>2. Good(row[a], s)
  <2>1. CASE s = CredentialStored(row[a])
    BY <2>1, HealthTypedRow, CredentialWrites DEF GoodAndWarm
  <2>2. CASE s = UpdateProviderStatus(row[a], "auth_failed", NoTime)
    <3>1. s = AfterRequest(row[a], "auth", NoTime) /\ NoTime \in Cooldowns("auth") /\ "auth" \in Outcomes
      BY <2>2 DEF AfterRequest, Cooldowns, Outcomes
    <3> QED
      BY <3>1, HealthTypedRow, RequestWrites
  <2>3. CASE s \in {UpdateProviderStatus(row[a], "cooling_down", t) : t \in Cooldowns("limit")}
    <3>1. PICK t \in Cooldowns("limit") : s = UpdateProviderStatus(row[a], "cooling_down", t)
      BY <2>3
    <3>2. s = AfterRequest(row[a], "limit", t) /\ "limit" \in Outcomes
      BY <3>1 DEF AfterRequest, Outcomes
    <3> QED
      BY <3>2, HealthTypedRow, RequestWrites
  <2> QED
    BY <1>1, <2>1, <2>2, <2>3
<1>3. Untangled'
  BY <1>1, <1>2, RecoolingWrite DEF Write
<1> QED
  BY <1>3, HealthKept DEF ManualRefresh, HealthInv, HealthTypeOK

\* The console sets the status.
LEMMA SetStatusStep ==
    ASSUME HealthInv, NEW a \in Accounts, NEW status \in {"active", "disabled"}, SetStatus(a, status)
    PROVE  HealthInv'
<1>1. GoodAndWarm(row[a], UpdateProviderAccount(row[a], status))
  BY HealthTypedRow, AdministratorWrites
<1>2. Untangled'
  BY <1>1, WarmWrite DEF SetStatus, Write
<1>3. ordered' \in [Accounts -> {"active", "disabled"}]
  BY DEF SetStatus, HealthInv, HealthTypeOK
<1> QED
  BY <1>2, <1>3, HealthKept DEF SetStatus, HealthInv, HealthTypeOK

\* A redemption begins: the row is as it was.
LEMMA ResetStartStep ==
    ASSUME HealthInv, NEW a \in Accounts, ResetStart(a)
    PROVE  HealthInv'
<1>1. PICK b \in BOOLEAN : reset' = [reset EXCEPT ![a] = b]
  <2>1. (row[a].status \in {"cooling_down", "exhausted"}) \in BOOLEAN
    OBVIOUS
  <2> QED
    BY <2>1 DEF ResetStart
<1>2. reset' \in [Accounts -> BOOLEAN \cup {NoTime}]
  BY <1>1 DEF HealthInv, HealthTypeOK
<1>3. Untangled'
  BY DEF ResetStart, HealthInv, Untangled, RowsOK, ChecksOK, PairsOK
<1> QED
  BY <1>2, <1>3, HealthKept DEF ResetStart, HealthInv, HealthTypeOK

\* Two statements in one step are as good as their composition.
LEMMA GoodThrough ==
    ASSUME NEW r, NEW s, NEW t, GoodAndWarm(r, s), GoodAndWarm(s, t)
    PROVE  GoodAndWarm(r, t)
  BY DEF GoodAndWarm, Good

\* The quota read after a redemption is stored.
LEMMA ResetStoredStep ==
    ASSUME HealthInv, NEW a \in Accounts, persistResetQuota(a)
    PROVE  HealthInv'
<1>1. PICK r : r = row[a]
  OBVIOUS
<1>2. r \in Rows /\ RowOK(r)
  BY <1>1, HealthTypedRow
<1>3. PICK s \in {SetProviderUsageAllowed(UpdateProviderDetailsWithQuota(r, TRUE), TRUE),
                  UpdateProviderStatus(r, "active", NoTime), r} :
        Write(a, s)
  BY <1>1 DEF persistResetQuota
<1>4. GoodAndWarm(r, s)
  <2>1. CASE s = SetProviderUsageAllowed(UpdateProviderDetailsWithQuota(r, TRUE), TRUE)
    <3>1. PICK q : q = UpdateProviderDetailsWithQuota(r, TRUE)
      OBVIOUS
    <3>2. GoodAndWarm(r, q)
      BY <1>2, <3>1, SnapshotWrites
    <3>3. q \in Rows /\ RowOK(q) /\ s = SetProviderUsageAllowed(q, TRUE)
      BY <2>1, <3>1, <3>2 DEF GoodAndWarm, Good
    <3>4. GoodAndWarm(q, s)
      BY <3>3, UsageWrites
    <3> QED
      BY <3>2, <3>4 DEF GoodAndWarm, Good
  <2>2. CASE s = UpdateProviderStatus(r, "active", NoTime)
    <3>1. PICK status, t : status = "active" /\ t = NoTime
      OBVIOUS
    <3>2. /\ status \in {"active", "auth_failed", "cooling_down"} /\ t \in (0..MaxCooldown) \cup {NoTime}
          /\ status = "cooling_down" => t # NoTime
      BY <3>1
    <3>3. Good(r, UpdateProviderStatus(r, status, t)) /\ UpdateProviderStatus(r, status, t).status = status
      BY <1>2, <3>2, StatusWrites
    <3> QED
      BY <2>2, <3>1, <3>3 DEF GoodAndWarm
  <2>3. CASE s = r
    BY <2>3, <1>2, Untouched
  <2> QED
    BY <1>3, <2>1, <2>2, <2>3
<1>5. Untangled'
  BY <1>1, <1>3, <1>4, WarmWrite DEF persistResetQuota, Write
<1>6. reset' \in [Accounts -> BOOLEAN \cup {NoTime}]
  BY DEF persistResetQuota, HealthInv, HealthTypeOK
<1> QED
  BY <1>5, <1>6, HealthKept DEF persistResetQuota, HealthInv, HealthTypeOK

\* A tick takes from the claim what it adds to the age of the check.
LEMMA AgedRow ==
    ASSUME NEW r \in Rows, RowOK(r)
    PROVE  /\ Aged(r) \in Rows /\ RowOK(Aged(r)) /\ Aged(r).status = r.status
           /\ Aged(r).next = IF r.next = 0 THEN 0 ELSE r.next - 1
<1> DEFINE t == IF r.cooldown = NoTime \/ r.cooldown = 0 THEN r.cooldown ELSE r.cooldown - 1
           n == IF r.next = 0 THEN 0 ELSE r.next - 1
<1>1. t \in (0..MaxCooldown) \cup {NoTime} /\ (t = NoTime <=> r.cooldown = NoTime)
  BY RowFields, RowAssumption
<1>2. n \in 0..CheckInterval
  BY RowFields, RowAssumption
<1>3. PICK g : g = Aged(r)
  OBVIOUS
<1>4. g = [r EXCEPT !.cooldown = t, !.next = n]
  BY <1>3 DEF Aged
<1> HIDE DEF t, n
<1>5. g \in Rows
  BY <1>1, <1>2, <1>4 DEF Rows
<1>6. g.status = r.status /\ g.cooldown = t /\ g.health = r.health /\ g.failures = r.failures /\ g.next = n
  BY <1>4 DEF Rows
<1>7. RowOK(g)
  BY <1>1, <1>6 DEF RowOK
<1> QED
  BY <1>3, <1>5, <1>6, <1>7 DEF n

\* A check grows a minute older within its patience, as its claim does.
LEMMA AgedCheck ==
    ASSUME NEW r \in Rows, RowOK(r), NEW c \in Checks, CheckOK(c, r), c.at # "none", c.age < Patience(c)
    PROVE  LET d == [c EXCEPT !.age = @ + 1]
           IN  d \in Checks /\ CheckOK(d, Aged(r)) /\ d.at = c.at /\ d.cooling = c.cooling /\ d.recooled = c.recooled
<1>1. PICK d : d = [c EXCEPT !.age = @ + 1]
  OBVIOUS
<1>2. c.age + 1 \in Nat /\ c.age \in Nat /\ r.next \in Nat
  BY HealthConstants DEF Checks, Rows
<1>3. d \in Checks /\ d.at = c.at /\ d.cooling = c.cooling /\ d.recooled = c.recooled /\ d.left = c.left /\ d.age = c.age + 1
  BY <1>1, <1>2 DEF Checks
<1>4. PICK s : s = Aged(r)
  OBVIOUS
<1>5. s.status = r.status /\ s.next = IF r.next = 0 THEN 0 ELSE r.next - 1
  BY <1>4, AgedRow
<1>6. c.at = "queued" => d.age <= QueueTime /\ s.next + d.age >= ClaimTime
  <2> SUFFICES ASSUME c.at = "queued"
               PROVE  d.age <= QueueTime /\ s.next + d.age >= ClaimTime
    OBVIOUS
  <2>1. c.age < QueueTime
    BY DEF Patience, QueueTime
  <2>2. r.next + c.age >= ClaimTime
    BY DEF CheckOK
  <2> QED
    BY <1>2, <1>3, <1>5, <2>1, <2>2, HealthConstants
<1>7. c.at = "probing" => d.age <= CheckTime /\ s.next + d.age > CheckTime
  <2> SUFFICES ASSUME c.at = "probing"
               PROVE  d.age <= CheckTime /\ s.next + d.age > CheckTime
    OBVIOUS
  <2>1. c.age < CheckTime
    BY DEF Patience
  <2>2. r.next + c.age > CheckTime
    BY DEF CheckOK
  <2> QED
    BY <1>2, <1>3, <1>5, <2>1, <2>2, HealthConstants
<1>8. CheckOK(d, s)
  BY <1>3, <1>5, <1>6, <1>7 DEF CheckOK, InProgress
<1> QED
  BY <1>1, <1>3, <1>4, <1>8

\* A minute passes for every row and every check at once.
LEMMA TickStep ==
    ASSUME HealthInv, HealthTick
    PROVE  HealthInv'
<1>1. /\ row' = [a \in Accounts |-> Aged(row[a])]
      /\ throttle' = [a \in Accounts |-> IF throttle[a] = 0 THEN 0 ELSE throttle[a] - 1]
      /\ check' = [w \in Workers |-> [a \in Accounts |->
             IF check[w][a].at = "none" THEN NoCheck ELSE [check[w][a] EXCEPT !.age = @ + 1]]]
      /\ \A w \in Workers, a \in Accounts : check[w][a].at # "none" => check[w][a].age < Patience(check[w][a])
  BY DEF HealthTick
<1>2. RowsOK'
  BY <1>1, HealthTypedRow, AgedRow DEF RowsOK
<1>3. throttle' \in [Accounts -> 0..ActivityTTL]
  <2>1. ActivityTTL \in Nat
    BY HealthAssumption
  <2>2. \A n \in 0..ActivityTTL : (IF n = 0 THEN 0 ELSE n - 1) \in 0..ActivityTTL
    BY <2>1
  <2>3. throttle \in [Accounts -> 0..ActivityTTL]
    BY DEF HealthInv, HealthTypeOK
  <2>4. \A a \in Accounts : (IF throttle[a] = 0 THEN 0 ELSE throttle[a] - 1) \in 0..ActivityTTL
    BY <2>2, <2>3
  <2> QED
    BY <1>1, <2>4
<1>4. \A w \in Workers, a \in Accounts :
        \/ check[w][a].at = "none" /\ check'[w][a] = NoCheck
        \/ check[w][a].at # "none" /\ check'[w][a] = [check[w][a] EXCEPT !.age = @ + 1]
  BY <1>1
<1>5. \A w \in Workers, a \in Accounts :
        /\ check'[w][a] \in Checks /\ CheckOK(check'[w][a], row'[a])
        /\ InProgress(check'[w][a]) => /\ check'[w][a].at = check[w][a].at
                                       /\ check'[w][a].cooling = check[w][a].cooling
                                       /\ check'[w][a].recooled = check[w][a].recooled
  <2> TAKE w \in Workers, a \in Accounts
  <2>1. CASE check[w][a].at = "none"
    BY <2>1, <1>4, NoCheckOK
  <2>2. CASE check[w][a].at # "none"
    <3>1. PICK c, r, d : c = check[w][a] /\ r = row[a] /\ d = check'[w][a]
      OBVIOUS
    <3>2. /\ r \in Rows /\ RowOK(r) /\ c \in Checks /\ CheckOK(c, r) /\ c.at # "none" /\ c.age < Patience(c)
          /\ row'[a] = Aged(r)
      BY <2>2, <3>1, <1>1, HealthTyped
    <3>3. d = [c EXCEPT !.age = @ + 1]
      BY <2>2, <3>1, <1>4
    <3>4. d \in Checks /\ CheckOK(d, Aged(r)) /\ d.at = c.at /\ d.cooling = c.cooling /\ d.recooled = c.recooled
      BY <3>2, <3>3, AgedCheck
    <3> QED
      BY <3>1, <3>2, <3>4
  <2> QED
    BY <2>1, <2>2
<1>6. ChecksOK'
  BY <1>1, <1>5 DEF ChecksOK
<1>7. \A v, w \in Workers, a \in Accounts : v # w => PairOK(check'[v][a], check'[w][a])
  <2> SUFFICES ASSUME NEW v \in Workers, NEW w \in Workers, NEW a \in Accounts, v # w
               PROVE  PairOK(check'[v][a], check'[w][a])
    OBVIOUS
  <2>1. PairOK(check[v][a], check[w][a])
    BY DEF HealthInv, PairsOK
  <2> QED
    BY <2>1, <1>5 DEF PairOK, InProgress
<1>8. Untangled'
  BY <1>2, <1>6, <1>7 DEF Untangled, PairsOK
<1> QED
  BY <1>3, <1>8, HealthKept DEF HealthTick, HealthInv, HealthTypeOK
-----------------------------------------------------------------------------
\* The rows as accounts are created satisfy the invariant.
LEMMA HealthInitOK == HealthInit => HealthInv
<1> SUFFICES ASSUME HealthInit
             PROVE  HealthInv
  OBVIOUS
<1>1. \A result \in {"healthy", "blocked", "failure"} : ApplyNewAccount(result) \in Rows /\ RowOK(ApplyNewAccount(result))
  <2>1. PICK n : n = NewRow
    OBVIOUS
  <2>2. CheckInterval \in 0..CheckInterval /\ 0 \in 0..UnhealthyAfter /\ 1 \in 0..UnhealthyAfter
        /\ UnhealthyAfter # 0 /\ UnhealthyAfter # 1
    BY RowAssumption
  <2>3. n \in Rows /\ n.status = "active" /\ n.cooldown = NoTime /\ n.health = "healthy" /\ n.failures = 0
    BY <2>1, <2>2 DEF NewRow, Rows, Statuses, HealthStatuses
  <2>4. PICK b : b = [n EXCEPT !.status = "exhausted", !.allowed = FALSE]
    OBVIOUS
  <2>5. b \in Rows /\ RowOK(b)
    <3>1. b \in Rows /\ b.status = "exhausted" /\ b.health = "healthy" /\ b.failures = 0
      BY <2>3, <2>4 DEF Rows, Statuses
    <3> QED
      BY <2>2, <3>1 DEF RowOK
  <2>6. PICK f : f = [n EXCEPT !.health = "unknown", !.failures = 1]
    OBVIOUS
  <2>7. f \in Rows /\ RowOK(f)
    <3>1. f \in Rows /\ f.status = "active" /\ f.health = "unknown" /\ f.failures = 1
      BY <2>2, <2>3, <2>6 DEF Rows, HealthStatuses
    <3> QED
      BY <2>2, <3>1 DEF RowOK
  <2>8. n \in Rows /\ RowOK(n)
    BY <2>2, <2>3 DEF RowOK
  <2> QED
    BY <2>1, <2>4, <2>5, <2>6, <2>7, <2>8 DEF ApplyNewAccount
<1>2. RowsOK
  BY <1>1 DEF HealthInit, RowsOK
<1>3. ChecksOK
  BY NoCheckOK DEF HealthInit, ChecksOK
<1>4. PairsOK
  BY NoCheckOK DEF HealthInit, PairsOK, PairOK
<1>5. HealthTypeOK
  <2>1. ActivityTTL \in Nat /\ MaxInFlight \in Nat
    BY HealthAssumption
  <2>2. 0 \in 0..MaxInFlight /\ 0 \in 0..ActivityTTL
    BY <2>1
  <2>3. /\ inFlight \in [Accounts -> 0..MaxInFlight] /\ throttle \in [Accounts -> 0..ActivityTTL]
        /\ reset \in [Accounts -> BOOLEAN \cup {NoTime}] /\ ordered \in [Accounts -> {"active", "disabled"}]
    BY <2>2 DEF HealthInit
  <2>4. provider \in [Accounts -> Providers] /\ calm \in BOOLEAN
    BY DEF HealthInit
  <2> QED
    BY <1>2, <1>3, <2>3, <2>4 DEF HealthTypeOK, RowsOK, ChecksOK
<1> QED
  BY <1>2, <1>3, <1>4, <1>5 DEF HealthInv

\* Every step of any replica, request and administrator keeps it.
LEMMA HealthStep == HealthInv /\ [HealthNext]_healthVars => HealthInv'
<1> SUFFICES ASSUME HealthInv, [HealthNext]_healthVars
             PROVE  HealthInv'
  OBVIOUS
<1>1. CASE \E w \in Workers : ClaimProviderHealthChecks(w) \/ Restart(w)
  BY <1>1, ClaimHealthStep, RestartStep
<1>2. CASE \E w \in Workers, a \in Accounts : CheckAccount(w, a) \/ CheckStep(w, a) \/ CheckLost(w, a)
  BY <1>2, ConsoleStep, StartStep, EndStep, PersistStepOK, CheckLostStep DEF CheckStep
<1>3. CASE \E a \in Accounts : Send(a) \/ Answer(a) \/ ManualRefresh(a)
  BY <1>3, SendStep, AnswerStep, ManualRefreshStep
<1>4. CASE \E a \in Accounts, status \in {"active", "disabled"} : SetStatus(a, status)
  BY <1>4, SetStatusStep
<1>5. CASE \E a \in Accounts : ResetStart(a) \/ persistResetQuota(a)
  BY <1>5, ResetStartStep, ResetStoredStep
<1>6. CASE HealthTick \/ Settle
  BY <1>6, TickStep, SettleStep
<1>7. CASE UNCHANGED healthVars
  BY <1>7 DEF healthVars, HealthInv, HealthTypeOK, RowsOK, ChecksOK, PairsOK
<1> QED
  BY <1>1, <1>2, <1>3, <1>4, <1>5, <1>6, <1>7 DEF HealthNext

\* A scheduled check has something of its claim left, and of two that probe an
\* account one knows that the cooldown they ended was not the last.
LEMMA HealthImplies == HealthInv => AccountSafe
<1> SUFFICES ASSUME HealthInv
             PROVE  AccountSafe
  OBVIOUS
<1>1. RowConsistent
  BY DEF HealthInv, RowsOK, RowOK, RowConsistent
<1>2. ClaimOutlivesCheck
  <2> SUFFICES ASSUME NEW w \in Workers, NEW a \in Accounts, check[w][a].at \in {"queued", "probing"}
               PROVE  row[a].next > 0
    BY DEF ClaimOutlivesCheck
  <2>1. PICK r, c : r = row[a] /\ c = check[w][a]
    OBVIOUS
  <2>2. r \in Rows /\ c \in Checks /\ CheckOK(c, r) /\ c.at \in {"queued", "probing"}
    BY <2>1, HealthTyped
  <2>3. r.next \in Nat /\ c.age \in Nat
    BY <2>2, HealthConstants DEF Rows, Checks
  <2>4. r.next > 0
    BY <2>2, <2>3, HealthConstants DEF CheckOK
  <2> QED
    BY <2>1, <2>4
<1>3. OneCheckPerCooldown
  <2> SUFFICES ASSUME NEW a \in Accounts, NEW v \in Workers, NEW w \in Workers, v # w,
                      check[v][a].at = "probing", check[w][a].at = "probing"
               PROVE  check[v][a].recooled \/ check[w][a].recooled
    BY DEF OneCheckPerCooldown
  <2>1. ~check[v][a].cooling /\ ~check[w][a].cooling
    BY HealthTyped DEF CheckOK
  <2>2. PairOK(check[v][a], check[w][a])
    BY DEF HealthInv, PairsOK
  <2> QED
    BY <2>1, <2>2 DEF PairOK, InProgress
<1> QED
  BY <1>1, <1>2, <1>3 DEF AccountSafe, HealthInv

\* Whichever of its many writers wrote last, the columns of an account's row
\* agree; the claim of a scheduled check outlives the check, whatever its place
\* in a full batch; and after a cooldown one replica checks the account.
THEOREM AccountRowsAreSafe == HealthSpec => []AccountSafe
<1>1. HealthInit => HealthInv
  BY HealthInitOK
<1>2. HealthInv /\ [HealthNext]_healthVars => HealthInv'
  BY HealthStep
<1>3. HealthInv => AccountSafe
  BY HealthImplies
<1> QED
  BY <1>1, <1>2, <1>3, PTL DEF HealthSpec

-----------------------------------------------------------------------------
(* The balance: what the shared entry says of the requests for it.         *)

\* An entry has its four fields, a check that goes on has credentials, and an
\* entry in flight has its request; unless the credentials were replaced while
\* one was under way, the entry speaks for every request in flight.
BillingInv ==
    /\ billing \in BillingKeys
    /\ poll = [identity |-> poll.identity, wait |-> poll.wait, failures |-> poll.failures,
               inFlight |-> poll.inFlight]
    /\ poll.inFlight \in BOOLEAN /\ replaced \in BOOLEAN
    /\ asking \in [Pollers -> [at : {"idle", "claim", "asking"}, key : BillingKeys \cup {NoKey}]]
    /\ PollIsUnderWay /\ OneBalanceRequest
    /\ ~replaced => \A p \in InFlight : poll.inFlight /\ poll.identity = asking[p].key

\* A claim makes an entry only if none is in flight or its credentials are
\* gone.
LEMMA ClaimKeepsBilling ==
    ASSUME BillingInv, NEW p \in Pollers, claimBillingPoll(p)
    PROVE  BillingInv'
<1> DEFINE k == asking[p].key
           mine == IF poll.identity = k THEN poll ELSE NewPoll(k)
           P == [at : {"idle", "claim", "asking"}, key : BillingKeys \cup {NoKey}]
<1>1. /\ asking \in [Pollers -> P] /\ asking[p].at = "claim" /\ NoPolling \in P
      /\ k \in BillingKeys \cup {NoKey} /\ replaced \in BOOLEAN
  BY DEF BillingInv, claimBillingPoll, NoPolling
<1>1a. billing' \in BillingKeys
  BY DEF BillingInv, claimBillingPoll
<1>2. CASE /\ ~mine.inFlight /\ mine.wait = 0 /\ MarkInFlight(p, mine)
           /\ asking' = [asking EXCEPT ![p].at = "asking"]
           /\ replaced' = (replaced \/ \E q \in InFlight : asking[q].key # k)
  <2>1. /\ mine = [identity |-> mine.identity, wait |-> mine.wait, failures |-> mine.failures,
                   inFlight |-> mine.inFlight]
        /\ mine.identity = k
    <3>1. CASE poll.identity = k
      BY <3>1 DEF BillingInv
    <3>2. CASE poll.identity # k
      BY <3>2 DEF NewPoll
    <3> QED
      BY <3>1, <3>2
  <2>2. poll' = [mine EXCEPT !.inFlight = TRUE]
    BY <1>2 DEF MarkInFlight
  <2>3. ~replaced' => InFlight = {}
    BY <1>2 DEF BillingInv, InFlight
  <2> HIDE DEF mine
  <2>4. /\ poll' = [identity |-> k, wait |-> mine.wait, failures |-> mine.failures, inFlight |-> TRUE]
    BY <2>1, <2>2
  <2>5. /\ asking' \in [Pollers -> P]
        /\ asking'[p].at = "asking" /\ asking'[p].key = k
        /\ \A q \in Pollers \ {p} : asking'[q] = asking[q]
    <3>1. [asking[p] EXCEPT !.at = "asking"] \in P
      BY <1>1
    <3>2. asking' = [asking EXCEPT ![p] = [asking[p] EXCEPT !.at = "asking"]]
      BY <1>2
    <3> QED
      BY <1>1, <3>1, <3>2
  <2>6. InFlight' = InFlight \cup {p}
    BY <1>1, <2>5 DEF InFlight
  <2>7. replaced' \in BOOLEAN
    BY <1>1, <1>2
  <2> QED
    BY <2>3, <2>4, <2>5, <2>6, <2>7, <1>1a DEF BillingInv, PollIsUnderWay, OneBalanceRequest
<1>3. CASE asking' = [asking EXCEPT ![p] = NoPolling] /\ UNCHANGED <<poll, replaced>>
  <2>1. /\ asking' \in [Pollers -> P] /\ asking'[p] = NoPolling
        /\ \A q \in Pollers \ {p} : asking'[q] = asking[q]
    BY <1>1, <1>3
  <2>2. InFlight' = InFlight
    BY <1>1, <2>1 DEF InFlight, NoPolling
  <2>3. \A q \in InFlight : asking'[q] = asking[q]
    BY <1>1, <2>1 DEF InFlight
  <2> QED
    BY <1>1a, <1>3, <2>1, <2>2, <2>3 DEF BillingInv, PollIsUnderWay, OneBalanceRequest
<1> QED
  BY <1>2, <1>3 DEF claimBillingPoll

\* A poll that ends closes its own entry and no other.
LEMMA FinishKeepsBilling ==
    ASSUME BillingInv, NEW p \in Pollers, finishBillingPoll(p)
    PROVE  BillingInv'
<1> DEFINE P == [at : {"idle", "claim", "asking"}, key : BillingKeys \cup {NoKey}]
<1>1. /\ asking \in [Pollers -> P] /\ NoPolling \in P /\ p \in InFlight /\ replaced \in BOOLEAN
      /\ asking' = [asking EXCEPT ![p] = NoPolling] /\ replaced' = (replaced /\ InFlight # {p})
  BY DEF BillingInv, finishBillingPoll, NoPolling, InFlight
<1>2. /\ asking' \in [Pollers -> P] /\ asking'[p] = NoPolling
      /\ \A q \in Pollers \ {p} : asking'[q] = asking[q]
  BY <1>1
<1>3. InFlight' = InFlight \ {p}
  BY <1>1, <1>2 DEF InFlight, NoPolling
<1>4. ~replaced' => InFlight' = {}
  BY <1>1, <1>3 DEF BillingInv, OneBalanceRequest
<1>5. \/ poll.identity # asking[p].key /\ poll' = poll
      \/ /\ poll' = [identity |-> poll'.identity, wait |-> poll'.wait, failures |-> poll'.failures,
                     inFlight |-> poll'.inFlight]
         /\ poll'.inFlight = FALSE
  <2>1. PICK limited \in BOOLEAN, after \in RetryAfter :
         poll' = IF poll.identity # asking[p].key THEN poll
                 ELSE IF ~limited THEN NewPoll(poll.identity)
                 ELSE [poll EXCEPT !.inFlight = FALSE, !.failures = @ + 1,
                                   !.wait = Backoff(poll.failures + 1, after)]
    BY DEF finishBillingPoll
  <2>2. CASE poll.identity # asking[p].key
    BY <2>1, <2>2
  <2>3. CASE poll.identity = asking[p].key /\ ~limited
    BY <2>1, <2>3 DEF NewPoll
  <2>4. CASE poll.identity = asking[p].key /\ limited
    <3>1. poll = [identity |-> poll.identity, wait |-> poll.wait, failures |-> poll.failures,
                  inFlight |-> poll.inFlight]
      BY DEF BillingInv
    <3>2. poll' = [poll EXCEPT !.inFlight = FALSE, !.failures = poll.failures + 1,
                               !.wait = Backoff(poll.failures + 1, after)]
      BY <2>1, <2>4
    <3> QED
      BY <3>1, <3>2
  <2> QED
    BY <2>2, <2>3, <2>4
<1>6. replaced' \in BOOLEAN /\ billing' \in BillingKeys
  BY <1>1 DEF BillingInv, finishBillingPoll
<1>7. PollIsUnderWay'
  <2>1. CASE poll.identity # asking[p].key /\ poll' = poll
    BY <1>1, <1>2, <1>3, <2>1 DEF BillingInv, PollIsUnderWay, InFlight
  <2>2. CASE poll'.inFlight = FALSE
    BY <2>2 DEF PollIsUnderWay
  <2> QED
    BY <1>5, <2>1, <2>2
<1>8. /\ poll' = [identity |-> poll'.identity, wait |-> poll'.wait, failures |-> poll'.failures,
                  inFlight |-> poll'.inFlight]
      /\ poll'.inFlight \in BOOLEAN
  BY <1>5 DEF BillingInv
<1>9. OneBalanceRequest' /\ (~replaced' => \A q \in InFlight' : poll'.inFlight /\ poll'.identity = asking'[q].key)
  <2>1. CASE replaced'
    BY <2>1 DEF OneBalanceRequest
  <2>2. CASE ~replaced'
    BY <1>4, <2>2 DEF OneBalanceRequest
  <2> QED
    BY <2>1, <2>2
<1> QED
  BY <1>2, <1>6, <1>7, <1>8, <1>9 DEF BillingInv

\* Replaced credentials, restarts and time keep the invariant as well.
LEMMA BillingInvNext == BillingInv /\ [BillingNext]_billingVars => BillingInv'
<1> SUFFICES ASSUME BillingInv, [BillingNext]_billingVars PROVE BillingInv'
  OBVIOUS
<1> DEFINE P == [at : {"idle", "claim", "asking"}, key : BillingKeys \cup {NoKey}]
<1>1. ASSUME NEW p \in Pollers, ReadBilling(p)
      PROVE  BillingInv'
  <2>1. asking \in [Pollers -> P] /\ [at |-> "claim", key |-> billing] \in P /\ UNCHANGED <<billing, poll, replaced>>
    BY <1>1 DEF BillingInv, ReadBilling
  <2>2. asking' = [asking EXCEPT ![p] = [at |-> "claim", key |-> billing]] /\ asking[p] = NoPolling
    BY <1>1 DEF ReadBilling
  <2>3. /\ asking' \in [Pollers -> P] /\ asking'[p].at = "claim"
        /\ \A q \in Pollers \ {p} : asking'[q] = asking[q]
    BY <2>1, <2>2
  <2>4. InFlight' = InFlight /\ \A q \in InFlight : asking'[q] = asking[q]
    BY <2>2, <2>3 DEF InFlight, NoPolling
  <2> QED
    BY <2>1, <2>3, <2>4 DEF BillingInv, PollIsUnderWay, OneBalanceRequest
<1>2. CASE RestartChecker
  <2>1. NoPolling \in P
    BY DEF NoPolling
  <2> QED
    BY <1>2, <2>1 DEF RestartChecker, BillingInv, PollIsUnderWay, OneBalanceRequest, InFlight, NewPoll, NoPolling
<1>3. CASE BillingMinute
  <2>1. /\ poll'.identity = poll.identity /\ poll'.inFlight = poll.inFlight
        /\ poll' = [identity |-> poll'.identity, wait |-> poll'.wait, failures |-> poll'.failures,
                    inFlight |-> poll'.inFlight]
        /\ UNCHANGED <<billing, asking, replaced>>
    BY <1>3 DEF BillingMinute, BillingInv
  <2>2. InFlight' = InFlight
    BY <2>1 DEF InFlight
  <2> QED
    BY <2>1, <2>2 DEF BillingInv, PollIsUnderWay, OneBalanceRequest
<1>4. CASE ReplaceBilling \/ UNCHANGED billingVars
  BY <1>4 DEF ReplaceBilling, billingVars, BillingInv, PollIsUnderWay, OneBalanceRequest, InFlight
<1> QED
  BY <1>1, <1>2, <1>3, <1>4, ClaimKeepsBilling, FinishKeepsBilling DEF BillingNext

\* Whatever becomes of a request and of its credentials, an entry in flight has
\* a request, and overlapping checks share one.
THEOREM BalanceIsAskedOnce == BillingSpec => []BillingSafe
<1>1. BillingInit => BillingInv
  <2> SUFFICES ASSUME BillingInit PROVE BillingInv
    OBVIOUS
  <2>1. NoPolling \in [at : {"idle", "claim", "asking"}, key : BillingKeys \cup {NoKey}]
    BY DEF NoPolling
  <2> QED
    BY <2>1 DEF BillingInit, BillingInv, PollIsUnderWay, OneBalanceRequest, InFlight, NewPoll, NoPolling
<1>2. BillingInv => BillingSafe
  BY DEF BillingInv, BillingSafe
<1> QED
  BY <1>1, <1>2, BillingInvNext, PTL DEF BillingSpec
-----------------------------------------------------------------------------
(* The keys bound to it.  The transactions of Assignments implement         *)
(* KeyBindings, for any number of keys, accounts, pools and transactions.   *)
(* A transaction owns what it has seen of an account as long as it holds    *)
(* the lock of its row: nobody else binds a key to the account or removes   *)
(* it meanwhile, and what keys revoked in between do can only make room.    *)

Kinds == {"none", "create", "reassign", "quota", "delete"}
Places == {"idle", "pool", "select", "row", "recheck", "rows", "choose", "write", "delete"}

Work == [kind : Kinds, key : Keys \cup {NoAccount}, at : Places,
         cand : PoolAccounts \cup {NoAccount}, excl : SUBSET PoolAccounts]

AssignTypeOK ==
    /\ binding \in [Keys -> PoolAccounts \cup {NoAccount}]
    /\ present \subseteq PoolAccounts
    /\ rowLock \in [PoolAccounts -> Txs \cup {NoTx}]
    /\ tx \in [Txs -> Work]

\* What a transaction may rely on at each place.
Owned(t) ==
    LET a == tx[t].cand IN
    /\ tx[t].at \in {"pool", "select", "rows", "choose", "recheck", "write"} => tx[t].key \in Keys
    /\ tx[t].at = "row" => a \in PoolAccounts /\ (tx[t].kind # "delete" => tx[t].key \in Keys)
    /\ tx[t].at \in {"recheck", "write"} => a \in present /\ rowLock[a] = t
    /\ tx[t].at = "write" => B!HasRoom(binding, a)
    /\ tx[t].at = "delete" => a \in PoolAccounts /\ rowLock[a] = t /\ B!KeysOn(binding, a) = {}

AssignInv == AssignTypeOK /\ \A t \in Txs : Owned(t)

\* KeyBindings counts as this module does.
LEMMA SameCount == ASSUME NEW S PROVE B!Cardinality(S) = Cardinality(S)
  BY DEF B!Cardinality, Cardinality

\* There is room where fewer keys are bound than the limit allows.
LEMMA RoomMeans == ASSUME NEW b, NEW a PROVE B!HasRoom(b, a) <=> Cardinality(B!KeysOn(b, a)) < Limit
  BY SameCount DEF B!HasRoom

\* The keys on an account can be counted, and fewer of them leave more room.
LEMMA FewerKeys ==
    ASSUME NEW b, NEW c, NEW a, B!KeysOn(c, a) \subseteq B!KeysOn(b, a)
    PROVE  /\ Cardinality(B!KeysOn(c, a)) \in Nat /\ Cardinality(B!KeysOn(b, a)) \in Nat
           /\ Cardinality(B!KeysOn(c, a)) <= Cardinality(B!KeysOn(b, a))
<1>1. IsFiniteSet(B!KeysOn(b, a))
  <2>1. B!KeysOn(b, a) \subseteq Keys
    BY DEF B!KeysOn
  <2> QED
    BY <2>1, AssignmentAssumption, FS_Subset
<1>2. IsFiniteSet(B!KeysOn(c, a))
  BY <1>1, FS_Subset
<1> QED
  BY <1>1, <1>2, FS_Subset, FS_CardinalityType

\* A key that leaves an account, or stays away from it, takes no room there.
LEMMA MovedAway ==
    ASSUME AssignTypeOK, NEW k \in Keys, NEW c, NEW a, a # c
    PROVE  B!KeysOn([binding EXCEPT ![k] = c], a) \subseteq B!KeysOn(binding, a)
  BY DEF AssignTypeOK, B!KeysOn

\* The step of somebody else leaves a transaction what it relies on, when the
\* rows it has locked stay locked, exist and get no further key.
LEMMA Undisturbed ==
    ASSUME AssignInv, NEW u \in Txs, tx'[u] = tx[u],
           \A a \in PoolAccounts : rowLock[a] = u =>
              /\ rowLock'[a] = u
              /\ a \in present => a \in present'
              /\ B!KeysOn(binding', a) \subseteq B!KeysOn(binding, a)
    PROVE  Owned(u)'
<1> DEFINE a == tx[u].cand
<1>1. Owned(u) /\ present \subseteq PoolAccounts
  BY DEF AssignInv, AssignTypeOK
<1>2. tx[u].at \in {"recheck", "write"} => a \in present' /\ rowLock'[a] = u
  BY <1>1 DEF Owned
<1>3. tx[u].at = "write" => B!HasRoom(binding', a)
  <2> SUFFICES ASSUME tx[u].at = "write" PROVE B!HasRoom(binding', a)
    OBVIOUS
  <2>1. a \in PoolAccounts /\ rowLock[a] = u /\ B!HasRoom(binding, a)
    BY <1>1 DEF Owned
  <2>2. B!KeysOn(binding', a) \subseteq B!KeysOn(binding, a)
    BY <2>1
  <2> HIDE DEF a
  <2>3. Cardinality(B!KeysOn(binding', a)) \in Nat /\ Cardinality(B!KeysOn(binding, a)) \in Nat
        /\ Cardinality(B!KeysOn(binding', a)) <= Cardinality(B!KeysOn(binding, a))
    BY <2>2, FewerKeys
  <2>4. Limit \in Nat /\ Cardinality(B!KeysOn(binding, a)) < Limit
    BY <2>1, AssignmentAssumption, RoomMeans
  <2>5. Cardinality(B!KeysOn(binding', a)) < Limit
    BY <2>3, <2>4
  <2> QED
    BY <2>5, RoomMeans
<1>4. tx[u].at = "delete" => rowLock'[a] = u /\ B!KeysOn(binding', a) = {}
  BY <1>1 DEF Owned
<1> QED
  BY <1>1, <1>2, <1>3, <1>4 DEF Owned

\* So does one that leaves the keys and the accounts as they are.
LEMMA LocksOnly ==
    ASSUME AssignInv, NEW t \in Txs, UNCHANGED <<binding, present>>,
           \A u \in Txs \ {t} : tx'[u] = tx[u],
           \A u \in Txs \ {t}, a \in PoolAccounts : rowLock[a] = u => rowLock'[a] = u,
           AssignTypeOK', Owned(t)'
    PROVE  AssignInv'
<1>1. ASSUME NEW u \in Txs \ {t} PROVE Owned(u)'
  BY <1>1, Undisturbed
<1> QED
  BY <1>1 DEF AssignInv

\* A transaction that ends gives back its own locks only.
LEMMA Released ==
    ASSUME AssignInv, NEW t \in Txs, Release(t)
    PROVE  /\ \A u \in Txs \ {t} : tx'[u] = tx[u]
           /\ \A u \in Txs \ {t}, a \in PoolAccounts : rowLock[a] = u => rowLock'[a] = u
           /\ rowLock' \in [PoolAccounts -> Txs \cup {NoTx}]
           /\ tx' \in [Txs -> Work]
           /\ Owned(t)'
<1>1. tx' = [tx EXCEPT ![t] = NoWork] /\ rowLock' = [a \in PoolAccounts |-> IF rowLock[a] = t THEN NoTx ELSE rowLock[a]]
  BY DEF Release
<1>2. tx'[t] = NoWork
  BY <1>1 DEF AssignInv, AssignTypeOK
<1>3. Owned(t)'
  BY <1>2 DEF Owned, NoWork
<1>4. NoWork \in Work
  BY DEF Work, NoWork, Kinds, Places
<1> QED
  BY <1>1, <1>3, <1>4 DEF AssignInv, AssignTypeOK

\* Moving on keeps the type of a transaction.
LEMMA WorkMoves ==
    ASSUME AssignTypeOK, NEW t \in Txs, NEW p \in Places, NEW c \in PoolAccounts, NEW e \in SUBSET PoolAccounts
    PROVE  /\ [tx EXCEPT ![t].at = p, ![t].cand = c] \in [Txs -> Work]
           /\ [tx EXCEPT ![t].at = p, ![t].excl = e] \in [Txs -> Work]
<1> DEFINE moved == [tx EXCEPT ![t].at = p]
<1>1. moved \in [Txs -> Work]
  BY DEF AssignTypeOK, Work
<1> HIDE DEF moved
<1>2. [moved EXCEPT ![t].cand = c] \in [Txs -> Work] /\ [moved EXCEPT ![t].excl = e] \in [Txs -> Work]
  BY <1>1 DEF Work
<1> QED
  BY <1>2 DEF moved

\* Nothing is owned at the beginning.
LEMMA AssignInitially == AssignInit => AssignInv
<1> SUFFICES ASSUME AssignInit PROVE AssignInv
  OBVIOUS
<1>1. tx = [t \in Txs |-> NoWork] /\ rowLock = [a \in PoolAccounts |-> NoTx]
      /\ present = PoolAccounts /\ binding \in [Keys -> PoolAccounts \cup {NoAccount}]
  BY DEF AssignInit, B!BindInit
<1>2. AssignTypeOK
  BY <1>1 DEF AssignTypeOK, Work, NoWork, Kinds, Places
<1>3. \A t \in Txs : Owned(t)
  BY <1>1 DEF Owned, NoWork
<1> QED
  BY <1>2, <1>3 DEF AssignInv

\* A transaction that is rolled back, or commits without a change.
LEMMA RollbackStep ==
    ASSUME AssignInv, NEW t \in Txs, Release(t), UNCHANGED <<binding, present>>
    PROVE  AssignInv'
<1>1. AssignTypeOK'
  BY Released DEF AssignInv, AssignTypeOK
<1> QED
  BY <1>1, Released, LocksOnly

\* A transaction that begins.
LEMMA BeginSteps ==
    ASSUME AssignInv, NEW t \in Txs,
           \/ \E k \in Keys, kind \in {"create", "reassign", "quota"} :
                \E excluded \in {{}, {binding[k]} \cap PoolAccounts} : BeginTx(t, kind, k, excluded)
           \/ \E a \in PoolAccounts : BeginDelete(t, a)
    PROVE  AssignInv'
<1>1. CASE \E k \in Keys, kind \in {"create", "reassign", "quota"} :
             \E excluded \in {{}, {binding[k]} \cap PoolAccounts} : BeginTx(t, kind, k, excluded)
  <2>1. PICK k \in Keys, kind \in {"create", "reassign", "quota"}, excluded \in SUBSET PoolAccounts : BeginTx(t, kind, k, excluded)
    BY <1>1
  <2> DEFINE new == [NoWork EXCEPT !.kind = kind, !.key = k, !.at = "pool", !.excl = excluded]
  <2>2. tx' = [tx EXCEPT ![t] = new] /\ UNCHANGED <<binding, present, rowLock>>
    BY <2>1 DEF BeginTx
  <2>3. new.at = "pool" /\ new.key = k
        /\ new \in Work
    BY DEF Work, NoWork, Kinds, Places
  <2> HIDE DEF new
  <2>4. AssignTypeOK' /\ tx'[t] = new /\ \A u \in Txs \ {t} : tx'[u] = tx[u]
    BY <2>2, <2>3 DEF AssignInv, AssignTypeOK
  <2>5. Owned(t)'
    BY <2>3, <2>4 DEF Owned
  <2> QED
    BY <2>2, <2>4, <2>5, LocksOnly
<1>2. CASE \E a \in PoolAccounts : BeginDelete(t, a)
  <2>1. PICK a \in PoolAccounts : BeginDelete(t, a)
    BY <1>2
  <2> DEFINE new == [NoWork EXCEPT !.kind = "delete", !.at = "row", !.cand = a]
  <2>2. tx' = [tx EXCEPT ![t] = new] /\ UNCHANGED <<binding, present, rowLock>>
    BY <2>1 DEF BeginDelete
  <2>3. new.at = "row" /\ new.kind = "delete" /\ new.cand = a
        /\ new \in Work
    BY DEF Work, NoWork, Kinds, Places
  <2> HIDE DEF new
  <2>4. AssignTypeOK' /\ tx'[t] = new /\ \A u \in Txs \ {t} : tx'[u] = tx[u]
    BY <2>2, <2>3 DEF AssignInv, AssignTypeOK
  <2>5. Owned(t)'
    BY <2>3, <2>4 DEF Owned
  <2> QED
    BY <2>2, <2>4, <2>5, LocksOnly
<1> QED
  BY <1>1, <1>2

\* The choice of an account, before its row is locked.
LEMMA SelectSteps ==
    ASSUME AssignInv, NEW t \in Txs, LockPoolAssignments(t) \/ SelectAccountForUpdate(t)
    PROVE  AssignInv'
<1>1. CASE LockPoolAssignments(t)
  <2>1. PICK at \in {"rows", "select"} : tx' = [tx EXCEPT ![t].at = at] /\ tx[t].at = "pool" /\ UNCHANGED <<binding, present, rowLock>>
    BY <1>1 DEF LockPoolAssignments, Goto
  <2>2. AssignTypeOK' /\ tx'[t].at = at /\ tx'[t].key = tx[t].key /\ \A u \in Txs \ {t} : tx'[u] = tx[u]
    BY <2>1 DEF AssignInv, AssignTypeOK, Work, Places
  <2>3. Owned(t)'
    BY <2>1, <2>2 DEF AssignInv, Owned
  <2> QED
    BY <2>1, <2>2, <2>3, LocksOnly
<1>2. CASE SelectAccountForUpdate(t)
  <2>1. UNCHANGED <<binding, present>> /\ tx[t].at = "select"
    BY <1>2 DEF SelectAccountForUpdate
  <2>2. CASE Release(t)
    BY <2>1, <2>2, RollbackStep
  <2>3. CASE ~Release(t)
    <3>1. PICK a \in present : tx' = [tx EXCEPT ![t].at = "row", ![t].cand = a] /\ UNCHANGED rowLock
      BY <1>2, <2>3 DEF SelectAccountForUpdate, lockVars, Members
    <3>2. AssignTypeOK' /\ tx'[t].at = "row" /\ tx'[t].cand = a /\ tx'[t].key = tx[t].key /\ \A u \in Txs \ {t} : tx'[u] = tx[u]
      BY <2>1, <3>1, ZenonT(40) DEF AssignInv, AssignTypeOK, Work, Places
    <3>3. Owned(t)'
      BY <2>1, <3>2 DEF AssignInv, AssignTypeOK, Owned
    <3> QED
      BY <2>1, <3>1, <3>2, <3>3, LocksOnly
  <2> QED
    BY <2>2, <2>3
<1> QED
  BY <1>1, <1>2

\* The row of the chosen account is locked and its keys are counted again.
LEMMA RecheckSteps ==
    ASSUME AssignInv, NEW t \in Txs, (tx[t].kind # "delete" /\ LockRow(t)) \/ ProviderAccountHasCapacity(t)
    PROVE  AssignInv'
<1> DEFINE a == tx[t].cand
<1>1. CASE tx[t].kind # "delete" /\ LockRow(t)
  <2>1. /\ tx[t].at = "row" /\ rowLock[a] \in {NoTx, t} /\ UNCHANGED <<binding, present>>
        /\ a \in PoolAccounts /\ tx[t].key \in Keys
    BY <1>1 DEF LockRow, AssignInv, Owned
  <2>2. CASE a \in present \cap eligible
    <3>1. rowLock' = [rowLock EXCEPT ![a] = t] /\ tx' = [tx EXCEPT ![t].at = "recheck"]
      BY <1>1, <2>2 DEF LockRow, Goto
    <3>2. AssignTypeOK' /\ tx'[t].at = "recheck" /\ tx'[t].key = tx[t].key /\ tx'[t].cand = a
          /\ \A u \in Txs \ {t} : tx'[u] = tx[u]
      BY <2>1, <3>1 DEF AssignInv, AssignTypeOK, Work, Places
    <3>3. rowLock'[a] = t /\ \A u \in Txs \ {t}, b \in PoolAccounts : rowLock[b] = u => rowLock'[b] = u
      BY <2>1, <3>1, AssignmentAssumption DEF AssignInv, AssignTypeOK
    <3>4. Owned(t)'
      BY <2>1, <2>2, <3>2, <3>3 DEF Owned
    <3> QED
      BY <2>1, <3>2, <3>3, <3>4, LocksOnly
  <2>3. CASE a \notin present \cap eligible
    <3>1. UNCHANGED rowLock /\ tx' = [tx EXCEPT ![t].at = "select"]
      BY <1>1, <2>3 DEF LockRow, Goto
    <3>2. AssignTypeOK' /\ tx'[t].at = "select" /\ tx'[t].key = tx[t].key /\ \A u \in Txs \ {t} : tx'[u] = tx[u]
      BY <2>1, <3>1 DEF AssignInv, AssignTypeOK, Work, Places
    <3>3. Owned(t)'
      BY <2>1, <3>2 DEF Owned
    <3> QED
      BY <2>1, <3>1, <3>2, <3>3, LocksOnly
  <2> QED
    BY <2>2, <2>3
<1>2. CASE ProviderAccountHasCapacity(t)
  <2>1. /\ tx[t].at = "recheck" /\ UNCHANGED <<binding, present, rowLock>>
        /\ a \in present /\ rowLock[a] = t /\ tx[t].key \in Keys /\ a \in PoolAccounts
    BY <1>2 DEF ProviderAccountHasCapacity, AssignInv, AssignTypeOK, Owned
  <2>2. CASE B!HasRoom(binding, a)
    <3>1. tx' = [tx EXCEPT ![t].at = "write"]
      BY <1>2, <2>2 DEF ProviderAccountHasCapacity, Goto
    <3>2. AssignTypeOK' /\ tx'[t].at = "write" /\ tx'[t].key = tx[t].key /\ tx'[t].cand = a
          /\ \A u \in Txs \ {t} : tx'[u] = tx[u]
      BY <2>1, <3>1 DEF AssignInv, AssignTypeOK, Work, Places
    <3>3. Owned(t)'
      BY <2>1, <2>2, <3>2, RoomMeans DEF Owned
    <3> QED
      BY <2>1, <3>2, <3>3, LocksOnly
  <2>3. CASE ~B!HasRoom(binding, a)
    <3>1. tx' = [tx EXCEPT ![t].at = "select", ![t].excl = tx[t].excl \cup {a}]
      BY <1>2, <2>3 DEF ProviderAccountHasCapacity, AssignInv, AssignTypeOK, Work
    <3>2. tx[t].excl \cup {a} \in SUBSET PoolAccounts /\ "select" \in Places
      BY <2>1 DEF AssignInv, AssignTypeOK, Work, Places
    <3>3. AssignTypeOK'
      BY <2>1, <3>1, <3>2, WorkMoves DEF AssignInv, AssignTypeOK
    <3>4. tx'[t].at = "select" /\ tx'[t].key = tx[t].key /\ \A u \in Txs \ {t} : tx'[u] = tx[u]
      BY <3>1 DEF AssignInv, AssignTypeOK, Work
    <3>5. Owned(t)'
      BY <2>1, <3>4 DEF Owned
    <3> QED
      BY <2>1, <3>3, <3>4, <3>5, LocksOnly
  <2> QED
    BY <2>2, <2>3
<1> QED
  BY <1>1, <1>2

\* A candidate for the quota is locked, or chosen among those that are.
LEMMA QuotaSteps ==
    ASSUME AssignInv, NEW t \in Txs, LockCandidate(t) \/ PreferQuotaAccount(t)
    PROVE  AssignInv'
<1>0. Candidates(t) \subseteq present /\ present \subseteq PoolAccounts
  BY DEF Candidates, Members, AssignInv, AssignTypeOK
<1>1. CASE LockCandidate(t)
  <2> DEFINE left == {b \in Candidates(t) : rowLock[b] # t}
  <2>1. tx[t].at = "rows" /\ tx[t].key \in Keys /\ UNCHANGED <<binding, present>>
    BY <1>1 DEF LockCandidate, AssignInv, Owned
  <2>2. CASE left = {}
    <3>1. tx' = [tx EXCEPT ![t].at = "choose"] /\ UNCHANGED rowLock
      BY <1>1, <2>2 DEF LockCandidate, Goto
    <3>2. AssignTypeOK' /\ tx'[t].at = "choose" /\ tx'[t].key = tx[t].key /\ \A u \in Txs \ {t} : tx'[u] = tx[u]
      BY <2>1, <3>1 DEF AssignInv, AssignTypeOK, Work, Places
    <3>3. Owned(t)'
      BY <2>1, <3>2 DEF Owned
    <3> QED
      BY <2>1, <3>1, <3>2, <3>3, LocksOnly
  <2>3. CASE left # {}
    <3>1. PICK b \in left : rowLock[b] = NoTx /\ rowLock' = [rowLock EXCEPT ![b] = t] /\ UNCHANGED tx
      BY <1>1, <2>3 DEF LockCandidate
    <3>2. b \in PoolAccounts
      BY <1>0
    <3>3. AssignTypeOK' /\ \A u \in Txs \ {t}, c \in PoolAccounts : rowLock[c] = u => rowLock'[c] = u
      BY <2>1, <3>1, <3>2, AssignmentAssumption DEF AssignInv, AssignTypeOK
    <3>4. Owned(t)'
      BY <2>1, <3>1 DEF Owned
    <3> QED
      BY <2>1, <3>1, <3>3, <3>4, LocksOnly
  <2> QED
    BY <2>2, <2>3
<1>2. CASE PreferQuotaAccount(t)
  <2>1. tx[t].at = "choose" /\ tx[t].key \in Keys /\ UNCHANGED <<binding, present>>
    BY <1>2 DEF PreferQuotaAccount, AssignInv, Owned
  <2>2. CASE Release(t)
    BY <2>1, <2>2, RollbackStep
  <2>3. CASE ~Release(t)
    <3>1. PICK b \in Candidates(t) : /\ rowLock[b] = t /\ B!HasRoom(binding, b) /\ UNCHANGED rowLock
                                     /\ tx' = [tx EXCEPT ![t].at = "write", ![t].cand = b]
      BY <1>2, <2>3 DEF PreferQuotaAccount, lockVars
    <3>2. b \in present /\ b \in PoolAccounts
      BY <1>0
    <3>3. AssignTypeOK' /\ tx'[t].at = "write" /\ tx'[t].key = tx[t].key /\ tx'[t].cand = b
          /\ \A u \in Txs \ {t} : tx'[u] = tx[u]
      <4>1. tx \in [Txs -> Work]
        BY DEF AssignInv, AssignTypeOK
      <4>2. tx' \in [Txs -> Work]
        <5>1. AssignTypeOK /\ "write" \in Places /\ {} \in SUBSET PoolAccounts
          BY DEF AssignInv, Places
        <5>2. [tx EXCEPT ![t].at = "write", ![t].cand = b] \in [Txs -> Work]
          BY <3>2, <5>1, WorkMoves
        <5> QED
          BY <3>1, <5>2
      <4>3. tx'[t].at = "write" /\ tx'[t].key = tx[t].key /\ tx'[t].cand = b /\ \A u \in Txs \ {t} : tx'[u] = tx[u]
        BY <3>1, <4>1 DEF Work
      <4> QED
        BY <2>1, <3>1, <4>2, <4>3 DEF AssignInv, AssignTypeOK
    <3>4. Owned(t)'
      BY <2>1, <3>1, <3>2, <3>3, RoomMeans DEF Owned
    <3> QED
      BY <2>1, <3>1, <3>3, <3>4, LocksOnly
  <2> QED
    BY <2>2, <2>3
<1> QED
  BY <1>1, <1>2

\* The binding is written: only its owner has the row, so nobody else relies
\* on the room that the key takes.
LEMMA BindingWriteStep ==
    ASSUME AssignInv, NEW t \in Txs, WriteRow(t)
    PROVE  AssignInv'
<1> DEFINE k == tx[t].key
           a == tx[t].cand
<1>1. tx[t].at = "write" /\ Release(t) /\ UNCHANGED present /\ k \in Keys /\ a \in PoolAccounts /\ rowLock[a] = t
  BY DEF WriteRow, AssignInv, AssignTypeOK, Owned
<1>2. CASE UNCHANGED binding
  BY <1>1, <1>2, RollbackStep
<1>3. CASE binding' = [binding EXCEPT ![k] = a]
  <2>1. AssignTypeOK' /\ Owned(t)'
    BY <1>1, <1>3, Released DEF AssignInv, AssignTypeOK
  <2>2. ASSUME NEW u \in Txs \ {t} PROVE Owned(u)'
    <3>1. ASSUME NEW b \in PoolAccounts, rowLock[b] = u PROVE B!KeysOn(binding', b) \subseteq B!KeysOn(binding, b)
      <4>1. b # a
        BY <1>1, <3>1
      <4> QED
        BY <1>1, <1>3, <4>1, MovedAway DEF AssignInv
    <3>2. tx'[u] = tx[u] /\ \A b \in PoolAccounts : rowLock[b] = u => rowLock'[b] = u
      BY <1>1, Released
    <3> QED
      BY <1>1, <3>1, <3>2, Undisturbed
  <2> QED
    BY <2>1, <2>2 DEF AssignInv
<1> QED
  BY <1>2, <1>3 DEF WriteRow

\* A deletion holds the row before it asks for keys.
LEMMA DeleteSteps ==
    ASSUME AssignInv, NEW t \in Txs, LockProviderAccountForDeletion(t) \/ DeleteProviderAccount(t)
    PROVE  AssignInv'
<1> DEFINE a == tx[t].cand
<1>1. CASE LockProviderAccountForDeletion(t)
  <2>1. /\ tx[t].at = "row" /\ rowLock[a] = NoTx /\ UNCHANGED <<binding, present>> /\ a \in PoolAccounts
    BY <1>1 DEF LockProviderAccountForDeletion, AssignInv, Owned
  <2>2. CASE Release(t)
    BY <2>1, <2>2, RollbackStep
  <2>3. CASE ~Release(t)
    <3>1. /\ B!KeysOn(binding, a) = {} /\ rowLock' = [rowLock EXCEPT ![a] = t] /\ tx' = [tx EXCEPT ![t].at = "delete"]
      BY <1>1, <2>3 DEF LockProviderAccountForDeletion, Goto
    <3>2. AssignTypeOK' /\ tx'[t].at = "delete" /\ tx'[t].cand = a /\ \A u \in Txs \ {t} : tx'[u] = tx[u]
      BY <2>1, <3>1 DEF AssignInv, AssignTypeOK, Work, Places
    <3>3. rowLock'[a] = t /\ \A u \in Txs \ {t}, b \in PoolAccounts : rowLock[b] = u => rowLock'[b] = u
      BY <2>1, <3>1, AssignmentAssumption DEF AssignInv, AssignTypeOK
    <3>4. B!KeysOn(binding', a) = {}
      BY <2>1, <3>1
    <3>5. Owned(t)'
      BY <2>1, <3>2, <3>3, <3>4 DEF Owned
    <3> QED
      BY <2>1, <3>2, <3>3, <3>5, LocksOnly
  <2> QED
    BY <2>2, <2>3
<1>2. CASE DeleteProviderAccount(t)
  <2>1. /\ Release(t) /\ present' = present \ {a} /\ UNCHANGED binding
        /\ a \in PoolAccounts /\ rowLock[a] = t
    BY <1>2 DEF DeleteProviderAccount, AssignInv, Owned
  <2>2. AssignTypeOK' /\ Owned(t)'
    BY <2>1, Released DEF AssignInv, AssignTypeOK
  <2>3. ASSUME NEW u \in Txs \ {t} PROVE Owned(u)'
    <3>1. \A b \in PoolAccounts : rowLock[b] = u => rowLock'[b] = u /\ b # a
      BY <2>1, Released
    <3>2. tx'[u] = tx[u]
      BY <2>1, Released
    <3> QED
      BY <2>1, <3>1, <3>2, Undisturbed
  <2> QED
    BY <2>2, <2>3 DEF AssignInv
<1> QED
  BY <1>1, <1>2

\* A key that is revoked leaves every account with more room.
LEMMA RevokeStep ==
    ASSUME AssignInv, NEW k \in Keys, RevokeAPIKey(k)
    PROVE  AssignInv'
<1>1. binding' = [binding EXCEPT ![k] = NoAccount] /\ UNCHANGED <<present, rowLock, tx>>
  BY DEF RevokeAPIKey
<1>2. AssignTypeOK'
  BY <1>1 DEF AssignInv, AssignTypeOK
<1>3. ASSUME NEW u \in Txs PROVE Owned(u)'
  <2>1. ASSUME NEW b \in PoolAccounts PROVE B!KeysOn(binding', b) \subseteq B!KeysOn(binding, b)
    <3>1. b # NoAccount
      BY AssignmentAssumption
    <3> QED
      BY <1>1, <3>1, MovedAway DEF AssignInv
  <2> QED
    BY <1>1, <2>1, Undisturbed
<1> QED
  BY <1>2, <1>3 DEF AssignInv

\* Every step preserves the invariant.
LEMMA AssignPreserved == AssignInv /\ [AssignNext]_assignVars => AssignInv'
<1> SUFFICES ASSUME AssignInv, [AssignNext]_assignVars PROVE AssignInv'
  OBVIOUS
<1>1. CASE UNCHANGED assignVars
  <2>1. UNCHANGED <<binding, present, rowLock, tx>>
    BY <1>1 DEF assignVars
  <2>2. AssignTypeOK'
    BY <2>1 DEF AssignInv, AssignTypeOK
  <2>3. ASSUME NEW u \in Txs PROVE Owned(u)'
    BY <2>1, Undisturbed
  <2> QED
    BY <2>2, <2>3 DEF AssignInv
<1>2. ASSUME NEW t \in Txs, DeadlockDetected(t) \/ Abort(t) PROVE AssignInv'
  BY <1>2, RollbackStep DEF DeadlockDetected, Abort
<1>3. ASSUME NEW t \in Txs, TxStep(t) PROVE AssignInv'
  BY <1>2, <1>3, SelectSteps, RecheckSteps, QuotaSteps, BindingWriteStep, DeleteSteps DEF TxStep
<1>4. ASSUME NEW a \in PoolAccounts, StatusChanges(a) PROVE AssignInv'
  <2>1. UNCHANGED <<binding, present, rowLock, tx>>
    BY <1>4 DEF StatusChanges
  <2>2. AssignTypeOK'
    BY <2>1 DEF AssignInv, AssignTypeOK
  <2>3. ASSUME NEW u \in Txs PROVE Owned(u)'
    BY <2>1, Undisturbed
  <2> QED
    BY <2>2, <2>3 DEF AssignInv
<1>5. CASE AssignNext
  BY <1>2, <1>3, <1>4, <1>5, BeginSteps, RevokeStep DEF AssignNext
<1> QED
  BY <1>1, <1>5

\* What a step of a transaction is for the keys and accounts.
LEMMA StepIsAbstract ==
    AssignInv /\ [AssignNext]_assignVars => [B!BindNext]_<<binding, present>>
<1> SUFFICES ASSUME AssignInv, [AssignNext]_assignVars PROVE [B!BindNext]_<<binding, present>>
  OBVIOUS
<1>1. ASSUME NEW t \in Txs, WriteRow(t) PROVE [B!BindNext]_<<binding, present>>
  <2> DEFINE k == tx[t].key
             a == tx[t].cand
  <2>1. k \in Keys /\ a \in present /\ a \in PoolAccounts /\ B!HasRoom(binding, a)
    BY <1>1, RoomMeans DEF WriteRow, AssignInv, AssignTypeOK, Owned
  <2>2. UNCHANGED present /\ (UNCHANGED binding \/ binding' = [binding EXCEPT ![k] = a])
    BY <1>1 DEF WriteRow
  <2> HIDE DEF k, a
  <2>3. binding' = [binding EXCEPT ![k] = a] => B!Bind(k, a)
    BY <2>1, <2>2 DEF B!Bind
  <2> QED
    BY <2>1, <2>2, <2>3 DEF B!BindNext
<1>2. ASSUME NEW t \in Txs, DeleteProviderAccount(t) PROVE [B!BindNext]_<<binding, present>>
  <2> DEFINE a == tx[t].cand
  <2>1. a \in PoolAccounts /\ B!KeysOn(binding, a) = {} /\ present' = present \ {a} /\ UNCHANGED binding
    BY <1>2 DEF DeleteProviderAccount, AssignInv, Owned
  <2> HIDE DEF a
  <2>2. B!Remove(a)
    BY <2>1 DEF B!Remove
  <2> QED
    BY <2>1, <2>2 DEF B!BindNext
<1>3. ASSUME NEW k \in Keys, RevokeAPIKey(k) PROVE [B!BindNext]_<<binding, present>>
  <2>1. B!Revoke(k)
    BY <1>3 DEF RevokeAPIKey, B!Revoke
  <2> QED
    BY <2>1 DEF B!BindNext
<1>4. ASSUME NEW t \in Txs, TxStep(t) PROVE [B!BindNext]_<<binding, present>>
  <2>1. CASE WriteRow(t) \/ DeleteProviderAccount(t)
    BY <1>1, <1>2, <2>1
  <2>2. CASE ~(WriteRow(t) \/ DeleteProviderAccount(t))
    BY <1>4, <2>2 DEF TxStep, LockPoolAssignments, SelectAccountForUpdate, LockRow, ProviderAccountHasCapacity,
         LockCandidate, PreferQuotaAccount, LockProviderAccountForDeletion, DeadlockDetected
  <2> QED
    BY <2>1, <2>2
<1>5. CASE \E t \in Txs, k \in Keys, kind \in {"create", "reassign", "quota"} :
             \E excluded \in {{}, {binding[k]} \cap PoolAccounts} : BeginTx(t, kind, k, excluded)
  <2>1. PICK t \in Txs, k \in Keys, kind \in {"create", "reassign", "quota"} :
              \E excluded \in {{}, {binding[k]} \cap PoolAccounts} : BeginTx(t, kind, k, excluded)
    BY <1>5
  <2> QED
    BY <2>1 DEF BeginTx
<1>6. CASE \E t \in Txs, a \in PoolAccounts : BeginDelete(t, a)
  BY <1>6 DEF BeginDelete
<1>7. CASE \E t \in Txs : TxStep(t) \/ Abort(t)
  BY <1>4, <1>7 DEF Abort
<1>8. CASE \E k \in Keys : RevokeAPIKey(k)
  BY <1>3, <1>8
<1>9. CASE \E a \in PoolAccounts : StatusChanges(a)
  BY <1>9 DEF StatusChanges
<1>10. CASE UNCHANGED assignVars
  BY <1>10 DEF assignVars
<1> QED
  BY <1>5, <1>6, <1>7, <1>8, <1>9, <1>10 DEF AssignNext

\* The transactions implement KeyBindings: whatever runs at the same time, a
\* key moves in one step to an account that exists and has room, and only an
\* account without keys is removed.
THEOREM TransactionsImplementBindings == AssignSpec => ImplementsKeyBindings
<1>1. AssignInit => B!BindInit
  BY DEF AssignInit
<1> QED
  BY <1>1, AssignInitially, AssignPreserved, StepIsAbstract, PTL DEF AssignSpec, ImplementsKeyBindings, B!BindSpec

Bound == binding \in [Keys -> PoolAccounts \cup {NoAccount}] /\ present \subseteq PoolAccounts

\* A key is added to an account that has room for it.
LEMMA LimitKept == Bound /\ B!WithinLimit /\ [B!BindNext]_<<binding, present>> => B!WithinLimit'
<1> SUFFICES ASSUME Bound, B!WithinLimit, [B!BindNext]_<<binding, present>> PROVE B!WithinLimit'
  OBVIOUS
<1>1. \A b \in PoolAccounts : Cardinality(B!KeysOn(binding, b)) <= Limit
  BY SameCount DEF B!WithinLimit
<1>2. Limit \in Nat
  BY AssignmentAssumption
<1>3. ASSUME NEW b \in PoolAccounts, B!KeysOn(binding', b) \subseteq B!KeysOn(binding, b)
      PROVE  Cardinality(B!KeysOn(binding', b)) <= Limit
  BY <1>1, <1>2, <1>3, FewerKeys
<1>4. ASSUME NEW k \in Keys, NEW c, c \in PoolAccounts \cup {NoAccount}, NEW b \in PoolAccounts, b # c,
             binding' = [binding EXCEPT ![k] = c]
      PROVE  B!KeysOn(binding', b) \subseteq B!KeysOn(binding, b)
  BY <1>4 DEF Bound, B!KeysOn
<1>5. ASSUME NEW k \in Keys, NEW a \in PoolAccounts, B!Bind(k, a), NEW b \in PoolAccounts
      PROVE  Cardinality(B!KeysOn(binding', b)) <= Limit
  <2>1. binding' = [binding EXCEPT ![k] = a] /\ Cardinality(B!KeysOn(binding, a)) < Limit
    BY <1>5, RoomMeans DEF B!Bind
  <2>2. CASE b # a
    BY <1>3, <1>4, <2>1, <2>2
  <2>3. CASE b = a
    <3>1. B!KeysOn(binding', a) \subseteq B!KeysOn(binding, a) \cup {k}
      BY <2>1 DEF Bound, B!KeysOn
    <3>2. IsFiniteSet(B!KeysOn(binding, a))
      <4>1. B!KeysOn(binding, a) \subseteq Keys
        BY DEF B!KeysOn
      <4> QED
        BY <4>1, AssignmentAssumption, FS_Subset
    <3>3. /\ IsFiniteSet(B!KeysOn(binding, a) \cup {k})
          /\ Cardinality(B!KeysOn(binding, a) \cup {k}) <= Limit
      <4> DEFINE S == B!KeysOn(binding, a)
      <4>1. IsFiniteSet(S) /\ Cardinality(S) \in Nat /\ Cardinality(S) < Limit
        BY <2>1, <3>2, FS_CardinalityType
      <4> HIDE DEF S
      <4>2. IsFiniteSet(S \cup {k}) /\ Cardinality(S \cup {k}) \in {Cardinality(S), Cardinality(S) + 1}
        BY <4>1, FS_AddElement
      <4>3. Cardinality(S \cup {k}) <= Limit
        BY <1>2, <4>1, <4>2
      <4> QED
        BY <4>2, <4>3 DEF S
    <3>4. /\ Cardinality(B!KeysOn(binding', a)) <= Cardinality(B!KeysOn(binding, a) \cup {k})
          /\ IsFiniteSet(B!KeysOn(binding', a))
      BY <3>1, <3>3, FS_Subset
    <3> QED
      BY <1>2, <2>3, <3>3, <3>4, FS_CardinalityType
  <2> QED
    BY <2>2, <2>3
<1>6. ASSUME NEW k \in Keys, B!Revoke(k), NEW b \in PoolAccounts PROVE Cardinality(B!KeysOn(binding', b)) <= Limit
  <2>1. binding' = [binding EXCEPT ![k] = NoAccount] /\ b # NoAccount
    BY <1>6, AssignmentAssumption DEF B!Revoke
  <2> QED
    BY <1>3, <1>4, <2>1
<1>7. ASSUME UNCHANGED binding, NEW b \in PoolAccounts PROVE Cardinality(B!KeysOn(binding', b)) <= Limit
  BY <1>3, <1>7
<1>8. ASSUME NEW b \in PoolAccounts PROVE Cardinality(B!KeysOn(binding', b)) <= Limit
  BY <1>5, <1>6, <1>7 DEF B!BindNext, B!Remove
<1> QED
  BY <1>8, SameCount DEF B!WithinLimit

\* No account serves more keys than the limit allows, for any number of keys,
\* accounts, pools and transactions: what KeyBindings promises.
THEOREM LimitIsRespected == AssignSpec => []AccountWithinLimit
<1>1. AssignInit => B!WithinLimit
  BY SameCount DEF AssignInit, B!BindInit, B!WithinLimit
<1>2. AssignInv => Bound
  BY DEF AssignInv, AssignTypeOK, Bound
<1> QED
  BY <1>1, <1>2, AssignInitially, AssignPreserved, StepIsAbstract, LimitKept, PTL DEF AssignSpec, AccountWithinLimit

\* A live key never belongs to an account that has been removed.
THEOREM KeysHaveTheirAccount == AssignSpec => []NoDanglingBinding
<1>1. AssignInit => B!NoDanglingKey
  BY DEF AssignInit, B!BindInit, B!NoDanglingKey
<1>2. Bound /\ B!NoDanglingKey /\ [B!BindNext]_<<binding, present>> => B!NoDanglingKey'
  BY DEF Bound, B!NoDanglingKey, B!BindNext, B!Bind, B!Revoke, B!Remove, B!KeysOn
<1>3. AssignInv => Bound
  BY DEF AssignInv, AssignTypeOK, Bound
<1> QED
  BY <1>1, <1>2, <1>3, AssignInitially, AssignPreserved, StepIsAbstract, PTL DEF AssignSpec, NoDanglingBinding

\* What the run checks of the bindings, for any pools and transactions.
THEOREM AssignmentsAreSafe == AssignSpec => []AssignSafe
<1>1. AccountWithinLimit /\ NoDanglingBinding => AssignSafe
  BY DEF AssignSafe
<1> QED
  BY <1>1, LimitIsRespected, KeysHaveTheirAccount, PTL
=============================================================================
