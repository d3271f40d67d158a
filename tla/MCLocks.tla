------------------------------- MODULE MCLocks -------------------------------
(***************************************************************************)
(* The parts in which one waits for another: for the locks of an           *)
(* assignment or of a sign-in, for the exchange of a token, for a turn to  *)
(* list models, for the other end of a pipe.  They share no state, so one  *)
(* run checks them side by side: the initial state chooses the part that   *)
(* moves.                                                                  *)
(***************************************************************************)
EXTENDS Assignments, AdminLogin, TokenCache, ModelListing, AntigravityStream, TLC

CONSTANTS a1, a2, k1, k2, p1, p2

VARIABLE part

PoolOfKey == k1 :> p1 @@ k2 :> p2
PriorityInPool == p1 :> (a1 :> 1 @@ a2 :> 2) @@ p2 :> (a1 :> 2 @@ a2 :> 1)
Ids == a1 :> 1 @@ a2 :> 2
Owners == [s \in Sources |-> IF s = "s2" THEN "copilot" ELSE "codex"]
Catalogues == [s \in Sources |-> IF s = "s3" THEN {"m1", "m2"} ELSE {"m1"}]

\* A part that does not move has one initial state.
LocksInit ==
    /\ part \in {"assignments", "login", "token", "models", "stream"}
    /\ AssignInit /\ (part # "assignments" => \A k \in Keys : binding[k] = NoAccount)
    /\ LoginInit /\ TokenInit /\ ListingInit
    /\ StreamInit /\ (part # "stream" => feed = "copilot")

LocksNext ==
    \/ part = "assignments" /\ AssignNext /\ UNCHANGED <<part, loginVars, tokenVars, listingVars, streamVars>>
    \/ part = "login" /\ LoginNext /\ UNCHANGED <<part, assignVars, tokenVars, listingVars, streamVars>>
    \/ part = "token" /\ TokenNext /\ UNCHANGED <<part, assignVars, loginVars, listingVars, streamVars>>
    \/ part = "models" /\ ListingNext /\ UNCHANGED <<part, assignVars, loginVars, tokenVars, streamVars>>
    \/ part = "stream" /\ StreamNext /\ UNCHANGED <<part, assignVars, loginVars, tokenVars, listingVars>>

\* The fairness of each part, asked of the part that moves.
LocksFairness ==
    /\ \A t \in Txs : SF_assignVars(part = "assignments" /\ TxStep(t))
    /\ \A a \in Attempts : WF_loginVars(part = "login" /\ AttemptStep(a))
    /\ \A c \in Callers : WF_tokenVars(part = "token" /\ CallerStep(c))
    /\ \A h \in Listers :
         /\ WF_listingVars(part = "models" /\ ListerStep(h))
         /\ \A s \in Sources : WF_listingVars(part = "models" /\ h \in overdue /\ ListAccount(h, s))
    /\ WF_streamVars(part = "stream" /\ StoreSignature) /\ WF_streamVars(part = "stream" /\ PassCallOn)
    /\ WF_streamVars(part = "stream" /\ HandOver) /\ WF_streamVars(part = "stream" /\ WriterStops)
    /\ WF_streamVars(part = "stream" /\ PipeEnds) /\ WF_streamVars(part = "stream" /\ CloseBody)

LocksSpec ==
    LocksInit /\ [][LocksNext]_<<part, assignVars, loginVars, tokenVars, listingVars, streamVars>> /\ LocksFairness
-----------------------------------------------------------------------------
\* Whatever the others hold, and whoever gives up, stalls or fails: every
\* transaction ends, every sign-in, request and listing is answered, and the
\* goroutine of a stream ends with its reader.
NobodyWaitsForever ==
    TransactionsEnd /\ LoginsAnswered /\ TokenServed /\ ListingAnswered /\ ProducerEnds
=============================================================================
