------------------------------ MODULE RateLimit ------------------------------
(***************************************************************************)
(* The requests-per-minute limit of an API key (store/runtime.go,          *)
(* AllowAPIKeyRequest).  One row a key, advanced by one statement; the     *)
(* minute comes from the clock of the replica that serves the request, and *)
(* the clocks of the replicas differ.                                      *)
(***************************************************************************)
EXTENDS Naturals

CONSTANTS
    Gateways,        \* replicas
    RequestLimit,    \* of the key
    Skew,            \* minutes by which two clocks may differ
    MaxMinute,       \* bound on time
    MaxRequests      \* bound on the requests of a window

ASSUME RateLimitAssumption ==
    RequestLimit \in Nat \ {0} /\ Skew \in Nat /\ MaxMinute \in Nat \ {0} /\ MaxRequests \in Nat

VARIABLES
    minute,      \* clock of a replica
    window,      \* api_key_rate_limits: window_start and request_count
    admitted     \* requests admitted so far in the window of each minute

rateVars == <<minute, window, admitted>>

RateInit ==
    /\ minute = [g \in Gateways |-> 1]
    /\ window = [start |-> 0, count |-> 0]
    /\ admitted = [m \in 1..MaxMinute |-> 0]

\* Mutant: any other minute starts a new window, an earlier one too.
Mut_CountAnyMinute(now) ==
    IF window.start # now THEN [start |-> now, count |-> 1] ELSE [window EXCEPT !.count = @ + 1]

\* The statement: a later minute starts a new window, an earlier one is
\* counted in the window there is.
Count(now) ==
    IF window.start < now THEN [start |-> now, count |-> 1] ELSE [window EXCEPT !.count = @ + 1]

\* AllowAPIKeyRequest: a refused request is counted too.
AllowAPIKeyRequest(g) ==
    /\ window.count < MaxRequests
    /\ window' = Count(minute[g])
    /\ admitted' = IF window'.count <= RequestLimit THEN [admitted EXCEPT ![window'.start] = @ + 1] ELSE admitted
    /\ UNCHANGED minute

RateTick(g) ==
    /\ minute[g] < MaxMinute
    /\ \A h \in Gateways : minute[g] + 1 - Skew <= minute[h]
    /\ minute' = [minute EXCEPT ![g] = @ + 1]
    /\ UNCHANGED <<window, admitted>>

RateNext == \E g \in Gateways : AllowAPIKeyRequest(g) \/ RateTick(g)

RateSpec == RateInit /\ [][RateNext]_rateVars
-----------------------------------------------------------------------------
(* Properties.                                                              *)

\* Replicas that disagree about the minute do not open a window again: no
\* window admits more requests than the key allows.
WindowWithinLimit == \A m \in 1..MaxMinute : admitted[m] <= RequestLimit
=============================================================================
