------------------------------- MODULE MCOnce -------------------------------
(***************************************************************************)
(* What must happen once although a reply is lost and somebody else works  *)
(* on the same row: the redemption of a credit by two replicas, and what   *)
(* two requests of a key record of their answers, with an account of each  *)
(* kind.  The initial state chooses the part that moves.                   *)
(***************************************************************************)
EXTENDS MCAutoReset, Gateway

VARIABLE part

\* Bound: a second trouble only fails a write that has failed before, which is
\* then given up.
SecondTrouble ==
    trouble' > 1 /\ trouble' > trouble => \E q \in Requests : request[q].tries = 1 /\ request'[q] # request[q]

\* A part that does not move has one initial state.
OnceInit ==
    /\ part \in {"resets", "gateway"}
    /\ Init /\ (part # "resets" => window /\ \A c \in Credits : credit[c] = "available")
    /\ GatewayInit /\ (part # "gateway" => \A c \in Clients : bound[c] \in Subscriptions)

OnceNext ==
    \/ part = "resets" /\ Next /\ UNCHANGED <<part, gatewayVars>>
    \/ part = "gateway" /\ GatewayNext /\ SecondTrouble /\ UNCHANGED <<part, vars>>

OnceSpec == OnceInit /\ [][OnceNext]_<<part, vars, gatewayVars>>

\* Workers and requests are interchangeable; the ids of responses are taken in
\* an order that CHOOSE fixes and must not be permuted.
Symmetry == WorkerSymmetry \cup Permutations(Requests)
=============================================================================
