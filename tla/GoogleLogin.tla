----------------------------- MODULE GoogleLogin -----------------------------
(***************************************************************************)
(* The Google authorization of an Antigravity account (provider/           *)
(* antigravity/oauth.go, control/antigravity.go).  The console starts it,  *)
(* the administrator pastes the callback, possibly twice, and the entry is *)
(* taken out of the map before its code is exchanged.                      *)
(***************************************************************************)
EXTENDS Naturals, FiniteSets

CONSTANTS
    States,        \* authorizations, each with its own verifier
    Callbacks,     \* requests that complete one
    MaxGoogle      \* pending authorizations

VARIABLES
    authorization,   \* of a state: not started, in OAuth.pending, expired there, or taken
    callback,        \* progress of a request, and the state it completes
    exchanged,       \* how often the code of a state was exchanged
    accounts         \* accounts saved, by the state they came from

googleVars == <<authorization, callback, exchanged, accounts>>

GoogleInit ==
    /\ authorization = [s \in States |-> "new"]
    /\ callback = [c \in Callbacks |-> [at |-> "idle", of |-> {}]]
    /\ exchanged = [s \in States |-> 0]
    /\ accounts = {}

CallbackGoes(c, at, held) == callback' = [callback EXCEPT ![c] = [at |-> at, of |-> held]]

HeldStates == {s \in States : authorization[s] \in {"pending", "expired"}}

\* Start sweeps the expired authorizations before it counts.
StartGoogle(s) ==
    /\ authorization[s] = "new"
    /\ Cardinality({t \in HeldStates : authorization[t] = "pending"}) < MaxGoogle
    /\ authorization' = [t \in States |-> IF t = s THEN "pending"
                                          ELSE IF authorization[t] = "expired" THEN "taken" ELSE authorization[t]]
    /\ UNCHANGED <<callback, exchanged, accounts>>

GoogleExpires(s) ==
    /\ authorization[s] = "pending"
    /\ authorization' = [authorization EXCEPT ![s] = "expired"]
    /\ UNCHANGED <<callback, exchanged, accounts>>

\* Mutant: the entry stays in the map until the account has been saved.
Mut_TakeLate(c, s) ==
    /\ callback[c].at = "idle" /\ authorization[s] # "new"
    /\ IF authorization[s] = "pending" THEN CallbackGoes(c, "exchange", {s}) ELSE CallbackGoes(c, "end", {})
    /\ UNCHANGED <<authorization, exchanged, accounts>>

\* Complete: the entry is removed under the lock; one that expired, or was
\* used before, is refused.
CompleteGoogle(c, s) ==
    /\ callback[c].at = "idle" /\ authorization[s] # "new"
    /\ IF authorization[s] = "pending" THEN CallbackGoes(c, "exchange", {s}) ELSE CallbackGoes(c, "end", {})
    /\ authorization' = [authorization EXCEPT ![s] = "taken"]
    /\ UNCHANGED <<exchanged, accounts>>

\* token and initialize: the code is exchanged, the identity and the project
\* are read; any of these may fail.
ExchangeCode(c, s) ==
    /\ callback[c] = [at |-> "exchange", of |-> {s}]
    /\ exchanged' = [exchanged EXCEPT ![s] = @ + 1]
    /\ CallbackGoes(c, "save", {s}) \/ CallbackGoes(c, "end", {})
    /\ UNCHANGED <<authorization, accounts>>

\* The account is checked and created; the insert may fail.
SaveAntigravityAccount(c) ==
    /\ callback[c].at = "save"
    /\ accounts' = accounts \cup callback[c].of \/ UNCHANGED accounts
    /\ CallbackGoes(c, "end", {})
    /\ UNCHANGED <<authorization, exchanged>>

GoogleNext ==
    \/ \E s \in States : StartGoogle(s) \/ GoogleExpires(s)
    \/ \E c \in Callbacks, s \in States : CompleteGoogle(c, s) \/ ExchangeCode(c, s)
    \/ \E c \in Callbacks : SaveAntigravityAccount(c)

GoogleSpec == GoogleInit /\ [][GoogleNext]_googleVars
-----------------------------------------------------------------------------
\* The code and the verifier of one authorization are used at most once, also
\* when the callback is submitted twice at the same time.
CodeExchangedOnce == \A s \in States : exchanged[s] <= 1
=============================================================================
