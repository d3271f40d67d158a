----------------------------- MODULE TokenCache -----------------------------
(***************************************************************************)
(* The access tokens of a Copilot account (provider/copilot/client.go).    *)
(* One request exchanges the GitHub token, the others wait for the channel *)
(* of its entry and look again.  A request that is refused removes the     *)
(* entry, whichever entry it is by then, and tries once more.              *)
(***************************************************************************)
EXTENDS Naturals, FiniteSets

CONSTANTS
    Callers,
    NoEntry,
    MaxExchanges    \* bound: exchanges, which also name the entries

ASSUME TokenAssumption == MaxExchanges \in Nat /\ NoEntry \notin 1..MaxExchanges

VARIABLES
    cached,      \* the entry in the map
    fresh,       \* whether its token need not be refreshed yet
    issued,      \* entries made so far
    caller

tokenVars == <<cached, fresh, issued, caller>>

NewCaller == [at |-> "new", entry |-> 0, used |-> 0, again |-> FALSE]

\* The entries whose refreshing channel is open.
Refreshing == {caller[c].entry : c \in {d \in Callers : caller[d].at = "exchange"}}

TokenInit ==
    /\ cached = NoEntry /\ fresh = FALSE /\ issued = 0
    /\ caller = [c \in Callers |-> NewCaller]

Be(c, f) == caller' = [caller EXCEPT ![c] = IF f.at = "done" THEN [NewCaller EXCEPT !.at = "done"] ELSE f]
-----------------------------------------------------------------------------
RequestToken(c) ==
    /\ caller[c].at = "new"
    /\ Be(c, [caller[c] EXCEPT !.at = "look"])
    /\ UNCHANGED <<cached, fresh, issued>>

\* One turn of the loop of token, under the lock: a token that need not be
\* refreshed yet, somebody else's exchange, or an entry of its own.
Look(c) ==
    LET f == caller[c] IN
    /\ f.at = "look"
    /\ \/ /\ cached \in Refreshing
          /\ Be(c, [f EXCEPT !.at = "wait", !.entry = cached])
          /\ UNCHANGED <<cached, fresh, issued>>
       \/ /\ cached \notin Refreshing /\ fresh
          /\ Be(c, [f EXCEPT !.at = "send", !.entry = cached])
          /\ UNCHANGED <<cached, fresh, issued>>
       \/ /\ cached \notin Refreshing /\ ~fresh /\ issued < MaxExchanges
          /\ issued' = issued + 1 /\ cached' = issued' /\ UNCHANGED fresh
          /\ Be(c, [f EXCEPT !.at = "exchange", !.entry = issued'])

\* Mutant: only a request whose exchange succeeded wakes the others.
Mut_WakeOnSuccess(c) ==
    /\ caller[c].at = "wait" /\ caller[c].entry = cached /\ fresh
    /\ Be(c, [caller[c] EXCEPT !.at = "look"])
    /\ UNCHANGED <<cached, fresh, issued>>

\* The channel is closed, or the client of the waiting request is gone.
Wake(c) ==
    /\ caller[c].at = "wait"
    /\ \/ caller[c].entry \notin Refreshing /\ Be(c, [caller[c] EXCEPT !.at = "look"])
       \/ Be(c, [caller[c] EXCEPT !.at = "done"])
    /\ UNCHANGED <<cached, fresh, issued>>

\* The exchange ends; a failed one removes the entry of the map, its own or
\* not, and only its own request fails.
Exchange(c) ==
    LET f == caller[c] IN
    /\ f.at = "exchange"
    /\ \/ /\ fresh' = (fresh \/ cached = f.entry)
          /\ UNCHANGED cached
          /\ Be(c, [f EXCEPT !.at = "send"])
       \/ /\ cached' = NoEntry /\ fresh' = FALSE
          /\ Be(c, [f EXCEPT !.at = "done"])
    /\ UNCHANGED issued

\* Mutant: a refused token stays in the map.
Mut_KeepRefused(c) ==
    LET f == caller[c] IN
    /\ f.at = "send"
    /\ \/ Be(c, [f EXCEPT !.at = "done"])
       \/ ~f.again /\ Be(c, [f EXCEPT !.at = "look", !.used = f.entry, !.again = TRUE])
    /\ UNCHANGED <<cached, fresh, issued>>

\* request: a refused token is removed and the request is sent once more.
SendWithToken(c) ==
    LET f == caller[c] IN
    /\ f.at = "send"
    /\ \/ Be(c, [f EXCEPT !.at = "done"]) /\ UNCHANGED <<cached, fresh>>
       \/ /\ cached' = NoEntry /\ fresh' = FALSE
          /\ Be(c, [f EXCEPT !.at = IF f.again THEN "done" ELSE "look", !.used = f.entry, !.again = TRUE])
    /\ UNCHANGED issued

\* The time to refresh the token comes.
TokenAges ==
    /\ fresh /\ fresh' = FALSE
    /\ UNCHANGED <<cached, issued, caller>>

CallerStep(c) == Look(c) \/ Wake(c) \/ Exchange(c) \/ SendWithToken(c)

TokenNext ==
    \/ \E c \in Callers : RequestToken(c) \/ CallerStep(c)
    \/ TokenAges

TokenFairness == \A c \in Callers : WF_tokenVars(CallerStep(c))

TokenSpec == TokenInit /\ [][TokenNext]_tokenVars /\ TokenFairness
-----------------------------------------------------------------------------
(* Properties.                                                              *)

\* A request that was refused is never repeated with the token it was refused
\* for, although other requests fill and clear the map meanwhile.
RetryUsesAnotherToken ==
    \A c \in Callers : caller[c].at = "send" /\ caller[c].again => caller[c].entry # caller[c].used

\* Whoever waits for an exchange goes on, also when the request that made it
\* failed, was canceled, or had its entry removed.
TokenServed == <>[](\A c \in Callers : caller[c].at \in {"new", "done"})
=============================================================================
