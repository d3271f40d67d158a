--------------------------- MODULE ResponsesWSHub ---------------------------
(***************************************************************************)
(* Connection admission, registration and shutdown of the Responses        *)
(* WebSocket hub (internal/gateway/responsesws/hub.go).                    *)
(*                                                                         *)
(* A member of Conns is one call of Hub.Handle: an HTTP upgrade request    *)
(* with its goroutine.  Every critical section of Hub.mu is one action;    *)
(* the steps a goroutine takes between two critical sections interleave    *)
(* with those of every other connection, with Hub.CloseAll (called once,   *)
(* at shutdown) and with Hub.CloseAccount (called by the control plane     *)
(* when an account's routing settings change).                             *)
(*                                                                         *)
(* What happens inside a session is the module ResponsesWSSession; here a  *)
(* session is registered, may be pinned to an account, and is closed.      *)
(***************************************************************************)
EXTENDS Naturals, FiniteSets

CONSTANTS
    Conns,             \* calls of Hub.Handle
    Keys,              \* employee API keys
    Accounts,          \* provider accounts a session can be pinned to
    MaxConnections,    \* responsesWSMaxConnections (256)
    MaxConnectionsPerKey, \* responsesWSMaxConnectionsPerKey (32)
    NoAccount          \* the zero ProviderAccount of an unpinned session

ASSUME ConnsFinite == IsFiniteSet(Conns)
ASSUME LimitsArePositive == /\ MaxConnections \in Nat \ {0}
                            /\ MaxConnectionsPerKey \in Nat \ {0}
ASSUME NoAccountIsNone == NoAccount \notin Accounts

VARIABLES
    pc,          \* where each Handle goroutine is
    key,         \* the key each connection authenticated with
    active,      \* Hub.activeConnections
    connections, \* Hub.connections, a missing entry being 0
    sessions,    \* Hub.sessions
    closing,     \* Hub.closing
    account,     \* session.account of a pinned session, NoAccount if unpinned
    closeCalls,  \* sessions with a "go session.close(...)" still to run
    closed,      \* sessions whose closeOnce has run
    shutdown,    \* CloseAll: where it is and the sessions it waits for
    routing      \* CloseAccount: the account and the sessions left to look at

hubVars == <<active, connections, sessions, closing>>
vars == <<pc, key, active, connections, sessions, closing, account,
          closeCalls, closed, shutdown, routing>>

-----------------------------------------------------------------------------
(***************************************************************************)
(* The places a Handle goroutine can be:                                   *)
(*   new       before Authenticate                                         *)
(*   authed    authenticated, before reserveConnection                     *)
(*   reserved  holds a reservation, before websocket.Accept                *)
(*   accepted  session built, before addSession                            *)
(*   refused   addSession returned false, releaseConnection still to run   *)
(*   running   registered; readClient runs                                 *)
(*   leaving   readClient returned; the deferred close is still to run     *)
(*   drained   closed and workers waited for; removeSession still to run   *)
(*   removed   out of Hub.sessions, reservation still to be released       *)
(*   released  reservation released, session.done still open               *)
(*   done      session.done closed                                         *)
(*   rejected  the request was answered with an error                      *)
(***************************************************************************)
Places == {"new", "authed", "reserved", "accepted", "refused", "running",
           "leaving", "drained", "removed", "released", "done", "rejected"}

\* Places in which the connection holds a reservation.
Holding == {"reserved", "accepted", "refused", "running", "leaving",
            "drained", "removed"}

\* Places in which the session is in Hub.sessions.
Registered == {"running", "leaving", "drained"}

Holders == {c \in Conns : pc[c] \in Holding}
HoldersOf(k) == {c \in Holders : key[c] = k}

TypeOK ==
    /\ pc \in [Conns -> Places]
    /\ key \in [Conns -> Keys]
    /\ active \in Nat
    /\ connections \in [Keys -> Nat]
    /\ sessions \subseteq Conns
    /\ closing \in BOOLEAN
    /\ account \in [Conns -> Accounts \cup {NoAccount}]
    /\ closeCalls \subseteq Conns
    /\ closed \subseteq Conns
    /\ shutdown \in [at : {"idle", "waiting", "returned"}, wait : SUBSET Conns]
    /\ routing \in [account : Accounts \cup {NoAccount}, todo : SUBSET Conns]

Init ==
    /\ pc = [c \in Conns |-> "new"]
    /\ key \in [Conns -> Keys]
    /\ active = 0
    /\ connections = [k \in Keys |-> 0]
    /\ sessions = {}
    /\ closing = FALSE
    /\ account = [c \in Conns |-> NoAccount]
    /\ closeCalls = {}
    /\ closed = {}
    /\ shutdown = [at |-> "idle", wait |-> {}]
    /\ routing = [account |-> NoAccount, todo |-> {}]

-----------------------------------------------------------------------------
Goto(c, from, to) ==
    /\ pc[c] = from
    /\ pc' = [pc EXCEPT ![c] = to]

\* Backend.Authenticate (and the read deadline): accepted or answered.
Authenticate(c) ==
    /\ Goto(c, "new", "authed") \/ Goto(c, "new", "rejected")
    /\ UNCHANGED <<key, hubVars, account, closeCalls, closed, shutdown, routing>>

\* reserveConnection refuses during shutdown, at the global and the key limit.
Admissible(k) ==
    /\ ~closing
    /\ active < MaxConnections
    /\ connections[k] < MaxConnectionsPerKey

reserveConnection(c) ==
    /\ IF Admissible(key[c])
         THEN /\ Goto(c, "authed", "reserved")
              /\ active' = active + 1
              /\ connections' = [connections EXCEPT ![key[c]] = @ + 1]
         ELSE /\ Goto(c, "authed", "rejected")
              /\ UNCHANGED <<active, connections>>
    /\ UNCHANGED <<key, sessions, closing, account, closeCalls, closed,
                   shutdown, routing>>

\* Both counters stop at zero instead of going negative.
releaseConnection(k) ==
    /\ active' = IF active > 0 THEN active - 1 ELSE active
    /\ connections' = [connections EXCEPT ![k] = IF @ <= 1 THEN 0 ELSE @ - 1]

AcceptFailed(c) ==
    Goto(c, "reserved", "rejected") /\ releaseConnection(key[c])

\* websocket.Accept: the session object is built, or the reservation returned.
Accept(c) ==
    /\ \/ Goto(c, "reserved", "accepted") /\ UNCHANGED <<active, connections>>
       \/ AcceptFailed(c)
    /\ UNCHANGED <<key, sessions, closing, account, closeCalls, closed,
                   shutdown, routing>>

addSession(c) ==
    /\ IF closing
         THEN /\ Goto(c, "accepted", "refused")
              /\ UNCHANGED sessions
         ELSE /\ Goto(c, "accepted", "running")
              /\ sessions' = sessions \cup {c}
    /\ UNCHANGED <<key, active, connections, closing, account, closeCalls,
                   closed, shutdown, routing>>

\* A session built during shutdown is dropped and its reservation returned.
Refuse(c) ==
    /\ Goto(c, "refused", "rejected")
    /\ releaseConnection(key[c])
    /\ UNCHANGED <<key, sessions, closing, account, closeCalls, closed,
                   shutdown, routing>>

\* pinAccount (and the failover transfers): only while the session is open.
Pin(c) ==
    /\ pc[c] = "running"
    /\ c \notin closed
    /\ \E a \in Accounts : account' = [account EXCEPT ![c] = a]
    /\ UNCHANGED <<pc, key, hubVars, closeCalls, closed, shutdown, routing>>

\* readClient returns because the client left or a timer fired.
ClientLeaves(c) ==
    /\ Goto(c, "running", "leaving")
    /\ c \notin closed
    /\ UNCHANGED <<key, hubVars, account, closeCalls, closed, shutdown, routing>>

\* readClient returns because closing the session cancelled its context.
ReadCancelled(c) ==
    /\ Goto(c, "running", "leaving")
    /\ c \in closed
    /\ UNCHANGED <<key, hubVars, account, closeCalls, closed, shutdown, routing>>

\* The deferred session.close and workers.Wait.
Drain(c) ==
    /\ Goto(c, "leaving", "drained")
    /\ closed' = closed \cup {c}
    /\ UNCHANGED <<key, hubVars, account, closeCalls, shutdown, routing>>

\* removeSession: the map entry under one lock, the counters under another.
removeSession(c) ==
    /\ Goto(c, "drained", "removed")
    /\ sessions' = sessions \ {c}
    /\ UNCHANGED <<key, active, connections, closing, account, closeCalls,
                   closed, shutdown, routing>>

ReleaseRemoved(c) ==
    /\ Goto(c, "removed", "released")
    /\ releaseConnection(key[c])
    /\ UNCHANGED <<key, sessions, closing, account, closeCalls, closed,
                   shutdown, routing>>

CloseDone(c) ==
    /\ Goto(c, "released", "done")
    /\ UNCHANGED <<key, hubVars, account, closeCalls, closed, shutdown, routing>>

\* A goroutine started by CloseAll or CloseAccount runs session.close.
SessionClose(c) ==
    /\ c \in closeCalls
    /\ closeCalls' = closeCalls \ {c}
    /\ closed' = closed \cup {c}
    /\ UNCHANGED <<pc, key, hubVars, account, shutdown, routing>>

-----------------------------------------------------------------------------
\* CloseAll: the flag and the snapshot of Hub.sessions under one lock, then a
\* closing goroutine for each session of the snapshot.
CloseAll ==
    /\ shutdown.at = "idle"
    /\ closing' = TRUE
    /\ shutdown' = [at |-> "waiting", wait |-> sessions]
    /\ closeCalls' = closeCalls \cup sessions
    /\ UNCHANGED <<pc, key, active, connections, sessions, account, closed,
                   routing>>

\* CloseAll receives from session.done of one session after the other.
CloseAllReceive ==
    /\ shutdown.at = "waiting"
    /\ \E c \in shutdown.wait :
          /\ pc[c] = "done"
          /\ shutdown' = [shutdown EXCEPT !.wait = @ \ {c}]
    /\ UNCHANGED <<pc, key, hubVars, account, closeCalls, closed, routing>>

\* Mutant: CloseAll does not wait for session.done.
Mut_ReturnUnwaited ==
    /\ shutdown.at = "waiting"
    /\ shutdown' = [shutdown EXCEPT !.at = "returned"]
    /\ UNCHANGED <<pc, key, hubVars, account, closeCalls, closed, routing>>

CloseAllReturn ==
    /\ shutdown = [at |-> "waiting", wait |-> {}]
    /\ shutdown' = [shutdown EXCEPT !.at = "returned"]
    /\ UNCHANGED <<pc, key, hubVars, account, closeCalls, closed, routing>>

\* CloseAccount: the snapshot under the hub's lock ...
CloseAccount(a) ==
    /\ routing.todo = {}
    /\ routing' = [account |-> a, todo |-> sessions]
    /\ UNCHANGED <<pc, key, hubVars, account, closeCalls, closed, shutdown>>

\* Mutant: the loop over the snapshot ends at the first session that matches
\* nothing.
Mut_CheckStopsEarly(c) ==
    /\ c \in routing.todo
    /\ IF account[c] = routing.account
         THEN /\ routing' = [routing EXCEPT !.todo = @ \ {c}]
              /\ closeCalls' = closeCalls \cup {c}
         ELSE /\ routing' = [routing EXCEPT !.todo = {}]
              /\ UNCHANGED closeCalls
    /\ UNCHANGED <<pc, key, hubVars, account, closed, shutdown>>

\* ... then the pin of each session under that session's own lock.
CloseAccountCheck(c) ==
    /\ c \in routing.todo
    /\ routing' = [routing EXCEPT !.todo = @ \ {c}]
    /\ closeCalls' = IF account[c] = routing.account
                       THEN closeCalls \cup {c} ELSE closeCalls
    /\ UNCHANGED <<pc, key, hubVars, account, closed, shutdown>>

Handle(c) ==
    \/ Authenticate(c) \/ reserveConnection(c) \/ Accept(c) \/ addSession(c)
    \/ Refuse(c) \/ Pin(c) \/ ClientLeaves(c) \/ ReadCancelled(c) \/ Drain(c)
    \/ removeSession(c) \/ ReleaseRemoved(c) \/ CloseDone(c)

Next ==
    \/ \E c \in Conns : Handle(c) \/ SessionClose(c) \/ CloseAccountCheck(c)
    \/ CloseAll \/ CloseAllReceive \/ CloseAllReturn
    \/ \E a \in Accounts : CloseAccount(a)

\* Goroutines that can run do run.  Nothing is assumed of the client
\* (ClientLeaves), of new requests (Authenticate), of pinning or of the
\* administrator (CloseAll, CloseAccount).
Fairness ==
    /\ \A c \in Conns :
         /\ WF_vars(reserveConnection(c)) /\ WF_vars(Accept(c))
         /\ WF_vars(addSession(c)) /\ WF_vars(Refuse(c))
         /\ WF_vars(ReadCancelled(c)) /\ WF_vars(Drain(c))
         /\ WF_vars(removeSession(c)) /\ WF_vars(ReleaseRemoved(c))
         /\ WF_vars(CloseDone(c)) /\ WF_vars(SessionClose(c))
         /\ WF_vars(CloseAccountCheck(c))
    /\ WF_vars(CloseAllReceive)
    /\ WF_vars(CloseAllReturn)

Spec == Init /\ [][Next]_vars /\ Fairness

-----------------------------------------------------------------------------
(***************************************************************************)
(* Properties.                                                             *)
(***************************************************************************)

\* Every way out of Handle returns exactly the reservation it took: the
\* counters are the number of connections that hold one.  The floors of
\* releaseConnection would hide a double release, which this would not.
ReservationsExact ==
    /\ active = Cardinality(Holders)
    /\ \A k \in Keys : connections[k] = Cardinality(HoldersOf(k))

\* The limits of the README: 256 connections per process, 32 per key; never
\* exceeded by reservations that are not yet, or no longer, registered.
WithinLimits ==
    /\ Cardinality(Holders) <= MaxConnections
    /\ \A k \in Keys : Cardinality(HoldersOf(k)) <= MaxConnectionsPerKey

\* When CloseAll has returned no session is left: an upgrade that was half
\* done when the flag was set is refused by addSession, and every session of
\* the snapshot has been waited for.
ShutdownLeavesNoSession ==
    shutdown.at = "returned" => \A c \in Conns : pc[c] \notin Registered

\* The inductive invariant: besides the properties above, Hub.sessions holds
\* exactly the sessions between addSession and removeSession, and once the
\* shutdown flag is set every registered session is one CloseAll waits for.
HubInv ==
    /\ TypeOK
    /\ ReservationsExact
    /\ active <= MaxConnections
    /\ \A k \in Keys : connections[k] <= MaxConnectionsPerKey
    /\ sessions = {c \in Conns : pc[c] \in Registered}
    /\ closing <=> shutdown.at # "idle"
    /\ closing => \A c \in Conns : pc[c] \in Registered => c \in shutdown.wait
    /\ shutdown.at = "returned" => shutdown.wait = {}

\* Shutdown ends: CloseAll never waits for a session nobody closes.
ShutdownTerminates == (shutdown.at = "waiting") ~> (shutdown.at = "returned")

\* CloseAccount closes every session that is pinned to the account when the
\* snapshot is taken, unless the session moves to another account first.
AccountSessionsClose ==
    \A c \in Conns, a \in Accounts :
        (c \in routing.todo /\ routing.account = a /\ account[c] = a)
            ~> (c \in closed \/ account[c] # a)

\* What the hub promises in every state: its bookkeeping is exact, no limit is
\* exceeded, and once CloseAll has returned no session is left.
HubSafe == HubInv /\ WithinLimits /\ ShutdownLeavesNoSession

\* What the hub promises of every run: Shutdown ends, and CloseAccount ends
\* every session it finds pinned to the account.
HubSettles == ShutdownTerminates /\ AccountSessionsClose
=============================================================================
