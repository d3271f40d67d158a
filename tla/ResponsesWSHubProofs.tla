------------------------ MODULE ResponsesWSHubProofs ------------------------
(***************************************************************************)
(* Proofs about connection admission and shutdown, for every set of        *)
(* connections, keys and accounts and every pair of limits.                *)
(*                                                                         *)
(* The counters are compared with the cardinality of the set of holders,   *)
(* so the work is in three lemmas: what a step that takes, returns or      *)
(* keeps a reservation does to that set.                                   *)
(***************************************************************************)
EXTENDS ResponsesWSHub, FiniteSetTheorems, TLAPS

\* The connections that hold a reservation are finitely many.
LEMMA HoldersFinite ==
    /\ IsFiniteSet(Holders) /\ Cardinality(Holders) \in Nat
    /\ \A k : IsFiniteSet(HoldersOf(k)) /\ Cardinality(HoldersOf(k)) \in Nat
<1>1. Holders \subseteq Conns /\ \A k : HoldersOf(k) \subseteq Conns
  BY DEF Holders, HoldersOf
<1>2. QED
  BY <1>1, ConnsFinite, FS_Subset, FS_CardinalityType

\* A connection that takes a reservation raises the count by one, and that
\* of its key.
LEMMA TakeReservation ==
    ASSUME TypeOK, NEW c \in Conns, NEW to \in Holding,
           pc[c] \notin Holding, pc' = [pc EXCEPT ![c] = to], key' = key
    PROVE  /\ Cardinality(Holders)' = Cardinality(Holders) + 1
           /\ \A k \in Keys : Cardinality(HoldersOf(k))' =
                 IF key[c] = k THEN Cardinality(HoldersOf(k)) + 1
                               ELSE Cardinality(HoldersOf(k))
<1>1. Holders' = Holders \cup {c} /\ c \notin Holders
  BY DEF TypeOK, Holders
<1>2. \A k \in Keys : /\ c \notin HoldersOf(k)
                      /\ HoldersOf(k)' = IF key[c] = k THEN HoldersOf(k) \cup {c}
                                                       ELSE HoldersOf(k)
  BY <1>1 DEF HoldersOf
<1>3. Cardinality(Holders \cup {c}) = Cardinality(Holders) + 1
  BY <1>1, HoldersFinite, FS_AddElement
<1>4. \A k \in Keys : Cardinality(HoldersOf(k) \cup {c}) = Cardinality(HoldersOf(k)) + 1
  BY <1>2, HoldersFinite, FS_AddElement
<1>5. QED
  BY <1>1, <1>2, <1>3, <1>4

\* A connection that returns its reservation lowers the count by one, and
\* that of its key; both were at least one.
LEMMA ReturnReservation ==
    ASSUME TypeOK, NEW c \in Conns, NEW to \in Places \ Holding,
           pc[c] \in Holding, pc' = [pc EXCEPT ![c] = to], key' = key
    PROVE  /\ Cardinality(Holders)' = Cardinality(Holders) - 1
           /\ Cardinality(Holders) >= 1
           /\ Cardinality(HoldersOf(key[c])) >= 1
           /\ \A k \in Keys : Cardinality(HoldersOf(k))' =
                 IF key[c] = k THEN Cardinality(HoldersOf(k)) - 1
                               ELSE Cardinality(HoldersOf(k))
<1>1. Holders' = Holders \ {c} /\ c \in Holders
  BY DEF TypeOK, Holders
<1>2. \A k \in Keys : HoldersOf(k)' = IF key[c] = k THEN HoldersOf(k) \ {c}
                                                    ELSE HoldersOf(k)
  BY <1>1 DEF HoldersOf
<1>3. c \in HoldersOf(key[c])
  BY <1>1 DEF HoldersOf
<1>4. Cardinality(Holders \ {c}) = Cardinality(Holders) - 1
  BY <1>1, HoldersFinite, FS_RemoveElement
<1>5. \A k \in Keys : key[c] = k =>
          Cardinality(HoldersOf(k) \ {c}) = Cardinality(HoldersOf(k)) - 1
  BY <1>3, HoldersFinite, FS_RemoveElement
<1>6. Cardinality(Holders) # 0 /\ Cardinality(HoldersOf(key[c])) # 0
  BY <1>1, <1>3, HoldersFinite, FS_EmptySet
<1>7. QED
  BY <1>1, <1>2, <1>4, <1>5, <1>6, HoldersFinite

\* A step between two places that agree on holding leaves the counts alone.
LEMMA KeepReservation ==
    ASSUME TypeOK, NEW c \in Conns, NEW to \in Places,
           (to \in Holding) <=> (pc[c] \in Holding),
           pc' = [pc EXCEPT ![c] = to], key' = key
    PROVE  /\ Cardinality(Holders)' = Cardinality(Holders)
           /\ \A k \in Keys : Cardinality(HoldersOf(k))' = Cardinality(HoldersOf(k))
<1>1. Holders' = Holders
  BY DEF TypeOK, Holders
<1>2. \A k \in Keys : HoldersOf(k)' = HoldersOf(k)
  BY <1>1 DEF HoldersOf
<1>3. QED
  BY <1>1, <1>2

\* Hub.activeConnections and Hub.connections always count the reservations
\* that are held, and stay within the two limits; Hub.sessions holds exactly
\* the registered sessions; and CloseAll waits for each of them.
THEOREM HubInvariance == Spec => []HubInv
<1>1. Init => HubInv
  <2> SUFFICES ASSUME Init PROVE HubInv
    OBVIOUS
  <2>1. TypeOK
    BY DEF Init, TypeOK, Places
  <2>2. Holders = {} /\ \A k \in Keys : HoldersOf(k) = {}
    BY DEF Init, Holders, HoldersOf, Holding
  <2>3. ReservationsExact
    BY <2>2, FS_EmptySet DEF Init, ReservationsExact
  <2>4. QED
    BY <2>1, <2>3, LimitsArePositive DEF Init, HubInv, Registered
<1>2. HubInv /\ [Next]_vars => HubInv'
  <2> SUFFICES ASSUME HubInv, [Next]_vars PROVE HubInv'
    OBVIOUS
  <2> USE DEF HubInv
  <2>1. ASSUME NEW c \in Conns, Authenticate(c) PROVE HubInv'
    <3>1. PICK to \in {"authed", "rejected"} :
             pc[c] = "new" /\ pc' = [pc EXCEPT ![c] = to]
      BY <2>1 DEF Authenticate, Goto
    <3>2. ReservationsExact'
      BY <2>1, <3>1, KeepReservation
      DEF Authenticate, hubVars, ReservationsExact, Holding, Places
    <3>3. QED
      BY <2>1, <3>1, <3>2 DEF Authenticate, hubVars, TypeOK, Registered, Places
  <2>2. ASSUME NEW c \in Conns, reserveConnection(c) PROVE HubInv'
    <3>1. CASE Admissible(key[c])
      <4>1. pc[c] = "authed" /\ pc' = [pc EXCEPT ![c] = "reserved"] /\ key' = key
        BY <2>2, <3>1 DEF reserveConnection, Goto
      <4>2. "reserved" \in Holding /\ "authed" \notin Holding
        BY DEF Holding
      <4>3. /\ Cardinality(Holders)' = Cardinality(Holders) + 1
            /\ \A k \in Keys : Cardinality(HoldersOf(k))' =
                  IF key[c] = k THEN Cardinality(HoldersOf(k)) + 1
                                ELSE Cardinality(HoldersOf(k))
        BY <4>1, <4>2, TakeReservation
      <4>4. ReservationsExact'
        BY <2>2, <3>1, <4>3 DEF reserveConnection, ReservationsExact, TypeOK
      <4>5. QED
        BY <2>2, <3>1, <4>1, <4>4, LimitsArePositive
        DEF reserveConnection, Admissible, TypeOK, Registered, Places
    <3>2. CASE ~Admissible(key[c])
      <4>1. pc[c] = "authed" /\ pc' = [pc EXCEPT ![c] = "rejected"] /\ key' = key
        BY <2>2, <3>2 DEF reserveConnection, Goto
      <4>2. ReservationsExact'
        BY <2>2, <3>2, <4>1, KeepReservation
        DEF reserveConnection, ReservationsExact, Holding, Places
      <4>3. QED
        BY <2>2, <3>2, <4>1, <4>2
        DEF reserveConnection, TypeOK, Registered, Places
    <3>3. QED
      BY <3>1, <3>2
  <2>3. ASSUME NEW c \in Conns, NEW from \in {"reserved", "refused", "removed"},
               NEW to \in {"rejected", "released"},
               Goto(c, from, to), releaseConnection(key[c]), key' = key,
               UNCHANGED <<sessions, closing, account, closeCalls, closed,
                           shutdown, routing>>
        PROVE HubInv'
    <3>1. /\ to \in Places \ Holding /\ pc[c] \in Holding
          /\ pc' = [pc EXCEPT ![c] = to]
      BY <2>3 DEF Goto, Places, Holding
    <3>2. /\ Cardinality(Holders)' = Cardinality(Holders) - 1
          /\ Cardinality(Holders) >= 1
          /\ Cardinality(HoldersOf(key[c])) >= 1
          /\ \A k \in Keys : Cardinality(HoldersOf(k))' =
                IF key[c] = k THEN Cardinality(HoldersOf(k)) - 1
                              ELSE Cardinality(HoldersOf(k))
      BY <2>3, <3>1, ReturnReservation
    <3>3. ReservationsExact'
      BY <2>3, <3>2, HoldersFinite DEF releaseConnection, ReservationsExact, TypeOK
    <3>4. /\ active' = active - 1 /\ active >= 1
          /\ \A k \in Keys : connections'[k] <= connections[k] /\ connections'[k] \in Nat
          /\ connections' \in [Keys -> Nat]
      BY <2>3, <3>2 DEF releaseConnection, ReservationsExact, TypeOK
    <3>5. TypeOK'
      BY <2>3, <3>1, <3>4 DEF TypeOK, Places
    <3>6. active' <= MaxConnections /\ \A k \in Keys : connections'[k] <= MaxConnectionsPerKey
      BY <3>4, LimitsArePositive DEF TypeOK
    <3>7. \A d \in Conns : pc'[d] \in Registered <=> pc[d] \in Registered
      BY <2>3, <3>1 DEF TypeOK, Registered, Goto
    <3>8. QED
      BY <2>3, <3>3, <3>5, <3>6, <3>7
  <2>4. ASSUME NEW c \in Conns, Accept(c) PROVE HubInv'
    <3>1. CASE AcceptFailed(c)
      BY <2>3, <2>4, <3>1 DEF Accept, AcceptFailed
    <3>2. CASE Goto(c, "reserved", "accepted") /\ UNCHANGED <<active, connections>>
      <4>1. pc[c] = "reserved" /\ pc' = [pc EXCEPT ![c] = "accepted"] /\ key' = key
        BY <2>4, <3>2 DEF Accept, Goto
      <4>2. ReservationsExact'
        BY <2>4, <3>2, <4>1, KeepReservation DEF ReservationsExact, Holding, Places
      <4>3. QED
        BY <2>4, <3>2, <4>1, <4>2 DEF Accept, TypeOK, Registered, Places
    <3>3. QED
      BY <2>4, <3>1, <3>2 DEF Accept
  <2>5. ASSUME NEW c \in Conns, addSession(c) PROVE HubInv'
    <3>1. PICK to \in {"refused", "running"} :
             /\ pc[c] = "accepted" /\ pc' = [pc EXCEPT ![c] = to] /\ key' = key
             /\ (to = "refused") <=> closing
      BY <2>5 DEF addSession, Goto
    <3>2. ReservationsExact'
      BY <2>5, <3>1, KeepReservation DEF addSession, ReservationsExact, Holding, Places
    <3>3. TypeOK'
      BY <2>5, <3>1 DEF addSession, TypeOK, Places
    <3>4. (sessions = {d \in Conns : pc[d] \in Registered})'
      BY <2>5, <3>1 DEF addSession, TypeOK, Registered, Goto
    <3>5. (closing => \A d \in Conns : pc[d] \in Registered => d \in shutdown.wait)'
      BY <2>5, <3>1 DEF addSession, TypeOK, Registered
    <3>6. QED
      BY <2>5, <3>2, <3>3, <3>4, <3>5 DEF addSession
  <2>6. ASSUME NEW c \in Conns, Refuse(c) PROVE HubInv'
    BY <2>3, <2>6 DEF Refuse
  <2>7. ASSUME NEW c \in Conns, Pin(c) PROVE HubInv'
    <3>1. Holders' = Holders /\ \A k \in Keys : HoldersOf(k)' = HoldersOf(k)
      BY <2>7 DEF Pin, Holders, HoldersOf
    <3>2. QED
      BY <2>7, <3>1 DEF Pin, hubVars, TypeOK, ReservationsExact
  <2>8. ASSUME NEW c \in Conns, NEW from \in {"running", "leaving"},
               NEW to \in {"leaving", "drained"}, Goto(c, from, to), key' = key,
               closed' \subseteq Conns,
               UNCHANGED <<hubVars, account, closeCalls, shutdown, routing>>
        PROVE HubInv'
    <3>1. pc[c] = from /\ pc' = [pc EXCEPT ![c] = to]
      BY <2>8 DEF Goto
    <3>2. ReservationsExact'
      BY <2>8, <3>1, KeepReservation DEF hubVars, ReservationsExact, Holding, Places
    <3>3. QED
      BY <2>8, <3>1, <3>2 DEF hubVars, TypeOK, Registered, Places
  <2>9. ASSUME NEW c \in Conns, ClientLeaves(c) \/ ReadCancelled(c) \/ Drain(c)
        PROVE HubInv'
    BY <2>8, <2>9 DEF ClientLeaves, ReadCancelled, Drain, TypeOK
  <2>10. ASSUME NEW c \in Conns, removeSession(c) PROVE HubInv'
    <3>1. pc[c] = "drained" /\ pc' = [pc EXCEPT ![c] = "removed"] /\ key' = key
      BY <2>10 DEF removeSession, Goto
    <3>2. ReservationsExact'
      BY <2>10, <3>1, KeepReservation
      DEF removeSession, ReservationsExact, Holding, Places
    <3>3. QED
      BY <2>10, <3>1, <3>2 DEF removeSession, TypeOK, Registered, Places
  <2>11. ASSUME NEW c \in Conns, ReleaseRemoved(c) PROVE HubInv'
    BY <2>3, <2>11 DEF ReleaseRemoved
  <2>12. ASSUME NEW c \in Conns, CloseDone(c) PROVE HubInv'
    <3>1. pc[c] = "released" /\ pc' = [pc EXCEPT ![c] = "done"] /\ key' = key
      BY <2>12 DEF CloseDone, Goto
    <3>2. ReservationsExact'
      BY <2>12, <3>1, KeepReservation
      DEF CloseDone, hubVars, ReservationsExact, Holding, Places
    <3>3. QED
      BY <2>12, <3>1, <3>2 DEF CloseDone, hubVars, TypeOK, Registered, Places
  <2>13. ASSUME UNCHANGED <<pc, key, active, connections, sessions>>,
                TypeOK',
                closing' <=> shutdown'.at # "idle",
                closing' => \A d \in Conns : pc[d] \in Registered => d \in shutdown'.wait,
                shutdown'.at = "returned" => shutdown'.wait = {}
         PROVE  HubInv'
    <3>1. Holders' = Holders /\ \A k \in Keys : HoldersOf(k)' = HoldersOf(k)
      BY <2>13 DEF Holders, HoldersOf
    <3>2. QED
      BY <2>13, <3>1 DEF ReservationsExact
  <2>14. ASSUME NEW c \in Conns, SessionClose(c) \/ CloseAccountCheck(c)
         PROVE HubInv'
    BY <2>13, <2>14 DEF SessionClose, CloseAccountCheck, hubVars, TypeOK
  <2>15. CASE CloseAll
    BY <2>13, <2>15 DEF CloseAll, TypeOK, Registered
  <2>16. CASE CloseAllReceive
    <3>1. PICK c \in shutdown.wait :
             /\ pc[c] = "done"
             /\ shutdown' = [shutdown EXCEPT !.wait = @ \ {c}]
      BY <2>16 DEF CloseAllReceive
    <3>2. "done" \notin Registered
      BY DEF Registered
    <3>3. QED
      BY <2>13, <2>16, <3>1, <3>2 DEF CloseAllReceive, hubVars, TypeOK
  <2>17. CASE CloseAllReturn
    BY <2>13, <2>17 DEF CloseAllReturn, hubVars, TypeOK
  <2>18. ASSUME NEW a \in Accounts, CloseAccount(a) PROVE HubInv'
    BY <2>13, <2>18 DEF CloseAccount, hubVars, TypeOK
  <2>19. CASE UNCHANGED vars
    BY <2>13, <2>19 DEF vars, TypeOK
  <2>20. QED
    BY <2>1, <2>2, <2>4, <2>5, <2>6, <2>7, <2>9, <2>10, <2>11, <2>12, <2>14,
       <2>15, <2>16, <2>17, <2>18, <2>19 DEF Next, Handle
<1>3. QED
  BY <1>1, <1>2, PTL DEF Spec

\* No interleaving of upgrades, failed upgrades, refusals and removals lets
\* the process or a key hold more connections than its limit.
THEOREM LimitsHold == Spec => []WithinLimits
<1>1. HubInv => WithinLimits
  BY DEF HubInv, ReservationsExact, WithinLimits
<1>2. QED
  BY <1>1, HubInvariance, PTL

\* Once CloseAll has returned, no session is registered, whatever upgrades
\* were in flight when it was called.
THEOREM ShutdownIsComplete == Spec => []ShutdownLeavesNoSession
<1>1. HubInv => ShutdownLeavesNoSession
  BY DEF HubInv, ShutdownLeavesNoSession
<1>2. QED
  BY <1>1, HubInvariance, PTL

\* What the run checks of the hub, for any limits, keys and connections.
THEOREM HubIsSafe == Spec => []HubSafe
<1>1. HubInv /\ WithinLimits /\ ShutdownLeavesNoSession => HubSafe
  BY DEF HubSafe
<1> QED
  BY <1>1, HubInvariance, LimitsHold, ShutdownIsComplete, PTL
=============================================================================
