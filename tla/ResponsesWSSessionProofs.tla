---------------------- MODULE ResponsesWSSessionProofs -----------------------
(***************************************************************************)
(* Safety of one WebSocket session for any number of streams, accounts and *)
(* turns, and any limits: whoever closes it, moves it to another account   *)
(* or loses its upstream, and in whatever order the goroutines notice.     *)
(***************************************************************************)
EXTENDS ResponsesWSSession, FiniteSetTheorems, SequenceTheorems, TLAPS

\* The reader handles a request that has no turn yet; a turn of its own.
Early == {"route", "resolve", "pin", "dial", "worker", "validate", "prepare", "reserve", "append"}
Opening == {"attempt", "move", "transfer", "failed"}
Own == {"dispatch"} \cup Opening
\* The upstream reader has its connection, or is replacing it.
Moving == {"redial", "transfer", "rewrite"}
Attached == {"read", "limit", "observe", "forward"} \cup Moving

\* The turns that have been written to the upstream or sent over a bridge.
SentTurns == {s.turn : s \in sent}

\* The counters are the things they count.
CountInv == AccountTurnsExact /\ PendingExact /\ BodiesReleased

\* Turns exist only while the session has an account, and answers are owed only
\* by the upstream of a native one.
PinInv ==
    /\ pin.pinned => pin.account \in Accounts
    /\ pin.native => pin.pinned /\ pin.upstream \in Accounts
    /\ ~pin.pinned => Live = {}
    /\ ~pin.native \/ reader.at = "worker" => \A st \in Streams : wire[st] = <<>>

\* Whoever closes the session cancels it and has every live turn on its list.
CloseInv ==
    /\ closed <=> closer.at # "no"
    /\ closed => cancelled
    /\ closer.at = "run" => Live \subseteq closer.todo
    /\ closer.at = "done" => Live = {} /\ closer.todo = {}

\* What the client reader holds at its place: the body of its request, the turn
\* it has appended, a reservation on its account, and, for the first request of
\* a bridged session, the session for itself.
ReaderOK(r) ==
    /\ r.body <=> r.at \in Early
    /\ r.at \in Early => made < MaxTurns
    /\ r.at \in {"dial", "append", "transfer"} => r.account \in Accounts
    /\ r.at = "dial" => ~pin.pinned
    /\ r.at = "append" => pending < MaxTurnsPerConnection
    /\ r.at = "worker" => pin.native /\ up.at = "off" /\ Live = {}
    /\ r.at \in {"validate", "prepare", "reserve", "append"} \cup Own => pin.pinned
    /\ r.at \in Opening => r.first
    /\ r.first => /\ r.at \in {"validate", "prepare", "reserve", "append"} \cup Own /\ ~pin.native
                  /\ Live \subseteq (IF r.at \in Own THEN {made} ELSE {})
    /\ r.failover => r.prev = NoResponse
    /\ r.at \in {"move", "transfer"} => r.failover
    /\ r.at \in Own => made > 0 /\ turns[made].stream = r.stream /\ turns[made].prev = r.prev
    /\ r.at = "dispatch" /\ (pin.native \/ r.first) => made \notin SentTurns
    /\ r.at = "dispatch" /\ r.first => ~turns[made].forwarded
    /\ r.at \in {"attempt", "move", "transfer"} => ~turns[made].forwarded
    /\ r.at = "attempt" /\ made \in SentTurns => r.failover
    /\ r.at = "done" => up.at = "off" /\ closer.at = "done"

\* The upstream reader handles events of the turn that caused them; while it
\* replaces its connection, the limited turn has shown nothing and nothing is
\* on the way to the new upstream.
UpOK(u) ==
    /\ u.at # "off" => pin.native
    /\ u.turn <= made
    /\ u.at \in {"limit"} \cup Moving => u.event = "limit"
    /\ u.at \in Moving => /\ pin.switching /\ u.turn # NoTurn /\ u.account \in Accounts
                          /\ turns[u.turn].prev = NoResponse /\ ~turns[u.turn].forwarded
    /\ u.at = "rewrite" => reader.at # "dispatch" /\ \A st \in Streams : wire[st] = <<>>
    /\ u.at \in Attached \ {"read"} => u.turn = u.of \/ closed

\* A stream has a worker exactly while bridgeRunning is set, until the session
\* ends, and a worker serves a turn of its stream.
BridgeOK(st, b) ==
    /\ b.at # "off" => running[st]
    /\ running[st] => ~pin.native /\ pin.pinned /\ ~reader.first
    /\ running[st] /\ ~cancelled => b.at # "off"
    /\ b.at \in {"off", "loop"} <=> b.turn = NoTurn
    /\ b.turn # NoTurn => turns[b.turn].stream = st /\ b.turn <= made
    /\ b.at = "route" => b.turn \notin SentTurns

\* A live turn of a bridged session that was sent is being served.
QueueOK(st) ==
    ~pin.native =>
        \A i \in DOMAIN queue[st] : queue[st][i] \in SentTurns =>
            \/ i = 1 /\ bridge[st].at = "loop" /\ bridge[st].initial
            \/ bridge[st].turn = queue[st][i]
            \/ reader.at \in Opening /\ queue[st][i] = made
            \/ closed /\ ~running[st]

\* What the upstream has not answered is what the queue of a stream holds, but
\* for the turn whose last event is being handled and the one to be written.
Answered(st) == up.at # "read" /\ up.event # "delta" /\ up.turn # NoTurn /\ turns[up.turn].stream = st
Unwritten(st) == reader.at = "dispatch" /\ reader.stream = st
PipeOK(st) ==
    up.at \in Attached /\ ~closed =>
        /\ Len(queue[st]) = One(Answered(st)) + Len(wire[st]) + One(Unwritten(st))
        /\ \A i \in 1..Len(wire[st]) : wire[st][i] = queue[st][i + One(Answered(st))]
        /\ Answered(st) => queue[st][1] = up.turn
        /\ Unwritten(st) => queue[st][Len(queue[st])] = made

\* A live turn was made and has the account that pays for it.
TurnsOK == \A t \in Live : t <= made /\ turns[t].account \in Accounts

\* A turn is sent again only if the client has seen nothing of it and it
\* continues no response.
SentOK == \A s \in sent : s.turn <= made /\ (s.again => ~s.seen /\ s.prev = NoResponse)

\* The inductive invariant: SessionInv says neither what the upstream still owes
\* nor which turn a goroutine is about to touch.
SInv ==
    /\ TypeOK /\ CountInv /\ PinInv /\ CloseInv /\ TurnsOK /\ SentOK
    /\ ReaderOK(reader) /\ UpOK(up)
    /\ \A st \in Streams : BridgeOK(st, bridge[st]) /\ QueueOK(st) /\ PipeOK(st)
    /\ NoStrandedTurn
-----------------------------------------------------------------------------
(* Sequences, sets and counts.                                             *)

\* What is left of a queue without one of its turns.
LEMMA WithoutIs ==
    ASSUME NEW q \in Seq(Turns), \A i, j \in DOMAIN q : i # j => q[i] # q[j],
           NEW k \in DOMAIN q
    PROVE  /\ Without(q, q[k]) \in Seq(Turns) /\ Len(Without(q, q[k])) = Len(q) - 1
           /\ \A i \in 1..(Len(q) - 1) :
                 Without(q, q[k])[i] = IF i < k THEN q[i] ELSE q[i + 1]
<1> DEFINE t == q[k]
           First(i) == q[i] = t /\ \A j \in 1..(i - 1) : q[j] # t
           n == CHOOSE i \in DOMAIN q : First(i)
<1>1. First(k)
  OBVIOUS
<1>2. n = k
  <2>1. n \in DOMAIN q /\ First(n)
    BY <1>1
  <2> QED
    BY <2>1
<1>3. Without(q, t) = SubSeq(q, 1, k - 1) \o SubSeq(q, k + 1, Len(q))
  BY <1>2 DEF Without
<1>4. k \in 1..Len(q) /\ Len(q) \in Nat
  OBVIOUS
<1>5. /\ SubSeq(q, 1, k - 1) \in Seq(Turns) /\ Len(SubSeq(q, 1, k - 1)) = k - 1
      /\ \A i \in 1..(k - 1) : SubSeq(q, 1, k - 1)[i] = q[i]
  BY <1>4
<1>6. /\ SubSeq(q, k + 1, Len(q)) \in Seq(Turns) /\ Len(SubSeq(q, k + 1, Len(q))) = Len(q) - k
      /\ \A i \in 1..(Len(q) - k) : SubSeq(q, k + 1, Len(q))[i] = q[k + i]
  BY <1>4
<1> HIDE DEF t, n
<1> QED
  <2> DEFINE a == SubSeq(q, 1, k - 1)
             b == SubSeq(q, k + 1, Len(q))
  <2>1. Without(q, t) = a \o b
    BY <1>3
  <2> HIDE DEF a, b
  <2>2. a \in Seq(Turns) /\ b \in Seq(Turns) /\ Len(a) = k - 1 /\ Len(b) = Len(q) - k
    BY <1>5, <1>6 DEF a, b
  <2>3. (a \o b) \in Seq(Turns) /\ Len(a \o b) = Len(q) - 1
    BY <2>2, <1>4
  <2>4. \A i \in 1..(Len(a) + Len(b)) : (a \o b)[i] = IF i <= Len(a) THEN a[i] ELSE b[i - Len(a)]
    BY <2>2, ConcatProperties
  <2>5. ASSUME NEW i \in 1..(Len(q) - 1)
        PROVE  (a \o b)[i] = IF i < k THEN q[i] ELSE q[i + 1]
    <3>1. CASE i < k
      <4>1. i \in 1..(k - 1) /\ i \in 1..(Len(a) + Len(b)) /\ i <= Len(a)
        BY <3>1, <2>2, <1>4
      <4>2. (a \o b)[i] = a[i]
        BY <4>1, <2>4
      <4>3. a[i] = q[i]
        BY <4>1, <1>5 DEF a
      <4> QED
        BY <3>1, <4>2, <4>3
    <3>2. CASE ~(i < k)
      <4>1. (a \o b)[i] = b[i - (k - 1)]
        <5>1. i \in 1..(Len(a) + Len(b)) /\ i > Len(a) /\ Len(a) = k - 1
          BY <3>2, <2>2, <1>4
        <5>2. (a \o b)[i] = b[i - Len(a)]
          BY <5>1, <2>2, <2>4
        <5> QED
          BY <5>1, <5>2
      <4>2. b[i - (k - 1)] = q[i + 1]
        <5>1. i - (k - 1) \in 1..(Len(q) - k) /\ k + (i - (k - 1)) = i + 1
          BY <3>2, <1>4
        <5> QED
          BY <5>1, <1>6 DEF b
      <4> QED
        BY <3>2, <4>1, <4>2
    <3> QED
      BY <3>1, <3>2
  <2>6. Without(q, t) \in Seq(Turns) /\ Len(Without(q, t)) = Len(q) - 1
    BY <2>1, <2>3
  <2>7. \A i \in 1..(Len(q) - 1) : Without(q, t)[i] = IF i < k THEN q[i] ELSE q[i + 1]
    BY <2>1, <2>5
  <2> QED
    BY <2>6, <2>7 DEF t

\* The turns in a stream's queue, and how many live turns an account has.
Queued(st) == {queue[st][i] : i \in DOMAIN queue[st]}
LiveOn(a) == {t \in Live : turns[t].account = a}

\* Any set of turns is finite.
LEMMA TurnsAreFinite ==
    ASSUME NEW S \in SUBSET Turns
    PROVE  IsFiniteSet(S) /\ Cardinality(S) \in Nat
<1>1. IsFiniteSet(1..MaxTurns)
  BY FS_Interval, SessionAssumptions
<1>2. IsFiniteSet(S)
  BY <1>1, FS_Subset DEF Turns
<1> QED
  BY <1>2, FS_CardinalityType

\* One turn more or less changes a count by one.
LEMMA OneLess ==
    ASSUME NEW S \in SUBSET Turns, NEW t \in S
    PROVE  Cardinality(S \ {t}) = Cardinality(S) - 1 /\ Cardinality(S) > 0
<1>1. IsFiniteSet(S) /\ Cardinality(S) \in Nat
  BY TurnsAreFinite
<1>2. Cardinality(S \ {t}) = Cardinality(S) - 1
  BY <1>1, FS_RemoveElement
<1>3. Cardinality(S \ {t}) \in Nat
  BY TurnsAreFinite
<1> QED
  BY <1>1, <1>2, <1>3

\* One turn more is counted once.
LEMMA OneMore ==
    ASSUME NEW S \in SUBSET Turns, NEW t \in Turns, t \notin S
    PROVE  Cardinality(S \cup {t}) = Cardinality(S) + 1
<1>1. IsFiniteSet(S)
  BY TurnsAreFinite
<1> QED
  BY <1>1, FS_AddElement

\* Finishing a turn that is finished, or none, changes nothing.
LEMMA FinishesNothing ==
    ASSUME TypeOK, NEW t \in Turns \cup {NoTurn}, t \notin Live, finishTurn(t)
    PROVE  UNCHANGED <<turns, queue, pending, bodies, accountTurns, remembered, binding>>
<1>1. turns \in [Turns -> TurnStates]
  BY DEF TypeOK
<1>2. t = NoTurn \/ turns[t].finished
  BY <1>1 DEF Live, TurnStates
<1> QED
  BY <1>2 DEF finishTurn

\* What finishing a live turn does to the turns and their queues.
LEMMA FinishesTurn ==
    ASSUME TypeOK, CountInv, TurnsOK, NEW t \in Live, finishTurn(t)
    PROVE  /\ t \in Turns /\ turns' = [turns EXCEPT ![t].finished = TRUE]
           /\ turns' \in [Turns -> TurnStates]
           /\ \A u \in Turns : /\ turns'[u].stream = turns[u].stream
                               /\ turns'[u].account = turns[u].account
                               /\ turns'[u].prev = turns[u].prev
                               /\ turns'[u].forwarded = turns[u].forwarded
                               /\ turns'[u].finished = (u = t \/ turns[u].finished)
           /\ Live' = Live \ {t}
           /\ \A a \in Accounts : LiveOn(a)' = LiveOn(a) \ {t}
<1>1. turns \in [Turns -> TurnStates]
  BY DEF TypeOK
<1>2. t \in Turns /\ t # NoTurn /\ ~turns[t].finished
  BY DEF Live, Turns, NoTurn
<1>3. turns' = [turns EXCEPT ![t].finished = TRUE]
  BY <1>2 DEF finishTurn
<1>4. turns' \in [Turns -> TurnStates]
  BY <1>1, <1>2, <1>3 DEF TurnStates
<1>5. ASSUME NEW u \in Turns
      PROVE  /\ turns'[u].stream = turns[u].stream
             /\ turns'[u].account = turns[u].account
             /\ turns'[u].prev = turns[u].prev
             /\ turns'[u].forwarded = turns[u].forwarded
             /\ turns'[u].finished = (u = t \/ turns[u].finished)
  BY <1>1, <1>2, <1>3 DEF TurnStates
<1>6. Live' = Live \ {t}
  BY <1>2, <1>5 DEF Live
<1>7. \A a \in Accounts : LiveOn(a)' = LiveOn(a) \ {t}
  BY <1>5, <1>6 DEF LiveOn, Live
<1> QED
  BY <1>2, <1>3, <1>4, <1>5, <1>6, <1>7

\* The queue of the turn's stream loses it, the others keep what they have.
LEMMA FinishesQueue ==
    ASSUME TypeOK, CountInv, TurnsOK, NEW t \in Live, finishTurn(t)
    PROVE  /\ queue' \in [Streams -> Seq(Turns)]
           /\ \A st \in Streams \ {turns[t].stream} : queue'[st] = queue[st]
           /\ \E k \in DOMAIN queue[turns[t].stream] :
                LET q == queue[turns[t].stream]
                    after == queue'[turns[t].stream]
                IN /\ q[k] = t /\ Len(after) = Len(q) - 1
                   /\ \A i \in 1..(Len(q) - 1) : after[i] = IF i < k THEN q[i] ELSE q[i + 1]
<1> DEFINE s == turns[t].stream
<1>1. t \in Turns /\ t # NoTurn /\ ~turns[t].finished
  BY DEF Live, Turns, NoTurn
<1>2. s \in Streams
  BY <1>1 DEF TypeOK, TurnStates
<1>3. queue \in [Streams -> Seq(Turns)]
  BY DEF TypeOK
<1>4. queue[s] \in Seq(Turns)
  BY <1>2, <1>3
<1>5. queue' = [queue EXCEPT ![s] = Without(queue[s], t)]
  BY <1>1, <1>2, <1>3 DEF finishTurn
<1> HIDE DEF s
<1>6. /\ \A i, j \in DOMAIN queue[s] : i # j => queue[s][i] # queue[s][j]
      /\ t \in {queue[s][i] : i \in DOMAIN queue[s]}
  BY <1>2 DEF CountInv, PendingExact, s
<1>7. PICK k \in DOMAIN queue[s] : queue[s][k] = t
  BY <1>6
<1>8. /\ Without(queue[s], t) \in Seq(Turns)
      /\ Len(Without(queue[s], t)) = Len(queue[s]) - 1
      /\ \A i \in 1..(Len(queue[s]) - 1) :
            Without(queue[s], t)[i] = IF i < k THEN queue[s][i] ELSE queue[s][i + 1]
  <2> DEFINE q == queue[s]
  <2>1. q \in Seq(Turns) /\ (\A i, j \in DOMAIN q : i # j => q[i] # q[j]) /\ k \in DOMAIN q /\ q[k] = t
    BY <1>4, <1>6, <1>7
  <2> HIDE DEF q
  <2>2. /\ Without(q, q[k]) \in Seq(Turns) /\ Len(Without(q, q[k])) = Len(q) - 1
        /\ \A i \in 1..(Len(q) - 1) :
              Without(q, q[k])[i] = IF i < k THEN q[i] ELSE q[i + 1]
    BY <2>1, WithoutIs
  <2> QED
    BY <2>1, <2>2 DEF q
<1>9. queue'[s] = Without(queue[s], t)
  BY <1>2, <1>3, <1>5
<1>10. queue' \in [Streams -> Seq(Turns)]
  BY <1>2, <1>3, <1>5, <1>8
<1>11. \A st \in Streams \ {s} : queue'[st] = queue[st]
  BY <1>3, <1>5
<1> QED
  BY <1>7, <1>8, <1>9, <1>10, <1>11 DEF s

\* The queue of any stream keeps its order when a turn is finished: what is
\* left stood there before, and only what stood first is still first.
LEMMA FinishesOrder ==
    ASSUME TypeOK, CountInv, TurnsOK, NEW t \in Live, finishTurn(t), NEW st \in Streams
    PROVE  /\ \A i \in DOMAIN queue'[st] :
                /\ queue'[st][i] # t
                /\ \E j \in DOMAIN queue[st] : queue'[st][i] = queue[st][j] /\ (j = 1 => i = 1)
           /\ \A i, j \in DOMAIN queue'[st] : i # j => queue'[st][i] # queue'[st][j]
           /\ Queued(st)' = Queued(st) \ {t}
<1> DEFINE s == turns[t].stream
<1>1. queue[st] \in Seq(Turns) /\ t \in Turns /\ t \in Live
  BY DEF TypeOK, Live
<1>2. /\ \A i, j \in DOMAIN queue[st] : i # j => queue[st][i] # queue[st][j]
      /\ Queued(st) = {u \in Live : turns[u].stream = st}
  BY DEF CountInv, PendingExact, Queued
<1>3. CASE st # s
  <2>1. queue'[st] = queue[st]
    BY <1>3, FinishesQueue
  <2>2. t \notin Queued(st)
    BY <1>2, <1>3
  <2> QED
    BY <2>1, <2>2, <1>1, <1>2 DEF Queued
<1>4. CASE st = s
  <2> DEFINE q == queue[st]
             after == queue'[st]
  <2>1. PICK k \in DOMAIN q :
           /\ q[k] = t /\ Len(after) = Len(q) - 1
           /\ \A i \in 1..(Len(q) - 1) : after[i] = IF i < k THEN q[i] ELSE q[i + 1]
    BY <1>4, FinishesQueue
  <2>2. after \in Seq(Turns)
    BY FinishesQueue
  <2>3. q \in Seq(Turns) /\ \A i, j \in DOMAIN q : i # j => q[i] # q[j]
    BY <1>1, <1>2
  <2>4. Queued(st) = {q[i] : i \in DOMAIN q} /\ Queued(st)' = {after[i] : i \in DOMAIN after}
    BY DEF Queued
  <2> HIDE DEF q, after
  <2>5. DOMAIN q = 1..Len(q) /\ DOMAIN after = 1..(Len(q) - 1) /\ Len(q) \in Nat /\ k \in 1..Len(q)
    BY <2>1, <2>2, <2>3
  <2>6. ASSUME NEW i \in DOMAIN after
        PROVE  /\ after[i] # t
               /\ \E j \in DOMAIN q : after[i] = q[j] /\ (j = 1 => i = 1)
    <3>1. CASE i < k
      <4>1. after[i] = q[i] /\ i \in DOMAIN q /\ i # k
        BY <3>1, <2>1, <2>5
      <4> QED
        BY <4>1, <2>1, <2>3
    <3>2. CASE ~(i < k)
      <4>1. after[i] = q[i + 1] /\ i + 1 \in DOMAIN q /\ i + 1 # k /\ i + 1 # 1
        BY <3>2, <2>1, <2>5
      <4> QED
        BY <4>1, <2>1, <2>3
    <3> QED
      BY <3>1, <3>2
  <2>7. ASSUME NEW i \in DOMAIN after, NEW j \in DOMAIN after, i # j
        PROVE  after[i] # after[j]
    <3> DEFINE f(x) == IF x < k THEN x ELSE x + 1
    <3>1. f(i) \in DOMAIN q /\ f(j) \in DOMAIN q /\ f(i) # f(j)
      BY <2>5, <2>7
    <3>2. after[i] = q[f(i)] /\ after[j] = q[f(j)]
      BY <2>5, <2>1
    <3> QED
      BY <3>1, <3>2, <2>3
  <2>8. ASSUME NEW j \in DOMAIN q, q[j] # t
        PROVE  \E i \in DOMAIN after : after[i] = q[j]
    <3>1. CASE j < k
      BY <3>1, <2>1, <2>5
    <3>2. CASE ~(j < k)
      <4>1. j - 1 \in DOMAIN after /\ (j - 1) + 1 = j /\ ~(j - 1 < k)
        BY <3>2, <2>8, <2>1, <2>5
      <4> QED
        BY <4>1, <2>1, <2>5
    <3> QED
      BY <3>1, <3>2
  <2>9. Queued(st)' = Queued(st) \ {t}
    BY <2>4, <2>6, <2>8
  <2> QED
    BY <2>6, <2>7, <2>9 DEF q, after
<1> QED
  BY <1>3, <1>4

\* The counters follow: the session has one turn less, its account too.
LEMMA FinishesCounts ==
    ASSUME TypeOK, CountInv, TurnsOK, NEW t \in Live, finishTurn(t)
    PROVE  /\ PendingExact'
           /\ pending' = pending - 1 /\ pending' \in Nat
           /\ bodies' = bodies - 1 /\ bodies' \in Nat
           /\ Cardinality(Live') = Cardinality(Live) - 1
           /\ accountTurns' = [accountTurns EXCEPT ![turns[t].account] = @ - 1]
           /\ accountTurns' \in [Accounts -> Nat]
           /\ turns[t].account \in Accounts
           /\ \A a \in Accounts : Cardinality(LiveOn(a)') =
                IF a = turns[t].account THEN Cardinality(LiveOn(a)) - 1 ELSE Cardinality(LiveOn(a))
<1>1. /\ t \in Turns /\ Live \in SUBSET Turns /\ t # NoTurn /\ ~turns[t].finished
      /\ turns' \in [Turns -> TurnStates] /\ Live' = Live \ {t}
      /\ \A u \in Turns : turns'[u].stream = turns[u].stream
      /\ \A a \in Accounts : LiveOn(a)' = LiveOn(a) \ {t}
  BY FinishesTurn DEF Live, Turns, NoTurn
<1>2. Cardinality(Live') = Cardinality(Live) - 1 /\ Cardinality(Live) > 0
  BY <1>1, OneLess
<1>3. Cardinality(Live) \in Nat
  BY <1>1, TurnsAreFinite
<1>4. /\ pending = Cardinality(Live) /\ pending <= MaxTurnsPerConnection
      /\ bodies = Cardinality(Live) + One(reader.body)
  BY DEF CountInv, PendingExact, BodiesReleased
<1>5. One(reader.body) \in {0, 1}
  BY DEF One
<1>6. pending' = pending - 1 /\ pending' \in Nat
  BY <1>1, <1>2, <1>3, <1>4 DEF finishTurn
<1>7. bodies' = bodies - 1 /\ bodies' \in Nat
  BY <1>1, <1>2, <1>3, <1>4, <1>5 DEF finishTurn
<1>8. PendingExact'
  <2>1. pending' = Cardinality(Live') /\ pending' <= MaxTurnsPerConnection
    BY <1>2, <1>3, <1>4, <1>6, SessionAssumptions
  <2>2. ASSUME NEW st \in Streams
        PROVE  /\ \A i, j \in DOMAIN queue'[st] : i # j => queue'[st][i] # queue'[st][j]
               /\ Queued(st)' = {u \in Live' : turns'[u].stream = st}
    <3>1. Queued(st) = {u \in Live : turns[u].stream = st}
      BY DEF CountInv, PendingExact, Queued
    <3>2. Queued(st)' = Queued(st) \ {t}
      BY FinishesOrder
    <3>3. {u \in Live' : turns'[u].stream = st} = {u \in Live : turns[u].stream = st} \ {t}
      BY <1>1
    <3> QED
      BY <3>1, <3>2, <3>3, FinishesOrder
  <2> QED
    BY <2>1, <2>2 DEF PendingExact, Queued
<1>9. turns[t].account \in Accounts
  BY <1>1 DEF TurnsOK
<1>10. t \in LiveOn(turns[t].account) /\ \A a \in Accounts : LiveOn(a) \in SUBSET Turns
  BY <1>1 DEF LiveOn
<1>11. ASSUME NEW a \in Accounts
       PROVE  Cardinality(LiveOn(a)') =
                IF a = turns[t].account THEN Cardinality(LiveOn(a)) - 1 ELSE Cardinality(LiveOn(a))
  <2>1. CASE a = turns[t].account
    <3>1. Cardinality(LiveOn(a) \ {t}) = Cardinality(LiveOn(a)) - 1
      BY <2>1, <1>10, OneLess
    <3> QED
      BY <2>1, <3>1, <1>1
  <2>2. CASE a # turns[t].account
    <3>1. LiveOn(a)' = LiveOn(a)
      BY <2>2, <1>1 DEF LiveOn
    <3> QED
      BY <2>2, <3>1
  <2> QED
    BY <2>1, <2>2
<1>12. accountTurns' = [accountTurns EXCEPT ![turns[t].account] = @ - 1]
       /\ accountTurns' \in [Accounts -> Nat]
  <2> DEFINE b == turns[t].account
  <2>1. accountTurns' = [accountTurns EXCEPT ![b] = IF @ <= 1 THEN 0 ELSE @ - 1]
    BY <1>1 DEF finishTurn, Released
  <2>2. accountTurns \in [Accounts -> Nat] /\ others[b] \in Nat
    BY <1>9 DEF TypeOK
  <2>3. Cardinality(LiveOn(b)) \in Nat \ {0}
    <3>1. Cardinality(LiveOn(b)) > 0
      BY <1>9, <1>10, OneLess
    <3>2. Cardinality(LiveOn(b)) \in Nat
      BY <1>9, <1>10, TurnsAreFinite
    <3> QED
      BY <3>1, <3>2
  <2>4. \E x, y \in {0, 1} : accountTurns[b] = others[b] + (Cardinality(LiveOn(b)) + x + y)
    BY <1>9 DEF CountInv, AccountTurnsExact, HeldOn, LiveOn, One
  <2> HIDE DEF b
  <2>5. accountTurns[b] >= 1
    BY <2>2, <2>3, <2>4
  <2>6. b \in Accounts
    BY <1>9 DEF b
  <2>7. (IF accountTurns[b] <= 1 THEN 0 ELSE accountTurns[b] - 1) = accountTurns[b] - 1 /\ accountTurns[b] - 1 \in Nat
    BY <2>2, <2>5, <2>6
  <2> QED
    BY <2>1, <2>2, <2>6, <2>7 DEF b
<1> QED
  BY <1>2, <1>6, <1>7, <1>8, <1>9, <1>11, <1>12

\* The responses the session remembers and the bindings of the key.
LEMMA FinishesStore ==
    ASSUME TypeOK, TurnsOK, NEW t \in Live, finishTurn(t)
    PROVE  remembered' \subseteq Responses /\ binding' \in [Responses -> AnyAccount]
<1>1. t \in Turns /\ t # NoTurn /\ ~turns[t].finished
  BY DEF Live, Turns, NoTurn
<1>2. turns[t].account \in Accounts /\ t \in Responses
  BY <1>1 DEF TurnsOK, Responses
<1>3. remembered \subseteq Responses /\ binding \in [Responses -> AnyAccount]
  BY DEF TypeOK
<1> QED
  BY <1>1, <1>2, <1>3 DEF finishTurn, Remembers, AnyAccount

-----------------------------------------------------------------------------
(* Steps that leave the turns alone.                                       *)

\* Who, besides the live turns, holds a turn of account a.
ReaderHolds(r, a) == r.at \in {"append", "transfer"} /\ r.account = a
UpHolds(u, a) == u.at = "transfer" /\ u.account = a

\* The turns held on an account: the live ones, the reader's, the upstream
\* reader's.
LEMMA HeldIs ==
    ASSUME NEW a \in Accounts
    PROVE  HeldOn(a) = Cardinality(LiveOn(a)) + One(ReaderHolds(reader, a)) + One(UpHolds(up, a))
  BY DEF HeldOn, LiveOn, ReaderHolds, UpHolds

\* The live turns stay where the turns do.
LEMMA TurnsStay ==
    ASSUME UNCHANGED turns
    PROVE  Live' = Live /\ \A a \in Accounts : LiveOn(a)' = LiveOn(a)
  BY DEF Live, LiveOn

\* The counters stay exact where nobody takes or returns anything and no turn
\* changes its account or its stream.
LEMMA CountsKept ==
    ASSUME CountInv, UNCHANGED <<queue, pending, accountTurns, others>>, Live' = Live,
           \A t \in Live : turns'[t].account = turns[t].account /\ turns'[t].stream = turns[t].stream,
           \A a \in Accounts : /\ One(ReaderHolds(reader, a))' = One(ReaderHolds(reader, a))
                               /\ One(UpHolds(up, a))' = One(UpHolds(up, a)),
           bodies' - One(reader'.body) = bodies - One(reader.body),
           bodies \in Nat, bodies' \in Nat
    PROVE  CountInv'
<1>1. Live' = Live /\ \A a \in Accounts : LiveOn(a)' = LiveOn(a)
  BY DEF LiveOn
<1>2. \A a \in Accounts : HeldOn(a)' = HeldOn(a)
  BY <1>1, HeldIs, HeldIs DEF HeldOn, LiveOn, ReaderHolds, UpHolds
<1>3. AccountTurnsExact'
  BY <1>2 DEF CountInv, AccountTurnsExact
<1>4. PendingExact'
  <2>1. \A st \in Streams : {t \in Live' : turns'[t].stream = st} = {t \in Live : turns[t].stream = st}
    BY <1>1
  <2> QED
    BY <1>1, <2>1 DEF CountInv, PendingExact
<1>5. BodiesReleased'
  <2>1. One(reader.body) \in {0, 1} /\ One(reader'.body) \in {0, 1}
    BY DEF One
  <2>2. bodies = Cardinality(Live) + One(reader.body)
    BY DEF CountInv, BodiesReleased
  <2>3. bodies' = Cardinality(Live) + One(reader'.body)
    <3> DEFINE c == Cardinality(Live)
               x == One(reader.body)
               y == One(reader'.body)
               d == bodies'
    <3>1. bodies = c + x /\ d - y = bodies - x
      BY <2>2
    <3>2. x \in {0, 1} /\ y \in {0, 1} /\ d \in Nat /\ bodies \in Nat
      BY <2>1
    <3>3. c \in Nat
      BY TurnsAreFinite DEF Live
    <3> HIDE DEF c, x, y, d
    <3>4. d = c + y
      <4>1. ASSUME NEW m \in Nat, NEW n \in Nat, NEW k \in Nat,
                   NEW i \in Int, NEW j \in Int, m = k + i, n - j = m - i
            PROVE  n = k + j
        BY <4>1
      <4>2. x \in Int /\ y \in Int
        BY <3>2
      <4> QED
        BY <3>1, <3>2, <3>3, <4>1, <4>2
    <3> QED
      BY <3>4 DEF c, y, d
  <2> QED
    BY <2>3, <1>1 DEF BodiesReleased, One
<1> QED
  BY <1>3, <1>4, <1>5 DEF CountInv

\* The counters stay exact where no turn changes at all.
LEMMA CountsStay ==
    ASSUME CountInv, UNCHANGED <<turns, queue, pending, accountTurns, others>>,
           \A a \in Accounts : /\ One(ReaderHolds(reader, a))' = One(ReaderHolds(reader, a))
                               /\ One(UpHolds(up, a))' = One(UpHolds(up, a)),
           bodies' - One(reader'.body) = bodies - One(reader.body),
           bodies \in Nat, bodies' \in Nat
    PROVE  CountInv'
<1>1. Live' = Live
  BY TurnsStay
<1> QED
  BY <1>1, CountsKept

\* What the upstream owes stays in step with the queues where no message is
\* sent, answered or given up.
LEMMA PipesStay ==
    ASSUME \A st \in Streams : PipeOK(st), UNCHANGED <<queue, wire, made>>,
           up'.at \in Attached /\ ~closed' => up.at \in Attached /\ ~closed,
           \A st \in Streams : /\ Unwritten(st)' <=> Unwritten(st)
                               /\ up'.at \in Attached /\ ~closed' =>
                                    /\ Answered(st)' <=> Answered(st)
                                    /\ Answered(st) => up'.turn = up.turn
    PROVE  \A st \in Streams : PipeOK(st)'
<1> TAKE st \in Streams
<1>1. SUFFICES ASSUME up'.at \in Attached, ~closed' PROVE PipeOK(st)'
  BY DEF PipeOK
<1>2. up.at \in Attached /\ ~closed
  BY <1>1
<1>3. One(Answered(st))' = One(Answered(st)) /\ One(Unwritten(st))' = One(Unwritten(st))
  BY <1>1, <1>2 DEF One
<1>4. /\ Len(queue[st]) = One(Answered(st)) + Len(wire[st]) + One(Unwritten(st))
      /\ \A i \in 1..Len(wire[st]) : wire[st][i] = queue[st][i + One(Answered(st))]
      /\ Answered(st) => queue[st][1] = up.turn
      /\ Unwritten(st) => queue[st][Len(queue[st])] = made
  BY <1>2 DEF PipeOK
<1>5. /\ Len(queue'[st]) = One(Answered(st))' + Len(wire'[st]) + One(Unwritten(st))'
      /\ \A i \in 1..Len(wire'[st]) : wire'[st][i] = queue'[st][i + One(Answered(st))']
  BY <1>3, <1>4
<1>6. /\ Answered(st)' => queue'[st][1] = up'.turn
      /\ Unwritten(st)' => queue'[st][Len(queue'[st])] = made'
  BY <1>1, <1>2, <1>4
<1> QED
  BY <1>5, <1>6 DEF PipeOK

\* The reader may take a request, refuse it, look for an account or leave:
\* nothing depends on which of these it does.
Unplaced == ReaderPlaces \ (Own \cup {"append"})

\* A step between two such places keeps the invariant.
LEMMA ReaderMoves ==
    ASSUME SInv,
           UNCHANGED <<sessionVars, workerVars, accountTurns, storeVars>>,
           reader' \in ReaderStates, reader.at \in Unplaced, reader'.at \in Unplaced \ {"worker"},
           ReaderOK(reader)', reader'.first => reader.first,
           bodies' \in Nat, bodies' - One(reader'.body) = bodies - One(reader.body)
    PROVE  SInv'
<1> USE DEF sessionVars, turnVars, workerVars, storeVars
<1>1. TypeOK'
  BY DEF SInv, TypeOK
<1>2. CountInv'
  <2>1. \A a \in Accounts : /\ One(ReaderHolds(reader, a))' = One(ReaderHolds(reader, a))
                            /\ One(UpHolds(up, a))' = One(UpHolds(up, a))
    BY DEF ReaderHolds, UpHolds, One, Unplaced, Own, Opening
  <2>2. bodies \in Nat
    BY DEF SInv, TypeOK
  <2> QED
    BY <2>1, <2>2, CountsStay DEF SInv
<1>3. Live' = Live
  BY TurnsStay
<1>4. PinInv' /\ CloseInv' /\ TurnsOK'
  BY <1>3 DEF SInv, PinInv, CloseInv, TurnsOK, Unplaced
<1>5. SentOK' /\ UpOK(up)'
  BY DEF SInv, SentOK, UpOK, Unplaced, Own, Opening
<1>6. \A st \in Streams : BridgeOK(st, bridge[st])'
  BY DEF SInv, BridgeOK, SentTurns
<1>7. \A st \in Streams : QueueOK(st)'
  BY DEF SInv, QueueOK, SentTurns, Unplaced, Own, Opening
<1>8. \A st \in Streams : PipeOK(st)'
  <2>1. \A st \in Streams : Unwritten(st)' <=> Unwritten(st)
    BY DEF Unwritten, Unplaced, Own
  <2>2. \A st \in Streams : (Answered(st)' <=> Answered(st))
    BY DEF Answered
  <2> QED
    BY <2>1, <2>2, PipesStay DEF SInv
<1>9. NoStrandedTurn'
  BY <1>3 DEF SInv, NoStrandedTurn, Unplaced, Own, Opening
<1> QED
  BY <1>1, <1>2, <1>4, <1>5, <1>6, <1>7, <1>8, <1>9 DEF SInv

\* The body of a request that has no turn yet is counted.
LEMMA BodyHeld ==
    ASSUME SInv, reader.body
    PROVE  bodies - 1 \in Nat
<1>1. bodies = Cardinality(Live) + 1
  BY DEF SInv, CountInv, BodiesReleased, One
<1>2. Cardinality(Live) \in Nat
  BY TurnsAreFinite DEF Live
<1> QED
  BY <1>1, <1>2

\* The readers that the actions make of a reader r.
At(r, p) == [r EXCEPT !.at = p]
AtAccount(r, p, a) == [r EXCEPT !.at = p, !.account = a]
AtAttempt(r, p, a, S) == [r EXCEPT !.at = p, !.account = a, !.attempted = S]
Attempts(r, a, S) == [r EXCEPT !.account = a, !.attempted = S]
AtAttempted(r, p, S) == [r EXCEPT !.at = p, !.attempted = S]
Attempted(r, S) == [r EXCEPT !.attempted = S]
AtIdentity(r, p, a) == [r EXCEPT !.at = p, !.identity = a]
AtReset(r, p, b) == [r EXCEPT !.at = p, !.reset = b]
Dispatched(r) == [r EXCEPT !.at = "dispatch", !.body = FALSE]
PinnedBridge(r, b) == [r EXCEPT !.at = "validate", !.first = TRUE, !.failover = b]
Received(st, prev) == [IdleReader EXCEPT !.at = "route", !.stream = st, !.prev = prev, !.body = TRUE]

\* Their fields.
SameRequest(g, r) ==
    /\ g \in ReaderStates /\ g.stream = r.stream /\ g.prev = r.prev
    /\ g.first = r.first /\ g.failover = r.failover

\* A reader at another place.
LEMMA ReaderAt ==
    ASSUME NEW r \in ReaderStates, NEW p \in ReaderPlaces
    PROVE  /\ SameRequest(At(r, p), r)
           /\ At(r, p).at = p /\ At(r, p).account = r.account /\ At(r, p).body = r.body
  BY DEF ReaderStates, SameRequest, At

\* A reader at another place, for an account.
LEMMA ReaderAtAccount ==
    ASSUME NEW r \in ReaderStates, NEW p \in ReaderPlaces, NEW a \in AnyAccount
    PROVE  /\ SameRequest(AtAccount(r, p, a), r)
           /\ AtAccount(r, p, a).at = p /\ AtAccount(r, p, a).account = a
           /\ AtAccount(r, p, a).body = r.body
  BY DEF ReaderStates, SameRequest, AtAccount

\* A reader at another place that attempts an account.
LEMMA ReaderAtAttempt ==
    ASSUME NEW r \in ReaderStates, NEW p \in ReaderPlaces, NEW a \in Accounts, NEW S \in SUBSET Accounts
    PROVE  /\ SameRequest(AtAttempt(r, p, a, S), r)
           /\ AtAttempt(r, p, a, S).at = p /\ AtAttempt(r, p, a, S).account = a
           /\ AtAttempt(r, p, a, S).body = r.body
  BY DEF ReaderStates, SameRequest, AtAttempt, AnyAccount

\* A reader that attempts another account.
LEMMA ReaderAttempts ==
    ASSUME NEW r \in ReaderStates, NEW a \in Accounts, NEW S \in SUBSET Accounts
    PROVE  /\ SameRequest(Attempts(r, a, S), r)
           /\ Attempts(r, a, S).at = r.at /\ Attempts(r, a, S).account = a
           /\ Attempts(r, a, S).body = r.body
  BY DEF ReaderStates, SameRequest, Attempts, AnyAccount

\* A reader at another place with the accounts it has attempted.
LEMMA ReaderAtAttempted ==
    ASSUME NEW r \in ReaderStates, NEW p \in ReaderPlaces, NEW S \in SUBSET Accounts
    PROVE  /\ SameRequest(AtAttempted(r, p, S), r)
           /\ AtAttempted(r, p, S).at = p /\ AtAttempted(r, p, S).account = r.account
           /\ AtAttempted(r, p, S).body = r.body
  BY DEF ReaderStates, SameRequest, AtAttempted

\* A reader that passes over an account.
LEMMA ReaderAttempted ==
    ASSUME NEW r \in ReaderStates, NEW S \in SUBSET Accounts
    PROVE  /\ SameRequest(Attempted(r, S), r)
           /\ Attempted(r, S).at = r.at /\ Attempted(r, S).account = r.account
           /\ Attempted(r, S).body = r.body
  BY DEF ReaderStates, SameRequest, Attempted

\* A reader whose payload carries an account's device identity.
LEMMA ReaderAtIdentity ==
    ASSUME NEW r \in ReaderStates, NEW p \in ReaderPlaces, NEW a \in AnyAccount
    PROVE  /\ SameRequest(AtIdentity(r, p, a), r)
           /\ AtIdentity(r, p, a).at = p /\ AtIdentity(r, p, a).account = r.account
           /\ AtIdentity(r, p, a).body = r.body
  BY DEF ReaderStates, SameRequest, AtIdentity

\* A reader that is to reset the pin, or not.
LEMMA ReaderAtReset ==
    ASSUME NEW r \in ReaderStates, NEW p \in ReaderPlaces, NEW b \in BOOLEAN
    PROVE  /\ SameRequest(AtReset(r, p, b), r)
           /\ AtReset(r, p, b).at = p /\ AtReset(r, p, b).account = r.account
           /\ AtReset(r, p, b).body = r.body
  BY DEF ReaderStates, SameRequest, AtReset

\* A reader whose request has its turn.
LEMMA ReaderDispatched ==
    ASSUME NEW r \in ReaderStates
    PROVE  /\ SameRequest(Dispatched(r), r)
           /\ Dispatched(r).at = "dispatch" /\ Dispatched(r).account = r.account
           /\ ~Dispatched(r).body
  BY DEF ReaderStates, SameRequest, ReaderPlaces, Dispatched

\* A reader that has pinned the session to a bridged account.
LEMMA ReaderPinnedBridge ==
    ASSUME NEW r \in ReaderStates, NEW b \in BOOLEAN
    PROVE  /\ PinnedBridge(r, b) \in ReaderStates
           /\ PinnedBridge(r, b).at = "validate" /\ PinnedBridge(r, b).account = r.account
           /\ PinnedBridge(r, b).first /\ PinnedBridge(r, b).failover = b
           /\ PinnedBridge(r, b).prev = r.prev /\ PinnedBridge(r, b).body = r.body
  BY DEF ReaderStates, ReaderPlaces, PinnedBridge

\* A reader without a request, and one that took one.
Refused(r) ==
    r \in ReaderStates /\ r.at \in {"read", "closing"} /\ ~r.body /\ ~r.first /\ ~r.failover

\* A reader between two requests, or about to close, has refused or left one.
LEMMA IdleReaderIs == Refused(IdleReader) /\ Refused([IdleReader EXCEPT !.at = "closing"])
  BY SessionAssumptions DEF Refused, IdleReader, ReaderStates, ReaderPlaces, AnyAccount, AnyResponse

\* A reader that has received a request.
LEMMA ReaderReceived ==
    ASSUME NEW st \in Streams, NEW prev \in AnyResponse
    PROVE  /\ Received(st, prev) \in ReaderStates /\ Received(st, prev).at = "route"
           /\ Received(st, prev).body /\ ~Received(st, prev).first /\ ~Received(st, prev).failover
  BY SessionAssumptions DEF IdleReader, ReaderStates, ReaderPlaces, AnyAccount, AnyResponse, Received

\* A request is refused before it has a turn: its body is given back.
LEMMA ReaderRefuses ==
    ASSUME SInv, UNCHANGED <<sessionVars, workerVars, accountTurns, storeVars>>,
           reader.at \in Early \ {"append"},
           reader' \in {IdleReader, [IdleReader EXCEPT !.at = "closing"]}, bodies' = bodies - 1
    PROVE  SInv'
<1>1. Refused(reader')
  BY IdleReaderIs
<1>2. reader.body
  BY DEF SInv, ReaderOK
<1>3. bodies' \in Nat /\ bodies \in Nat
  BY <1>2, BodyHeld DEF SInv, TypeOK
<1>4. One(reader.body) = 1 /\ One(reader'.body) = 0
  BY <1>1, <1>2 DEF Refused, One
<1>5. bodies' - One(reader'.body) = bodies - One(reader.body)
  BY <1>3, <1>4
<1>6. reader' \in ReaderStates /\ reader.at \in Unplaced /\ reader'.at \in Unplaced \ {"worker"} /\ ~reader'.first
  BY <1>1 DEF Refused, Unplaced, Early, Own, Opening, ReaderPlaces
<1>7. ReaderOK(reader)'
  BY <1>1 DEF Refused, ReaderOK, Early, Own, Opening
<1> QED
  BY <1>3, <1>5, <1>6, <1>7, ReaderMoves

\* The reader goes on with its request.
LEMMA ReaderProceeds ==
    ASSUME SInv, UNCHANGED <<sessionVars, workerVars, accountTurns, storeVars>>,
           SameRequest(reader', reader), reader'.body = reader.body, bodies' = bodies,
           reader.at \in Unplaced, reader'.at \in Unplaced \ {"worker"}, ReaderOK(reader)'
    PROVE  SInv'
<1>1. bodies' \in Nat
  BY DEF SInv, TypeOK
<1>2. bodies' - One(reader'.body) = bodies - One(reader.body)
  BY DEF One
<1>3. reader' \in ReaderStates /\ (reader'.first => reader.first)
  BY DEF SameRequest
<1> QED
  BY <1>1, <1>2, <1>3, ReaderMoves

\* The client reader's steps before it has a turn, and at its end.
LEMMA ReaderSteps ==
    ASSUME SInv,
           \/ ResolveReads \/ RouteRefused \/ AlreadyPinned \/ InitialAccount \/ DialFails
           \/ validateContinuation \/ preparePayload \/ ReadFails \/ ReaderDone
    PROVE  SInv'
<1>1. reader \in ReaderStates /\ ReaderOK(reader) /\ pin \in PinStates
  BY DEF SInv, TypeOK
<1> DEFINE Stays == UNCHANGED <<sessionVars, workerVars, accountTurns, storeVars>>
           Refuses == reader' \in {IdleReader, [IdleReader EXCEPT !.at = "closing"]} /\ bodies' = bodies - 1

<1>2. CASE ResolveReads
  <2>1. Stays
    BY <1>2 DEF ResolveReads, outerVars
  <2>2. reader.at \in Unplaced
    BY <1>2 DEF ResolveReads, Early, Unplaced, Own, Opening, ReaderPlaces
  <2>3. \E a \in AnyAccount : reader' = AtAccount(reader, "resolve", a) /\ bodies' = bodies
    BY <1>1, <1>2 DEF ResolveReads, outerVars, AnyAccount, PinStates, AtAccount
    <2>7. PICK a \in AnyAccount : reader' = AtAccount(reader, "resolve", a) /\ bodies' = bodies
      BY <2>3
    <2>8. "resolve" \in ReaderPlaces
      BY DEF ResolveReads, ReaderPlaces
    <2>9. SameRequest(reader', reader) /\ reader'.at = "resolve" /\ reader'.account = a /\ reader'.body = reader.body
      BY <1>1, <2>7, <2>8, ReaderAtAccount
    <2>10. Live' = Live /\ SentTurns' = SentTurns
      BY <2>1 DEF sessionVars, turnVars, storeVars, Live, SentTurns
    <2>11. ReaderOK(reader)'
      BY <1>1, <1>2, <2>1, <2>9, <2>10 DEF ResolveReads, WorkersEnded, SameRequest, ReaderOK, Early, Own, Opening, sessionVars, turnVars, workerVars, storeVars
    <2>12. reader.at \in Unplaced /\ reader'.at \in Unplaced \ {"worker"}
      BY <2>2, <2>9 DEF Early, Unplaced, Own, Opening, ReaderPlaces
    <2> QED
      BY <2>1, <2>7, <2>9, <2>11, <2>12, ReaderProceeds
<1>3. CASE RouteRefused
  <2>1. Stays
    BY <1>3 DEF RouteRefused, Reject
  <2>2. reader.at \in Early \ {"append"}
    BY <1>3 DEF RouteRefused, Early, Unplaced, Own, Opening, ReaderPlaces
  <2>3. Refuses
    BY <1>3 DEF RouteRefused, Reject
  <2> QED
    BY <2>1, <2>2, <2>3, ReaderRefuses
<1>4. CASE AlreadyPinned
  <2>1. Stays
    BY <1>4 DEF AlreadyPinned, ReaderTo, Reject
  <2>2. reader.at \in Early \ {"append"}
    BY <1>4 DEF AlreadyPinned, Early, Unplaced, Own, Opening, ReaderPlaces
  <2>3. Refuses \/ (reader' = At(reader, "validate") /\ bodies' = bodies)
    BY <1>1, <1>4 DEF AlreadyPinned, ReaderTo, Reject, AnyAccount, PinStates, At
  <2>4. CASE Refuses
    BY <2>1, <2>2, <2>4, ReaderRefuses
  <2>5. CASE reader' = At(reader, "validate") /\ bodies' = bodies
      <3>1. reader' = At(reader, "validate") /\ bodies' = bodies
        BY <2>5
      <3>2. "validate" \in ReaderPlaces
        BY DEF AlreadyPinned, ReaderPlaces
      <3>3. SameRequest(reader', reader) /\ reader'.at = "validate" /\ reader'.account = reader.account /\ reader'.body = reader.body
        BY <1>1, <3>1, <3>2, ReaderAt
      <3>4. Live' = Live /\ SentTurns' = SentTurns
        BY <2>1 DEF sessionVars, turnVars, storeVars, Live, SentTurns
      <3>5. ReaderOK(reader)'
        BY <1>1, <1>4, <2>1, <3>3, <3>4 DEF AlreadyPinned, WorkersEnded, SameRequest, ReaderOK, Early, Own, Opening, sessionVars, turnVars, workerVars, storeVars
      <3>6. reader.at \in Unplaced /\ reader'.at \in Unplaced \ {"worker"}
        BY <2>2, <3>3 DEF Early, Unplaced, Own, Opening, ReaderPlaces
      <3> QED
        BY <2>1, <3>1, <3>3, <3>5, <3>6, ReaderProceeds
  <2> QED
    BY <2>3, <2>4, <2>5
<1>5. CASE InitialAccount
  <2>1. Stays
    BY <1>5 DEF InitialAccount, Reject
  <2>2. reader.at \in Early \ {"append"}
    BY <1>5 DEF InitialAccount, Early, Unplaced, Own, Opening, ReaderPlaces
  <2>3. Refuses \/ (\E a \in Accounts : reader' = AtAttempt(reader, "dial", a, {a}) /\ bodies' = bodies)
    BY <1>1, <1>5 DEF InitialAccount, Reject, AnyAccount, PinStates, AtAttempt
  <2>4. CASE Refuses
    BY <2>1, <2>2, <2>4, ReaderRefuses
  <2>5. CASE \E a \in Accounts : reader' = AtAttempt(reader, "dial", a, {a}) /\ bodies' = bodies
      <3>1. PICK a \in Accounts : reader' = AtAttempt(reader, "dial", a, {a}) /\ bodies' = bodies
        BY <2>5
      <3>2. "dial" \in ReaderPlaces
        BY DEF InitialAccount, ReaderPlaces
      <3>3. SameRequest(reader', reader) /\ reader'.at = "dial" /\ reader'.account = a /\ reader'.body = reader.body
        BY <1>1, <3>1, <3>2, ReaderAtAttempt
      <3>4. Live' = Live /\ SentTurns' = SentTurns
        BY <2>1 DEF sessionVars, turnVars, storeVars, Live, SentTurns
      <3>5. ReaderOK(reader)'
        BY <1>1, <1>5, <2>1, <3>3, <3>4 DEF InitialAccount, WorkersEnded, SameRequest, ReaderOK, Early, Own, Opening, sessionVars, turnVars, workerVars, storeVars
      <3>6. reader.at \in Unplaced /\ reader'.at \in Unplaced \ {"worker"}
        BY <2>2, <3>3 DEF Early, Unplaced, Own, Opening, ReaderPlaces
      <3> QED
        BY <2>1, <3>1, <3>3, <3>5, <3>6, ReaderProceeds
  <2> QED
    BY <2>3, <2>4, <2>5
<1>6. CASE DialFails
  <2>1. Stays
    BY <1>6 DEF DialFails, Reject
  <2>2. reader.at \in Early \ {"append"}
    BY <1>6 DEF DialFails, Early, Unplaced, Own, Opening, ReaderPlaces
  <2>3. Refuses \/ (\E a \in Accounts : reader' = Attempts(reader, a, reader.attempted \cup {a}) /\ bodies' = bodies)
    BY <1>1, <1>6 DEF DialFails, Reject, AnyAccount, PinStates, Attempts
  <2>4. CASE Refuses
    BY <2>1, <2>2, <2>4, ReaderRefuses
  <2>5. CASE \E a \in Accounts : reader' = Attempts(reader, a, reader.attempted \cup {a}) /\ bodies' = bodies
      <3>1. PICK a \in Accounts : reader' = Attempts(reader, a, reader.attempted \cup {a}) /\ bodies' = bodies
        BY <2>5
      <3>2. "dial" \in ReaderPlaces /\ reader.at = "dial" /\ reader.attempted \cup {a} \in SUBSET Accounts
        BY <1>1, <1>6 DEF DialFails, ReaderPlaces, ReaderStates
      <3>3. SameRequest(reader', reader) /\ reader'.at = "dial" /\ reader'.account = a /\ reader'.body = reader.body
        BY <1>1, <3>1, <3>2, ReaderAttempts
      <3>4. Live' = Live /\ SentTurns' = SentTurns
        BY <2>1 DEF sessionVars, turnVars, storeVars, Live, SentTurns
      <3>5. ReaderOK(reader)'
        BY <1>1, <1>6, <2>1, <3>3, <3>4 DEF DialFails, WorkersEnded, SameRequest, ReaderOK, Early, Own, Opening, sessionVars, turnVars, workerVars, storeVars
      <3>6. reader.at \in Unplaced /\ reader'.at \in Unplaced \ {"worker"}
        BY <2>2, <3>3 DEF Early, Unplaced, Own, Opening, ReaderPlaces
      <3> QED
        BY <2>1, <3>1, <3>3, <3>5, <3>6, ReaderProceeds
  <2> QED
    BY <2>3, <2>4, <2>5
<1>7. CASE validateContinuation
  <2>1. Stays
    BY <1>7 DEF validateContinuation, ReaderTo, Reject
  <2>2. reader.at \in Early \ {"append"}
    BY <1>7 DEF validateContinuation, Early, Unplaced, Own, Opening, ReaderPlaces
  <2>3. Refuses \/ (reader' = At(reader, "prepare") /\ bodies' = bodies)
    BY <1>1, <1>7 DEF validateContinuation, ReaderTo, Reject, AnyAccount, PinStates, At
  <2>4. CASE Refuses
    BY <2>1, <2>2, <2>4, ReaderRefuses
  <2>5. CASE reader' = At(reader, "prepare") /\ bodies' = bodies
      <3>1. reader' = At(reader, "prepare") /\ bodies' = bodies
        BY <2>5
      <3>2. "prepare" \in ReaderPlaces
        BY DEF validateContinuation, ReaderPlaces
      <3>3. SameRequest(reader', reader) /\ reader'.at = "prepare" /\ reader'.account = reader.account /\ reader'.body = reader.body
        BY <1>1, <3>1, <3>2, ReaderAt
      <3>4. Live' = Live /\ SentTurns' = SentTurns
        BY <2>1 DEF sessionVars, turnVars, storeVars, Live, SentTurns
      <3>5. ReaderOK(reader)'
        BY <1>1, <1>7, <2>1, <3>3, <3>4 DEF validateContinuation, WorkersEnded, SameRequest, ReaderOK, Early, Own, Opening, sessionVars, turnVars, workerVars, storeVars
      <3>6. reader.at \in Unplaced /\ reader'.at \in Unplaced \ {"worker"}
        BY <2>2, <3>3 DEF Early, Unplaced, Own, Opening, ReaderPlaces
      <3> QED
        BY <2>1, <3>1, <3>3, <3>5, <3>6, ReaderProceeds
  <2> QED
    BY <2>3, <2>4, <2>5
<1>8. CASE preparePayload
  <2>1. Stays
    BY <1>8 DEF preparePayload, Reject
  <2>2. reader.at \in Early \ {"append"}
    BY <1>8 DEF preparePayload, Early, Unplaced, Own, Opening, ReaderPlaces
  <2>3. Refuses \/ (\E a \in AnyAccount : reader' = AtIdentity(reader, "reserve", a) /\ bodies' = bodies)
    BY <1>1, <1>8 DEF preparePayload, Reject, AnyAccount, PinStates, AtIdentity
  <2>4. CASE Refuses
    BY <2>1, <2>2, <2>4, ReaderRefuses
  <2>5. CASE \E a \in AnyAccount : reader' = AtIdentity(reader, "reserve", a) /\ bodies' = bodies
      <3>1. PICK a \in AnyAccount : reader' = AtIdentity(reader, "reserve", a) /\ bodies' = bodies
        BY <2>5
      <3>2. "reserve" \in ReaderPlaces
        BY DEF preparePayload, ReaderPlaces
      <3>3. SameRequest(reader', reader) /\ reader'.at = "reserve" /\ reader'.account = reader.account /\ reader'.body = reader.body
        BY <1>1, <3>1, <3>2, ReaderAtIdentity
      <3>4. Live' = Live /\ SentTurns' = SentTurns
        BY <2>1 DEF sessionVars, turnVars, storeVars, Live, SentTurns
      <3>5. ReaderOK(reader)'
        BY <1>1, <1>8, <2>1, <3>3, <3>4 DEF preparePayload, WorkersEnded, SameRequest, ReaderOK, Early, Own, Opening, sessionVars, turnVars, workerVars, storeVars
      <3>6. reader.at \in Unplaced /\ reader'.at \in Unplaced \ {"worker"}
        BY <2>2, <3>3 DEF Early, Unplaced, Own, Opening, ReaderPlaces
      <3> QED
        BY <2>1, <3>1, <3>3, <3>5, <3>6, ReaderProceeds
  <2> QED
    BY <2>3, <2>4, <2>5
<1>9. CASE ReadFails
  <2>1. Stays
    BY <1>9 DEF ReadFails, ReaderTo, outerVars
  <2>2. reader.at \in Unplaced
    BY <1>9 DEF ReadFails, Early, Unplaced, Own, Opening, ReaderPlaces
  <2>3. reader' = At(reader, "exit") /\ bodies' = bodies
    BY <1>1, <1>9 DEF ReadFails, ReaderTo, outerVars, AnyAccount, PinStates, At
    <2>7. reader' = At(reader, "exit") /\ bodies' = bodies
      BY <2>3
    <2>8. "exit" \in ReaderPlaces
      BY DEF ReadFails, ReaderPlaces
    <2>9. SameRequest(reader', reader) /\ reader'.at = "exit" /\ reader'.account = reader.account /\ reader'.body = reader.body
      BY <1>1, <2>7, <2>8, ReaderAt
    <2>10. Live' = Live /\ SentTurns' = SentTurns
      BY <2>1 DEF sessionVars, turnVars, storeVars, Live, SentTurns
    <2>11. ReaderOK(reader)'
      BY <1>1, <1>9, <2>1, <2>9, <2>10 DEF ReadFails, WorkersEnded, SameRequest, ReaderOK, Early, Own, Opening, sessionVars, turnVars, workerVars, storeVars
    <2>12. reader.at \in Unplaced /\ reader'.at \in Unplaced \ {"worker"}
      BY <2>2, <2>9 DEF Early, Unplaced, Own, Opening, ReaderPlaces
    <2> QED
      BY <2>1, <2>7, <2>9, <2>11, <2>12, ReaderProceeds
<1>10. CASE ReaderDone
  <2>1. Stays
    BY <1>10 DEF ReaderDone, ReaderTo, outerVars
  <2>2. reader.at \in Unplaced
    BY <1>10 DEF ReaderDone, Early, Unplaced, Own, Opening, ReaderPlaces
  <2>3. reader' = At(reader, "done") /\ bodies' = bodies
    BY <1>1, <1>10 DEF ReaderDone, ReaderTo, outerVars, AnyAccount, PinStates, At
    <2>7. reader' = At(reader, "done") /\ bodies' = bodies
      BY <2>3
    <2>8. "done" \in ReaderPlaces
      BY DEF ReaderDone, ReaderPlaces
    <2>9. SameRequest(reader', reader) /\ reader'.at = "done" /\ reader'.account = reader.account /\ reader'.body = reader.body
      BY <1>1, <2>7, <2>8, ReaderAt
    <2>10. Live' = Live /\ SentTurns' = SentTurns
      BY <2>1 DEF sessionVars, turnVars, storeVars, Live, SentTurns
    <2>11. ReaderOK(reader)'
      BY <1>1, <1>10, <2>1, <2>9, <2>10 DEF ReaderDone, WorkersEnded, SameRequest, ReaderOK, Early, Own, Opening, sessionVars, turnVars, workerVars, storeVars
    <2>12. reader.at \in Unplaced /\ reader'.at \in Unplaced \ {"worker"}
      BY <2>2, <2>9 DEF Early, Unplaced, Own, Opening, ReaderPlaces
    <2> QED
      BY <2>1, <2>7, <2>9, <2>11, <2>12, ReaderProceeds
<1> QED
  BY <1>2, <1>3, <1>4, <1>5, <1>6, <1>7, <1>8, <1>9, <1>10

\* A request is read: its body is buffered.
LEMMA ReaderStarts ==
    ASSUME SInv, NEW st \in Streams, NEW prev \in AnyResponse, ClientSends(st, prev)
    PROVE  SInv'
<1>1. reader \in ReaderStates /\ ReaderOK(reader) /\ bodies \in Nat /\ made \in 0..MaxTurns
  BY DEF SInv, TypeOK
<1>2. UNCHANGED <<sessionVars, workerVars, accountTurns, storeVars>>
  BY DEF ClientSends
<1>3. /\ reader' \in ReaderStates /\ reader'.at = "route" /\ reader'.body /\ ~reader'.first
      /\ ~reader'.failover
  BY ReaderReceived DEF ClientSends, Received
<1>4. ~reader.body
  BY <1>1 DEF ClientSends, ReaderOK, Early
<1>5. One(reader.body) = 0 /\ One(reader'.body) = 1 /\ bodies' = bodies + 1
  BY <1>3, <1>4 DEF One, ClientSends
<1>6. bodies' \in Nat /\ bodies' - One(reader'.body) = bodies - One(reader.body)
  BY <1>1, <1>5
<1>7. reader.at \in Unplaced /\ reader'.at \in Unplaced \ {"worker"}
  BY <1>3 DEF ClientSends, Unplaced, Own, Opening, ReaderPlaces
<1>8. ReaderOK(reader)'
  BY <1>1, <1>2, <1>3 DEF ClientSends, ReaderOK, Early, Own, Opening, sessionVars, turnVars
<1> QED
  BY <1>2, <1>3, <1>6, <1>7, <1>8, ReaderMoves

-----------------------------------------------------------------------------
(* Closing, and the steps of the bridge workers that keep their turn.      *)

\* A worker that serves a turn goes on with it.
BridgeGoes ==
    /\ bridge' \in [Streams -> BridgeStates]
    /\ \A st \in Streams :
         /\ bridge'[st].turn = bridge[st].turn /\ bridge'[st].initial = bridge[st].initial
         /\ bridge'[st].at = "off" <=> bridge[st].at = "off"
         /\ bridge'[st].at = "loop" <=> bridge[st].at = "loop"
         /\ bridge'[st].at = "route" => bridge[st].at = "route"

\* Workers that do nothing go on.
LEMMA BridgeStays == bridge' = bridge /\ TypeOK => BridgeGoes
  BY DEF BridgeGoes, TypeOK

\* A worker that moves on with its turn.
LEMMA BridgeGoesTo ==
    ASSUME TypeOK, NEW st \in Streams, NEW p \in {"stream", "closing", "finish"}, BridgeTo(st, p),
           bridge[st].at \notin {"off", "loop"}
    PROVE  BridgeGoes
<1>1. bridge \in [Streams -> BridgeStates]
  BY DEF TypeOK
<1> DEFINE b == [bridge[st] EXCEPT !.at = p]
<1>2. b \in BridgeStates /\ b.at = p /\ b.turn = bridge[st].turn /\ b.initial = bridge[st].initial
  BY <1>1 DEF BridgeStates, BridgePlaces
<1>3. bridge' = [bridge EXCEPT ![st] = b]
  BY <1>1 DEF BridgeTo
<1> HIDE DEF b
<1>4. bridge' \in [Streams -> BridgeStates]
  BY <1>1, <1>2, <1>3
<1>5. bridge'[st] = b /\ \A s \in Streams \ {st} : bridge'[s] = bridge[s]
  BY <1>1, <1>3
<1> QED
  BY <1>2, <1>4, <1>5 DEF BridgeGoes

\* Whoever closes the session, and whatever its readers do about it.
LEMMA Closes ==
    ASSUME SInv, Close, UNCHANGED <<pin, turnVars, up, outerVars>>, BridgeGoes,
           idle' \in {"watch", "fire", "off"},
           \/ reader' = reader
           \/ reader.at \in {"closing", "exit"} /\ \E p \in {"exit", "wait"} : reader' = At(reader, p)
    PROVE  SInv'
<1> USE DEF turnVars, outerVars, storeVars
<1>1. reader \in ReaderStates /\ closer \in [at : {"no", "run", "done"}, todo : SUBSET Turns]
      /\ queue \in [Streams -> Seq(Turns)] /\ turns \in [Turns -> TurnStates]
  BY DEF SInv, TypeOK
<1>2. \/ reader' = reader
      \/ /\ SameRequest(reader', reader) /\ reader'.body = reader.body
         /\ reader.at \in {"closing", "exit"} /\ reader'.at \in {"exit", "wait"}
  BY <1>1, ReaderAt DEF ReaderPlaces
<1>3. reader' \in ReaderStates /\ One(reader'.body) = One(reader.body)
  BY <1>1, <1>2 DEF SameRequest
<1>4. Live' = Live
  BY TurnsStay
<1>5. /\ closed' \in BOOLEAN /\ cancelled' \in BOOLEAN /\ (closed => closed') /\ (cancelled => cancelled')
      /\ (closer.at # "no" => UNCHANGED <<closed, cancelled, closer>>)
  BY DEF SInv, TypeOK, Close, CloseSection, CloseInv
<1>6. closer' \in [at : {"no", "run", "done"}, todo : SUBSET Turns]
  BY <1>1 DEF Close, CloseSection
<1>7. TypeOK'
  BY <1>3, <1>5, <1>6 DEF SInv, TypeOK, BridgeGoes
<1>8. CountInv'
  <2>1. \A a \in Accounts : /\ One(ReaderHolds(reader, a))' = One(ReaderHolds(reader, a))
                            /\ One(UpHolds(up, a))' = One(UpHolds(up, a))
    BY <1>2 DEF ReaderHolds, UpHolds, One
  <2>2. bodies \in Nat
    BY DEF SInv, TypeOK
  <2> QED
    BY <1>3, <2>1, <2>2, CountsStay DEF SInv
<1>9. CloseInv'
  <2>1. CASE closer.at # "no"
    BY <1>4, <1>5, <2>1 DEF SInv, CloseInv
  <2>2. CASE closer.at = "no"
    <3>1. /\ closed' /\ cancelled' /\ closer'.at = "run"
          /\ closer'.todo = UNION {{queue[st][i] : i \in DOMAIN queue[st]} : st \in Streams}
      BY <2>2 DEF Close, CloseSection
    <3>2. ASSUME NEW t \in Live PROVE t \in closer'.todo
      <4>1. t \in Turns /\ turns[t].stream \in Streams
        BY <1>1 DEF Live, TurnStates
      <4>2. t \in {queue[turns[t].stream][i] : i \in DOMAIN queue[turns[t].stream]}
        BY <4>1 DEF SInv, CountInv, PendingExact
      <4> QED
        BY <3>1, <4>1, <4>2
    <3> QED
      BY <1>4, <3>1, <3>2 DEF CloseInv
  <2> QED
    BY <2>1, <2>2
<1>10. PinInv' /\ TurnsOK' /\ SentOK'
  BY <1>2, <1>4 DEF SInv, PinInv, TurnsOK, SentOK
<1>11. UpOK(up)'
  BY <1>2, <1>5 DEF SInv, UpOK
<1>12. ReaderOK(reader)'
  BY <1>2, <1>4, <1>5 DEF SInv, ReaderOK, SameRequest, SentTurns, Early, Own, Opening, CloseInv
<1>13. \A st \in Streams : BridgeOK(st, bridge[st])'
  BY <1>2, <1>5 DEF SInv, BridgeOK, BridgeGoes, SentTurns, SameRequest
<1>14. \A st \in Streams : QueueOK(st)'
  BY <1>2, <1>5 DEF SInv, QueueOK, BridgeGoes, SentTurns, Opening
<1>15. \A st \in Streams : PipeOK(st)'
  <2>1. \A st \in Streams : Unwritten(st)' <=> Unwritten(st)
    BY <1>2 DEF Unwritten
  <2>2. \A st \in Streams : (Answered(st)' <=> Answered(st))
    BY DEF Answered
  <2> QED
    BY <1>5, <2>1, <2>2, PipesStay DEF SInv
<1>16. NoStrandedTurn'
  BY <1>1, <1>2, <1>4, <1>5 DEF SInv, NoStrandedTurn, BridgeGoes, Own, Opening, Live, TurnStates
<1> QED
  BY <1>7, <1>8, <1>9, <1>10, <1>11, <1>12, <1>13, <1>14, <1>15, <1>16 DEF SInv

\* CloseAll and CloseAccount, the idle timer, the upstream reader, the client
\* reader inside a request and at its end, and a bridge worker.
LEMMA CloseSteps ==
    ASSUME SInv,
           \/ CloseFromHub \/ IdleCloses \/ UpstreamCloses \/ ReaderCloses \/ ReaderExits
           \/ \E st \in Streams : BridgeClientGone(st)
    PROVE  SInv'
<1>1. idle \in {"watch", "fire", "off"} /\ TypeOK
  BY DEF SInv, TypeOK
<1>2. CASE CloseFromHub \/ IdleCloses \/ UpstreamCloses
  <2>1. Close /\ UNCHANGED <<pin, turnVars, up, outerVars>> /\ reader' = reader /\ bridge' = bridge
        /\ idle' \in {"watch", "fire", "off"}
    BY <1>1, <1>2 DEF CloseFromHub, IdleCloses, UpstreamCloses, Close
  <2> QED
    BY <1>1, <2>1, BridgeStays, Closes
<1>3. CASE ReaderCloses \/ ReaderExits
  <2>1. /\ Close /\ UNCHANGED <<pin, turnVars, up, outerVars>> /\ bridge' = bridge /\ idle' = idle
        /\ reader.at \in {"closing", "exit"} /\ \E p \in {"exit", "wait"} : reader' = At(reader, p)
    BY <1>3 DEF ReaderCloses, ReaderExits, ReaderTo, At
  <2> QED
    BY <1>1, <2>1, BridgeStays, Closes
<1>4. ASSUME NEW st \in Streams, BridgeClientGone(st) PROVE SInv'
  <2>1. Close /\ UNCHANGED <<pin, turnVars, up, outerVars>> /\ reader' = reader /\ idle' = idle
    BY <1>4 DEF BridgeClientGone
  <2>2. BridgeTo(st, "closing") /\ bridge[st].at = "stream"
    BY <1>4 DEF BridgeClientGone
  <2>3. BridgeGoes
    BY <1>1, <2>2, BridgeGoesTo
  <2> QED
    BY <1>1, <2>1, <2>3, Closes
<1> QED
  BY <1>2, <1>3, <1>4

\* The context ends, the idle timer looks, close returns.
LEMMA QuietSteps ==
    ASSUME SInv, LifetimeEnds \/ IdleDecides \/ IdleEnds \/ CloseReturns
    PROVE  SInv'
<1> USE DEF sessionVars, turnVars, goVars, workerVars, outerVars, storeVars
<1>1. /\ UNCHANGED <<pin, closed, turnVars, reader, up, bridge, outerVars>>
      /\ closer \in [at : {"no", "run", "done"}, todo : SUBSET Turns]
  BY DEF SInv, TypeOK, LifetimeEnds, IdleDecides, IdleEnds, CloseReturns
<1>2. /\ cancelled' \in BOOLEAN /\ (cancelled => cancelled') /\ idle' \in {"watch", "fire", "off"}
  BY DEF SInv, TypeOK, LifetimeEnds, IdleDecides, IdleEnds, CloseReturns
<1>3. \/ closer' = closer
      \/ closer.at = "run" /\ closer.todo = {} /\ closer'.at = "done" /\ closer'.todo = {}
  BY <1>1 DEF LifetimeEnds, IdleDecides, IdleEnds, CloseReturns
<1>4. closer' \in [at : {"no", "run", "done"}, todo : SUBSET Turns]
  BY <1>1 DEF LifetimeEnds, IdleDecides, IdleEnds, CloseReturns
<1>5. Live' = Live
  BY <1>1, TurnsStay
<1>6. TypeOK'
  BY <1>1, <1>2, <1>4 DEF SInv, TypeOK
<1>7. CountInv'
  <2>1. \A a \in Accounts : /\ One(ReaderHolds(reader, a))' = One(ReaderHolds(reader, a))
                            /\ One(UpHolds(up, a))' = One(UpHolds(up, a))
    BY <1>1 DEF ReaderHolds, UpHolds, One
  <2>2. bodies \in Nat
    BY DEF SInv, TypeOK
  <2> QED
    BY <1>1, <2>1, <2>2, CountsStay DEF SInv
<1>8. CloseInv'
  BY <1>1, <1>2, <1>3, <1>5 DEF SInv, CloseInv
<1>9. PinInv' /\ TurnsOK' /\ SentOK'
  BY <1>1, <1>5 DEF SInv, PinInv, TurnsOK, SentOK
<1>10. UpOK(up)'
  BY <1>1 DEF SInv, UpOK
<1>11. ReaderOK(reader)'
  BY <1>1, <1>3, <1>5 DEF SInv, ReaderOK, SentTurns
<1>12. \A st \in Streams : BridgeOK(st, bridge[st])'
  BY <1>1, <1>2 DEF SInv, BridgeOK, SentTurns
<1>13. \A st \in Streams : QueueOK(st)'
  BY <1>1 DEF SInv, QueueOK, SentTurns
<1>14. \A st \in Streams : PipeOK(st)'
  <2>1. \A st \in Streams : (Unwritten(st)' <=> Unwritten(st)) /\ (Answered(st)' <=> Answered(st))
    BY <1>1 DEF Unwritten, Answered
  <2> QED
    BY <1>1, <2>1, PipesStay DEF SInv
<1>15. NoStrandedTurn'
  BY <1>1, <1>2, <1>5 DEF SInv, NoStrandedTurn
<1> QED
  BY <1>6, <1>7, <1>8, <1>9, <1>10, <1>11, <1>12, <1>13, <1>14, <1>15 DEF SInv

\* What does not look at the turns of the accounts.
LEMMA OnlyAccountsMove ==
    ASSUME SInv, UNCHANGED <<sessionVars, goVars, bodies, binding, wire, sent>>,
           accountTurns' \in [Accounts -> Nat], others' \in [Accounts -> Nat], AccountTurnsExact'
    PROVE  SInv'
<1> USE DEF sessionVars, turnVars, goVars, workerVars
<1>1. Live' = Live
  BY TurnsStay
<1>2. TypeOK'
  BY DEF SInv, TypeOK
<1>3. PendingExact' /\ BodiesReleased'
  BY <1>1 DEF SInv, CountInv, PendingExact, BodiesReleased, One
<1>4. PinInv' /\ CloseInv' /\ TurnsOK' /\ SentOK' /\ UpOK(up)'
  BY <1>1 DEF SInv, PinInv, CloseInv, TurnsOK, SentOK, UpOK
<1>5. ReaderOK(reader)'
  BY <1>1 DEF SInv, ReaderOK, SentTurns
<1>6. \A st \in Streams : BridgeOK(st, bridge[st])'
  BY DEF SInv, BridgeOK, SentTurns
<1>7. \A st \in Streams : QueueOK(st)'
  BY DEF SInv, QueueOK, SentTurns
<1>8. \A st \in Streams : PipeOK(st)'
  <2>1. \A st \in Streams : (Unwritten(st)' <=> Unwritten(st)) /\ (Answered(st)' <=> Answered(st))
    BY DEF Unwritten, Answered
  <2> QED
    BY <2>1, PipesStay DEF SInv
<1>9. NoStrandedTurn'
  BY <1>1 DEF SInv, NoStrandedTurn
<1> QED
  BY <1>2, <1>3, <1>4, <1>5, <1>6, <1>7, <1>8, <1>9 DEF SInv, CountInv

\* The numbers behind AccountTurnsExact.
LEMMA HeldNumbers ==
    ASSUME TypeOK, NEW a \in Accounts
    PROVE  /\ HeldOn(a) \in Nat /\ others[a] \in Nat /\ accountTurns[a] \in Nat
           /\ Cardinality(LiveOn(a)) \in Nat
           /\ One(ReaderHolds(reader, a)) \in {0, 1} /\ One(UpHolds(up, a)) \in {0, 1}
<1>1. Cardinality(LiveOn(a)) \in Nat
  BY TurnsAreFinite DEF Live, LiveOn
<1>2. One(ReaderHolds(reader, a)) \in {0, 1} /\ One(UpHolds(up, a)) \in {0, 1}
  BY DEF One
<1>3. HeldOn(a) \in Nat
  BY <1>1, <1>2, HeldIs
<1> QED
  BY <1>1, <1>2, <1>3 DEF TypeOK

\* Reserving and releasing touch one account's counter.
LEMMA ReservedIs ==
    ASSUME NEW at \in [Accounts -> Nat], NEW b \in Accounts
    PROVE  /\ Reserved(at, b) \in [Accounts -> Nat] /\ Reserved(at, b)[b] = at[b] + 1
           /\ \A a \in Accounts \ {b} : Reserved(at, b)[a] = at[a]
  BY DEF Reserved

\* A release takes one from its account's counter.
LEMMA ReleasedIs ==
    ASSUME NEW at \in [Accounts -> Nat], NEW b \in Accounts, at[b] >= 1
    PROVE  /\ Released(at, b) \in [Accounts -> Nat] /\ Released(at, b)[b] = at[b] - 1
           /\ \A a \in Accounts \ {b} : Released(at, b)[a] = at[a]
<1> DEFINE n == IF at[b] <= 1 THEN 0 ELSE at[b] - 1
<1>1. n = at[b] - 1 /\ n \in Nat
  OBVIOUS
<1> HIDE DEF n
<1>2. Released(at, b) = [at EXCEPT ![b] = n]
  BY DEF Released, n
<1> QED
  BY <1>1, <1>2

\* The other sessions of an account.
LEMMA OtherSteps ==
    ASSUME SInv, NEW b \in Accounts, OtherReserves(b) \/ OtherReleases(b)
    PROVE  SInv'
<1>1. UNCHANGED <<sessionVars, goVars, bodies, binding, wire, sent>>
  BY DEF OtherReserves, OtherReleases
<1>2. accountTurns \in [Accounts -> Nat] /\ others \in [Accounts -> Nat]
  BY DEF SInv, TypeOK
<1>3. ASSUME NEW a \in Accounts
      PROVE  HeldOn(a)' = HeldOn(a) /\ HeldOn(a) \in Nat /\ others[a] \in Nat /\ accountTurns[a] \in Nat
             /\ accountTurns[a] = others[a] + HeldOn(a) /\ accountTurns[a] <= MaxTurnsPerAccount
  <2>1. LiveOn(a)' = LiveOn(a)
    BY <1>1, TurnsStay DEF sessionVars, turnVars
  <2>2. HeldOn(a)' = HeldOn(a)
    BY <1>1, <2>1 DEF goVars, workerVars, HeldOn, LiveOn
  <2> QED
    BY <2>2, HeldNumbers DEF SInv, CountInv, AccountTurnsExact
<1>4. /\ accountTurns' \in [Accounts -> Nat] /\ others' \in [Accounts -> Nat]
      /\ \A a \in Accounts : /\ accountTurns'[a] = others'[a] + HeldOn(a)'
                             /\ accountTurns'[a] <= MaxTurnsPerAccount
  <2>1. CASE OtherReserves(b)
    <3>1. /\ accountTurns' \in [Accounts -> Nat] /\ accountTurns'[b] = accountTurns[b] + 1
          /\ \A a \in Accounts \ {b} : accountTurns'[a] = accountTurns[a]
          /\ others' = [others EXCEPT ![b] = @ + 1] /\ accountTurns[b] < MaxTurnsPerAccount
      BY <1>2, <2>1, ReservedIs DEF OtherReserves, HasTurnCapacity
    <3> QED
      BY <1>2, <1>3, <3>1, SessionAssumptions
  <2>2. CASE OtherReleases(b)
    <3>1. others[b] > 0 /\ others' = [others EXCEPT ![b] = @ - 1]
      BY <2>2 DEF OtherReleases
    <3>2. accountTurns[b] >= 1
      BY <1>3, <3>1
    <3>3. /\ accountTurns' \in [Accounts -> Nat] /\ accountTurns'[b] = accountTurns[b] - 1
          /\ \A a \in Accounts \ {b} : accountTurns'[a] = accountTurns[a]
      BY <1>2, <2>2, <3>2, ReleasedIs DEF OtherReleases
    <3>4. /\ others' \in [Accounts -> Nat] /\ others'[b] = others[b] - 1
          /\ \A a \in Accounts \ {b} : others'[a] = others[a]
      BY <1>2, <3>1
    <3>5. ASSUME NEW a \in Accounts
          PROVE  accountTurns'[a] = others'[a] + HeldOn(a)' /\ accountTurns'[a] <= MaxTurnsPerAccount
      <4>1. CASE a = b
        BY <1>3, <3>3, <3>4, <4>1, SessionAssumptions
      <4>2. CASE a # b
        BY <1>3, <3>3, <3>4, <4>2
      <4> QED
        BY <4>1, <4>2
    <3> QED
      BY <3>3, <3>4, <3>5
  <2> QED
    BY <2>1, <2>2
<1>5. AccountTurnsExact'
  BY <1>4 DEF AccountTurnsExact
<1> QED
  BY <1>1, <1>4, <1>5, OnlyAccountsMove

\* What is recorded of a request that is sent.
LEMMA SendsIs ==
    ASSUME TypeOK, NEW t \in Turns, NEW a \in Accounts, NEW id \in AnyAccount, Sends(t, a, id)
    PROVE  /\ sent' \subseteq Requests /\ SentTurns' = SentTurns \cup {t} /\ sent \subseteq sent'
           /\ \A s \in sent' \ sent : /\ s.turn = t /\ s.prev = turns[t].prev
                                      /\ s.seen = turns[t].forwarded
                                      /\ (t \notin SentTurns => ~s.again)
<1> DEFINE n == [turn |-> t, account |-> a, identity |-> id, prev |-> turns[t].prev,
                 again |-> \E s \in sent : s.turn = t, seen |-> turns[t].forwarded]
<1>1. sent' = sent \cup {n}
  BY DEF Sends
<1>2. /\ n.turn = t /\ n.prev = turns[t].prev /\ n.seen = turns[t].forwarded
      /\ (t \notin SentTurns => ~n.again)
  <2>1. t \notin SentTurns => ~(\E s \in sent : s.turn = t)
    BY DEF SentTurns
  <2>2. ~(\E s \in sent : s.turn = t) => ~n.again
    BY Zenon
  <2>3. n.turn = t /\ n.prev = turns[t].prev /\ n.seen = turns[t].forwarded
    OBVIOUS
  <2> QED
    BY <2>1, <2>2, <2>3, Zenon
<1>3. turns[t].prev \in AnyResponse /\ turns[t].forwarded \in BOOLEAN /\ sent \subseteq Requests
  BY DEF TypeOK, TurnStates
<1>4. n \in Requests
  BY <1>3 DEF Requests
<1> HIDE DEF n
<1>5. SentTurns' = SentTurns \cup {t}
  BY <1>1, <1>2 DEF SentTurns
<1> QED
  BY <1>1, <1>2, <1>3, <1>4, <1>5

\* A worker waits for the close, reaches the end of its stream, or sends the
\* turn it has taken to the session's account.
LEMMA BridgeKeepsTurn ==
    ASSUME SInv, BridgeGoes,
           UNCHANGED <<sessionVars, reader, up, closer, idle, accountTurns, others, bodies, binding, wire>>,
           NEW st \in Streams, bridge[st].at # "off",
           \/ sent' = sent
           \/ /\ bridge[st].at = "route" /\ bridge'[st].at # "route"
              /\ Sends(bridge[st].turn, pin.account, NoAccount)
    PROVE  SInv'
<1> USE DEF sessionVars, turnVars
<1> DEFINE t == bridge[st].turn
<1>1. /\ bridge \in [Streams -> BridgeStates] /\ TypeOK /\ BridgeOK(st, bridge[st])
      /\ queue \in [Streams -> Seq(Turns)]
  BY DEF SInv, TypeOK
<1>2. /\ ~pin.native /\ pin.pinned /\ ~reader.first /\ pin.account \in Accounts /\ up.at = "off"
  BY <1>1 DEF BridgeOK, SInv, PinInv, UpOK
<1>3. \/ sent' = sent /\ SentTurns' = SentTurns
      \/ /\ t \in Turns /\ t \notin SentTurns /\ t <= made /\ turns[t].stream = st
         /\ bridge'[st].at # "route" /\ SentTurns' = SentTurns \cup {t}
         /\ sent \subseteq sent' /\ sent' \subseteq Requests
         /\ \A s \in sent' \ sent : s.turn = t /\ ~s.again
  <2>1. CASE sent' = sent
    BY <2>1 DEF SentTurns
  <2>2. CASE sent' # sent
    <3>1. t \in Turns /\ t \notin SentTurns /\ t <= made /\ turns[t].stream = st
      BY <1>1, <2>2 DEF BridgeOK, BridgeStates, NoTurn
    <3>2. NoAccount \in AnyAccount
      BY DEF AnyAccount
    <3>3. Sends(t, pin.account, NoAccount) /\ bridge'[st].at # "route"
      BY <2>2
    <3> HIDE DEF t
    <3> QED
      BY <1>1, <1>2, <3>1, <3>2, <3>3, SendsIs
  <2> QED
    BY <2>1, <2>2
<1> HIDE DEF t
<1>4. Live' = Live
  BY TurnsStay
<1>5. TypeOK'
  <2>1. sent' \subseteq Requests
    BY <1>1, <1>3 DEF TypeOK
  <2> QED
    BY <1>1, <2>1 DEF TypeOK, BridgeGoes
<1>6. CountInv'
  <2>1. \A a \in Accounts : /\ One(ReaderHolds(reader, a))' = One(ReaderHolds(reader, a))
                            /\ One(UpHolds(up, a))' = One(UpHolds(up, a))
    BY DEF ReaderHolds, UpHolds, One
  <2>2. bodies \in Nat
    BY DEF SInv, TypeOK
  <2> QED
    BY <2>1, <2>2, CountsStay DEF SInv
<1>7. PinInv' /\ CloseInv' /\ TurnsOK' /\ UpOK(up)'
  BY <1>4 DEF SInv, PinInv, CloseInv, TurnsOK, UpOK
<1>8. SentOK'
  BY <1>3 DEF SInv, SentOK
<1>9. ReaderOK(reader)'
  BY <1>2, <1>3, <1>4 DEF SInv, ReaderOK, Opening
<1>10. \A s \in Streams : BridgeOK(s, bridge[s])'
  <2> TAKE s \in Streams
  <2>1. /\ bridge'[s].turn = bridge[s].turn /\ (bridge'[s].at = "off" <=> bridge[s].at = "off")
        /\ (bridge'[s].at = "loop" <=> bridge[s].at = "loop")
        /\ (bridge'[s].at = "route" => bridge[s].at = "route")
    BY DEF BridgeGoes
  <2>2. BridgeOK(s, bridge[s])
    BY DEF SInv
  <2>3. bridge'[s].at = "route" => bridge'[s].turn \notin SentTurns'
    BY <1>3, <2>1, <2>2 DEF BridgeOK, t
  <2> QED
    BY <2>1, <2>2, <2>3 DEF BridgeOK
<1>11. \A s \in Streams : QueueOK(s)'
  <2> TAKE s \in Streams
  <2> SUFFICES ASSUME NEW i \in DOMAIN queue[s], queue[s][i] \in SentTurns'
               PROVE  \/ i = 1 /\ bridge'[s].at = "loop" /\ bridge'[s].initial
                      \/ bridge'[s].turn = queue[s][i]
                      \/ reader.at \in Opening /\ queue[s][i] = made
                      \/ closed /\ ~running[s]
    BY DEF QueueOK
  <2>1. QueueOK(s) /\ bridge'[s].turn = bridge[s].turn /\ bridge'[s].initial = bridge[s].initial
        /\ (bridge'[s].at = "loop" <=> bridge[s].at = "loop")
    BY DEF SInv, BridgeGoes
  <2>2. turns[queue[s][i]].stream = s
    BY DEF SInv, CountInv, PendingExact
  <2>3. CASE queue[s][i] \in SentTurns
    BY <1>2, <2>1, <2>3 DEF QueueOK
  <2>4. CASE queue[s][i] \notin SentTurns
    BY <1>3, <2>1, <2>2, <2>4 DEF t
  <2> QED
    BY <2>3, <2>4
<1>12. \A s \in Streams : PipeOK(s)'
  <2>1. \A s \in Streams : (Unwritten(s)' <=> Unwritten(s)) /\ (Answered(s)' <=> Answered(s))
    BY DEF Unwritten, Answered
  <2> QED
    BY <2>1, PipesStay DEF SInv
<1>13. NoStrandedTurn'
  <2>1. \A u \in Live : turns[u].stream \in Streams
    BY <1>1 DEF Live, TypeOK, TurnStates
  <2> QED
    BY <1>4, <2>1 DEF SInv, NoStrandedTurn, BridgeGoes
<1> QED
  BY <1>5, <1>6, <1>7, <1>8, <1>9, <1>10, <1>11, <1>12, <1>13 DEF SInv

\* What observeTurn may change of the turns.
LEMMA Observes ==
    ASSUME TypeOK, NEW t \in Turns \cup {NoTurn}, NEW e \in Terminals, NEW b \in BOOLEAN,
           observeTurn(t, e, b)
    PROVE  /\ turns' \in [Turns -> TurnStates] /\ remembered' \subseteq Responses /\ Live' = Live
           /\ \A u \in Turns : /\ turns'[u].stream = turns[u].stream
                               /\ turns'[u].account = turns[u].account
                               /\ turns'[u].prev = turns[u].prev
                               /\ u # t => turns'[u].forwarded = turns[u].forwarded
<1>1. turns \in [Turns -> TurnStates] /\ remembered \subseteq Responses
  BY DEF TypeOK
<1>2. CASE UNCHANGED <<turns, remembered>>
  BY <1>1, <1>2, TurnsStay
<1>3. CASE ~(t = NoTurn \/ turns[t].finished)
  <2> DEFINE n == [turns[t] EXCEPT !.forwarded = TRUE,
                                   !.terminal = IF e = "none" THEN @ ELSE e,
                                   !.bound = @ \/ b]
  <2>1. t \in Turns
    BY <1>3
  <2>2. turns[t] \in TurnStates
    BY <1>1, <2>1
  <2>3. n \in TurnStates
    BY <2>2 DEF TurnStates, Terminals
  <2>4. /\ n.stream = turns[t].stream /\ n.account = turns[t].account /\ n.prev = turns[t].prev
        /\ n.finished = turns[t].finished
    BY <2>2 DEF TurnStates
  <2>5. turns' = [turns EXCEPT ![t] = n]
    BY <1>1, <1>3, <2>1 DEF observeTurn
  <2> HIDE DEF n
  <2>6. turns' \in [Turns -> TurnStates] /\ turns'[t] = n /\ \A u \in Turns \ {t} : turns'[u] = turns[u]
    BY <1>1, <2>1, <2>3, <2>5
  <2>7. \A u \in Turns : /\ turns'[u].stream = turns[u].stream
                         /\ turns'[u].account = turns[u].account
                         /\ turns'[u].prev = turns[u].prev
                         /\ turns'[u].finished = turns[u].finished
                         /\ u # t => turns'[u].forwarded = turns[u].forwarded
    BY <2>4, <2>6
  <2>8. Live' = Live
    BY <2>7 DEF Live
  <2>9. remembered' \subseteq Responses
    BY <1>1, <1>3, <2>1 DEF observeTurn, Remembers, Responses
  <2> QED
    BY <2>6, <2>7, <2>8, <2>9
<1> QED
  BY <1>2, <1>3 DEF observeTurn

\* A queue holds live turns of its stream.
LEMMA QueuedTurns ==
    ASSUME TypeOK, CountInv, NEW st \in Streams, NEW i \in DOMAIN queue[st]
    PROVE  /\ queue[st][i] \in Turns /\ queue[st][i] # NoTurn
           /\ queue[st][i] \in Live /\ turns[queue[st][i]].stream = st
<1>1. queue[st] \in Seq(Turns)
  BY DEF TypeOK
<1>2. queue[st][i] \in Turns
  BY <1>1
<1>3. queue[st][i] \in Live /\ turns[queue[st][i]].stream = st
  BY DEF CountInv, PendingExact
<1> QED
  BY <1>2, <1>3 DEF Turns, NoTurn

\* A worker attempts its turn, sees its stream end, or finds the session closed.
LEMMA BridgeGoesOn ==
    ASSUME SInv, NEW st \in Streams, BridgeAttempts(st) \/ BridgeClosed(st) \/ BridgeStreamEnds(st)
    PROVE  SInv'
<1>1. TypeOK /\ bridge[st].at \in {"route", "closing", "stream"}
  BY DEF SInv, BridgeAttempts, BridgeClosed, BridgeStreamEnds
<1>2. \E p \in {"stream", "finish"} : BridgeTo(st, p)
  BY DEF BridgeAttempts, BridgeClosed, BridgeStreamEnds
<1>3. BridgeGoes
  BY <1>1, <1>2, BridgeGoesTo
<1>4. UNCHANGED <<sessionVars, reader, up, closer, idle, accountTurns, others, bodies, binding, wire>>
  BY DEF BridgeAttempts, BridgeClosed, BridgeStreamEnds, outerVars, storeVars
<1>5. sent' = sent \/ (bridge[st].at = "route" /\ Sends(bridge[st].turn, pin.account, NoAccount))
  BY DEF BridgeAttempts, BridgeClosed, BridgeStreamEnds, outerVars, storeVars
<1>6. bridge'[st].at # "route"
  BY <1>1, <1>2 DEF TypeOK, BridgeTo, BridgeStates
<1>7. bridge[st].at # "off"
  BY <1>1
<1> QED
  BY <1>3, <1>4, <1>5, <1>6, <1>7, BridgeKeepsTurn

\* An event of the stream reaches the client.
LEMMA BridgeObserves ==
    ASSUME SInv, NEW st \in Streams, NEW e \in {"delta", "completed", "failed"}, NEW b \in BOOLEAN,
           BridgeEvent(st, e, b)
    PROVE  SInv'
<1>1. bridge \in [Streams -> BridgeStates] /\ TypeOK /\ BridgeOK(st, bridge[st]) /\ bridge[st].at = "stream"
  BY DEF SInv, TypeOK, BridgeEvent
<1>2. ~pin.native /\ ~reader.first /\ up.at = "off"
  BY <1>1 DEF BridgeOK, SInv, UpOK
<1>3. UNCHANGED <<pin, closed, cancelled, made, queue, named, running, pending, goVars, outerVars>>
  BY DEF BridgeEvent
<1> USE DEF goVars, workerVars, outerVars, storeVars
<1>4. bridge[st].turn \in Turns \cup {NoTurn} /\ Terminal(e) \in Terminals
  BY <1>1 DEF BridgeStates, Terminal, Terminals
<1>5. /\ turns' \in [Turns -> TurnStates] /\ remembered' \subseteq Responses /\ Live' = Live
      /\ \A u \in Turns : /\ turns'[u].stream = turns[u].stream
                          /\ turns'[u].account = turns[u].account
                          /\ turns'[u].prev = turns[u].prev
  BY <1>1, <1>4, Observes DEF BridgeEvent
<1>6. \A t \in Live : t \in Turns /\ turns'[t].account = turns[t].account /\ turns'[t].stream = turns[t].stream
  BY <1>5 DEF Live
<1>7. TypeOK'
  BY <1>1, <1>3, <1>5 DEF TypeOK
<1>8. CountInv'
  <2>1. \A a \in Accounts : /\ One(ReaderHolds(reader, a))' = One(ReaderHolds(reader, a))
                            /\ One(UpHolds(up, a))' = One(UpHolds(up, a))
    BY <1>3 DEF ReaderHolds, UpHolds, One
  <2>2. bodies \in Nat
    BY DEF SInv, TypeOK
  <2> QED
    BY <1>3, <1>5, <1>6, <2>1, <2>2, CountsKept DEF SInv
<1>9. PinInv' /\ CloseInv' /\ TurnsOK' /\ SentOK'
  BY <1>3, <1>5, <1>6 DEF SInv, PinInv, CloseInv, TurnsOK, SentOK
<1>10. UpOK(up)'
  BY <1>2, <1>3 DEF SInv, UpOK, Moving, Attached
<1>11. ReaderOK(reader)'
  <2>1. made \in Turns \/ made = 0
    BY <1>1 DEF TypeOK, Turns
  <2> QED
    BY <1>2, <1>3, <1>5, <2>1 DEF SInv, ReaderOK, SentTurns, Opening
<1>12. \A s \in Streams : BridgeOK(s, bridge[s])'
  BY <1>1, <1>3, <1>5 DEF SInv, BridgeOK, SentTurns, BridgeStates
<1>13. \A s \in Streams : QueueOK(s)'
  BY <1>3 DEF SInv, QueueOK, SentTurns
<1>14. \A s \in Streams : PipeOK(s)'
  BY <1>2, <1>3 DEF PipeOK, Attached, Moving
<1>15. NoStrandedTurn'
  BY <1>3, <1>5, <1>6 DEF SInv, NoStrandedTurn
<1> QED
  BY <1>7, <1>8, <1>9, <1>10, <1>11, <1>12, <1>13, <1>14, <1>15 DEF SInv

\* A worker takes the next turn of its stream, or finds none and stops.
LEMMA BridgeTakes ==
    ASSUME SInv, NEW st \in Streams, BridgeNext(st)
    PROVE  SInv'
<1>1. bridge \in [Streams -> BridgeStates] /\ TypeOK /\ BridgeOK(st, bridge[st]) /\ bridge[st].at = "loop"
  BY DEF SInv, TypeOK, BridgeNext
<1>2. /\ ~pin.native /\ pin.pinned /\ ~reader.first /\ up.at = "off" /\ running[st]
      /\ bridge[st].turn = NoTurn
  BY <1>1 DEF BridgeOK, SInv, UpOK
<1>3. UNCHANGED <<pin, closed, cancelled, turns, made, queue, named, pending, remembered, reader, up,
                  closer, idle, outerVars>>
  BY DEF BridgeNext
<1> USE DEF outerVars, storeVars
<1>4. queue[st] \in Seq(Turns) /\ running \in [Streams -> BOOLEAN]
  BY <1>1 DEF TypeOK
<1> DEFINE h == queue[st][1]
           stopped == [at |-> "off", turn |-> NoTurn, initial |-> FALSE]
           taken == [at |-> IF bridge[st].initial THEN "stream" ELSE "route", turn |-> h, initial |-> FALSE]
<1>5. \/ /\ queue[st] = <<>> /\ running' = [running EXCEPT ![st] = FALSE]
         /\ bridge' = [bridge EXCEPT ![st] = stopped]
      \/ /\ queue[st] # <<>> /\ running' = running
         /\ bridge' = [bridge EXCEPT ![st] = taken]
  BY <1>4 DEF BridgeNext, StopBridge
<1>6. queue[st] # <<>> => /\ h \in Turns /\ h # NoTurn /\ 1 \in DOMAIN queue[st] /\ h \in Live
                          /\ turns[h].stream = st /\ h <= made
  <2> SUFFICES ASSUME queue[st] # <<>> PROVE h \in Turns /\ h # NoTurn /\ 1 \in DOMAIN queue[st] /\ h \in Live
                          /\ turns[h].stream = st /\ h <= made
    OBVIOUS
  <2>1. 1 \in DOMAIN queue[st] /\ h \in Turns /\ h # NoTurn
    <3>1. Len(queue[st]) \in Nat /\ Len(queue[st]) # 0
      BY <1>4
    <3>2. 1 \in DOMAIN queue[st]
      BY <1>4, <3>1
    <3>3. h \in Turns
      BY <1>4, <3>2
    <3> QED
      BY <3>2, <3>3 DEF Turns, NoTurn
  <2>2. h \in Live /\ turns[h].stream = st
    BY <2>1 DEF SInv, CountInv, PendingExact
  <2> QED
    BY <2>1, <2>2 DEF SInv, TurnsOK
<1>7. stopped \in BridgeStates /\ (queue[st] # <<>> => taken \in BridgeStates)
  BY <1>6 DEF BridgeStates, BridgePlaces
<1>8. /\ bridge' \in [Streams -> BridgeStates] /\ running' \in [Streams -> BOOLEAN]
      /\ \A s \in Streams \ {st} : bridge'[s] = bridge[s] /\ running'[s] = running[s]
      /\ \/ queue[st] = <<>> /\ ~running'[st] /\ bridge'[st] = stopped
         \/ queue[st] # <<>> /\ running'[st] /\ bridge'[st] = taken
  <2> HIDE DEF stopped, taken
  <2> QED
    BY <1>1, <1>2, <1>4, <1>5, <1>7
<1>9. Live' = Live
  BY <1>3, TurnsStay
<1>10. TypeOK'
  BY <1>1, <1>3, <1>8 DEF TypeOK
<1>11. CountInv'
  <2>1. \A a \in Accounts : /\ One(ReaderHolds(reader, a))' = One(ReaderHolds(reader, a))
                            /\ One(UpHolds(up, a))' = One(UpHolds(up, a))
    BY <1>3 DEF ReaderHolds, UpHolds, One
  <2>2. bodies \in Nat
    BY DEF SInv, TypeOK
  <2> QED
    BY <1>3, <2>1, <2>2, CountsStay DEF SInv
<1>12. PinInv' /\ CloseInv' /\ TurnsOK' /\ SentOK' /\ UpOK(up)'
  BY <1>3, <1>9 DEF SInv, PinInv, CloseInv, TurnsOK, SentOK, UpOK
<1>13. ReaderOK(reader)'
  BY <1>3, <1>9 DEF SInv, ReaderOK, SentTurns
<1>14. queue[st] # <<>> /\ ~bridge[st].initial => h \notin SentTurns
  <2>1. QueueOK(st)
    BY DEF SInv
  <2>2. reader.at \notin Opening
    BY <1>2 DEF SInv, ReaderOK
  <2> QED
    BY <1>2, <1>6, <2>1, <2>2 DEF QueueOK
<1>15. ASSUME NEW s \in Streams PROVE BridgeOK(s, bridge[s])' /\ QueueOK(s)'
  <2>1. CASE s # st
    BY <1>3, <1>8, <2>1 DEF SInv, BridgeOK, QueueOK, SentTurns
  <2>2. CASE s = st /\ queue[st] = <<>>
    <3>1. bridge'[st].at = "off" /\ bridge'[st].turn = NoTurn /\ ~running'[st]
      BY <1>8, <2>2
    <3>2. BridgeOK(st, bridge[st])'
      BY <3>1 DEF BridgeOK, NoTurn
    <3>3. QueueOK(st)'
      BY <1>3, <2>2 DEF QueueOK
    <3> QED
      BY <2>2, <3>2, <3>3
  <2>3. CASE s = st /\ queue[st] # <<>>
    <3>1. /\ bridge'[st].turn = h /\ running'[st]
          /\ bridge'[st].at = IF bridge[st].initial THEN "stream" ELSE "route"
      BY <1>8, <2>3
    <3>2. BridgeOK(st, bridge[st])'
      BY <1>2, <1>3, <1>6, <1>14, <2>3, <3>1 DEF BridgeOK, SentTurns
    <3>3. QueueOK(st)'
      <4>1. QueueOK(st) /\ reader.at \notin Opening
        BY <1>2 DEF SInv, ReaderOK
      <4>2. \A i \in DOMAIN queue[st] : queue[st][i] # NoTurn
        BY QueuedTurns DEF SInv
      <4>3. \A i \in DOMAIN queue[st] : queue[st][i] \in SentTurns => i = 1
        BY <1>2, <4>1, <4>2 DEF QueueOK
      <4> QED
        BY <1>3, <3>1, <4>3 DEF QueueOK, SentTurns
    <3> QED
      BY <2>3, <3>2, <3>3
  <2> QED
    BY <2>1, <2>2, <2>3
<1>16. \A s \in Streams : PipeOK(s)'
  BY <1>2, <1>3 DEF PipeOK, Attached, Moving
<1>17. NoStrandedTurn'
  <2> SUFFICES ASSUME ~pin.native, ~cancelled, NEW t \in Live
               PROVE  \/ bridge'[turns[t].stream].at # "off"
                      \/ t = made /\ reader.at \in {"dispatch", "attempt", "move", "transfer", "failed"}
    BY <1>3, <1>9 DEF NoStrandedTurn
  <2>1. t \in Turns /\ turns[t].stream \in Streams
    BY <1>1 DEF Live, TypeOK, TurnStates
  <2>2. CASE turns[t].stream # st
    BY <1>8, <2>1, <2>2 DEF SInv, NoStrandedTurn
  <2>3. CASE turns[t].stream = st
    <3>1. t \in {queue[st][i] : i \in DOMAIN queue[st]}
      BY <2>3 DEF SInv, CountInv, PendingExact
    <3>2. queue[st] # <<>>
      BY <3>1
    <3> QED
      BY <1>8, <2>3, <3>2
  <2> QED
    BY <2>2, <2>3
<1> QED
  BY <1>10, <1>11, <1>12, <1>13, <1>15, <1>16, <1>17 DEF SInv

-----------------------------------------------------------------------------
(* Turns that end.                                                         *)

\* Whoever finishes a turn, live or not, leaves the counters exact and the
\* queues in their order.
LEMMA FinishKeeps ==
    ASSUME SInv, NEW t \in Turns \cup {NoTurn}, finishTurn(t), UNCHANGED others,
           \A a \in Accounts : /\ One(ReaderHolds(reader, a))' = One(ReaderHolds(reader, a))
                               /\ One(UpHolds(up, a))' = One(UpHolds(up, a)),
           One(reader'.body) = One(reader.body)
    PROVE  /\ turns' \in [Turns -> TurnStates] /\ queue' \in [Streams -> Seq(Turns)]
           /\ pending' \in Nat /\ pending' <= pending /\ bodies' \in Nat /\ accountTurns' \in [Accounts -> Nat]
           /\ remembered' \subseteq Responses /\ binding' \in [Responses -> AnyAccount]
           /\ \A u \in Turns : /\ turns'[u].stream = turns[u].stream
                               /\ turns'[u].account = turns[u].account
                               /\ turns'[u].prev = turns[u].prev
                               /\ turns'[u].forwarded = turns[u].forwarded
           /\ Live' = Live \ {t}
           /\ CountInv'
           /\ \A s \in Streams : \A i \in DOMAIN queue'[s] :
                /\ queue'[s][i] # t
                /\ \E j \in DOMAIN queue[s] : queue'[s][i] = queue[s][j] /\ (j = 1 => i = 1)
<1>1. TypeOK /\ CountInv /\ TurnsOK
  BY DEF SInv
<1>2. CASE t \notin Live
  <2>1. UNCHANGED <<turns, queue, pending, bodies, accountTurns, remembered, binding>>
    BY <1>1, <1>2, FinishesNothing
  <2>2. Live' = Live /\ Live' = Live \ {t}
    BY <1>2, <2>1, TurnsStay
  <2>3. CountInv'
    <3>1. bodies \in Nat /\ bodies' \in Nat /\ bodies' - One(reader'.body) = bodies - One(reader.body)
      BY <1>1, <2>1 DEF TypeOK
    <3> QED
      BY <1>1, <2>1, <3>1, CountsStay
  <2>4. \A s \in Streams : \A i \in DOMAIN queue'[s] : queue'[s][i] # t
    BY <1>1, <1>2, <2>1, QueuedTurns
  <2>5. pending' <= pending
    BY <1>1, <2>1 DEF TypeOK
  <2> QED
    BY <1>1, <2>1, <2>2, <2>3, <2>4, <2>5 DEF TypeOK
<1>3. CASE t \in Live
  <2>1. /\ turns' \in [Turns -> TurnStates]
        /\ \A u \in Turns : /\ turns'[u].stream = turns[u].stream
                            /\ turns'[u].account = turns[u].account
                            /\ turns'[u].prev = turns[u].prev
                            /\ turns'[u].forwarded = turns[u].forwarded
        /\ Live' = Live \ {t}
    BY <1>1, <1>3, FinishesTurn
  <2>2. queue' \in [Streams -> Seq(Turns)]
    BY <1>1, <1>3, FinishesQueue
  <2>3. \A s \in Streams : \A i \in DOMAIN queue'[s] :
                /\ queue'[s][i] # t
                /\ \E j \in DOMAIN queue[s] : queue'[s][i] = queue[s][j] /\ (j = 1 => i = 1)
    BY <1>1, <1>3, FinishesOrder
  <2>4. /\ PendingExact'
        /\ pending' = pending - 1 /\ pending' \in Nat
        /\ bodies' = bodies - 1 /\ bodies' \in Nat
        /\ Cardinality(Live') = Cardinality(Live) - 1
        /\ accountTurns' = [accountTurns EXCEPT ![turns[t].account] = @ - 1]
        /\ accountTurns' \in [Accounts -> Nat]
        /\ turns[t].account \in Accounts
        /\ \A a \in Accounts : Cardinality(LiveOn(a)') =
             IF a = turns[t].account THEN Cardinality(LiveOn(a)) - 1 ELSE Cardinality(LiveOn(a))
    BY <1>1, <1>3, FinishesCounts
  <2>5. remembered' \subseteq Responses /\ binding' \in [Responses -> AnyAccount]
    BY <1>1, <1>3, FinishesStore
  <2>6. AccountTurnsExact'
    <3> SUFFICES ASSUME NEW a \in Accounts
                 PROVE  accountTurns'[a] = others[a] + HeldOn(a)' /\ accountTurns'[a] <= MaxTurnsPerAccount
      BY DEF AccountTurnsExact
    <3> DEFINE c == Cardinality(LiveOn(a))
               d == Cardinality(LiveOn(a)')
               x == One(ReaderHolds(reader, a))
               y == One(UpHolds(up, a))
               n == IF a = turns[t].account THEN 1 ELSE 0
    <3>1. /\ c \in Nat /\ x \in {0, 1} /\ y \in {0, 1} /\ others[a] \in Nat /\ accountTurns[a] \in Nat
      BY <1>1, HeldNumbers
    <3>2. HeldOn(a) = c + x + y
      BY HeldIs
    <3>3. HeldOn(a)' = d + x + y
      <4>1. HeldOn(a)' = d + One(ReaderHolds(reader, a))' + One(UpHolds(up, a))'
        BY DEF HeldOn, LiveOn, ReaderHolds, UpHolds
      <4> QED
        BY <4>1
    <3>4. d = c - n /\ accountTurns'[a] = accountTurns[a] - n
      BY <1>1, <2>4, <3>1 DEF TypeOK
    <3>5. accountTurns[a] = others[a] + (c + x + y) /\ accountTurns[a] <= MaxTurnsPerAccount
      BY <1>1, <3>2 DEF CountInv, AccountTurnsExact
    <3>6. n \in {0, 1}
      OBVIOUS
    <3> HIDE DEF c, d, x, y, n
    <3> QED
      BY <3>1, <3>3, <3>4, <3>5, <3>6, SessionAssumptions
  <2>7. BodiesReleased'
    <3> DEFINE c == Cardinality(Live)
               d == Cardinality(Live')
               x == One(reader.body)
    <3>1. c \in Nat /\ x \in {0, 1}
      BY TurnsAreFinite DEF Live, One
    <3>2. bodies = c + x /\ bodies' = bodies - 1 /\ d = c - 1
      BY <1>1, <2>4 DEF CountInv, BodiesReleased
    <3> HIDE DEF c, d, x
    <3>3. bodies' = d + x
      BY <3>1, <3>2
    <3> QED
      BY <3>3 DEF BodiesReleased, d, x, One
  <2>8. pending' <= pending
    <3>1. pending \in Nat /\ pending' = pending - 1
      BY <1>1, <2>4 DEF TypeOK
    <3> QED
      BY <3>1
  <2> QED
    BY <2>1, <2>2, <2>3, <2>4, <2>5, <2>6, <2>7, <2>8 DEF CountInv
<1> QED
  BY <1>2, <1>3

\* A worker is still well placed when its turn's stream has not changed.
LEMMA WorkerStays ==
    ASSUME TypeOK, NEW st \in Streams, BridgeOK(st, bridge[st]), bridge'[st] = bridge[st],
           running'[st] = running[st], pin'.native = pin.native, pin'.pinned = pin.pinned,
           reader'.first => reader.first, cancelled => cancelled', made' = made, sent' = sent,
           \A u \in Turns : turns'[u].stream = turns[u].stream
    PROVE  BridgeOK(st, bridge[st])'
<1> DEFINE b == bridge[st]
<1>1. b.turn \in Turns \cup {NoTurn}
  BY DEF TypeOK, BridgeStates
<1>2. b.turn # NoTurn => turns'[b.turn].stream = turns[b.turn].stream
  BY <1>1
<1>3. /\ b.at # "off" => running'[st]
      /\ running'[st] => ~pin'.native /\ pin'.pinned /\ ~reader'.first
      /\ running'[st] /\ ~cancelled' => b.at # "off"
      /\ b.at \in {"off", "loop"} <=> b.turn = NoTurn
  BY DEF BridgeOK
<1>4. /\ b.turn # NoTurn => turns'[b.turn].stream = st /\ b.turn <= made'
      /\ b.at = "route" => b.turn \notin SentTurns'
  BY <1>2 DEF BridgeOK, SentTurns
<1> HIDE DEF b
<1>5. bridge'[st] = b
  BY DEF b
<1> QED
  BY <1>3, <1>4, <1>5 DEF BridgeOK

\* What is sent is still served when turns only leave the queue.
LEMMA QueueShrinks ==
    ASSUME NEW st \in Streams, QueueOK(st), bridge'[st] = bridge[st],
           running'[st] = running[st], pin'.native = pin.native, closed => closed', made' = made,
           sent' = sent, reader.at \in Opening => reader'.at \in Opening,
           \A i \in DOMAIN queue'[st] :
             \E j \in DOMAIN queue[st] : queue'[st][i] = queue[st][j] /\ (j = 1 => i = 1)
    PROVE  QueueOK(st)'
<1> SUFFICES ASSUME ~pin.native, NEW i \in DOMAIN queue'[st], queue'[st][i] \in SentTurns
             PROVE  \/ i = 1 /\ bridge[st].at = "loop" /\ bridge[st].initial
                    \/ bridge[st].turn = queue'[st][i]
                    \/ reader'.at \in Opening /\ queue'[st][i] = made
                    \/ closed' /\ ~running[st]
  BY DEF QueueOK, SentTurns
<1>1. PICK j \in DOMAIN queue[st] : queue'[st][i] = queue[st][j] /\ (j = 1 => i = 1)
  OBVIOUS
<1>2. \/ j = 1 /\ bridge[st].at = "loop" /\ bridge[st].initial
      \/ bridge[st].turn = queue[st][j]
      \/ reader.at \in Opening /\ queue[st][j] = made
      \/ closed /\ ~running[st]
  BY <1>1 DEF QueueOK
<1> QED
  BY <1>1, <1>2

\* close finishes the turns it found, one after the other.
LEMMA CloseFinishesOne ==
    ASSUME SInv, NEW t \in Turns, CloseFinishes(t)
    PROVE  SInv'
<1>1. /\ closer.at = "run" /\ t \in closer.todo /\ closer' = [closer EXCEPT !.todo = @ \ {t}]
      /\ finishTurn(t)
      /\ UNCHANGED <<pin, closed, cancelled, made, named, running, reader, up, bridge, idle, others,
                     wire, sent>>
  BY DEF CloseFinishes
<1>2. TypeOK /\ closed /\ cancelled /\ closer \in [at : {"no", "run", "done"}, todo : SUBSET Turns]
  BY <1>1 DEF SInv, TypeOK, CloseInv
<1>3. \A a \in Accounts : /\ One(ReaderHolds(reader, a))' = One(ReaderHolds(reader, a))
                          /\ One(UpHolds(up, a))' = One(UpHolds(up, a))
  BY <1>1 DEF ReaderHolds, UpHolds, One
<1>4. /\ turns' \in [Turns -> TurnStates] /\ queue' \in [Streams -> Seq(Turns)]
      /\ pending' \in Nat /\ pending' <= pending /\ bodies' \in Nat /\ accountTurns' \in [Accounts -> Nat]
      /\ remembered' \subseteq Responses /\ binding' \in [Responses -> AnyAccount]
      /\ \A u \in Turns : /\ turns'[u].stream = turns[u].stream
                          /\ turns'[u].account = turns[u].account
                          /\ turns'[u].prev = turns[u].prev
                          /\ turns'[u].forwarded = turns[u].forwarded
      /\ Live' = Live \ {t}
      /\ CountInv'
      /\ \A s \in Streams : \A i \in DOMAIN queue'[s] :
           /\ queue'[s][i] # t
           /\ \E j \in DOMAIN queue[s] : queue'[s][i] = queue[s][j] /\ (j = 1 => i = 1)
  <2>1. One(reader'.body) = One(reader.body)
    BY <1>1
  <2> QED
    BY <1>1, <1>3, <2>1, FinishKeeps
<1>5. /\ closer' \in [at : {"no", "run", "done"}, todo : SUBSET Turns]
      /\ closer'.at = "run" /\ closer'.todo = closer.todo \ {t}
  BY <1>1, <1>2
<1>6. TypeOK'
  BY <1>1, <1>2, <1>4, <1>5 DEF TypeOK
<1>7. CloseInv'
  BY <1>1, <1>2, <1>4, <1>5 DEF SInv, CloseInv
<1>8. PinInv' /\ SentOK'
  BY <1>1, <1>4 DEF SInv, PinInv, SentOK
<1>9. TurnsOK'
  BY <1>1, <1>4 DEF SInv, TurnsOK, Live
<1>10. UpOK(up)'
  BY <1>1, <1>2, <1>4 DEF SInv, UpOK, TypeOK, UpStates
<1>11. ReaderOK(reader)'
  <2>1. made \in Turns \/ made = 0
    BY <1>2 DEF TypeOK, Turns
  <2>2. reader'.at = "append" => pending' < MaxTurnsPerConnection
    <3>1. pending \in Nat /\ pending' \in Nat /\ MaxTurnsPerConnection \in Nat /\ pending' <= pending
      BY <1>2, <1>4, SessionAssumptions DEF TypeOK
    <3>2. reader.at = "append" => pending < MaxTurnsPerConnection
      BY DEF SInv, ReaderOK
    <3> QED
      BY <1>1, <3>1, <3>2
  <2> QED
    BY <1>1, <1>4, <1>5, <2>1, <2>2 DEF SInv, ReaderOK, SentTurns, Own, Opening, CloseInv
<1>12. \A st \in Streams : BridgeOK(st, bridge[st])'
  BY <1>1, <1>2, <1>4, WorkerStays DEF SInv
<1>13. \A st \in Streams : QueueOK(st)'
  BY <1>1, <1>4, QueueShrinks DEF SInv
<1>14. \A st \in Streams : PipeOK(st)'
  BY <1>1, <1>2 DEF PipeOK
<1>15. NoStrandedTurn'
  BY <1>1, <1>2 DEF NoStrandedTurn
<1> QED
  BY <1>4, <1>6, <1>7, <1>8, <1>9, <1>10, <1>11, <1>12, <1>13, <1>14, <1>15 DEF SInv

\* A worker ends its turn and looks for the next one.
LEMMA BridgeFinishesOne ==
    ASSUME SInv, NEW st \in Streams, BridgeFinishes(st)
    PROVE  SInv'
<1> DEFINE t == bridge[st].turn
           next == [at |-> IF cancelled THEN "off" ELSE "loop", turn |-> NoTurn, initial |-> FALSE]
<1>1. /\ bridge[st].at = "finish" /\ finishTurn(t) /\ bridge' = [bridge EXCEPT ![st] = next]
      /\ UNCHANGED <<pin, closed, cancelled, made, named, running, reader, up,
                     closer, idle, others, wire, sent>>
  BY DEF BridgeFinishes
<1>2. TypeOK /\ bridge \in [Streams -> BridgeStates] /\ BridgeOK(st, bridge[st])
      /\ cancelled \in BOOLEAN
  BY DEF SInv, TypeOK
<1>3. /\ t \in Turns /\ turns[t].stream = st /\ running[st]
      /\ ~pin.native /\ pin.pinned /\ ~reader.first /\ up.at = "off"
  <2>1. running[st] /\ t # NoTurn
    BY <1>1, <1>2 DEF BridgeOK
  <2>2. ~pin.native /\ pin.pinned /\ ~reader.first /\ turns[t].stream = st
    BY <1>2, <2>1 DEF BridgeOK
  <2>3. t \in Turns
    BY <1>2, <2>1 DEF BridgeStates
  <2> QED
    BY <2>1, <2>2, <2>3 DEF SInv, UpOK
<1>4. /\ bridge' \in [Streams -> BridgeStates] /\ bridge'[st] = next
      /\ \A s \in Streams \ {st} : bridge'[s] = bridge[s]
  <2>1. next \in BridgeStates
    BY DEF BridgeStates, BridgePlaces
  <2> HIDE DEF next
  <2> QED
    BY <1>1, <1>2, <2>1
<1>5. \A a \in Accounts : /\ One(ReaderHolds(reader, a))' = One(ReaderHolds(reader, a))
                          /\ One(UpHolds(up, a))' = One(UpHolds(up, a))
  BY <1>1 DEF ReaderHolds, UpHolds, One
<1>6. /\ turns' \in [Turns -> TurnStates] /\ queue' \in [Streams -> Seq(Turns)]
      /\ pending' \in Nat /\ pending' <= pending /\ bodies' \in Nat /\ accountTurns' \in [Accounts -> Nat]
      /\ remembered' \subseteq Responses /\ binding' \in [Responses -> AnyAccount]
      /\ \A u \in Turns : /\ turns'[u].stream = turns[u].stream
                          /\ turns'[u].account = turns[u].account
                          /\ turns'[u].prev = turns[u].prev
                          /\ turns'[u].forwarded = turns[u].forwarded
      /\ Live' = Live \ {t}
      /\ CountInv'
      /\ \A s \in Streams : \A i \in DOMAIN queue'[s] :
           /\ queue'[s][i] # t
           /\ \E j \in DOMAIN queue[s] : queue'[s][i] = queue[s][j] /\ (j = 1 => i = 1)
  <2>1. One(reader'.body) = One(reader.body)
    BY <1>1
  <2> HIDE DEF t
  <2> QED
    BY <1>1, <1>3, <1>5, <2>1, FinishKeeps
<1>7. TypeOK'
  BY <1>1, <1>2, <1>4, <1>6 DEF TypeOK
<1>8. CloseInv' /\ PinInv' /\ SentOK'
  BY <1>1, <1>6 DEF SInv, CloseInv, PinInv, SentOK
<1>9. TurnsOK'
  BY <1>1, <1>6 DEF SInv, TurnsOK, Live
<1>10. UpOK(up)'
  BY <1>1, <1>3, <1>6 DEF SInv, UpOK, Moving, Attached
<1>11. ReaderOK(reader)'
  <2>1. made \in Turns \/ made = 0
    BY <1>2 DEF TypeOK, Turns
  <2>2. reader'.at = "append" => pending' < MaxTurnsPerConnection
    <3>1. pending \in Nat /\ pending' \in Nat /\ MaxTurnsPerConnection \in Nat /\ pending' <= pending
      BY <1>2, <1>6, SessionAssumptions DEF TypeOK
    <3>2. reader.at = "append" => pending < MaxTurnsPerConnection
      BY DEF SInv, ReaderOK
    <3> QED
      BY <1>1, <3>1, <3>2
  <2> QED
    BY <1>1, <1>6, <2>1, <2>2 DEF SInv, ReaderOK, SentTurns, Own, Opening
<1>12. \A s \in Streams : BridgeOK(s, bridge[s])'
  <2> TAKE s \in Streams
  <2>1. BridgeOK(s, bridge[s]) /\ bridge[s].turn \in Turns \cup {NoTurn}
    BY <1>2 DEF SInv, BridgeStates
  <2>2. CASE s # st
    BY <1>1, <1>2, <1>4, <1>6, <2>1, <2>2, WorkerStays
  <2>3. CASE s = st
    <3>1. bridge'[st].turn = NoTurn /\ bridge'[st].at \in {"off", "loop"}
          /\ (~cancelled => bridge'[st].at = "loop")
      BY <1>2, <1>4
    <3> QED
      BY <1>1, <1>3, <2>3, <3>1 DEF BridgeOK
  <2> QED
    BY <2>2, <2>3
<1>13. \A s \in Streams : QueueOK(s)'
  <2> TAKE s \in Streams
  <2>1. QueueOK(s)
    BY DEF SInv
  <2>2. CASE s # st
    BY <1>1, <1>4, <1>6, <2>1, <2>2, QueueShrinks
  <2>3. CASE s = st
    <3>1. \A i \in DOMAIN queue[st] : queue[st][i] \in SentTurns => queue[st][i] = t
      BY <1>1, <1>3, <2>1, <2>3 DEF QueueOK, SInv, ReaderOK
    <3>2. \A i \in DOMAIN queue'[st] : queue'[st][i] \notin SentTurns
      <4>1. \A i \in DOMAIN queue'[st] :
              /\ queue'[st][i] # t
              /\ \E j \in DOMAIN queue[st] : queue'[st][i] = queue[st][j]
        BY <1>6
      <4> HIDE DEF t, next
      <4> QED
        BY <3>1, <4>1
    <3> QED
      BY <1>1, <2>3, <3>2 DEF QueueOK, SentTurns
  <2> QED
    BY <2>2, <2>3
<1>14. \A s \in Streams : PipeOK(s)'
  BY <1>1, <1>3 DEF PipeOK, Attached, Moving
<1>15. NoStrandedTurn'
  <2> SUFFICES ASSUME ~pin.native, ~cancelled, NEW u \in Live, u # t
               PROVE  \/ bridge'[turns[u].stream].at # "off"
                      \/ u = made /\ reader.at \in {"dispatch", "attempt", "move", "transfer", "failed"}
    BY <1>1, <1>6 DEF NoStrandedTurn, Live
  <2>1. turns[u].stream \in Streams
    BY <1>2 DEF Live, TypeOK, TurnStates
  <2>2. CASE turns[u].stream = st
    BY <1>4, <2>2
  <2>3. CASE turns[u].stream # st
    BY <1>4, <2>1, <2>3 DEF SInv, NoStrandedTurn
  <2> QED
    BY <2>2, <2>3
<1> QED
  BY <1>6, <1>7, <1>8, <1>9, <1>10, <1>11, <1>12, <1>13, <1>14, <1>15 DEF SInv

\* No account answered the first turn of a bridged session: it is finished, and
\* a session left without turns may be unpinned.
LEMMA ReaderGivesUp ==
    ASSUME SInv, InitialBridgeFails
    PROVE  SInv'
<1>1. /\ reader.at = "failed" /\ finishTurn(made) /\ reader' = IdleReader
      /\ pin' = (IF reader.reset /\ ~closed /\ pending' = 0
                   THEN [pin EXCEPT !.pinned = FALSE, !.account = NoAccount] ELSE pin)
      /\ UNCHANGED <<closed, cancelled, made, named, running, workerVars, others, wire, sent>>
  BY DEF InitialBridgeFails
<1> USE DEF workerVars
<1>2. TypeOK /\ ReaderOK(reader) /\ pin \in PinStates
  BY DEF SInv, TypeOK
<1>3. /\ reader.first /\ ~reader.body /\ ~pin.native /\ Live \subseteq {made} /\ up.at = "off"
      /\ made \in Turns \cup {NoTurn}
  <2>1. reader.first /\ ~reader.body
    BY <1>1, <1>2 DEF ReaderOK, Opening, Early
  <2>2. ~pin.native /\ Live \subseteq {made}
    BY <1>1, <1>2, <2>1 DEF ReaderOK, Own, Opening
  <2>3. made \in Turns \cup {NoTurn}
    BY <1>2 DEF TypeOK, Turns, NoTurn
  <2> QED
    BY <2>1, <2>2, <2>3 DEF SInv, UpOK
<1>4. Refused(reader') /\ reader'.at = "read"
  BY <1>1, IdleReaderIs DEF IdleReader
<1>5. \A a \in Accounts : /\ One(ReaderHolds(reader, a))' = One(ReaderHolds(reader, a))
                          /\ One(UpHolds(up, a))' = One(UpHolds(up, a))
  BY <1>1, <1>4 DEF ReaderHolds, UpHolds, One
<1>6. One(reader'.body) = One(reader.body)
  BY <1>3, <1>4 DEF Refused, One
<1>7. /\ turns' \in [Turns -> TurnStates] /\ queue' \in [Streams -> Seq(Turns)]
      /\ pending' \in Nat /\ bodies' \in Nat /\ accountTurns' \in [Accounts -> Nat]
      /\ remembered' \subseteq Responses /\ binding' \in [Responses -> AnyAccount]
      /\ \A u \in Turns : turns'[u].stream = turns[u].stream
      /\ Live' = Live \ {made} /\ CountInv'
  BY <1>1, <1>3, <1>5, <1>6, FinishKeeps
<1>8. Live' = {}
  BY <1>3, <1>7
<1>9. pin' \in PinStates /\ ~pin'.native /\ (pin'.pinned => pin'.account = pin.account /\ pin.pinned)
  BY <1>1, <1>2, <1>3 DEF PinStates, AnyAccount
<1>10. TypeOK'
  BY <1>1, <1>2, <1>4, <1>7, <1>9 DEF TypeOK, Refused
<1>11. \A st \in Streams : ~running[st]
  BY <1>3 DEF SInv, BridgeOK
<1>12. PinInv' /\ CloseInv' /\ TurnsOK' /\ SentOK' /\ NoStrandedTurn'
  BY <1>1, <1>3, <1>4, <1>8, <1>9 DEF SInv, PinInv, CloseInv, TurnsOK, SentOK, NoStrandedTurn
<1>13. ReaderOK(reader)'
  BY <1>4 DEF Refused, ReaderOK, Early, Own, Opening
<1>14. UpOK(up)'
  BY <1>1, <1>3 DEF SInv, UpOK, Moving, Attached
<1>15. \A st \in Streams : BridgeOK(st, bridge[st])'
  <2> TAKE st \in Streams
  <2>1. bridge[st].at = "off" /\ bridge[st].turn = NoTurn /\ ~running'[st]
    BY <1>1, <1>11 DEF SInv, BridgeOK
  <2> QED
    BY <1>1, <2>1 DEF BridgeOK
<1>16. \A st \in Streams : QueueOK(st)'
  <2> TAKE st \in Streams
  <2>1. {queue'[st][i] : i \in DOMAIN queue'[st]} = {}
    BY <1>7, <1>8 DEF CountInv, PendingExact
  <2> QED
    BY <2>1 DEF QueueOK
<1>17. \A st \in Streams : PipeOK(st)'
  BY <1>1, <1>3 DEF PipeOK, Attached, Moving
<1> QED
  BY <1>7, <1>10, <1>12, <1>13, <1>14, <1>15, <1>16, <1>17 DEF SInv

\* A native session finishes a turn: the client reader whose write failed, or
\* the upstream reader at a terminal event.
NativeFinish(t) ==
    /\ finishTurn(t)
    /\ UNCHANGED <<pin, closed, cancelled, made, named, running, bridge, closer, idle, others, wire, sent>>

\* The step keeps the invariant, whoever makes it.
LEMMA NativeFinishes ==
    ASSUME SInv, pin.native, NEW t \in Turns \cup {NoTurn}, NativeFinish(t),
           \A a \in Accounts : /\ One(ReaderHolds(reader, a))' = One(ReaderHolds(reader, a))
                               /\ One(UpHolds(up, a))' = One(UpHolds(up, a)),
           One(reader'.body) = One(reader.body), reader' \in ReaderStates, up' \in UpStates,
           reader.at # "worker", reader'.at # "worker", reader'.first => reader.first,
           /\ Live' = Live \ {t} /\ pending' <= pending
           /\ \A u \in Turns : /\ turns'[u].stream = turns[u].stream
                               /\ turns'[u].prev = turns[u].prev
                               /\ turns'[u].forwarded = turns[u].forwarded
           => ReaderOK(reader)' /\ UpOK(up)' /\ \A s \in Streams : PipeOK(s)'
    PROVE  SInv'
<1> USE DEF NativeFinish
<1>1. /\ turns' \in [Turns -> TurnStates] /\ queue' \in [Streams -> Seq(Turns)]
      /\ pending' \in Nat /\ pending' <= pending /\ bodies' \in Nat /\ accountTurns' \in [Accounts -> Nat]
      /\ remembered' \subseteq Responses /\ binding' \in [Responses -> AnyAccount]
      /\ \A u \in Turns : /\ turns'[u].stream = turns[u].stream
                          /\ turns'[u].account = turns[u].account
                          /\ turns'[u].prev = turns[u].prev
                          /\ turns'[u].forwarded = turns[u].forwarded
      /\ Live' = Live \ {t} /\ CountInv'
  BY FinishKeeps
<1>2. TypeOK /\ TypeOK'
  BY <1>1 DEF SInv, TypeOK
<1>3. PinInv' /\ CloseInv' /\ SentOK'
  BY <1>1 DEF SInv, PinInv, CloseInv, SentOK
<1>4. TurnsOK'
  BY <1>1 DEF SInv, TurnsOK, Live
<1>5. \A st \in Streams : BridgeOK(st, bridge[st])'
  BY <1>1, <1>2, WorkerStays DEF SInv
<1>6. (\A st \in Streams : QueueOK(st)') /\ NoStrandedTurn'
  BY DEF QueueOK, NoStrandedTurn
<1>7. ReaderOK(reader)' /\ UpOK(up)' /\ \A s \in Streams : PipeOK(s)'
  BY <1>1
<1> QED
  BY <1>1, <1>2, <1>3, <1>4, <1>5, <1>6, <1>7 DEF SInv

\* The turn at place k of its queue leaves that place.
LEMMA FinishesAt ==
    ASSUME TypeOK, CountInv, TurnsOK, NEW st \in Streams, NEW k \in DOMAIN queue[st],
           NEW t \in Live, queue[st][k] = t, finishTurn(t)
    PROVE  /\ queue'[st] \in Seq(Turns) /\ Len(queue'[st]) = Len(queue[st]) - 1
           /\ \A i \in 1..(Len(queue[st]) - 1) :
                 queue'[st][i] = IF i < k THEN queue[st][i] ELSE queue[st][i + 1]
<1>1. turns[t].stream = st
  BY QueuedTurns
<1>2. /\ queue' \in [Streams -> Seq(Turns)]
      /\ \E n \in DOMAIN queue[turns[t].stream] :
           /\ queue[turns[t].stream][n] = t
           /\ Len(queue'[turns[t].stream]) = Len(queue[turns[t].stream]) - 1
           /\ \A i \in 1..(Len(queue[turns[t].stream]) - 1) :
                queue'[turns[t].stream][i] = IF i < n THEN queue[turns[t].stream][i]
                                                      ELSE queue[turns[t].stream][i + 1]
  BY FinishesQueue
<1>3. PICK n \in DOMAIN queue[turns[t].stream] :
           /\ queue[turns[t].stream][n] = t
           /\ Len(queue'[turns[t].stream]) = Len(queue[turns[t].stream]) - 1
           /\ \A i \in 1..(Len(queue[turns[t].stream]) - 1) :
                queue'[turns[t].stream][i] = IF i < n THEN queue[turns[t].stream][i]
                                                      ELSE queue[turns[t].stream][i + 1]
  BY <1>2
<1>4. /\ n \in DOMAIN queue[st] /\ queue[st][n] = t /\ Len(queue'[st]) = Len(queue[st]) - 1
      /\ \A i \in 1..(Len(queue[st]) - 1) :
           queue'[st][i] = IF i < n THEN queue[st][i] ELSE queue[st][i + 1]
  BY <1>1, <1>3
<1>5. n = k
  BY <1>4 DEF CountInv, PendingExact
<1> QED
  BY <1>2, <1>4, <1>5

\* A write to the upstream fails: the turn is finished, the session closed next.
LEMMA ReaderLosesUpstream ==
    ASSUME SInv, WriteUpstreamFails
    PROVE  SInv'
<1>1. /\ reader.at = "dispatch" /\ pin.native /\ finishTurn(made)
      /\ reader' = [IdleReader EXCEPT !.at = "closing"] /\ up' = up
      /\ UNCHANGED <<pin, closed, cancelled, made, named, running, workerVars, others, wire, sent>>
  BY DEF WriteUpstreamFails, workerVars
<1>2. NativeFinish(made)
  BY <1>1 DEF NativeFinish, workerVars
<1>3. TypeOK /\ CountInv /\ TurnsOK /\ ReaderOK(reader) /\ UpOK(up) /\ up \in UpStates
  BY DEF SInv, TypeOK
<1>4. Refused(reader') /\ reader'.at = "closing"
  <2>1. [IdleReader EXCEPT !.at = "closing"].at = "closing"
    BY DEF IdleReader
  <2> QED
    BY <1>1, <2>1, IdleReaderIs
<1>5. /\ made \in Turns /\ turns[made].stream = reader.stream /\ ~reader.body
      /\ made \in 0..MaxTurns
  BY <1>1, <1>3 DEF ReaderOK, Own, Early, TypeOK, Turns
<1>6. \A a \in Accounts : /\ One(ReaderHolds(reader, a))' = One(ReaderHolds(reader, a))
                          /\ One(UpHolds(up, a))' = One(UpHolds(up, a))
  BY <1>1, <1>4 DEF ReaderHolds, UpHolds, One
<1>7. One(reader'.body) = One(reader.body)
  BY <1>4, <1>5 DEF Refused, One
<1>8. ReaderOK(reader)'
  BY <1>4 DEF Refused, ReaderOK, Early, Own, Opening
<1> DEFINE Same == /\ Live' = Live \ {made} /\ pending' <= pending
                   /\ \A u \in Turns : /\ turns'[u].stream = turns[u].stream
                                       /\ turns'[u].prev = turns[u].prev
                                       /\ turns'[u].forwarded = turns[u].forwarded
<1>9. Same => UpOK(up)'
  BY <1>1, <1>3 DEF UpOK, UpStates, Attached, Moving, NoTurn
<1>10. ASSUME Same, NEW s \in Streams PROVE PipeOK(s)'
  <2> SUFFICES ASSUME up.at \in Attached, ~closed PROVE PipeOK(s)'
    BY <1>1 DEF PipeOK
  <2>1. Answered(s)' <=> Answered(s)
    BY <1>1, <1>3, <1>10 DEF Answered, UpStates, NoTurn
  <2>2. One(Answered(s))' = One(Answered(s)) /\ One(Unwritten(s))' = 0 /\ ~Unwritten(s)'
        /\ One(Answered(s)) \in {0, 1}
    BY <1>4, <2>1 DEF Unwritten, One
  <2>3. /\ Len(queue[s]) = One(Answered(s)) + Len(wire[s]) + One(Unwritten(s))
        /\ \A i \in 1..Len(wire[s]) : wire[s][i] = queue[s][i + One(Answered(s))]
        /\ Answered(s) => queue[s][1] = up.turn
        /\ Unwritten(s) => queue[s][Len(queue[s])] = made
    BY DEF SInv, PipeOK
  <2>4. wire[s] \in Seq(Turns) /\ queue[s] \in Seq(Turns) /\ queue'[s] \in Seq(Turns)
    <3>1. \A a \in Accounts : /\ One(ReaderHolds(reader, a))' = One(ReaderHolds(reader, a))
                              /\ One(UpHolds(up, a))' = One(UpHolds(up, a))
      BY <1>6
    <3>2. queue' \in [Streams -> Seq(Turns)]
      BY <1>1, <1>5, <1>6, <1>7, FinishKeeps
    <3> QED
      BY <1>3, <3>2 DEF TypeOK
  <2>5. CASE s # reader.stream
    <3>1. queue'[s] = queue[s]
      <4>1. CASE made \in Live
        BY <1>1, <1>3, <1>5, <2>5, <4>1, FinishesQueue
      <4>2. CASE made \notin Live
        BY <1>1, <1>3, <1>5, <4>2, FinishesNothing
      <4> QED
        BY <4>1, <4>2
    <3>2. One(Unwritten(s)) = 0
      BY <2>5 DEF Unwritten, One
    <3> QED
      BY <1>1, <2>1, <2>2, <2>3, <3>1, <3>2 DEF PipeOK
  <2>6. CASE s = reader.stream
    <3> DEFINE q == queue[s]
               w == wire[s]
               after == queue'[s]
               x == One(Answered(s))
    <3>1. Unwritten(s) /\ One(Unwritten(s)) = 1
      BY <1>1, <2>6 DEF Unwritten, One
    <3>2. /\ Len(q) = x + Len(w) + 1 /\ q[Len(q)] = made
          /\ \A i \in 1..Len(w) : w[i] = q[i + x]
          /\ Answered(s) => q[1] = up.turn
      BY <2>3, <3>1
    <3>3. q \in Seq(Turns) /\ w \in Seq(Turns) /\ after \in Seq(Turns) /\ x \in {0, 1}
          /\ Len(q) \in Nat /\ Len(w) \in Nat
      BY <2>2, <2>4
    <3>4. Len(q) \in DOMAIN q
      BY <3>2, <3>3
    <3>5. made \in Live
      BY <1>3, <3>2, <3>4, QueuedTurns
    <3>6. /\ Len(after) = Len(q) - 1
          /\ \A i \in 1..(Len(q) - 1) : after[i] = IF i < Len(q) THEN q[i] ELSE q[i + 1]
      BY <1>1, <1>3, <3>2, <3>4, <3>5, FinishesAt
    <3> HIDE DEF q, w, after, x
    <3>7. Len(after) = x + Len(w)
      BY <3>2, <3>3, <3>6
    <3>8. ASSUME NEW i \in 1..Len(w) PROVE w[i] = after[i + x]
      <4>1. i + x \in 1..(Len(q) - 1) /\ i + x < Len(q)
        BY <3>2, <3>3
      <4> QED
        BY <3>2, <3>6, <4>1
    <3>9. Answered(s) => after[1] = up.turn
      <4>1. Answered(s) => x = 1
        BY DEF x, One
      <4> QED
        BY <3>2, <3>3, <3>6, <4>1
    <3> QED
      BY <1>1, <2>1, <2>2, <3>7, <3>8, <3>9 DEF PipeOK, q, w, after, x
  <2> QED
    BY <2>5, <2>6
<1> QED
  <2>1. reader' \in ReaderStates /\ (reader'.first => reader.first) /\ made \in Turns \cup {NoTurn}
    BY <1>4, <1>5 DEF Refused
  <2>2. Same => ReaderOK(reader)' /\ UpOK(up)' /\ \A s \in Streams : PipeOK(s)'
    BY <1>8, <1>9, <1>10
  <2> QED
    BY <1>1, <1>2, <1>3, <1>4, <1>6, <1>7, <2>1, <2>2, NativeFinishes

-----------------------------------------------------------------------------
(* The upstream reader.                                                    *)

\* The upstream readers that the actions make of an upstream reader u.
UpAt(u, p) == [u EXCEPT !.at = p]
UpNext(u, p, a, S) == [u EXCEPT !.at = p, !.account = a, !.attempted = S]
UpTries(u, a, S) == [u EXCEPT !.account = a, !.attempted = S]
UpSees(p, t, of, e) == [IdleUp EXCEPT !.at = p, !.turn = t, !.of = of, !.event = e]

SameEvent(g, u) == g \in UpStates /\ g.turn = u.turn /\ g.of = u.of /\ g.event = u.event

\* An upstream reader at another place.
LEMMA UpAtIs ==
    ASSUME NEW u \in UpStates, NEW p \in UpPlaces
    PROVE  SameEvent(UpAt(u, p), u) /\ UpAt(u, p).at = p /\ UpAt(u, p).account = u.account
  BY DEF UpStates, SameEvent, UpAt

\* An upstream reader that goes on with an account.
LEMMA UpNextIs ==
    ASSUME NEW u \in UpStates, NEW p \in UpPlaces, NEW a \in Accounts, NEW S \in SUBSET Accounts
    PROVE  SameEvent(UpNext(u, p, a, S), u) /\ UpNext(u, p, a, S).at = p /\ UpNext(u, p, a, S).account = a
  BY DEF UpStates, SameEvent, UpNext, AnyAccount

\* An upstream reader that tries another account.
LEMMA UpTriesIs ==
    ASSUME NEW u \in UpStates, NEW a \in Accounts, NEW S \in SUBSET Accounts
    PROVE  SameEvent(UpTries(u, a, S), u) /\ UpTries(u, a, S).at = u.at /\ UpTries(u, a, S).account = a
  BY DEF UpStates, SameEvent, UpTries, AnyAccount

\* An upstream reader that has received an event.
LEMMA UpSeesIs ==
    ASSUME NEW p \in UpPlaces, NEW t \in Turns \cup {NoTurn}, NEW of \in Turns,
           NEW e \in {"delta", "completed", "failed", "limit"}
    PROVE  /\ UpSees(p, t, of, e) \in UpStates /\ UpSees(p, t, of, e).at = p
           /\ UpSees(p, t, of, e).turn = t /\ UpSees(p, t, of, e).of = of
           /\ UpSees(p, t, of, e).event = e
  BY DEF UpStates, UpSees, IdleUp, AnyAccount

\* An upstream reader that has not been started, or has ended.
LEMMA IdleUpIs == IdleUp \in UpStates /\ IdleUp.at = "off" /\ IdleUp.turn = NoTurn
  BY DEF IdleUp, UpStates, UpPlaces, AnyAccount

\* The upstream reader has a connection: the session is native, and its reader
\* is neither about to start it nor done.
LEMMA UpRuns ==
    ASSUME SInv, up.at # "off"
    PROVE  /\ pin.native /\ pin.pinned /\ pin.upstream \in Accounts /\ pin.account \in Accounts
           /\ reader.at \notin {"worker", "done"}
           /\ \A st \in Streams : ~running[st] /\ bridge[st].at = "off" /\ bridge[st].turn = NoTurn
  BY DEF SInv, UpOK, PinInv, ReaderOK, BridgeOK

\* A step of the upstream reader that leaves turns, queues and connection alone.
LEMMA UpMoves ==
    ASSUME SInv, up.at # "off",
           UNCHANGED <<closed, cancelled, turnVars, nativeVars, bodies, storeVars>>,
           up' \in UpStates, pin' \in PinStates,
           pin'.pinned = pin.pinned, pin'.native = pin.native, pin'.account = pin.account,
           pin'.upstream = pin.upstream,
           accountTurns' \in [Accounts -> Nat], AccountTurnsExact', UpOK(up)',
           up'.at \in Attached /\ ~closed =>
              /\ up.at \in Attached
              /\ \A st \in Streams : /\ Answered(st)' <=> Answered(st)
                                     /\ Answered(st) => up'.turn = up.turn
    PROVE  SInv'
<1> USE DEF turnVars, nativeVars, storeVars
<1>1. Live' = Live
  BY TurnsStay
<1>2. TypeOK'
  BY DEF SInv, TypeOK
<1>3. CountInv'
  BY <1>1 DEF SInv, CountInv, PendingExact, BodiesReleased, One
<1>4. PinInv' /\ CloseInv' /\ TurnsOK' /\ SentOK'
  BY <1>1 DEF SInv, PinInv, CloseInv, TurnsOK, SentOK
<1>5. ReaderOK(reader)'
  <2>1. reader.at \notin {"worker", "done"}
    BY UpRuns
  <2> QED
    BY <1>1, <2>1 DEF SInv, ReaderOK, SentTurns
<1>6. \A st \in Streams : BridgeOK(st, bridge[st])'
  BY DEF SInv, BridgeOK, SentTurns
<1>7. \A st \in Streams : QueueOK(st)'
  BY DEF SInv, QueueOK, SentTurns
<1>8. \A st \in Streams : PipeOK(st)'
  <2>1. \A st \in Streams : Unwritten(st)' <=> Unwritten(st)
    BY DEF Unwritten
  <2>2. up'.at \in Attached /\ ~closed' => up.at \in Attached /\ ~closed
    OBVIOUS
  <2>3. \A st \in Streams :
           /\ Unwritten(st)' <=> Unwritten(st)
           /\ up'.at \in Attached /\ ~closed' =>
                /\ Answered(st)' <=> Answered(st)
                /\ Answered(st) => up'.turn = up.turn
    BY <2>1
  <2>4. UNCHANGED <<queue, wire, made>> /\ \A st \in Streams : PipeOK(st)
    BY DEF SInv
  <2> HIDE DEF turnVars, nativeVars, storeVars
  <2> QED
    BY <2>2, <2>3, <2>4, PipesStay
<1>9. NoStrandedTurn'
  BY <1>1 DEF SInv, NoStrandedTurn
<1> QED
  BY <1>2, <1>3, <1>4, <1>5, <1>6, <1>7, <1>8, <1>9 DEF SInv

\* The numbers of an account stay in balance.
LEMMA InBalance ==
    ASSUME TypeOK, CountInv, accountTurns' \in [Accounts -> Nat], others' = others,
           \A a \in Accounts : /\ HeldOn(a)' \in Nat
                               /\ accountTurns'[a] + HeldOn(a) = accountTurns[a] + HeldOn(a)'
                               /\ accountTurns'[a] <= MaxTurnsPerAccount
    PROVE  AccountTurnsExact'
<1> SUFFICES ASSUME NEW a \in Accounts
             PROVE  accountTurns'[a] = others'[a] + HeldOn(a)' /\ accountTurns'[a] <= MaxTurnsPerAccount
  BY DEF AccountTurnsExact
<1> DEFINE h == HeldOn(a)
           g == HeldOn(a)'
<1>1. /\ h \in Nat /\ g \in Nat /\ others[a] \in Nat /\ accountTurns[a] \in Nat /\ accountTurns'[a] \in Nat
      /\ accountTurns'[a] + h = accountTurns[a] + g /\ accountTurns'[a] <= MaxTurnsPerAccount
  BY HeldNumbers
<1>2. accountTurns[a] = others[a] + h
  BY DEF CountInv, AccountTurnsExact
<1> HIDE DEF h, g
<1>3. accountTurns'[a] = others[a] + g
  BY <1>1, <1>2
<1> QED
  BY <1>1, <1>3 DEF g

\* A turn is reserved on account b, and held.
LEMMA Reserves ==
    ASSUME TypeOK, CountInv, NEW b \in Accounts, HasTurnCapacity(b),
           accountTurns' = Reserved(accountTurns, b), UNCHANGED <<turns, others>>,
           \A a \in Accounts : One(ReaderHolds(reader, a))' + One(UpHolds(up, a))'
                                 = One(ReaderHolds(reader, a)) + One(UpHolds(up, a)) + One(a = b)
    PROVE  accountTurns' \in [Accounts -> Nat] /\ AccountTurnsExact'
<1>1. /\ accountTurns' \in [Accounts -> Nat] /\ accountTurns'[b] = accountTurns[b] + 1
      /\ \A a \in Accounts \ {b} : accountTurns'[a] = accountTurns[a]
      /\ accountTurns[b] < MaxTurnsPerAccount
  <2>1. accountTurns \in [Accounts -> Nat] /\ accountTurns[b] < MaxTurnsPerAccount
    BY DEF TypeOK, HasTurnCapacity
  <2> QED
    BY <2>1, ReservedIs
<1>2. ASSUME NEW a \in Accounts
      PROVE  /\ HeldOn(a)' \in Nat
             /\ accountTurns'[a] + HeldOn(a) = accountTurns[a] + HeldOn(a)'
             /\ accountTurns'[a] <= MaxTurnsPerAccount
  <2> DEFINE c == Cardinality(LiveOn(a))
             x == One(ReaderHolds(reader, a))
             y == One(UpHolds(up, a))
             x1 == One(ReaderHolds(reader, a))'
             y1 == One(UpHolds(up, a))'
             n == One(a = b)
  <2>1. /\ c \in Nat /\ x \in {0, 1} /\ y \in {0, 1} /\ accountTurns[a] \in Nat /\ accountTurns'[a] \in Nat
        /\ HeldOn(a) = c + x + y
    BY <1>1, HeldNumbers, HeldIs
  <2>2. HeldOn(a)' = c + x1 + y1
    <3>1. LiveOn(a)' = LiveOn(a)
      BY TurnsStay
    <3>2. HeldOn(a)' = Cardinality(LiveOn(a)') + x1 + y1
      BY DEF HeldOn, LiveOn, ReaderHolds, UpHolds
    <3> QED
      BY <3>1, <3>2
  <2>3. x1 \in {0, 1} /\ y1 \in {0, 1} /\ x1 + y1 = x + y + n
    BY DEF One
  <2>4. accountTurns'[a] = accountTurns[a] + n /\ n \in {0, 1}
    BY <1>1, <2>1 DEF One
  <2>5. accountTurns'[a] <= MaxTurnsPerAccount
    BY <1>1, <2>1, SessionAssumptions DEF CountInv, AccountTurnsExact
  <2> HIDE DEF c, x, y, x1, y1, n
  <2>6. c + x1 + y1 = c + x + y + n
    BY <2>1, <2>3, <2>4
  <2> QED
    BY <2>1, <2>2, <2>3, <2>4, <2>5, <2>6
<1> QED
  BY <1>1, <1>2, InBalance

\* A turn held on account b is given back.
LEMMA Releases ==
    ASSUME TypeOK, CountInv, NEW b \in Accounts,
           accountTurns' = Released(accountTurns, b), UNCHANGED <<turns, others>>,
           \A a \in Accounts : One(ReaderHolds(reader, a))' + One(UpHolds(up, a))' + One(a = b)
                                 = One(ReaderHolds(reader, a)) + One(UpHolds(up, a))
    PROVE  accountTurns' \in [Accounts -> Nat] /\ AccountTurnsExact'
<1>1. ASSUME NEW a \in Accounts
      PROVE  /\ HeldOn(a)' \in Nat /\ HeldOn(a) = HeldOn(a)' + One(a = b)
             /\ accountTurns[a] >= One(a = b) /\ accountTurns[a] <= MaxTurnsPerAccount
  <2> DEFINE c == Cardinality(LiveOn(a))
             x == One(ReaderHolds(reader, a))
             y == One(UpHolds(up, a))
             x1 == One(ReaderHolds(reader, a))'
             y1 == One(UpHolds(up, a))'
             n == One(a = b)
  <2>1. /\ c \in Nat /\ x \in {0, 1} /\ y \in {0, 1} /\ accountTurns[a] \in Nat /\ others[a] \in Nat
        /\ HeldOn(a) = c + x + y
    BY HeldNumbers, HeldIs
  <2>2. HeldOn(a)' = c + x1 + y1
    <3>1. LiveOn(a)' = LiveOn(a)
      BY TurnsStay
    <3>2. HeldOn(a)' = Cardinality(LiveOn(a)') + x1 + y1
      BY DEF HeldOn, LiveOn, ReaderHolds, UpHolds
    <3> QED
      BY <3>1, <3>2
  <2>3. x1 \in {0, 1} /\ y1 \in {0, 1} /\ x1 + y1 + n = x + y /\ n \in {0, 1}
    BY DEF One
  <2>4. accountTurns[a] = others[a] + HeldOn(a) /\ accountTurns[a] <= MaxTurnsPerAccount
    BY DEF CountInv, AccountTurnsExact
  <2> HIDE DEF c, x, y, x1, y1, n
  <2>5. c + x + y = c + x1 + y1 + n
    BY <2>1, <2>3
  <2>6. n <= c + x + y /\ c + x1 + y1 \in Nat
    BY <2>1, <2>3
  <2>7. accountTurns[a] >= n
    <3> DEFINE h == c + x + y
    <3>1. h \in Nat /\ n <= h /\ n \in Nat /\ accountTurns[a] = others[a] + h
      BY <2>1, <2>3, <2>4, <2>6
    <3> HIDE DEF h
    <3> QED
      BY <2>1, <3>1
  <2> QED
    BY <2>1, <2>2, <2>4, <2>5, <2>6, <2>7 DEF n
<1>2. accountTurns[b] >= 1
  BY <1>1 DEF One
<1>3. /\ accountTurns' \in [Accounts -> Nat] /\ accountTurns'[b] = accountTurns[b] - 1
      /\ \A a \in Accounts \ {b} : accountTurns'[a] = accountTurns[a]
  <2>1. accountTurns \in [Accounts -> Nat]
    BY DEF TypeOK
  <2> QED
    BY <1>2, <2>1, ReleasedIs
<1>4. ASSUME NEW a \in Accounts
      PROVE  /\ HeldOn(a)' \in Nat
             /\ accountTurns'[a] + HeldOn(a) = accountTurns[a] + HeldOn(a)'
             /\ accountTurns'[a] <= MaxTurnsPerAccount
  <2> DEFINE n == One(a = b)
             h == HeldOn(a)
             g == HeldOn(a)'
  <2>1. n \in {0, 1} /\ accountTurns'[a] = accountTurns[a] - n
    BY <1>3 DEF One, TypeOK
  <2>2. g \in Nat /\ h = g + n /\ accountTurns[a] <= MaxTurnsPerAccount
    BY <1>1
  <2>3. accountTurns[a] \in Nat /\ accountTurns'[a] \in Nat
    BY <1>3 DEF TypeOK
  <2> HIDE DEF n, h, g
  <2>4. g \in Nat /\ accountTurns'[a] + h = accountTurns[a] + g /\ accountTurns'[a] <= MaxTurnsPerAccount
    BY <2>1, <2>2, <2>3, SessionAssumptions
  <2> QED
    BY <2>4 DEF h, g
<1> QED
  BY <1>3, <1>4, InBalance

\* A step of the upstream reader alone: the counters stay as they are.
LEMMA UpOnly ==
    ASSUME SInv, up.at \notin {"off", "transfer"}, up'.at # "transfer",
           UNCHANGED <<closed, cancelled, turnVars, nativeVars, outerVars>>,
           up' \in UpStates, pin' \in PinStates,
           pin'.pinned = pin.pinned, pin'.native = pin.native, pin'.account = pin.account,
           pin'.upstream = pin.upstream, UpOK(up)',
           up'.at \in Attached /\ ~closed =>
              /\ up.at \in Attached
              /\ \A st \in Streams : /\ Answered(st)' <=> Answered(st)
                                     /\ Answered(st) => up'.turn = up.turn
    PROVE  SInv'
<1>1. UNCHANGED <<turns, others, accountTurns, reader, bodies, queue, pending, storeVars>>
  BY DEF turnVars, nativeVars, outerVars, storeVars
<1>2. TypeOK /\ CountInv /\ accountTurns \in [Accounts -> Nat]
  BY DEF SInv, TypeOK
<1>3. \A a \in Accounts : HeldOn(a)' = HeldOn(a)
  <2> TAKE a \in Accounts
  <2>1. LiveOn(a)' = LiveOn(a)
    BY <1>1, TurnsStay
  <2>2. One(reader'.at \in {"append", "transfer"} /\ reader'.account = a)
          = One(reader.at \in {"append", "transfer"} /\ reader.account = a)
        /\ One(up'.at = "transfer" /\ up'.account = a) = One(up.at = "transfer" /\ up.account = a)
    BY <1>1 DEF One
  <2> QED
    BY <2>1, <2>2 DEF HeldOn, LiveOn
<1>4. AccountTurnsExact'
  BY <1>1, <1>2, <1>3 DEF CountInv, AccountTurnsExact
<1>5. accountTurns' \in [Accounts -> Nat]
  BY <1>1, <1>2
<1>6. up.at # "off" /\ UNCHANGED <<closed, cancelled, turnVars, nativeVars, bodies, storeVars>>
  BY <1>1
<1> QED
  BY <1>4, <1>5, <1>6, UpMoves

\* The reader ends, or goes on without a retry.
LEMMA UpQuietSteps ==
    ASSUME SInv,
           \/ UpstreamReadFails \/ RewriteFails \/ ForwardUpstreamFails \/ UpstreamEnds
           \/ RedialFails \/ LimitReceived
    PROVE  SInv'
<1>1. /\ up \in UpStates /\ UpOK(up) /\ pin \in PinStates /\ made \in 0..MaxTurns
      /\ turns \in [Turns -> TurnStates]
  BY DEF SInv, TypeOK
<1>2. UNCHANGED <<closed, cancelled, turnVars, nativeVars, outerVars>>
  BY DEF UpstreamReadFails, RewriteFails, ForwardUpstreamFails, UpstreamEnds, RedialFails,
         LimitReceived, sessionVars
<1>3. UNCHANGED <<made, turns, closed>>
  BY <1>2 DEF turnVars
<1>4. up.at \notin {"off", "transfer"}
  BY DEF UpstreamReadFails, RewriteFails, ForwardUpstreamFails, UpstreamEnds, RedialFails, LimitReceived
<1>5. pin.native
  BY <1>1, <1>4 DEF UpOK
<1>6. CASE UpstreamReadFails \/ RewriteFails \/ ForwardUpstreamFails
  <2>1. up' = UpAt(up, "closing") /\ pin' = pin
    BY <1>6 DEF UpstreamReadFails, RewriteFails, ForwardUpstreamFails, UpTo, UpAt, sessionVars
  <2>2. SameEvent(up', up) /\ up'.at = "closing"
    BY <1>1, <2>1, UpAtIs DEF UpPlaces
  <2>3. UpOK(up)'
    BY <1>1, <1>3, <1>5, <2>1, <2>2 DEF UpOK, SameEvent, Attached, Moving
  <2>4. up' \in UpStates /\ up'.at # "transfer" /\ up'.at \notin Attached
    BY <2>2 DEF SameEvent, Attached, Moving
  <2> QED
    BY <1>1, <1>2, <1>4, <2>1, <2>3, <2>4, UpOnly
<1>7. CASE UpstreamEnds
  <2>1. up' = IdleUp /\ pin' = pin
    BY <1>7 DEF UpstreamEnds, sessionVars
  <2>2. UpOK(up)'
    BY <1>1, <1>3, <2>1, IdleUpIs DEF UpOK, Attached, Moving, NoTurn
  <2>3. up' \in UpStates /\ up'.at # "transfer" /\ up'.at \notin Attached
    BY <2>1, IdleUpIs DEF Attached, Moving
  <2> QED
    BY <1>1, <1>2, <1>4, <2>1, <2>2, <2>3, UpOnly
<1>8. CASE LimitReceived
  <2>1. pin' = [pin EXCEPT !.switching = TRUE] /\ up.at = "limit" /\ up.event = "limit"
    BY <1>1, <1>8 DEF LimitReceived, UpOK
  <2>2. /\ pin' \in PinStates /\ pin'.pinned = pin.pinned /\ pin'.native = pin.native
        /\ pin'.account = pin.account /\ pin'.upstream = pin.upstream
    BY <1>1, <2>1 DEF PinStates
  <2>3. \/ up' = UpAt(up, "observe")
        \/ /\ RetrySafe(up.turn)
           /\ \E a \in Accounts : up' = UpNext(up, "redial", a, {pin.account, a})
    BY <1>8 DEF LimitReceived, UpAt, UpNext
  <2>4. pin.account \in Accounts
    BY <1>4, UpRuns
  <2>5. SameEvent(up', up) /\ (up'.at = "observe" \/ (up'.at = "redial" /\ RetrySafe(up.turn) /\ up'.account \in Accounts))
    <3>1. CASE up' = UpAt(up, "observe")
      BY <1>1, <3>1, UpAtIs DEF UpPlaces
    <3>2. ASSUME NEW a \in Accounts, RetrySafe(up.turn), up' = UpNext(up, "redial", a, {pin.account, a})
          PROVE  SameEvent(up', up) /\ up'.at = "redial" /\ up'.account \in Accounts
      <4>1. {pin.account, a} \in SUBSET Accounts /\ "redial" \in UpPlaces
        BY <2>4 DEF UpPlaces
      <4> QED
        BY <1>1, <3>2, <4>1, UpNextIs
    <3> QED
      BY <2>3, <3>1, <3>2
  <2>6. UpOK(up)'
    BY <1>1, <1>3, <1>5, <2>1, <2>2, <2>5 DEF UpOK, SameEvent, Attached, Moving, RetrySafe
  <2>7. up' \in UpStates /\ up'.at # "transfer" /\ up.at \in Attached
    BY <2>1, <2>5 DEF SameEvent, Attached, Moving
  <2>8. \A st \in Streams : (Answered(st)' <=> Answered(st)) /\ (Answered(st) => up'.turn = up.turn)
    BY <1>3, <2>1, <2>5 DEF Answered, SameEvent
  <2> QED
    BY <1>2, <1>4, <2>2, <2>6, <2>7, <2>8, UpOnly
<1>9. CASE RedialFails
  <2>1. pin' = pin /\ up.at = "redial"
    BY <1>9 DEF RedialFails, sessionVars
  <2>2. up' = UpAt(up, "observe") \/ \E a \in Accounts : up' = UpTries(up, a, up.attempted \cup {a})
    BY <1>9 DEF RedialFails, UpTo, UpAt, UpTries
  <2>3. SameEvent(up', up) /\ (up'.at = "observe" \/ (up'.at = "redial" /\ up'.account \in Accounts))
    <3>1. CASE up' = UpAt(up, "observe")
      BY <1>1, <3>1, UpAtIs DEF UpPlaces
    <3>2. ASSUME NEW a \in Accounts, up' = UpTries(up, a, up.attempted \cup {a})
          PROVE  SameEvent(up', up) /\ up'.at = "redial" /\ up'.account \in Accounts
      <4>1. (up.attempted \cup {a}) \in SUBSET Accounts
        BY <1>1 DEF UpStates
      <4> QED
        BY <1>1, <2>1, <3>2, <4>1, UpTriesIs
    <3> QED
      BY <2>2, <3>1, <3>2
  <2>4. UpOK(up)'
    BY <1>1, <1>3, <1>5, <2>1, <2>3 DEF UpOK, SameEvent, Attached, Moving
  <2>5. up' \in UpStates /\ up'.at # "transfer" /\ up.at \in Attached
    BY <2>1, <2>3 DEF SameEvent, Attached, Moving
  <2>6. \A st \in Streams : (Answered(st)' <=> Answered(st)) /\ (Answered(st) => up'.turn = up.turn)
    BY <1>3, <2>1, <2>3 DEF Answered, SameEvent
  <2> QED
    BY <1>1, <1>2, <1>4, <2>1, <2>4, <2>5, <2>6, UpOnly
<1> QED
  BY <1>6, <1>7, <1>8, <1>9

\* A live turn moves to account b, where a turn was held for it.
LEMMA Transfers ==
    ASSUME TypeOK, CountInv, TurnsOK, NEW t \in Live, NEW b \in Accounts,
           turns' = [turns EXCEPT ![t].account = b], others' = others,
           accountTurns' = Released(accountTurns, turns[t].account),
           \A a \in Accounts : One(ReaderHolds(reader, a))' + One(UpHolds(up, a))' + One(a = b)
                                 = One(ReaderHolds(reader, a)) + One(UpHolds(up, a))
    PROVE  /\ turns' \in [Turns -> TurnStates] /\ Live' = Live /\ turns'[t].account = b
           /\ \A u \in Turns : /\ turns'[u].stream = turns[u].stream
                               /\ turns'[u].prev = turns[u].prev
                               /\ turns'[u].forwarded = turns[u].forwarded
                               /\ u # t => turns'[u].account = turns[u].account
           /\ accountTurns' \in [Accounts -> Nat] /\ AccountTurnsExact'
<1>1. turns \in [Turns -> TurnStates] /\ t \in Turns /\ turns[t].account \in Accounts
      /\ accountTurns \in [Accounts -> Nat]
  BY DEF TypeOK, TurnsOK, Live
<1> DEFINE old == turns[t].account
           n == [turns[t] EXCEPT !.account = b]
<1>2. /\ n \in TurnStates /\ n.stream = turns[t].stream /\ n.prev = turns[t].prev
      /\ n.forwarded = turns[t].forwarded /\ n.finished = turns[t].finished /\ n.account = b
  <2>1. turns[t] \in TurnStates
    BY <1>1
  <2> QED
    BY <2>1 DEF TurnStates, AnyAccount
<1>3. turns' = [turns EXCEPT ![t] = n]
  BY <1>1
<1> HIDE DEF n
<1>4. turns' \in [Turns -> TurnStates] /\ turns'[t] = n /\ \A u \in Turns \ {t} : turns'[u] = turns[u]
  BY <1>1, <1>2, <1>3
<1>5. \A u \in Turns : /\ turns'[u].stream = turns[u].stream
                       /\ turns'[u].prev = turns[u].prev
                       /\ turns'[u].forwarded = turns[u].forwarded
                       /\ turns'[u].finished = turns[u].finished
                       /\ u # t => turns'[u].account = turns[u].account
  BY <1>2, <1>4
<1>6. Live' = Live
  BY <1>5 DEF Live
<1>7. turns'[t].account = b
  BY <1>2, <1>4
<1>8. ASSUME NEW a \in Accounts
      PROVE  /\ Cardinality(LiveOn(a)) \in Nat /\ Cardinality(LiveOn(a)') \in Nat
             /\ Cardinality(LiveOn(a)') + One(a = old) = Cardinality(LiveOn(a)) + One(a = b)
             /\ Cardinality(LiveOn(a)) >= One(a = old)
  <2>1. LiveOn(a) \in SUBSET Turns /\ LiveOn(a)' \in SUBSET Turns
    BY DEF LiveOn, Live
  <2>2. Cardinality(LiveOn(a)) \in Nat /\ Cardinality(LiveOn(a)') \in Nat
    BY <2>1, TurnsAreFinite
  <2>3. \A u \in Live : u # t => (u \in LiveOn(a)' <=> u \in LiveOn(a))
    BY <1>5, <1>6 DEF LiveOn, Live
  <2>4. (t \in LiveOn(a)' <=> a = b) /\ (t \in LiveOn(a) <=> a = old)
    BY <1>6, <1>7 DEF LiveOn
  <2>5. LiveOn(a) \subseteq Live /\ LiveOn(a)' \subseteq Live
    BY <1>6 DEF LiveOn
  <2>6. a = old => Cardinality(LiveOn(a)) >= 1
    <3> SUFFICES ASSUME a = old PROVE Cardinality(LiveOn(a)) >= 1
      OBVIOUS
    <3>1. Cardinality(LiveOn(a)) > 0
      BY <2>1, <2>4, OneLess
    <3> QED
      BY <2>2, <3>1
  <2>7. CASE a = old /\ a = b
    <3>1. LiveOn(a)' = LiveOn(a)
      BY <2>3, <2>4, <2>5, <2>7
    <3> QED
      BY <2>2, <2>6, <2>7, <3>1 DEF One
  <2>8. CASE a # old /\ a = b
    <3>1. LiveOn(a)' = LiveOn(a) \cup {t} /\ t \notin LiveOn(a)
      BY <2>3, <2>4, <2>5, <2>8
    <3>2. Cardinality(LiveOn(a)') = Cardinality(LiveOn(a)) + 1
      BY <1>1, <2>1, <3>1, OneMore
    <3> QED
      BY <2>2, <2>8, <3>2 DEF One
  <2>9. CASE a = old /\ a # b
    <3>1. LiveOn(a)' = LiveOn(a) \ {t} /\ t \in LiveOn(a)
      BY <2>3, <2>4, <2>5, <2>9
    <3>2. Cardinality(LiveOn(a)') = Cardinality(LiveOn(a)) - 1
      BY <2>1, <3>1, OneLess
    <3> QED
      BY <2>2, <2>6, <2>9, <3>2 DEF One
  <2>10. CASE a # old /\ a # b
    <3>1. LiveOn(a)' = LiveOn(a)
      BY <2>3, <2>4, <2>5, <2>10
    <3> QED
      BY <2>2, <2>10, <3>1 DEF One
  <2> QED
    BY <2>7, <2>8, <2>9, <2>10
<1>9. ASSUME NEW a \in Accounts
      PROVE  /\ HeldOn(a)' \in Nat /\ HeldOn(a) = HeldOn(a)' + One(a = old)
             /\ accountTurns[a] >= One(a = old) /\ accountTurns[a] <= MaxTurnsPerAccount
  <2> DEFINE c == Cardinality(LiveOn(a))
             c1 == Cardinality(LiveOn(a)')
             x == One(ReaderHolds(reader, a))
             y == One(UpHolds(up, a))
             x1 == One(ReaderHolds(reader, a))'
             y1 == One(UpHolds(up, a))'
             m == One(a = old)
             k == One(a = b)
  <2>1. /\ x \in {0, 1} /\ y \in {0, 1} /\ accountTurns[a] \in Nat /\ others[a] \in Nat
        /\ HeldOn(a) = c + x + y
    BY HeldNumbers, HeldIs
  <2>2. HeldOn(a)' = c1 + x1 + y1
    BY DEF HeldOn, LiveOn, ReaderHolds, UpHolds
  <2>3. x1 \in {0, 1} /\ y1 \in {0, 1} /\ x1 + y1 + k = x + y /\ k \in {0, 1} /\ m \in {0, 1}
    BY DEF One
  <2>4. accountTurns[a] = others[a] + HeldOn(a) /\ accountTurns[a] <= MaxTurnsPerAccount
    BY DEF CountInv, AccountTurnsExact
  <2>5. c \in Nat /\ c1 \in Nat /\ c1 + m = c + k /\ c >= m
    BY <1>8
  <2> HIDE DEF c, c1, x, y, x1, y1, m, k
  <2>6. c1 + x1 + y1 \in Nat /\ c + x + y = c1 + x1 + y1 + m
    BY <2>1, <2>3, <2>5
  <2>7. accountTurns[a] >= m
    <3> DEFINE h == c + x + y
    <3>1. h \in Nat /\ h >= m /\ accountTurns[a] = others[a] + h
      BY <2>1, <2>3, <2>4, <2>5
    <3> HIDE DEF h
    <3> QED
      BY <2>1, <2>3, <3>1
  <2> QED
    BY <2>1, <2>2, <2>4, <2>6, <2>7 DEF m
<1>10. accountTurns[old] >= 1
  BY <1>1, <1>9 DEF One
<1> HIDE DEF old
<1>11. old \in Accounts /\ accountTurns' = Released(accountTurns, old)
  BY <1>1 DEF old
<1>12. /\ accountTurns' \in [Accounts -> Nat] /\ accountTurns'[old] = accountTurns[old] - 1
       /\ \A a \in Accounts \ {old} : accountTurns'[a] = accountTurns[a]
  BY <1>1, <1>10, <1>11, ReleasedIs
<1>13. ASSUME NEW a \in Accounts
       PROVE  /\ HeldOn(a)' \in Nat
              /\ accountTurns'[a] + HeldOn(a) = accountTurns[a] + HeldOn(a)'
              /\ accountTurns'[a] <= MaxTurnsPerAccount
  <2> DEFINE m == One(a = old)
             h == HeldOn(a)
             g == HeldOn(a)'
  <2>1. m \in {0, 1} /\ accountTurns'[a] = accountTurns[a] - m
    BY <1>1, <1>12 DEF One
  <2>2. g \in Nat /\ h = g + m /\ accountTurns[a] <= MaxTurnsPerAccount
    BY <1>9 DEF old
  <2>3. accountTurns[a] \in Nat /\ accountTurns'[a] \in Nat
    BY <1>1, <1>12
  <2> HIDE DEF m, h, g
  <2>4. g \in Nat /\ accountTurns'[a] + h = accountTurns[a] + g /\ accountTurns'[a] <= MaxTurnsPerAccount
    BY <2>1, <2>2, <2>3, SessionAssumptions
  <2> QED
    BY <2>4 DEF h, g
<1>14. AccountTurnsExact'
  BY <1>12, <1>13, InBalance
<1> QED
  BY <1>4, <1>5, <1>6, <1>7, <1>12, <1>14

\* A replacement was dialled: a turn is reserved for the transfer.
LEMMA UpReserves ==
    ASSUME SInv, RedialSucceeds
    PROVE  SInv'
<1>1. /\ up \in UpStates /\ UpOK(up) /\ pin \in PinStates /\ TypeOK /\ CountInv
  BY DEF SInv, TypeOK
<1>2. /\ up.at = "redial" /\ HasTurnCapacity(up.account) /\ accountTurns' = Reserved(accountTurns, up.account)
      /\ up' = UpAt(up, "transfer") /\ pin' = pin
      /\ UNCHANGED <<closed, cancelled, turnVars, nativeVars, bodies, storeVars>>
  BY DEF RedialSucceeds, UpTo, UpAt, sessionVars
<1>3. SameEvent(up', up) /\ up'.at = "transfer" /\ up'.account = up.account
  BY <1>1, <1>2, UpAtIs DEF UpPlaces
<1>4. up.account \in Accounts /\ pin.native
  BY <1>1, <1>2 DEF UpOK, Moving
<1>5. \A a \in Accounts : One(ReaderHolds(reader, a))' + One(UpHolds(up, a))'
                            = One(ReaderHolds(reader, a)) + One(UpHolds(up, a)) + One(a = up.account)
  BY <1>2, <1>3 DEF ReaderHolds, UpHolds, One, nativeVars
<1>6. accountTurns' \in [Accounts -> Nat] /\ AccountTurnsExact'
  <2>1. UNCHANGED <<turns, others>>
    BY <1>2 DEF turnVars, storeVars
  <2> QED
    BY <1>1, <1>2, <1>4, <1>5, <2>1, Reserves
<1>7. UpOK(up)'
  BY <1>1, <1>2, <1>3, <1>4 DEF UpOK, SameEvent, Attached, Moving, turnVars
<1>8. up' \in UpStates /\ up.at \in Attached /\ up.at # "off"
  BY <1>2, <1>3 DEF SameEvent, Attached, Moving
<1>9. \A st \in Streams : (Answered(st)' <=> Answered(st)) /\ (Answered(st) => up'.turn = up.turn)
  BY <1>2, <1>3 DEF Answered, SameEvent, turnVars
<1> QED
  BY <1>1, <1>2, <1>6, <1>7, <1>8, <1>9, UpMoves

\* The only live turn of a native session whose upstream reader handles it.
LEMMA OneTurnLeft ==
    ASSUME SInv, up.at = "transfer", ~closed, ~turns[up.turn].finished, pending = 1
    PROVE  /\ up.turn \in Live /\ Live = {up.turn}
           /\ \A st \in Streams : /\ ~Unwritten(st)
                                  /\ Len(queue[st]) = One(turns[up.turn].stream = st)
                                  /\ turns[up.turn].stream = st => queue[st][1] = up.turn
<1>1. /\ up \in UpStates /\ UpOK(up) /\ TypeOK /\ CountInv /\ up.turn # NoTurn /\ up.event = "limit"
      /\ queue \in [Streams -> Seq(Turns)] /\ wire \in [Streams -> Seq(Turns)]
  BY DEF SInv, TypeOK, UpOK, Moving
<1>2. up.turn \in Live
  BY <1>1 DEF UpStates, Live
<1>3. Live = {up.turn}
  <2>1. Live \in SUBSET Turns /\ Cardinality(Live) = 1
    BY <1>1 DEF Live, CountInv, PendingExact
  <2>2. Cardinality(Live \ {up.turn}) = 0
    BY <1>2, <2>1, OneLess
  <2>3. IsFiniteSet(Live \ {up.turn})
    BY <2>1, TurnsAreFinite
  <2>4. Live \ {up.turn} = {}
    BY <2>2, <2>3, FS_EmptySet
  <2> QED
    BY <1>2, <2>4
<1>4. ASSUME NEW st \in Streams
      PROVE  /\ ~Unwritten(st)
             /\ Len(queue[st]) = One(turns[up.turn].stream = st)
             /\ turns[up.turn].stream = st => queue[st][1] = up.turn
  <2> DEFINE q == queue[st]
             x == One(Answered(st))
             z == One(Unwritten(st))
             n == Len(wire[st])
  <2>1. /\ Len(q) = x + n + z /\ (Answered(st) => q[1] = up.turn)
        /\ Unwritten(st) => q[Len(q)] = made
    BY DEF SInv, PipeOK, Attached, Moving
  <2>2. Answered(st) <=> turns[up.turn].stream = st
    BY <1>1 DEF Answered
  <2>3. x \in {0, 1} /\ z \in {0, 1} /\ n \in Nat /\ Len(q) \in Nat /\ q \in Seq(Turns) /\ DOMAIN q = 1..Len(q)
    BY <1>1 DEF One
  <2>4. \A i \in DOMAIN q : q[i] = up.turn /\ turns[up.turn].stream = st
    BY <1>1, <1>3, QueuedTurns
  <2>5. Len(q) <= 1
    <3> SUFFICES ASSUME Len(q) > 1 PROVE FALSE
      BY <2>3
    <3>1. 1 \in DOMAIN q /\ 2 \in DOMAIN q
      BY <2>3
    <3>2. q[1] # q[2]
      BY <1>1, <3>1 DEF CountInv, PendingExact
    <3> QED
      BY <2>4, <3>1, <3>2
  <2>6. CASE turns[up.turn].stream = st
    <3>1. x = 1
      BY <2>2, <2>6 DEF One
    <3> HIDE DEF x, z, n, q
    <3>2. Len(q) = 1 /\ z = 0
      BY <2>1, <2>3, <2>5, <3>1
    <3>3. ~Unwritten(st)
      BY <3>2 DEF z, One
    <3> QED
      BY <2>1, <2>2, <2>6, <3>2, <3>3 DEF q, One
  <2>7. CASE turns[up.turn].stream # st
    <3>1. Len(q) = 0
      <4> SUFFICES ASSUME Len(q) # 0 PROVE FALSE
        OBVIOUS
      <4>1. 1 \in DOMAIN q
        BY <2>3
      <4> QED
        BY <2>4, <2>7, <4>1
    <3> HIDE DEF x, z, n, q
    <3>2. z = 0
      BY <2>1, <2>3, <3>1
    <3>3. ~Unwritten(st)
      BY <3>2 DEF z, One
    <3> QED
      BY <2>7, <3>1, <3>3 DEF q, One
  <2> QED
    BY <2>6, <2>7
<1> QED
  BY <1>2, <1>3, <1>4

\* transferNativeAccount checks again under the lock: refused, the reserved
\* turn is given back; otherwise the turn belongs to the replacement.
LEMMA UpTransfers ==
    ASSUME SInv, TransferNative
    PROVE  SInv'
<1>1. /\ up \in UpStates /\ UpOK(up) /\ pin \in PinStates /\ TypeOK /\ CountInv /\ TurnsOK
      /\ ReaderOK(reader)
  BY DEF SInv, TypeOK
<1>2. /\ up.at = "transfer" /\ up.account \in Accounts /\ up.turn \in Turns /\ pin.native /\ pin.pinned
      /\ up.event = "limit" /\ reader.at \notin {"worker", "done"}
      /\ turns[up.turn].prev = NoResponse
  BY <1>1, UpRuns DEF TransferNative, UpOK, Moving, UpStates
<1>3. \A a \in Accounts : ReaderHolds(reader, a)' <=> ReaderHolds(reader, a)
  BY DEF TransferNative, nativeVars, ReaderHolds
<1>4. CASE closed \/ turns[up.turn].finished \/ turns[up.turn].forwarded \/ pending # 1
  <2>1. /\ accountTurns' = Released(accountTurns, up.account) /\ up' = UpAt(up, "observe")
        /\ UNCHANGED <<pin, turns, wire, closed, cancelled, made, queue, named, running, pending,
                       remembered, nativeVars, others, bodies, binding, sent>>
    BY <1>4 DEF TransferNative, TransferRefused, UpTo, UpAt
  <2>2. SameEvent(up', up) /\ up'.at = "observe"
    BY <1>1, <2>1, UpAtIs DEF UpPlaces
  <2>3. \A a \in Accounts : One(ReaderHolds(reader, a))' + One(UpHolds(up, a))' + One(a = up.account)
                              = One(ReaderHolds(reader, a)) + One(UpHolds(up, a))
    BY <1>2, <1>3, <2>2 DEF UpHolds, One
  <2>4. accountTurns' \in [Accounts -> Nat] /\ AccountTurnsExact'
    BY <1>1, <1>2, <2>1, <2>3, Releases
  <2>5. UpOK(up)'
    BY <1>1, <1>2, <2>1, <2>2 DEF UpOK, SameEvent, Attached, Moving
  <2>6. up' \in UpStates /\ up.at \in Attached /\ up.at # "off"
    BY <1>2, <2>2 DEF SameEvent, Attached, Moving
  <2>7. \A st \in Streams : (Answered(st)' <=> Answered(st)) /\ (Answered(st) => up'.turn = up.turn)
    BY <1>2, <2>1, <2>2 DEF Answered, SameEvent
  <2>8. UNCHANGED <<closed, cancelled, turnVars, nativeVars, bodies, storeVars>>
    BY <2>1 DEF turnVars, storeVars
  <2> QED
    BY <1>1, <2>1, <2>4, <2>5, <2>6, <2>7, <2>8, UpMoves
<1>5. CASE ~(closed \/ turns[up.turn].finished \/ turns[up.turn].forwarded \/ pending # 1)
  <2> DEFINE t == up.turn
             b == up.account
  <2>1. /\ pin' = [pin EXCEPT !.account = b, !.upstream = b]
        /\ turns' = [turns EXCEPT ![t].account = b]
        /\ accountTurns' = Released(accountTurns, turns[t].account)
        /\ wire' = [st \in Streams |-> <<>>] /\ up' = UpAt(up, "rewrite")
        /\ UNCHANGED <<closed, cancelled, made, queue, named, running, pending,
                       remembered, nativeVars, others, bodies, binding, sent>>
    BY <1>5 DEF TransferNative, UpTo, UpAt
  <2>2. ~closed /\ ~turns[t].finished /\ ~turns[t].forwarded /\ pending = 1
    BY <1>1, <1>5 DEF TypeOK
  <2>3. SameEvent(up', up) /\ up'.at = "rewrite" /\ up'.account = b
    BY <1>1, <2>1, UpAtIs DEF UpPlaces
  <2>4. /\ t \in Live /\ Live = {t}
        /\ \A st \in Streams : /\ ~Unwritten(st)
                               /\ Len(queue[st]) = One(turns[t].stream = st)
                               /\ turns[t].stream = st => queue[st][1] = t
    BY <1>2, <2>2, OneTurnLeft
  <2>5. \A a \in Accounts : One(ReaderHolds(reader, a))' + One(UpHolds(up, a))' + One(a = b)
                              = One(ReaderHolds(reader, a)) + One(UpHolds(up, a))
    BY <1>2, <1>3, <2>3 DEF UpHolds, One
  <2>6. /\ turns' \in [Turns -> TurnStates] /\ Live' = Live /\ turns'[t].account = b
        /\ \A u \in Turns : /\ turns'[u].stream = turns[u].stream
                            /\ turns'[u].prev = turns[u].prev
                            /\ turns'[u].forwarded = turns[u].forwarded
                            /\ u # t => turns'[u].account = turns[u].account
        /\ accountTurns' \in [Accounts -> Nat] /\ AccountTurnsExact'
    BY <1>1, <1>2, <2>1, <2>4, <2>5, Transfers
  <2>7. /\ pin' \in PinStates /\ pin'.native /\ pin'.pinned /\ pin'.account = b /\ pin'.upstream = b
        /\ pin'.switching
    BY <1>1, <1>2, <2>1 DEF PinStates, AnyAccount, UpOK, Moving
  <2> HIDE DEF t, b
  <2> USE DEF nativeVars
  <2>8. wire' \in [Streams -> Seq(Turns)] /\ \A st \in Streams : wire'[st] = <<>>
    BY <2>1
  <2>9. b \in Accounts /\ t \in Turns /\ up'.turn = t
    BY <1>2, <2>3 DEF b, t, SameEvent
  <2>10. TypeOK'
    BY <1>1, <2>1, <2>3, <2>6, <2>7, <2>8 DEF TypeOK, SameEvent
  <2>11. CountInv'
    <3>1. PendingExact'
      <4>1. \A st \in Streams : {u \in Live' : turns'[u].stream = st} = {u \in Live : turns[u].stream = st}
        BY <2>6 DEF Live
      <4> QED
        BY <1>1, <2>1, <2>6, <4>1 DEF CountInv, PendingExact
    <3>2. BodiesReleased'
      BY <1>1, <2>1, <2>6 DEF CountInv, BodiesReleased, One
    <3> QED
      BY <2>6, <3>1, <3>2 DEF CountInv
  <2>12. PinInv' /\ CloseInv' /\ SentOK'
    BY <2>1, <2>6, <2>7, <2>8, <2>9 DEF SInv, PinInv, CloseInv, SentOK
  <2>13. TurnsOK'
    BY <1>1, <2>1, <2>4, <2>6, <2>9 DEF TurnsOK, Live
  <2>14. UpOK(up)'
    <3>1. reader.at # "dispatch"
      BY <1>1, <2>4 DEF Unwritten, TypeOK, ReaderStates
    <3> QED
      BY <1>1, <1>2, <2>1, <2>2, <2>3, <2>6, <2>7, <2>8, <2>9, <3>1 DEF UpOK, SameEvent, Attached, Moving, t, b
  <2>15. ReaderOK(reader)'
    <3>1. made \in Turns \/ made = 0
      BY <1>1 DEF TypeOK, Turns
    <3> QED
      BY <1>1, <1>2, <2>1, <2>6, <2>7, <3>1 DEF ReaderOK, SentTurns, Own, Opening
  <2>16. \A st \in Streams : BridgeOK(st, bridge[st])'
    <3> TAKE st \in Streams
    <3>1. ~running[st] /\ bridge[st].at = "off" /\ bridge[st].turn = NoTurn
      BY <1>2, UpRuns DEF SInv
    <3> QED
      BY <2>1, <3>1 DEF BridgeOK
  <2>17. (\A st \in Streams : QueueOK(st)') /\ NoStrandedTurn'
    BY <2>7 DEF QueueOK, NoStrandedTurn
  <2>18. \A st \in Streams : PipeOK(st)'
    <3> TAKE st \in Streams
    <3>1. Answered(st)' <=> turns[t].stream = st
      BY <1>2, <2>1, <2>3, <2>6, <2>9 DEF Answered, SameEvent, Turns, NoTurn
    <3>2. ~Unwritten(st)'
      BY <2>1, <2>4 DEF Unwritten
    <3>3. One(Answered(st))' = One(turns[t].stream = st) /\ One(Unwritten(st))' = 0 /\ Len(wire'[st]) = 0
      BY <2>8, <3>1, <3>2 DEF One
    <3>4. Len(queue'[st]) = One(turns[t].stream = st) /\ One(turns[t].stream = st) \in {0, 1}
      BY <2>1, <2>4 DEF One
    <3>5. Len(queue'[st]) = One(Answered(st))' + Len(wire'[st]) + One(Unwritten(st))'
      BY <3>3, <3>4
    <3>6. Answered(st)' => queue'[st][1] = up'.turn
      BY <2>1, <2>4, <2>9, <3>1
    <3> QED
      BY <3>2, <3>3, <3>5, <3>6 DEF PipeOK
  <2> QED
    BY <2>10, <2>11, <2>12, <2>13, <2>14, <2>15, <2>16, <2>17, <2>18 DEF SInv
<1> QED
  BY <1>4, <1>5

\* A request that may be sent keeps the history as it should be.
LEMMA SendsSafely ==
    ASSUME TypeOK, SentOK, NEW t \in Turns, NEW a \in Accounts, NEW i \in AnyAccount, Sends(t, a, i),
           t <= made, made' = made,
           t \in SentTurns => ~turns[t].forwarded /\ turns[t].prev = NoResponse
    PROVE  sent' \subseteq Requests /\ SentOK' /\ SentTurns' = SentTurns \cup {t}
<1>1. /\ sent' \subseteq Requests /\ SentTurns' = SentTurns \cup {t} /\ sent \subseteq sent'
      /\ \A s \in sent' \ sent : /\ s.turn = t /\ s.prev = turns[t].prev
                                 /\ s.seen = turns[t].forwarded
                                 /\ (t \notin SentTurns => ~s.again)
  BY SendsIs
<1>2. SentOK'
  BY <1>1 DEF SentOK
<1> QED
  BY <1>1, <1>2

\* A native session has no bridge worker.
LEMMA NativeRest ==
    ASSUME SInv, pin.native, pin'.native, UNCHANGED <<running, bridge>>
    PROVE  (\A st \in Streams : BridgeOK(st, bridge[st])' /\ QueueOK(st)') /\ NoStrandedTurn'
<1>1. \A st \in Streams : BridgeOK(st, bridge[st])'
  <2> TAKE st \in Streams
  <2>1. ~running[st] /\ bridge[st].at = "off" /\ bridge[st].turn = NoTurn
    BY DEF SInv, BridgeOK
  <2> QED
    BY <2>1 DEF BridgeOK
<1> QED
  BY <1>1 DEF QueueOK, NoStrandedTurn

\* The turn is written to the replacement, the only request it has.
LEMMA UpRewrites ==
    ASSUME SInv, Rewrite
    PROVE  SInv'
<1> DEFINE t == up.turn
           s == turns[t].stream
<1>1. /\ up \in UpStates /\ UpOK(up) /\ pin \in PinStates /\ TypeOK /\ CountInv /\ SentOK
      /\ ReaderOK(reader) /\ turns \in [Turns -> TurnStates] /\ wire \in [Streams -> Seq(Turns)]
  BY DEF SInv, TypeOK
<1>2. /\ up.at = "rewrite" /\ ~cancelled /\ Sends(t, up.account, up.account)
      /\ wire' = [wire EXCEPT ![s] = Append(@, t)]
      /\ pin' = [pin EXCEPT !.switching = FALSE] /\ up' = UpAt(up, "read")
      /\ UNCHANGED <<closed, cancelled, turnVars, nativeVars, accountTurns, others, bodies, binding>>
  BY DEF Rewrite, UpTo, UpAt
<1> USE DEF turnVars, nativeVars
<1>3. /\ t \in Turns /\ t # NoTurn /\ t <= made /\ up.account \in Accounts /\ up.event = "limit"
      /\ turns[t].prev = NoResponse /\ ~turns[t].forwarded /\ s \in Streams
      /\ reader.at \notin {"dispatch", "worker", "done"} /\ ~reader.first
      /\ \A st \in Streams : wire[st] = <<>>
  <2>1. /\ t \in Turns /\ t # NoTurn /\ t <= made /\ up.account \in Accounts /\ up.event = "limit"
        /\ turns[t].prev = NoResponse /\ ~turns[t].forwarded
        /\ reader.at # "dispatch" /\ \A st \in Streams : wire[st] = <<>>
    BY <1>1, <1>2 DEF UpOK, Moving, UpStates
  <2>2. reader.at \notin {"worker", "done"} /\ pin.native
    BY <1>2, UpRuns
  <2>3. ~reader.first
    BY <1>1, <2>2 DEF ReaderOK
  <2>4. s \in Streams
    BY <1>1, <2>1 DEF TurnStates
  <2> QED
    BY <2>1, <2>2, <2>3, <2>4
<1>4. pin.native /\ pin.pinned /\ ~closed
  BY <1>2, UpRuns DEF SInv, CloseInv
<1>5. SameEvent(up', up) /\ up'.at = "read"
  BY <1>1, <1>2, UpAtIs DEF UpPlaces
<1>6. /\ pin' \in PinStates /\ pin'.native = pin.native /\ pin'.pinned = pin.pinned
      /\ pin'.account = pin.account /\ pin'.upstream = pin.upstream
  BY <1>1, <1>2 DEF PinStates
<1>7. /\ wire'[s] = <<t>> /\ \A st \in Streams \ {s} : wire'[st] = <<>>
      /\ wire' \in [Streams -> Seq(Turns)]
  <2> HIDE DEF t, s
  <2>1. Append(wire[s], t) = <<t>> /\ <<t>> \in Seq(Turns)
    <3>1. wire[s] = <<>> /\ t \in Turns
      BY <1>3
    <3>2. <<t>> \in Seq(Turns) /\ Append(<< >>, t) = <<t>>
      BY <3>1
    <3> QED
      BY <3>1, <3>2
  <2> QED
    BY <1>1, <1>2, <1>3, <2>1
<1> HIDE DEF t, s
<1>8. sent' \subseteq Requests /\ SentOK' /\ SentTurns' = SentTurns \cup {t}
  BY <1>1, <1>2, <1>3, SendsSafely DEF AnyAccount
<1>9. Live' = Live
  BY <1>2, TurnsStay
<1>10. TypeOK'
  BY <1>1, <1>2, <1>5, <1>6, <1>7, <1>8 DEF TypeOK, SameEvent
<1>11. CountInv'
  <2>1. \A a \in Accounts : /\ One(ReaderHolds(reader, a))' = One(ReaderHolds(reader, a))
                            /\ One(UpHolds(up, a))' = One(UpHolds(up, a))
    BY <1>2, <1>5 DEF ReaderHolds, UpHolds, One
  <2>2. bodies \in Nat
    BY <1>1 DEF TypeOK
  <2> QED
    BY <1>1, <1>2, <2>1, <2>2, CountsStay
<1>12. PinInv' /\ CloseInv' /\ TurnsOK'
  BY <1>2, <1>3, <1>4, <1>6, <1>9 DEF SInv, PinInv, CloseInv, TurnsOK
<1>13. UpOK(up)'
  BY <1>1, <1>2, <1>4, <1>5, <1>6 DEF UpOK, SameEvent, Attached, Moving
<1>14. ReaderOK(reader)'
  BY <1>1, <1>2, <1>3, <1>4, <1>6, <1>9 DEF ReaderOK, Own, Opening
<1>15. (\A st \in Streams : BridgeOK(st, bridge[st])' /\ QueueOK(st)') /\ NoStrandedTurn'
  BY <1>2, <1>4, <1>6, NativeRest
<1>16. \A st \in Streams : PipeOK(st)'
  <2> TAKE st \in Streams
  <2>1. ~Unwritten(st)' /\ ~Unwritten(st) /\ ~Answered(st)' /\ (Answered(st) <=> st = s)
    BY <1>2, <1>3, <1>5 DEF Unwritten, Answered, s, t
  <2>2. One(Answered(st))' = 0 /\ One(Unwritten(st))' = 0 /\ One(Unwritten(st)) = 0
        /\ One(Answered(st)) = One(st = s)
    BY <2>1 DEF One
  <2>3. Len(queue[st]) = One(Answered(st)) + Len(wire[st]) + One(Unwritten(st))
        /\ (Answered(st) => queue[st][1] = up.turn)
    BY <1>2, <1>4 DEF SInv, PipeOK, Attached, Moving
  <2>4. Len(queue[st]) = One(st = s)
    <3>1. Len(wire[st]) = 0 /\ One(st = s) \in {0, 1}
      BY <1>3 DEF One
    <3> QED
      BY <2>2, <2>3, <3>1
  <2>5. Len(wire'[st]) = One(st = s) /\ \A i \in 1..Len(wire'[st]) : wire'[st][i] = queue[st][i]
    <3>1. CASE st = s
      <4>1. wire'[st] = <<t>> /\ queue[st][1] = t
        BY <1>7, <2>1, <2>3, <3>1 DEF t
      <4> QED
        BY <3>1, <4>1 DEF One
    <3>2. CASE st # s
      BY <1>7, <3>2 DEF One
    <3> QED
      BY <3>1, <3>2
  <2>6. /\ Len(queue'[st]) = One(Answered(st))' + Len(wire'[st]) + One(Unwritten(st))'
        /\ \A i \in 1..Len(wire'[st]) : wire'[st][i] = queue'[st][i + One(Answered(st))']
    <3>1. One(st = s) \in {0, 1} /\ queue' = queue
      BY <1>2 DEF One
    <3>2. \A i \in 1..Len(wire'[st]) : i + 0 = i
      BY <2>5, <3>1
    <3> QED
      BY <2>2, <2>4, <2>5, <3>1, <3>2
  <2> QED
    BY <2>1, <2>6 DEF PipeOK
<1> QED
  BY <1>8, <1>10, <1>11, <1>12, <1>13, <1>14, <1>15, <1>16 DEF SInv

\* The session observes an event before the client gets it.
LEMMA UpObserves ==
    ASSUME SInv, ObserveUpstream
    PROVE  SInv'
<1>1. /\ up \in UpStates /\ UpOK(up) /\ TypeOK /\ CountInv /\ ReaderOK(reader)
  BY DEF SInv, TypeOK
<1>2. /\ up.at = "observe" /\ observeTurn(up.turn, Terminal(up.event), TRUE) /\ up' = UpAt(up, "forward")
      /\ UNCHANGED <<pin, closed, cancelled, made, queue, named, running, pending, nativeVars, outerVars>>
  BY DEF ObserveUpstream, UpTo, UpAt
<1> USE DEF nativeVars, outerVars, storeVars
<1>3. SameEvent(up', up) /\ up'.at = "forward"
  BY <1>1, <1>2, UpAtIs DEF UpPlaces
<1>4. Terminal(up.event) \in Terminals /\ up.turn \in Turns \cup {NoTurn}
  BY <1>1 DEF Terminal, Terminals, UpStates
<1>5. /\ turns' \in [Turns -> TurnStates] /\ remembered' \subseteq Responses /\ Live' = Live
      /\ \A u \in Turns : /\ turns'[u].stream = turns[u].stream
                          /\ turns'[u].account = turns[u].account
                          /\ turns'[u].prev = turns[u].prev
  BY <1>1, <1>2, <1>4, Observes
<1>6. \A t \in Live : t \in Turns /\ turns'[t].account = turns[t].account /\ turns'[t].stream = turns[t].stream
  BY <1>5 DEF Live
<1>7. pin.native /\ reader.at \notin {"worker", "done"} /\ ~reader.first
  <2>1. pin.native /\ reader.at \notin {"worker", "done"}
    BY <1>2, UpRuns
  <2> QED
    BY <1>1, <2>1 DEF ReaderOK
<1>8. TypeOK'
  BY <1>1, <1>2, <1>3, <1>5 DEF TypeOK, SameEvent
<1>9. CountInv'
  <2>1. \A a \in Accounts : /\ One(ReaderHolds(reader, a))' = One(ReaderHolds(reader, a))
                            /\ One(UpHolds(up, a))' = One(UpHolds(up, a))
    BY <1>2, <1>3 DEF ReaderHolds, UpHolds, One
  <2>2. bodies \in Nat
    BY <1>1 DEF TypeOK
  <2> QED
    BY <1>1, <1>2, <1>5, <1>6, <2>1, <2>2, CountsKept
<1>10. PinInv' /\ CloseInv' /\ TurnsOK' /\ SentOK'
  BY <1>2, <1>5, <1>6 DEF SInv, PinInv, CloseInv, TurnsOK, SentOK
<1>11. UpOK(up)'
  BY <1>1, <1>2, <1>3 DEF UpOK, SameEvent, Attached, Moving
<1>12. ReaderOK(reader)'
  <2>1. made \in Turns \/ made = 0
    BY <1>1 DEF TypeOK, Turns
  <2> QED
    BY <1>1, <1>2, <1>5, <1>7, <2>1 DEF ReaderOK, SentTurns, Own, Opening
<1>13. (\A st \in Streams : BridgeOK(st, bridge[st])' /\ QueueOK(st)') /\ NoStrandedTurn'
  BY <1>2, <1>7, NativeRest
<1>14. \A st \in Streams : PipeOK(st)'
  <2>1. ASSUME NEW st \in Streams
        PROVE  /\ Unwritten(st)' <=> Unwritten(st)
               /\ Answered(st)' <=> Answered(st)
               /\ Answered(st) => up'.turn = up.turn
    <3>1. Unwritten(st)' <=> Unwritten(st)
      BY <1>2 DEF Unwritten
    <3>2. up.turn # NoTurn => turns'[up.turn].stream = turns[up.turn].stream
      BY <1>4, <1>5
    <3>3. (Answered(st)' <=> Answered(st)) /\ up'.turn = up.turn
      BY <1>2, <1>3, <3>2 DEF Answered, SameEvent
    <3> QED
      BY <3>1, <3>3
  <2>2. UNCHANGED <<queue, wire, made, closed>> /\ up.at \in Attached /\ \A st \in Streams : PipeOK(st)
    BY <1>2 DEF SInv, Attached
  <2> QED
    BY <2>1, <2>2, PipesStay
<1> QED
  BY <1>8, <1>9, <1>10, <1>11, <1>12, <1>13, <1>14 DEF SInv

\* An event reached the client; a terminal one ends its turn.
LEMMA UpForwards ==
    ASSUME SInv, ForwardUpstream
    PROVE  SInv'
<1> DEFINE p == IF up.event = "limit" THEN "closing" ELSE "read"
<1>1. /\ up \in UpStates /\ UpOK(up) /\ TypeOK /\ CountInv /\ TurnsOK /\ ReaderOK(reader) /\ pin \in PinStates
  BY DEF SInv, TypeOK
<1>2. /\ up.at = "forward" /\ up' = UpAt(up, p)
      /\ UNCHANGED <<pin, closed, cancelled, made, named, running, nativeVars, others, wire, sent>>
  BY DEF ForwardUpstream, UpTo, UpAt
<1>3. SameEvent(up', up) /\ up'.at = p /\ p \in {"closing", "read"}
  BY <1>1, <1>2, UpAtIs DEF UpPlaces
<1>4. pin.native /\ reader.at \notin {"worker", "done"} /\ ~reader.first
  <2>1. pin.native /\ reader.at \notin {"worker", "done"}
    BY <1>2, UpRuns
  <2> QED
    BY <1>1, <2>1 DEF ReaderOK
<1>5. CASE up.event = "delta"
  <2>1. UNCHANGED <<turns, queue, pending, bodies, accountTurns, remembered, binding>>
    BY <1>5 DEF ForwardUpstream
  <2>2. UNCHANGED <<closed, cancelled, turnVars, nativeVars, outerVars>> /\ pin' = pin
    BY <1>2, <2>1 DEF turnVars, outerVars, storeVars
  <2>3. UpOK(up)'
    BY <1>1, <1>2, <1>3, <1>4, <2>2 DEF UpOK, SameEvent, Attached, Moving
  <2>4. up' \in UpStates /\ up'.at # "transfer" /\ up.at \in Attached /\ up.at \notin {"off", "transfer"}
    BY <1>2, <1>3 DEF SameEvent, Attached, Moving
  <2>5. \A st \in Streams : (Answered(st)' <=> Answered(st)) /\ (Answered(st) => up'.turn = up.turn)
    BY <1>3, <1>5 DEF Answered, SameEvent
  <2> QED
    BY <1>1, <2>2, <2>3, <2>4, <2>5, UpOnly
<1>6. CASE up.event # "delta"
  <2> DEFINE t == up.turn
             Same == /\ Live' = Live \ {t} /\ pending' <= pending
                     /\ \A u \in Turns : /\ turns'[u].stream = turns[u].stream
                                         /\ turns'[u].prev = turns[u].prev
                                         /\ turns'[u].forwarded = turns[u].forwarded
  <2>1. finishTurn(t) /\ NativeFinish(t) /\ t \in Turns \cup {NoTurn} /\ reader' = reader
    BY <1>1, <1>2, <1>6 DEF ForwardUpstream, NativeFinish, nativeVars, UpStates
  <2>2. \A a \in Accounts : /\ One(ReaderHolds(reader, a))' = One(ReaderHolds(reader, a))
                            /\ One(UpHolds(up, a))' = One(UpHolds(up, a))
    BY <1>2, <1>3, <2>1 DEF ReaderHolds, UpHolds, One
  <2>3. Same => ReaderOK(reader)'
    <3>1. made \in Turns \/ made = 0
      BY <1>1 DEF TypeOK, Turns
    <3>2. Same /\ reader'.at = "append" => pending' < MaxTurnsPerConnection
      <4>1. pending \in Nat /\ MaxTurnsPerConnection \in Nat /\ (reader.at = "append" => pending < MaxTurnsPerConnection)
        BY <1>1, SessionAssumptions DEF TypeOK, ReaderOK
      <4>2. Same => pending' <= pending /\ pending' \in Nat
        BY <1>1, <1>6, <2>1, <2>2, FinishKeeps, <1>2
      <4> QED
        BY <2>1, <4>1, <4>2
    <3> QED
      BY <1>1, <1>2, <1>4, <2>1, <3>1, <3>2 DEF ReaderOK, SentTurns, Own, Opening, nativeVars
  <2>4. UpOK(up)'
    BY <1>1, <1>2, <1>3, <1>4 DEF UpOK, SameEvent, Attached, Moving
  <2>5. ASSUME NEW s \in Streams PROVE PipeOK(s)'
    <3> SUFFICES ASSUME up'.at = "read", ~closed PROVE PipeOK(s)'
      BY <1>2, <1>3 DEF PipeOK, Attached, Moving
    <3> DEFINE q == queue[s]
               w == wire[s]
               after == queue'[s]
               x == One(Answered(s))
               z == One(Unwritten(s))
    <3>1. ~Answered(s)' /\ (Unwritten(s)' <=> Unwritten(s)) /\ wire' = wire /\ made' = made
      BY <1>2, <2>1 DEF Answered, Unwritten
    <3>2. One(Answered(s))' = 0 /\ One(Unwritten(s))' = z
      BY <3>1 DEF One
    <3>3. /\ Len(q) = x + Len(w) + z
          /\ \A i \in 1..Len(w) : w[i] = q[i + x]
          /\ Answered(s) => q[1] = t
          /\ Unwritten(s) => q[Len(q)] = made
      BY <1>2 DEF SInv, PipeOK, Attached
    <3>4. /\ q \in Seq(Turns) /\ w \in Seq(Turns) /\ x \in {0, 1} /\ z \in {0, 1}
          /\ Len(q) \in Nat /\ Len(w) \in Nat
      BY <1>1 DEF TypeOK, One
    <3>5. CASE ~Answered(s)
      <4>1. after = q
        <5>1. CASE t \in Live
          <6>1. turns[t].stream # s
            BY <1>2, <1>6, <3>5, <5>1 DEF Answered, Live, Turns, NoTurn
          <6> QED
            BY <1>1, <2>1, <5>1, <6>1, FinishesQueue
        <5>2. CASE t \notin Live
          BY <1>1, <2>1, <5>2, FinishesNothing
        <5> QED
          BY <5>1, <5>2
      <4>2. x = 0
        BY <3>5 DEF One
      <4>3. Len(after) = 0 + Len(w) + z /\ \A i \in 1..Len(w) : w[i] = after[i + 0]
        BY <3>3, <4>1, <4>2
      <4>4. Unwritten(s)' => after[Len(after)] = made
        BY <3>1, <3>3, <4>1
      <4> HIDE DEF x, z
      <4> QED
        BY <3>1, <3>2, <4>3, <4>4 DEF PipeOK
    <3>6. CASE Answered(s)
      <4>1. x = 1
        BY <3>6 DEF One
      <4>2. 1 \in DOMAIN q /\ q[1] = t
        <5> HIDE DEF x, z, q, w
        <5>1. Len(q) >= 1
          BY <3>3, <3>4, <4>1
        <5>2. 1 \in DOMAIN q
          BY <3>4, <5>1
        <5> QED
          BY <3>3, <3>6, <5>2
      <4>3. t \in Live
        BY <1>1, <4>2, QueuedTurns
      <4>4. /\ Len(after) = Len(q) - 1
            /\ \A i \in 1..(Len(q) - 1) : after[i] = IF i < 1 THEN q[i] ELSE q[i + 1]
        BY <1>1, <2>1, <4>2, <4>3, FinishesAt
      <4> HIDE DEF x, z, q, w, after
      <4>5. Len(after) = 0 + Len(w) + z
        BY <3>3, <3>4, <4>1, <4>4
      <4>6. ASSUME NEW i \in 1..Len(w) PROVE w[i] = after[i + 0]
        <5>1. i \in 1..(Len(q) - 1) /\ ~(i < 1) /\ i + 0 = i
          BY <3>3, <3>4, <4>1
        <5>2. after[i] = q[i + 1]
          BY <4>4, <5>1
        <5> QED
          BY <3>3, <4>1, <5>1, <5>2
      <4>7. Unwritten(s)' => after[Len(after)] = made
        <5> SUFFICES ASSUME Unwritten(s) PROVE after[Len(after)] = made
          BY <3>1
        <5>1. z = 1
          BY DEF z, One
        <5>2. Len(after) \in 1..(Len(q) - 1) /\ ~(Len(after) < 1) /\ Len(after) + 1 = Len(q)
          BY <3>3, <3>4, <4>1, <4>4, <5>1
        <5> QED
          BY <3>3, <4>4, <5>2
      <4> QED
        BY <3>1, <3>2, <4>5, <4>6, <4>7 DEF PipeOK, w, after
    <3> QED
      BY <3>5, <3>6
  <2>6. Same => ReaderOK(reader)' /\ UpOK(up)' /\ \A s \in Streams : PipeOK(s)'
    BY <2>3, <2>4, <2>5
  <2>7. /\ One(reader'.body) = One(reader.body) /\ reader' \in ReaderStates /\ up' \in UpStates
        /\ reader.at # "worker" /\ reader'.at # "worker" /\ (reader'.first => reader.first)
    BY <1>1, <1>3, <1>4, <2>1 DEF TypeOK, SameEvent
  <2> QED
    BY <1>4, <2>1, <2>2, <2>6, <2>7, NativeFinishes
<1> QED
  BY <1>5, <1>6

\* The upstream answers the oldest request of a stream, and the session takes
\* the oldest turn of the stream for it: they are the same.
LEMMA UpReads ==
    ASSUME SInv, NEW st \in Streams, NEW e \in {"delta", "completed", "failed", "limit"},
           UpstreamEvent(st, e)
    PROVE  SInv'
<1> DEFINE p == IF e = "limit" THEN "limit" ELSE "observe"
           t == Head(queue[st])
<1>1. /\ up \in UpStates /\ UpOK(up) /\ TypeOK /\ CountInv /\ TurnsOK /\ ReaderOK(reader)
      /\ queue \in [Streams -> Seq(Turns)] /\ wire \in [Streams -> Seq(Turns)]
  BY DEF SInv, TypeOK
<1>2. /\ up.at = "read" /\ ~cancelled /\ wire[st] # <<>>
      /\ up' = UpSees(p, currentTurn(st), Head(wire[st]), e)
      /\ wire' = (IF e = "delta" THEN wire ELSE [wire EXCEPT ![st] = Tail(@)])
      /\ UNCHANGED <<sessionVars, nativeVars, accountTurns, others, bodies, binding, sent>>
  BY DEF UpstreamEvent, UpSees
<1>3. /\ pin.native /\ pin.pinned /\ reader.at \notin {"worker", "done"} /\ ~reader.first /\ ~closed
  <2>1. pin.native /\ pin.pinned /\ reader.at \notin {"worker", "done"}
    BY <1>2, UpRuns
  <2> QED
    BY <1>1, <1>2, <2>1 DEF ReaderOK, SInv, CloseInv
<1>4. \A s \in Streams : /\ ~Answered(s) /\ One(Answered(s)) = 0
                         /\ Len(queue[s]) = Len(wire[s]) + One(Unwritten(s))
                         /\ \A i \in 1..Len(wire[s]) : wire[s][i] = queue[s][i]
                         /\ Unwritten(s) => queue[s][Len(queue[s])] = made
  <2> TAKE s \in Streams
  <2>1. ~Answered(s) /\ One(Answered(s)) = 0
    BY <1>2 DEF Answered, One
  <2>2. /\ Len(queue[s]) = 0 + Len(wire[s]) + One(Unwritten(s))
        /\ \A i \in 1..Len(wire[s]) : wire[s][i] = queue[s][i + 0]
        /\ Unwritten(s) => queue[s][Len(queue[s])] = made
    BY <1>2, <1>3, <2>1 DEF SInv, PipeOK, Attached
  <2>3. Len(wire[s]) \in Nat
    BY <1>1
  <2>4. 0 + Len(wire[s]) = Len(wire[s]) /\ \A i \in 1..Len(wire[s]) : i + 0 = i
    BY <2>3
  <2> QED
    BY <2>1, <2>2, <2>4
<1>5. /\ Len(wire[st]) \in Nat \ {0} /\ 1 \in 1..Len(wire[st]) /\ Head(wire[st]) = wire[st][1]
      /\ Len(queue[st]) \in Nat /\ One(Unwritten(st)) \in {0, 1}
  <2>1. wire[st] \in Seq(Turns) /\ queue[st] \in Seq(Turns)
    BY <1>1
  <2>2. Len(wire[st]) \in Nat \ {0} /\ Head(wire[st]) = wire[st][1] /\ Len(queue[st]) \in Nat
    BY <1>2, <2>1
  <2> QED
    BY <2>2 DEF One
<1>6. /\ queue[st] # <<>> /\ 1 \in DOMAIN queue[st] /\ t = queue[st][1] /\ Head(wire[st]) = t
      /\ currentTurn(st) = t
  <2>1. Len(queue[st]) >= 1 /\ wire[st][1] = queue[st][1]
    BY <1>4, <1>5
  <2>2. queue[st] \in Seq(Turns)
    BY <1>1
  <2>3. queue[st] # <<>> /\ 1 \in DOMAIN queue[st] /\ t = queue[st][1]
    BY <2>1, <2>2
  <2> QED
    BY <1>5, <2>1, <2>3 DEF currentTurn
<1> HIDE DEF t
<1>7. t \in Turns /\ t # NoTurn /\ t \in Live /\ turns[t].stream = st /\ t <= made
  BY <1>1, <1>6, QueuedTurns DEF TurnsOK
<1>8. up' \in UpStates /\ up'.at = p /\ up'.turn = t /\ up'.of = t /\ up'.event = e
  <2>1. p \in UpPlaces
    BY DEF UpPlaces
  <2>2. up' = UpSees(p, t, t, e)
    BY <1>2, <1>6
  <2> HIDE DEF p
  <2> QED
    BY <1>7, <2>1, <2>2, UpSeesIs
<1>9. /\ wire' \in [Streams -> Seq(Turns)] /\ \A s \in Streams \ {st} : wire'[s] = wire[s]
      /\ e = "delta" => wire' = wire
      /\ e # "delta" => wire'[st] = Tail(wire[st])
  <2>1. Tail(wire[st]) \in Seq(Turns)
    BY <1>1, <1>2
  <2> QED
    BY <1>1, <1>2, <2>1
<1>10. UNCHANGED <<turns, queue, pending, made, reader, closed, pin>>
  BY <1>2 DEF sessionVars, turnVars, nativeVars
<1> USE DEF sessionVars, turnVars, nativeVars
<1>11. Live' = Live
  BY <1>10, TurnsStay
<1>12. TypeOK'
  BY <1>1, <1>2, <1>8, <1>9 DEF TypeOK
<1>13. CountInv'
  <2>1. \A a \in Accounts : /\ One(ReaderHolds(reader, a))' = One(ReaderHolds(reader, a))
                            /\ One(UpHolds(up, a))' = One(UpHolds(up, a))
    BY <1>2, <1>8, <1>10 DEF ReaderHolds, UpHolds, One
  <2>2. bodies \in Nat
    BY <1>1 DEF TypeOK
  <2> QED
    BY <1>1, <1>2, <2>1, <2>2, CountsStay
<1>14. PinInv' /\ CloseInv' /\ TurnsOK' /\ SentOK'
  BY <1>2, <1>3, <1>11 DEF SInv, PinInv, CloseInv, TurnsOK, SentOK
<1>15. UpOK(up)'
  BY <1>3, <1>7, <1>8, <1>10 DEF UpOK, Attached, Moving
<1>16. ReaderOK(reader)'
  BY <1>1, <1>2, <1>3, <1>11 DEF ReaderOK, SentTurns
<1>17. (\A s \in Streams : BridgeOK(s, bridge[s])' /\ QueueOK(s)') /\ NoStrandedTurn'
  BY <1>2, <1>3, NativeRest
<1>18. ASSUME NEW s \in Streams PROVE PipeOK(s)'
  <2>1. Unwritten(s)' <=> Unwritten(s)
    BY <1>10 DEF Unwritten
  <2>2. Answered(s)' <=> (e # "delta" /\ s = st)
    BY <1>7, <1>8, <1>10 DEF Answered
  <2>3. One(Unwritten(s))' = One(Unwritten(s)) /\ One(Answered(s))' = One(e # "delta" /\ s = st)
    BY <2>1, <2>2 DEF One
  <2>4. CASE ~(e # "delta" /\ s = st)
    <3>1. wire'[s] = wire[s] /\ One(Answered(s))' = 0
      BY <1>9, <2>3, <2>4 DEF One
    <3>2. Len(wire[s]) \in Nat /\ One(Unwritten(s)) \in {0, 1}
      BY <1>1 DEF One
    <3>3. 0 + Len(wire[s]) = Len(wire[s]) /\ \A i \in 1..Len(wire[s]) : i + 0 = i
      BY <3>2
    <3> QED
      BY <1>4, <1>10, <2>1, <2>2, <2>3, <2>4, <3>1, <3>3 DEF PipeOK
  <2>5. CASE e # "delta" /\ s = st
    <3> DEFINE q == queue[s]
               w == wire[s]
               left == wire'[s]
               z == One(Unwritten(s))
    <3>1. left = Tail(w) /\ One(Answered(s))' = 1 /\ w \in Seq(Turns) /\ w # <<>>
      BY <1>1, <1>2, <1>9, <2>3, <2>5 DEF One
    <3>2. Len(left) = Len(w) - 1 /\ \A i \in 1..(Len(w) - 1) : left[i] = w[i + 1]
      BY <3>1
    <3>3. /\ Len(q) = Len(w) + z /\ \A i \in 1..Len(w) : w[i] = q[i]
          /\ (Unwritten(s) => q[Len(q)] = made) /\ q[1] = up'.turn
      BY <1>4, <1>6, <1>8, <2>5
    <3>4. Len(w) \in Nat \ {0} /\ z \in {0, 1} /\ Len(q) \in Nat
      BY <1>5, <2>5
    <3> HIDE DEF q, w, left, z
    <3>5. Len(q) = 1 + Len(left) + z
      BY <3>2, <3>3, <3>4
    <3>6. ASSUME NEW i \in 1..Len(left) PROVE left[i] = q[i + 1]
      <4>1. i \in 1..(Len(w) - 1) /\ i + 1 \in 1..Len(w)
        BY <3>2, <3>4
      <4> QED
        BY <3>2, <3>3, <4>1
    <3> QED
      BY <1>10, <2>1, <2>3, <3>1, <3>3, <3>5, <3>6 DEF PipeOK, q, left, z
  <2> QED
    BY <2>4, <2>5
<1> QED
  BY <1>12, <1>13, <1>14, <1>15, <1>16, <1>17, <1>18 DEF SInv

-----------------------------------------------------------------------------
(* The client reader pins the session.                                     *)

\* The account that the store answered for is written back.
LEMMA ReaderResolves ==
    ASSUME SInv, ResolveWrites
    PROVE  SInv'
<1>1. reader \in ReaderStates /\ ReaderOK(reader) /\ pin \in PinStates /\ TypeOK
  BY DEF SInv, TypeOK
<1>2. /\ reader.at = "resolve" /\ reader' = At(reader, "pin")
      /\ pin' = (IF reader.account # NoAccount THEN [pin EXCEPT !.account = reader.account] ELSE pin)
      /\ UNCHANGED <<closed, cancelled, turnVars, workerVars, outerVars>>
  BY DEF ResolveWrites, At
<1>3. SameRequest(reader', reader) /\ reader'.at = "pin" /\ reader'.body = reader.body
  BY <1>1, <1>2, ReaderAt DEF ReaderPlaces
<1>4. /\ pin' \in PinStates /\ pin'.pinned = pin.pinned /\ pin'.native = pin.native
      /\ pin'.switching = pin.switching /\ pin'.upstream = pin.upstream
      /\ pin'.account = pin.account \/ pin'.account \in Accounts
  <2>1. reader.account # NoAccount => reader.account \in Accounts
    BY <1>1 DEF ReaderStates, AnyAccount
  <2> QED
    BY <1>1, <1>2, <2>1 DEF PinStates, AnyAccount
<1> USE DEF turnVars, workerVars, outerVars, storeVars
<1>5. Live' = Live
  BY <1>2, TurnsStay
<1>6. TypeOK'
  BY <1>1, <1>2, <1>3, <1>4 DEF TypeOK, SameRequest
<1>7. CountInv'
  <2>1. \A a \in Accounts : /\ One(ReaderHolds(reader, a))' = One(ReaderHolds(reader, a))
                            /\ One(UpHolds(up, a))' = One(UpHolds(up, a))
    BY <1>2, <1>3 DEF ReaderHolds, UpHolds, One
  <2>2. bodies \in Nat /\ One(reader'.body) = One(reader.body) /\ One(reader.body) \in {0, 1}
    BY <1>1, <1>3 DEF TypeOK, One
  <2> QED
    BY <1>2, <2>1, <2>2, CountsStay DEF SInv
<1>8. PinInv' /\ CloseInv' /\ TurnsOK' /\ SentOK'
  BY <1>2, <1>3, <1>4, <1>5 DEF SInv, PinInv, CloseInv, TurnsOK, SentOK
<1>9. UpOK(up)'
  BY <1>2, <1>3, <1>4 DEF SInv, UpOK
<1>10. ReaderOK(reader)'
  BY <1>1, <1>2, <1>3, <1>4 DEF ReaderOK, SameRequest, Early, Own, Opening
<1>11. \A st \in Streams : BridgeOK(st, bridge[st])'
  BY <1>2, <1>3, <1>4 DEF SInv, BridgeOK, SentTurns, SameRequest
<1>12. \A st \in Streams : QueueOK(st)'
  BY <1>2, <1>3, <1>4 DEF SInv, QueueOK, SentTurns, Own, Opening
<1>13. \A st \in Streams : PipeOK(st)'
  <2>1. \A st \in Streams : (Unwritten(st)' <=> Unwritten(st)) /\ (Answered(st)' <=> Answered(st))
    BY <1>2, <1>3 DEF Unwritten, Answered
  <2> QED
    BY <1>2, <2>1, PipesStay DEF SInv
<1>14. NoStrandedTurn'
  BY <1>2, <1>3, <1>4, <1>5 DEF SInv, NoStrandedTurn
<1> QED
  BY <1>6, <1>7, <1>8, <1>9, <1>10, <1>11, <1>12, <1>13, <1>14 DEF SInv

\* A session without turns or workers.
LEMMA PinsEmpty ==
    ASSUME SInv, Live = {}, \A st \in Streams : ~running[st] /\ wire[st] = <<>>, up.at = "off",
           UNCHANGED <<closed, cancelled, turnVars, bridge, closer, idle, accountTurns, storeVars, bodies>>,
           reader' \in ReaderStates, reader'.body = reader.body,
           reader.at \in Early \ {"append"}, reader'.at \in Early \ {"append"},
           pin' \in PinStates, up' \in UpStates, up'.at \in {"off", "read"},
           PinInv', UpOK(up)', ReaderOK(reader)'
    PROVE  SInv'
<1> USE DEF turnVars, storeVars
<1>1. Live' = {}
  BY TurnsStay
<1>2. TypeOK'
  BY DEF SInv, TypeOK
<1>3. CountInv'
  <2>1. \A a \in Accounts : /\ One(ReaderHolds(reader, a))' = One(ReaderHolds(reader, a))
                            /\ One(UpHolds(up, a))' = One(UpHolds(up, a))
    BY DEF ReaderHolds, UpHolds, One, Early
  <2>2. bodies \in Nat /\ One(reader'.body) = One(reader.body) /\ One(reader.body) \in {0, 1}
    BY DEF SInv, TypeOK, One
  <2> QED
    BY <2>1, <2>2, CountsStay DEF SInv
<1>4. CloseInv' /\ TurnsOK' /\ SentOK' /\ NoStrandedTurn'
  BY <1>1 DEF SInv, CloseInv, TurnsOK, SentOK, NoStrandedTurn
<1>5. \A st \in Streams : queue'[st] = <<>>
  <2> TAKE st \in Streams
  <2> DEFINE q == queue'[st]
  <2>1. q \in Seq(Turns) /\ {q[i] : i \in DOMAIN q} = {}
    BY <1>1, <1>2, <1>3 DEF TypeOK, CountInv, PendingExact
  <2> HIDE DEF q
  <2>2. DOMAIN q = {}
    BY <2>1
  <2>3. Len(q) = 0
    <3>1. Len(q) \in Nat /\ DOMAIN q = 1..Len(q)
      BY <2>1
    <3>2. Len(q) # 0 => 1 \in 1..Len(q)
      BY <3>1
    <3> QED
      BY <2>2, <3>1, <3>2
  <2>4. q = <<>>
    BY <2>1, <2>3, EmptySeq
  <2> QED
    BY <2>4 DEF q
<1>6. \A st \in Streams : BridgeOK(st, bridge[st])' /\ QueueOK(st)'
  <2> TAKE st \in Streams
  <2>1. bridge[st].at = "off" /\ bridge[st].turn = NoTurn /\ ~running'[st]
    BY DEF SInv, BridgeOK
  <2>2. BridgeOK(st, bridge[st])'
    BY <2>1 DEF BridgeOK
  <2>3. DOMAIN queue'[st] = {}
    BY <1>5
  <2> QED
    BY <2>2, <2>3 DEF QueueOK
<1>7. \A st \in Streams : PipeOK(st)'
  <2> TAKE st \in Streams
  <2> SUFFICES ASSUME up'.at = "read" PROVE PipeOK(st)'
    BY DEF PipeOK, Attached, Moving
  <2>1. ~Answered(st)' /\ ~Unwritten(st)'
    BY DEF Answered, Unwritten, Early
  <2>2. One(Answered(st))' = 0 /\ One(Unwritten(st))' = 0 /\ wire'[st] = <<>>
    BY <2>1 DEF One
  <2>3. Len(queue'[st]) = 0 + Len(wire'[st]) + 0 /\ 1..Len(wire'[st]) = {}
    BY <1>5, <2>2
  <2> QED
    BY <2>1, <2>2, <2>3 DEF PipeOK
<1> QED
  BY <1>2, <1>3, <1>4, <1>6, <1>7 DEF SInv

\* The request is pinned to an account that is bridged or was dialled, and the
\* upstream reader of a dialled one is started.
LEMMA ReaderPins ==
    ASSUME SInv, PinBridge \/ DialSucceeds \/ StartUpstreamReader
    PROVE  SInv'
<1>1. reader \in ReaderStates /\ ReaderOK(reader) /\ pin \in PinStates /\ up \in UpStates
      /\ made \in 0..MaxTurns
  BY DEF SInv, TypeOK
<1>3. UNCHANGED <<closed, cancelled, turnVars, bridge, closer, idle, accountTurns, storeVars>>
  BY DEF PinBridge, DialSucceeds, StartUpstreamReader, sessionVars, workerVars
<1>4. reader.at \in {"dial", "worker"} /\ made < MaxTurns
  BY <1>1 DEF PinBridge, DialSucceeds, StartUpstreamReader, ReaderOK, Early
<1>5. CASE closed
  <2>1. UNCHANGED <<sessionVars, workerVars, accountTurns, storeVars>> /\ reader' = IdleReader /\ bodies' = bodies - 1
    BY <1>5, <1>3 DEF PinBridge, DialSucceeds, StartUpstreamReader, Reject, sessionVars, workerVars
  <2>2. reader.at \in Early \ {"append"}
    BY <1>4 DEF Early
  <2> QED
    BY <2>1, <2>2, ReaderRefuses
<1>6. ASSUME ~closed, reader.at = "dial"
      PROVE  Live = {} /\ (\A st \in Streams : ~running[st] /\ wire[st] = <<>>) /\ up.at = "off"
             /\ ~pin.native /\ reader.account \in Accounts /\ ~reader.first
  <2>1. ~pin.pinned /\ reader.account \in Accounts /\ ~reader.first
    BY <1>1, <1>6 DEF ReaderOK, Own, Opening
  <2>2. ~pin.native /\ Live = {}
    BY <2>1 DEF SInv, PinInv
  <2> QED
    BY <2>1, <2>2 DEF SInv, PinInv, UpOK, BridgeOK
<1>7. CASE PinBridge /\ ~closed
  <2>1. /\ reader.at = "dial" /\ bodies' = bodies /\ up' = up
        /\ pin' = [pinned |-> TRUE, native |-> FALSE, switching |-> pin.switching,
                   account |-> reader.account, upstream |-> NoAccount]
        /\ reader' = PinnedBridge(reader, reader.prev = NoResponse)
    BY <1>7 DEF PinBridge, PinTo, PinnedBridge, workerVars
  <2>2. /\ Live = {} /\ (\A st \in Streams : ~running[st] /\ wire[st] = <<>>) /\ up.at = "off"
        /\ reader.account \in Accounts
    BY <1>6, <1>7, <2>1
  <2>3. (reader.prev = NoResponse) \in BOOLEAN
    OBVIOUS
  <2>4. /\ reader' \in ReaderStates /\ reader'.at = "validate" /\ reader'.account = reader.account
        /\ reader'.first /\ reader'.failover = (reader.prev = NoResponse)
        /\ reader'.prev = reader.prev /\ reader'.body = reader.body
    BY <1>1, <2>1, <2>3, ReaderPinnedBridge
  <2>5. pin' \in PinStates /\ pin'.pinned /\ ~pin'.native /\ pin'.account = reader.account
    BY <1>1, <2>1, <2>2 DEF PinStates, AnyAccount
  <2>6. Live' = {}
    BY <1>3, <2>2, TurnsStay DEF turnVars
  <2>7. PinInv'
    BY <1>3, <2>2, <2>5, <2>6 DEF PinInv, storeVars
  <2>8. UpOK(up)'
    BY <1>3, <2>1, <2>2 DEF SInv, UpOK, Attached, Moving, turnVars
  <2>9. ReaderOK(reader)'
    BY <1>1, <1>3, <1>4, <2>1, <2>4, <2>5, <2>6 DEF ReaderOK, Early, Own, Opening, turnVars
  <2>10. /\ reader.at \in Early \ {"append"} /\ reader'.at \in Early \ {"append"}
         /\ up' \in UpStates /\ up'.at \in {"off", "read"}
    BY <1>1, <2>1, <2>2, <2>4 DEF Early
  <2> QED
    BY <1>3, <2>1, <2>2, <2>4, <2>5, <2>7, <2>8, <2>9, <2>10, PinsEmpty
<1>8. CASE DialSucceeds /\ ~closed
  <2>1. /\ reader.at = "dial" /\ bodies' = bodies /\ up' = up
        /\ pin' = [pinned |-> TRUE, native |-> TRUE, switching |-> pin.switching,
                   account |-> reader.account, upstream |-> reader.account]
        /\ reader' = At(reader, "worker")
    BY <1>8 DEF DialSucceeds, PinTo, At, ReaderTo, workerVars
  <2>2. /\ Live = {} /\ (\A st \in Streams : ~running[st] /\ wire[st] = <<>>) /\ up.at = "off"
        /\ reader.account \in Accounts /\ ~reader.first
    BY <1>6, <1>8, <2>1
  <2>3. SameRequest(reader', reader) /\ reader'.at = "worker" /\ reader'.body = reader.body
    BY <1>1, <2>1, ReaderAt DEF ReaderPlaces
  <2>4. pin' \in PinStates /\ pin'.pinned /\ pin'.native /\ pin'.account \in Accounts /\ pin'.upstream \in Accounts
    BY <1>1, <2>1, <2>2 DEF PinStates, AnyAccount
  <2>5. Live' = {}
    BY <1>3, <2>2, TurnsStay DEF turnVars
  <2>6. PinInv'
    BY <1>3, <2>2, <2>4, <2>5 DEF PinInv, storeVars
  <2>7. UpOK(up)'
    BY <1>3, <2>1, <2>2 DEF SInv, UpOK, Attached, Moving, turnVars
  <2>8. ReaderOK(reader)'
    BY <1>1, <1>3, <1>4, <2>1, <2>2, <2>3, <2>4, <2>5 DEF ReaderOK, SameRequest, Early, Own, Opening, turnVars
  <2>9. /\ reader.at \in Early \ {"append"} /\ reader'.at \in Early \ {"append"}
        /\ up' \in UpStates /\ up'.at \in {"off", "read"} /\ reader' \in ReaderStates
    BY <1>1, <2>1, <2>2, <2>3 DEF Early, SameRequest
  <2> QED
    BY <1>3, <2>1, <2>2, <2>3, <2>4, <2>6, <2>7, <2>8, <2>9, PinsEmpty
<1>9. CASE StartUpstreamReader /\ ~closed
  <2> DEFINE u == [IdleUp EXCEPT !.at = "read"]
  <2>1. reader.at = "worker" /\ bodies' = bodies /\ pin' = pin /\ up' = u /\ reader' = At(reader, "validate")
    BY <1>9 DEF StartUpstreamReader, At, ReaderTo, sessionVars
  <2>2. u \in UpStates /\ u.at = "read" /\ u.turn = NoTurn
    BY DEF UpStates, UpPlaces, IdleUp, AnyAccount
  <2> HIDE DEF u
  <2>3. pin.native /\ up.at = "off" /\ Live = {} /\ ~reader.first
    BY <1>1, <2>1 DEF ReaderOK, Own, Opening
  <2>4. pin.pinned /\ \A st \in Streams : ~running[st] /\ wire[st] = <<>>
    BY <2>1, <2>3 DEF SInv, PinInv, BridgeOK
  <2>5. SameRequest(reader', reader) /\ reader'.at = "validate" /\ reader'.body = reader.body
    BY <1>1, <2>1, ReaderAt DEF ReaderPlaces
  <2>6. Live' = {}
    BY <1>3, <2>3, TurnsStay DEF turnVars
  <2>7. PinInv'
    BY <1>3, <2>1, <2>4, <2>6 DEF SInv, PinInv, storeVars
  <2>8. UpOK(up)'
    BY <1>1, <1>3, <2>1, <2>2, <2>3 DEF UpOK, Attached, Moving, turnVars, NoTurn
  <2>9. ReaderOK(reader)'
    BY <1>1, <1>3, <1>4, <2>1, <2>3, <2>4, <2>5 DEF ReaderOK, SameRequest, Early, Own, Opening, turnVars
  <2>10. /\ reader.at \in Early \ {"append"} /\ reader'.at \in Early \ {"append"} /\ reader' \in ReaderStates
    BY <2>1, <2>5 DEF Early, SameRequest
  <2> QED
    BY <1>1, <1>3, <2>1, <2>2, <2>3, <2>4, <2>5, <2>7, <2>8, <2>9, <2>10, PinsEmpty
<1> QED
  BY <1>5, <1>7, <1>8, <1>9

-----------------------------------------------------------------------------
(* Turns that the client reader reserves, appends and moves.               *)

\* The reader takes or returns a turn of an account, and nothing else moves.
LEMMA ReaderAccounts ==
    ASSUME SInv, UNCHANGED <<sessionVars, workerVars, storeVars>>,
           reader' \in ReaderStates, reader.at \notin {"dispatch", "worker", "done"},
           reader'.at \notin {"dispatch", "worker", "done"},
           reader.at \in Opening <=> reader'.at \in Opening, reader'.first => reader.first,
           ReaderOK(reader)', accountTurns' \in [Accounts -> Nat], AccountTurnsExact',
           bodies' \in Nat, bodies' - One(reader'.body) = bodies - One(reader.body)
    PROVE  SInv'
<1> USE DEF sessionVars, turnVars, workerVars, storeVars
<1>1. Live' = Live
  BY TurnsStay
<1>2. TypeOK'
  BY DEF SInv, TypeOK
<1>3. PendingExact'
  BY <1>1 DEF SInv, CountInv, PendingExact
<1>4. BodiesReleased'
  <2> DEFINE c == Cardinality(Live)
             x == One(reader.body)
             y == One(reader'.body)
  <2>1. x \in {0, 1} /\ y \in {0, 1} /\ bodies \in Nat /\ c \in Nat
    BY TurnsAreFinite DEF SInv, TypeOK, One, Live
  <2>2. bodies = c + x
    BY DEF SInv, CountInv, BodiesReleased
  <2> HIDE DEF c, x, y
  <2>3. bodies' = c + y
    <3>1. bodies' - y = bodies - x
      BY DEF x, y
    <3> QED
      BY <2>1, <2>2, <3>1
  <2> QED
    BY <1>1, <2>3 DEF BodiesReleased, c, y, One
<1>5. PinInv' /\ CloseInv' /\ TurnsOK' /\ SentOK'
  BY <1>1 DEF SInv, PinInv, CloseInv, TurnsOK, SentOK
<1>6. UpOK(up)'
  BY DEF SInv, UpOK
<1>7. \A st \in Streams : BridgeOK(st, bridge[st])'
  BY DEF SInv, BridgeOK, SentTurns
<1>8. \A st \in Streams : QueueOK(st)'
  BY DEF SInv, QueueOK, SentTurns
<1>9. \A st \in Streams : PipeOK(st)'
  <2>1. \A st \in Streams : (Unwritten(st)' <=> Unwritten(st)) /\ (Answered(st)' <=> Answered(st))
    BY DEF Unwritten, Answered
  <2> QED
    BY <2>1, PipesStay DEF SInv
<1>10. NoStrandedTurn'
  BY <1>1 DEF SInv, NoStrandedTurn, Opening
<1> QED
  BY <1>2, <1>3, <1>4, <1>5, <1>6, <1>7, <1>8, <1>9, <1>10 DEF SInv, CountInv

\* reserveTurn, first section: the account's turn, or the request is refused.
LEMMA ReaderReserves ==
    ASSUME SInv, ReserveAccountTurn
    PROVE  SInv'
<1>1. reader \in ReaderStates /\ ReaderOK(reader) /\ pin \in PinStates /\ TypeOK /\ CountInv
      /\ reader.at = "reserve" /\ UNCHANGED <<sessionVars, workerVars, storeVars>>
  BY DEF SInv, TypeOK, ReserveAccountTurn
<1>2. CASE TurnAdmissible /\ HasTurnCapacity(pin.account)
  <2> DEFINE a == pin.account
  <2>1. /\ accountTurns' = Reserved(accountTurns, a) /\ bodies' = bodies
        /\ reader' = AtAccount(reader, "append", a) /\ pending < MaxTurnsPerConnection
    BY <1>1, <1>2 DEF ReserveAccountTurn, TurnAdmissible, AtAccount
  <2>2. a \in Accounts /\ pin.pinned
    BY <1>1 DEF ReaderOK, SInv, PinInv
  <2>3. HasTurnCapacity(a)
    BY <1>2
  <2> HIDE DEF a
  <2>4. SameRequest(reader', reader) /\ reader'.at = "append" /\ reader'.account = a /\ reader'.body = reader.body
    BY <1>1, <2>1, <2>2, ReaderAtAccount DEF ReaderPlaces, AnyAccount
  <2>5. \A x \in Accounts : One(ReaderHolds(reader, x))' + One(UpHolds(up, x))'
                              = One(ReaderHolds(reader, x)) + One(UpHolds(up, x)) + One(x = a)
    BY <1>1, <2>4 DEF ReaderHolds, UpHolds, One, workerVars
  <2>6. accountTurns' \in [Accounts -> Nat] /\ AccountTurnsExact'
    <3>1. UNCHANGED <<turns, others>>
      BY <1>1 DEF sessionVars, turnVars, storeVars
    <3> QED
      BY <1>1, <2>1, <2>2, <2>3, <2>5, <3>1, Reserves
  <2>7. Live' = Live
    BY <1>1, TurnsStay DEF sessionVars, turnVars
  <2>8. ReaderOK(reader)'
    BY <1>1, <2>1, <2>2, <2>4, <2>7 DEF ReaderOK, SameRequest, Early, Own, Opening, sessionVars, turnVars
  <2>9. bodies' \in Nat /\ bodies' - One(reader'.body) = bodies - One(reader.body)
    BY <1>1, <2>1, <2>4 DEF TypeOK
  <2> QED
    BY <1>1, <2>4, <2>6, <2>8, <2>9, ReaderAccounts DEF SameRequest, Opening
<1>3. CASE ~(TurnAdmissible /\ HasTurnCapacity(pin.account))
  <2>1. reader' = IdleReader /\ bodies' = bodies - 1 /\ accountTurns' = accountTurns
    BY <1>1, <1>3 DEF ReserveAccountTurn, Reject
  <2> QED
    BY <1>1, <2>1, ReaderRefuses DEF Early
<1> QED
  BY <1>2, <1>3

\* The account a failover goes on to: with a turn, passed over, or none.
LEMMA ReaderMovesOn ==
    ASSUME SInv, MoveBridge
    PROVE  SInv'
<1>1. reader \in ReaderStates /\ ReaderOK(reader) /\ TypeOK /\ CountInv
      /\ reader.at = "move" /\ UNCHANGED <<sessionVars, workerVars, storeVars, bodies>>
  BY DEF SInv, TypeOK, MoveBridge
<1>2. Live' = Live /\ UNCHANGED <<turns, others>>
  BY <1>1, TurnsStay DEF sessionVars, turnVars, storeVars
<1>3. SentTurns' = SentTurns
  BY <1>1 DEF SentTurns, storeVars
<1>4. ASSUME NEW a \in Accounts, HasTurnCapacity(a), accountTurns' = Reserved(accountTurns, a),
             reader' = AtAttempt(reader, "transfer", a, reader.attempted \cup {a})
      PROVE  SInv'
  <2>1. reader.attempted \cup {a} \in SUBSET Accounts
    BY <1>1 DEF ReaderStates
  <2>2. SameRequest(reader', reader) /\ reader'.at = "transfer" /\ reader'.account = a /\ reader'.body = reader.body
    BY <1>1, <1>4, <2>1, ReaderAtAttempt DEF ReaderPlaces
  <2>3. \A x \in Accounts : One(ReaderHolds(reader, x))' + One(UpHolds(up, x))'
                              = One(ReaderHolds(reader, x)) + One(UpHolds(up, x)) + One(x = a)
    BY <1>1, <2>2 DEF ReaderHolds, UpHolds, One, workerVars
  <2>4. accountTurns' \in [Accounts -> Nat] /\ AccountTurnsExact'
    BY <1>1, <1>2, <1>4, <2>3, Reserves
  <2>5. ReaderOK(reader)'
    BY <1>1, <1>2, <1>3, <2>2 DEF ReaderOK, SameRequest, Early, Own, Opening, sessionVars, turnVars
  <2>6. bodies' \in Nat /\ bodies' - One(reader'.body) = bodies - One(reader.body)
    BY <1>1, <2>2 DEF TypeOK
  <2> QED
    BY <1>1, <2>2, <2>4, <2>5, <2>6, ReaderAccounts DEF SameRequest, Opening
<1>5. ASSUME accountTurns' = accountTurns, SameRequest(reader', reader), reader'.body = reader.body,
             reader'.at \in {"move", "failed"}
      PROVE  SInv'
  <2>1. \A x \in Accounts : /\ One(ReaderHolds(reader, x))' = One(ReaderHolds(reader, x))
                            /\ One(UpHolds(up, x))' = One(UpHolds(up, x))
    BY <1>1, <1>5 DEF ReaderHolds, UpHolds, One, workerVars
  <2>2. bodies \in Nat /\ bodies' \in Nat /\ bodies' - One(reader'.body) = bodies - One(reader.body)
    BY <1>1, <1>5 DEF TypeOK
  <2>3. CountInv'
    BY <1>1, <1>5, <2>1, <2>2, CountsStay DEF sessionVars, turnVars, storeVars
  <2>4. ReaderOK(reader)'
    BY <1>1, <1>2, <1>3, <1>5 DEF ReaderOK, SameRequest, Early, Own, Opening, sessionVars, turnVars
  <2>5. accountTurns' \in [Accounts -> Nat] /\ AccountTurnsExact'
    BY <1>1, <1>5, <2>3 DEF TypeOK, CountInv
  <2> QED
    BY <1>1, <1>5, <2>2, <2>4, <2>5, ReaderAccounts DEF SameRequest, Opening
<1>6. ASSUME NEW a \in Accounts, accountTurns' = accountTurns,
             reader' = Attempted(reader, reader.attempted \cup {a})
      PROVE  SInv'
  <2>1. reader.attempted \cup {a} \in SUBSET Accounts
    BY <1>1 DEF ReaderStates
  <2> QED
    BY <1>1, <1>5, <1>6, <2>1, ReaderAttempted
<1>7. ASSUME accountTurns' = accountTurns, reader' = AtReset(reader, "failed", TRUE)
      PROVE  SInv'
  <2>1. "failed" \in ReaderPlaces
    BY DEF ReaderPlaces
  <2>2. SameRequest(reader', reader) /\ reader'.body = reader.body /\ reader'.at = "failed"
    BY <1>1, <1>7, <2>1, ReaderAtReset
  <2> QED
    BY <1>5, <1>7, <2>2
<1> QED
  BY <1>4, <1>6, <1>7 DEF MoveBridge, AtAttempt, Attempted, AtReset

\* A queue with one turn more at its end.
LEMMA AppendedIs ==
    ASSUME NEW q \in Seq(Turns), NEW t \in Turns
    PROVE  /\ Append(q, t) \in Seq(Turns) /\ Len(Append(q, t)) = Len(q) + 1
           /\ DOMAIN Append(q, t) = DOMAIN q \cup {Len(q) + 1} /\ Len(q) + 1 \notin DOMAIN q
           /\ Append(q, t)[Len(q) + 1] = t
           /\ \A i \in DOMAIN q : Append(q, t)[i] = q[i]
<1>1. Len(q) \in Nat /\ DOMAIN q = 1..Len(q)
  OBVIOUS
<1>2. Append(q, t) \in Seq(Turns) /\ Len(Append(q, t)) = Len(q) + 1 /\ Append(q, t)[Len(q) + 1] = t
  OBVIOUS
<1>3. DOMAIN Append(q, t) = 1..(Len(q) + 1)
  BY <1>2
<1>4. 1..(Len(q) + 1) = 1..Len(q) \cup {Len(q) + 1}
  BY <1>1
<1> QED
  BY <1>1, <1>2, <1>3, <1>4

\* The reader appends turn made + 1 to the queue of its request's stream.
AppendsTurn(r, t) ==
    /\ t = made + 1 /\ made' = t
    /\ turns' = [turns EXCEPT ![t] = Turn(r.stream, r.account, r.prev)]
    /\ queue' = [queue EXCEPT ![r.stream] = Append(queue[r.stream], t)]
    /\ named' = IF r.stream = DefaultStream THEN named ELSE named \cup {r.stream}
    /\ pending' = pending + 1

\* The turn is new to the session, and live.
LEMMA AppendsTo ==
    ASSUME TypeOK, CountInv, TurnsOK, SentOK, NEW t, made < MaxTurns, AppendsTurn(reader, t),
           reader.account \in Accounts
    PROVE  /\ t \in Turns /\ t \notin Live /\ t \notin SentTurns /\ made' \in 0..MaxTurns
           /\ turns' \in [Turns -> TurnStates] /\ Live' = Live \cup {t}
           /\ turns'[t] = Turn(reader.stream, reader.account, reader.prev)
           /\ \A u \in Turns : u # t => turns'[u] = turns[u]
           /\ named' \subseteq Streams
<1>1. /\ made \in 0..MaxTurns /\ MaxTurns \in Nat /\ reader \in ReaderStates /\ turns \in [Turns -> TurnStates]
      /\ named \subseteq Streams
  BY SessionAssumptions DEF TypeOK
<1>2. t \in 1..MaxTurns /\ made' \in 0..MaxTurns /\ t = made + 1 /\ t > made
  BY <1>1 DEF AppendsTurn
<1>3. t \in Turns
  BY <1>2 DEF Turns
<1>4. t \notin Live
  BY <1>1, <1>2 DEF TurnsOK
<1>5. t \notin SentTurns
  BY <1>1, <1>2 DEF SentOK, SentTurns
<1> DEFINE n == Turn(reader.stream, reader.account, reader.prev)
<1>6. n \in TurnStates /\ ~n.finished
  BY <1>1 DEF Turn, TurnStates, ReaderStates, Terminals, AnyAccount
<1>7. turns' = [turns EXCEPT ![t] = n]
  BY DEF AppendsTurn
<1> HIDE DEF n
<1>8. turns' \in [Turns -> TurnStates] /\ turns'[t] = n /\ \A u \in Turns : u # t => turns'[u] = turns[u]
  BY <1>1, <1>3, <1>6, <1>7
<1>9. Live' = Live \cup {t}
  BY <1>3, <1>6, <1>8 DEF Live
<1>10. named' \subseteq Streams
  BY <1>1 DEF AppendsTurn, ReaderStates
<1> QED
  BY <1>2, <1>3, <1>4, <1>5, <1>8, <1>9, <1>10 DEF n

\* The queues: its stream's has the turn at the end, the others stay.
LEMMA AppendsQueue ==
    ASSUME TypeOK, CountInv, NEW t \in Turns, AppendsTurn(reader, t)
    PROVE  /\ queue' \in [Streams -> Seq(Turns)]
           /\ \A st \in Streams :
                IF st = reader.stream
                THEN /\ Len(queue'[st]) = Len(queue[st]) + 1
                     /\ DOMAIN queue'[st] = DOMAIN queue[st] \cup {Len(queue[st]) + 1}
                     /\ Len(queue[st]) + 1 \notin DOMAIN queue[st]
                     /\ queue'[st][Len(queue[st]) + 1] = t
                     /\ \A i \in DOMAIN queue[st] : queue'[st][i] = queue[st][i]
                ELSE queue'[st] = queue[st]
<1>1. reader \in ReaderStates /\ queue \in [Streams -> Seq(Turns)]
  BY DEF TypeOK
<1> DEFINE s == reader.stream
           q == queue[s]
           after == Append(q, t)
<1>2. s \in Streams
  BY <1>1 DEF ReaderStates
<1>3. q \in Seq(Turns)
  BY <1>1, <1>2
<1>4. queue' = [queue EXCEPT ![s] = after]
  BY DEF AppendsTurn
<1>5. /\ after \in Seq(Turns) /\ Len(after) = Len(q) + 1
      /\ DOMAIN after = DOMAIN q \cup {Len(q) + 1} /\ Len(q) + 1 \notin DOMAIN q
      /\ after[Len(q) + 1] = t
      /\ \A i \in DOMAIN q : after[i] = q[i]
  <2> HIDE DEF q
  <2> QED
    BY <1>3, AppendedIs
<1> HIDE DEF after
<1>6. queue'[s] = after /\ \A st \in Streams \ {s} : queue'[st] = queue[st]
  BY <1>1, <1>2, <1>4
<1>7. queue' \in [Streams -> Seq(Turns)]
  BY <1>1, <1>2, <1>4, <1>5
<1> QED
  BY <1>5, <1>6, <1>7

\* The turn the reader held on the account is a live one now.
LEMMA AppendCounts ==
    ASSUME TypeOK, CountInv, NEW t \in Turns, t \notin Live, AppendsTurn(reader, t),
           Live' = Live \cup {t}, turns'[t] = Turn(reader.stream, reader.account, reader.prev),
           \A u \in Turns : u # t => turns'[u] = turns[u],
           reader.at = "append", reader.body, reader'.at = "dispatch", ~reader'.body,
           pending < MaxTurnsPerConnection, UNCHANGED <<up, others, accountTurns, bodies>>
    PROVE  CountInv'
<1>1. turns'[t].account = reader.account /\ turns'[t].stream = reader.stream
  BY DEF Turn
<1>2. Live \in SUBSET Turns /\ Cardinality(Live) \in Nat
  BY TurnsAreFinite DEF Live
<1>3. Cardinality(Live') = Cardinality(Live) + 1
  BY <1>2, OneMore
<1>4. AccountTurnsExact'
  <2> SUFFICES ASSUME NEW a \in Accounts PROVE HeldOn(a)' = HeldOn(a)
    BY DEF CountInv, AccountTurnsExact
  <2> DEFINE c == Cardinality(LiveOn(a))
             d == Cardinality(LiveOn(a)')
             x == One(ReaderHolds(reader, a))
             y == One(UpHolds(up, a))
             k == One(reader.account = a)
  <2>1. LiveOn(a) \in SUBSET Turns /\ LiveOn(a) \subseteq Live /\ \A u \in Live : u # t
    BY DEF LiveOn, Live
  <2>2. c \in Nat /\ x = k /\ y \in {0, 1} /\ k \in {0, 1} /\ HeldOn(a) = c + x + y
    BY <2>1, TurnsAreFinite, HeldIs DEF ReaderHolds, One
  <2>3. One(ReaderHolds(reader, a))' = 0
    BY DEF ReaderHolds, One
  <2>4. HeldOn(a)' = d + One(ReaderHolds(reader, a))' + One(UpHolds(up, a))'
    BY DEF HeldOn, LiveOn, ReaderHolds, UpHolds
  <2>5. One(UpHolds(up, a))' = y
    BY DEF UpHolds, One
  <2>6. d = c + k
    <3>1. CASE reader.account = a
      <4>1. LiveOn(a)' = LiveOn(a) \cup {t}
        BY <1>1, <2>1, <3>1 DEF LiveOn, Live
      <4>2. d = c + 1
        BY <2>1, <4>1, OneMore
      <4> QED
        BY <3>1, <4>2 DEF One
    <3>2. CASE reader.account # a
      <4>1. LiveOn(a)' = LiveOn(a)
        BY <1>1, <2>1, <3>2 DEF LiveOn, Live
      <4> QED
        BY <2>2, <3>2, <4>1 DEF One
    <3> QED
      BY <3>1, <3>2
  <2> HIDE DEF c, d, x, y, k
  <2> QED
    BY <2>2, <2>3, <2>4, <2>5, <2>6
<1>5. PendingExact'
  <2>1. pending' = Cardinality(Live') /\ pending' <= MaxTurnsPerConnection
    <3>1. pending \in Nat /\ pending = Cardinality(Live) /\ pending' = pending + 1 /\ MaxTurnsPerConnection \in Nat
      BY SessionAssumptions DEF TypeOK, CountInv, PendingExact, AppendsTurn
    <3> QED
      BY <1>3, <3>1
  <2>2. ASSUME NEW st \in Streams
        PROVE  /\ \A i, j \in DOMAIN queue'[st] : i # j => queue'[st][i] # queue'[st][j]
               /\ {queue'[st][i] : i \in DOMAIN queue'[st]} = {u \in Live' : turns'[u].stream = st}
    <3> DEFINE q == queue[st]
               after == queue'[st]
               S == {u \in Live : turns[u].stream = st}
    <3>1. /\ \A i, j \in DOMAIN q : i # j => q[i] # q[j]
          /\ {q[i] : i \in DOMAIN q} = S
      BY DEF CountInv, PendingExact
    <3>2. \A u \in Live : u \in Turns /\ u # t
      BY DEF Live
    <3>3. CASE st # reader.stream
      <4>1. after = q
        BY <3>3, AppendsQueue
      <4>2. {u \in Live' : turns'[u].stream = st} = S
        BY <1>1, <3>2, <3>3
      <4> QED
        BY <3>1, <4>1, <4>2
    <3>4. CASE st = reader.stream
      <4> DEFINE k == Len(q) + 1
      <4>1. /\ DOMAIN after = DOMAIN q \cup {k} /\ k \notin DOMAIN q /\ after[k] = t
            /\ \A i \in DOMAIN q : after[i] = q[i]
        BY <3>4, AppendsQueue
      <4>2. {u \in Live' : turns'[u].stream = st} = S \cup {t}
        BY <1>1, <3>2, <3>4
      <4>3. t \notin S
        OBVIOUS
      <4> HIDE DEF q, after, S, k
      <4>4. \A i \in DOMAIN q : q[i] # t
        BY <3>1, <4>3
      <4>5. \A i, j \in DOMAIN after : i # j => after[i] # after[j]
        BY <3>1, <4>1, <4>4
      <4>6. {after[i] : i \in DOMAIN after} = S \cup {t}
        BY <3>1, <4>1
      <4> QED
        BY <4>2, <4>5, <4>6 DEF q, after, S
    <3> QED
      BY <3>3, <3>4
  <2> QED
    BY <2>1, <2>2 DEF PendingExact
<1>6. BodiesReleased'
  <2>1. bodies = Cardinality(Live) + 1
    BY DEF CountInv, BodiesReleased, One
  <2>2. bodies' = Cardinality(Live') + 0
    BY <1>2, <1>3, <2>1
  <2> QED
    BY <2>2 DEF BodiesReleased, One
<1> QED
  BY <1>4, <1>5, <1>6 DEF CountInv

\* reserveTurn, second section: the turn is appended, or given back to its
\* account because the session was closed or is being moved by now.
LEMMA ReaderAppends ==
    ASSUME SInv, AppendTurn
    PROVE  SInv'
<1>1. reader \in ReaderStates /\ ReaderOK(reader) /\ pin \in PinStates /\ TypeOK /\ CountInv /\ TurnsOK
      /\ SentOK /\ UpOK(up) /\ reader.at = "append"
      /\ UNCHANGED <<pin, closed, cancelled, running, remembered, workerVars, storeVars>>
  BY DEF SInv, TypeOK, AppendTurn
<1>2. /\ reader.account \in Accounts /\ reader.body /\ made < MaxTurns /\ pin.pinned
      /\ pending < MaxTurnsPerConnection
  BY <1>1 DEF ReaderOK, Early
<1> DEFINE b == reader.account
<1>3. CASE ~StillAdmissible
  <2>1. /\ reader' = IdleReader /\ bodies' = bodies - 1 /\ accountTurns' = Released(accountTurns, b)
        /\ UNCHANGED <<sessionVars, workerVars, storeVars>>
    BY <1>1, <1>3 DEF AppendTurn, Reject, sessionVars, turnVars
  <2>2. Refused(reader')
    BY <2>1, IdleReaderIs
  <2>3. \A x \in Accounts : One(ReaderHolds(reader, x))' + One(UpHolds(up, x))' + One(x = b)
                              = One(ReaderHolds(reader, x)) + One(UpHolds(up, x))
    BY <1>1, <2>2 DEF ReaderHolds, UpHolds, One, workerVars, Refused
  <2>4. accountTurns' \in [Accounts -> Nat] /\ AccountTurnsExact'
    <3>1. UNCHANGED <<turns, others>>
      BY <2>1 DEF sessionVars, turnVars, storeVars
    <3>2. b \in Accounts
      BY <1>2
    <3> HIDE DEF b
    <3> QED
      BY <1>1, <2>1, <2>3, <3>1, <3>2, Releases
  <2>5. ReaderOK(reader)'
    BY <2>2 DEF Refused, ReaderOK, Early, Own, Opening
  <2>6. bodies' \in Nat /\ bodies' - One(reader'.body) = bodies - One(reader.body)
    <3>1. bodies - 1 \in Nat /\ bodies \in Nat
      BY <1>1, <1>2, BodyHeld DEF TypeOK
    <3>2. One(reader.body) = 1 /\ One(reader'.body) = 0
      BY <1>2, <2>2 DEF Refused, One
    <3> QED
      BY <2>1, <3>1, <3>2
  <2>7. reader' \in ReaderStates /\ reader'.at \in {"read", "closing"} /\ ~reader'.first
    BY <2>2 DEF Refused
  <2> QED
    BY <1>1, <2>1, <2>4, <2>5, <2>6, <2>7, ReaderAccounts DEF Opening
<1>4. CASE StillAdmissible
  <2> DEFINE t == made + 1
             s == reader.stream
  <2>1. /\ AppendsTurn(reader, t) /\ reader' = Dispatched(reader)
        /\ UNCHANGED <<pin, closed, cancelled, running, remembered, workerVars, storeVars, bodies, accountTurns>>
        /\ ~closed /\ ~pin.switching
    BY <1>1, <1>4 DEF AppendTurn, AppendsTurn, StillAdmissible, Dispatched
  <2> HIDE DEF t
  <2> USE DEF workerVars, storeVars
  <2>2. /\ SameRequest(reader', reader) /\ reader'.at = "dispatch" /\ reader'.account = b /\ ~reader'.body
    BY <1>1, <2>1, ReaderDispatched
  <2>3. /\ t \in Turns /\ t \notin Live /\ t \notin SentTurns /\ made' \in 0..MaxTurns
        /\ turns' \in [Turns -> TurnStates] /\ Live' = Live \cup {t}
        /\ turns'[t] = Turn(s, b, reader.prev)
        /\ \A u \in Turns : u # t => turns'[u] = turns[u]
        /\ named' \subseteq Streams
    BY <1>1, <1>2, <2>1, AppendsTo
  <2>4. /\ queue' \in [Streams -> Seq(Turns)]
        /\ \A st \in Streams :
             IF st = s
             THEN /\ Len(queue'[st]) = Len(queue[st]) + 1
                  /\ DOMAIN queue'[st] = DOMAIN queue[st] \cup {Len(queue[st]) + 1}
                  /\ Len(queue[st]) + 1 \notin DOMAIN queue[st]
                  /\ queue'[st][Len(queue[st]) + 1] = t
                  /\ \A i \in DOMAIN queue[st] : queue'[st][i] = queue[st][i]
             ELSE queue'[st] = queue[st]
    BY <1>1, <2>1, <2>3, AppendsQueue
  <2>5. CountInv'
    BY <1>1, <1>2, <2>1, <2>2, <2>3, AppendCounts
  <2>6. /\ made' = t /\ t = made + 1 /\ pending' = pending + 1 /\ pending \in Nat /\ made \in Nat
        /\ made' > 0 /\ made <= made' /\ made < t
    BY <1>1, <2>1 DEF AppendsTurn, TypeOK
  <2>7. /\ turns'[t].stream = s /\ turns'[t].account = b /\ turns'[t].prev = reader.prev
        /\ ~turns'[t].forwarded
    BY <2>3 DEF Turn
  <2>8. TypeOK'
    <3>1. pending' \in Nat
      BY <2>6
    <3> QED
      BY <1>1, <2>1, <2>2, <2>3, <2>4, <3>1 DEF TypeOK, SameRequest
  <2>9. PinInv'
    BY <1>1, <1>2, <2>1, <2>2 DEF SInv, PinInv
  <2>10. CloseInv'
    BY <2>1 DEF SInv, CloseInv
  <2>11. TurnsOK'
    <3> SUFFICES ASSUME NEW u \in Live' PROVE u <= made' /\ turns'[u].account \in Accounts
      BY DEF TurnsOK
    <3>1. CASE u = t
      BY <1>2, <2>6, <2>7, <3>1
    <3>2. CASE u # t
      <4>1. u \in Live /\ u \in Turns /\ turns'[u] = turns[u]
        BY <2>3, <3>2 DEF Live
      <4>2. u <= made /\ turns[u].account \in Accounts /\ u \in Nat
        BY <1>1, <4>1 DEF TurnsOK, Turns
      <4> QED
        BY <2>6, <4>1, <4>2
    <3> QED
      BY <3>1, <3>2
  <2>12. SentOK'
    <3>1. \A x \in sent : x.turn \in Nat
      BY <1>1 DEF TypeOK, Requests, Turns
    <3> QED
      BY <1>1, <2>1, <2>6, <3>1 DEF SentOK
  <2>13. up.turn \in Nat /\ up.turn <= made /\ up.turn # t /\ (up.turn # NoTurn => up.turn \in Turns)
    <3>1. up.turn \in Turns \cup {NoTurn}
      BY <1>1 DEF TypeOK, UpStates
    <3>2. up.turn \in Nat
      BY <3>1 DEF Turns, NoTurn
    <3> QED
      BY <1>1, <2>6, <3>1, <3>2 DEF UpOK
  <2>14. UpOK(up)'
    <3>1. up.turn <= made'
      BY <2>6, <2>13
    <3>2. up.at \notin Moving
      BY <1>1, <2>1 DEF UpOK
    <3> QED
      BY <1>1, <2>1, <3>1, <3>2 DEF UpOK, Moving
  <2>15. ReaderOK(reader)'
    <3>1. made' \notin SentTurns'
      BY <2>1, <2>3, <2>6 DEF SentTurns
    <3>2. reader.first => ~pin.native /\ Live' \subseteq {made'}
      BY <1>1, <2>3, <2>6 DEF ReaderOK, Own, Opening
    <3>3. reader.failover => reader.prev = NoResponse
      BY <1>1 DEF ReaderOK
    <3> QED
      BY <1>2, <2>1, <2>2, <2>6, <2>7, <3>1, <3>2, <3>3 DEF ReaderOK, SameRequest, Early, Own, Opening
  <2>16. \A st \in Streams : BridgeOK(st, bridge[st])'
    <3> TAKE st \in Streams
    <3> DEFINE g == bridge[st]
    <3>1. BridgeOK(st, g) /\ g.turn \in Turns \cup {NoTurn}
      BY <1>1 DEF SInv, TypeOK, BridgeStates
    <3>2. g.turn # NoTurn => turns'[g.turn].stream = st /\ g.turn <= made'
      <4> SUFFICES ASSUME g.turn # NoTurn PROVE turns'[g.turn].stream = st /\ g.turn <= made'
        OBVIOUS
      <4>1. g.turn \in Turns /\ g.turn \in Nat /\ g.turn <= made /\ turns[g.turn].stream = st
        BY <3>1 DEF BridgeOK, Turns
      <4> QED
        BY <2>3, <2>6, <4>1
    <3>3. g.at = "route" => g.turn \notin SentTurns'
      BY <2>1, <3>1 DEF BridgeOK, SentTurns
    <3> HIDE DEF g
    <3>4. bridge'[st] = g
      BY <2>1 DEF g
    <3> QED
      BY <2>1, <2>2, <3>1, <3>2, <3>3, <3>4 DEF BridgeOK, SameRequest
  <2>17. \A st \in Streams : QueueOK(st)'
    <3> TAKE st \in Streams
    <3> SUFFICES ASSUME ~pin.native, NEW i \in DOMAIN queue'[st], queue'[st][i] \in SentTurns
                 PROVE  \/ i = 1 /\ bridge[st].at = "loop" /\ bridge[st].initial
                        \/ bridge[st].turn = queue'[st][i]
                        \/ closed /\ ~running[st]
      BY <2>1 DEF QueueOK, SentTurns
    <3>1. i \in DOMAIN queue[st] /\ queue'[st][i] = queue[st][i]
      BY <2>3, <2>4
    <3>2. QueueOK(st) /\ reader.at \notin Opening
      BY <1>1 DEF SInv, Opening
    <3> QED
      BY <3>1, <3>2 DEF QueueOK
  <2>18. \A st \in Streams : PipeOK(st)'
    <3> TAKE st \in Streams
    <3> SUFFICES ASSUME up.at \in Attached, ~closed PROVE PipeOK(st)'
      BY <2>1 DEF PipeOK
    <3> DEFINE q == queue[st]
               after == queue'[st]
               w == wire[st]
               x == One(Answered(st))
               z == One(Unwritten(st)')
    <3>1. ~Unwritten(st) /\ (Unwritten(st)' <=> st = s)
      BY <1>1, <2>2 DEF Unwritten, SameRequest
    <3>2. Answered(st)' <=> Answered(st)
      BY <2>1, <2>3, <2>13 DEF Answered
    <3>3. /\ Len(q) = x + Len(w) + 0 /\ (Answered(st) => q[1] = up.turn)
          /\ \A i \in 1..Len(w) : w[i] = q[i + x]
      BY <3>1 DEF SInv, PipeOK, One
    <3>4. /\ q \in Seq(Turns) /\ w \in Seq(Turns)
      BY <1>1 DEF TypeOK
    <3>5. /\ Len(q) \in Nat /\ Len(w) \in Nat /\ x \in {0, 1} /\ DOMAIN q = 1..Len(q)
          /\ One(Answered(st)') = x /\ (Answered(st) => x = 1) /\ z = One(st = s)
      BY <3>1, <3>2, <3>4 DEF One
    <3>6. /\ Len(after) = Len(q) + z /\ \A i \in DOMAIN q : after[i] = q[i]
          /\ st = s => after[Len(after)] = t
      <4>1. CASE st = s
        <5>1. z = 1
          BY <3>5, <4>1 DEF One
        <5>2. /\ Len(after) = Len(q) + 1 /\ after[Len(q) + 1] = t
              /\ \A i \in DOMAIN q : after[i] = q[i]
          BY <2>4, <4>1
        <5> QED
          BY <5>1, <5>2
      <4>2. CASE st # s
        <5>1. z = 0
          BY <3>5, <4>2 DEF One
        <5>2. after = q
          BY <2>4, <4>2
        <5> HIDE DEF after, q
        <5> QED
          BY <3>5, <4>2, <5>1, <5>2
      <4> QED
        BY <4>1, <4>2
    <3> HIDE DEF q, after, w, x, z
    <3>7. Len(after) = x + Len(w) + z
      BY <3>3, <3>5, <3>6 DEF One
    <3>8. \A i \in 1..Len(w) : w[i] = after[i + x]
      <4> TAKE i \in 1..Len(w)
      <4>1. i + x \in DOMAIN q
        BY <3>3, <3>5
      <4> QED
        BY <3>3, <3>6, <4>1
    <3>9. Answered(st) => after[1] = up.turn
      <4>1. Answered(st) => 1 \in DOMAIN q
        BY <3>3, <3>5
      <4> QED
        BY <3>3, <3>6, <4>1
    <3>10. /\ Len(queue'[st]) = One(Answered(st)') + Len(wire'[st]) + One(Unwritten(st)')
           /\ \A i \in 1..Len(wire'[st]) : wire'[st][i] = queue'[st][i + One(Answered(st)')]
      BY <2>1, <3>5, <3>7, <3>8 DEF q, after, w, z
    <3>11. /\ Answered(st)' => queue'[st][1] = up'.turn
           /\ Unwritten(st)' => queue'[st][Len(queue'[st])] = made'
      BY <2>1, <2>6, <3>1, <3>2, <3>6, <3>9 DEF after
    <3> QED
      BY <3>10, <3>11 DEF PipeOK, One
  <2>19. NoStrandedTurn'
    <3> SUFFICES ASSUME ~pin.native, ~cancelled, NEW u \in Live', u # made'
                 PROVE  bridge[turns'[u].stream].at # "off"
      BY <2>1, <2>2 DEF NoStrandedTurn
    <3>1. u \in Live /\ turns'[u] = turns[u]
      BY <2>3, <2>6 DEF Live
    <3> QED
      BY <1>1, <3>1 DEF SInv, NoStrandedTurn
  <2> QED
    BY <2>5, <2>8, <2>9, <2>10, <2>11, <2>12, <2>14, <2>15, <2>16, <2>17, <2>18, <2>19 DEF SInv
<1> QED
  BY <1>3, <1>4

\* The first request of a bridged session: nobody else works on it.
LEMMA FirstRequest ==
    ASSUME SInv, reader.first
    PROVE  /\ ~pin.native /\ pin.pinned /\ pin.account \in Accounts /\ up.at = "off"
           /\ \A st \in Streams : ~running[st] /\ bridge[st].at = "off" /\ bridge[st].turn = NoTurn
<1>1. ReaderOK(reader) /\ PinInv /\ UpOK(up) /\ \A st \in Streams : BridgeOK(st, bridge[st])
  BY DEF SInv
<1>2. ~pin.native /\ pin.pinned
  BY <1>1 DEF ReaderOK
<1> QED
  BY <1>1, <1>2 DEF PinInv, UpOK, BridgeOK

\* transferBridgeAccount: refused, the reserved turn is given back; otherwise
\* the turn belongs to the next account.
LEMMA ReaderTransfers ==
    ASSUME SInv, TransferBridge
    PROVE  SInv'
<1>1. reader \in ReaderStates /\ ReaderOK(reader) /\ pin \in PinStates /\ TypeOK /\ CountInv /\ TurnsOK
      /\ reader.at = "transfer"
      /\ UNCHANGED <<closed, cancelled, made, queue, named, running, pending, remembered, workerVars,
                     storeVars, bodies>>
  BY DEF SInv, TypeOK, TransferBridge
<1>2. /\ reader.account \in Accounts /\ reader.first /\ reader.failover /\ made > 0 /\ made \in Turns
      /\ turns[made].stream = reader.stream /\ turns[made].prev = reader.prev /\ ~turns[made].forwarded
  <2>1. made > 0 /\ made \in 0..MaxTurns
    BY <1>1 DEF ReaderOK, Own, Opening, TypeOK
  <2>2. made \in Turns
    BY <2>1, SessionAssumptions DEF Turns
  <2> QED
    BY <1>1, <2>1, <2>2 DEF ReaderOK, Own, Opening
<1>3. /\ ~pin.native /\ pin.pinned /\ up.at = "off"
      /\ \A st \in Streams : ~running[st] /\ bridge[st].at = "off" /\ bridge[st].turn = NoTurn
  BY <1>2, FirstRequest
<1> DEFINE b == reader.account
<1>4. CASE closed \/ turns[made].finished
  <2>1. /\ accountTurns' = Released(accountTurns, b) /\ reader' = At(reader, "move")
        /\ UNCHANGED <<sessionVars, workerVars, storeVars>>
    BY <1>1, <1>4 DEF TransferBridge, TransferRefused, ReaderTo, At, sessionVars, turnVars
  <2>2. SameRequest(reader', reader) /\ reader'.at = "move" /\ reader'.body = reader.body
    BY <1>1, <2>1, ReaderAt DEF ReaderPlaces
  <2>3. \A x \in Accounts : One(ReaderHolds(reader, x))' + One(UpHolds(up, x))' + One(x = b)
                              = One(ReaderHolds(reader, x)) + One(UpHolds(up, x))
    BY <1>1, <2>2 DEF ReaderHolds, UpHolds, One, workerVars
  <2>4. Live' = Live /\ UNCHANGED <<turns, others, made, sent, pin>>
    BY <2>1, TurnsStay DEF sessionVars, turnVars, storeVars
  <2>5. accountTurns' \in [Accounts -> Nat] /\ AccountTurnsExact'
    <3>1. b \in Accounts
      BY <1>2
    <3> HIDE DEF b
    <3> QED
      BY <1>1, <2>1, <2>3, <2>4, <3>1, Releases
  <2>6. ReaderOK(reader)'
    BY <1>1, <1>2, <1>3, <2>2, <2>4 DEF ReaderOK, SameRequest, Early, Own, Opening
  <2>7. bodies' \in Nat /\ bodies' - One(reader'.body) = bodies - One(reader.body)
    BY <1>1, <2>2 DEF TypeOK
  <2> QED
    BY <1>1, <2>1, <2>2, <2>5, <2>6, <2>7, ReaderAccounts DEF SameRequest, Opening
<1>5. CASE ~(closed \/ turns[made].finished)
  <2>1. /\ pin' = [pin EXCEPT !.account = b] /\ turns' = [turns EXCEPT ![made].account = b]
        /\ accountTurns' = Released(accountTurns, turns[made].account)
        /\ reader' = At(reader, "attempt")
    BY <1>5 DEF TransferBridge, ReaderTo, At
  <2>2. made \in Live
    BY <1>2, <1>5 DEF Live
  <2>3. SameRequest(reader', reader) /\ reader'.at = "attempt" /\ reader'.body = reader.body
    BY <1>1, <2>1, ReaderAt DEF ReaderPlaces
  <2>4. \A a \in Accounts : One(ReaderHolds(reader, a))' + One(UpHolds(up, a))' + One(a = b)
                              = One(ReaderHolds(reader, a)) + One(UpHolds(up, a))
    BY <1>1, <2>3 DEF ReaderHolds, UpHolds, One, workerVars
  <2> USE DEF workerVars, storeVars
  <2>5. b \in Accounts /\ others' = others
    BY <1>1, <1>2
  <2>6. /\ pin' \in PinStates /\ pin'.native = pin.native /\ pin'.pinned = pin.pinned
        /\ pin'.account = b /\ pin'.upstream = pin.upstream /\ pin'.switching = pin.switching
    BY <1>1, <2>1, <2>5 DEF PinStates, AnyAccount
  <2> HIDE DEF b
  <2>7. /\ turns' \in [Turns -> TurnStates] /\ Live' = Live /\ turns'[made].account = b
        /\ \A u \in Turns : /\ turns'[u].stream = turns[u].stream
                            /\ turns'[u].prev = turns[u].prev
                            /\ turns'[u].forwarded = turns[u].forwarded
                            /\ u # made => turns'[u].account = turns[u].account
        /\ accountTurns' \in [Accounts -> Nat] /\ AccountTurnsExact'
    BY <1>1, <2>1, <2>2, <2>4, <2>5, Transfers
  <2>8. TypeOK'
    BY <1>1, <2>3, <2>6, <2>7 DEF TypeOK, SameRequest
  <2>9. CountInv'
    <3>1. \A st \in Streams : {u \in Live' : turns'[u].stream = st} = {u \in Live : turns[u].stream = st}
      BY <2>7 DEF Live
    <3>2. PendingExact'
      BY <1>1, <2>7, <3>1 DEF CountInv, PendingExact
    <3>3. BodiesReleased'
      BY <1>1, <2>3, <2>7 DEF CountInv, BodiesReleased, One
    <3> QED
      BY <2>7, <3>2, <3>3 DEF CountInv
  <2>10. PinInv' /\ CloseInv' /\ SentOK'
    BY <1>1, <1>3, <2>3, <2>5, <2>6, <2>7 DEF SInv, PinInv, CloseInv, SentOK
  <2>11. TurnsOK'
    BY <1>1, <2>5, <2>7 DEF TurnsOK, Live
  <2>12. UpOK(up)'
    BY <1>1, <1>3 DEF SInv, UpOK, Attached, Moving
  <2>13. ReaderOK(reader)'
    BY <1>1, <1>2, <1>3, <2>3, <2>6, <2>7 DEF ReaderOK, SameRequest, Early, Own, Opening
  <2>14. \A st \in Streams : BridgeOK(st, bridge[st])'
    BY <1>1, <1>3 DEF BridgeOK
  <2>15. \A st \in Streams : QueueOK(st)'
    BY <1>1, <2>3, <2>6 DEF SInv, QueueOK, SentTurns, Opening
  <2>16. \A st \in Streams : PipeOK(st)'
    BY <1>1, <1>3 DEF PipeOK, Attached, Moving
  <2>17. NoStrandedTurn'
    BY <1>1, <2>3, <2>6, <2>7 DEF SInv, NoStrandedTurn, Live
  <2> QED
    BY <2>8, <2>9, <2>10, <2>11, <2>12, <2>13, <2>14, <2>15, <2>16, <2>17 DEF SInv
<1> QED
  BY <1>4, <1>5

\* An attempt that failed: the turn was sent, and the reader knows whether it
\* may be sent again.
LEMMA ReaderAttemptFails ==
    ASSUME SInv, AttemptFails
    PROVE  SInv'
<1>1. reader \in ReaderStates /\ ReaderOK(reader) /\ TypeOK /\ CountInv /\ SentOK /\ reader.at = "attempt"
      /\ UNCHANGED <<sessionVars, workerVars, accountTurns, others, bodies, binding, wire>>
      /\ Sends(made, pin.account, NoAccount)
  BY DEF SInv, TypeOK, AttemptFails
<1> USE DEF sessionVars, turnVars, workerVars
<1>2. /\ reader.first /\ made \in Turns /\ ~turns[made].forwarded
      /\ turns[made].stream = reader.stream /\ turns[made].prev = reader.prev
      /\ (made \in SentTurns => turns[made].prev = NoResponse)
  <2>1. made > 0 /\ made \in 0..MaxTurns
    BY <1>1 DEF ReaderOK, Own, Opening, TypeOK
  <2>2. made \in Turns
    BY <2>1, SessionAssumptions DEF Turns
  <2> QED
    BY <1>1, <2>2 DEF ReaderOK, Own, Opening
<1>3. /\ ~pin.native /\ pin.pinned /\ pin.account \in Accounts /\ up.at = "off"
      /\ \A st \in Streams : ~running[st] /\ bridge[st].at = "off" /\ bridge[st].turn = NoTurn
  BY <1>2, FirstRequest
<1>4. /\ SameRequest(reader', reader) /\ reader'.body = reader.body /\ reader'.at \in {"failed", "move"}
      /\ (reader'.at = "move" => reader.failover)
  <2> DEFINE Q == /\ SameRequest(reader', reader) /\ reader'.body = reader.body
                  /\ reader'.at \in {"failed", "move"} /\ (reader'.at = "move" => reader.failover)
  <2>1. CASE reader' = At(reader, "move") /\ reader.failover
    BY <1>1, <2>1, ReaderAt DEF ReaderPlaces
  <2>2. ASSUME NEW r \in BOOLEAN, reader' = AtReset(reader, "failed", r) PROVE Q
    BY <1>1, <2>2, ReaderAtReset DEF ReaderPlaces
  <2> QED
    BY <1>1, <2>1, <2>2 DEF AttemptFails, ReaderTo, At, AtReset
<1>5. sent' \subseteq Requests /\ SentOK' /\ SentTurns' = SentTurns \cup {made}
  <2>1. NoAccount \in AnyAccount /\ made <= made /\ made' = made
    BY <1>1, <1>2 DEF AnyAccount, Turns
  <2> QED
    BY <1>1, <1>2, <1>3, <2>1, SendsSafely
<1>6. Live' = Live
  BY <1>1, TurnsStay
<1>7. TypeOK'
  BY <1>1, <1>4, <1>5 DEF TypeOK, SameRequest
<1>8. CountInv'
  <2>1. \A a \in Accounts : /\ One(ReaderHolds(reader, a))' = One(ReaderHolds(reader, a))
                            /\ One(UpHolds(up, a))' = One(UpHolds(up, a))
    BY <1>1, <1>4 DEF ReaderHolds, UpHolds, One
  <2>2. bodies \in Nat /\ bodies' \in Nat /\ bodies' - One(reader'.body) = bodies - One(reader.body)
    BY <1>1, <1>4 DEF TypeOK
  <2> QED
    BY <1>1, <2>1, <2>2, CountsStay
<1>9. PinInv' /\ CloseInv' /\ TurnsOK'
  BY <1>1, <1>4, <1>6 DEF SInv, PinInv, CloseInv, TurnsOK
<1>10. UpOK(up)'
  BY <1>1, <1>3 DEF SInv, UpOK, Attached, Moving
<1>11. ReaderOK(reader)'
  BY <1>1, <1>2, <1>3, <1>4, <1>6 DEF ReaderOK, SameRequest, Early, Own, Opening
<1>12. \A st \in Streams : BridgeOK(st, bridge[st])'
  BY <1>1, <1>3 DEF BridgeOK
<1>13. \A st \in Streams : QueueOK(st)'
  BY <1>1, <1>4, <1>5 DEF SInv, QueueOK, Opening
<1>14. \A st \in Streams : PipeOK(st)'
  BY <1>1, <1>3 DEF PipeOK, Attached, Moving
<1>15. NoStrandedTurn'
  BY <1>1, <1>4, <1>6 DEF SInv, NoStrandedTurn
<1> QED
  BY <1>5, <1>7, <1>8, <1>9, <1>10, <1>11, <1>12, <1>13, <1>14, <1>15 DEF SInv

\* startBridge: a worker for a stream that has none, unless the session closed.
LEMMA StartBridgeIs ==
    ASSUME TypeOK, NEW st \in Streams, NEW init \in BOOLEAN, StartBridge(st, init)
    PROVE  /\ bridge' \in [Streams -> BridgeStates] /\ running' \in [Streams -> BOOLEAN]
           /\ \A s \in Streams : s # st => bridge'[s] = bridge[s] /\ running'[s] = running[s]
           /\ IF closed \/ running[st]
              THEN bridge'[st] = bridge[st] /\ running'[st] = running[st]
              ELSE running'[st] /\ bridge'[st] = [at |-> "loop", turn |-> NoTurn, initial |-> init]
<1>1. bridge \in [Streams -> BridgeStates] /\ running \in [Streams -> BOOLEAN]
  BY DEF TypeOK
<1>2. CASE closed \/ running[st]
  BY <1>1, <1>2 DEF StartBridge
<1>3. CASE ~(closed \/ running[st])
  <2> DEFINE n == [at |-> "loop", turn |-> NoTurn, initial |-> init]
  <2>1. n \in BridgeStates
    BY DEF BridgeStates, BridgePlaces
  <2>2. bridge' = [bridge EXCEPT ![st] = n] /\ running' = [running EXCEPT ![st] = TRUE]
    BY <1>3 DEF StartBridge
  <2> HIDE DEF n
  <2>3. /\ bridge' \in [Streams -> BridgeStates] /\ bridge'[st] = n
        /\ \A s \in Streams : s # st => bridge'[s] = bridge[s]
    BY <1>1, <2>1, <2>2
  <2>4. /\ running' \in [Streams -> BOOLEAN] /\ running'[st]
        /\ \A s \in Streams : s # st => running'[s] = running[s]
    BY <1>1, <2>2
  <2> QED
    BY <1>3, <2>3, <2>4 DEF n
<1> QED
  BY <1>2, <1>3

\* The reader leaves its turn to the worker of the turn's stream.
LEMMA ReaderHandsOver ==
    ASSUME SInv, reader.at \in {"dispatch", "attempt"}, ~pin.native,
           NEW init \in BOOLEAN, StartBridge(reader.stream, init), reader' = IdleReader,
           UNCHANGED <<pin, closed, cancelled, turns, made, queue, named, pending, remembered, up, closer,
                       idle, accountTurns, others, bodies, binding, wire>>,
           sent' \subseteq Requests, SentOK', SentTurns' # SentTurns => reader.first,
           \A st \in Streams : QueueOK(st)'
    PROVE  SInv'
<1>1. reader \in ReaderStates /\ ReaderOK(reader) /\ TypeOK /\ CountInv /\ CloseInv
  BY DEF SInv, TypeOK
<1>2. reader.stream \in Streams /\ up.at = "off" /\ turns[made].stream = reader.stream /\ pin.pinned
      /\ ~reader.body
  BY <1>1 DEF ReaderStates, SInv, UpOK, ReaderOK, Own, Opening, Early
<1> DEFINE s == reader.stream
<1>3. /\ bridge' \in [Streams -> BridgeStates] /\ running' \in [Streams -> BOOLEAN]
      /\ \A st \in Streams : st # s => bridge'[st] = bridge[st] /\ running'[st] = running[st]
      /\ IF closed \/ running[s]
         THEN bridge'[s] = bridge[s] /\ running'[s] = running[s]
         ELSE running'[s] /\ bridge'[s] = [at |-> "loop", turn |-> NoTurn, initial |-> init]
  BY <1>1, <1>2, StartBridgeIs
<1>4. Refused(reader')
  BY IdleReaderIs
<1> HIDE DEF s
<1>5. Live' = Live
  BY TurnsStay
<1>6. TypeOK'
  BY <1>1, <1>3, <1>4 DEF TypeOK, Refused
<1>7. CountInv'
  <2>1. \A a \in Accounts : /\ One(ReaderHolds(reader, a))' = One(ReaderHolds(reader, a))
                            /\ One(UpHolds(up, a))' = One(UpHolds(up, a))
    BY <1>4 DEF ReaderHolds, UpHolds, One, Refused
  <2>2. bodies \in Nat /\ bodies' \in Nat /\ bodies' - One(reader'.body) = bodies - One(reader.body)
    BY <1>1, <1>2, <1>4 DEF TypeOK, One, Refused
  <2> QED
    BY <1>1, <2>1, <2>2, CountsStay
<1>8. PinInv' /\ CloseInv' /\ TurnsOK'
  BY <1>4, <1>5 DEF SInv, PinInv, CloseInv, TurnsOK, Refused
<1>9. UpOK(up)'
  BY <1>2 DEF SInv, UpOK, Attached, Moving
<1>10. ReaderOK(reader)'
  BY <1>4 DEF Refused, ReaderOK, Early, Own, Opening
<1>11. ASSUME NEW st \in Streams PROVE BridgeOK(st, bridge[st])'
  <2>1. BridgeOK(st, bridge[st])
    BY DEF SInv
  <2>2. CASE bridge'[st] = bridge[st] /\ running'[st] = running[st]
    <3>1. bridge[st].at = "route" => bridge[st].turn \notin SentTurns'
      <4>1. reader.first => bridge[st].at = "off"
        BY FirstRequest
      <4> QED
        BY <2>1, <4>1 DEF BridgeOK
    <3>2. ~reader'.first
      BY <1>4 DEF Refused
    <3> DEFINE g == bridge[st]
    <3>3. BridgeOK(st, g) /\ (g.at = "route" => g.turn \notin SentTurns')
      BY <2>1, <3>1
    <3>4. bridge'[st] = g
      BY <2>2
    <3> HIDE DEF g
    <3> QED
      BY <2>2, <3>2, <3>3, <3>4 DEF BridgeOK
  <2>3. CASE running'[st] /\ bridge'[st] = [at |-> "loop", turn |-> NoTurn, initial |-> init]
    <3>1. bridge'[st].at = "loop" /\ bridge'[st].turn = NoTurn /\ ~reader'.first
      BY <1>4, <2>3 DEF Refused
    <3> QED
      BY <1>2, <2>3, <3>1 DEF BridgeOK
  <2> QED
    BY <1>3, <2>2, <2>3
<1>12. \A st \in Streams : PipeOK(st)'
  BY <1>2 DEF PipeOK, Attached, Moving
<1>13. NoStrandedTurn'
  <2> SUFFICES ASSUME ~cancelled, NEW t \in Live PROVE bridge'[turns[t].stream].at # "off"
    BY <1>5 DEF NoStrandedTurn
  <2>1. turns[t].stream \in Streams /\ ~closed
    BY <1>1 DEF Live, TypeOK, TurnStates, CloseInv
  <2>2. bridge[turns[t].stream].at # "off" \/ turns[t].stream = s
    BY <1>2 DEF SInv, NoStrandedTurn, s
  <2>3. bridge'[s].at # "off"
    <3>1. running[s] => bridge[s].at # "off"
      BY <1>2 DEF SInv, BridgeOK, s
    <3> QED
      BY <1>3, <2>1, <3>1
  <2> QED
    BY <1>3, <2>1, <2>2, <2>3
<1> QED
  BY <1>6, <1>7, <1>8, <1>9, <1>10, <1>11, <1>12, <1>13 DEF SInv

\* A bridged turn is dispatched: the first one is attempted by the reader, any
\* other is left to the worker of its stream.
LEMMA ReaderDispatches ==
    ASSUME SInv, DispatchBridge
    PROVE  SInv'
<1>1. reader \in ReaderStates /\ ReaderOK(reader) /\ TypeOK /\ CountInv /\ reader.at = "dispatch" /\ ~pin.native
      /\ UNCHANGED <<pin, closed, cancelled, turns, made, queue, named, pending, remembered, up, closer,
                     idle, outerVars>>
  BY DEF SInv, TypeOK, DispatchBridge
<1> USE DEF outerVars, storeVars
<1>2. CASE reader.first
  <2>1. /\ ~pin.native /\ pin.pinned /\ pin.account \in Accounts /\ up.at = "off"
        /\ \A st \in Streams : ~running[st] /\ bridge[st].at = "off" /\ bridge[st].turn = NoTurn
    BY <1>2, FirstRequest
  <2>2. reader' = AtAttempted(reader, "attempt", {pin.account}) /\ UNCHANGED <<running, bridge>>
    BY <1>2 DEF DispatchBridge, AtAttempted
  <2>3. SameRequest(reader', reader) /\ reader'.at = "attempt" /\ reader'.body = reader.body
    BY <1>1, <2>1, <2>2, ReaderAtAttempted DEF ReaderPlaces
  <2>4. Live' = Live
    BY <1>1, TurnsStay
  <2>5. TypeOK'
    BY <1>1, <2>2, <2>3 DEF TypeOK, SameRequest
  <2>6. CountInv'
    <3>1. \A a \in Accounts : /\ One(ReaderHolds(reader, a))' = One(ReaderHolds(reader, a))
                              /\ One(UpHolds(up, a))' = One(UpHolds(up, a))
      BY <1>1, <2>3 DEF ReaderHolds, UpHolds, One
    <3>2. bodies \in Nat /\ bodies' \in Nat /\ bodies' - One(reader'.body) = bodies - One(reader.body)
      BY <1>1, <2>3 DEF TypeOK
    <3> QED
      BY <1>1, <3>1, <3>2, CountsStay
  <2>7. PinInv' /\ CloseInv' /\ TurnsOK' /\ SentOK'
    BY <1>1, <2>3, <2>4 DEF SInv, PinInv, CloseInv, TurnsOK, SentOK
  <2>8. UpOK(up)'
    BY <1>1, <2>1 DEF SInv, UpOK, Attached, Moving
  <2>9. ReaderOK(reader)'
    BY <1>1, <1>2, <2>1, <2>3, <2>4 DEF ReaderOK, SameRequest, Early, Own, Opening, SentTurns
  <2>10. \A st \in Streams : BridgeOK(st, bridge[st])'
    BY <1>1, <2>1, <2>2 DEF BridgeOK
  <2>11. \A st \in Streams : QueueOK(st)'
    BY <1>1, <2>2, <2>3 DEF SInv, QueueOK, Opening, SentTurns
  <2>12. \A st \in Streams : PipeOK(st)'
    BY <1>1, <2>1 DEF PipeOK, Attached, Moving
  <2>13. NoStrandedTurn'
    BY <1>1, <2>2, <2>3, <2>4 DEF SInv, NoStrandedTurn
  <2> QED
    BY <2>5, <2>6, <2>7, <2>8, <2>9, <2>10, <2>11, <2>12, <2>13 DEF SInv
<1>3. CASE ~reader.first
  <2> DEFINE s == reader.stream
  <2>1. StartBridge(s, FALSE) /\ reader' = IdleReader /\ s \in Streams
    BY <1>1, <1>3 DEF DispatchBridge, ReaderStates
  <2>2. /\ \A st \in Streams : st # s => bridge'[st] = bridge[st] /\ running'[st] = running[st]
        /\ IF closed \/ running[s]
           THEN bridge'[s] = bridge[s] /\ running'[s] = running[s]
           ELSE running'[s] /\ bridge'[s] = [at |-> "loop", turn |-> NoTurn, initial |-> FALSE]
    BY <1>1, <2>1, StartBridgeIs
  <2> HIDE DEF s
  <2>3. ASSUME NEW st \in Streams PROVE QueueOK(st)'
    <3>1. QueueOK(st) /\ BridgeOK(st, bridge[st]) /\ reader.at \notin Opening
      BY <1>1 DEF SInv, Opening
    <3>2. CASE bridge'[st] = bridge[st] /\ running'[st] = running[st]
      BY <1>1, <3>1, <3>2 DEF QueueOK, SentTurns
    <3>3. CASE ~(bridge'[st] = bridge[st] /\ running'[st] = running[st])
      <4>1. ~closed /\ ~running[st]
        BY <2>2, <3>3
      <4>2. bridge[st].at = "off" /\ bridge[st].turn = NoTurn
        BY <3>1, <4>1 DEF BridgeOK
      <4>3. \A i \in DOMAIN queue[st] : queue[st][i] # NoTurn
        BY <1>1, QueuedTurns
      <4>4. \A i \in DOMAIN queue[st] : queue[st][i] \notin SentTurns
        BY <1>1, <3>1, <4>1, <4>2, <4>3 DEF QueueOK
      <4> QED
        BY <1>1, <4>4 DEF QueueOK, SentTurns
    <3> QED
      BY <3>2, <3>3
  <2>4. sent' \subseteq Requests /\ SentOK' /\ SentTurns' = SentTurns
    BY <1>1 DEF SInv, TypeOK, SentOK, SentTurns
  <2>5. /\ UNCHANGED <<pin, closed, cancelled, turns, made, queue, named, pending, remembered, up, closer,
                       idle, accountTurns, others, bodies, binding, wire>>
        /\ FALSE \in BOOLEAN /\ StartBridge(reader.stream, FALSE)
    BY <1>1, <2>1 DEF s
  <2> QED
    BY <1>1, <2>1, <2>3, <2>4, <2>5, ReaderHandsOver
<1> QED
  BY <1>2, <1>3

\* The first request is answered: a worker goes on with its stream.
LEMMA ReaderAnswers ==
    ASSUME SInv, AttemptAnswers
    PROVE  SInv'
<1>1. reader \in ReaderStates /\ ReaderOK(reader) /\ TypeOK /\ CountInv /\ SentOK /\ reader.at = "attempt"
      /\ UNCHANGED <<pin, closed, cancelled, turns, made, queue, named, pending, remembered, up, closer,
                     idle, accountTurns, others, bodies, binding, wire>>
      /\ Sends(made, pin.account, NoAccount) /\ StartBridge(reader.stream, TRUE) /\ reader' = IdleReader
  BY DEF SInv, TypeOK, AttemptAnswers
<1>2. /\ reader.first /\ made \in Turns /\ ~turns[made].forwarded /\ Live \subseteq {made}
      /\ turns[made].stream = reader.stream /\ turns[made].prev = reader.prev
      /\ (made \in SentTurns => turns[made].prev = NoResponse)
  <2>1. made > 0 /\ made \in 0..MaxTurns
    BY <1>1 DEF ReaderOK, Own, Opening, TypeOK
  <2>2. made \in Turns
    BY <2>1, SessionAssumptions DEF Turns
  <2> QED
    BY <1>1, <2>2 DEF ReaderOK, Own, Opening
<1>3. /\ ~pin.native /\ pin.pinned /\ pin.account \in Accounts /\ up.at = "off"
      /\ \A st \in Streams : ~running[st] /\ bridge[st].at = "off" /\ bridge[st].turn = NoTurn
  BY <1>2, FirstRequest
<1>4. sent' \subseteq Requests /\ SentOK' /\ SentTurns' = SentTurns \cup {made}
  <2>1. NoAccount \in AnyAccount /\ made <= made /\ made' = made
    BY <1>1, <1>2 DEF AnyAccount, Turns
  <2> QED
    BY <1>1, <1>2, <1>3, <2>1, SendsSafely
<1> DEFINE s == reader.stream
<1>5. s \in Streams
  BY <1>1 DEF ReaderStates
<1>6. /\ \A st \in Streams : st # s => bridge'[st] = bridge[st] /\ running'[st] = running[st]
      /\ IF closed \/ running[s]
         THEN bridge'[s] = bridge[s] /\ running'[s] = running[s]
         ELSE running'[s] /\ bridge'[s] = [at |-> "loop", turn |-> NoTurn, initial |-> TRUE]
  BY <1>1, <1>5, StartBridgeIs
<1>7. ASSUME NEW st \in Streams PROVE QueueOK(st)'
  <2> SUFFICES ASSUME NEW i \in DOMAIN queue[st]
               PROVE  \/ i = 1 /\ bridge'[st].at = "loop" /\ bridge'[st].initial
                      \/ closed /\ ~running'[st]
    BY <1>1 DEF QueueOK
  <2>1. queue[st][i] = made /\ turns[made].stream = st
    BY <1>1, <1>2, QueuedTurns
  <2>2. st = s
    BY <1>2, <2>1
  <2>3. i = 1
    <3>1. queue[st] \in Seq(Turns) /\ i \in 1..Len(queue[st]) /\ Len(queue[st]) \in Nat
      BY <1>1 DEF TypeOK
    <3>2. 1 \in DOMAIN queue[st]
      BY <3>1
    <3>3. queue[st][1] = made
      BY <1>1, <1>2, <3>2, QueuedTurns
    <3> QED
      BY <1>1, <2>1, <3>2, <3>3 DEF CountInv, PendingExact
  <2>4. CASE closed
    BY <1>3, <1>6, <2>2, <2>4
  <2>5. CASE ~closed
    <3>1. bridge'[s] = [at |-> "loop", turn |-> NoTurn, initial |-> TRUE]
      BY <1>3, <1>5, <1>6, <2>5
    <3> QED
      BY <2>2, <2>3, <3>1
  <2> QED
    BY <2>4, <2>5
<1>8. TRUE \in BOOLEAN
  OBVIOUS
<1> QED
  BY <1>1, <1>2, <1>3, <1>4, <1>7, <1>8, ReaderHandsOver

\* The turn is written to the upstream of the moment.
LEMMA ReaderWrites ==
    ASSUME SInv, WriteUpstream
    PROVE  SInv'
<1>1. reader \in ReaderStates /\ ReaderOK(reader) /\ TypeOK /\ CountInv /\ SentOK /\ reader.at = "dispatch"
      /\ pin.native /\ ~cancelled /\ ~closed
      /\ UNCHANGED <<sessionVars, workerVars, accountTurns, others, bodies, binding>>
      /\ Sends(made, pin.upstream, reader.identity) /\ reader' = IdleReader
      /\ wire' = [wire EXCEPT ![reader.stream] = Append(@, made)]
  BY DEF SInv, TypeOK, CloseInv, WriteUpstream
<1> USE DEF sessionVars, turnVars, workerVars
<1>2. /\ made \in Turns /\ made \notin SentTurns /\ ~reader.body
      /\ pin.upstream \in Accounts /\ reader.identity \in AnyAccount /\ up.at # "rewrite"
  <2>1. made > 0 /\ made \in 0..MaxTurns
    BY <1>1 DEF ReaderOK, Own, TypeOK
  <2>2. made \in Turns
    BY <2>1, SessionAssumptions DEF Turns
  <2> QED
    BY <1>1, <2>2 DEF SInv, ReaderOK, ReaderStates, PinInv, UpOK, Early
<1>3. sent' \subseteq Requests /\ SentOK'
  <2>1. made <= made /\ made' = made
    BY <1>1, <1>2 DEF Turns
  <2> QED
    BY <1>1, <1>2, <2>1, SendsSafely
<1>4. Refused(reader')
  BY <1>1, IdleReaderIs
<1>5. Live' = Live
  BY <1>1, TurnsStay
<1> DEFINE s == reader.stream
           w == wire[s]
           after == Append(w, made)
<1>6. s \in Streams /\ wire \in [Streams -> Seq(Turns)]
  BY <1>1 DEF ReaderStates, TypeOK
<1>7. w \in Seq(Turns) /\ wire' = [wire EXCEPT ![s] = after]
  BY <1>1, <1>6
<1>8. /\ after \in Seq(Turns) /\ Len(after) = Len(w) + 1 /\ after[Len(w) + 1] = made
      /\ \A i \in DOMAIN w : after[i] = w[i]
  <2> HIDE DEF w
  <2> QED
    BY <1>2, <1>7, AppendedIs
<1> HIDE DEF after
<1>9. wire' \in [Streams -> Seq(Turns)] /\ wire'[s] = after /\ \A st \in Streams : st # s => wire'[st] = wire[st]
  BY <1>6, <1>7, <1>8
<1> HIDE DEF w
<1>10. TypeOK'
  BY <1>1, <1>3, <1>4, <1>9 DEF TypeOK, Refused
<1>11. CountInv'
  <2>1. \A a \in Accounts : /\ One(ReaderHolds(reader, a))' = One(ReaderHolds(reader, a))
                            /\ One(UpHolds(up, a))' = One(UpHolds(up, a))
    BY <1>1, <1>4 DEF ReaderHolds, UpHolds, One, Refused
  <2>2. bodies \in Nat /\ bodies' \in Nat /\ bodies' - One(reader'.body) = bodies - One(reader.body)
    BY <1>1, <1>2, <1>4 DEF TypeOK, One, Refused
  <2> QED
    BY <1>1, <2>1, <2>2, CountsStay
<1>12. PinInv' /\ CloseInv' /\ TurnsOK'
  BY <1>1, <1>4, <1>5 DEF SInv, PinInv, CloseInv, TurnsOK, Refused
<1>13. UpOK(up)'
  BY <1>1, <1>2 DEF SInv, UpOK
<1>14. ReaderOK(reader)'
  BY <1>4 DEF Refused, ReaderOK, Early, Own, Opening
<1>15. (\A st \in Streams : BridgeOK(st, bridge[st])' /\ QueueOK(st)') /\ NoStrandedTurn'
  BY <1>1, NativeRest
<1>16. \A st \in Streams : PipeOK(st)'
  <2> TAKE st \in Streams
  <2> SUFFICES ASSUME up.at \in Attached PROVE PipeOK(st)'
    BY <1>1 DEF PipeOK
  <2> DEFINE q == queue[st]
             v == wire[st]
             v1 == wire'[st]
             x == One(Answered(st))
             z == One(Unwritten(st))
  <2>1. ~Unwritten(st)' /\ (Unwritten(st) <=> st = s) /\ (Answered(st)' <=> Answered(st))
    BY <1>1, <1>4 DEF Unwritten, Answered, Refused
  <2>2. /\ Len(q) = x + Len(v) + z /\ (Answered(st) => q[1] = up.turn)
        /\ \A i \in 1..Len(v) : v[i] = q[i + x]
        /\ st = s => q[Len(q)] = made
    BY <1>1, <2>1 DEF SInv, PipeOK
  <2>3. /\ q \in Seq(Turns) /\ v \in Seq(Turns) /\ Len(q) \in Nat /\ Len(v) \in Nat /\ x \in {0, 1}
        /\ z = One(st = s) /\ One(Answered(st)') = x /\ One(Unwritten(st)') = 0
    BY <1>1, <2>1 DEF TypeOK, One
  <2>4. Len(v1) = Len(v) + z /\ \A i \in 1..Len(v1) : v1[i] = q[i + x]
    <3>1. CASE st = s
      <4>1. v = w /\ v1 = after /\ z = 1
        BY <1>9, <2>3, <3>1 DEF w, One
      <4> HIDE DEF q, v, v1, x, z
      <4>2. Len(v1) = Len(v) + 1 /\ v1[Len(v) + 1] = made /\ (\A i \in DOMAIN v : v1[i] = v[i])
            /\ DOMAIN v = 1..Len(v)
        BY <1>8, <2>3, <4>1
      <4>3. (Len(v) + 1) + x = Len(q) /\ q[Len(q)] = made
        BY <2>2, <2>3, <3>1, <4>1
      <4>4. ASSUME NEW i \in 1..Len(v1) PROVE v1[i] = q[i + x]
        <5>1. CASE i \in 1..Len(v)
          BY <2>2, <4>2, <5>1
        <5>2. CASE i = Len(v) + 1
          BY <4>2, <4>3, <5>2
        <5> QED
          BY <2>3, <4>2, <5>1, <5>2
      <4> QED
        BY <4>1, <4>2, <4>4
    <3>2. CASE st # s
      <4>1. v1 = v /\ z = 0
        BY <1>9, <2>3, <3>2 DEF One
      <4> HIDE DEF q, v, v1, x, z
      <4> QED
        BY <2>2, <2>3, <4>1
    <3> QED
      BY <3>1, <3>2
  <2> HIDE DEF q, v, v1, x, z
  <2>5. Len(q) = x + Len(v1) + 0
    <3>1. z \in {0, 1}
      BY <2>3 DEF One
    <3> QED
      BY <2>2, <2>3, <2>4, <3>1
  <2>6. /\ Len(queue'[st]) = One(Answered(st)') + Len(wire'[st]) + One(Unwritten(st)')
        /\ \A i \in 1..Len(wire'[st]) : wire'[st][i] = queue'[st][i + One(Answered(st)')]
    BY <1>1, <2>3, <2>4, <2>5 DEF q, v1
  <2>7. Answered(st)' => queue'[st][1] = up'.turn
    BY <1>1, <2>1, <2>2 DEF q
  <2> QED
    BY <2>1, <2>6, <2>7 DEF PipeOK, One
<1> QED
  BY <1>3, <1>10, <1>11, <1>12, <1>13, <1>14, <1>15, <1>16 DEF SInv

-----------------------------------------------------------------------------
(* The invariant, and what follows from it.                                *)

\* A session starts with nothing, and nobody works for it.
LEMMA SessionStarts == Init => SInv
<1> SUFFICES ASSUME Init PROVE SInv
  OBVIOUS
<1> USE SessionAssumptions
<1>1. /\ pin \in PinStates /\ ~pin.pinned /\ ~pin.native /\ closed = FALSE /\ cancelled = FALSE
      /\ closer = [at |-> "no", todo |-> {}] /\ idle = "watch" /\ made = 0 /\ named = {} /\ pending = 0
      /\ remembered = {} /\ bodies = 0 /\ sent = {} /\ reader = IdleReader /\ up = IdleUp
  BY DEF Init, PinStates, AnyAccount
<1>2. turns \in [Turns -> TurnStates] /\ \A t \in Turns : turns[t].finished
  <2>1. NoTurnYet \in TurnStates /\ NoTurnYet.finished
    BY DEF NoTurnYet, Turn, TurnStates, AnyAccount, AnyResponse, Terminals
  <2> QED
    BY <2>1 DEF Init
<1>3. Live = {}
  BY <1>2 DEF Live
<1>4. /\ queue \in [Streams -> Seq(Turns)] /\ wire \in [Streams -> Seq(Turns)]
      /\ \A st \in Streams : queue[st] = <<>> /\ wire[st] = <<>>
  BY DEF Init
<1>5. /\ bridge \in [Streams -> BridgeStates] /\ running \in [Streams -> BOOLEAN]
      /\ \A st \in Streams : ~running[st] /\ bridge[st].at = "off" /\ bridge[st].turn = NoTurn
  BY DEF Init, BridgeStates, BridgePlaces
<1>6. /\ accountTurns \in [Accounts -> Nat] /\ others \in [Accounts -> Nat]
      /\ \A a \in Accounts : accountTurns[a] = 0 /\ others[a] = 0
  BY DEF Init
<1>7. binding \in [Responses -> AnyAccount]
  BY DEF Init
<1>8. Refused(reader) /\ reader.at = "read" /\ up \in UpStates /\ up.at = "off" /\ up.turn = NoTurn
  BY <1>1, IdleReaderIs, IdleUpIs DEF IdleReader
<1>9. TypeOK
  <2>1. closer \in [at : {"no", "run", "done"}, todo : SUBSET Turns] /\ made \in 0..MaxTurns
    BY <1>1
  <2> QED
    BY <1>1, <1>2, <1>4, <1>5, <1>6, <1>7, <1>8, <2>1 DEF TypeOK, Refused
<1>10. CountInv
  <2>1. Cardinality(Live) = 0
    BY <1>3, FS_EmptySet
  <2>2. AccountTurnsExact
    <3> SUFFICES ASSUME NEW a \in Accounts
                 PROVE  accountTurns[a] = others[a] + HeldOn(a) /\ accountTurns[a] <= MaxTurnsPerAccount
      BY DEF AccountTurnsExact
    <3>1. LiveOn(a) = {}
      BY <1>3 DEF LiveOn
    <3>2. Cardinality(LiveOn(a)) = 0
      BY <3>1, FS_EmptySet
    <3>3. One(ReaderHolds(reader, a)) = 0 /\ One(UpHolds(up, a)) = 0
      BY <1>8 DEF ReaderHolds, UpHolds, One
    <3>4. HeldOn(a) = 0
      BY <3>2, <3>3, HeldIs
    <3> QED
      BY <1>6, <3>4
  <2>3. PendingExact
    <3>1. \A st \in Streams : DOMAIN queue[st] = {}
      BY <1>4
    <3>2. \A st \in Streams : {t \in Live : turns[t].stream = st} = {}
      BY <1>3
    <3>3. pending = Cardinality(Live) /\ pending <= MaxTurnsPerConnection
      BY <1>1, <2>1
    <3> QED
      BY <3>1, <3>2, <3>3 DEF PendingExact
  <2>4. BodiesReleased
    BY <1>1, <1>8, <2>1 DEF BodiesReleased, Refused, One
  <2> QED
    BY <2>2, <2>3, <2>4 DEF CountInv
<1>11. PinInv /\ CloseInv /\ TurnsOK /\ SentOK
  BY <1>1, <1>3, <1>4 DEF PinInv, CloseInv, TurnsOK, SentOK
<1>12. ReaderOK(reader)
  BY <1>8 DEF Refused, ReaderOK, Early, Own, Opening
<1>13. UpOK(up)
  BY <1>1, <1>8 DEF UpOK, Attached, Moving, NoTurn
<1>14. \A st \in Streams : BridgeOK(st, bridge[st]) /\ QueueOK(st) /\ PipeOK(st)
  BY <1>4, <1>5, <1>8 DEF BridgeOK, QueueOK, PipeOK, Attached, Moving
<1>15. NoStrandedTurn
  BY <1>3 DEF NoStrandedTurn
<1> QED
  BY <1>9, <1>10, <1>11, <1>12, <1>13, <1>14, <1>15 DEF SInv

\* Nothing moves in a step of somebody else.
LEMMA SessionStutters == SInv /\ UNCHANGED vars => SInv'
<1> SUFFICES ASSUME SInv, UNCHANGED vars PROVE SInv'
  OBVIOUS
<1>1. UNCHANGED <<sessionVars, goVars, accountTurns, others, bodies, binding, wire, sent>>
  BY DEF vars, outerVars, storeVars
<1>2. accountTurns' \in [Accounts -> Nat] /\ others' \in [Accounts -> Nat]
  BY <1>1 DEF SInv, TypeOK
<1>3. AccountTurnsExact'
  <2>1. UNCHANGED <<turns, reader, up, accountTurns, others>>
    BY <1>1 DEF sessionVars, turnVars, goVars, workerVars
  <2>2. \A a \in Accounts : HeldOn(a)' = HeldOn(a)
    BY <2>1 DEF HeldOn, Live
  <2> QED
    BY <2>1, <2>2 DEF SInv, CountInv, AccountTurnsExact
<1> QED
  BY <1>1, <1>2, <1>3, OnlyAccountsMove

\* Every step of every goroutine keeps the invariant.
LEMMA SessionSteps == SInv /\ [Next]_vars => SInv'
<1> SUFFICES ASSUME SInv, [Next]_vars PROVE SInv'
  OBVIOUS
<1>1. CASE UNCHANGED vars
  BY <1>1, SessionStutters
<1>2. CASE HandleRequest
  <2>1. CASE \/ ResolveReads \/ RouteRefused \/ AlreadyPinned \/ InitialAccount \/ DialFails
             \/ validateContinuation \/ preparePayload
    BY <2>1, ReaderSteps
  <2>2. CASE ResolveWrites
    BY <2>2, ReaderResolves
  <2>3. CASE ReaderCloses
    BY <2>3, CloseSteps
  <2>4. CASE PinBridge \/ DialSucceeds \/ StartUpstreamReader
    BY <2>4, ReaderPins
  <2>5. CASE ReserveAccountTurn
    BY <2>5, ReaderReserves
  <2>6. CASE AppendTurn
    BY <2>6, ReaderAppends
  <2>7. CASE WriteUpstream
    BY <2>7, ReaderWrites
  <2>8. CASE WriteUpstreamFails
    BY <2>8, ReaderLosesUpstream
  <2>9. CASE DispatchBridge
    BY <2>9, ReaderDispatches
  <2>10. CASE AttemptAnswers
    BY <2>10, ReaderAnswers
  <2>11. CASE AttemptFails
    BY <2>11, ReaderAttemptFails
  <2>12. CASE MoveBridge
    BY <2>12, ReaderMovesOn
  <2>13. CASE TransferBridge
    BY <2>13, ReaderTransfers
  <2>14. CASE InitialBridgeFails
    BY <2>14, ReaderGivesUp
  <2> QED
    BY <1>2, <2>1, <2>2, <2>3, <2>4, <2>5, <2>6, <2>7, <2>8, <2>9, <2>10, <2>11, <2>12, <2>13, <2>14
       DEF HandleRequest
<1>3. CASE UpstreamReader
  <2>1. CASE \/ UpstreamReadFails \/ RewriteFails \/ ForwardUpstreamFails \/ UpstreamEnds
             \/ RedialFails \/ LimitReceived
    BY <2>1, UpQuietSteps
  <2>2. CASE RedialSucceeds
    BY <2>2, UpReserves
  <2>3. CASE TransferNative
    BY <2>3, UpTransfers
  <2>4. CASE Rewrite
    BY <2>4, UpRewrites
  <2>5. CASE ObserveUpstream
    BY <2>5, UpObserves
  <2>6. CASE ForwardUpstream
    BY <2>6, UpForwards
  <2>7. CASE UpstreamCloses
    BY <2>7, CloseSteps
  <2> QED
    BY <1>3, <2>1, <2>2, <2>3, <2>4, <2>5, <2>6, <2>7 DEF UpstreamReader
<1>4. ASSUME NEW st \in Streams, BridgeWorker(st) PROVE SInv'
  <2>1. CASE BridgeNext(st)
    BY <2>1, BridgeTakes
  <2>2. CASE BridgeAttempts(st) \/ BridgeStreamEnds(st) \/ BridgeClosed(st)
    BY <2>2, BridgeGoesOn
  <2>3. CASE BridgeClientGone(st)
    BY <2>3, CloseSteps
  <2>4. CASE BridgeFinishes(st)
    BY <2>4, BridgeFinishesOne
  <2> QED
    BY <1>4, <2>1, <2>2, <2>3, <2>4 DEF BridgeWorker
<1>5. ASSUME NEW st \in Streams, NEW prev \in AnyResponse, ClientSends(st, prev) PROVE SInv'
  BY <1>5, ReaderStarts
<1>6. CASE ReadFails \/ ReaderDone
  BY <1>6, ReaderSteps
<1>7. CASE ReaderExits \/ CloseFromHub \/ IdleCloses
  BY <1>7, CloseSteps
<1>8. CASE CloseReturns \/ LifetimeEnds \/ IdleDecides \/ IdleEnds
  BY <1>8, QuietSteps
<1>9. ASSUME NEW st \in Streams, NEW e \in {"delta", "completed", "failed", "limit"}, UpstreamEvent(st, e)
      PROVE  SInv'
  BY <1>9, UpReads
<1>10. ASSUME NEW st \in Streams, NEW e \in {"delta", "completed", "failed"}, NEW b \in BOOLEAN,
              BridgeEvent(st, e, b)
       PROVE  SInv'
  BY <1>10, BridgeObserves
<1>11. ASSUME NEW t \in Turns, CloseFinishes(t) PROVE SInv'
  BY <1>11, CloseFinishesOne
<1>12. ASSUME NEW a \in Accounts, OtherReserves(a) \/ OtherReleases(a) PROVE SInv'
  BY <1>12, OtherSteps
<1> QED
  BY <1>1, <1>2, <1>3, <1>4, <1>5, <1>6, <1>7, <1>8, <1>9, <1>10, <1>11, <1>12 DEF Next

\* The invariant of a session, whatever its client, its upstream and the store
\* answer and however its goroutines are scheduled.
THEOREM SessionKeepsInv == Spec => []SInv
<1> QED
  BY SessionStarts, SessionSteps, PTL DEF Spec

\* Hub.accountTurns is exact through every failover, refusal and close.
THEOREM AccountTurnsAreExact == Spec => []AccountTurnsExact
<1>1. SInv => AccountTurnsExact
  BY DEF SInv, CountInv
<1> QED
  BY <1>1, SessionKeepsInv, PTL

\* The goroutines of a session agree on who is where and what the counters
\* of turns and bodies stand for.
THEOREM SessionIsSafe == Spec => []SessionInv
<1>1. SInv => SessionInv
  BY DEF SInv, CountInv, PinInv, CloseInv, TurnsOK, ReaderOK, UpOK, BridgeOK, Early, Own, Opening,
         Moving, SessionInv
<1> QED
  BY <1>1, SessionKeepsInv, PTL

\* An upstream event is handled as one of the turn that caused it, while the
\* session is open.
THEOREM EventsAreAttributed == Spec => []EventAttribution
<1>1. SInv => EventAttribution
  BY DEF SInv, UpOK, Attached, Moving, EventAttribution
<1> QED
  BY <1>1, SessionKeepsInv, PTL

\* A turn whose output the client has seen, or that continues a response, is
\* never sent again.
THEOREM OutputIsNotReplayed == Spec => []NoReplayAfterOutput
<1>1. SInv => NoReplayAfterOutput
  BY DEF SInv, SentOK, NoReplayAfterOutput
<1> QED
  BY <1>1, SessionKeepsInv, PTL

\* A live turn of an open bridged session has a worker on its stream, or the
\* reader is about to start one or to fail the turn.
THEOREM TurnsAreAttended == Spec => []NoStrandedTurn
<1>1. SInv => NoStrandedTurn
  BY DEF SInv
<1> QED
  BY <1>1, SessionKeepsInv, PTL

\* Bodies are given back once, and a session that is done holds nothing.
THEOREM SessionLeaksNothing == Spec => []NothingLeaks
<1>1. ASSUME SInv, reader.at = "done"
      PROVE  Live = {} /\ pending = 0 /\ bodies = 0 /\ accountTurns = others
  <2>1. /\ Live = {} /\ up.at = "off" /\ ~reader.body
        /\ accountTurns \in [Accounts -> Nat] /\ others \in [Accounts -> Nat]
    BY <1>1 DEF SInv, ReaderOK, CloseInv, Early, TypeOK
  <2>2. Cardinality(Live) = 0
    BY <2>1, FS_EmptySet
  <2>3. pending = 0 /\ bodies = 0
    BY <1>1, <2>1, <2>2 DEF SInv, CountInv, PendingExact, BodiesReleased, One
  <2>4. \A a \in Accounts : accountTurns[a] = others[a]
    <3> TAKE a \in Accounts
    <3>1. LiveOn(a) = {}
      BY <2>1 DEF LiveOn
    <3>2. Cardinality(LiveOn(a)) = 0
      BY <3>1, FS_EmptySet
    <3>3. One(ReaderHolds(reader, a)) = 0 /\ One(UpHolds(up, a)) = 0
      BY <1>1, <2>1 DEF ReaderHolds, UpHolds, One
    <3>4. HeldOn(a) = 0
      BY <3>2, <3>3, HeldIs
    <3>5. accountTurns[a] = others[a] + HeldOn(a) /\ others[a] \in Nat
      BY <1>1, <2>1 DEF SInv, CountInv, AccountTurnsExact
    <3> QED
      BY <3>4, <3>5
  <2> QED
    BY <2>1, <2>3, <2>4
<1>2. SInv => NothingLeaks
  BY <1>1 DEF SInv, CountInv, NothingLeaks, NothingLeaksAtDone
<1> QED
  BY <1>2, SessionKeepsInv, PTL
=============================================================================
