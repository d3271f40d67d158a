--------------------------- MODULE RequestProofs ----------------------------
(***************************************************************************)
(* A request: the rate of its key, the attempts the gateway makes for it,  *)
(* and the memory its body is read into.                                   *)
(***************************************************************************)
EXTENDS RateLimit, Gateway, RequestBody, FiniteSetTheorems, TLAPS
-----------------------------------------------------------------------------
(* The rate. However far the clocks of the replicas are apart, and for     *)
(* every limit: no window of a key admits more requests than its limit.    *)

RateTypeOK ==
    /\ minute \in [Gateways -> 1..MaxMinute]
    /\ window \in [start : 0..MaxMinute, count : Nat]
    /\ admitted \in [1..MaxMinute -> Nat]

\* Later windows are untouched, and the open one has admitted no more requests
\* than it has counted.
WindowsInOrder ==
    \A m \in 1..MaxMinute :
        /\ m > window.start => admitted[m] = 0
        /\ m = window.start => admitted[m] <= window.count

RateInv == RateTypeOK /\ WindowsInOrder /\ WindowWithinLimit

\* The first window is still to be opened.
LEMMA RateInitially == RateInit => RateInv
  BY RateLimitAssumption DEF RateInit, RateInv, RateTypeOK, WindowsInOrder, WindowWithinLimit

\* AllowAPIKeyRequest either opens the window of a later minute, which has
\* admitted nothing, or counts in the open one.
LEMMA RateAllow ==
    ASSUME RateInv, NEW g \in Gateways, AllowAPIKeyRequest(g)
    PROVE  RateInv'
<1> DEFINE now == minute[g]
<1>1. now \in 1..MaxMinute
  BY DEF RateInv, RateTypeOK
<1>2. UNCHANGED minute
  BY DEF AllowAPIKeyRequest
<1>3. CASE window.start < now
  <2>1. window' = [start |-> now, count |-> 1]
    BY <1>3 DEF AllowAPIKeyRequest, Count
  <2>2. admitted' = [admitted EXCEPT ![now] = @ + 1] /\ admitted[now] = 0
    BY <1>1, <1>3, <2>1, RateLimitAssumption DEF AllowAPIKeyRequest, RateInv, WindowsInOrder
  <2>3. RateTypeOK'
    BY <1>1, <1>2, <2>1, <2>2 DEF RateInv, RateTypeOK
  <2>4. WindowsInOrder' /\ WindowWithinLimit'
    BY <1>1, <1>3, <2>1, <2>2, RateLimitAssumption
       DEF RateInv, RateTypeOK, WindowsInOrder, WindowWithinLimit
  <2> QED
    BY <2>3, <2>4 DEF RateInv
<1>4. CASE ~(window.start < now)
  <2>1. window' = [window EXCEPT !.count = @ + 1]
    BY <1>4 DEF AllowAPIKeyRequest, Count
  <2>2. window.start \in 1..MaxMinute /\ window'.start = window.start /\ window'.count = window.count + 1
    BY <1>1, <1>4, <2>1, RateLimitAssumption DEF RateInv, RateTypeOK
  <2>3. admitted' = IF window.count + 1 <= RequestLimit THEN [admitted EXCEPT ![window.start] = @ + 1] ELSE admitted
    BY <2>2 DEF AllowAPIKeyRequest
  <2>4. RateTypeOK'
    BY <1>2, <2>1, <2>2, <2>3 DEF RateInv, RateTypeOK
  <2>5. WindowsInOrder' /\ WindowWithinLimit'
    BY <2>2, <2>3, RateLimitAssumption, SMTT(20) DEF RateInv, RateTypeOK, WindowsInOrder, WindowWithinLimit
  <2> QED
    BY <2>4, <2>5 DEF RateInv
<1> QED
  BY <1>3, <1>4

\* A tick of a clock moves no window.
LEMMA RateTicks ==
    ASSUME RateInv, NEW g \in Gateways, RateTick(g)
    PROVE  RateInv'
<1>1. minute' \in [Gateways -> 1..MaxMinute]
  BY RateLimitAssumption DEF RateInv, RateTypeOK, RateTick
<1> QED
  BY <1>1 DEF RateInv, RateTypeOK, RateTick, WindowsInOrder, WindowWithinLimit

\* AllowAPIKeyRequest admits at most RequestLimit requests in the window of any
\* minute, whatever the clocks of the replicas say.
THEOREM RateIsBounded == RateSpec => []WindowWithinLimit
<1>1. RateInit => RateInv
  BY RateInitially
<1>2. RateInv /\ [RateNext]_rateVars => RateInv'
  <2> SUFFICES ASSUME RateInv, [RateNext]_rateVars PROVE RateInv'
    OBVIOUS
  <2>1. CASE RateNext
    BY <2>1, RateAllow, RateTicks DEF RateNext
  <2>2. CASE UNCHANGED rateVars
    BY <2>2 DEF rateVars, RateInv, RateTypeOK, WindowsInOrder, WindowWithinLimit
  <2> QED
    BY <2>1, <2>2
<1>3. RateInv => WindowWithinLimit
  BY DEF RateInv
<1> QED
  BY <1>1, <1>2, <1>3, PTL DEF RateSpec

-----------------------------------------------------------------------------
(* The attempts of a request: the state of one of them.                    *)

OnTheWay == {"check", "send", "answer", "refresh", "move"}
Answered == {"session", "usage", "record"}

\* A request has an account from its route on; it has not tried the account it
\* is about to be sent to; a continuation has the account that produced what it
\* continues; and an answered request has the account that answered it.
CallOK(c) ==
    /\ c.at \notin {"new", "done"} => c.acc \in Upstreams /\ c.key \in Clients
    /\ c.at \in {"new", "route", "quota", "check"} => c.n = 0 /\ c.tried = {}
    /\ c.at = "send" => c.n < MaxProviderAttempts /\ c.acc \notin c.tried
    /\ c.tries < StoreTries
    /\ c.at = "quota" => c.cont = Nothing
    /\ c.cont # Nothing => owner[c.cont] # Nothing
    /\ c.cont # Nothing /\ c.at \in OnTheWay => c.acc = owner[c.cont]
    /\ c.at \in Answered => c.resp \in Answers /\ owner[c.resp] = c.acc

CallsInv == \A q \in Requests : CallOK(request[q])

GatewayInv == GatewayTypeOK /\ CallsInv /\ RecordedForItsAccount /\ TokensCountedOnce

\* What a request may be when it goes on.
LEMMA CallClosed ==
    ASSUME NEW c \in RequestStates, NEW at \in GatewayPlaces
    PROVE  /\ [c EXCEPT !.at = at] \in RequestStates
           /\ [c EXCEPT !.at = at, !.member = TRUE] \in RequestStates
           /\ [c EXCEPT !.at = at, !.again = TRUE] \in RequestStates
           /\ [c EXCEPT !.at = at, !.tries = 0] \in RequestStates
           /\ \A n \in 0..StoreTries : [c EXCEPT !.tries = n] \in RequestStates
           /\ \A t \in SUBSET Upstreams : [c EXCEPT !.tried = t, !.member = TRUE] \in RequestStates
           /\ \A r \in Answers, n \in 0..MaxProviderAttempts :
                 [c EXCEPT !.resp = r, !.n = n, !.tried = {}, !.again = FALSE, !.at = at] \in RequestStates
           /\ \A n \in 0..MaxProviderAttempts, t \in SUBSET Upstreams :
                 [c EXCEPT !.n = n, !.tried = t, !.again = FALSE, !.seen = "up"] \in RequestStates
<1>1. 0 \in 0..StoreTries /\ {} \in SUBSET Upstreams /\ "up" \in Conditions
  BY GatewayAssumption DEF Conditions
<1> QED
  BY <1>1, ZenonT(40) DEF RequestStates

\* Take hands the request an account and says nothing else of it.
LEMMA TakeIs ==
    ASSUME condition \in [Upstreams -> Conditions], NEW c \in RequestStates, NEW a \in Upstreams,
           NEW at \in GatewayPlaces
    PROVE  /\ Take(c, a, at) \in RequestStates
           /\ Take(c, a, at).at = at /\ Take(c, a, at).acc = a
           /\ Take(c, a, at).key = c.key /\ Take(c, a, at).cont = c.cont
           /\ Take(c, a, at).n = c.n /\ Take(c, a, at).tried = c.tried
           /\ Take(c, a, at).tries = c.tries /\ Take(c, a, at).resp = c.resp
<1>1. \A s \in Conditions : [c EXCEPT !.acc = a, !.seen = s, !.at = at] \in RequestStates
  BY DEF RequestStates
<1>2. condition[a] \in Conditions
  OBVIOUS
<1>3. Take(c, a, at) \in RequestStates
  BY <1>1, <1>2 DEF Take
<1> QED
  BY <1>2, <1>3 DEF Take, RequestStates

\* A request that has not begun or is done is typed.
LEMMA NewTyped == NewCall \in RequestStates /\ [NewCall EXCEPT !.at = "done"] \in RequestStates
<1>1. 0 \in 0..StoreTries /\ 0 \in 0..MaxProviderAttempts
  BY GatewayAssumption
<1>2. NewCall \in RequestStates
  BY <1>1 DEF NewCall, RequestStates, GatewayPlaces, Conditions
<1>3. "done" \in GatewayPlaces
  BY DEF GatewayPlaces
<1> QED
  BY <1>2, <1>3, CallClosed

\* One request goes on, and no response changes its account.
LEMMA RequestGoesOn ==
    ASSUME GatewayInv, NEW q \in Requests, NEW y \in RequestStates, CallGoes(q, y), CallOK(y)',
           condition' \in [Upstreams -> Conditions], bound' \in [Clients -> Upstreams],
           owner' \in [Answers -> Upstreams \cup {Nothing}],
           \A r \in Answers : owner[r] # Nothing => owner'[r] = owner[r],
           session' \in [Answers -> Upstreams \cup {Nothing}],
           chargedTo' \in [Answers -> Upstreams \cup {Nothing}],
           counted' \in [Answers -> Nat], hashes' \subseteq Answers,
           RecordedForItsAccount', TokensCountedOnce'
    PROVE  GatewayInv'
<1>1. /\ request \in [Requests -> RequestStates]
      /\ \A p \in Requests : CallOK(request[p])
  BY DEF GatewayInv, GatewayTypeOK, CallsInv
<1>2. request' = [request EXCEPT ![q] = y]
  BY DEF CallGoes
<1>3. request' \in [Requests -> RequestStates] /\ request'[q] = y /\ \A p \in Requests \ {q} : request'[p] = request[p]
  BY <1>1, <1>2
<1>4. ASSUME NEW p \in Requests
      PROVE  CallOK(request[p])'
  <2>1. CASE p = q
    BY <1>3, <2>1 DEF CallOK
  <2>2. CASE p # q
    <3>1. request'[p] = request[p] /\ CallOK(request[p]) /\ request[p] \in RequestStates
      BY <1>1, <1>3, <2>2
    <3>2. request[p].cont # Nothing => request[p].cont \in Answers
      BY <3>1 DEF RequestStates
    <3>3. \A a \in Upstreams : a # Nothing
      BY GatewayAssumption
    <3>4. request[p].at \in Answered => request[p].acc # Nothing
      BY <3>1, <3>3 DEF CallOK, Answered
    <3> QED
      BY <3>1, <3>2, <3>4 DEF CallOK
  <2> QED
    BY <2>1, <2>2
<1> QED
  BY <1>3, <1>4 DEF GatewayInv, GatewayTypeOK, CallsInv

\* ... in a step that records nothing and asks no one.
LEMMA RequestMoves ==
    ASSUME GatewayInv, NEW q \in Requests, NEW y \in RequestStates, CallGoes(q, y), CallOK(y),
           condition' \in [Upstreams -> Conditions], bound' \in [Clients -> Upstreams],
           UNCHANGED <<owner, recordVars>>
    PROVE  GatewayInv'
<1>1. CallOK(y)'
  BY DEF CallOK
<1> QED
  BY <1>1, RequestGoesOn DEF GatewayInv, GatewayTypeOK, recordVars, RecordedForItsAccount, TokensCountedOnce

\* A request that ends claims nothing.
LEMMA RequestEnds ==
    ASSUME GatewayInv, NEW q \in Requests, Done(q),
           condition' \in [Upstreams -> Conditions], bound' \in [Clients -> Upstreams],
           UNCHANGED <<owner, recordVars>>
    PROVE  GatewayInv'
<1> DEFINE y == [NewCall EXCEPT !.at = "done"]
<1>1. y \in RequestStates /\ CallGoes(q, y)
  BY NewTyped DEF Done
<1>2. CallOK(y)
  BY GatewayAssumption DEF CallOK, NewCall, OnTheWay, Answered
<1> HIDE DEF y
<1> QED
  BY <1>1, <1>2, RequestMoves

\* ReassignAPIKey moves the binding of a key to an account that was not ruled out.
LEMMA ReassignMoves ==
    ASSUME GatewayInv, NEW q \in Requests, NEW c \in RequestStates, NEW e \in SUBSET Upstreams,
           NEW at \in {"quota", "send"}, Reassign(q, c, e, at), c.key \in Clients,
           c.cont = Nothing, c.tries < StoreTries, c.tried \subseteq e,
           at = "quota" => c.n = 0 /\ c.tried = {}, at = "send" => c.n < MaxProviderAttempts,
           UNCHANGED <<condition, owner, recordVars>>
    PROVE  GatewayInv'
<1>1. PICK a \in Upstreams \ e : bound' = [bound EXCEPT ![c.key] = a] /\ CallGoes(q, Take(c, a, at))
  BY DEF Reassign, Selectable
<1>2. condition \in [Upstreams -> Conditions] /\ bound \in [Clients -> Upstreams]
  BY DEF GatewayInv, GatewayTypeOK
<1>3. at \in GatewayPlaces
  BY DEF GatewayPlaces
<1>4. /\ Take(c, a, at) \in RequestStates
      /\ Take(c, a, at).at = at /\ Take(c, a, at).acc = a
      /\ Take(c, a, at).key = c.key /\ Take(c, a, at).cont = c.cont
      /\ Take(c, a, at).n = c.n /\ Take(c, a, at).tried = c.tried
      /\ Take(c, a, at).tries = c.tries
  BY <1>2, <1>3, TakeIs
<1>5. CallOK(Take(c, a, at))
  BY <1>4 DEF CallOK, Answered
<1>6. bound' \in [Clients -> Upstreams] /\ condition' \in [Upstreams -> Conditions]
  BY <1>1, <1>2
<1> QED
  BY <1>1, <1>4, <1>5, <1>6, RequestMoves

\* What is always so of a request and of the accounts.
LEMMA RequestFacts ==
    ASSUME GatewayInv, NEW q \in Requests
    PROVE  /\ request[q] \in RequestStates /\ CallOK(request[q])
           /\ condition \in [Upstreams -> Conditions] /\ bound \in [Clients -> Upstreams]
           /\ request[q].at \notin {"new", "done"} => request[q].acc \in Upstreams /\ request[q].key \in Clients
           /\ request[q].cont # Nothing => request[q].cont \in Answers
  BY DEF GatewayInv, GatewayTypeOK, CallsInv, CallOK, RequestStates

\* An account that is marked has a condition.
LEMMA MarkedTyped ==
    ASSUME condition \in [Upstreams -> Conditions], NEW a \in Upstreams, MarkDown(a)
    PROVE  condition' \in [Upstreams -> Conditions]
  BY DEF MarkDown, Conditions

\* A request that is let in has tried no account.
LEMMA AuthorizeKeeps ==
    ASSUME GatewayInv, NEW q \in Requests, NEW k \in Clients, NEW kind \in {"responses", "chat", "image"},
           NEW r \in Answers \cup {Nothing}, Authorize(q, k, kind, r)
    PROVE  GatewayInv'
<1> DEFINE c == [NewCall EXCEPT !.key = k, !.member = condition[bound[k]] # "barred"]
           t == Take(c, bound[k], "route")
           y == [t EXCEPT !.kind = kind, !.cont = r]
<1>1. condition \in [Upstreams -> Conditions] /\ bound \in [Clients -> Upstreams] /\ bound[k] \in Upstreams
  BY DEF GatewayInv, GatewayTypeOK
<1>2. NewCall \in RequestStates /\ "route" \in GatewayPlaces
  BY NewTyped DEF GatewayPlaces
<1>3. c \in RequestStates /\ c.key = k /\ c.n = 0 /\ c.tried = {} /\ c.tries = 0
  <2>1. \A m \in BOOLEAN : [NewCall EXCEPT !.key = k, !.member = m] \in RequestStates
    BY <1>2 DEF RequestStates
  <2> QED
    BY <2>1 DEF NewCall
<1> HIDE DEF c
<1>4. t \in RequestStates /\ t.at = "route" /\ t.acc = bound[k] /\ t.key = k /\ t.n = 0 /\ t.tried = {} /\ t.tries = 0
  BY <1>1, <1>2, <1>3, TakeIs
<1>5. CallGoes(q, y) /\ UNCHANGED <<condition, bound, owner, recordVars>> /\ (r # Nothing => owner[r] # Nothing)
  BY DEF Authorize, ResolveAPIKey, c
<1> HIDE DEF t
<1>6. y \in RequestStates
  BY <1>4 DEF RequestStates
<1>7. y.at = "route" /\ y.acc = bound[k] /\ y.key = k /\ y.n = 0 /\ y.tried = {} /\ y.tries = 0 /\ y.cont = r
  BY <1>4 DEF RequestStates
<1> HIDE DEF y
<1>8. CallOK(y)
  BY <1>1, <1>5, <1>7, GatewayAssumption DEF CallOK, OnTheWay, Answered
<1> QED
  BY <1>1, <1>5, <1>6, <1>8, RequestMoves

\* A continuation gets the account of its response, any other one that of its
\* key.
LEMMA RouteKeeps ==
    ASSUME GatewayInv, NEW q \in Requests, Route(q)
    PROVE  GatewayInv'
<1> DEFINE c == request[q]
<1>1. /\ c \in RequestStates /\ CallOK(c) /\ c.acc \in Upstreams /\ c.key \in Clients /\ c.at = "route"
      /\ condition \in [Upstreams -> Conditions] /\ bound \in [Clients -> Upstreams]
      /\ c.cont # Nothing => c.cont \in Answers
  BY RequestFacts DEF Route
<1>2. UNCHANGED <<condition, owner, recordVars>>
  BY DEF Route
<1>3. "quota" \in GatewayPlaces /\ "check" \in GatewayPlaces
  BY DEF GatewayPlaces
<1>4. CASE c.cont # Nothing /\ UNCHANGED bound /\ Done(q)
  BY <1>1, <1>2, <1>4, RequestEnds
<1>5. CASE /\ c.cont # Nothing /\ UNCHANGED bound /\ ResolveSessionAccount(c.cont) # Nothing
           /\ CallGoes(q, Take(c, ResolveSessionAccount(c.cont), "check"))
  <2> DEFINE a == ResolveSessionAccount(c.cont)
  <2>1. a = owner[c.cont] /\ a \in Upstreams
    BY <1>1, <1>5 DEF ResolveSessionAccount, GatewayInv, RecordedForItsAccount, GatewayTypeOK
  <2>2. CallGoes(q, Take(c, a, "check"))
    BY <1>5
  <2> HIDE DEF a, c
  <2>3. /\ Take(c, a, "check") \in RequestStates
        /\ Take(c, a, "check").at = "check" /\ Take(c, a, "check").acc = a
        /\ Take(c, a, "check").key = c.key /\ Take(c, a, "check").cont = c.cont
        /\ Take(c, a, "check").n = c.n /\ Take(c, a, "check").tried = c.tried
        /\ Take(c, a, "check").tries = c.tries
    <3>1. PICK at : at = "check"
      OBVIOUS
    <3>2. condition \in [Upstreams -> Conditions] /\ c \in RequestStates /\ a \in Upstreams /\ at \in GatewayPlaces
      BY <1>1, <1>3, <2>1, <3>1
    <3>3. /\ Take(c, a, at) \in RequestStates
          /\ Take(c, a, at).at = at /\ Take(c, a, at).acc = a
          /\ Take(c, a, at).key = c.key /\ Take(c, a, at).cont = c.cont
          /\ Take(c, a, at).n = c.n /\ Take(c, a, at).tried = c.tried
          /\ Take(c, a, at).tries = c.tries
      BY <3>2, TakeIs
    <3> QED
      BY <3>1, <3>3
  <2>4. CallOK(Take(c, a, "check"))
    BY <1>1, <2>1, <2>3 DEF CallOK, OnTheWay, Answered
  <2> QED
    BY <1>1, <1>2, <1>5, <2>2, <2>3, <2>4, RequestMoves
<1>6. CASE c.cont = Nothing /\ Reassign(q, c, {}, "quota")
  <2> HIDE DEF c
  <2>1. c.n = 0 /\ c.tried = {} /\ c.tries < StoreTries
    BY <1>1 DEF CallOK
  <2> QED
    BY <1>1, <1>2, <1>6, <2>1, ReassignMoves
<1>7. CASE c.cont = Nothing /\ UNCHANGED bound /\ CallGoes(q, [c EXCEPT !.at = "quota"])
  <2> DEFINE y == [c EXCEPT !.at = "quota"]
  <2>1. CallGoes(q, y)
    BY <1>7
  <2> HIDE DEF c
  <2>2. y \in RequestStates
    BY <1>1, <1>3, CallClosed
  <2>3. CallOK(y)
    BY <1>1, <1>7 DEF CallOK, RequestStates, OnTheWay, Answered
  <2> HIDE DEF y
  <2> QED
    BY <1>1, <1>2, <1>7, <2>1, <2>2, <2>3, RequestMoves
<1> QED
  BY <1>4, <1>5, <1>6, <1>7 DEF Route

\* The quota preference moves no continuation.
LEMMA PreferKeeps ==
    ASSUME GatewayInv, NEW q \in Requests, PreferQuota(q)
    PROVE  GatewayInv'
<1> DEFINE c == request[q]
           y == [c EXCEPT !.at = "check"]
<1>1. /\ c \in RequestStates /\ CallOK(c) /\ c.acc \in Upstreams /\ c.key \in Clients /\ c.at = "quota"
      /\ condition \in [Upstreams -> Conditions] /\ bound \in [Clients -> Upstreams]
  BY RequestFacts DEF PreferQuota
<1>2. UNCHANGED <<condition, owner, recordVars>> /\ "check" \in GatewayPlaces
  BY DEF PreferQuota, GatewayPlaces
<1>3. \/ UNCHANGED bound /\ CallGoes(q, y)
      \/ \E a \in Upstreams : bound' = [bound EXCEPT ![c.key] = a] /\ CallGoes(q, Take(c, a, "check"))
  BY <1>1 DEF PreferQuota, Selectable
<1> HIDE DEF c
<1>4. y \in RequestStates
  BY <1>1, <1>2, CallClosed
<1>5. CallOK(y)
  BY <1>1 DEF CallOK, RequestStates, OnTheWay, Answered
<1>6. CASE UNCHANGED bound /\ CallGoes(q, y)
  <2> HIDE DEF y
  <2> QED
    BY <1>1, <1>2, <1>4, <1>5, <1>6, RequestMoves
<1>7. ASSUME NEW a \in Upstreams, bound' = [bound EXCEPT ![c.key] = a], CallGoes(q, Take(c, a, "check"))
      PROVE  GatewayInv'
  <2>1. /\ Take(c, a, "check") \in RequestStates
        /\ Take(c, a, "check").at = "check" /\ Take(c, a, "check").acc = a
        /\ Take(c, a, "check").key = c.key /\ Take(c, a, "check").cont = c.cont
        /\ Take(c, a, "check").n = c.n /\ Take(c, a, "check").tried = c.tried
        /\ Take(c, a, "check").tries = c.tries
    BY <1>1, <1>2, TakeIs
  <2>2. CallOK(Take(c, a, "check"))
    BY <1>1, <2>1 DEF CallOK, OnTheWay, Answered
  <2>3. bound' \in [Clients -> Upstreams]
    BY <1>1, <1>7
  <2> QED
    BY <1>1, <1>2, <1>7, <2>1, <2>2, <2>3, RequestMoves
<1> QED
  BY <1>3, <1>6, <1>7

\* An account that cannot be used is exchanged for one not tried before.
LEMMA CheckKeeps ==
    ASSUME GatewayInv, NEW q \in Requests, Check(q)
    PROVE  GatewayInv'
<1> DEFINE c == request[q]
           y == [c EXCEPT !.at = "send", !.member = TRUE]
           z == [c EXCEPT !.tried = {c.acc}, !.member = TRUE]
<1>1. /\ c \in RequestStates /\ CallOK(c) /\ c.acc \in Upstreams /\ c.key \in Clients /\ c.at = "check"
      /\ condition \in [Upstreams -> Conditions] /\ bound \in [Clients -> Upstreams]
      /\ c.n = 0 /\ c.tried = {}
  BY RequestFacts DEF Check, CallOK
<1>2. UNCHANGED <<condition, owner, recordVars>> /\ "send" \in GatewayPlaces /\ 0 < MaxProviderAttempts
  BY GatewayAssumption DEF Check, GatewayPlaces
<1>3. \/ UNCHANGED bound /\ CallGoes(q, y)
      \/ UNCHANGED bound /\ Done(q)
      \/ c.cont = Nothing /\ Reassign(q, z, {c.acc}, "send")
  BY DEF Check
<1> HIDE DEF c
<1>4. CASE UNCHANGED bound /\ CallGoes(q, y)
  <2>1. y \in RequestStates
    BY <1>1, <1>2, CallClosed
  <2>2. CallOK(y)
    BY <1>1, <1>2 DEF CallOK, RequestStates, OnTheWay, Answered
  <2> HIDE DEF y
  <2> QED
    BY <1>1, <1>2, <1>4, <2>1, <2>2, RequestMoves
<1>5. CASE UNCHANGED bound /\ Done(q)
  BY <1>1, <1>2, <1>5, RequestEnds
<1>6. CASE c.cont = Nothing /\ Reassign(q, z, {c.acc}, "send")
  <2>1. z \in RequestStates
    <3>1. PICK t \in SUBSET Upstreams : t = {c.acc}
      BY <1>1
    <3>2. \A s \in SUBSET Upstreams : [c EXCEPT !.tried = s, !.member = TRUE] \in RequestStates
      BY <1>1, <1>2, CallClosed
    <3> QED
      BY <3>1, <3>2
  <2>2. z.key = c.key /\ z.cont = c.cont /\ z.tries = c.tries /\ z.tried = {c.acc} /\ z.n = c.n
    BY <1>1 DEF RequestStates
  <2>3. c.tries < StoreTries
    BY <1>1 DEF CallOK
  <2> HIDE DEF z
  <2> QED
    BY <1>1, <1>2, <1>6, <2>1, <2>2, <2>3, ReassignMoves
<1> QED
  BY <1>3, <1>4, <1>5, <1>6

\* An attempt is made at an account that was not tried before.
LEMMA AttemptKeeps ==
    ASSUME GatewayInv, NEW q \in Requests, AttemptAccount(q)
    PROVE  GatewayInv'
<1> DEFINE b == request[q]
           n == b.n + 1
           t == b.tried \cup {b.acc}
           c == [b EXCEPT !.n = n, !.tried = t, !.again = FALSE, !.seen = "up"]
<1>1. /\ b \in RequestStates /\ CallOK(b) /\ b.acc \in Upstreams /\ b.key \in Clients /\ b.at = "send"
      /\ condition \in [Upstreams -> Conditions] /\ bound \in [Clients -> Upstreams]
      /\ b.n < MaxProviderAttempts
  BY RequestFacts DEF AttemptAccount, CallOK
<1>2. UNCHANGED <<condition, bound, owner, recordVars>> /\ {"move", "answer", "refresh"} \subseteq GatewayPlaces
  BY DEF AttemptAccount, GatewayPlaces
<1>3. PICK at \in {"move", "answer", "refresh"} : CallGoes(q, [c EXCEPT !.at = at])
  BY DEF AttemptAccount
<1> HIDE DEF b
<1>4. n \in 0..MaxProviderAttempts /\ t \in SUBSET Upstreams
  BY <1>1, GatewayAssumption DEF RequestStates
<1> HIDE DEF n, t
<1>5. c \in RequestStates
  <2>1. \A m \in 0..MaxProviderAttempts, s \in SUBSET Upstreams :
           [b EXCEPT !.n = m, !.tried = s, !.again = FALSE, !.seen = "up"] \in RequestStates
    BY <1>1, <1>2, CallClosed
  <2> QED
    BY <1>4, <2>1
<1>6. c.cont = b.cont /\ c.acc = b.acc /\ c.key = b.key /\ c.tries = b.tries
  BY <1>1 DEF RequestStates
<1> HIDE DEF c
<1> DEFINE y == [c EXCEPT !.at = at]
<1>7. y \in RequestStates
  BY <1>2, <1>5, CallClosed
<1>8. y.cont = c.cont /\ y.acc = c.acc /\ y.key = c.key /\ y.tries = c.tries /\ y.at = at
  BY <1>5 DEF RequestStates
<1>9. CallGoes(q, y)
  BY <1>3
<1> HIDE DEF y
<1>10. CallOK(y)
  BY <1>1, <1>6, <1>8 DEF CallOK, OnTheWay, Answered
<1> QED
  BY <1>1, <1>2, <1>7, <1>9, <1>10, RequestMoves

\* Going from an answer, or from a refresh, to the next place of the loop.
LEMMA OnlyMoves ==
    ASSUME GatewayInv, NEW q \in Requests, request[q].at \in {"answer", "refresh"},
           NEW at \in {"answer", "refresh", "move"}, NEW again \in BOOLEAN,
           CallGoes(q, [request[q] EXCEPT !.at = at, !.again = again]),
           condition' \in [Upstreams -> Conditions],
           UNCHANGED <<bound, owner, recordVars>>
    PROVE  GatewayInv'
<1> DEFINE c == request[q]
           y == [c EXCEPT !.at = at, !.again = again]
<1>1. /\ c \in RequestStates /\ CallOK(c) /\ c.acc \in Upstreams /\ c.key \in Clients
      /\ bound \in [Clients -> Upstreams]
  BY RequestFacts
<1>2. c.at \in {"answer", "refresh"} /\ CallGoes(q, y)
  OBVIOUS
<1>3. at \in GatewayPlaces
  BY DEF GatewayPlaces
<1> HIDE DEF c
<1>4. y \in RequestStates
  BY <1>1, <1>3 DEF RequestStates
<1>5. y.cont = c.cont /\ y.acc = c.acc /\ y.key = c.key /\ y.tries = c.tries /\ y.at = at
  BY <1>1 DEF RequestStates
<1> HIDE DEF y
<1>6. CallOK(y)
  BY <1>1, <1>2, <1>5 DEF CallOK, OnTheWay, Answered
<1> QED
  BY <1>1, <1>2, <1>4, <1>6, RequestMoves

\* A fresh response is its account's, and the records of others stay true.
LEMMA AnswerKeeps ==
    ASSUME GatewayInv, NEW q \in Requests, request[q].at = "answer", \E r \in Answers : owner[r] = Nothing,
           owner' = [owner EXCEPT ![NewAnswer] = request[q].acc],
           CallGoes(q, [request[q] EXCEPT !.resp = NewAnswer, !.n = 0, !.tried = {}, !.again = FALSE,
                              !.at = IF request[q].kind = "responses" THEN "session" ELSE "usage"]),
           UNCHANGED <<condition, bound, recordVars>>
    PROVE  GatewayInv'
<1> DEFINE c == request[q]
           r == NewAnswer
           at == IF c.kind = "responses" THEN "session" ELSE "usage"
           y == [c EXCEPT !.resp = r, !.n = 0, !.tried = {}, !.again = FALSE, !.at = at]
<1>1. /\ c \in RequestStates /\ CallOK(c) /\ c.acc \in Upstreams /\ c.key \in Clients /\ c.at = "answer"
      /\ condition \in [Upstreams -> Conditions] /\ bound \in [Clients -> Upstreams]
      /\ c.cont # Nothing => c.cont \in Answers
  BY RequestFacts
<1>2. r \in Answers /\ owner[r] = Nothing
  BY DEF NewAnswer
<1>3. CallGoes(q, y) /\ at \in {"session", "usage"} /\ at \in GatewayPlaces
      /\ owner' = [owner EXCEPT ![r] = c.acc]
  BY DEF GatewayPlaces
<1> HIDE DEF c, r, at
<1>4. 0 \in 0..MaxProviderAttempts
  BY GatewayAssumption
<1>5. y \in RequestStates
  BY <1>1, <1>2, <1>3, <1>4, CallClosed
<1>6. PICK z \in RequestStates :
         /\ CallGoes(q, z)
         /\ z.cont = c.cont /\ z.acc = c.acc /\ z.key = c.key /\ z.tries = c.tries /\ z.at = at /\ z.resp = r
  <2>1. y.cont = c.cont /\ y.acc = c.acc /\ y.key = c.key /\ y.tries = c.tries /\ y.at = at /\ y.resp = r
    BY <1>1 DEF RequestStates
  <2> HIDE DEF y
  <2> QED
    BY <1>3, <1>5, <2>1
<1> HIDE DEF y
<1>7. owner \in [Answers -> Upstreams \cup {Nothing}]
  BY DEF GatewayInv, GatewayTypeOK
<1>8. /\ owner' \in [Answers -> Upstreams \cup {Nothing}]
      /\ \A s \in Answers : owner[s] # Nothing => owner'[s] = owner[s]
      /\ owner'[r] = c.acc
  BY <1>1, <1>2, <1>3, <1>7
<1>9. CallOK(z)'
  BY <1>1, <1>2, <1>3, <1>6, <1>8 DEF CallOK, OnTheWay, Answered
<1>10. /\ session \in [Answers -> Upstreams \cup {Nothing}] /\ chargedTo \in [Answers -> Upstreams \cup {Nothing}]
       /\ counted \in [Answers -> Nat] /\ hashes \subseteq Answers /\ RecordedForItsAccount /\ TokensCountedOnce
  BY DEF GatewayInv, GatewayTypeOK
<1>11. UNCHANGED <<session, hashes, counted, chargedTo, condition, bound>>
  BY DEF recordVars
<1>12. TokensCountedOnce'
  BY <1>10, <1>11 DEF TokensCountedOnce
<1>13. \A s \in Answers : session[s] \in {Nothing, owner'[s]} /\ chargedTo[s] \in {Nothing, owner'[s]}
  BY <1>8, <1>10 DEF RecordedForItsAccount
<1>14. RecordedForItsAccount'
  BY <1>11, <1>13 DEF RecordedForItsAccount
<1>15. /\ session' \in [Answers -> Upstreams \cup {Nothing}] /\ chargedTo' \in [Answers -> Upstreams \cup {Nothing}]
       /\ counted' \in [Answers -> Nat] /\ hashes' \subseteq Answers /\ condition' \in [Upstreams -> Conditions]
       /\ bound' \in [Clients -> Upstreams]
  BY <1>1, <1>10, <1>11
<1> QED
  BY <1>6, <1>8, <1>9, <1>12, <1>14, <1>15, RequestGoesOn

\* An answer is evaluated: it is done, refreshed, moved on or recorded.
LEMMA EvaluateKeeps ==
    ASSUME GatewayInv, NEW q \in Requests, EvaluateResponse(q)
    PROVE  GatewayInv'
<1> DEFINE c == request[q]
<1>1. /\ c \in RequestStates /\ CallOK(c) /\ c.acc \in Upstreams /\ c.at = "answer"
      /\ condition \in [Upstreams -> Conditions] /\ bound \in [Clients -> Upstreams]
  BY RequestFacts DEF EvaluateResponse
<1>2. UNCHANGED <<bound, recordVars>>
  BY DEF EvaluateResponse
<1>3. CASE /\ \E r \in Answers : owner[r] = Nothing
           /\ owner' = [owner EXCEPT ![NewAnswer] = c.acc]
           /\ CallGoes(q, [c EXCEPT !.resp = NewAnswer, !.n = 0, !.tried = {}, !.again = FALSE,
                              !.at = IF c.kind = "responses" THEN "session" ELSE "usage"])
           /\ UNCHANGED condition
  BY <1>1, <1>2, <1>3, AnswerKeeps
<1>4. CASE Done(q) /\ UNCHANGED <<condition, owner>>
  BY <1>1, <1>2, <1>4, RequestEnds
<1>5. CASE /\ UNCHANGED owner /\ (MarkDown(c.acc) \/ UNCHANGED condition)
           /\ \E at \in {"move", "refresh"} : CallGoes(q, [c EXCEPT !.at = at])
  <2>1. PICK at \in {"move", "refresh"} : CallGoes(q, [c EXCEPT !.at = at])
    BY <1>5
  <2>2. [c EXCEPT !.at = at] = [c EXCEPT !.at = at, !.again = c.again] /\ c.again \in BOOLEAN
    BY <1>1 DEF RequestStates
  <2>3. condition' \in [Upstreams -> Conditions]
    BY <1>1, <1>5, MarkedTyped
  <2> QED
    BY <1>1, <1>2, <1>5, <2>1, <2>2, <2>3, OnlyMoves
<1> QED
  BY <1>3, <1>4, <1>5 DEF EvaluateResponse

\* A refreshed request is sent to its account once more.
LEMMA RefreshKeeps ==
    ASSUME GatewayInv, NEW q \in Requests, Refresh(q)
    PROVE  GatewayInv'
<1> DEFINE c == request[q]
<1>1. /\ c \in RequestStates /\ c.acc \in Upstreams /\ c.at = "refresh"
      /\ condition \in [Upstreams -> Conditions] /\ UNCHANGED <<bound, owner, recordVars>>
  BY RequestFacts DEF Refresh
<1>2. CASE CallGoes(q, [c EXCEPT !.at = "answer", !.again = TRUE]) /\ UNCHANGED condition
  BY <1>1, <1>2, OnlyMoves
<1>3. CASE CallGoes(q, [c EXCEPT !.at = "move"]) /\ MarkDown(c.acc)
  <2>1. [c EXCEPT !.at = "move"] = [c EXCEPT !.at = "move", !.again = c.again] /\ c.again \in BOOLEAN
    BY <1>1 DEF RequestStates
  <2>2. condition' \in [Upstreams -> Conditions]
    BY <1>1, <1>3, MarkedTyped
  <2> QED
    BY <1>1, <1>3, <2>1, <2>2, OnlyMoves
<1> QED
  BY <1>2, <1>3 DEF Refresh

\* A failover adds the account to those tried.
LEMMA FailoverKeeps ==
    ASSUME GatewayInv, NEW q \in Requests, Failover(q)
    PROVE  GatewayInv'
<1> DEFINE c == request[q]
<1>1. /\ c \in RequestStates /\ CallOK(c) /\ c.key \in Clients /\ c.at = "move"
      /\ condition \in [Upstreams -> Conditions] /\ bound \in [Clients -> Upstreams]
      /\ UNCHANGED <<condition, owner, recordVars>>
  BY RequestFacts DEF Failover
<1>2. c.tries < StoreTries /\ c.tried \in SUBSET Upstreams
  BY <1>1 DEF CallOK, RequestStates
<1>3. \/ UNCHANGED bound /\ Done(q)
      \/ c.cont = Nothing /\ c.n < MaxProviderAttempts /\ Reassign(q, c, c.tried, "send")
  BY DEF Failover
<1> HIDE DEF c
<1>4. CASE UNCHANGED bound /\ Done(q)
  BY <1>1, <1>4, RequestEnds
<1>5. CASE c.cont = Nothing /\ c.n < MaxProviderAttempts /\ Reassign(q, c, c.tried, "send")
  BY <1>1, <1>2, <1>5, ReassignMoves
<1> QED
  BY <1>3, <1>4, <1>5

\* What is written of an answered request is so, once or repeated.
LEMMA WrittenTrue ==
    ASSUME GatewayInv, NEW q \in Requests, request[q].at \in Answered,
           SaveBinding(q) \/ CountTokens(q) \/ ChargeAccount(q) \/ UNCHANGED recordVars,
           UNCHANGED owner
    PROVE  /\ session' \in [Answers -> Upstreams \cup {Nothing}]
           /\ chargedTo' \in [Answers -> Upstreams \cup {Nothing}]
           /\ counted' \in [Answers -> Nat] /\ hashes' \subseteq Answers
           /\ RecordedForItsAccount' /\ TokensCountedOnce'
<1> DEFINE r == request[q].resp
           a == request[q].acc
<1>1. r \in Answers /\ owner[r] = a /\ a \in Upstreams
  BY RequestFacts DEF CallOK, Answered
<1>2. /\ session \in [Answers -> Upstreams \cup {Nothing}] /\ chargedTo \in [Answers -> Upstreams \cup {Nothing}]
      /\ counted \in [Answers -> Nat] /\ hashes \subseteq Answers /\ RecordedForItsAccount /\ TokensCountedOnce
  BY DEF GatewayInv, GatewayTypeOK
<1>3. \/ /\ UNCHANGED <<hashes, counted>>
         /\ session' = [session EXCEPT ![r] = IF @ = Nothing THEN a ELSE @]
         /\ chargedTo' = [chargedTo EXCEPT ![r] = IF @ = Nothing THEN a ELSE @]
      \/ /\ UNCHANGED <<session, chargedTo>> /\ r \notin hashes /\ hashes' = hashes \cup {r}
         /\ counted' = [counted EXCEPT ![r] = @ + 1]
      \/ UNCHANGED <<session, hashes, counted>> /\ chargedTo' = [chargedTo EXCEPT ![r] = IF @ = Nothing THEN a ELSE @]
      \/ UNCHANGED <<session, hashes, counted, chargedTo>>
  BY DEF SaveBinding, CountTokens, ChargeAccount, AnsweredBy, recordVars
<1> HIDE DEF r, a
<1>4. /\ session' \in [Answers -> Upstreams \cup {Nothing}]
      /\ chargedTo' \in [Answers -> Upstreams \cup {Nothing}]
      /\ \A s \in Answers : /\ session'[s] = session[s] \/ (s = r /\ session'[s] = a)
                            /\ chargedTo'[s] = chargedTo[s] \/ (s = r /\ chargedTo'[s] = a)
  BY <1>1, <1>2, <1>3
<1>5. /\ counted' \in [Answers -> Nat] /\ hashes' \subseteq Answers
      /\ \/ UNCHANGED <<hashes, counted>>
         \/ /\ r \notin hashes /\ hashes' = hashes \cup {r} /\ counted'[r] = counted[r] + 1
            /\ \A s \in Answers \ {r} : counted'[s] = counted[s]
  BY <1>1, <1>2, <1>3
<1>6. TokensCountedOnce'
  BY <1>1, <1>2, <1>5 DEF TokensCountedOnce
<1>7. RecordedForItsAccount'
  BY <1>1, <1>2, <1>4 DEF RecordedForItsAccount
<1> QED
  BY <1>4, <1>5, <1>6, <1>7

\* A write and its repetitions; a write that has used up its tries is given up.
LEMMA RecordKeeps ==
    ASSUME GatewayInv, NEW q \in Requests, request[q].at \in Answered,
           SaveSession(q) \/ AddUsage(q) \/ RecordProviderRequest(q)
    PROVE  GatewayInv'
<1> DEFINE c == request[q]
<1>1. /\ c \in RequestStates /\ CallOK(c) /\ c.at \in Answered
      /\ condition \in [Upstreams -> Conditions] /\ bound \in [Clients -> Upstreams]
  BY RequestFacts
<1>2. UNCHANGED <<condition, bound, owner>>
  BY DEF SaveSession, AddUsage, RecordProviderRequest
<1>3. SaveBinding(q) \/ CountTokens(q) \/ ChargeAccount(q) \/ UNCHANGED recordVars
  BY DEF SaveSession, AddUsage, RecordProviderRequest, Try
<1>4. /\ session' \in [Answers -> Upstreams \cup {Nothing}]
      /\ chargedTo' \in [Answers -> Upstreams \cup {Nothing}]
      /\ counted' \in [Answers -> Nat] /\ hashes' \subseteq Answers
      /\ RecordedForItsAccount' /\ TokensCountedOnce'
  BY <1>2, <1>3, WrittenTrue
<1>5. \/ Done(q)
      \/ \E at \in {"usage", "record"} : CallGoes(q, [c EXCEPT !.at = at, !.tries = 0])
      \/ c.tries + 1 # StoreTries /\ CallGoes(q, [c EXCEPT !.tries = c.tries + 1])
  BY DEF SaveSession, AddUsage, RecordProviderRequest, Try, After
<1> HIDE DEF c
<1>6. PICK y \in RequestStates : CallGoes(q, y) /\ CallOK(y)
  <2>1. CASE Done(q)
    <3> DEFINE y == [NewCall EXCEPT !.at = "done"]
    <3>1. y \in RequestStates /\ CallGoes(q, y)
      BY <2>1, NewTyped DEF Done
    <3>2. CallOK(y)
      BY GatewayAssumption DEF CallOK, NewCall, OnTheWay, Answered
    <3> QED
      BY <3>1, <3>2
  <2>2. ASSUME NEW at \in {"usage", "record"}, CallGoes(q, [c EXCEPT !.at = at, !.tries = 0])
        PROVE  \E y \in RequestStates : CallGoes(q, y) /\ CallOK(y)
    <3> DEFINE y == [c EXCEPT !.at = at, !.tries = 0]
    <3>1. y \in RequestStates
      BY <1>1, CallClosed DEF GatewayPlaces
    <3>2. y.at = at /\ y.tries = 0 /\ y.acc = c.acc /\ y.key = c.key /\ y.cont = c.cont /\ y.resp = c.resp
      BY <1>1 DEF RequestStates
    <3>3. CallGoes(q, y)
      BY <2>2
    <3> HIDE DEF y
    <3>4. CallOK(y)
      BY <1>1, <3>2, GatewayAssumption DEF CallOK, OnTheWay, Answered
    <3> QED
      BY <3>1, <3>3, <3>4
  <2>3. CASE c.tries + 1 # StoreTries /\ CallGoes(q, [c EXCEPT !.tries = c.tries + 1])
    <3> DEFINE n == c.tries + 1
               y == [c EXCEPT !.tries = n]
    <3>1. n \in 0..StoreTries /\ n < StoreTries
      BY <1>1, <2>3, GatewayAssumption DEF CallOK, RequestStates
    <3>2. CallGoes(q, y)
      BY <2>3
    <3> HIDE DEF n
    <3>3. y \in RequestStates
      <4>1. \A m \in 0..StoreTries : [c EXCEPT !.tries = m] \in RequestStates
        BY <1>1 DEF RequestStates
      <4> QED
        BY <3>1, <4>1
    <3>4. y.at = c.at /\ y.tries = n /\ y.acc = c.acc /\ y.key = c.key /\ y.cont = c.cont /\ y.resp = c.resp
      BY <1>1 DEF RequestStates
    <3> HIDE DEF y
    <3>5. CallOK(y)
      BY <1>1, <3>1, <3>4 DEF CallOK, OnTheWay, Answered
    <3> QED
      BY <3>2, <3>3, <3>5
  <2> QED
    BY <1>5, <2>1, <2>2, <2>3
<1>7. CallOK(y)'
  BY <1>2, <1>6 DEF CallOK
<1> QED
  BY <1>1, <1>2, <1>4, <1>6, <1>7, RequestGoesOn DEF GatewayInv, GatewayTypeOK

\* A limit found at the end of a stream marks the account only.
LEMMA StreamEndsKeeps ==
    ASSUME GatewayInv, NEW q \in Requests, StreamEnds(q)
    PROVE  GatewayInv'
<1>1. /\ condition \in [Upstreams -> Conditions] /\ bound \in [Clients -> Upstreams] /\ request[q].acc \in Upstreams
      /\ Done(q) /\ MarkDown(request[q].acc) /\ UNCHANGED <<bound, owner, recordVars>>
  BY RequestFacts DEF StreamEnds
<1>2. condition' \in [Upstreams -> Conditions]
  BY <1>1, MarkedTyped
<1> QED
  BY <1>1, <1>2, RequestEnds

\* No request has begun and no answer has been given.
LEMMA GatewayInvInit == GatewayInit => GatewayInv
<1> SUFFICES ASSUME GatewayInit PROVE GatewayInv
  OBVIOUS
<1>1. GatewayTypeOK
  BY NewTyped DEF GatewayInit, GatewayTypeOK, Conditions
<1>2. CallsInv
  BY GatewayAssumption DEF GatewayInit, CallsInv, CallOK, NewCall, OnTheWay, Answered
<1> QED
  BY <1>1, <1>2 DEF GatewayInit, GatewayInv, RecordedForItsAccount, TokensCountedOnce

\* Every step of any request and every change of an account keeps it.
LEMMA GatewayInvNext == GatewayInv /\ [GatewayNext]_gatewayVars => GatewayInv'
<1> SUFFICES ASSUME GatewayInv, [GatewayNext]_gatewayVars PROVE GatewayInv'
  OBVIOUS
<1>1. ASSUME NEW q \in Requests, CallStep(q)
      PROVE  GatewayInv'
  <2>1. SaveSession(q) \/ AddUsage(q) \/ RecordProviderRequest(q) => request[q].at \in Answered
    BY DEF SaveSession, AddUsage, RecordProviderRequest, Try, Answered
  <2> QED
    BY <1>1, <2>1, RouteKeeps, PreferKeeps, CheckKeeps, AttemptKeeps, EvaluateKeeps, RefreshKeeps,
       FailoverKeeps, RecordKeeps, StreamEndsKeeps DEF CallStep
<1>2. ASSUME NEW a \in Upstreams, NEW c \in Conditions, ConditionChanges(a, c)
      PROVE  GatewayInv'
  BY <1>2 DEF ConditionChanges, GatewayInv, GatewayTypeOK, CallsInv, CallOK, recordVars,
              RecordedForItsAccount, TokensCountedOnce
<1>3. CASE UNCHANGED gatewayVars
  BY <1>3 DEF gatewayVars, GatewayInv, GatewayTypeOK, CallsInv, CallOK, RecordedForItsAccount, TokensCountedOnce
<1> QED
  BY <1>1, <1>2, <1>3, AuthorizeKeeps DEF GatewayNext

\* Whatever the other requests of a key do to its binding, and however often a
\* write is repeated: a continuation stays with its account, the records name
\* the account that answered, tokens are counted once, failover never goes back.
THEOREM RequestsAreSafe == GatewaySpec => []GatewaySafe
<1>1. GatewayInv => GatewaySafe
  BY DEF GatewayInv, GatewaySafe, ContinuationPinned, NoAccountTriedTwice, CallsInv, CallOK, OnTheWay
<1> QED
  BY <1>1, GatewayInvInit, GatewayInvNext, PTL DEF GatewaySpec

-----------------------------------------------------------------------------
(* The memory for request bodies: totals over the goroutines, what a       *)
(* goroutine holds at each place, and its steps one by one.                *)

\* What a total is the number of.
UnitsOf(h) == UNION {{r} \X (1..h[r]) : r \in Reqs}

\* What a family of numbers adds up to is counted by a finite set.
LEMMA UnitsFinite ==
    ASSUME NEW h \in [Reqs -> Nat]
    PROVE  IsFiniteSet(UnitsOf(h))
<1> DEFINE f == [r \in Reqs |-> {r} \X (1..h[r])]
           Parts == {{r} \X (1..h[r]) : r \in Reqs}
<1>1. f \in Surjection(Reqs, Parts)
  BY DEF Surjection
<1>2. IsFiniteSet(Reqs)
  BY RequestBodyAssumptions
<1>3. IsFiniteSet(Parts)
  BY <1>1, <1>2, FS_Surjection
<1>4. ASSUME NEW r \in Reqs
      PROVE  IsFiniteSet({r} \X (1..h[r]))
  <2>1. IsFiniteSet({r})
    BY FS_Singleton
  <2>2. IsFiniteSet(1..h[r])
    BY FS_Interval
  <2> QED
    BY <2>1, <2>2, FS_Product
<1>5. \A T \in Parts : IsFiniteSet(T)
  BY <1>4
<1> HIDE DEF Parts
<1>6. IsFiniteSet(UNION Parts)
  BY <1>3, <1>5, FS_UNION
<1> QED
  BY <1>6 DEF UnitsOf, Parts

\* So the sum is a natural number,
LEMMA TotalIsNat ==
    ASSUME NEW h \in [Reqs -> Nat]
    PROVE  Total(h) \in Nat
<1>1. IsFiniteSet(UnitsOf(h))
  BY UnitsFinite
<1> QED
  BY <1>1, FS_CardinalityType DEF Total, UnitsOf

\* zero when every number is,
LEMMA TotalOfNothing ==
    ASSUME NEW h \in [Reqs -> Nat], \A r \in Reqs : h[r] = 0
    PROVE  Total(h) = 0
<1>1. UnitsOf(h) = {}
  BY DEF UnitsOf
<1> QED
  BY <1>1, FS_EmptySet DEF Total, UnitsOf

\* and no smaller when no number is.
LEMMA TotalIsMonotone ==
    ASSUME NEW h \in [Reqs -> Nat], NEW k \in [Reqs -> Nat], \A r \in Reqs : h[r] <= k[r]
    PROVE  Total(h) <= Total(k)
<1>1. \A r \in Reqs : 1..h[r] \subseteq 1..k[r]
  OBVIOUS
<1>2. UnitsOf(h) \subseteq UnitsOf(k)
  BY <1>1 DEF UnitsOf
<1>3. IsFiniteSet(UnitsOf(k))
  BY UnitsFinite
<1>4. Cardinality(UnitsOf(h)) <= Cardinality(UnitsOf(k))
  BY <1>2, <1>3, FS_Subset
<1> QED
  BY <1>4 DEF Total, UnitsOf

\* A total without the part of r, and that part.
LEMMA TotalSplits ==
    ASSUME NEW h \in [Reqs -> Nat], NEW r \in Reqs
    PROVE  Total(h) = Total([h EXCEPT ![r] = 0]) + h[r]
<1> DEFINE k == [h EXCEPT ![r] = 0]
           mine == {r} \X (1..h[r])
<1>1. k \in [Reqs -> Nat] /\ k[r] = 0 /\ \A q \in Reqs \ {r} : k[q] = h[q]
  OBVIOUS
<1> HIDE DEF k
<1>2. UnitsOf(h) = UnitsOf(k) \cup mine
  <2>1. \A q \in Reqs \ {r} : {q} \X (1..k[q]) = {q} \X (1..h[q])
    BY <1>1
  <2>2. {r} \X (1..k[r]) = {}
    BY <1>1
  <2> QED
    BY <2>1, <2>2 DEF UnitsOf
<1>3. UnitsOf(k) \cap mine = {}
  BY <1>1 DEF UnitsOf
<1>4. IsFiniteSet(UnitsOf(k))
  BY <1>1, UnitsFinite
<1>5. IsFiniteSet({r}) /\ Cardinality({r}) = 1
  BY FS_Singleton
<1>6. h[r] \in Nat
  OBVIOUS
<1>7. IsFiniteSet(1..h[r]) /\ Cardinality(1..h[r]) = h[r]
  BY <1>6, FS_Interval
<1>8. IsFiniteSet(mine) /\ Cardinality(mine) = 1 * h[r]
  BY <1>5, <1>7, FS_Product
<1> HIDE DEF mine
<1>9. Cardinality(UnitsOf(h)) = Cardinality(UnitsOf(k)) + Cardinality(mine) - Cardinality({})
  BY <1>2, <1>3, <1>4, <1>8, FS_Union
<1>10. Cardinality({}) = 0 /\ Cardinality(UnitsOf(k)) \in Nat
  BY <1>4, FS_EmptySet, FS_CardinalityType
<1>11. Cardinality(UnitsOf(h)) = Cardinality(UnitsOf(k)) + h[r]
  BY <1>6, <1>8, <1>9, <1>10
<1> QED
  BY <1>11 DEF Total, UnitsOf, k

\* One goroutine reserves or gives back.
LEMMA TotalChanges ==
    ASSUME NEW h \in [Reqs -> Nat], NEW r \in Reqs, NEW n \in Nat
    PROVE  Total([h EXCEPT ![r] = n]) = Total(h) - h[r] + n
<1>1. PICK k : k = [h EXCEPT ![r] = n]
  OBVIOUS
<1>2. k \in [Reqs -> Nat] /\ k[r] = n /\ [k EXCEPT ![r] = 0] = [h EXCEPT ![r] = 0]
  BY <1>1
<1>3. Total(k) = Total([h EXCEPT ![r] = 0]) + n
  BY <1>2, TotalSplits
<1>4. Total(h) = Total([h EXCEPT ![r] = 0]) + h[r]
  BY TotalSplits
<1>5. [h EXCEPT ![r] = 0] \in [Reqs -> Nat] /\ h[r] \in Nat
  OBVIOUS
<1>6. Total([h EXCEPT ![r] = 0]) \in Nat
  BY <1>5, TotalIsNat
<1> QED
  BY <1>1, <1>3, <1>4, <1>5, <1>6

\* A goroutine with its reservation.
Bodies == [at : Places, kind : Kinds, declared : Nat \cup {Unknown}, size : Nat,
           limits : [max : Nat, inflight : Nat], got : Nat, bytes : Nat, released : BOOLEAN,
           cap : Nat, want : Nat, then : {"read", "chunk", "work", "lease"}, seen : Nat, prev : Nat,
           lease : Nat, attempts : Nat, refused : {"no", "too_large", "capacity", "read_failed"}]

Acquires(f) == f.at \in {"load", "cas"}
Served(f) == \/ f.at \in {"held", "work", "stream", "lease", "answered"}
             \/ Acquires(f) /\ f.then \in {"work", "lease"}

\* Where a reservation may be released already, and a lease taken; what is
\* acquired, under which limit, and that a body within the limit fits.
BodyOK(f) ==
    /\ f.at = "idle" => f = Idle
    /\ f.at # "idle" => ValidLimits(f.limits)
    /\ f.lease # 0 => f.at = "lease"
    /\ f.released => \/ f.at \in {"released", "held", "lease", "answered"}
                     \/ Acquires(f) /\ f.then = "lease"
    /\ f.released /\ f.at # "released" => f.kind = "ws"
    /\ Acquires(f) /\ f.then # "lease" => f.cap = f.limits.inflight
    /\ f.at = "cas" => f.want + f.seen <= f.cap
    /\ Acquires(f) /\ f.then \in {"read", "chunk"} => f.want + f.bytes <= f.limits.inflight
    /\ f.got <= f.limits.max
    /\ f.refused = "too_large" => f.size > f.limits.max \/ f.declared > f.limits.max
    /\ Served(f) => f.got = f.size

Held(f) == (IF f.released THEN 0 ELSE f.bytes) + f.lease

\* What counts of it under a limit of L.
Share(f, L) == (IF f.released \/ f.limits.inflight > L THEN 0 ELSE f.bytes)
               + (IF f.cap > L THEN 0 ELSE f.lease)

SettingsOK ==
    /\ settings \in {Unset} \cup [max : MaxChoices \cup {DefaultLimits.max},
                                  inflight : InflightChoices \cup {DefaultLimits.inflight}]
    /\ ValidLimits(WithDefaults(settings))

BodyInv ==
    /\ used \in Nat /\ SettingsOK
    /\ req \in [Reqs -> Bodies] /\ \A r \in Reqs : BodyOK(req[r])
    /\ used = Total([r \in Reqs |-> Holds(r)])
    /\ \A L \in Nat : L \in InflightChoices \cup {DefaultLimits.inflight} => ReservedUnder(L) <= L

\* What the invariant says of one request.
LEMMA BodyFacts ==
    ASSUME BodyInv, NEW r \in Reqs
    PROVE  req[r] \in Bodies /\ BodyOK(req[r])
  BY DEF BodyInv

\* A goroutine that has not begun holds nothing.
LEMMA IdleIsABody == Idle \in Bodies /\ BodyOK(Idle) /\ Idle.bytes = 0 /\ Idle.lease = 0
<1>1. Idle \in Bodies
  BY DEF Idle, Bodies, Places, Kinds, Unknown, Unset
<1>2. PICK g : g = Idle
  OBVIOUS
<1>3. /\ g.at = "idle" /\ g.lease = 0 /\ g.bytes = 0 /\ g.released = FALSE /\ g.got = 0 /\ g.refused = "no"
      /\ g.limits.max = 0
  BY <1>2 DEF Idle, Unset
<1>4. BodyOK(g)
  BY <1>2, <1>3 DEF BodyOK, Acquires, Served
<1> QED
  BY <1>1, <1>2, <1>3, <1>4

\* What a goroutine holds, and how much of it under a limit.
LEMMA HeldIsNat ==
    ASSUME NEW f \in Bodies
    PROVE  Held(f) \in Nat /\ \A L \in Nat : Share(f, L) \in Nat /\ Share(f, L) <= Held(f)
<1>1. f.bytes \in Nat /\ f.lease \in Nat
  BY DEF Bodies
<1> QED
  BY <1>1 DEF Held, Share

\* The limits in force are valid ones.
LEMMA LimitsNow ==
    ASSUME SettingsOK
    PROVE  WithDefaults(settings) \in [max : Nat, inflight : Nat] /\ ValidLimits(WithDefaults(settings))
  BY RequestBodyAssumptions DEF SettingsOK, WithDefaults

\* A body within its limit can be paid for, and fits in the budget.
LEMMA CostFits ==
    ASSUME NEW l \in [max : Nat, inflight : Nat], ValidLimits(l), NEW n \in Nat, n <= l.max, NEW c \in 1..4
    PROVE  CostValid(n, c) /\ Cost(n, c) \in Nat /\ Cost(n, c) <= l.inflight
<1>1. PICK m, i : m = l.max /\ i = l.inflight
  OBVIOUS
<1>2. m \in Nat /\ i \in Nat /\ m <= MaxInt \div 4 /\ i >= m * 4 /\ MaxInt \in Nat
  BY <1>1, RequestBodyAssumptions DEF ValidLimits
<1>3. c = 1 \/ c = 2 \/ c = 3 \/ c = 4
  OBVIOUS
<1>4. n <= MaxInt \div 4 /\ n * 4 <= i
  BY <1>1, <1>2
<1>5. CASE c = 1
  BY <1>1, <1>2, <1>4, <1>5 DEF CostValid, Cost
<1>6. CASE c = 2
  BY <1>1, <1>2, <1>4, <1>6 DEF CostValid, Cost
<1>7. CASE c = 3
  BY <1>1, <1>2, <1>4, <1>7 DEF CostValid, Cost
<1>8. CASE c = 4
  BY <1>1, <1>2, <1>4, <1>8 DEF CostValid, Cost
<1> QED
  BY <1>3, <1>5, <1>6, <1>7, <1>8

\* A body is held in one to four copies.
LEMMA CopiesType == \A k : Copies(k) \in 1..4
  BY RequestBodyAssumptions DEF Copies

\* What a body costs is a number,
LEMMA CostIsNat ==
    ASSUME NEW n \in Nat, NEW c \in Nat
    PROVE  Cost(n, c) \in Nat
  BY DEF Cost

\* and so is the smaller of two.
LEMMA MinOfTwo ==
    ASSUME NEW a \in Nat, NEW b \in Nat
    PROVE  Min({a, b}) \in Nat /\ Min({a, b}) <= a /\ Min({a, b}) <= b
<1>1. \E x \in {a, b} : \A y \in {a, b} : x <= y
  <2>1. CASE a <= b
    BY <2>1
  <2>2. CASE b <= a
    BY <2>2
  <2> QED
    BY <2>1, <2>2
<1>2. Min({a, b}) \in {a, b} /\ \A y \in {a, b} : Min({a, b}) <= y
  BY <1>1 DEF Min
<1> QED
  BY <1>2

\* One goroutine takes a step.  Unless it reserves nothing more, what it leaves
\* reserved in all is within the limit in question.
LEMMA GoroutineStep ==
    ASSUME BodyInv, NEW r \in Reqs, NEW g \in Bodies, BodyOK(g),
           req' = [req EXCEPT ![r] = g], settings' = settings,
           used' = used - Held(req[r]) + Held(g),
           \A L \in Nat : Share(g, L) <= Share(req[r], L) \/ used' <= L
    PROVE  BodyInv'
<1> DEFINE h == [q \in Reqs |-> Holds(q)]
           k == [h EXCEPT ![r] = Held(g)]
<1>1. \A q \in Reqs : Holds(q) = Held(req[q]) /\ \A L : Under(q, L) = Share(req[q], L)
  BY DEF Holds, Held, Under, Share
<1>2. \A q \in Reqs : Held(req[q]) \in Nat /\ \A L \in Nat : Share(req[q], L) \in Nat
  BY BodyFacts, HeldIsNat
<1>3. Held(g) \in Nat /\ \A L \in Nat : Share(g, L) \in Nat /\ Share(g, L) <= Held(g)
  BY HeldIsNat
<1>4. h \in [Reqs -> Nat] /\ h[r] = Held(req[r])
  BY <1>1, <1>2
<1>5. req' \in [Reqs -> Bodies] /\ req'[r] = g /\ \A q \in Reqs \ {r} : req'[q] = req[q]
  BY DEF BodyInv
<1>6. \A q \in Reqs : BodyOK(req'[q])
  BY <1>5 DEF BodyInv
<1>7. \A q \in Reqs : Holds(q)' = Held(req'[q]) /\ \A L : Under(q, L)' = Share(req'[q], L)
  BY DEF Holds, Held, Under, Share
<1>8. [q \in Reqs |-> Holds(q)]' = k
  BY <1>1, <1>5, <1>7
<1> HIDE DEF h
<1>9. Total(k) = Total(h) - h[r] + Held(g)
  BY <1>3, <1>4, TotalChanges
<1>10. k \in [Reqs -> Nat]
  BY <1>3, <1>4
<1>11. used = Total(h)
  BY DEF BodyInv, h
<1>12. used' = Total(k) /\ Total(k) \in Nat
  BY <1>4, <1>9, <1>10, <1>11, TotalIsNat
<1>13. used' = Total([q \in Reqs |-> Holds(q)]')
  BY <1>8, <1>12
<1>14. ASSUME NEW L \in Nat, L \in InflightChoices \cup {DefaultLimits.inflight}
       PROVE  ReservedUnder(L)' <= L
  <2> DEFINE u == [q \in Reqs |-> Share(req[q], L)]
             v == [q \in Reqs |-> Share(req'[q], L)]
  <2>1. ReservedUnder(L) = Total(u) /\ ReservedUnder(L)' = Total(v)
    BY <1>1, <1>7, ZenonT(40) DEF ReservedUnder, Total
  <2>2. u \in [Reqs -> Nat]
    BY <1>2
  <2>3. v \in [Reqs -> Nat]
    BY <1>2, <1>3, <1>5
  <2>4. Total(u) <= L
    <3>1. ReservedUnder(L) <= L
      BY <1>14 DEF BodyInv
    <3> QED
      BY <2>1, <3>1
  <2>5. Total(u) \in Nat /\ Total(v) \in Nat
    BY <2>2, <2>3, TotalIsNat
  <2>6. CASE Share(g, L) <= Share(req[r], L)
    <3>1. \A q \in Reqs : v[q] <= u[q]
      BY <2>6, <1>2, <1>5
    <3> HIDE DEF u, v
    <3>2. Total(v) <= Total(u)
      BY <2>2, <2>3, <3>1, TotalIsMonotone
    <3> QED
      BY <2>1, <2>4, <2>5, <3>2
  <2>7. CASE used' <= L
    <3>1. \A q \in Reqs : v[q] <= k[q]
      <4> TAKE q \in Reqs
      <4>1. CASE q = r
        BY <4>1, <1>3, <1>4, <1>5
      <4>2. CASE q # r
        <5>1. v[q] = Share(req[q], L) /\ k[q] = Held(req[q])
          BY <4>2, <1>1, <1>4, <1>5 DEF h
        <5>2. req[q] \in Bodies
          BY BodyFacts
        <5> QED
          BY <5>1, <5>2, HeldIsNat
      <4> QED
        BY <4>1, <4>2
    <3> HIDE DEF v, k
    <3>2. Total(v) <= Total(k)
      BY <1>10, <2>3, <3>1, TotalIsMonotone
    <3> QED
      BY <1>12, <2>1, <2>5, <2>7, <3>2
  <2> QED
    BY <2>6, <2>7
<1>15. SettingsOK'
  BY DEF BodyInv, SettingsOK, WithDefaults
<1>16. used' \in Nat
  BY <1>12
<1>17. \A L \in Nat : L \in InflightChoices \cup {DefaultLimits.inflight} => ReservedUnder(L)' <= L
  BY <1>14
<1> QED
  BY <1>5, <1>6, <1>13, <1>15, <1>16, <1>17 DEF BodyInv, Total

\* The reservation stays as it is ...
LEMMA LocalStep ==
    ASSUME BodyInv, NEW r \in Reqs, NEW g \in Bodies, BodyOK(g),
           req' = [req EXCEPT ![r] = g], settings' = settings, used' = used,
           g.bytes = req[r].bytes, g.lease = req[r].lease,
           g.bytes = 0 \/ (g.released = req[r].released /\ g.limits = req[r].limits),
           g.lease = 0 \/ g.cap = req[r].cap
    PROVE  BodyInv'
<1>1. PICK f : f = req[r]
  OBVIOUS
<1>2. f.bytes \in Nat /\ f.lease \in Nat
  BY <1>1, BodyFacts DEF Bodies
<1>3. Held(g) = Held(f) /\ \A L \in Nat : Share(g, L) = Share(f, L)
  BY <1>1, <1>2 DEF Held, Share
<1>4. Held(f) \in Nat /\ (\A L \in Nat : Share(f, L) \in Nat) /\ used \in Nat
  BY <1>1, BodyFacts, HeldIsNat DEF BodyInv
<1>5. used' = used - Held(req[r]) + Held(g)
  BY <1>1, <1>3, <1>4
<1>6. \A L \in Nat : Share(g, L) <= Share(req[r], L)
  BY <1>1, <1>3, <1>4
<1> QED
  BY <1>5, <1>6, GoroutineStep

\* ... is released, once ...
LEMMA ReleaseStep ==
    ASSUME BodyInv, NEW r \in Reqs, NEW g \in Bodies, BodyOK(g),
           release(r, g), settings' = settings,
           g.released \/ g.bytes = 0, g.lease = req[r].lease, g.lease = 0 \/ g.cap = req[r].cap
    PROVE  BodyInv'
<1>1. PICK f : f = req[r]
  OBVIOUS
<1>2. f.bytes \in Nat /\ f.lease \in Nat /\ used \in Nat
  BY <1>1, BodyFacts DEF Bodies, BodyInv
<1>3. used' = (IF f.released THEN used ELSE used - f.bytes) /\ req' = [req EXCEPT ![r] = g]
  BY <1>1 DEF release, SetReq
<1>4. Held(g) = g.lease /\ g.lease = f.lease
  BY <1>1, <1>2 DEF Held
<1>5. Held(f) = (IF f.released THEN 0 ELSE f.bytes) + f.lease
  BY DEF Held
<1>6. used' = used - Held(req[r]) + Held(g)
  BY <1>1, <1>2, <1>3, <1>4, <1>5
<1>7. \A L \in Nat : Share(g, L) <= Share(req[r], L)
  BY <1>1, <1>2, <1>4 DEF Share
<1> QED
  BY <1>3, <1>6, <1>7, GoroutineStep

\* ... or shrinks.
LEMMA ShrinkStep ==
    ASSUME BodyInv, NEW r \in Reqs, NEW g \in Bodies, BodyOK(g), NEW bytes \in Nat,
           req' = [req EXCEPT ![r] = g], settings' = settings, used' = used - GivenBack(req[r], bytes),
           ~req[r].released, ~g.released, g.limits = req[r].limits,
           g.bytes = (IF bytes >= req[r].bytes THEN req[r].bytes ELSE bytes), g.lease = 0, req[r].lease = 0
    PROVE  BodyInv'
<1>1. PICK f : f = req[r]
  OBVIOUS
<1>2. f.bytes \in Nat /\ used \in Nat
  BY <1>1, BodyFacts DEF Bodies, BodyInv
<1>3. Held(f) = f.bytes /\ Held(g) = g.bytes /\ g.bytes \in Nat
  BY <1>1, <1>2 DEF Held
<1>4. GivenBack(f, bytes) = f.bytes - g.bytes /\ g.bytes <= f.bytes
  BY <1>1, <1>2 DEF GivenBack
<1>5. used' = used - Held(req[r]) + Held(g)
  BY <1>1, <1>2, <1>3, <1>4
<1>6. \A L \in Nat : Share(g, L) <= Share(req[r], L)
  <2>1. \A L : Share(g, L) = (IF f.limits.inflight > L THEN 0 ELSE g.bytes) + 0
    BY <1>1, <1>3 DEF Share
  <2>2. \A L : Share(f, L) = (IF f.limits.inflight > L THEN 0 ELSE f.bytes) + 0
    BY <1>1 DEF Share
  <2> QED
    BY <1>1, <1>2, <1>3, <1>4, <2>1, <2>2
<1> QED
  BY <1>5, <1>6, GoroutineStep

\* A request ends unserved.
LEMMA RefuseStep ==
    ASSUME BodyInv, NEW r \in Reqs, NEW why \in {"too_large", "capacity", "read_failed"},
           Refuse(r, why), settings' = settings, req[r].at \notin {"idle", "lease"},
           why = "too_large" => req[r].size > req[r].limits.max
    PROVE  BodyInv'
<1>1. PICK f : f = req[r]
  OBVIOUS
<1>2. f \in Bodies /\ BodyOK(f)
  BY <1>1, BodyFacts
<1>3. PICK e : e = [f EXCEPT !.at = "released", !.released = TRUE]
  OBVIOUS
<1>4. "released" \in Places
  BY DEF Places
<1>5. /\ e \in Bodies /\ e.at = "released" /\ e.released = TRUE /\ e.limits = f.limits /\ e.lease = f.lease
      /\ e.cap = f.cap /\ e.size = f.size /\ e.declared = f.declared /\ e.got = f.got
  BY <1>2, <1>3, <1>4 DEF Bodies
<1>6. PICK g : g = [e EXCEPT !.refused = why]
  OBVIOUS
<1>7. /\ g \in Bodies /\ g.at = "released" /\ g.released = TRUE /\ g.limits = f.limits /\ g.lease = f.lease
      /\ g.cap = f.cap /\ g.size = f.size /\ g.declared = f.declared /\ g.got = f.got /\ g.refused = why
  BY <1>5, <1>6 DEF Bodies
<1>8. f.lease = 0 /\ ValidLimits(f.limits)
  BY <1>1, <1>2 DEF BodyOK
<1>9. BodyOK(g)
  BY <1>1, <1>2, <1>7, <1>8 DEF BodyOK, Acquires, Served
<1>10. release(r, g)
  BY <1>1, <1>3, <1>6 DEF Refuse, Freed
<1> QED
  BY <1>1, <1>7, <1>8, <1>9, <1>10, ReleaseStep
-----------------------------------------------------------------------------
\* A goroutine that only goes on changes nothing else.
LEMMA PlaceChanges ==
    ASSUME NEW f \in Bodies, NEW place \in Places, NEW g, g = [f EXCEPT !.at = place]
    PROVE  /\ g \in Bodies /\ g.at = place /\ g.kind = f.kind /\ g.declared = f.declared /\ g.size = f.size
           /\ g.limits = f.limits /\ g.got = f.got /\ g.bytes = f.bytes /\ g.released = f.released
           /\ g.cap = f.cap /\ g.want = f.want /\ g.then = f.then /\ g.seen = f.seen /\ g.lease = f.lease
           /\ g.refused = f.refused
  BY DEF Bodies

\* The value read from the counter is one it had while the goroutine was there.
LEMMA LoadStep ==
    ASSUME BodyInv, NEW r \in Reqs, LoadUsed(r)
    PROVE  BodyInv'
<1>1. PICK f : f = req[r]
  OBVIOUS
<1>2. f \in Bodies /\ BodyOK(f) /\ f.at = "load" /\ settings' = settings
  BY <1>1, BodyFacts DEF LoadUsed
<1>3. CASE f.want > f.cap - used /\ f.then \in {"read", "chunk"}
  BY <1>1, <1>2, <1>3, RefuseStep DEF LoadUsed, AcquireFails
<1>4. CASE f.want > f.cap - used /\ f.then \notin {"read", "chunk"}
  <2>1. PICK g : g = [f EXCEPT !.at = "answered"]
    OBVIOUS
  <2>2. "answered" \in Places
    BY DEF Places
  <2>3. /\ g \in Bodies /\ g.at = "answered" /\ g.kind = f.kind /\ g.declared = f.declared /\ g.size = f.size
        /\ g.limits = f.limits /\ g.got = f.got /\ g.bytes = f.bytes /\ g.released = f.released
        /\ g.cap = f.cap /\ g.lease = f.lease /\ g.refused = f.refused
    BY <1>2, <2>1, <2>2, PlaceChanges
  <2>4. f.then \in {"work", "lease"} /\ f.lease = 0
    BY <1>2, <1>4 DEF Bodies, BodyOK
  <2>5. BodyOK(g)
    BY <1>2, <2>3, <2>4 DEF BodyOK, Acquires, Served
  <2>6. req' = [req EXCEPT ![r] = g] /\ used' = used
    BY <1>1, <1>4, <2>1 DEF LoadUsed, AcquireFails, BodyAt, SetReq
  <2> QED
    BY <1>1, <1>2, <2>3, <2>4, <2>5, <2>6, LocalStep
<1>5. CASE ~(f.want > f.cap - used)
  <2>1. PICK g : g = [f EXCEPT !.at = "cas", !.seen = used]
    OBVIOUS
  <2>2. "cas" \in Places /\ used \in Nat
    BY DEF Places, BodyInv
  <2>3. /\ g \in Bodies /\ g.at = "cas" /\ g.kind = f.kind /\ g.declared = f.declared /\ g.size = f.size
        /\ g.limits = f.limits /\ g.got = f.got /\ g.bytes = f.bytes /\ g.released = f.released
        /\ g.cap = f.cap /\ g.lease = f.lease /\ g.refused = f.refused /\ g.want = f.want /\ g.then = f.then
        /\ g.seen = used
    BY <1>2, <2>1, <2>2 DEF Bodies
  <2>4. g.want + g.seen <= g.cap
    <3>1. f.want \in Nat /\ f.cap \in Nat /\ used \in Nat
      BY <1>2, <2>2 DEF Bodies
    <3> QED
      BY <1>5, <2>3, <3>1
  <2>5. BodyOK(g)
    BY <1>2, <2>3, <2>4 DEF BodyOK, Acquires, Served
  <2>6. req' = [req EXCEPT ![r] = g] /\ used' = used
    BY <1>1, <1>5, <2>1 DEF LoadUsed, SetReq
  <2> QED
    BY <1>1, <1>2, <2>3, <2>5, <2>6, LocalStep
<1> QED
  BY <1>3, <1>4, <1>5

\* What is acquired goes with the limit under which it was asked for.
LEMMA SwapStep ==
    ASSUME BodyInv, NEW r \in Reqs, CompareAndSwap(r)
    PROVE  BodyInv'
<1>1. PICK f : f = req[r]
  OBVIOUS
<1>2. f \in Bodies /\ BodyOK(f) /\ f.at = "cas" /\ settings' = settings /\ used \in Nat
  BY <1>1, BodyFacts DEF CompareAndSwap, BodyInv
<1>3. /\ f.want \in Nat /\ f.cap \in Nat /\ f.seen \in Nat /\ f.bytes \in Nat /\ f.lease = 0
      /\ f.want + f.seen <= f.cap
  BY <1>2 DEF Bodies, BodyOK
<1>4. CASE used # f.seen
  <2>1. PICK g : g = [f EXCEPT !.at = "load"]
    OBVIOUS
  <2>2. "load" \in Places
    BY DEF Places
  <2>3. /\ g \in Bodies /\ g.at = "load" /\ g.kind = f.kind /\ g.declared = f.declared /\ g.size = f.size
        /\ g.limits = f.limits /\ g.got = f.got /\ g.bytes = f.bytes /\ g.released = f.released
        /\ g.cap = f.cap /\ g.lease = f.lease /\ g.refused = f.refused /\ g.want = f.want /\ g.then = f.then
    BY <1>2, <2>1, <2>2, PlaceChanges
  <2>4. BodyOK(g)
    BY <1>2, <2>3 DEF BodyOK, Acquires, Served
  <2>5. req' = [req EXCEPT ![r] = g] /\ used' = used
    BY <1>1, <1>4, <2>1 DEF CompareAndSwap, BodyAt, SetReq
  <2> QED
    BY <1>1, <1>2, <2>3, <2>4, <2>5, LocalStep
<1>5. CASE used = f.seen /\ f.then = "lease"
  <2>1. PICK g : g = [f EXCEPT !.at = "lease", !.lease = f.want, !.want = 0, !.seen = 0]
    OBVIOUS
  <2>2. "lease" \in Places
    BY DEF Places
  <2>3. /\ g \in Bodies /\ g.at = "lease" /\ g.kind = f.kind /\ g.declared = f.declared /\ g.size = f.size
        /\ g.limits = f.limits /\ g.got = f.got /\ g.bytes = f.bytes /\ g.released = f.released
        /\ g.cap = f.cap /\ g.lease = f.want /\ g.refused = f.refused
    BY <1>2, <1>3, <2>1, <2>2 DEF Bodies
  <2>4. BodyOK(g)
    BY <1>2, <1>5, <2>3 DEF BodyOK, Acquires, Served
  <2>5. req' = [req EXCEPT ![r] = g] /\ used' = used + f.want
    BY <1>1, <1>5, <2>1 DEF CompareAndSwap, SetReq, Acquired
  <2>6. Held(g) = Held(f) + f.want /\ Held(f) \in Nat
    BY <1>2, <1>3, <2>3 DEF Held
  <2>7. used' = used - Held(f) + Held(g)
    BY <1>2, <1>3, <2>5, <2>6
  <2>8. \A L \in Nat : Share(g, L) <= Share(f, L) \/ used' <= L
    <3> TAKE L \in Nat
    <3>1. CASE f.cap > L
      BY <1>3, <2>3, <3>1 DEF Share
    <3>2. CASE f.cap <= L
      BY <1>2, <1>3, <1>5, <2>5, <3>2
    <3> QED
      BY <1>3, <3>1, <3>2
  <2> QED
    BY <1>1, <1>2, <2>3, <2>4, <2>5, <2>7, <2>8, GoroutineStep
<1>6. CASE used = f.seen /\ f.then # "lease"
  <2>1. PICK g : g = [f EXCEPT !.at = f.then, !.bytes = f.bytes + f.want, !.want = 0, !.seen = 0, !.cap = 0, !.then = "read"]
    OBVIOUS
  <2>2. f.then \in {"read", "chunk", "work"} /\ f.then \in Places /\ f.bytes + f.want \in Nat
    BY <1>2, <1>3, <1>6 DEF Places, Bodies
  <2>3. /\ g \in Bodies /\ g.at = f.then /\ g.kind = f.kind /\ g.declared = f.declared /\ g.size = f.size
        /\ g.limits = f.limits /\ g.got = f.got /\ g.bytes = f.bytes + f.want /\ g.released = f.released
        /\ g.lease = f.lease /\ g.refused = f.refused
    BY <1>2, <2>1, <2>2 DEF Bodies
  <2>4. ~f.released /\ f.cap = f.limits.inflight
    BY <1>2, <1>6 DEF BodyOK, Acquires
  <2>5. BodyOK(g)
    BY <1>2, <1>3, <2>2, <2>3, <2>4 DEF BodyOK, Acquires, Served
  <2>6. req' = [req EXCEPT ![r] = g] /\ used' = used + f.want
    BY <1>1, <1>6, <2>1 DEF CompareAndSwap, SetReq, Acquired
  <2>7. Held(g) = f.bytes + f.want /\ Held(f) = f.bytes
    BY <1>3, <2>3, <2>4 DEF Held
  <2>8. used' = used - Held(f) + Held(g)
    BY <1>2, <1>3, <2>6, <2>7
  <2>9. \A L \in Nat : Share(g, L) <= Share(f, L) \/ used' <= L
    <3> TAKE L \in Nat
    <3>1. CASE f.cap > L
      BY <1>3, <2>3, <2>4, <3>1 DEF Share
    <3>2. CASE f.cap <= L
      BY <1>2, <1>3, <1>6, <2>6, <3>2
    <3> QED
      BY <1>3, <3>1, <3>2
  <2> QED
    BY <1>1, <1>2, <2>3, <2>5, <2>6, <2>8, <2>9, GoroutineStep
<1> QED
  BY <1>4, <1>5, <1>6

\* A request arrives: of a declared length all is asked for, under the limits
\* of the moment.
LEMMA ReceiveStep ==
    ASSUME BodyInv, NEW r \in Reqs, NEW kind \in Kinds, NEW declared \in Sizes \cup {Unknown}, NEW size \in Sizes,
           ReceiveBody(r, kind, declared, size)
    PROVE  BodyInv'
<1>1. PICK f, limits, idle : f = req[r] /\ limits = WithDefaults(settings) /\ idle = Idle
  OBVIOUS
<1>2. /\ f = idle /\ f \in Bodies /\ settings' = settings /\ used' = used
      /\ limits \in [max : Nat, inflight : Nat] /\ ValidLimits(limits)
      /\ declared \in Nat \cup {Unknown} /\ size \in Nat
  BY <1>1, BodyFacts, LimitsNow, RequestBodyAssumptions DEF ReceiveBody, BodyOK, BodyInv
<1>3. /\ f.at = "idle" /\ f.bytes = 0 /\ f.lease = 0 /\ f.got = 0 /\ f.released = FALSE /\ f.refused = "no"
      /\ f.then = "read" /\ f.want = 0
  BY <1>1, <1>2 DEF Idle
<1>4. PICK e : e = [f EXCEPT !.kind = kind, !.declared = declared, !.size = size, !.limits = limits]
  OBVIOUS
<1>5. /\ e \in Bodies /\ e.kind = kind /\ e.declared = declared /\ e.size = size /\ e.limits = limits
      /\ e.at = "idle" /\ e.bytes = 0 /\ e.lease = 0 /\ e.got = 0 /\ e.released = FALSE /\ e.refused = "no"
      /\ e.then = "read" /\ e.want = 0
  BY <1>2, <1>3, <1>4 DEF Bodies
<1>6. limits.max \in Nat /\ limits.inflight \in Nat
  BY <1>2
<1>7. \/ declared > limits.max /\ req' = [req EXCEPT ![r] = [e EXCEPT !.at = "released", !.released = TRUE, !.refused = "too_large"]]
      \/ req' = [req EXCEPT ![r] = [e EXCEPT !.at = "read"]]
      \/ req' = [req EXCEPT ![r] = [e EXCEPT !.at = "released", !.released = TRUE, !.refused = "capacity"]]
      \/ /\ declared \in Nat /\ declared <= limits.max
         /\ req' = [req EXCEPT ![r] = Acquire(e, Cost(declared, Copies(kind)), limits.inflight, "read")]
  <2>1. CASE declared > limits.max
    BY <2>1, <1>1, <1>2, <1>4 DEF ReceiveBody, SetReq
  <2>2. CASE ~(declared > limits.max) /\ declared = Unknown
    BY <2>2, <1>1, <1>2, <1>4 DEF ReceiveBody, SetReq, Unknown
  <2>3. CASE ~(declared > limits.max) /\ declared # Unknown
    <3>1. declared \in Nat /\ declared <= limits.max
      BY <2>3, <1>2, <1>6
    <3> QED
      BY <2>3, <3>1, <1>1, <1>2, <1>4 DEF ReceiveBody, SetReq
  <2> QED
    BY <2>1, <2>2, <2>3
<1>8. CASE declared > limits.max /\ req' = [req EXCEPT ![r] = [e EXCEPT !.at = "released", !.released = TRUE, !.refused = "too_large"]]
  <2>1. PICK g : g = [e EXCEPT !.at = "released", !.released = TRUE, !.refused = "too_large"]
    OBVIOUS
  <2>2. "released" \in Places
    BY DEF Places
  <2>3. /\ g \in Bodies /\ g.at = "released" /\ g.declared = declared /\ g.size = size /\ g.limits = limits
        /\ g.bytes = 0 /\ g.lease = 0 /\ g.got = 0 /\ g.refused = "too_large"
    BY <1>5, <2>1, <2>2 DEF Bodies
  <2>4. BodyOK(g)
    BY <1>2, <1>6, <1>8, <2>3 DEF BodyOK, Acquires, Served
  <2> QED
    BY <1>1, <1>2, <1>3, <1>8, <2>1, <2>3, <2>4, LocalStep
<1>9. CASE req' = [req EXCEPT ![r] = [e EXCEPT !.at = "read"]]
  <2>1. PICK g : g = [e EXCEPT !.at = "read"]
    OBVIOUS
  <2>2. "read" \in Places
    BY DEF Places
  <2>3. /\ g \in Bodies /\ g.at = "read" /\ g.limits = limits /\ g.released = FALSE
        /\ g.bytes = 0 /\ g.lease = 0 /\ g.got = 0 /\ g.refused = "no"
    BY <1>5, <2>1, <2>2, PlaceChanges
  <2>4. BodyOK(g)
    BY <1>2, <1>6, <2>3 DEF BodyOK, Acquires, Served
  <2> QED
    BY <1>1, <1>2, <1>3, <1>9, <2>1, <2>3, <2>4, LocalStep
<1>10. CASE req' = [req EXCEPT ![r] = [e EXCEPT !.at = "released", !.released = TRUE, !.refused = "capacity"]]
  <2>1. PICK g : g = [e EXCEPT !.at = "released", !.released = TRUE, !.refused = "capacity"]
    OBVIOUS
  <2>2. "released" \in Places
    BY DEF Places
  <2>3. /\ g \in Bodies /\ g.at = "released" /\ g.limits = limits
        /\ g.bytes = 0 /\ g.lease = 0 /\ g.got = 0 /\ g.refused = "capacity"
    BY <1>5, <2>1, <2>2 DEF Bodies
  <2>4. BodyOK(g)
    BY <1>2, <1>6, <2>3 DEF BodyOK, Acquires, Served
  <2> QED
    BY <1>1, <1>2, <1>3, <1>10, <2>1, <2>3, <2>4, LocalStep
<1>11. CASE /\ declared \in Nat /\ declared <= limits.max
            /\ req' = [req EXCEPT ![r] = Acquire(e, Cost(declared, Copies(kind)), limits.inflight, "read")]
  <2>1. PICK n, i : n = Cost(declared, Copies(kind)) /\ i = limits.inflight
    OBVIOUS
  <2>2. n \in Nat /\ n <= i /\ i \in Nat
    BY <1>2, <1>6, <1>11, <2>1, CopiesType, CostFits
  <2>3. PICK g : g = [e EXCEPT !.at = "load", !.want = n, !.cap = i, !.then = "read"]
    OBVIOUS
  <2>4. "load" \in Places
    BY DEF Places
  <2>5. /\ g \in Bodies /\ g.at = "load" /\ g.limits = limits /\ g.released = FALSE /\ g.want = n /\ g.cap = i
        /\ g.bytes = 0 /\ g.lease = 0 /\ g.got = 0 /\ g.refused = "no" /\ g.then = "read"
    BY <1>5, <2>2, <2>3, <2>4 DEF Bodies
  <2>6. BodyOK(g)
    BY <1>2, <1>6, <2>1, <2>2, <2>5 DEF BodyOK, Acquires, Served
  <2>7. req' = [req EXCEPT ![r] = g]
    BY <1>11, <2>1, <2>3 DEF Acquire
  <2> QED
    BY <1>1, <1>2, <1>3, <2>5, <2>6, <2>7, LocalStep
<1> QED
  BY <1>7, <1>8, <1>9, <1>10, <1>11

\* A read asks for no more than the limit leaves.
LEMMA ReadSizeFits ==
    ASSUME BodyInv, NEW r \in Reqs
    PROVE  ReadSize(r) \in Nat /\ req[r].got + ReadSize(r) <= req[r].limits.max
<1>1. PICK f : f = req[r]
  OBVIOUS
<1>2. f.got \in Nat /\ f.limits.max \in Nat /\ f.got <= f.limits.max
  BY <1>1, BodyFacts DEF Bodies, BodyOK
<1>3. f.limits.max - f.got \in Nat /\ Chunk \in Nat
  BY <1>2, RequestBodyAssumptions
<1>4. ReadSize(r) \in Nat /\ ReadSize(r) <= f.limits.max - f.got
  BY <1>1, <1>3, MinOfTwo DEF ReadSize
<1> QED
  BY <1>1, <1>2, <1>4

\* Room for the next chunk is never more than the limit allows.
LEMMA ReadTopStep ==
    ASSUME BodyInv, NEW r \in Reqs, ReadTop(r)
    PROVE  BodyInv'
<1>1. PICK f : f = req[r]
  OBVIOUS
<1>2. f \in Bodies /\ BodyOK(f) /\ f.at = "read" /\ settings' = settings
  BY <1>1, BodyFacts DEF ReadTop
<1>3. /\ f.got \in Nat /\ f.bytes \in Nat /\ f.lease = 0 /\ f.released = FALSE /\ ValidLimits(f.limits)
      /\ f.limits \in [max : Nat, inflight : Nat] /\ f.limits.inflight \in Nat /\ f.got <= f.limits.max
      /\ Copies(f.kind) \in 1..4 /\ f.size \in Nat /\ f.limits.max \in Nat
  BY <1>2, CopiesType DEF Bodies, BodyOK, Acquires
<1>4. PICK held : held = Cost(f.got, Copies(f.kind))
  OBVIOUS
<1>5. held \in Nat
  BY <1>3, <1>4, CostFits
<1>6. PICK target : target = f.got + ReadSize(r)
  OBVIOUS
<1>7. target \in Nat /\ target <= f.limits.max
  BY <1>1, <1>3, <1>6, ReadSizeFits
<1>8. PICK cost : cost = Cost(target, Copies(f.kind))
  OBVIOUS
<1>9. CostValid(target, Copies(f.kind)) /\ cost \in Nat /\ cost <= f.limits.inflight
  BY <1>3, <1>7, <1>8, CostFits
<1>10. CASE Refuse(r, "read_failed")
  BY <1>1, <1>2, <1>10, RefuseStep
<1>11. CASE f.got = f.limits.max /\ f.got < f.size /\ Refuse(r, "too_large")
  BY <1>1, <1>2, <1>3, <1>11, RefuseStep
<1>12. CASE /\ f.got = f.limits.max /\ EndsAtLimit(f)
            /\ SetReq(r, [Resized(f, held) EXCEPT !.at = "held"])
            /\ used' = used - GivenBack(f, held)
  <2>1. PICK b : b = IF held >= f.bytes THEN f.bytes ELSE held
    OBVIOUS
  <2>2. PICK e : e = [f EXCEPT !.bytes = b]
    OBVIOUS
  <2>3. PICK g : g = [e EXCEPT !.at = "held"]
    OBVIOUS
  <2>4. b \in Nat /\ "held" \in Places
    BY <1>3, <1>5, <2>1 DEF Places
  <2>5. /\ e \in Bodies /\ e.bytes = b /\ e.declared = f.declared /\ e.size = f.size /\ e.limits = f.limits
        /\ e.got = f.got /\ e.released = f.released /\ e.lease = f.lease /\ e.refused = f.refused
    BY <1>2, <2>2, <2>4 DEF Bodies
  <2>6. /\ g \in Bodies /\ g.at = "held" /\ g.bytes = b /\ g.declared = f.declared /\ g.size = f.size
        /\ g.limits = f.limits /\ g.got = f.got /\ g.released = f.released /\ g.lease = f.lease
        /\ g.refused = f.refused
    BY <2>3, <2>4, <2>5, PlaceChanges
  <2>7. BodyOK(g)
    BY <1>2, <1>3, <1>12, <2>6 DEF BodyOK, Acquires, Served, EndsAtLimit
  <2>8. req' = [req EXCEPT ![r] = g]
    BY <1>12, <2>1, <2>2, <2>3 DEF SetReq, Resized
  <2> QED
    BY <1>1, <1>2, <1>3, <1>5, <1>12, <2>1, <2>6, <2>7, <2>8, ShrinkStep
<1>13. CASE cost <= f.bytes /\ BodyAt(r, "chunk") /\ used' = used
  <2>1. PICK g : g = [f EXCEPT !.at = "chunk"]
    OBVIOUS
  <2>2. "chunk" \in Places
    BY DEF Places
  <2>3. /\ g \in Bodies /\ g.at = "chunk" /\ g.declared = f.declared /\ g.size = f.size
        /\ g.limits = f.limits /\ g.got = f.got /\ g.bytes = f.bytes /\ g.released = f.released
        /\ g.lease = f.lease /\ g.refused = f.refused
    BY <1>2, <2>1, <2>2, PlaceChanges
  <2>4. BodyOK(g)
    BY <1>2, <1>3, <2>3 DEF BodyOK, Acquires, Served
  <2>5. req' = [req EXCEPT ![r] = g]
    BY <1>1, <1>13, <2>1 DEF BodyAt, SetReq
  <2> QED
    BY <1>1, <1>2, <1>3, <1>13, <2>3, <2>4, <2>5, LocalStep
<1>14. CASE /\ ~(cost <= f.bytes) /\ used' = used
            /\ SetReq(r, Acquire(f, cost - f.bytes, f.limits.inflight, "chunk"))
  <2>1. PICK n, i : n = cost - f.bytes /\ i = f.limits.inflight
    OBVIOUS
  <2>2. n \in Nat /\ i \in Nat /\ n + f.bytes <= i
    BY <1>3, <1>9, <1>14, <2>1
  <2>3. PICK g : g = [f EXCEPT !.at = "load", !.want = n, !.cap = i, !.then = "chunk"]
    OBVIOUS
  <2>4. "load" \in Places
    BY DEF Places
  <2>5. /\ g \in Bodies /\ g.at = "load" /\ g.declared = f.declared /\ g.size = f.size
        /\ g.limits = f.limits /\ g.got = f.got /\ g.bytes = f.bytes /\ g.released = f.released
        /\ g.lease = f.lease /\ g.refused = f.refused /\ g.want = n /\ g.cap = i /\ g.then = "chunk"
    BY <1>2, <2>2, <2>3, <2>4 DEF Bodies
  <2>6. BodyOK(g)
    BY <1>2, <1>3, <2>1, <2>2, <2>5 DEF BodyOK, Acquires, Served
  <2>7. req' = [req EXCEPT ![r] = g]
    BY <1>14, <2>1, <2>3 DEF Acquire, SetReq
  <2> QED
    BY <1>1, <1>2, <1>3, <1>14, <2>5, <2>6, <2>7, LocalStep
<1> QED
  BY <1>1, <1>4, <1>6, <1>8, <1>9, <1>10, <1>11, <1>12, <1>13, <1>14 DEF ReadTop

\* A client that goes away gives back what was reserved.
LEMMA ReadFailsStep ==
    ASSUME BodyInv, NEW r \in Reqs, ReadFails(r)
    PROVE  BodyInv'
  BY RefuseStep DEF ReadFails

\* A reservation that shrinks to what has been read, or to what it was.
LEMMA ResizeStep ==
    ASSUME BodyInv, NEW r \in Reqs, NEW f \in Bodies, f = req[r] \/ (f = [req[r] EXCEPT !.got = f.got]),
           NEW bytes \in Nat, NEW place \in {"read", "held", "answered"},
           SetReq(r, [Resized(f, bytes) EXCEPT !.at = place]), used' = used - GivenBack(f, bytes),
           settings' = settings, ~req[r].released, req[r].lease = 0, ValidLimits(req[r].limits),
           f.got <= f.limits.max, place # "read" => f.got = f.size
    PROVE  BodyInv'
<1>1. PICK o : o = req[r]
  OBVIOUS
<1>2. o \in Bodies /\ BodyOK(o)
  BY <1>1, BodyFacts
<1>3. /\ f.bytes = o.bytes /\ f.declared = o.declared /\ f.size = o.size /\ f.limits = o.limits
      /\ f.released = o.released /\ f.lease = o.lease /\ f.refused = o.refused
  BY <1>1, <1>2 DEF Bodies
<1>4. f.bytes \in Nat
  BY DEF Bodies
<1>5. PICK b : b = IF bytes >= f.bytes THEN f.bytes ELSE bytes
  OBVIOUS
<1>6. PICK e : e = [f EXCEPT !.bytes = b]
  OBVIOUS
<1>7. PICK g : g = [e EXCEPT !.at = place]
  OBVIOUS
<1>8. b \in Nat /\ place \in Places
  BY <1>4, <1>5 DEF Places
<1>9. /\ e \in Bodies /\ e.bytes = b /\ e.declared = f.declared /\ e.size = f.size /\ e.limits = f.limits
      /\ e.got = f.got /\ e.released = f.released /\ e.lease = f.lease /\ e.refused = f.refused
  BY <1>6, <1>8 DEF Bodies
<1>10. /\ g \in Bodies /\ g.at = place /\ g.bytes = b /\ g.declared = f.declared /\ g.size = f.size
       /\ g.limits = f.limits /\ g.got = f.got /\ g.released = f.released /\ g.lease = f.lease
       /\ g.refused = f.refused
  BY <1>7, <1>8, <1>9, PlaceChanges
<1>11. BodyOK(g)
  BY <1>1, <1>2, <1>3, <1>10 DEF BodyOK, Acquires, Served
<1>12. req' = [req EXCEPT ![r] = g]
  BY <1>5, <1>6, <1>7 DEF SetReq, Resized
<1>13. GivenBack(f, bytes) = GivenBack(o, bytes)
  BY <1>3 DEF GivenBack
<1> QED
  BY <1>1, <1>3, <1>5, <1>10, <1>11, <1>12, <1>13, ShrinkStep

\* A chunk that was read is within the limit, or the body is refused.
LEMMA ReadChunkStep ==
    ASSUME BodyInv, NEW r \in Reqs, NEW n \in 0..Chunk, ReadChunk(r, n)
    PROVE  BodyInv'
<1>1. PICK f : f = req[r]
  OBVIOUS
<1>2. f \in Bodies /\ BodyOK(f) /\ f.at = "chunk" /\ settings' = settings
  BY <1>1, BodyFacts DEF ReadChunk
<1>3. /\ f.got \in Nat /\ f.bytes \in Nat /\ f.lease = 0 /\ f.released = FALSE /\ ValidLimits(f.limits)
      /\ f.limits \in [max : Nat, inflight : Nat] /\ f.size \in Nat /\ f.limits.max \in Nat /\ n \in Nat
  BY <1>2, RequestBodyAssumptions DEF Bodies, BodyOK, Acquires
<1>4. f.got + n <= f.limits.max
  BY <1>1, <1>3, ReadSizeFits DEF ReadChunk
<1>5. PICK m : m = f.got + n
  OBVIOUS
<1>6. PICK e : e = [f EXCEPT !.got = m]
  OBVIOUS
<1>7. m \in Nat /\ m <= f.limits.max
  BY <1>3, <1>4, <1>5
<1>8. /\ e \in Bodies /\ e.got = m /\ e.kind = f.kind /\ e.declared = f.declared /\ e.size = f.size
      /\ e.limits = f.limits /\ e.bytes = f.bytes /\ e.released = f.released /\ e.lease = f.lease
      /\ e.refused = f.refused
  BY <1>2, <1>6, <1>7 DEF Bodies
<1>9. PICK cost : cost = Cost(m, Copies(f.kind))
  OBVIOUS
<1>10. cost \in Nat
  BY <1>3, <1>7, <1>9, CopiesType, CostFits
<1>11. \/ SetReq(r, [Resized(e, cost) EXCEPT !.at = "read"]) /\ used' = used - GivenBack(e, cost)
       \/ SetReq(r, [e EXCEPT !.at = "read"]) /\ used' = used
       \/ /\ e.got = e.size
          /\ SetReq(r, [Resized(e, cost) EXCEPT !.at = "held"]) /\ used' = used - GivenBack(e, cost)
  BY <1>1, <1>5, <1>6, <1>8, <1>9 DEF ReadChunk
<1>12. e = [req[r] EXCEPT !.got = e.got]
  BY <1>1, <1>6, <1>8
<1>13. CASE SetReq(r, [Resized(e, cost) EXCEPT !.at = "read"]) /\ used' = used - GivenBack(e, cost)
  BY <1>1, <1>2, <1>3, <1>7, <1>8, <1>10, <1>12, <1>13, ResizeStep
<1>14. CASE /\ e.got = e.size
            /\ SetReq(r, [Resized(e, cost) EXCEPT !.at = "held"]) /\ used' = used - GivenBack(e, cost)
  BY <1>1, <1>2, <1>3, <1>7, <1>8, <1>10, <1>12, <1>14, ResizeStep
<1>15. CASE SetReq(r, [e EXCEPT !.at = "read"]) /\ used' = used
  <2>1. PICK g : g = [e EXCEPT !.at = "read"]
    OBVIOUS
  <2>2. "read" \in Places
    BY DEF Places
  <2>3. /\ g \in Bodies /\ g.at = "read" /\ g.kind = e.kind /\ g.declared = e.declared /\ g.size = e.size
        /\ g.limits = e.limits /\ g.got = e.got /\ g.bytes = e.bytes /\ g.released = e.released
        /\ g.lease = e.lease /\ g.refused = e.refused
    BY <1>8, <2>1, <2>2, PlaceChanges
  <2>4. BodyOK(g)
    BY <1>2, <1>3, <1>7, <1>8, <2>3 DEF BodyOK, Acquires, Served
  <2>5. req' = [req EXCEPT ![r] = g]
    BY <1>15, <2>1 DEF SetReq
  <2> QED
    BY <1>1, <1>2, <1>3, <1>8, <1>15, <2>3, <2>4, <2>5, LocalStep
<1> QED
  BY <1>11, <1>13, <1>14, <1>15

\* A compaction asks for more: an HTTP request in its own reservation, a turn
\* of a WebSocket session in a lease.
LEMMA CompactionStep ==
    ASSUME BodyInv, NEW r \in Reqs, BeginCompaction(r)
    PROVE  BodyInv'
<1>1. PICK f : f = req[r]
  OBVIOUS
<1>2. f \in Bodies /\ BodyOK(f) /\ f.at = "held" /\ settings' = settings /\ used' = used
  BY <1>1, BodyFacts DEF BeginCompaction
<1>3. /\ f.got \in Nat /\ f.bytes \in Nat /\ f.attempts \in Nat /\ f.lease = 0 /\ ValidLimits(f.limits)
      /\ f.limits.inflight \in Nat /\ f.kind \in Kinds /\ f.got = f.size
  BY <1>2 DEF Bodies, BodyOK, Served
<1>4. PICK e : e = [f EXCEPT !.attempts = f.attempts + 1, !.prev = f.bytes]
  OBVIOUS
<1>5. /\ e \in Bodies /\ e.at = "held" /\ e.kind = f.kind /\ e.declared = f.declared /\ e.size = f.size
      /\ e.limits = f.limits /\ e.got = f.got /\ e.bytes = f.bytes /\ e.released = f.released
      /\ e.lease = 0 /\ e.refused = f.refused
  <2>1. f.attempts + 1 \in Nat
    BY <1>3
  <2> QED
    BY <1>2, <1>3, <1>4, <2>1 DEF Bodies
<1>6. PICK cost, room : cost = Cost(f.got, CompactCopies) /\ room = WithDefaults(settings).inflight
  OBVIOUS
<1>7. cost \in Nat
  BY <1>3, <1>6, RequestBodyAssumptions, CostIsNat
<1>8. room \in Nat
  BY <1>6, LimitsNow DEF BodyInv
<1>9. \/ req' = [req EXCEPT ![r] = [e EXCEPT !.at = "answered"]]
      \/ req' = [req EXCEPT ![r] = Acquire(e, cost, room, "lease")]
      \/ f.kind # "ws" /\ cost <= f.bytes /\ req' = [req EXCEPT ![r] = [e EXCEPT !.at = "work"]]
      \/ f.kind # "ws" /\ ~(cost <= f.bytes) /\ req' = [req EXCEPT ![r] = Acquire(e, cost - f.bytes, f.limits.inflight, "work")]
  <2>1. CASE ~CostValid(f.got, CompactCopies)
    BY <2>1, <1>1, <1>4, <1>5, <1>6 DEF BeginCompaction, SetReq
  <2>2. CASE CostValid(f.got, CompactCopies) /\ f.kind = "ws"
    BY <2>2, <1>1, <1>4, <1>5, <1>6 DEF BeginCompaction, SetReq
  <2>3. CASE CostValid(f.got, CompactCopies) /\ f.kind # "ws"
    BY <2>3, <1>1, <1>4, <1>5, <1>6 DEF BeginCompaction, SetReq
  <2> QED
    BY <2>1, <2>2, <2>3
<1>10. CASE req' = [req EXCEPT ![r] = [e EXCEPT !.at = "answered"]]
  <2>1. PICK g : g = [e EXCEPT !.at = "answered"]
    OBVIOUS
  <2>2. "answered" \in Places
    BY DEF Places
  <2>3. /\ g \in Bodies /\ g.at = "answered" /\ g.kind = e.kind /\ g.declared = e.declared /\ g.size = e.size
        /\ g.limits = e.limits /\ g.got = e.got /\ g.bytes = e.bytes /\ g.released = e.released
        /\ g.lease = e.lease /\ g.refused = e.refused
    BY <1>5, <2>1, <2>2, PlaceChanges
  <2>4. BodyOK(g)
    BY <1>2, <1>3, <1>5, <2>3 DEF BodyOK, Acquires, Served
  <2> QED
    BY <1>1, <1>2, <1>3, <1>5, <1>10, <2>1, <2>3, <2>4, LocalStep, ZenonT(40)
<1>11. CASE req' = [req EXCEPT ![r] = Acquire(e, cost, room, "lease")]
  <2>1. PICK g : g = [e EXCEPT !.at = "load", !.want = cost, !.cap = room, !.then = "lease"]
    OBVIOUS
  <2>2. "load" \in Places
    BY DEF Places
  <2>3. /\ g \in Bodies /\ g.at = "load" /\ g.kind = e.kind /\ g.declared = e.declared /\ g.size = e.size
        /\ g.limits = e.limits /\ g.got = e.got /\ g.bytes = e.bytes /\ g.released = e.released
        /\ g.lease = e.lease /\ g.refused = e.refused /\ g.then = "lease"
    BY <1>5, <1>7, <1>8, <2>1, <2>2 DEF Bodies
  <2>4. BodyOK(g)
    BY <1>2, <1>3, <1>5, <2>3 DEF BodyOK, Acquires, Served
  <2>5. req' = [req EXCEPT ![r] = g]
    BY <1>11, <2>1 DEF Acquire
  <2> QED
    BY <1>1, <1>2, <1>3, <1>5, <2>3, <2>4, <2>5, LocalStep
\* What a reservation that is already released would grow by is never asked
\* for: only the turn of a session is released while it is served.
<1>12. f.kind # "ws" => ~f.released
  BY <1>2 DEF BodyOK
<1>13. CASE f.kind # "ws" /\ cost <= f.bytes /\ req' = [req EXCEPT ![r] = [e EXCEPT !.at = "work"]]
  <2>1. PICK g : g = [e EXCEPT !.at = "work"]
    OBVIOUS
  <2>2. "work" \in Places
    BY DEF Places
  <2>3. /\ g \in Bodies /\ g.at = "work" /\ g.kind = e.kind /\ g.declared = e.declared /\ g.size = e.size
        /\ g.limits = e.limits /\ g.got = e.got /\ g.bytes = e.bytes /\ g.released = e.released
        /\ g.lease = e.lease /\ g.refused = e.refused
    BY <1>5, <2>1, <2>2, PlaceChanges
  <2>4. BodyOK(g)
    BY <1>2, <1>3, <1>5, <1>12, <1>13, <2>3 DEF BodyOK, Acquires, Served
  <2> QED
    BY <1>1, <1>2, <1>3, <1>5, <1>13, <2>1, <2>3, <2>4, LocalStep, ZenonT(40)
<1>14. CASE f.kind # "ws" /\ ~(cost <= f.bytes) /\ req' = [req EXCEPT ![r] = Acquire(e, cost - f.bytes, f.limits.inflight, "work")]
  <2>1. PICK n, i : n = cost - f.bytes /\ i = f.limits.inflight
    OBVIOUS
  <2>2. n \in Nat /\ i \in Nat
    BY <1>3, <1>7, <1>14, <2>1
  <2>3. PICK g : g = [e EXCEPT !.at = "load", !.want = n, !.cap = i, !.then = "work"]
    OBVIOUS
  <2>4. "load" \in Places
    BY DEF Places
  <2>5. /\ g \in Bodies /\ g.at = "load" /\ g.kind = e.kind /\ g.declared = e.declared /\ g.size = e.size
        /\ g.limits = e.limits /\ g.got = e.got /\ g.bytes = e.bytes /\ g.released = e.released
        /\ g.lease = e.lease /\ g.refused = e.refused /\ g.cap = i /\ g.then = "work"
    BY <1>5, <2>2, <2>3, <2>4 DEF Bodies
  <2>6. BodyOK(g)
    BY <1>2, <1>3, <1>5, <1>12, <1>14, <2>1, <2>5 DEF BodyOK, Acquires, Served
  <2>7. req' = [req EXCEPT ![r] = g]
    BY <1>14, <2>1, <2>3 DEF Acquire
  <2> QED
    BY <1>1, <1>2, <1>3, <1>5, <2>5, <2>6, <2>7, LocalStep
<1> QED
  BY <1>9, <1>10, <1>11, <1>13, <1>14

\* A compaction gives its memory back when its response ends.
LEMMA EndCompactionStep ==
    ASSUME BodyInv, NEW r \in Reqs, EndCompaction(r) \/ CloseStream(r)
    PROVE  BodyInv'
<1>1. PICK f : f = req[r]
  OBVIOUS
<1>2. f \in Bodies /\ BodyOK(f) /\ settings' = settings /\ used \in Nat
  BY <1>1, BodyFacts DEF EndCompaction, CloseStream, BodyInv
<1>3. /\ f.prev \in Nat /\ f.bytes \in Nat /\ f.lease \in Nat /\ f.got <= f.limits.max
  BY <1>2 DEF Bodies, BodyOK
<1>4. CASE \E place \in {"held", "answered"} :
             /\ f.at \in {"work", "stream"} /\ SetReq(r, [Resized(f, f.prev) EXCEPT !.at = place])
             /\ used' = used - GivenBack(f, f.prev)
  <2>1. PICK place \in {"held", "answered"} :
             /\ f.at \in {"work", "stream"} /\ SetReq(r, [Resized(f, f.prev) EXCEPT !.at = place])
             /\ used' = used - GivenBack(f, f.prev)
    BY <1>4
  <2>2. ~f.released /\ f.lease = 0 /\ ValidLimits(f.limits) /\ f.got = f.size
    BY <1>2, <2>1 DEF BodyOK, Acquires, Served
  <2> QED
    BY <1>1, <1>2, <1>3, <2>1, <2>2, ResizeStep
<1>5. CASE f.at = "lease" /\ SetReq(r, [f EXCEPT !.at = "held", !.lease = 0]) /\ used' = used - f.lease
  <2>1. PICK g : g = [f EXCEPT !.at = "held", !.lease = 0]
    OBVIOUS
  <2>2. "held" \in Places
    BY DEF Places
  <2>3. /\ g \in Bodies /\ g.at = "held" /\ g.kind = f.kind /\ g.declared = f.declared /\ g.size = f.size
        /\ g.limits = f.limits /\ g.got = f.got /\ g.bytes = f.bytes /\ g.released = f.released
        /\ g.lease = 0 /\ g.refused = f.refused
    BY <1>2, <2>1, <2>2 DEF Bodies
  <2>4. BodyOK(g)
    BY <1>2, <1>5, <2>3 DEF BodyOK, Acquires, Served
  <2>5. Held(f) = Held(g) + f.lease /\ Held(g) \in Nat
    BY <1>3, <2>3 DEF Held
  <2>6. used' = used - Held(f) + Held(g)
    BY <1>2, <1>3, <1>5, <2>5
  <2>7. \A L \in Nat : Share(g, L) <= Share(f, L)
    BY <1>3, <2>3 DEF Share
  <2>8. req' = [req EXCEPT ![r] = g]
    BY <1>5, <2>1 DEF SetReq
  <2> QED
    BY <1>1, <1>2, <2>3, <2>4, <2>6, <2>7, <2>8, GoroutineStep
<1> QED
  BY <1>1, <1>4, <1>5 DEF EndCompaction, CloseStream

\* A body is kept or answered: its reservation stays.
LEMMA PlaceStep ==
    ASSUME BodyInv, NEW r \in Reqs, Retain(r) \/ Respond(r)
    PROVE  BodyInv'
<1>1. PICK f : f = req[r]
  OBVIOUS
<1>2. f \in Bodies /\ BodyOK(f) /\ settings' = settings /\ used' = used
  BY <1>1, BodyFacts DEF Retain, Respond
<1>3. PICK place \in {"stream", "answered"} :
         /\ f.at = IF place = "stream" THEN "work" ELSE "held"
         /\ req' = [req EXCEPT ![r] = [f EXCEPT !.at = place]]
  BY <1>1 DEF Retain, Respond, BodyAt, SetReq
<1>4. PICK g : g = [f EXCEPT !.at = place]
  OBVIOUS
<1>5. place \in Places
  BY DEF Places
<1>6. /\ g \in Bodies /\ g.at = place /\ g.kind = f.kind /\ g.declared = f.declared /\ g.size = f.size
      /\ g.limits = f.limits /\ g.got = f.got /\ g.bytes = f.bytes /\ g.released = f.released
      /\ g.cap = f.cap /\ g.lease = f.lease /\ g.refused = f.refused
  BY <1>2, <1>4, <1>5, PlaceChanges
<1>7. BodyOK(g)
  BY <1>2, <1>3, <1>6 DEF BodyOK, Acquires, Served
<1> QED
  BY <1>1, <1>2, <1>3, <1>4, <1>6, <1>7, LocalStep

\* A turn or a bridge gives its body back.
LEMMA FreedStep ==
    ASSUME BodyInv, NEW r \in Reqs, TurnClosed(r) \/ ReleaseBody(r)
    PROVE  BodyInv'
<1>1. PICK f : f = req[r]
  OBVIOUS
<1>2. f \in Bodies /\ BodyOK(f) /\ settings' = settings
  BY <1>1, BodyFacts DEF TurnClosed, ReleaseBody
<1>3. PICK place :
        /\ place = f.at \/ (f.at = "answered" /\ place = "released")
        /\ place = f.at => /\ f.kind = "ws"
                           /\ f.at \in {"held", "lease"} \/ (f.at \in {"load", "cas"} /\ f.then = "lease")
        /\ release(r, [f EXCEPT !.at = place, !.released = TRUE])
  <2>1. CASE TurnClosed(r)
    BY <1>1, <2>1 DEF TurnClosed, Freed
  <2>2. CASE ReleaseBody(r)
    BY <1>1, <2>2 DEF ReleaseBody, Freed
  <2> QED
    BY <2>1, <2>2
<1>4. PICK g : g = [f EXCEPT !.at = place, !.released = TRUE]
  OBVIOUS
<1>5. place \in Places
  BY <1>2, <1>3 DEF Bodies, Places
<1>6. /\ g \in Bodies /\ g.at = place /\ g.kind = f.kind /\ g.declared = f.declared /\ g.size = f.size
      /\ g.limits = f.limits /\ g.got = f.got /\ g.bytes = f.bytes /\ g.released = TRUE
      /\ g.cap = f.cap /\ g.lease = f.lease /\ g.refused = f.refused /\ g.want = f.want /\ g.then = f.then
      /\ g.seen = f.seen
  BY <1>2, <1>4, <1>5 DEF Bodies
<1>7. BodyOK(g)
  <2>1. CASE place = "released"
    BY <1>2, <1>3, <1>6, <2>1 DEF BodyOK, Acquires, Served
  <2>2. CASE place = f.at /\ place # "released"
    BY <1>2, <1>3, <1>6, <2>2 DEF BodyOK, Acquires, Served
  <2> QED
    BY <1>3, <2>1, <2>2
<1> QED
  BY <1>1, <1>2, <1>3, <1>4, <1>6, <1>7, ReleaseStep

\* The deferred release finds its reservation already gone, or returns it.
LEMMA DeferredReleaseStep ==
    ASSUME BodyInv, NEW r \in Reqs, DeferredRelease(r)
    PROVE  BodyInv'
<1>1. PICK f, g : f = req[r] /\ g = Idle
  OBVIOUS
<1>2. f \in Bodies /\ BodyOK(f) /\ settings' = settings /\ f.at = "released" /\ release(r, g)
  BY <1>1, BodyFacts DEF DeferredRelease
<1>3. g \in Bodies /\ BodyOK(g) /\ g.bytes = 0 /\ g.lease = 0
  BY <1>1, IdleIsABody
<1>4. f.lease = 0
  BY <1>2 DEF BodyOK
<1> QED
  BY <1>1, <1>2, <1>3, <1>4, ReleaseStep

\* Saved limits are valid; reservations were made under those of their time.
LEMMA SettingsStep ==
    ASSUME BodyInv, NEW m \in MaxChoices \cup {0}, NEW i \in InflightChoices \cup {0}, SaveSettings(m, i)
    PROVE  BodyInv'
<1>1. PICK s, w : s = Merged(m, i) /\ w = WithDefaults(settings)
  OBVIOUS
<1>2. settings' = s /\ ValidLimits(s) /\ req' = req /\ used' = used
  BY <1>1 DEF SaveSettings
<1>3. s = [max |-> IF m = 0 THEN w.max ELSE m, inflight |-> IF i = 0 THEN w.inflight ELSE i]
  BY <1>1 DEF Merged
<1>4. w \in [max : MaxChoices \cup {DefaultLimits.max}, inflight : InflightChoices \cup {DefaultLimits.inflight}]
  BY <1>1, RequestBodyAssumptions DEF BodyInv, SettingsOK, WithDefaults
<1>5. s \in [max : MaxChoices \cup {DefaultLimits.max}, inflight : InflightChoices \cup {DefaultLimits.inflight}]
  BY <1>3, <1>4
<1>6. WithDefaults(settings)' = IF s = Unset THEN DefaultLimits ELSE s
  BY <1>2 DEF WithDefaults
<1>7. SettingsOK'
  BY <1>2, <1>5, <1>6, RequestBodyAssumptions DEF SettingsOK
<1> QED
  BY <1>2, <1>7 DEF BodyInv, BodyOK, Acquires, Served, Holds, ReservedUnder, Total, Under

\* Before the first request nothing is reserved.
LEMMA BodyStarts == BodyInit => BodyInv
<1> SUFFICES ASSUME BodyInit PROVE BodyInv
  OBVIOUS
<1>1. Idle \in Bodies /\ BodyOK(Idle) /\ Idle.bytes = 0 /\ Idle.lease = 0
  BY IdleIsABody
<1>2. \A r \in Reqs : req[r] = Idle
  BY DEF BodyInit
<1>3. req \in [Reqs -> Bodies] /\ \A r \in Reqs : BodyOK(req[r])
  BY <1>1, <1>2 DEF BodyInit
<1>4. PICK h : h = [r \in Reqs |-> Holds(r)]
  OBVIOUS
<1>5. h \in [Reqs -> Nat] /\ \A r \in Reqs : h[r] = 0
  BY <1>1, <1>2, <1>4 DEF Holds
<1>6. Total(h) = 0
  BY <1>5, TotalOfNothing
<1>7. ASSUME NEW L \in Nat
      PROVE  ReservedUnder(L) <= L
  <2>1. PICK u : u = [r \in Reqs |-> Under(r, L)]
    OBVIOUS
  <2>2. u \in [Reqs -> Nat] /\ \A r \in Reqs : u[r] = 0
    BY <1>1, <1>2, <2>1 DEF Under
  <2>3. Total(u) = 0
    BY <2>2, TotalOfNothing
  <2> QED
    BY <2>1, <2>3 DEF ReservedUnder
<1>8. SettingsOK
  BY RequestBodyAssumptions DEF BodyInit, SettingsOK, WithDefaults
<1> QED
  BY <1>3, <1>4, <1>6, <1>7, <1>8 DEF BodyInit, BodyInv

\* Every step of any goroutine, and every change of the limits, keeps it.
LEMMA BodySteps == BodyInv /\ [BodyNext]_bodyVars => BodyInv'
<1> SUFFICES ASSUME BodyInv, [BodyNext]_bodyVars PROVE BodyInv'
  OBVIOUS
<1>1. CASE \E m \in MaxChoices \cup {0}, i \in InflightChoices \cup {0} : SaveSettings(m, i)
  BY <1>1, SettingsStep
<1>2. CASE \E r \in Reqs, k \in Kinds, d \in Sizes \cup {Unknown}, n \in Sizes : ReceiveBody(r, k, d, n)
  BY <1>2, ReceiveStep
<1>3. CASE \E r \in Reqs : ReqStep(r)
  <2>1. PICK r \in Reqs : ReqStep(r)
    BY <1>3
  <2>2. CASE LoadUsed(r) \/ CompareAndSwap(r)
    BY <2>2, LoadStep, SwapStep
  <2>3. CASE ReadTop(r) \/ ReadFails(r) \/ \E n \in 0..Chunk : ReadChunk(r, n)
    BY <2>3, ReadTopStep, ReadFailsStep, ReadChunkStep
  <2>4. CASE BeginCompaction(r) \/ EndCompaction(r) \/ Retain(r) \/ CloseStream(r) \/ Respond(r)
    BY <2>4, CompactionStep, EndCompactionStep, PlaceStep
  <2>5. CASE TurnClosed(r) \/ ReleaseBody(r) \/ DeferredRelease(r)
    BY <2>5, FreedStep, DeferredReleaseStep
  <2> QED
    BY <2>1, <2>2, <2>3, <2>4, <2>5 DEF ReqStep
<1>4. CASE UNCHANGED bodyVars
  BY <1>4 DEF BodyInv, BodyOK, Acquires, Served, Holds, ReservedUnder, Total, Under, SettingsOK, WithDefaults, bodyVars
<1> QED
  BY <1>1, <1>2, <1>3, <1>4 DEF BodyNext

\* The invariant says what the run checks.
LEMMA BodyInvSuffices == BodyInv => BudgetIsExact
<1> SUFFICES ASSUME BodyInv PROVE BudgetIsExact
  OBVIOUS
<1>1. TypeOK
  <2>1. \A r \in Reqs : req[r].at \in Places /\ req[r].bytes \in Nat /\ req[r].lease \in Nat
    BY BodyFacts DEF Bodies
  <2> QED
    BY <2>1 DEF TypeOK, BodyInv, SettingsOK
<1>2. UsedIsExact
  BY <1>1 DEF UsedIsExact, BodyInv
<1>3. BoundedByAcceptedBudget
  <2>1. InflightChoices \cup {DefaultLimits.inflight} \subseteq Nat
    BY RequestBodyAssumptions
  <2> QED
    BY <2>1 DEF BodyInv, BoundedByAcceptedBudget
<1>4. LimitIsExact
  <2> SUFFICES ASSUME NEW r \in Reqs
               PROVE  /\ req[r].refused = "too_large" =>
                           req[r].size > req[r].limits.max \/ req[r].declared > req[r].limits.max
                      /\ req[r].at \in {"held", "work", "stream", "lease", "answered"} =>
                           req[r].got = req[r].size /\ req[r].size <= req[r].limits.max
    BY DEF LimitIsExact
  <2>1. BodyOK(req[r])
    BY BodyFacts
  <2> QED
    BY <2>1 DEF BodyOK, Served
<1> QED
  BY <1>2, <1>3, <1>4 DEF BudgetIsExact

\* It holds of every run.
LEMMA BodyInvariant == BodySpec => []BodyInv
  BY BodyStarts, BodySteps, PTL DEF BodySpec

\* For any number of goroutines, any sizes and limits, and whatever is saved
\* meanwhile: byteBudget.used is what is reserved, no release takes back more
\* than was taken, the reservations made under a limit stay within it, and the
\* size limit is exact.
THEOREM BudgetIsKept == BodySpec => []BudgetIsExact
  BY BodyInvariant, BodyInvSuffices, PTL

\* What ends a request for want of room.
LEMMA LoadRefuses ==
    ASSUME BodyInv, NEW r \in Reqs, LoadUsed(r), req[r].refused = "no", req'[r].refused = "capacity"
    PROVE  used > Holds(r)
<1>1. PICK f : f = req[r]
  OBVIOUS
<1>2. f \in Bodies /\ BodyOK(f) /\ f.at = "load" /\ used \in Nat /\ req \in [Reqs -> Bodies]
  BY <1>1, BodyFacts DEF LoadUsed, BodyInv
<1>3. f.want > f.cap - used /\ f.then \in {"read", "chunk"}
  <2>1. CASE ~(f.want > f.cap - used)
    <3>1. PICK g : g = [f EXCEPT !.at = "cas", !.seen = used]
      OBVIOUS
    <3>2. g.refused = f.refused
      BY <1>2, <3>1 DEF Bodies
    <3>3. req' = [req EXCEPT ![r] = g]
      BY <1>1, <2>1, <3>1 DEF LoadUsed, SetReq
    <3> QED
      BY <1>1, <1>2, <3>2, <3>3
  <2>2. CASE f.want > f.cap - used /\ f.then \notin {"read", "chunk"}
    <3>1. PICK g : g = [f EXCEPT !.at = "answered"]
      OBVIOUS
    <3>2. g.refused = f.refused
      BY <1>2, <3>1 DEF Bodies
    <3>3. req' = [req EXCEPT ![r] = g]
      BY <1>1, <2>2, <3>1 DEF LoadUsed, AcquireFails, BodyAt, SetReq
    <3> QED
      BY <1>1, <1>2, <3>2, <3>3
  <2> QED
    BY <2>1, <2>2
<1>4. f.cap = f.limits.inflight /\ f.want + f.bytes <= f.limits.inflight /\ f.lease = 0 /\ ~f.released
  BY <1>2, <1>3 DEF BodyOK, Acquires
<1>5. f.want \in Nat /\ f.cap \in Nat /\ f.bytes \in Nat
  BY <1>2 DEF Bodies
<1>6. Holds(r) = f.bytes
  BY <1>1, <1>4, <1>5 DEF Holds
<1> QED
  BY <1>2, <1>3, <1>4, <1>5, <1>6

\* Nobody else's answer changes.
LEMMA SetReqChangesOne ==
    ASSUME BodyInv, NEW r \in Reqs, NEW g, req' = [req EXCEPT ![r] = g]
    PROVE  req'[r] = g /\ \A q \in Reqs \ {r} : req'[q] = req[q]
  BY DEF BodyInv

\* Every other step leaves the answer, or gives another one.
LEMMA OthersDoNotRefuse ==
    ASSUME BodyInv, NEW r \in Reqs, ReqStep(r), ~LoadUsed(r)
    PROVE  /\ \A q \in Reqs \ {r} : req'[q] = req[q]
           /\ req'[r].refused = req[r].refused \/ req'[r].refused # "capacity"
<1>1. PICK f : f = req[r]
  OBVIOUS
<1>2. f \in Bodies /\ BodyOK(f)
  BY <1>1, BodyFacts
<1>3. ASSUME NEW why \in {"too_large", "read_failed"}, Refuse(r, why)
      PROVE  \E g : req' = [req EXCEPT ![r] = g] /\ (g.refused = f.refused \/ g.refused # "capacity")
  <2>1. PICK e : e = [f EXCEPT !.at = "released", !.released = TRUE]
    OBVIOUS
  <2>2. PICK g : g = [e EXCEPT !.refused = why]
    OBVIOUS
  <2>3. g.refused = why
    BY <1>2, <2>1, <2>2 DEF Bodies
  <2>4. req' = [req EXCEPT ![r] = g]
    BY <1>1, <1>3, <2>1, <2>2 DEF Refuse, Freed, release, SetReq
  <2> QED
    BY <2>3, <2>4
<1>4. \E g : req' = [req EXCEPT ![r] = g] /\ (g.refused = f.refused \/ g.refused # "capacity")
  <2>1. CASE CompareAndSwap(r)
    <3>1. PICK g : g = IF used = f.seen THEN Acquired(f) ELSE [f EXCEPT !.at = "load"]
      OBVIOUS
    <3>2. g.refused = f.refused
      BY <1>2, <3>1 DEF Bodies, Acquired
    <3>3. req' = [req EXCEPT ![r] = g]
      BY <1>1, <2>1, <3>1 DEF CompareAndSwap, SetReq, BodyAt
    <3> QED
      BY <3>2, <3>3
  <2>2. CASE ReadTop(r)
    <3>1. PICK held, room, place : /\ held = Cost(f.got, Copies(f.kind)) /\ room = Cost(f.got + ReadSize(r), Copies(f.kind))
      OBVIOUS
    <3>2. CostValid(f.got + ReadSize(r), Copies(f.kind))
      <4>1. f.limits \in [max : Nat, inflight : Nat] /\ ValidLimits(f.limits) /\ f.got \in Nat
        BY <1>1, <1>2, <2>2 DEF Bodies, BodyOK, ReadTop
      <4>2. PICK target : target = f.got + ReadSize(r)
        OBVIOUS
      <4>3. target \in Nat /\ target <= f.limits.max
        BY <1>1, <4>1, <4>2, ReadSizeFits
      <4> QED
        BY <4>1, <4>2, <4>3, CopiesType, CostFits
    <3> DEFINE Left(g) == \/ g = [Resized(f, held) EXCEPT !.at = "held"]
                          \/ g = [f EXCEPT !.at = "chunk"]
                          \/ g = Acquire(f, room - f.bytes, f.limits.inflight, "chunk")
    <3>3. Refuse(r, "too_large") \/ Refuse(r, "read_failed") \/ \E g : SetReq(r, g) /\ Left(g)
      BY <1>1, <2>2, <3>1, <3>2 DEF ReadTop, BodyAt
    <3>4. \A g : Left(g) => g.refused = f.refused
      BY <1>2 DEF Bodies, Resized, Acquire
    <3> HIDE DEF Left
    <3> QED
      BY <1>3, <3>3, <3>4 DEF SetReq
  <2>3. CASE ReadFails(r)
    BY <1>3, <2>3 DEF ReadFails
  <2>4. CASE \E n \in 0..Chunk : ReadChunk(r, n)
    <3>1. PICK n \in 0..Chunk : ReadChunk(r, n)
      BY <2>4
    <3>2. PICK e, cost : e = [f EXCEPT !.got = @ + n] /\ cost = Cost(e.got, Copies(e.kind))
      OBVIOUS
    <3> DEFINE Left(g) == \/ g = [Resized(e, cost) EXCEPT !.at = "read"]
                          \/ g = [e EXCEPT !.at = "read"]
                          \/ g = [Resized(e, cost) EXCEPT !.at = "held"]
    <3>3. \E g : SetReq(r, g) /\ Left(g)
      BY <1>1, <3>1, <3>2 DEF ReadChunk
    <3>4. \A g : Left(g) => g.refused = f.refused
      BY <1>2, <3>2 DEF Bodies, Resized
    <3> HIDE DEF Left
    <3> QED
      BY <3>3, <3>4 DEF SetReq
  <2>5. CASE BeginCompaction(r)
    <3>1. PICK e : e = [f EXCEPT !.attempts = @ + 1, !.prev = f.bytes]
      OBVIOUS
    <3> DEFINE Left(g) == \/ g = [e EXCEPT !.at = "answered"] \/ g = [e EXCEPT !.at = "work"]
                          \/ \E want, cap, then : g = Acquire(e, want, cap, then)
    <3>2. \E g : SetReq(r, g) /\ Left(g)
      BY <1>1, <2>5, <3>1 DEF BeginCompaction
    <3>3. \A g : Left(g) => g.refused = f.refused
      BY <1>2, <3>1 DEF Bodies, Acquire
    <3> HIDE DEF Left
    <3> QED
      BY <3>2, <3>3 DEF SetReq
  <2>6. CASE EndCompaction(r) \/ CloseStream(r)
    <3> DEFINE Left(g) == \/ g = [Resized(f, f.prev) EXCEPT !.at = "held"]
                          \/ g = [Resized(f, f.prev) EXCEPT !.at = "answered"]
                          \/ g = [f EXCEPT !.at = "held", !.lease = 0]
    <3>1. \E g : SetReq(r, g) /\ Left(g)
      BY <1>1, <2>6 DEF EndCompaction, CloseStream
    <3>2. \A g : Left(g) => g.refused = f.refused
      BY <1>2 DEF Bodies, Resized
    <3> HIDE DEF Left
    <3> QED
      BY <3>1, <3>2 DEF SetReq
  <2>7. CASE Retain(r) \/ Respond(r) \/ TurnClosed(r) \/ ReleaseBody(r)
    <3> DEFINE Left(g) == \E place : \/ g = [f EXCEPT !.at = place]
                                     \/ g = [f EXCEPT !.at = place, !.released = TRUE]
    <3>1. \E g : SetReq(r, g) /\ Left(g)
      BY <1>1, <2>7 DEF Retain, Respond, BodyAt, TurnClosed, ReleaseBody, release, Freed
    <3>2. \A g : Left(g) => g.refused = f.refused
      BY <1>2 DEF Bodies
    <3> HIDE DEF Left
    <3> QED
      BY <3>1, <3>2 DEF SetReq
  <2>8. CASE DeferredRelease(r)
    <3>1. PICK g : g = Idle
      OBVIOUS
    <3>2. g.refused = "no"
      BY <3>1 DEF Idle
    <3> QED
      BY <2>8, <3>1, <3>2 DEF DeferredRelease, release, SetReq
  <2> QED
    BY <2>1, <2>2, <2>3, <2>4, <2>5, <2>6, <2>7, <2>8 DEF ReqStep
<1> QED
  BY <1>1, <1>4, SetReqChangesOne

\* A body that has only been announced is not refused for want of room.
LEMMA ReceiveDoesNotRefuse ==
    ASSUME BodyInv, NEW r \in Reqs, NEW kind \in Kinds, NEW declared \in Sizes \cup {Unknown}, NEW size \in Sizes,
           ReceiveBody(r, kind, declared, size)
    PROVE  /\ \A q \in Reqs \ {r} : req'[q] = req[q]
           /\ req'[r].refused # "capacity"
<1>1. PICK limits, idle : limits = WithDefaults(settings) /\ idle = Idle
  OBVIOUS
<1>2. /\ idle \in Bodies /\ limits \in [max : Nat, inflight : Nat] /\ ValidLimits(limits)
      /\ declared \in Nat \cup {Unknown}
  BY <1>1, IdleIsABody, LimitsNow, RequestBodyAssumptions DEF BodyInv
<1>3. PICK e, n : /\ e = [idle EXCEPT !.kind = kind, !.declared = declared, !.size = size, !.limits = limits]
                  /\ n = Cost(declared, Copies(kind))
  OBVIOUS
<1>4. e.refused = "no"
  <2>1. idle.refused = "no"
    BY <1>1 DEF Idle
  <2> QED
    BY <1>2, <1>3, <2>1 DEF Bodies
<1>5. declared \in 0..limits.max => CostValid(declared, Copies(kind))
  BY <1>2, CopiesType, CostFits
<1> DEFINE Left(g) == \/ g = [e EXCEPT !.at = "released", !.released = TRUE, !.refused = "too_large"]
                      \/ g = [e EXCEPT !.at = "read"]
                      \/ g = Acquire(e, n, limits.inflight, "read")
<1>6. \E g : SetReq(r, g) /\ Left(g)
  BY <1>1, <1>3, <1>5 DEF ReceiveBody
<1>7. \A g : Left(g) => g.refused # "capacity"
  BY <1>2, <1>3, <1>4 DEF Bodies, Acquire
<1> HIDE DEF Left
<1> QED
  BY <1>6, <1>7, SetReqChangesOne DEF SetReq

\* A body is refused for want of room only where the counter holds more than
\* its own.
LEMMA AloneSteps ==
    ASSUME BodyInv, [BodyNext]_bodyVars, NEW r \in Reqs, req[r].refused = "no", req'[r].refused = "capacity"
    PROVE  used > Holds(r)
<1>1. CASE \E m \in MaxChoices \cup {0}, i \in InflightChoices \cup {0} : SaveSettings(m, i)
  BY <1>1 DEF SaveSettings
<1>2. CASE \E q \in Reqs, k \in Kinds, d \in Sizes \cup {Unknown}, n \in Sizes : ReceiveBody(q, k, d, n)
  BY <1>2, ReceiveDoesNotRefuse
<1>3. CASE \E q \in Reqs : LoadUsed(q)
  <2>1. PICK q \in Reqs : LoadUsed(q)
    BY <1>3
  <2>2. \E g : req' = [req EXCEPT ![q] = g]
    BY <2>1 DEF LoadUsed, AcquireFails, Refuse, release, SetReq, BodyAt
  <2>3. q = r
    BY <2>2, SetReqChangesOne
  <2> QED
    BY <2>1, <2>3, LoadRefuses
<1>4. CASE \E q \in Reqs : ReqStep(q) /\ ~LoadUsed(q)
  BY <1>4, OthersDoNotRefuse
<1>5. CASE UNCHANGED bodyVars
  BY <1>5 DEF bodyVars
<1> QED
  BY <1>1, <1>2, <1>3, <1>4, <1>5 DEF BodyNext

\* For every one of them as well: reading a body is refused for want of room
\* only while another goroutine holds a reservation, however the limits were
\* changed since its own were read.
THEOREM RoomForOne == BodySpec => AloneIsAdmitted
<1>1. BodyInv /\ [BodyNext]_bodyVars =>
        [\A r \in Reqs : req[r].refused = "no" /\ req'[r].refused = "capacity" => used > Holds(r)]_bodyVars
  BY AloneSteps
<1> QED
  BY <1>1, BodyInvariant, PTL DEF BodySpec, AloneIsAdmitted
=============================================================================
