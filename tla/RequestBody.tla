----------------------------- MODULE RequestBody -----------------------------
(***************************************************************************)
(* Admission of request bodies: the process-wide byte budget               *)
(* (internal/gateway/request_body.go, request_body_compact.go) and the     *)
(* limits an administrator can change while requests are being read        *)
(* (internal/domain/request_limits.go).                                    *)
(*                                                                         *)
(* A member of Reqs is a goroutine that reads one HTTP request body or     *)
(* WebSocket message.  The budget is one atomic integer: a load and a      *)
(* compare-and-swap are two actions, everything else a goroutine does to   *)
(* its own reservation is local and joins the atomic operation beside it.  *)
(* Bytes are counted in units of which Chunk make the 64 KiB read buffer.  *)
(***************************************************************************)
EXTENDS Integers, FiniteSets, FiniteSetsExt

CONSTANTS
    Reqs,            \* goroutines that read a body
    Sizes,           \* lengths of bodies that clients send
    Chunk,           \* length of the read buffer
    MaxInt,          \* math.MaxInt64
    DefaultLimits,   \* the deployment's limits, [max |-> _, inflight |-> _]
    MaxChoices,      \* values an administrator enters for max ...
    InflightChoices, \* ... and for inflight
    MaxAttempts,     \* maxProviderAttempts (8)
    ResponsesCopies, \* responsesHTTPRequestBodyCopies (2)
    ChatCopies,      \* chatHTTPRequestBodyCopies, responsesWSRequestBodyCopies (4)
    CompactCopies    \* compactHTTPRequestBodyCopies (8)

VARIABLES
    used,      \* byteBudget.used
    settings,  \* the stored limits, both 0 until an administrator saves some
    req        \* the goroutines and their reservations

bodyVars == <<used, settings, req>>

Kinds == {"responses", "chat", "ws"}
Unknown == -1                           \* no Content-Length
Places == {"idle", "load", "cas", "read", "chunk", "held", "work", "stream",
           "lease", "answered", "released"}

Unset == [max |-> 0, inflight |-> 0]
Idle == [at |-> "idle", kind |-> "chat", declared |-> Unknown, size |-> 0,
         limits |-> Unset, got |-> 0, bytes |-> 0, released |-> FALSE,
         cap |-> 0, want |-> 0, then |-> "read", seen |-> 0, prev |-> 0,
         lease |-> 0, attempts |-> 0, refused |-> "no"]

-----------------------------------------------------------------------------
(* Limits.                                                                 *)

\* ValidateRequestBodyLimits
ValidLimits(l) == /\ l.max > 0 /\ l.max <= MaxInt \div 4
                  /\ l.inflight >= l.max * 4

ASSUME RequestBodyAssumptions ==
    /\ IsFiniteSet(Reqs) /\ Sizes \cup MaxChoices \cup InflightChoices \subseteq Nat
    /\ MaxInt \in Nat /\ Chunk \in Nat \ {0} /\ MaxAttempts \in Nat \ {0}
    /\ DefaultLimits \in [max : Nat, inflight : Nat] /\ ValidLimits(DefaultLimits)
    /\ ResponsesCopies \in 1..4 /\ ChatCopies \in 1..4 /\ CompactCopies \in Nat \ {0}

\* WithRequestBodyDefaults
WithDefaults(l) == IF l = Unset THEN DefaultLimits ELSE l

\* SettingsUpdate.Apply: the fields supplied (not 0) replace the effective
\* ones.
Merged(m, i) ==
    [max |-> IF m = 0 THEN WithDefaults(settings).max ELSE m,
     inflight |-> IF i = 0 THEN WithDefaults(settings).inflight ELSE i]

\* An administrator saves limits, under the settings row's lock; a pair that
\* is not valid is refused.
SaveSettings(m, i) ==
    /\ m # 0 \/ i # 0
    /\ ValidLimits(Merged(m, i))
    /\ settings' = Merged(m, i)
    /\ UNCHANGED <<used, req>>

-----------------------------------------------------------------------------
(* The budget and the reservations.                                        *)

Copies(kind) == IF kind = "responses" THEN ResponsesCopies ELSE ChatCopies

\* requestBodyCost: the cost, when the product does not overflow.
CostValid(bytes, copies) == bytes <= MaxInt \div copies
Cost(bytes, copies) == bytes * copies

\* What a goroutine has reserved and not given back.
Holds(r) == (IF req[r].released THEN 0 ELSE req[r].bytes) + req[r].lease

SetReq(r, new) == req' = [req EXCEPT ![r] = new]
BodyAt(r, place) == SetReq(r, [req[r] EXCEPT !.at = place])

\* bodyReservation.resize: only ever downwards.
Resized(rec, bytes) == [rec EXCEPT !.bytes = IF bytes >= @ THEN @ ELSE bytes]
GivenBack(rec, bytes) == IF bytes >= rec.bytes THEN 0 ELSE rec.bytes - bytes

\* bodyReservation.release, in the step that leaves r in state rec.
release(r, rec) ==
    /\ used' = IF req[r].released THEN used ELSE used - req[r].bytes
    /\ SetReq(r, rec)

\* r's own record once its reservation is released.
Freed(r, place) == [req[r] EXCEPT !.at = place, !.released = TRUE]

\* A request ends unserved: whatever is reserved goes back.
Refuse(r, why) == release(r, [Freed(r, "released") EXCEPT !.refused = why])

\* tryAcquireWithin starts: want bytes under cap, then continue.
Acquire(rec, want, cap, then) ==
    [rec EXCEPT !.at = "load", !.want = want, !.cap = cap, !.then = then]

\* An attempt that finds no room: the body is refused while it is read; a
\* compaction is answered with an error.
AcquireFails(r) ==
    IF req[r].then \in {"read", "chunk"}
    THEN Refuse(r, "capacity")
    ELSE BodyAt(r, "answered") /\ UNCHANGED used

LoadUsed(r) ==
    /\ req[r].at = "load"
    /\ IF req[r].want > req[r].cap - used
         THEN AcquireFails(r)
         ELSE SetReq(r, [req[r] EXCEPT !.at = "cas", !.seen = used]) /\ UNCHANGED used
    /\ UNCHANGED settings

\* What r is after it has acquired what it wanted.
Acquired(rec) ==
    IF rec.then = "lease"
    THEN [rec EXCEPT !.at = "lease", !.lease = rec.want, !.want = 0, !.seen = 0]
    ELSE [rec EXCEPT !.at = rec.then, !.bytes = @ + rec.want, !.want = 0,
                     !.seen = 0, !.cap = 0, !.then = "read"]

\* Mutant: the counter is added to without comparing it with what was loaded.
Mut_SwapUnchecked(r) ==
    /\ req[r].at = "cas"
    /\ used' = used + req[r].want /\ SetReq(r, Acquired(req[r]))
    /\ UNCHANGED settings

CompareAndSwap(r) ==
    /\ req[r].at = "cas"
    /\ IF used = req[r].seen
         THEN used' = used + req[r].want /\ SetReq(r, Acquired(req[r]))
         ELSE BodyAt(r, "load") /\ UNCHANGED used
    /\ UNCHANGED settings

-----------------------------------------------------------------------------
(* Reading a body.                                                         *)

\* requestBodyLimits is read once per body; a declared length is refused or
\* reserved as a whole, an unknown one is reserved as it is read.
ReceiveBody(r, kind, declared, size) ==
    /\ req[r].at = "idle"
    /\ kind = "ws" => declared = Unknown
    /\ declared # Unknown => size <= declared
    /\ LET limits == WithDefaults(settings)
           rec == [Idle EXCEPT !.kind = kind, !.declared = declared, !.size = size,
                               !.limits = limits]
       IN CASE declared > limits.max ->
                 SetReq(r, [rec EXCEPT !.at = "released", !.released = TRUE,
                                    !.refused = "too_large"])
            [] declared = Unknown -> SetReq(r, [rec EXCEPT !.at = "read"])
            [] declared \in 0..limits.max /\ ~CostValid(declared, Copies(kind)) ->
                 SetReq(r, [rec EXCEPT !.at = "released", !.released = TRUE,
                                    !.refused = "capacity"])
            [] OTHER -> SetReq(r, Acquire(rec, Cost(declared, Copies(kind)),
                                       limits.inflight, "read"))
    /\ UNCHANGED <<used, settings>>

\* Mutant: a whole buffer is reserved even when less may still be read.
Mut_WholeChunk(r) == Chunk

\* How much the next read may return.
ReadSize(r) == Min({Chunk, req[r].limits.max - req[r].got})

\* At the limit the body ends when one more read finds nothing.
EndsAtLimit(rec) == rec.got = rec.size

\* The top of the loop.  At the limit one more byte is looked for; below it
\* room for the next chunk is reserved first.
ReadTop(r) ==
    /\ req[r].at = "read"
    /\ LET rec == req[r]
           held == Cost(rec.got, Copies(rec.kind))
           target == rec.got + ReadSize(r)
           cost == Cost(target, Copies(rec.kind))
       IN IF rec.got = rec.limits.max
          THEN \/ rec.got < rec.size /\ Refuse(r, "too_large")
               \/ /\ EndsAtLimit(rec)
                  /\ SetReq(r, [Resized(rec, held) EXCEPT !.at = "held"])
                  /\ used' = used - GivenBack(rec, held)
               \/ Refuse(r, "read_failed")
          ELSE IF ~CostValid(target, Copies(rec.kind)) THEN Refuse(r, "capacity")
          ELSE /\ IF cost <= rec.bytes
                    THEN BodyAt(r, "chunk")
                    ELSE SetReq(r, Acquire(rec, cost - rec.bytes, rec.limits.inflight, "chunk"))
               /\ UNCHANGED used
    /\ UNCHANGED settings

\* One read: n bytes and possibly the end; the reservation of a body of
\* unknown length shrinks to what has been read, at the end every one does.
ReadChunk(r, n) ==
    /\ req[r].at = "chunk"
    /\ n <= ReadSize(r) /\ req[r].got + n <= req[r].size
    /\ LET rec == [req[r] EXCEPT !.got = @ + n]
           cost == Cost(rec.got, Copies(rec.kind))
           ends == rec.got = rec.size /\ rec.declared \in {Unknown, rec.size}
       IN \/ /\ n > 0
             /\ IF rec.declared = Unknown
                  THEN /\ SetReq(r, [Resized(rec, cost) EXCEPT !.at = "read"])
                       /\ used' = used - GivenBack(rec, cost)
                  ELSE SetReq(r, [rec EXCEPT !.at = "read"]) /\ UNCHANGED used
          \/ /\ ends
             /\ SetReq(r, [Resized(rec, cost) EXCEPT !.at = "held"])
             /\ used' = used - GivenBack(rec, cost)
    /\ UNCHANGED settings

\* The connection breaks, the timeout fires, or the body is not valid JSON.
ReadFails(r) ==
    /\ req[r].at \in {"chunk", "held"} /\ req[r].attempts = 0
    /\ Refuse(r, "read_failed")
    /\ UNCHANGED settings

-----------------------------------------------------------------------------
(* Serving it.                                                             *)

\* reserveCompactionTranscript.  An HTTP request grows its own reservation
\* under its own limits; a WebSocket turn takes a lease of its own under the
\* limits of the moment.
BeginCompaction(r) ==
    /\ req[r].at = "held" /\ req[r].kind # "chat"
    /\ req[r].attempts < MaxAttempts
    /\ LET rec == [req[r] EXCEPT !.attempts = @ + 1, !.prev = req[r].bytes]
           cost == Cost(rec.got, CompactCopies)
       IN CASE ~CostValid(rec.got, CompactCopies) -> SetReq(r, [rec EXCEPT !.at = "answered"])
            [] CostValid(rec.got, CompactCopies) /\ rec.kind = "ws" ->
                 SetReq(r, Acquire(rec, cost, WithDefaults(settings).inflight, "lease"))
            [] OTHER ->
                 SetReq(r, IF cost <= rec.bytes THEN [rec EXCEPT !.at = "work"]
                        ELSE Acquire(rec, cost - rec.bytes, rec.limits.inflight, "work"))
    /\ UNCHANGED <<used, settings>>

\* The attempt ends: the extra buffers go back, another account may be tried.
EndCompaction(r) ==
    /\ \/ /\ req[r].at = "work"
          /\ SetReq(r, [Resized(req[r], req[r].prev) EXCEPT !.at = "held"])
          /\ used' = used - GivenBack(req[r], req[r].prev)
       \/ /\ req[r].at = "lease"
          /\ SetReq(r, [req[r] EXCEPT !.at = "held", !.lease = 0])
          /\ used' = used - req[r].lease
    /\ UNCHANGED settings

\* A streamed compaction outlives the call: its buffers are released when the
\* response body is closed, before the deferred release of the request.
Retain(r) ==
    /\ req[r].at = "work" /\ BodyAt(r, "stream")
    /\ UNCHANGED <<used, settings>>

CloseStream(r) ==
    /\ req[r].at = "stream"
    /\ SetReq(r, [Resized(req[r], req[r].prev) EXCEPT !.at = "answered"])
    /\ used' = used - GivenBack(req[r], req[r].prev)
    /\ UNCHANGED settings

Respond(r) ==
    /\ req[r].at = "held" /\ BodyAt(r, "answered")
    /\ UNCHANGED <<used, settings>>

\* session.close finishes a WebSocket turn while its worker still holds, or
\* is taking, a lease.
TurnClosed(r) ==
    /\ req[r].kind = "ws" /\ ~req[r].released
    /\ req[r].at \in {"held", "lease"} \/ (req[r].at \in {"load", "cas"} /\ req[r].then = "lease")
    /\ release(r, Freed(r, req[r].at))
    /\ UNCHANGED settings

\* The release after the call ...
ReleaseBody(r) ==
    /\ req[r].at = "answered"
    /\ release(r, Freed(r, "released"))
    /\ UNCHANGED settings

\* ... and the deferred one, which finds it done; then another request.
DeferredRelease(r) ==
    /\ req[r].at = "released"
    /\ release(r, Idle)
    /\ UNCHANGED settings

-----------------------------------------------------------------------------
BodyInit ==
    /\ used = 0
    /\ settings = Unset
    /\ req = [r \in Reqs |-> Idle]

ReqStep(r) ==
    \/ LoadUsed(r) \/ CompareAndSwap(r) \/ ReadTop(r) \/ ReadFails(r)
    \/ \E n \in 0..Chunk : ReadChunk(r, n)
    \/ BeginCompaction(r) \/ EndCompaction(r) \/ Retain(r) \/ CloseStream(r)
    \/ Respond(r) \/ TurnClosed(r) \/ ReleaseBody(r) \/ DeferredRelease(r)

BodyNext ==
    \/ \E m \in MaxChoices \cup {0}, i \in InflightChoices \cup {0} : SaveSettings(m, i)
    \/ \E r \in Reqs, k \in Kinds, d \in Sizes \cup {Unknown}, n \in Sizes : ReceiveBody(r, k, d, n)
    \/ \E r \in Reqs : ReqStep(r)

BodySpec == BodyInit /\ [][BodyNext]_bodyVars

-----------------------------------------------------------------------------
(***************************************************************************)
(* Properties.                                                             *)
(***************************************************************************)

TypeOK ==
    /\ used \in Nat
    /\ settings \in {Unset} \cup [max : MaxChoices \cup {DefaultLimits.max},
                                  inflight : InflightChoices \cup {DefaultLimits.inflight}]
    /\ \A r \in Reqs : req[r].at \in Places /\ req[r].bytes \in Nat /\ req[r].lease \in Nat

\* The sum of h over the goroutines, as the number of units that they have.
Total(h) == Cardinality(UNION {{r} \X (1..h[r]) : r \in Reqs})

\* byteBudget.used is the sum of what is reserved, on every path: nothing
\* leaks and nothing is returned twice, so release never panics.
UsedIsExact == TypeOK /\ used = Total([r \in Reqs |-> Holds(r)])

\* What was reserved under a limit of at most L stays within L, whatever the
\* administrator saves in the meantime: a lowered limit binds the requests
\* that read it even while older ones hold more than it allows.
Under(r, L) == (IF req[r].released \/ req[r].limits.inflight > L THEN 0 ELSE req[r].bytes)
               + (IF req[r].cap > L THEN 0 ELSE req[r].lease)
ReservedUnder(L) == Total([r \in Reqs |-> Under(r, L)])
BoundedByAcceptedBudget ==
    \A L \in InflightChoices \cup {DefaultLimits.inflight} : ReservedUnder(L) <= L

\* One body within the limit can always be admitted: reading is refused for
\* capacity only while somebody else holds a reservation.
AloneIsAdmitted ==
    [][\A r \in Reqs :
         req[r].refused = "no" /\ req'[r].refused = "capacity" => used > Holds(r)]_bodyVars

\* The size limit is exact: only a larger body is called too large, and what
\* is served was read to its end and is within the limit of its snapshot.
LimitIsExact ==
    \A r \in Reqs :
        /\ req[r].refused = "too_large" =>
             req[r].size > req[r].limits.max \/ req[r].declared > req[r].limits.max
        /\ req[r].at \in {"held", "work", "stream", "lease", "answered"} =>
             req[r].got = req[r].size /\ req[r].size <= req[r].limits.max

\* The bytes counted are those of the bodies that are held, they stay within a
\* budget that was accepted, and a body is refused exactly above its limit.
BudgetIsExact == UsedIsExact /\ BoundedByAcceptedBudget /\ LimitIsExact
=============================================================================
