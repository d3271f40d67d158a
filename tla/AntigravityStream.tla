-------------------------- MODULE AntigravityStream --------------------------
(***************************************************************************)
(* An Antigravity stream (adapter/antigravitywire/stream.go, signatures.go)*)
(* is read by a goroutine that writes chat chunks into a pipe, from which  *)
(* the renderer of CopilotStream reads until it returns and the gateway    *)
(* closes the body.  A function call carries a signature that Google will  *)
(* ask for when the client sends the call back: it is stored before the    *)
(* call is passed on.                                                      *)
(***************************************************************************)
EXTENDS CopilotStream

VARIABLES
    producer,      \* the goroutine: where it is, what it has to write, what it knows
    bodyClosed,    \* the gateway has closed the response
    events,        \* events read from Google
    signed         \* calls whose signature is stored

wireVars == <<producer, bodyClosed, events, signed>>
streamVars == <<feed, renderVars, wireVars>>

StreamInit ==
    /\ feed \in {"copilot", "antigravity"}
    /\ RenderInit
    /\ producer = [at |-> IF feed = "antigravity" THEN "read" ELSE "closed", queue |-> <<>>, finish |-> "none", calls |-> 0, last |-> FALSE]
    /\ bodyClosed = FALSE /\ events = 0 /\ signed = {}
-----------------------------------------------------------------------------
(* The goroutine.                                                           *)

Enqueue(p, chunk) == [p EXCEPT !.at = "write", !.queue = Append(@, chunk)]
GiveUp(p) == [Enqueue(p, [Chunk EXCEPT !.kind = "error"]) EXCEPT !.last = TRUE]

\* part with a function call: too many of them end the stream.
FunctionCall(p) ==
    \/ p.calls \in ToolIndexes /\ producer' = [p EXCEPT !.at = "sign"]
    \/ producer' = GiveUp(p)

\* consume: one event of Google.
ReadEvent ==
    /\ producer.at = "read" /\ ~bodyClosed /\ events < MaxChunks /\ events' = events + 1
    /\ LET p == producer IN
       \/ producer' = Enqueue(p, [Chunk EXCEPT !.kind = "text", !.f = events'])
       \/ producer' = Enqueue(p, Chunk)                   \* a thought
       \/ FunctionCall(p)
       \/ producer' = [p EXCEPT !.finish = IF p.calls > 0 THEN "tool_calls" ELSE "stop"]
       \/ \E r \in {"length", "content_filter"} : producer' = [p EXCEPT !.finish = r]
       \/ producer' = GiveUp(p)                          \* an error, or nothing it understands
    /\ UNCHANGED <<feed, renderVars, bodyClosed, signed>>

\* Signatures.Save has a context of its own and two seconds; a call whose
\* signature is not stored ends the stream.
StoreSignature ==
    /\ producer.at = "sign"
    /\ \/ signed' = signed \cup {producer.calls} /\ producer' = [producer EXCEPT !.at = "call"]
       \/ producer' = GiveUp(producer) /\ UNCHANGED signed
    /\ UNCHANGED <<feed, renderVars, bodyClosed, events>>

PassCallOn ==
    /\ producer.at = "call"
    /\ producer' = [Enqueue(producer, ToolChunk(producer.calls, NameParts, 1)) EXCEPT !.calls = @ + 1]
    /\ UNCHANGED <<feed, renderVars, bodyClosed, events, signed>>

\* The stream of Google ends; without a reason to finish that is an error, and
\* so is a reading that fails, also because the client's request is over.
EndOfEvents ==
    /\ producer.at = "read" /\ ~bodyClosed
    /\ \/ producer' = GiveUp(producer)
       \/ /\ producer.finish # "none"
          /\ producer' = [Enqueue(Enqueue(producer, [Chunk EXCEPT !.kind = "finish", !.reason = producer.finish]),
                                  [Chunk EXCEPT !.kind = "usage"]) EXCEPT !.last = TRUE]
    /\ UNCHANGED <<feed, renderVars, bodyClosed, events, signed>>

\* streamBody.Close has closed the pipe and the connection: whatever the
\* goroutine waits for returns an error, and so does what it writes then.
WriterStops ==
    /\ producer.at \in {"read", "write"} /\ bodyClosed
    /\ producer' = [producer EXCEPT !.at = "closed", !.queue = <<>>]
    /\ UNCHANGED <<feed, renderVars, bodyClosed, events, signed>>

\* A write into the pipe returns when the renderer has read it; the last one
\* is followed by CloseWithError.
HandOver ==
    /\ producer.at = "write" /\ ~bodyClosed
    /\ TakeChunk(Head(producer.queue)) /\ UNCHANGED taken
    /\ producer' = [producer EXCEPT !.queue = Tail(@),
                                    !.at = IF Len(producer.queue) > 1 THEN "write" ELSE IF producer.last THEN "closed" ELSE "read"]
    /\ UNCHANGED <<feed, bodyClosed, events, signed>>
-----------------------------------------------------------------------------
\* The renderer sees the end of the pipe.
PipeEnds ==
    /\ feed = "antigravity" /\ producer.at = "closed" /\ EndOfChunks
    /\ UNCHANGED <<feed, taken, wireVars>>

\* A line that is too long for the renderer: it returns in the middle of a write.
LineTooLong ==
    /\ feed = "antigravity" /\ producer.at = "write" /\ ReadingFails
    /\ UNCHANGED <<feed, taken, wireVars>>

\* The renderer has returned and the gateway closes the response.
CloseBody ==
    /\ feed = "antigravity" /\ ended # "no" /\ ~bodyClosed /\ bodyClosed' = TRUE
    /\ UNCHANGED <<feed, renderVars, producer, events, signed>>

StreamNext ==
    \/ Render /\ UNCHANGED wireVars
    \/ ReadEvent \/ StoreSignature \/ PassCallOn \/ EndOfEvents \/ HandOver \/ WriterStops
    \/ PipeEnds \/ LineTooLong \/ CloseBody

\* Google owes no event; storing a signature ends, if only by its timeout.
StreamFairness ==
    /\ WF_streamVars(StoreSignature) /\ WF_streamVars(PassCallOn)
    /\ WF_streamVars(HandOver) /\ WF_streamVars(WriterStops)
    /\ WF_streamVars(PipeEnds) /\ WF_streamVars(CloseBody)

StreamSpec == StreamInit /\ [][StreamNext]_streamVars /\ StreamFairness
-----------------------------------------------------------------------------
(* Properties.                                                              *)

\* A call the client has been told of can be sent back: its signature has been
\* stored, also when storing may fail.
SignatureBeforeCall == feed = "antigravity" => \A i \in ToolIndexes : rs.tools[i].index >= 0 => i \in signed

\* The client is told that the response is finished only when Google has said
\* why it finished.
FinishIsGoogles == feed = "antigravity" /\ ended = "finished" => producer.finish # "none"

\* Once the renderer has returned, for whatever reason, the goroutine ends.
ProducerEnds == ended # "no" ~> producer.at = "closed"

\* The client of a Responses stream can believe it: events are nested, what is
\* done repeats its deltas, finished means whole and comes from the provider,
\* and a call announced can be continued.
StreamFaithful ==
    /\ EventsNested /\ DoneRepeatsDeltas /\ FinishedMeansWhole
    /\ SignatureBeforeCall /\ FinishIsGoogles
=============================================================================
