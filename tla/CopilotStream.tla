---------------------------- MODULE CopilotStream ----------------------------
(***************************************************************************)
(* A stream of chat completion chunks is turned into the events of the     *)
(* Responses API (adapter/protocol/copilot_stream.go).  The chunks come    *)
(* from Copilot, or from the goroutine that translates an Antigravity      *)
(* stream and hands them over through a pipe (AntigravityStream).          *)
(* A chunk of several deltas is taken as several chunks; texts are         *)
(* sequences of fragments, a name is the number of its fragments; items    *)
(* are told apart by their output index; "none" is no reason to finish.    *)
(***************************************************************************)
EXTENDS Integers, SequencesExt

CONSTANTS
    ToolIndexes,    \* the indexes of tool calls in the chunks
    CustomTools,    \* those whose whole name is the name of a custom tool
    NameParts,      \* fragments of a whole name
    MaxChunks       \* bound: chunks of one stream

ASSUME StreamAssumption == CustomTools \subseteq ToolIndexes /\ NameParts \in Nat \ {0}

VARIABLES
    feed,        \* "copilot" or "antigravity"
    rs,          \* copilotResponsesStreamState, with the events written so far
    ended,       \* "no", or how writeCopilotResponsesStream returned
    recorded,    \* what was reported to the gateway
    taken        \* chunks read

renderVars == <<rs, ended, recorded, taken>>

NoMessage == [index |-> -1, text |-> <<>>, refusal |-> <<>>, textIndex |-> -1, refusalIndex |-> -1, nextContent |-> 0]
NoTool == [index |-> -1, name |-> 0, args |-> <<>>, added |-> FALSE, custom |-> FALSE]
NothingRecorded == [limit |-> "none", usage |-> FALSE, session |-> FALSE]

RenderInit ==
    /\ rs = [started |-> FALSE, failed |-> FALSE, finish |-> "none", nextOutput |-> 0, message |-> NoMessage,
             tools |-> [i \in ToolIndexes |-> NoTool], usage |-> FALSE, limit |-> "none", out |-> <<>>]
    /\ ended = "no" /\ recorded = NothingRecorded /\ taken = 0
-----------------------------------------------------------------------------
(* The operations on the state of the stream, each returning the next one.  *)

Emit(s, type, item, part, text) ==
    [s EXCEPT !.out = Append(@, [type |-> type, item |-> item, part |-> part, text |-> text])]

StartResponse(s) ==
    IF s.started THEN s
    ELSE Emit(Emit([s EXCEPT !.started = TRUE], "created", -1, -1, <<>>), "in_progress", -1, -1, <<>>)

EnsureMessage(s) ==
    IF s.message # NoMessage THEN s
    ELSE Emit([s EXCEPT !.message.index = s.nextOutput, !.nextOutput = @ + 1], "item_added", s.nextOutput, -1, <<>>)

WriteTextDelta(s, f) ==
    LET m == EnsureMessage(s)
        n == m.message.nextContent
        p == IF m.message.textIndex >= 0 THEN m
             ELSE Emit([m EXCEPT !.message.textIndex = n, !.message.nextContent = n + 1], "part_added", m.message.index, n, <<>>)
    IN Emit([p EXCEPT !.message.text = Append(@, f)], "delta", p.message.index, p.message.textIndex, <<f>>)

\* Mutant: the refusal takes the place of the text.
Mut_SharedPart(s, f) ==
    LET m == EnsureMessage(s)
        p == IF m.message.refusalIndex >= 0 THEN m
             ELSE Emit([m EXCEPT !.message.refusalIndex = 0, !.message.nextContent = 1], "part_added", m.message.index, 0, <<>>)
    IN Emit([p EXCEPT !.message.refusal = Append(@, f)], "delta", p.message.index, p.message.refusalIndex, <<f>>)

WriteRefusalDelta(s, f) ==
    LET m == EnsureMessage(s)
        n == m.message.nextContent
        p == IF m.message.refusalIndex >= 0 THEN m
             ELSE Emit([m EXCEPT !.message.refusalIndex = n, !.message.nextContent = n + 1], "part_added", m.message.index, n, <<>>)
    IN Emit([p EXCEPT !.message.refusal = Append(@, f)], "delta", p.message.index, p.message.refusalIndex, <<f>>)

\* A tool is announced once, as what its name says by then.
AddTool(s, i) ==
    IF s.tools[i].added THEN s
    ELSE Emit([s EXCEPT !.tools[i].added = TRUE,
                        !.tools[i].custom = i \in CustomTools /\ s.tools[i].name = NameParts],
              "item_added", s.tools[i].index, -1, <<>>)

\* A call takes its output index with its first delta; arguments announce it,
\* and those of a custom tool are only kept.
WriteToolDelta(s, i, names, fragments) ==
    LET a == IF s.tools[i].index >= 0 THEN s
             ELSE [s EXCEPT !.tools[i].index = s.nextOutput, !.nextOutput = @ + 1]
        b == [a EXCEPT !.tools[i].name = @ + names]
        c == [AddTool(b, i) EXCEPT !.tools[i].args = @ \o fragments]
    IN IF fragments = <<>> THEN b
       ELSE IF c.tools[i].custom THEN c ELSE Emit(c, "delta", c.tools[i].index, -1, fragments)

\* consume: a chunk with an error ends the stream; one without a choice does
\* not start it.
ConsumeChunk(s, c) ==
    CASE c.kind = "error" -> [Emit(s, "error", -1, -1, <<>>) EXCEPT !.failed = TRUE, !.limit = c.limit]
      [] c.kind = "usage" -> [s EXCEPT !.usage = TRUE]
      [] c.kind = "empty" -> StartResponse(s)
      [] c.kind = "text" -> WriteTextDelta(StartResponse(s), c.f)
      [] c.kind = "refusal" -> WriteRefusalDelta(StartResponse(s), c.f)
      [] c.kind = "tool" -> WriteToolDelta(StartResponse(s), c.i, c.names, IF c.f = 0 THEN <<>> ELSE <<c.f>>)
      [] c.kind = "finish" -> [StartResponse(s) EXCEPT !.finish = c.reason]

FinishPart(s, part, text) ==
    Emit(Emit(s, "done", s.message.index, part, text), "part_done", s.message.index, part, text)

FinishMessage(s) ==
    LET a == IF s.message.textIndex >= 0 THEN FinishPart(s, s.message.textIndex, s.message.text) ELSE s
        b == IF s.message.refusalIndex >= 0 THEN FinishPart(a, s.message.refusalIndex, s.message.refusal) ELSE a
    IN Emit(b, "item_done", s.message.index, -1, <<>>)

\* The input of a custom tool is sent as one delta, now that it is whole.
FinishTool(s, i) ==
    LET a == AddTool(s, i)
        k == a.tools[i].index
        d == IF a.tools[i].custom THEN Emit(a, "delta", k, -1, a.tools[i].args) ELSE a
    IN Emit(Emit(d, "done", k, -1, a.tools[i].args), "item_done", k, -1, <<>>)

\* finish: the message, then the tools in the order of their output indexes,
\* then the terminal event.
FinishStream(s) ==
    LET m == IF s.message = NoMessage THEN s ELSE FinishMessage(s)
        tools == FoldLeft(LAMBDA acc, k : LET is == {i \in ToolIndexes : s.tools[i].index = k - 1}
                                          IN IF is = {} THEN acc ELSE FinishTool(acc, CHOOSE i \in is : TRUE),
                          m, [k \in 1..s.nextOutput |-> k])
    IN Emit(tools, IF s.finish \in {"length", "content_filter"} THEN "incomplete" ELSE "completed", -1, -1, <<>>)
-----------------------------------------------------------------------------
(* The reading loop.                                                        *)

\* A chunk is consumed; after an error nothing more is read.
TakeChunk(c) ==
    /\ ended = "no"
    /\ rs' = ConsumeChunk(rs, c)
    /\ ended' = IF rs'.failed THEN "failed" ELSE "no"
    /\ recorded' = IF rs'.failed THEN [recorded EXCEPT !.limit = rs'.limit] ELSE recorded

\* The upstream has ended: the response is finished if a reason to finish has
\* come, and only then usage and session are reported.
EndOfChunks ==
    /\ ended = "no"
    /\ IF rs.started /\ rs.finish # "none"
       THEN /\ rs' = FinishStream(rs) /\ ended' = "finished"
            /\ recorded' = [limit |-> rs.limit, usage |-> rs.usage, session |-> TRUE]
       ELSE /\ ended' = "cut" /\ UNCHANGED rs
            /\ recorded' = [recorded EXCEPT !.limit = rs.limit]

\* Reading fails: the client gets no terminal event.
ReadingFails ==
    /\ ended = "no" /\ ended' = "cut" /\ UNCHANGED rs
    /\ recorded' = [recorded EXCEPT !.limit = rs.limit]

\* What Copilot may send.
Chunk == [kind |-> "empty", i |-> 0, names |-> 0, f |-> 0, reason |-> "none", limit |-> "none"]
ToolChunk(i, names, f) == [Chunk EXCEPT !.kind = "tool", !.i = i, !.names = names, !.f = f]
CopilotChunks(n) ==
    {[Chunk EXCEPT !.kind = k, !.f = n] : k \in {"text", "refusal", "empty", "usage"}}
    \cup {[Chunk EXCEPT !.kind = "finish", !.reason = r] : r \in {"stop", "length"}}
    \cup {[Chunk EXCEPT !.kind = "error", !.limit = l] : l \in {"none", "quota"}}
    \cup {ToolChunk(i, names, f) : i \in ToolIndexes, names \in {0, 1}, f \in {0, n}}

Render ==
    /\ feed = "copilot" /\ UNCHANGED feed
    /\ \/ /\ taken < MaxChunks /\ taken' = taken + 1
          /\ \E c \in CopilotChunks(taken + 1) : TakeChunk(c)
       \/ (EndOfChunks \/ ReadingFails) /\ UNCHANGED taken
-----------------------------------------------------------------------------
(* Properties.                                                              *)

Positions(type, item, part) ==
    {n \in 1..Len(rs.out) : rs.out[n].type = type /\ rs.out[n].item = item /\ rs.out[n].part = part}
Terminal == {"completed", "incomplete", "error"}

\* Every event about an output item lies between its announcement and its end,
\* of which there is one each, in whatever order the chunks brought texts,
\* refusals and fragments of several tool calls; likewise for its parts.
EventsNested ==
    \A n \in 1..Len(rs.out) : LET e == rs.out[n] IN
        /\ e.item >= 0 /\ e.type # "item_added" =>
             /\ \E a \in Positions("item_added", e.item, -1) : a < n
             /\ \A d \in Positions("item_done", e.item, -1) : n <= d
        /\ e.part >= 0 /\ e.type # "part_added" =>
             /\ \E a \in Positions("part_added", e.item, e.part) : a < n
             /\ \A d \in Positions("part_done", e.item, e.part) : n <= d
        /\ e.type \in {"item_added", "item_done", "part_added", "part_done"} => Positions(e.type, e.item, e.part) = {n}
        /\ e.type \in Terminal => n = Len(rs.out)

\* The final text of a part or of a call is what its deltas said, in order.
DoneRepeatsDeltas ==
    \A n \in 1..Len(rs.out) : LET e == rs.out[n] IN
        e.type = "done" =>
            e.text = FlattenSeq([k \in 1..n |-> IF rs.out[k].type = "delta" /\ rs.out[k].item = e.item /\ rs.out[k].part = e.part
                                                THEN rs.out[k].text ELSE <<>>])

\* A response that is finished has every output index announced and done, so
\* that its output has no holes; one that is not finished is not reported as
\* used and leaves no session that could be continued.
FinishedMeansWhole ==
    /\ ended = "finished" => \A k \in 0..(rs.nextOutput - 1) : Positions("item_done", k, -1) # {}
    /\ recorded.usage \/ recorded.session => ended = "finished"
=============================================================================
