----------------------------- MODULE ChatStream ------------------------------
(***************************************************************************)
(* A stream of Responses events is turned into chat completion chunks      *)
(* (proxyChatStream, adapter/protocol/chatstream).  The text of a tool     *)
(* call may reach the gateway up to four times: with the announcement of   *)
(* its item, in deltas, with the end of its arguments and with the end of  *)
(* its item.  The client must get it once.  A text is the sequence of its  *)
(* fragments 1, 2, ...                                                     *)
(***************************************************************************)
EXTENDS Naturals, FiniteSets, SequencesExt

CONSTANTS
    Items,       \* output indexes of tool calls
    MaxText      \* bound: fragments of a call's text

ASSUME ChatAssumption == IsFiniteSet(Items) /\ MaxText \in Nat

VARIABLES
    upstream,    \* per item: how far the provider is, and how much of its text it has made
    tool,        \* State.tools: the index among the client's calls and the text forwarded
    terminal,    \* State.Terminal
    chunks,      \* what the client was sent
    sentRole,    \* a chunk with the assistant's role was sent
    reader,      \* "open", "failed", "done", "cut"
    charged      \* the usage was reported

chatVars == <<upstream, tool, terminal, chunks, sentRole, reader, charged>>

UnknownTool == [index |-> 0, text |-> <<>>, known |-> FALSE]
TextOf(n) == [k \in 1..n |-> k]

ChatInit ==
    /\ upstream = [i \in Items |-> [at |-> "none", made |-> 0]]
    /\ tool = [i \in Items |-> UnknownTool]
    /\ terminal = FALSE /\ chunks = <<>> /\ sentRole = FALSE /\ reader = "open" /\ charged = FALSE
-----------------------------------------------------------------------------
(* State.Consume.                                                           *)

WriteSSE(index, text, finish, role) ==
    chunks' = Append(chunks, [index |-> index, text |-> text, finish |-> finish, role |-> role])

SendChunk(index, text, finish) == WriteSSE(index, text, finish, ~sentRole) /\ sentRole' = TRUE

\* Mutant: the text of an item is forwarded whenever it is complete.
Mut_RepeatText(i, text) ==
    /\ tool' = [tool EXCEPT ![i].text = text]
    /\ SendChunk(tool[i].index, text, "no")

\* completeTool: what has not been forwarded yet is.
CompleteTool(i, text) ==
    IF text = tool[i].text \/ ~IsPrefix(tool[i].text, text)
    THEN UNCHANGED <<tool, chunks, sentRole>>
    ELSE /\ tool' = [tool EXCEPT ![i].text = text]
         /\ SendChunk(tool[i].index, SubSeq(text, Len(tool[i].text) + 1, Len(text)), "no")

\* An item is announced or done: the client learns of a call the first time.
ConsumeItem(i, text) ==
    IF tool[i].known THEN CompleteTool(i, text)
    ELSE LET index == Cardinality({j \in Items : tool[j].known}) IN
         /\ tool' = [tool EXCEPT ![i] = [index |-> index, text |-> text, known |-> TRUE]]
         /\ SendChunk(index, text, "new")

\* A delta of a call that was not announced is dropped.
ConsumeDelta(i, f) ==
    IF ~tool[i].known THEN UNCHANGED <<tool, chunks, sentRole>>
    ELSE /\ tool' = [tool EXCEPT ![i].text = Append(@, f)]
         /\ SendChunk(tool[i].index, <<f>>, "no")

ConsumeArguments(i, text) ==
    IF ~tool[i].known THEN UNCHANGED <<tool, chunks, sentRole>> ELSE CompleteTool(i, text)
-----------------------------------------------------------------------------
(* The events of the provider, one turn of the loop each.  An item goes     *)
(* through announcement, deltas, end of arguments and end; a provider may   *)
(* leave out any of them but the last.                                      *)

Provider(i, at, n) ==
    /\ reader = "open" /\ ~terminal
    /\ upstream' = [upstream EXCEPT ![i] = [at |-> at, made |-> n]]
    /\ UNCHANGED <<terminal, reader, charged>>

ItemAdded(i) ==
    /\ upstream[i].at = "none"
    /\ \E n \in 0..MaxText : Provider(i, "open", n) /\ ConsumeItem(i, TextOf(n))

ItemDelta(i) ==
    /\ upstream[i].at \in {"none", "open"} /\ upstream[i].made < MaxText
    /\ Provider(i, "open", upstream[i].made + 1) /\ ConsumeDelta(i, upstream[i].made + 1)

ArgumentsDone(i) ==
    /\ upstream[i].at \in {"none", "open"}
    /\ \E n \in upstream[i].made..MaxText : Provider(i, "whole", n) /\ ConsumeArguments(i, TextOf(n))

ItemDone(i) ==
    /\ upstream[i].at # "done"
    /\ \E n \in (IF upstream[i].at = "whole" THEN {upstream[i].made} ELSE upstream[i].made..MaxText) :
         Provider(i, "done", n) /\ ConsumeItem(i, TextOf(n))

\* A delta of the message's text.
TextDelta ==
    /\ reader = "open" /\ ~terminal /\ chunks = <<>>
    /\ SendChunk(99, <<>>, "no")
    /\ UNCHANGED <<upstream, tool, terminal, reader, charged>>

\* The terminal event; the items of a completed response are done.
ResponseEnds ==
    /\ reader = "open" /\ ~terminal /\ terminal' = TRUE
    /\ \/ /\ \A i \in Items : upstream[i].at \in {"none", "done"}
          /\ SendChunk(0, <<>>, IF \E i \in Items : tool[i].known THEN "tool_calls" ELSE "stop")
       \/ SendChunk(0, <<>>, "length")
    /\ UNCHANGED <<upstream, tool, reader, charged>>

\* A failure is passed on as it is, without a role, and ends the reading;
\* [DONE] follows, usage does not.
ResponseFails ==
    /\ reader = "open" /\ reader' = "failed"
    /\ WriteSSE(0, <<>>, "error", FALSE)
    /\ UNCHANGED <<upstream, tool, terminal, sentRole, charged>>

\* The stream ends: after a terminal event the usage is reported and [DONE]
\* sent, otherwise the client's stream just stops.
StreamStops ==
    /\ reader = "open"
    /\ \/ terminal /\ reader' = "done" /\ charged' = TRUE
       \/ reader' = "cut" /\ UNCHANGED charged
    /\ UNCHANGED <<upstream, tool, terminal, chunks, sentRole>>

ChatNext ==
    \/ \E i \in Items : ItemAdded(i) \/ ItemDelta(i) \/ ArgumentsDone(i) \/ ItemDone(i)
    \/ TextDelta \/ ResponseEnds \/ ResponseFails \/ StreamStops

ChatSpec == ChatInit /\ [][ChatNext]_chatVars
-----------------------------------------------------------------------------
(* Properties.                                                              *)

\* What the client has of the call with this index.
Received(index) == FlattenSeq([k \in 1..Len(chunks) |-> IF chunks[k].index = index THEN chunks[k].text ELSE <<>>])

\* The client has every fragment of a call that is done exactly once and in
\* order, whichever of the provider's events brought it, and never anything
\* but the beginning of a call's text.
TextArrivesOnce ==
    \A i \in Items : tool[i].known =>
        /\ IsPrefix(Received(tool[i].index), TextOf(upstream[i].made))
        /\ upstream[i].at = "done" => Received(tool[i].index) = TextOf(upstream[i].made)

\* The client's calls are numbered without gaps, an answer with calls that is
\* complete asks for them to be made, and a truncated one never does.
CallsNumbered ==
    /\ {tool[i].index : i \in {j \in Items : tool[j].known}} = {k \in 0..Cardinality(Items) : k < Cardinality({j \in Items : tool[j].known})}
    /\ \A k \in 1..Len(chunks) :
         chunks[k].finish = "tool_calls" => \A i \in Items : tool[i].known => upstream[i].at = "done"

\* The usage is reported only for a stream whose client has the final chunk,
\* and the role comes once, with the first chunk that is no error.
ChargedWhenTold ==
    /\ charged => reader = "done" /\ chunks[Len(chunks)].finish \in {"stop", "tool_calls", "length"}
    /\ \A k \in 1..Len(chunks) :
         chunks[k].role <=> chunks[k].finish # "error" /\ \A j \in 1..(k - 1) : chunks[j].finish = "error"

\* The chat client receives each call once and whole, under consecutive numbers,
\* and is charged for the answers it was told are complete.
ChatFaithful == TextArrivesOnce /\ CallsNumbered /\ ChargedWhenTold
=============================================================================
