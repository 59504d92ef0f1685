--------------------------- MODULE ResponsesStream ---------------------------
(***************************************************************************)
(* responses.WriteStream: chat.completion chunks become Responses API      *)
(* events.  Reasoning, message and function_call items share one row of    *)
(* output indexes; an item's index is taken when a call is opened, but     *)
(* only when a reasoning or message item is closed.                        *)
(***************************************************************************)
EXTENDS UpstreamStream, Sequences

VARIABLES
  reasoning,     \* reasoningIndex while reasoningOpen, None otherwise
  message,       \* messageOpen; the message's index is outputIdx
  outputIdx,
  tools,         \* tools: the item of each tool index, None where there is none
  toolsStarted,
  output         \* outputItems, by their index

items == <<reasoning, message, outputIdx, tools, toolsStarted, output>>
vars  == <<upstream, client, loop, items>>

Init ==
  /\ StreamInit
  /\ reasoning = None /\ message = FALSE /\ outputIdx = 0
  /\ tools = [t \in ToolIndexes |-> None] /\ toolsStarted = FALSE /\ output = <<>>

Handling(kind) == phase = "reading" /\ part # None /\ part.kind = kind
OpenTools == {t \in ToolIndexes : tools[t] # None}
-----------------------------------------------------------------------------
Done(i) == Send("close", i) /\ output' = Append(output, i)

CloseReasoning ==
  /\ reasoning # None
  /\ Done(reasoning) /\ reasoning' = None /\ outputIdx' = outputIdx + 1
  /\ UNCHANGED <<message, tools, toolsStarted>>

CloseMessage ==
  /\ message
  /\ Done(outputIdx) /\ message' = FALSE /\ outputIdx' = outputIdx + 1
  /\ UNCHANGED <<reasoning, tools, toolsStarted>>

(* Mutant: closes in whatever order the map yields. *)
AnyToClose(t) == t \in OpenTools

(* The next of closeAllTools: ascending output_index.  The entry is        *)
(* deleted, so that a later delta of the same index opens another item.    *)
NextToClose(t) == t \in OpenTools /\ \A u \in OpenTools : tools[t] <= tools[u]

(* Mutant: takes an index at the end, as the other items do. *)
CloseToolCounted(t) ==
  /\ NextToClose(t)
  /\ Done(tools[t]) /\ tools' = [tools EXCEPT ![t] = None] /\ outputIdx' = outputIdx + 1
  /\ UNCHANGED <<reasoning, message, toolsStarted>>

CloseTool(t) ==
  /\ NextToClose(t)
  /\ Done(tools[t]) /\ tools' = [tools EXCEPT ![t] = None]
  /\ UNCHANGED <<reasoning, message, outputIdx, toolsStarted>>

EmitReasoning ==
  /\ Handling("reasoning")
  /\ \/ /\ reasoning # None
        /\ Send("delta", reasoning) /\ Taken /\ UNCHANGED items
     \/ /\ reasoning = None /\ toolsStarted
        /\ Taken /\ UNCHANGED <<client, items>>
     \/ /\ reasoning = None /\ ~toolsStarted
        /\ UNCHANGED upstream
        /\ \/ CloseMessage
           \/ /\ ~message
              /\ Send("open", outputIdx) /\ reasoning' = outputIdx
              /\ UNCHANGED <<message, outputIdx, tools, toolsStarted, output>>
  /\ UNCHANGED loop

(* Mutant: the message stays open. *)
ToolOverMessage == reasoning = None

(* What emitText and emitToolCalls must close before they open an item.    *)
MessageMayOpen == reasoning = None /\ OpenTools = {}
ToolMayOpen    == reasoning = None /\ ~message

EmitText ==
  /\ Handling("text")
  /\ \/ CloseReasoning /\ UNCHANGED upstream
     \/ reasoning = None /\ UNCHANGED upstream /\ \E t \in OpenTools : CloseTool(t)
     \/ /\ MessageMayOpen /\ ~message
        /\ Send("open", outputIdx) /\ message' = TRUE
        /\ UNCHANGED <<upstream, reasoning, outputIdx, tools, toolsStarted, output>>
     \/ /\ MessageMayOpen /\ message
        /\ Send("delta", outputIdx) /\ Taken /\ UNCHANGED items
  /\ UNCHANGED loop

(* Other calls stay open, so that upstream may interleave their arguments. *)
NewTool ==
  /\ Handling("tool") /\ tools[part.index] = None
  /\ \/ CloseReasoning
     \/ reasoning = None /\ CloseMessage
     \/ /\ ToolMayOpen
        /\ Send("open", outputIdx) /\ outputIdx' = outputIdx + 1
        /\ tools' = [tools EXCEPT ![part.index] = outputIdx] /\ toolsStarted' = TRUE
        /\ UNCHANGED <<reasoning, message, output>>
  /\ UNCHANGED <<upstream, loop>>

(* A late id or name is noted for the item's end and not announced.        *)
KnownTool ==
  /\ Handling("tool") /\ tools[part.index] # None
  /\ IF part.args THEN Send("delta", tools[part.index]) ELSE UNCHANGED client
  /\ Taken /\ UNCHANGED <<items, loop>>

(* fail and finish close what is open. *)
Close ==
  /\ phase = "ending"
  /\ \/ CloseReasoning
     \/ reasoning = None /\ CloseMessage
     \/ reasoning = None /\ ~message /\ \E t \in OpenTools : CloseTool(t)
  /\ UNCHANGED <<upstream, loop>>

(* Mutant: finish forgets the open calls. *)
ProseClosed == reasoning = None /\ ~message

AllClosed == reasoning = None /\ ~message /\ OpenTools = {}

Finish ==
  /\ phase = "ending" /\ AllClosed
  /\ Announce(Terminal)
  /\ phase' = "done"
  /\ UNCHANGED <<how, failure, upstream, items>>

(* Mutant: finishIfNeeded, as at the end of the body. *)
BreakFinishes == "completed"

(* failIfNeeded when reading fails. *)
BreakEnd == "failed"

Outer == Reject \/ Accept \/ ReadPart \/ ReadReason \/ ReadError \/ ReadLimit
           \/ ReadEOF \/ ReadBreaks(BreakEnd) \/ ClientLeaves

Next ==
  \/ Outer /\ UNCHANGED items
  \/ EmitReasoning \/ EmitText \/ NewTool \/ KnownTool \/ Close \/ Finish

Spec == Init /\ [][Next]_vars
-----------------------------------------------------------------------------
(* Every variable keeps its type. *)
TypeOK ==
  /\ StreamType
  /\ reasoning \in Items \cup {None} /\ message \in BOOLEAN /\ outputIdx \in 0..MaxParts
  /\ tools \in [ToolIndexes -> Items \cup {None}] /\ toolsStarted \in BOOLEAN
  /\ output \in Seq(Items)

(* emitReasoning ... emitToolCalls: "output_index stays exclusive".  A     *)
(* reasoning or message item is alone on the client's screen, and no two   *)
(* open items were given one index.                                        *)
Exclusive ==
  /\ Cardinality({i \in Items : view[i] = "open"}) =
       (IF reasoning = None THEN 0 ELSE 1) + (IF message THEN 1 ELSE 0) + Cardinality(OpenTools)
  /\ (reasoning # None \/ message) => Cardinality({i \in Items : view[i] = "open"}) = 1

(* The output list of the last event has every item the client saw, in the *)
(* order of the indexes ("so completed output order is stable"), whatever  *)
(* was interleaved.                                                        *)
OutputInOrder ==
  /\ \A n \in 1..Len(output) : output[n] = n - 1
  /\ event.type \in {"completed", "incomplete", "failed"} =>
       \A i \in Items : view[i] # "absent" => i < Len(output)

(* A stream whose upstream broke off, fell silent or reported an error     *)
(* that is not a rate limit is never closed as completed or incomplete     *)
(* ("never fake completed").                                               *)
NeverFakeCompleted ==
  failure \in {"error", "broken"} => event.type \notin {"completed", "incomplete"}

(* Item lifecycle, as a client relies on it. *)
Stream == INSTANCE ItemStream
Implements == Stream!Spec
=============================================================================
