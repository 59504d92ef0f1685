--------------------------- MODULE AnthropicStream ---------------------------
(***************************************************************************)
(* anthropic.WriteStream: chat.completion chunks become Messages events.   *)
(* Thinking, text and tool_use blocks share one row of indexes; starting   *)
(* a block stops the blocks of other kinds first.                          *)
(***************************************************************************)
EXTENDS UpstreamStream

VARIABLES
  thinking,  \* thinkingIndex while thinkingOpen, None otherwise
  text,      \* textIndex while textOpen
  next,      \* nextBlock
  toolBlock, \* toolBlocks: the block of each tool index
  toolOpen,  \* toolOpen: tool blocks not stopped yet
  named      \* toolNames: tool blocks announced with a name

blocks == <<thinking, text, next, toolBlock, toolOpen, named>>
vars   == <<upstream, client, loop, blocks>>

Init ==
  /\ StreamInit
  /\ thinking = None /\ text = None /\ next = 0
  /\ toolBlock = [t \in ToolIndexes |-> None] /\ toolOpen = {} /\ named = {}

Started(t) == toolBlock[t] # None
Handling(kind) == phase = "reading" /\ part # None /\ part.kind = kind
-----------------------------------------------------------------------------
(* closeThinking, closeText and closeOpenTools send one content_block_stop *)
(* at a time, the tools' by ascending index.                               *)
StopThinking ==
  /\ thinking # None
  /\ Send("close", thinking) /\ thinking' = None
  /\ UNCHANGED <<text, next, toolBlock, toolOpen, named>>

(* Mutant: the stop is sent and textOpen stays true. *)
StopTextNotNoted ==
  /\ text # None
  /\ Send("close", text)
  /\ UNCHANGED blocks

StopText ==
  /\ text # None
  /\ Send("close", text) /\ text' = None
  /\ UNCHANGED <<thinking, next, toolBlock, toolOpen, named>>

StopTool ==
  /\ toolOpen # {}
  /\ Send("close", Min(toolOpen)) /\ toolOpen' = toolOpen \ {Min(toolOpen)}
  /\ UNCHANGED <<thinking, text, next, toolBlock, named>>

ClearForTool == StopThinking \/ (thinking = None /\ StopText)
ClearForText == StopTool \/ (toolOpen = {} /\ StopThinking)

Reasoning ==
  /\ Handling("reasoning")
  /\ \/ /\ thinking # None
        /\ Send("delta", thinking) /\ Taken /\ UNCHANGED blocks
     \/ /\ thinking = None /\ \E t \in ToolIndexes : Started(t)
        /\ Taken /\ UNCHANGED <<client, blocks>>
     \/ /\ thinking = None /\ \A t \in ToolIndexes : ~Started(t)
        /\ UNCHANGED upstream
        /\ \/ StopText
           \/ /\ text = None
              /\ Send("open", next) /\ thinking' = next /\ next' = next + 1
              /\ UNCHANGED <<text, toolBlock, toolOpen, named>>
  /\ UNCHANGED loop

(* Mutant: the block is started and textOpen stays false. *)
StartTextNotNoted ==
  /\ Send("open", next) /\ next' = next + 1
  /\ UNCHANGED <<thinking, text, toolBlock, toolOpen, named>>

StartText ==
  /\ Send("open", next) /\ text' = next /\ next' = next + 1
  /\ UNCHANGED <<thinking, toolBlock, toolOpen, named>>

Text ==
  /\ Handling("text")
  /\ \/ /\ text # None
        /\ Send("delta", text) /\ Taken /\ UNCHANGED blocks
     \/ /\ text = None /\ UNCHANGED upstream
        /\ \/ ClearForText
           \/ toolOpen = {} /\ thinking = None /\ StartText
  /\ UNCHANGED loop

(* Mutant: the text block is left open. *)
ThinkingStopped == thinking = None

(* What must be stopped before a tool_use block is started.                *)
ProseStopped == thinking = None /\ text = None

(* A tool index seen for the first time; its id and name may come later.   *)
NewTool ==
  /\ Handling("tool") /\ ~Started(part.index)
  /\ \/ ClearForTool
     \/ /\ ProseStopped
        /\ Send("open", next)
        /\ toolBlock' = [toolBlock EXCEPT ![part.index] = next]
        /\ toolOpen' = toolOpen \cup {next} /\ next' = next + 1
        /\ named' = IF part.named THEN named \cup {next} ELSE named
        /\ UNCHANGED <<thinking, text>>
  /\ UNCHANGED <<upstream, loop>>

(* Late name backfill announces the block again. *)
LateName(b) == part.named /\ b \notin named

KnownTool ==
  LET b == toolBlock[part.index] IN
  /\ Handling("tool") /\ Started(part.index)
  /\ \/ /\ LateName(b)
        /\ Send("open", b) /\ named' = named \cup {b}
        /\ UNCHANGED <<upstream, thinking, text, next, toolBlock, toolOpen>>
     \/ /\ ~LateName(b) /\ part.args
        /\ Send("delta", b) /\ Taken /\ UNCHANGED blocks
     \/ /\ ~LateName(b) /\ ~part.args
        /\ Taken /\ UNCHANGED <<client, blocks>>
  /\ UNCHANGED loop

(* Mutant: finish forgets the tool blocks. *)
ProseIsAll == thinking = None /\ text = None

(* finish and emitErrorAndStop: stop what is open, then message_delta with *)
(* the stop reason, or error, and message_stop.                            *)
AllStopped == thinking = None /\ text = None /\ toolOpen = {}

Close ==
  /\ phase = "ending"
  /\ \/ StopThinking
     \/ thinking = None /\ StopText
     \/ thinking = None /\ text = None /\ StopTool
  /\ UNCHANGED <<upstream, loop>>

MessageStop ==
  /\ phase = "ending" /\ AllStopped
  /\ Announce(Terminal)
  /\ phase' = "done"
  /\ UNCHANGED <<how, failure, upstream, blocks>>

(* finishIfNeeded is called when reading fails, too. *)
Breaks == ReadBreaks("completed")

Outer == Reject \/ Accept \/ ReadPart \/ ReadReason \/ ReadError \/ ReadLimit \/ ReadEOF \/ Breaks
           \/ ClientLeaves

Next ==
  \/ Outer /\ UNCHANGED blocks
  \/ Reasoning \/ Text \/ NewTool \/ KnownTool \/ Close \/ MessageStop

Spec == Init /\ [][Next]_vars
-----------------------------------------------------------------------------
(* Every variable keeps its type. *)
MessagesTypeOK ==
  /\ StreamType
  /\ thinking \in Items \cup {None} /\ text \in Items \cup {None} /\ next \in 0..MaxParts
  /\ toolBlock \in [ToolIndexes -> Items \cup {None}]
  /\ toolOpen \in SUBSET Items /\ named \in SUBSET Items

(* Blocks that text has stopped while upstream may still name or continue  *)
(* the call: the code then sends events of a block the client has closed.  *)
Revived == {b \in Items : \E t \in ToolIndexes : toolBlock[t] = b /\ b \notin toolOpen}

(* The client sees a block open exactly while streamState holds it open,   *)
(* however thinking, text and tools interleave; late calls aside.          *)
ViewMatches ==
  \A b \in Items \ Revived : view[b] = "open" <=> b \in {thinking, text} \cup toolOpen

(* "tool->text: close the open tool blocks first" (emitText): a thinking   *)
(* or text block is never open together with another block.                *)
ProseAlone ==
  \A b \in {thinking, text} \ {None} : \A c \in Items \ Revived : view[c] = "open" => c = b

(* A message that ends leaves no block open and no index below nextBlock   *)
(* unused, whichever of finish and emitErrorAndStop ended it.              *)
EndsClosed ==
  event.type \in {"completed", "incomplete", "failed"} =>
    \A b \in Items : (view[b] = "absent" <=> b >= next) /\ (view[b] = "open" => b \in Revived)
=============================================================================
