------------------------ MODULE AnthropicStreamProofs ------------------------
(***************************************************************************)
(* Proofs about AnthropicStream for any tool indexes and any number of     *)
(* parts: the client sees open what streamState holds open, prose is open  *)
(* alone, and a message ends with every block stopped.                     *)
(*                                                                         *)
(* Prose says which kinds of block streamState may hold open together;     *)
(* Seen ties them to the client, leaving out the blocks of calls that text *)
(* has stopped and upstream may still name (Revived); Room counts, as in   *)
(* the Responses API, that no part takes a second index.                   *)
(***************************************************************************)
EXTENDS AnthropicStream, TLAPS, WellFoundedInduction

Prose ==
  /\ thinking # None => text = None /\ toolOpen = {} /\ \A t \in ToolIndexes : ~Started(t)
  /\ text # None => thinking = None /\ toolOpen = {}
  /\ \A b \in toolOpen : \E t \in ToolIndexes : toolBlock[t] = b

Held == ({thinking, text} \ {None}) \cup toolOpen

Below ==
  /\ \A b \in Held : b < next
  /\ \A t \in ToolIndexes : Started(t) => toolBlock[t] < next

Seen ==
  /\ \A b \in Items : view[b] = "absent" <=> b >= next
  /\ \A b \in Items \ Revived : view[b] = "open" <=> b \in Held

Served ==
  \/ part.kind = "reasoning" /\ thinking # None
  \/ part.kind = "text" /\ text # None
  \/ part.kind = "tool" /\ Started(part.index)

Room ==
  /\ next <= count
  /\ phase = "ending" => part = None
  /\ part # None => next < count \/ Served

Ends == {"completed", "incomplete", "failed"}
Ending == event.type \in Ends => phase = "done" /\ AllStopped

IInv == MessagesTypeOK /\ Prose /\ Below /\ Seen /\ Room /\ Ending
-----------------------------------------------------------------------------
LEMMA LeastOpen ==
  ASSUME MessagesTypeOK, toolOpen # {}
  PROVE  Min(toolOpen) \in toolOpen
<1>1. toolOpen \in SUBSET Nat
  BY DEF MessagesTypeOK, Items
<1>2. PICK m \in toolOpen : \A i \in toolOpen : ~(<<i, m>> \in OpToRel(<, Nat))
  BY <1>1, NatLessThanWellFounded, WFMin
<1>3. ASSUME NEW i \in toolOpen PROVE m <= i
  <2>1. i \in Nat /\ m \in Nat
    BY <1>1
  <2>2. ~(i < m)
    <3>1. ~(<<i, m>> \in OpToRel(<, Nat)) /\ <<i, m>> \in Nat \X Nat
      BY <1>2, <2>1
    <3> QED
      BY <3>1 DEF OpToRel
  <2> QED
    BY <2>1, <2>2
<1> QED
  BY <1>3 DEF Min

(* Stopping a block: what streamState no longer holds, the client has had  *)
(* closed.                                                                 *)
LEMMA Stops ==
  ASSUME IInv, phase \in {"reading", "ending"}, UNCHANGED <<upstream, loop>>,
         StopThinking \/ StopText \/ StopTool,
         StopThinking /\ part # None => part.kind # "reasoning",
         StopText /\ part # None => part.kind # "text"
  PROVE  IInv'
<1>1. PICK b \in Held : Send("close", b) /\ Held' = Held \ {b}
  <2>1. CASE StopThinking
    BY <2>1 DEF StopThinking, Held, IInv, Prose
  <2>2. CASE StopText
    BY <2>2 DEF StopText, Held, IInv, Prose
  <2>3. CASE StopTool
    <3>1. Min(toolOpen) \in toolOpen /\ thinking = None /\ text = None
      BY <2>3, LeastOpen DEF StopTool, IInv, Prose
    <3> QED
      BY <2>3, <3>1 DEF StopTool, Held
  <2> QED
    BY <2>1, <2>2, <2>3
<1>2. /\ b \in Items /\ b < next /\ next \in 0..MaxParts
      /\ view' = [view EXCEPT ![b] = "closed"] /\ event' = [type |-> "close", item |-> b]
      /\ view \in [Items -> {"absent", "open", "closed"}]
  BY <1>1 DEF IInv, MessagesTypeOK, StreamType, Held, Below, Send
<1>3. next' = next /\ toolBlock' = toolBlock /\ named' = named /\ toolOpen' \subseteq toolOpen
      /\ thinking' \in {thinking, None} /\ text' \in {text, None}
  BY DEF StopThinking, StopText, StopTool
<1>4. MessagesTypeOK'
  BY <1>2, <1>3 DEF IInv, MessagesTypeOK, StreamType, upstream, loop
<1>5. Prose'
  BY <1>3 DEF IInv, Prose, Started
<1>6. Below'
  BY <1>1, <1>3 DEF IInv, Below, Started
<1>7. Revived \subseteq Revived'
  BY <1>3 DEF Revived
<1>8. Seen'
  <2>1. \A c \in Items : view'[c] = "absent" <=> c >= next'
    BY <1>2, <1>3, BoundAssumption DEF IInv, Seen, Items
  <2>2. \A c \in Items \ Revived' : view'[c] = "open" <=> c \in Held'
    BY <1>1, <1>2, <1>7 DEF IInv, Seen
  <2> QED
    BY <2>1, <2>2 DEF Seen
<1>9. Room'
  BY <1>3 DEF IInv, Room, Served, Started, upstream, loop, StopThinking, StopText, StopTool
<1>10. Ending'
  BY <1>2 DEF Ending, Ends
<1> QED
  BY <1>4, <1>5, <1>6, <1>8, <1>9, <1>10 DEF IInv

(* A part that still lacks its block finds an index for it.                *)
LEMMA RoomLeft ==
  ASSUME IInv, part # None, ~Served
  PROVE  next \in Items /\ next + 1 <= count /\ next + 1 \in 0..MaxParts
BY BoundAssumption DEF IInv, Room, MessagesTypeOK, StreamType, Items

(* Starting a block at nextBlock. *)
LEMMA Starts ==
  ASSUME IInv, phase = "reading", part # None, ~Served, Served',
         UNCHANGED <<upstream, loop>>,
         Send("open", next), next' = next + 1, Held' = Held \cup {next},
         thinking' \in {thinking, next}, text' \in {text, next},
         toolOpen' \in {toolOpen, toolOpen \cup {next}}, named' \in {named, named \cup {next}},
         \/ toolBlock' = toolBlock
         \/ /\ toolBlock[part.index] = None /\ next \in toolOpen'
            /\ toolBlock' = [toolBlock EXCEPT ![part.index] = next],
         Prose'
  PROVE  IInv'
<1>1. /\ next \in Items /\ next + 1 <= count /\ next + 1 \in 0..MaxParts
      /\ view \in [Items -> {"absent", "open", "closed"}]
  BY RoomLeft DEF IInv, MessagesTypeOK, StreamType
<1>2. view' = [view EXCEPT ![next] = "open"] /\ event' = [type |-> "open", item |-> next]
  BY DEF Send
<1>3. MessagesTypeOK'
  BY <1>1, <1>2 DEF IInv, MessagesTypeOK, StreamType, upstream, loop
<1>4. Below'
  <2>1. ASSUME NEW b \in Held' PROVE b < next'
    BY <1>1, <2>1 DEF IInv, Below, Held, MessagesTypeOK, Items
  <2>2. ASSUME NEW t \in ToolIndexes, Started(t)' PROVE toolBlock'[t] < next'
    BY <1>1, <2>2 DEF IInv, Below, Started, MessagesTypeOK, Items
  <2> QED
    BY <2>1, <2>2 DEF Below
<1>5. \A b \in Items : b # next => (b \in Revived' <=> b \in Revived)
  <2> SUFFICES ASSUME NEW b \in Items, b # next
               PROVE  \A t \in ToolIndexes : (toolBlock'[t] = b /\ b \notin toolOpen')
                                            <=> (toolBlock[t] = b /\ b \notin toolOpen)
    BY DEF Revived
  <2> QED
    BY NoneAssumption DEF IInv, MessagesTypeOK
<1>6. Seen'
  <2>1. \A b \in Items : view'[b] = "absent" <=> b >= next'
    BY <1>1, <1>2, BoundAssumption DEF IInv, Seen, Items
  <2>2. \A b \in Items \ Revived' : view'[b] = "open" <=> b \in Held'
    BY <1>1, <1>2, <1>5 DEF IInv, Seen
  <2> QED
    BY <2>1, <2>2 DEF Seen
<1>7. Room'
  BY <1>1 DEF IInv, Room, upstream, loop
<1>8. Ending'
  BY <1>2 DEF Ending, Ends
<1> QED
  BY <1>3, <1>4, <1>6, <1>7, <1>8 DEF IInv
-----------------------------------------------------------------------------
(* A part that starts and stops nothing is dealt with.                     *)
LEMMA TakenStep ==
  ASSUME IInv, phase = "reading", Taken, UNCHANGED <<blocks, loop>>, view' = view,
         event' = event \/ event'.type = "delta"
  PROVE  IInv'
<1>1. MessagesTypeOK'
  BY DEF IInv, MessagesTypeOK, StreamType, Taken, blocks, loop
<1>2. Prose' /\ Below' /\ Seen'
  BY DEF IInv, Prose, Below, Held, Started, Seen, Revived, blocks
<1>3. Room'
  BY DEF IInv, Room, Taken, blocks, loop
<1>4. Ending'
  BY DEF IInv, Ending, Ends, AllStopped, blocks, loop
<1> QED
  BY <1>1, <1>2, <1>3, <1>4 DEF IInv

(* A delta changes nothing the client has of the blocks.                   *)
LEMMA DeltaKeepsView ==
  ASSUME MessagesTypeOK, NEW b, Send("delta", b)
  PROVE  view' = view /\ event'.type = "delta"
BY DEF MessagesTypeOK, StreamType, Send

(* Reading, and the verdicts at the two ends of the stream. *)
LEMMA OuterStep == ASSUME IInv, Outer, UNCHANGED blocks PROVE IInv'
<1> USE DEF upstream, client, loop, blocks
<1>1. Prose' /\ Below'
  BY DEF IInv, Prose, Below, Held, Started
<1>2. view' = view /\ Seen'
  BY DEF IInv, Seen, Held, Revived, Outer, Reject, Accept, ReadPart, ReadReason, ReadError,
     ReadLimit, ReadEOF, Breaks, ReadBreaks, ClientLeaves, Announce
<1>3. CASE Reject \/ Accept \/ ClientLeaves
  <2>1. MessagesTypeOK' /\ Room' /\ Ending'
    BY <1>3 DEF Reject, Accept, ClientLeaves, Announce, IInv, MessagesTypeOK, StreamType, Room,
       Served, Started, Ending, Ends, AllStopped
  <2> QED
    BY <1>1, <1>2, <2>1 DEF IInv
<1>4. CASE ReadPart
  <2>1. part' \in Parts /\ count \in 0..MaxParts /\ count' = count + 1 /\ count < MaxParts
    BY <1>4 DEF ReadPart, IInv, MessagesTypeOK, StreamType
  <2>2. MessagesTypeOK'
    BY <1>4, <2>1, BoundAssumption DEF ReadPart, IInv, MessagesTypeOK, StreamType
  <2>3. Room' /\ Ending'
    BY <1>4, <2>1 DEF ReadPart, IInv, MessagesTypeOK, Room, Ending, Ends, AllStopped
  <2> QED
    BY <1>1, <1>2, <2>2, <2>3 DEF IInv
<1>5. CASE ReadReason \/ ReadLimit \/ ReadError \/ ReadEOF \/ Breaks
  <2>1. MessagesTypeOK' /\ Room' /\ Ending'
    BY <1>5 DEF ReadReason, ReadLimit, ReadError, ReadEOF, Breaks, ReadBreaks, EndsAs, IInv,
       MessagesTypeOK, StreamType, Room, Served, Started, Ending, Ends, AllStopped
  <2> QED
    BY <1>1, <1>2, <2>1 DEF IInv
<1> QED
  BY <1>3, <1>4, <1>5 DEF Outer

LEMMA ReasoningStep == ASSUME IInv, Reasoning PROVE IInv'
<1>1. phase = "reading" /\ part # None /\ part.kind = "reasoning" /\ UNCHANGED loop
  BY DEF Reasoning, Handling
<1>2. CASE Send("delta", thinking) /\ Taken /\ UNCHANGED blocks
  <2>1. view' = view /\ event'.type = "delta"
    BY <1>2, DeltaKeepsView DEF IInv
  <2> QED
    BY <1>1, <1>2, <2>1, TakenStep
<1>3. CASE Taken /\ UNCHANGED <<client, blocks>>
  BY <1>1, <1>3, TakenStep DEF client
<1>4. CASE thinking = None /\ UNCHANGED upstream /\ StopText
  BY <1>1, <1>4, Stops DEF StopThinking
<1>5. CASE /\ UNCHANGED upstream /\ thinking = None /\ text = None
           /\ \A t \in ToolIndexes : ~Started(t)
           /\ Send("open", next) /\ thinking' = next /\ next' = next + 1
           /\ UNCHANGED <<text, toolBlock, toolOpen, named>>
  <2>1. ~Served
    BY <1>1, <1>5 DEF Served
  <2>2. next \in Items /\ next # None
    BY <1>1, <2>1, RoomLeft, NoneAssumption
  <2>3. Served' /\ Held' = Held \cup {next}
    BY <1>1, <1>5, <2>2 DEF Served, Held, upstream
  <2>4. toolOpen = {}
    BY <1>5, NoneAssumption DEF IInv, Prose, Started, MessagesTypeOK
  <2>5. Prose'
    BY <1>5, <2>4 DEF Prose, Started
  <2> QED
    BY <1>1, <1>5, <2>1, <2>3, <2>5, Starts
<1> QED
  BY <1>2, <1>3, <1>4, <1>5 DEF Reasoning

LEMMA TextStep == ASSUME IInv, Text PROVE IInv'
<1>1. phase = "reading" /\ part # None /\ part.kind = "text" /\ UNCHANGED loop
  BY DEF Text, Handling
<1>2. CASE Send("delta", text) /\ Taken /\ UNCHANGED blocks
  <2>1. view' = view /\ event'.type = "delta"
    BY <1>2, DeltaKeepsView DEF IInv
  <2> QED
    BY <1>1, <1>2, <2>1, TakenStep
<1>3. CASE text = None /\ UNCHANGED upstream /\ ClearForText
  BY <1>1, <1>3, Stops DEF ClearForText, StopText
<1>4. CASE /\ text = None /\ UNCHANGED upstream
           /\ toolOpen = {} /\ thinking = None /\ StartText
  <2>1. ~Served
    BY <1>1, <1>4 DEF Served
  <2>2. next \in Items /\ next # None
    BY <1>1, <2>1, RoomLeft, NoneAssumption
  <2>3. Served' /\ Held' = Held \cup {next}
    BY <1>1, <1>4, <2>2 DEF Served, Held, StartText, upstream
  <2>4. Prose'
    BY <1>4 DEF Prose, StartText
  <2> QED
    BY <1>1, <1>4, <2>1, <2>3, <2>4, Starts DEF StartText
<1> QED
  BY <1>2, <1>3, <1>4 DEF Text

LEMMA NewToolStep == ASSUME IInv, NewTool PROVE IInv'
<1>1. phase = "reading" /\ part # None /\ part.kind = "tool" /\ UNCHANGED <<upstream, loop>>
      /\ ~Started(part.index)
  BY DEF NewTool, Handling
<1>2. CASE ClearForTool
  BY <1>1, <1>2, Stops DEF ClearForTool
<1>3. CASE /\ ProseStopped /\ Send("open", next)
           /\ toolBlock' = [toolBlock EXCEPT ![part.index] = next]
           /\ toolOpen' = toolOpen \cup {next} /\ next' = next + 1
           /\ named' = (IF part.named THEN named \cup {next} ELSE named)
           /\ UNCHANGED <<thinking, text>>
  <2>1. ~Served /\ part.index \in ToolIndexes
    BY <1>1 DEF Served, IInv, MessagesTypeOK, StreamType, Parts
  <2>2. next \in Items /\ next # None
    BY <1>1, <2>1, RoomLeft, NoneAssumption
  <2>3. toolBlock'[part.index] = next
    BY <1>3, <2>1 DEF IInv, MessagesTypeOK
  <2>4. Served' /\ Held' = Held \cup {next}
    BY <1>1, <1>3, <2>2, <2>3 DEF Served, Held, Started, upstream
  <2>5. Prose'
    <3>1. ASSUME NEW b \in toolOpen' PROVE \E t \in ToolIndexes : toolBlock'[t] = b
      <4>1. CASE b = next
        BY <2>1, <2>3, <4>1
      <4>2. CASE b # next
        <5>1. PICK t \in ToolIndexes : toolBlock[t] = b /\ b # None
          BY <1>3, <4>2, NoneAssumption DEF IInv, Prose, MessagesTypeOK
        <5> QED
          BY <1>1, <1>3, <5>1 DEF Started, IInv, MessagesTypeOK
      <4> QED
        BY <4>1, <4>2
    <3> QED
      BY <1>3, <3>1 DEF Prose, ProseStopped
  <2> QED
    BY <1>1, <1>3, <2>1, <2>4, <2>5, Starts DEF Started
<1> QED
  BY <1>2, <1>3 DEF NewTool

(* A late name reaches an open block, which stays open, or one that text   *)
(* has stopped (Revived).                                                  *)
LEMMA KnownToolStep == ASSUME IInv, KnownTool PROVE IInv'
<1> DEFINE b == toolBlock[part.index]
<1>1. phase = "reading" /\ part # None /\ part.kind = "tool" /\ UNCHANGED loop
      /\ Started(part.index)
  BY DEF KnownTool, Handling
<1>2. part.index \in ToolIndexes /\ b \in Items /\ b < next
  BY <1>1 DEF IInv, MessagesTypeOK, StreamType, Parts, Started, Below
<1>3. CASE Taken /\ UNCHANGED blocks /\ (Send("delta", b) \/ UNCHANGED client)
  <2>1. view' = view /\ (event' = event \/ event'.type = "delta")
    <3> HIDE DEF b
    <3> QED
      BY <1>3, DeltaKeepsView DEF IInv, client
  <2> QED
    BY <1>1, <1>3, <2>1, TakenStep
<1>4. CASE /\ Send("open", b) /\ named' = named \cup {b}
           /\ UNCHANGED <<upstream, thinking, text, next, toolBlock, toolOpen>>
  <2>1. view' = [view EXCEPT ![b] = "open"] /\ event' = [type |-> "open", item |-> b]
    BY <1>4 DEF Send
  <2>2. b \in Held \/ b \in Revived
    BY <1>2 DEF Revived, Held
  <2>3. MessagesTypeOK'
    BY <1>1, <1>2, <1>4, <2>1 DEF IInv, MessagesTypeOK, StreamType, upstream, loop
  <2>4. Prose' /\ Below' /\ Held' = Held /\ Revived' = Revived
    BY <1>4 DEF IInv, Prose, Below, Held, Revived, Started
  <2>5. Seen'
    BY <1>2, <1>4, <2>1, <2>2, <2>4, BoundAssumption
    DEF IInv, Seen, MessagesTypeOK, StreamType, Items
  <2>6. Room'
    BY <1>1, <1>4 DEF IInv, Room, Served, Started, upstream, loop
  <2>7. Ending'
    BY <2>1 DEF Ending, Ends
  <2> QED
    BY <2>3, <2>4, <2>5, <2>6, <2>7 DEF IInv
<1> QED
  BY <1>3, <1>4 DEF KnownTool

LEMMA CloseStep == ASSUME IInv, Close PROVE IInv'
<1>1. phase = "ending" /\ part = None /\ UNCHANGED <<upstream, loop>>
  BY DEF Close, IInv, Room
<1>2. StopThinking \/ StopText \/ StopTool
  BY DEF Close
<1> QED
  BY <1>1, <1>2, Stops

LEMMA MessageStopStep == ASSUME IInv, MessageStop PROVE IInv'
<1> USE DEF upstream, blocks
<1>1. MessagesTypeOK' /\ Room'
  BY DEF MessageStop, Announce, IInv, MessagesTypeOK, StreamType, Room, Served, Started
<1>2. Prose' /\ Below' /\ Seen'
  BY DEF MessageStop, Announce, IInv, Prose, Below, Held, Started, Seen, Revived
<1>3. Ending'
  BY DEF MessageStop, AllStopped, Ending
<1> QED
  BY <1>1, <1>2, <1>3 DEF IInv

LEMMA Inductive == Spec => []IInv
<1>1. Init => IInv
  <2> SUFFICES ASSUME Init PROVE IInv
    OBVIOUS
  <2>1. StreamType
    BY BoundAssumption DEF Init, StreamInit, StreamType, Reasons
  <2>2. MessagesTypeOK
    BY <2>1, BoundAssumption DEF Init, MessagesTypeOK
  <2>3. Prose /\ Below
    BY DEF Init, Prose, Below, Held, Started
  <2>4. Seen /\ Room
    BY BoundAssumption DEF Init, StreamInit, Seen, Held, Room, Items
  <2>5. Ending
    BY DEF Init, StreamInit, Ending, Ends
  <2> QED
    BY <2>2, <2>3, <2>4, <2>5 DEF IInv
<1>2. IInv /\ [Next]_vars => IInv'
  <2> SUFFICES ASSUME IInv, [Next]_vars PROVE IInv'
    OBVIOUS
  <2>1. CASE UNCHANGED vars
    BY <2>1 DEF vars, upstream, client, loop, blocks, IInv, MessagesTypeOK, StreamType, Prose,
       Below, Held, Started, Seen, Revived, Room, Served, Ending, Ends, AllStopped
  <2> QED
    BY <2>1, OuterStep, ReasoningStep, TextStep, NewToolStep, KnownToolStep, CloseStep,
       MessageStopStep DEF Next
<1> QED
  BY <1>1, <1>2, PTL DEF Spec
-----------------------------------------------------------------------------
(* Every variable keeps its type; in particular no index runs out.         *)
THEOREM TypeCorrect == Spec => []MessagesTypeOK
BY Inductive, PTL DEF IInv

(* However thinking, text and calls interleave, the client sees open what  *)
(* streamState holds open, blocks of calls that text has stopped aside.    *)
THEOREM ViewCorrect == Spec => []ViewMatches
<1>1. IInv => ViewMatches
  BY NoneAssumption DEF IInv, Seen, Held, ViewMatches
<1> QED
  BY <1>1, Inductive, PTL

(* "tool->text: close the open tool blocks first": a thinking or text      *)
(* block is open alone.                                                    *)
THEOREM ProseCorrect == Spec => []ProseAlone
<1>1. IInv => ProseAlone
  BY NoneAssumption DEF IInv, Seen, Held, Prose, ProseAlone
<1> QED
  BY <1>1, Inductive, PTL

(* Whichever of finish and emitErrorAndStop ends a message, every block it *)
(* has started is stopped and every index below nextBlock was used.        *)
THEOREM EndCorrect == Spec => []EndsClosed
<1>1. IInv => EndsClosed
  BY DEF IInv, Ending, Ends, AllStopped, Seen, Held, EndsClosed
<1> QED
  BY <1>1, Inductive, PTL
=============================================================================
