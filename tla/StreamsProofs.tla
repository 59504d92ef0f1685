---------------------------- MODULE StreamsProofs ----------------------------
(***************************************************************************)
(* Proofs about ResponsesStream for any tool indexes and any number of     *)
(* parts: the output list is in order, a failed stream is not reported as  *)
(* completed, and the stream implements ItemStream.  At the end, what      *)
(* AnthropicStreamProofs shows of a message, for the two APIs side by side.*)
(*                                                                         *)
(* Everything rests on where the open items are.  The open calls hold the  *)
(* indexes from the end of the output list to outputIdx, without a gap,    *)
(* and an open reasoning or message item holds outputIdx alone (Indexes);  *)
(* what the client sees is exactly that (Seen).  That an index is left for *)
(* every item is a matter of counting: no part opens a second one (Room).  *)
(***************************************************************************)
EXTENDS MCStreams, TLAPS, FiniteSetTheorems, FunctionTheorems

Used == IF reasoning # None \/ message THEN outputIdx + 1 ELSE outputIdx

Served ==
  \/ part.kind = "reasoning" /\ reasoning # None
  \/ part.kind = "text" /\ message
  \/ part.kind = "tool" /\ tools[part.index] # None

Indexes ==
  /\ reasoning # None => reasoning = outputIdx /\ ~message /\ toolsStarted = FALSE
  /\ toolsStarted = FALSE \/ message => \A t \in ToolIndexes : tools[t] = None
  /\ Len(output) <= outputIdx
  /\ \A t \in ToolIndexes : tools[t] # None => Len(output) <= tools[t] /\ tools[t] < outputIdx
  /\ \A i \in Len(output)..(outputIdx - 1) : \E t \in ToolIndexes : tools[t] = i
  /\ \A t, u \in ToolIndexes : tools[t] # None /\ tools[t] = tools[u] => t = u

IsOpen(i) == i = reasoning \/ (message /\ i = outputIdx) \/ \E t \in ToolIndexes : tools[t] = i

Seen ==
  \A i \in Items : (view[i] = "absent" <=> i >= Used) /\ (view[i] = "open" <=> IsOpen(i))

Room ==
  /\ Used <= count
  /\ phase \in {"first", "ending"} => part = None
  /\ part # None => Used < count \/ Served

Ordered == \A n \in 1..Len(output) : output[n] = n - 1

Ending ==
  /\ phase = "first" => event.type = "none"
  /\ phase \in {"reading", "ending"} => Stream!Running
  /\ event.type \in Stream!Ends => \A i \in Items : view[i] # "absent" => i < Len(output)
  /\ failure \in {"error", "broken"} => how = "failed" /\ phase \in {"ending", "done"}
  /\ event.type \in {"completed", "incomplete"} => how = "completed"

IInv == TypeOK /\ Indexes /\ Seen /\ Room /\ Ordered /\ Ending
-----------------------------------------------------------------------------
(* With no call open the output list reaches up to outputIdx.              *)
LEMMA ListIsFull ==
  ASSUME TypeOK, Indexes, \A t \in ToolIndexes : tools[t] = None
  PROVE  Len(output) = outputIdx
<1>1. Len(output) \in Nat /\ outputIdx \in 0..MaxParts
  BY BoundAssumption DEF TypeOK
<1>2. ASSUME Len(output) < outputIdx PROVE FALSE
  <2>1. PICK t \in ToolIndexes : tools[t] = Len(output)
    BY <1>1, <1>2, BoundAssumption DEF Indexes
  <2>2. Len(output) \in Items
    BY <1>1, <1>2, BoundAssumption DEF Items
  <2> QED
    BY <2>1, <2>2, NoneAssumption
<1> QED
  BY <1>1, <1>2, BoundAssumption DEF Indexes

(* Closing an item: the client's side of Done(i).                          *)
LEMMA ClosesItem ==
  ASSUME TypeOK, Ending, NEW i \in Items, view[i] = "open", Done(i),
         phase \in {"reading", "ending"}
  PROVE  /\ view' = [view EXCEPT ![i] = "closed"]
         /\ output' = Append(output, i)
         /\ event'.type = "close"
         /\ Stream!Close(i)
<1>1. view' = [view EXCEPT ![i] = "closed"] /\ event' = [type |-> "close", item |-> i]
  BY DEF Done, Send
<1>2. Stream!Running
  BY DEF Ending
<1> QED
  BY <1>1, <1>2 DEF Done, Stream!Close

(* Opening an item at outputIdx: the client's side of Send("open", ...).   *)
LEMMA OpensItem ==
  ASSUME TypeOK, Ending, Seen, reasoning = None, ~message, outputIdx \in Items,
         Send("open", outputIdx), phase \in {"reading", "ending"}
  PROVE  /\ view' = [view EXCEPT ![outputIdx] = "open"]
         /\ event'.type = "open"
         /\ Stream!Open(outputIdx)
<1>1. /\ view' = [view EXCEPT ![outputIdx] = "open"]
      /\ event' = [type |-> "open", item |-> outputIdx]
  BY DEF Send
<1>2. Stream!Running
  BY DEF Ending
<1>3. view[outputIdx] = "absent" /\ \A j \in Items : j < outputIdx => view[j] # "absent"
  BY BoundAssumption DEF Seen, Used, TypeOK, Items
<1> QED
  BY <1>1, <1>2, <1>3 DEF Stream!Open

(* A delta of an open item changes nothing the client has of the items.    *)
LEMMA DeltaOfItem ==
  ASSUME TypeOK, Ending, NEW i \in Items, view[i] = "open", Send("delta", i),
         phase \in {"reading", "ending"}
  PROVE  view' = view /\ event'.type = "delta" /\ Stream!Delta(i)
<1>1. view' = view /\ event' = [type |-> "delta", item |-> i]
  BY DEF Send, TypeOK, StreamType
<1>2. Stream!Running
  BY DEF Ending
<1> QED
  BY <1>1, <1>2 DEF Stream!Delta
-----------------------------------------------------------------------------
(* The item that is appended is the next of the list.                      *)
LEMMA Appends ==
  ASSUME TypeOK, Ordered, NEW i \in Items, i = Len(output), output' = Append(output, i)
  PROVE  output' \in Seq(Items) /\ Len(output') = Len(output) + 1 /\ Ordered'
<1>1. output \in Seq(Items)
  BY DEF TypeOK
<1>2. output' \in Seq(Items) /\ Len(output') = Len(output) + 1 /\ Len(output) \in Nat
  BY <1>1
<1>3. ASSUME NEW n \in 1..Len(output') PROVE output'[n] = n - 1
  <2>1. CASE n = Len(output) + 1
    BY <1>1, <1>2, <2>1
  <2>2. CASE n # Len(output) + 1
    <3>1. n \in 1..Len(output)
      BY <1>2, <2>2
    <3>2. output'[n] = output[n]
      BY <1>1, <3>1
    <3> QED
      BY <3>1, <3>2 DEF Ordered
  <2> QED
    BY <2>1, <2>2
<1> QED
  BY <1>2, <1>3 DEF Ordered

(* While the stream is translated or ended, a step that leaves phase, how  *)
(* and failure alone and sends an item's event keeps Ending.               *)
LEMMA EndingStep ==
  ASSUME Ending, phase \in {"reading", "ending"}, UNCHANGED loop,
         event'.type \in {"open", "delta", "close"}
  PROVE  Ending'
BY DEF Ending, loop, Stream!Running, Stream!Ends

(* closeReasoning closes the one open item. *)
LEMMA ReasoningCloses ==
  ASSUME IInv, phase \in {"reading", "ending"}, CloseReasoning, UNCHANGED <<upstream, loop>>,
         part # None => part.kind # "reasoning"
  PROVE  IInv' /\ Stream!Next
<1>1. /\ reasoning = outputIdx /\ outputIdx \in Items /\ ~message
      /\ \A t \in ToolIndexes : tools[t] = None
  BY NoneAssumption DEF IInv, Indexes, CloseReasoning, TypeOK
<1>2. Len(output) = outputIdx
  BY <1>1, ListIsFull DEF IInv
<1>3. view[outputIdx] = "open"
  BY <1>1 DEF IInv, Seen, IsOpen
<1>4. /\ view' = [view EXCEPT ![outputIdx] = "closed"] /\ output' = Append(output, outputIdx)
      /\ event'.type = "close" /\ Stream!Close(outputIdx)
  BY <1>1, <1>3, ClosesItem DEF IInv, CloseReasoning
<1>5. output' \in Seq(Items) /\ Len(output') = outputIdx + 1 /\ Ordered'
  BY <1>1, <1>2, <1>4, Appends DEF IInv
<1>6. /\ reasoning' = None /\ outputIdx' = outputIdx + 1 /\ message' = message
      /\ tools' = tools /\ toolsStarted' = toolsStarted
  BY DEF CloseReasoning
<1>7. outputIdx' \in 0..MaxParts
  BY <1>1, <1>6, BoundAssumption DEF Items
<1>8. TypeOK'
  BY <1>4, <1>5, <1>6, <1>7 DEF IInv, TypeOK, StreamType, upstream, loop
<1>9. Indexes'
  BY <1>1, <1>5, <1>6, <1>7, NoneAssumption, BoundAssumption DEF Indexes
<1>10. Seen'
  BY <1>1, <1>4, <1>6, NoneAssumption, BoundAssumption
  DEF IInv, TypeOK, StreamType, Seen, Used, IsOpen, Items
<1>11. Room'
  BY <1>1, <1>6, NoneAssumption DEF IInv, Room, Used, Served, upstream, loop
<1>12. Ending'
  BY <1>4, EndingStep DEF IInv
<1>13. Stream!Next
  BY <1>1, <1>4 DEF Stream!Next
<1> QED
  BY <1>5, <1>8, <1>9, <1>10, <1>11, <1>12, <1>13 DEF IInv

(* So does closeMessage. *)
LEMMA MessageCloses ==
  ASSUME IInv, phase \in {"reading", "ending"}, CloseMessage, UNCHANGED <<upstream, loop>>,
         part # None => part.kind # "text"
  PROVE  IInv' /\ Stream!Next
<1>1. /\ message /\ reasoning = None /\ outputIdx \in 0..MaxParts
      /\ \A t \in ToolIndexes : tools[t] = None
  BY DEF IInv, Indexes, CloseMessage, TypeOK
<1>2. Len(output) = outputIdx
  BY <1>1, ListIsFull DEF IInv
<1>3. outputIdx \in Items
  BY <1>1, BoundAssumption DEF IInv, Room, Used, TypeOK, StreamType, Items
<1>4. view[outputIdx] = "open"
  BY <1>1, <1>3 DEF IInv, Seen, IsOpen
<1>5. /\ view' = [view EXCEPT ![outputIdx] = "closed"] /\ output' = Append(output, outputIdx)
      /\ event'.type = "close" /\ Stream!Close(outputIdx)
  BY <1>3, <1>4, ClosesItem DEF IInv, CloseMessage
<1>6. output' \in Seq(Items) /\ Len(output') = outputIdx + 1 /\ Ordered'
  BY <1>2, <1>3, <1>5, Appends DEF IInv
<1>7. /\ message' = FALSE /\ outputIdx' = outputIdx + 1 /\ reasoning' = reasoning
      /\ tools' = tools /\ toolsStarted' = toolsStarted
  BY DEF CloseMessage
<1>8. outputIdx' \in 0..MaxParts
  BY <1>3, <1>7, BoundAssumption DEF Items
<1>9. TypeOK'
  BY <1>5, <1>6, <1>7, <1>8 DEF IInv, TypeOK, StreamType, upstream, loop
<1>10. Indexes'
  BY <1>1, <1>6, <1>7, <1>8, NoneAssumption, BoundAssumption DEF Indexes
<1>11. Seen'
  BY <1>1, <1>5, <1>7, NoneAssumption, BoundAssumption
  DEF IInv, TypeOK, StreamType, Seen, Used, IsOpen, Items
<1>12. Room'
  BY <1>1, <1>7 DEF IInv, Room, Used, Served, upstream, loop
<1>13. Ending'
  BY <1>5, EndingStep DEF IInv
<1>14. Stream!Next
  BY <1>3, <1>5 DEF Stream!Next
<1> QED
  BY <1>6, <1>9, <1>10, <1>11, <1>12, <1>13, <1>14 DEF IInv

(* closeAllTools closes the call that holds the index next in the list.    *)
LEMMA CallCloses ==
  ASSUME IInv, phase \in {"reading", "ending"}, NEW t \in ToolIndexes, CloseTool(t),
         UNCHANGED <<upstream, loop>>, part # None => part.kind = "text"
  PROVE  IInv' /\ Stream!Next
<1>1. /\ tools[t] # None /\ tools[t] \in Items /\ ~message /\ reasoning = None
      /\ Len(output) \in Nat /\ outputIdx \in 0..MaxParts
      /\ Len(output) <= tools[t] /\ tools[t] < outputIdx
  BY DEF IInv, Indexes, CloseTool, NextToClose, OpenTools, TypeOK
<1>2. tools[t] = Len(output)
  <2>1. Len(output) \in Items /\ Len(output) \in Len(output)..(outputIdx - 1)
    BY <1>1, BoundAssumption DEF Items
  <2>2. PICK u \in ToolIndexes : tools[u] = Len(output)
    BY <2>1 DEF IInv, Indexes
  <2>3. tools[t] <= tools[u]
    BY <2>1, <2>2, NoneAssumption DEF CloseTool, NextToClose, OpenTools
  <2> QED
    BY <1>1, <2>2, <2>3, BoundAssumption DEF Items
<1>3. view[tools[t]] = "open"
  BY <1>1 DEF IInv, Seen, IsOpen
<1>4. /\ view' = [view EXCEPT ![tools[t]] = "closed"] /\ output' = Append(output, tools[t])
      /\ event'.type = "close" /\ Stream!Close(tools[t])
  BY <1>1, <1>3, ClosesItem DEF IInv, CloseTool
<1>5. output' \in Seq(Items) /\ Len(output') = Len(output) + 1 /\ Ordered'
  BY <1>1, <1>2, <1>4, Appends DEF IInv
<1>6. /\ tools' = [tools EXCEPT ![t] = None] /\ reasoning' = reasoning /\ message' = message
      /\ outputIdx' = outputIdx /\ toolsStarted' = toolsStarted
  BY DEF CloseTool
<1>7. TypeOK'
  BY <1>1, <1>4, <1>5, <1>6 DEF IInv, TypeOK, StreamType, upstream, loop
<1>8. /\ tools'[t] = None
      /\ \A u \in ToolIndexes : u # t => tools'[u] = tools[u] /\ tools[u] # tools[t]
  BY <1>1, <1>6 DEF IInv, Indexes, TypeOK
<1>9. Indexes'
  <2>1. reasoning' # None => reasoning' = outputIdx' /\ ~message' /\ toolsStarted' = FALSE
    BY <1>1, <1>6
  <2>2. toolsStarted' = FALSE \/ message' => \A u \in ToolIndexes : tools'[u] = None
    BY <1>6, <1>8 DEF IInv, Indexes
  <2>3. Len(output') <= outputIdx'
    BY <1>1, <1>2, <1>5, <1>6
  <2>4. ASSUME NEW u \in ToolIndexes, tools'[u] # None
        PROVE  Len(output') <= tools'[u] /\ tools'[u] < outputIdx'
    <3>1. u # t /\ tools'[u] = tools[u] /\ tools[u] # Len(output)
      BY <1>2, <1>8, <2>4
    <3>2. tools[u] \in Items /\ Len(output) <= tools[u] /\ tools[u] < outputIdx
      BY <2>4, <3>1 DEF IInv, Indexes, TypeOK
    <3> QED
      BY <1>1, <1>5, <1>6, <3>1, <3>2, BoundAssumption DEF Items
  <2>5. ASSUME NEW i \in Len(output')..(outputIdx' - 1)
        PROVE  \E u \in ToolIndexes : tools'[u] = i
    <3>1. i \in Len(output)..(outputIdx - 1) /\ i # Len(output)
      BY <1>1, <1>5, <1>6
    <3>2. PICK u \in ToolIndexes : tools[u] = i
      BY <3>1 DEF IInv, Indexes
    <3> QED
      BY <1>2, <1>8, <3>1, <3>2
  <2>6. \A u, v \in ToolIndexes : tools'[u] # None /\ tools'[u] = tools'[v] => u = v
    BY <1>8 DEF IInv, Indexes
  <2> QED
    BY <2>1, <2>2, <2>3, <2>4, <2>5, <2>6 DEF Indexes
<1>10. Seen'
  <2>1. Used' = Used
    BY <1>6 DEF Used
  <2>2. ASSUME NEW i \in Items, i # tools[t]
        PROVE  view'[i] = view[i] /\ (IsOpen(i)' <=> IsOpen(i))
    <3>1. view'[i] = view[i]
      BY <1>4, <2>2 DEF IInv, TypeOK, StreamType
    <3>2. (\E u \in ToolIndexes : tools'[u] = i) <=> \E u \in ToolIndexes : tools[u] = i
      BY <1>8, <2>2, NoneAssumption
    <3> QED
      BY <1>6, <3>1, <3>2 DEF IsOpen
  <2>3. ASSUME NEW i \in Items, i = tools[t]
        PROVE  view'[i] = "closed" /\ ~(i >= Used) /\ ~IsOpen(i)'
    <3>1. view'[i] = "closed" /\ ~(i >= Used)
      BY <1>1, <1>4, <2>3, BoundAssumption DEF IInv, TypeOK, StreamType, Used, Items
    <3>2. \A u \in ToolIndexes : tools'[u] # i
      BY <1>8, <2>3, NoneAssumption
    <3> QED
      BY <1>1, <1>6, <2>3, <3>1, <3>2, NoneAssumption DEF IsOpen
  <2>4. \A i \in Items : i # tools[t]
           => (view'[i] = "absent" <=> i >= Used) /\ (view'[i] = "open" <=> IsOpen(i)')
    BY <2>2 DEF IInv, Seen
  <2>5. \A i \in Items : i = tools[t]
           => (view'[i] = "absent" <=> i >= Used) /\ (view'[i] = "open" <=> IsOpen(i)')
    BY <2>3
  <2> QED
    BY <2>1, <2>4, <2>5 DEF Seen
<1>11. Room'
  BY <1>1, <1>6 DEF IInv, Room, Used, Served, upstream, loop
<1>12. Ending'
  BY <1>4, EndingStep DEF IInv
<1>13. Stream!Next
  BY <1>1, <1>4 DEF Stream!Next
<1> QED
  BY <1>5, <1>7, <1>9, <1>10, <1>11, <1>12, <1>13 DEF IInv
-----------------------------------------------------------------------------
(* A part that still lacks its item finds an index for it.                 *)
LEMMA RoomLeft ==
  ASSUME IInv, part # None, ~Served, reasoning = None, ~message
  PROVE  outputIdx \in Items /\ outputIdx + 1 <= count
BY BoundAssumption DEF IInv, Room, Used, TypeOK, StreamType, Items

(* emitReasoning opens a reasoning item. *)
LEMMA ReasoningOpens ==
  ASSUME IInv, Handling("reasoning"), reasoning = None, ~message, ~toolsStarted,
         Send("open", outputIdx), reasoning' = outputIdx, UNCHANGED <<upstream, loop>>,
         UNCHANGED <<message, outputIdx, tools, toolsStarted, output>>
  PROVE  IInv' /\ Stream!Next
<1>1. phase \in {"reading", "ending"} /\ part # None /\ part.kind = "reasoning"
  BY DEF Handling
<1>2. outputIdx \in Items /\ outputIdx + 1 <= count
  BY <1>1, RoomLeft DEF Served
<1>3. /\ view' = [view EXCEPT ![outputIdx] = "open"] /\ event'.type = "open"
      /\ Stream!Open(outputIdx)
  BY <1>1, <1>2, OpensItem DEF IInv
<1>4. \A t \in ToolIndexes : tools[t] = None
  BY DEF IInv, Indexes, TypeOK
<1>5. TypeOK'
  BY <1>2, <1>3 DEF IInv, TypeOK, StreamType, upstream, loop
<1>6. Indexes'
  BY <1>4 DEF IInv, Indexes, TypeOK
<1>7. Seen'
  BY <1>2, <1>3, <1>4, NoneAssumption, BoundAssumption
  DEF IInv, TypeOK, StreamType, Seen, Used, IsOpen, Items
<1>8. Room'
  BY <1>1, <1>2, NoneAssumption DEF IInv, Room, Used, Served, upstream, loop
<1>9. Ending' /\ Ordered'
  BY <1>1, <1>3, EndingStep DEF IInv, Ordered
<1>10. Stream!Next
  BY <1>2, <1>3 DEF Stream!Next
<1> QED
  BY <1>5, <1>6, <1>7, <1>8, <1>9, <1>10 DEF IInv

(* emitText opens a message item. *)
LEMMA MessageOpens ==
  ASSUME IInv, Handling("text"), MessageMayOpen, ~message,
         Send("open", outputIdx), message' = TRUE, UNCHANGED <<upstream, loop>>,
         UNCHANGED <<reasoning, outputIdx, tools, toolsStarted, output>>
  PROVE  IInv' /\ Stream!Next
<1>1. /\ phase \in {"reading", "ending"} /\ part # None /\ part.kind = "text"
      /\ reasoning = None /\ \A t \in ToolIndexes : tools[t] = None
  BY DEF Handling, MessageMayOpen, OpenTools
<1>2. outputIdx \in Items /\ outputIdx + 1 <= count
  BY <1>1, RoomLeft DEF Served
<1>3. /\ view' = [view EXCEPT ![outputIdx] = "open"] /\ event'.type = "open"
      /\ Stream!Open(outputIdx)
  BY <1>1, <1>2, OpensItem DEF IInv
<1>4. TypeOK'
  BY <1>2, <1>3 DEF IInv, TypeOK, StreamType, upstream, loop
<1>5. Indexes'
  BY <1>1 DEF IInv, Indexes, TypeOK
<1>6. Seen'
  BY <1>1, <1>2, <1>3, NoneAssumption, BoundAssumption
  DEF IInv, TypeOK, StreamType, Seen, Used, IsOpen, Items
<1>7. Room'
  BY <1>1, <1>2 DEF IInv, Room, Used, Served, upstream, loop
<1>8. Ending' /\ Ordered'
  BY <1>1, <1>3, EndingStep DEF IInv, Ordered
<1>9. Stream!Next
  BY <1>2, <1>3 DEF Stream!Next
<1> QED
  BY <1>4, <1>5, <1>6, <1>7, <1>8, <1>9 DEF IInv

LEMMA ToolPart ==
  ASSUME TypeOK, part # None, part.kind = "tool"
  PROVE  part.index \in ToolIndexes
BY DEF TypeOK, StreamType, Parts

(* emitToolCalls opens a call and takes its index at once. *)
LEMMA CallOpens ==
  ASSUME IInv, Handling("tool"), tools[part.index] = None, ToolMayOpen,
         Send("open", outputIdx), outputIdx' = outputIdx + 1,
         tools' = [tools EXCEPT ![part.index] = outputIdx], toolsStarted' = TRUE,
         UNCHANGED <<reasoning, message, output>>, UNCHANGED <<upstream, loop>>
  PROVE  IInv' /\ Stream!Next
<1>1. /\ phase \in {"reading", "ending"} /\ part # None /\ part.kind = "tool"
      /\ reasoning = None /\ ~message /\ outputIdx \in 0..MaxParts
      /\ part.index \in ToolIndexes /\ Len(output) \in Nat
  BY ToolPart DEF Handling, ToolMayOpen, IInv, TypeOK
<1>2. outputIdx \in Items /\ outputIdx + 1 <= count
  BY <1>1, RoomLeft DEF Served
<1>3. /\ view' = [view EXCEPT ![outputIdx] = "open"] /\ event'.type = "open"
      /\ Stream!Open(outputIdx)
  BY <1>1, <1>2, OpensItem DEF IInv
<1>4. outputIdx + 1 \in 0..MaxParts
  BY <1>2, BoundAssumption DEF Items
<1>5. TypeOK'
  BY <1>1, <1>2, <1>3, <1>4 DEF IInv, TypeOK, StreamType, upstream, loop
<1>6. /\ tools'[part.index] = outputIdx
      /\ \A u \in ToolIndexes : u # part.index => tools'[u] = tools[u]
  BY <1>1 DEF IInv, TypeOK
<1>7. \A u \in ToolIndexes : tools[u] # outputIdx
  BY <1>1, <1>2, NoneAssumption DEF IInv, Indexes
<1>8. Indexes'
  <2>1. \A u \in ToolIndexes : tools'[u] # None
          => Len(output) <= tools'[u] /\ tools'[u] < outputIdx + 1
    <3> SUFFICES ASSUME NEW u \in ToolIndexes, tools'[u] # None
                 PROVE  Len(output) <= tools'[u] /\ tools'[u] < outputIdx + 1
      OBVIOUS
    <3>1. CASE u = part.index
      BY <1>1, <1>6, <3>1 DEF IInv, Indexes
    <3>2. CASE u # part.index
      <4>1. tools[u] \in Items /\ Len(output) <= tools[u] /\ tools[u] < outputIdx
        BY <1>6, <3>2 DEF IInv, Indexes, TypeOK
      <4> QED
        BY <1>1, <1>6, <3>2, <4>1 DEF Items
    <3> QED
      BY <3>1, <3>2
  <2>2. ASSUME NEW i \in Len(output)..outputIdx PROVE \E u \in ToolIndexes : tools'[u] = i
    <3>1. CASE i = outputIdx
      BY <1>1, <1>6, <3>1
    <3>2. CASE i # outputIdx
      <4>1. i \in Len(output)..(outputIdx - 1) /\ i \in Items
        BY <1>1, <1>2, <3>2, BoundAssumption DEF Items
      <4>2. PICK u \in ToolIndexes : tools[u] = i
        BY <4>1 DEF IInv, Indexes
      <4> QED
        BY <1>6, <1>1, <4>1, <4>2, NoneAssumption
    <3> QED
      BY <3>1, <3>2
  <2>3. \A u, v \in ToolIndexes : tools'[u] # None /\ tools'[u] = tools'[v] => u = v
    BY <1>6, <1>7 DEF IInv, Indexes
  <2> QED
    BY <1>1, <1>4, <2>1, <2>2, <2>3 DEF IInv, Indexes
<1>9. Seen'
  <2>1. Used = outputIdx /\ Used' = outputIdx + 1
    BY <1>1 DEF Used
  <2>2. ASSUME NEW i \in Items, i # outputIdx
        PROVE  (view'[i] = "absent" <=> i >= Used') /\ (view'[i] = "open" <=> IsOpen(i)')
    <3>1. view'[i] = view[i] /\ (i >= Used <=> i >= Used')
      BY <1>1, <1>3, <2>1, <2>2 DEF IInv, TypeOK, StreamType, Items
    <3>2. (\E u \in ToolIndexes : tools'[u] = i) <=> \E u \in ToolIndexes : tools[u] = i
      BY <1>1, <1>6, <2>2, NoneAssumption
    <3>3. IsOpen(i)' <=> IsOpen(i)
      BY <1>1, <3>2 DEF IsOpen
    <3> QED
      BY <3>1, <3>3 DEF IInv, Seen
  <2>3. ASSUME NEW i \in Items, i = outputIdx
        PROVE  (view'[i] = "absent" <=> i >= Used') /\ (view'[i] = "open" <=> IsOpen(i)')
    <3>1. view'[i] = "open" /\ ~(i >= Used')
      BY <1>2, <1>3, <2>1, <2>3 DEF IInv, TypeOK, StreamType, Items
    <3>2. IsOpen(i)'
      BY <1>1, <1>6, <2>3 DEF IsOpen
    <3> QED
      BY <3>1, <3>2
  <2> QED
    BY <2>2, <2>3 DEF Seen
<1>10. Room'
  <2>1. Used' = outputIdx + 1 /\ Served'
    <3>1. part' = part
      BY DEF upstream
    <3>2. tools'[part'.index] # None
      BY <1>2, <1>6, <3>1, NoneAssumption
    <3> QED
      BY <1>1, <3>1, <3>2 DEF Used, Served
  <2> QED
    BY <1>1, <1>2, <2>1 DEF IInv, Room, upstream, loop
<1>11. Ending' /\ Ordered'
  BY <1>1, <1>3, EndingStep DEF IInv, Ordered
<1>12. Stream!Next
  BY <1>2, <1>3 DEF Stream!Next
<1> QED
  BY <1>5, <1>8, <1>9, <1>10, <1>11, <1>12 DEF IInv
-----------------------------------------------------------------------------
(* A part that opens and closes nothing is dealt with.                     *)
LEMMA TakenStep ==
  ASSUME IInv, phase = "reading", Taken, UNCHANGED <<items, loop>>, view' = view,
         event' = event \/ event'.type = "delta"
  PROVE  IInv'
<1>1. TypeOK'
  BY DEF IInv, TypeOK, StreamType, Taken, items, loop
<1>2. Indexes' /\ Ordered'
  BY DEF IInv, Indexes, Ordered, items
<1>3. Seen'
  BY DEF IInv, Seen, Used, IsOpen, items
<1>4. Room'
  BY DEF IInv, Room, Used, Taken, items, loop
<1>5. Ending'
  BY DEF IInv, Ending, Stream!Running, Stream!Ends, items, loop
<1> QED
  BY <1>1, <1>2, <1>3, <1>4, <1>5 DEF IInv

(* A delta of an open item. *)
LEMMA DeltaStep ==
  ASSUME IInv, phase = "reading", NEW i \in Items, IsOpen(i), Send("delta", i),
         Taken, UNCHANGED <<items, loop>>
  PROVE  IInv' /\ Stream!Next
<1>1. view[i] = "open"
  BY DEF IInv, Seen
<1>2. view' = view /\ event'.type = "delta" /\ Stream!Delta(i)
  BY <1>1, DeltaOfItem DEF IInv
<1> QED
  BY <1>2, TakenStep DEF Stream!Next

(* Reading, and the verdicts at the two ends of the stream. *)
LEMMA OuterStep ==
  ASSUME IInv, Outer, UNCHANGED items
  PROVE  IInv' /\ (Stream!Next \/ UNCHANGED client)
<1> USE DEF upstream, client, loop, items
<1>1. Indexes' /\ Ordered'
  BY DEF IInv, Indexes, Ordered
<1>2. view' = view /\ Seen'
  BY DEF IInv, Seen, Used, IsOpen, Outer, Reject, Accept, ReadPart, ReadReason, ReadError,
     ReadLimit, ReadEOF, ReadBreaks, ClientLeaves, Announce
<1>3. CASE Reject
  <2>1. TypeOK' /\ Room' /\ Ending'
    BY <1>3 DEF Reject, Announce, IInv, TypeOK, StreamType, Room, Used, Served, Ending,
       Stream!Running, Stream!Ends
  <2>2. Stream!Rejected
    BY <1>3 DEF Reject, Announce, IInv, Ending, Stream!Rejected
  <2> QED
    BY <1>1, <1>2, <2>1, <2>2 DEF IInv, Stream!Next
<1>4. CASE Accept
  <2>1. TypeOK' /\ Room' /\ Ending'
    BY <1>4 DEF Accept, Announce, IInv, TypeOK, StreamType, Room, Used, Served, Ending,
       Stream!Running, Stream!Ends
  <2>2. Stream!Created
    BY <1>4 DEF Accept, Announce, IInv, Ending, Stream!Created
  <2> QED
    BY <1>1, <1>2, <2>1, <2>2 DEF IInv, Stream!Next
<1>5. CASE ReadPart
  <2>1. part' \in Parts /\ count \in 0..MaxParts /\ count' = count + 1 /\ count < MaxParts
    BY <1>5 DEF ReadPart, IInv, TypeOK, StreamType
  <2>2. count' \in 0..MaxParts
    BY <2>1, BoundAssumption
  <2>3. TypeOK' /\ Ending'
    BY <1>5, <2>1, <2>2 DEF ReadPart, IInv, TypeOK, StreamType, Ending, Stream!Running, Stream!Ends
  <2>4. Used' = Used /\ Used \in Int /\ Used <= count
    BY DEF Used, IInv, TypeOK, Room
  <2>5. Room'
    BY <1>5, <2>1, <2>4 DEF ReadPart, Room
  <2> QED
    BY <1>1, <1>2, <1>5, <2>3, <2>5 DEF IInv, ReadPart
<1>6. CASE ReadReason \/ ReadLimit
  <2>1. TypeOK' /\ Room' /\ Ending'
    BY <1>6 DEF ReadReason, ReadLimit, IInv, TypeOK, StreamType, Room, Used, Served, Ending,
       Stream!Running, Stream!Ends
  <2> QED
    BY <1>1, <1>2, <1>6, <2>1 DEF IInv, ReadReason, ReadLimit
<1>7. CASE ReadError \/ ReadEOF \/ ReadBreaks(BreakEnd)
  <2>1. TypeOK' /\ Room' /\ Ending'
    BY <1>7 DEF ReadError, ReadEOF, ReadBreaks, BreakEnd, EndsAs, IInv, TypeOK, StreamType, Room,
       Used, Served, Ending, Stream!Running, Stream!Ends
  <2> QED
    BY <1>1, <1>2, <1>7, <2>1 DEF IInv, ReadError, ReadEOF, ReadBreaks
<1>8. CASE ClientLeaves
  <2>1. TypeOK' /\ Room' /\ Ending'
    BY <1>8 DEF ClientLeaves, IInv, TypeOK, StreamType, Room, Used, Served, Ending,
       Stream!Running, Stream!Ends
  <2> QED
    BY <1>1, <1>2, <1>8, <2>1 DEF IInv, ClientLeaves
<1> QED
  BY <1>3, <1>4, <1>5, <1>6, <1>7, <1>8 DEF Outer

(* The last event finds everything closed. *)
LEMMA FinishStep ==
  ASSUME IInv, Finish
  PROVE  IInv' /\ Stream!Next
<1> USE DEF upstream, items
<1>1. /\ phase = "ending" /\ reasoning = None /\ ~message
      /\ \A t \in ToolIndexes : tools[t] = None
      /\ Terminal \in Stream!Ends /\ event' = [type |-> Terminal] /\ view' = view
  BY DEF Finish, AllClosed, OpenTools, Announce, Terminal, Stream!Ends, IInv, TypeOK, StreamType
<1>2. Len(output) = outputIdx /\ outputIdx \in 0..MaxParts
  BY <1>1, ListIsFull DEF IInv, TypeOK
<1>3. \A i \in Items : view[i] # "open" /\ (view[i] # "absent" => i < Len(output))
  BY <1>1, <1>2, NoneAssumption DEF IInv, Seen, IsOpen, Used, Items
<1>4. Indexes' /\ Ordered' /\ Seen' /\ TypeOK' /\ Room'
  BY <1>1 DEF Finish, IInv, Indexes, Ordered, Seen, Used, IsOpen, TypeOK, StreamType, Room, Served
<1>5. Ending'
  <2>1. Terminal \in {"completed", "incomplete"} => how = "completed"
    BY DEF Terminal, IInv, TypeOK, StreamType
  <2>2. event'.type = Terminal /\ phase' = "done" /\ UNCHANGED <<how, failure, output>>
    BY <1>1 DEF Finish
  <2> QED
    BY <1>1, <1>3, <2>1, <2>2 DEF IInv, Ending, Stream!Ends
<1>6. Stream!End
  BY <1>1, <1>3 DEF IInv, Ending, Stream!End
<1> QED
  BY <1>4, <1>5, <1>6 DEF IInv, Stream!Next

(* IInv holds in every step, and the step is one of ItemStream's.          *)
LEMMA StreamStep ==
  ASSUME IInv, [Next]_vars
  PROVE  IInv' /\ [Stream!Next]_<<view, event>>
<1>1. CASE Outer /\ UNCHANGED items
  BY <1>1, OuterStep DEF client
<1>2. CASE EmitReasoning
  <2>1. phase = "reading" /\ part # None /\ part.kind = "reasoning"
    BY <1>2 DEF EmitReasoning, Handling
  <2>2. CASE reasoning # None
    <3>1. reasoning \in Items /\ IsOpen(reasoning)
      BY <2>2 DEF IInv, TypeOK, IsOpen
    <3> QED
      BY <1>2, <2>1, <2>2, <3>1, DeltaStep DEF EmitReasoning
  <2>3. CASE reasoning = None /\ toolsStarted
    BY <1>2, <2>1, <2>3, TakenStep DEF EmitReasoning, client
  <2>4. CASE reasoning = None /\ ~toolsStarted /\ CloseMessage
    BY <1>2, <2>1, <2>4, MessageCloses DEF EmitReasoning
  <2>5. CASE reasoning = None /\ ~toolsStarted /\ ~CloseMessage
    BY <1>2, <2>5, ReasoningOpens DEF EmitReasoning
  <2> QED
    BY <2>2, <2>3, <2>4, <2>5
<1>3. CASE EmitText
  <2>1. phase = "reading" /\ part # None /\ part.kind = "text" /\ UNCHANGED loop
    BY <1>3 DEF EmitText, Handling
  <2>2. CASE CloseReasoning /\ UNCHANGED upstream
    BY <2>1, <2>2, ReasoningCloses
  <2>3. CASE UNCHANGED upstream /\ \E t \in OpenTools : CloseTool(t)
    BY <2>1, <2>3, CallCloses DEF OpenTools
  <2>4. CASE /\ MessageMayOpen /\ ~message
             /\ Send("open", outputIdx) /\ message' = TRUE
             /\ UNCHANGED <<upstream, reasoning, outputIdx, tools, toolsStarted, output>>
    BY <1>3, <2>1, <2>4, MessageOpens DEF EmitText
  <2>5. CASE MessageMayOpen /\ message /\ Send("delta", outputIdx) /\ Taken /\ UNCHANGED items
    <3>1. outputIdx \in Items /\ IsOpen(outputIdx)
      BY <2>5, BoundAssumption DEF IInv, Room, Used, TypeOK, StreamType, Items, IsOpen
    <3> QED
      BY <2>1, <2>5, <3>1, DeltaStep
  <2> QED
    BY <1>3, <2>2, <2>3, <2>4, <2>5 DEF EmitText
<1>4. CASE NewTool
  <2>1. phase = "reading" /\ part # None /\ part.kind = "tool"
    BY <1>4 DEF NewTool, Handling
  <2>2. CASE CloseReasoning
    BY <1>4, <2>1, <2>2, ReasoningCloses DEF NewTool
  <2>3. CASE CloseMessage
    BY <1>4, <2>1, <2>3, MessageCloses DEF NewTool
  <2>4. CASE ~CloseReasoning /\ ~CloseMessage
    BY <1>4, <2>4, CallOpens DEF NewTool
  <2> QED
    BY <2>2, <2>3, <2>4
<1>5. CASE KnownTool
  <2>1. phase = "reading" /\ part.index \in ToolIndexes /\ tools[part.index] # None
    BY <1>5, ToolPart DEF KnownTool, Handling, IInv
  <2>2. tools[part.index] \in Items /\ IsOpen(tools[part.index])
    BY <2>1 DEF IInv, TypeOK, IsOpen
  <2>3. CASE part.args
    BY <1>5, <2>1, <2>2, <2>3, DeltaStep DEF KnownTool
  <2>4. CASE ~part.args
    BY <1>5, <2>1, <2>4, TakenStep DEF KnownTool, client
  <2> QED
    BY <2>3, <2>4
<1>6. CASE Close
  <2>1. phase = "ending" /\ part = None /\ UNCHANGED <<upstream, loop>>
    BY <1>6 DEF Close, IInv, Room
  <2>2. CASE CloseReasoning
    BY <2>1, <2>2, ReasoningCloses
  <2>3. CASE CloseMessage
    BY <2>1, <2>3, MessageCloses
  <2>4. CASE \E t \in OpenTools : CloseTool(t)
    BY <2>1, <2>4, CallCloses DEF OpenTools
  <2> QED
    BY <1>6, <2>2, <2>3, <2>4 DEF Close
<1>7. CASE Finish
  BY <1>7, FinishStep
<1>8. CASE UNCHANGED vars
  <2>1. UNCHANGED <<upstream, client, loop, items>>
    BY <1>8 DEF vars
  <2>2. IInv'
    BY <2>1 DEF upstream, client, loop, items, IInv, TypeOK, StreamType, Indexes, Seen, Used,
       IsOpen, Room, Served, Ordered, Ending, Stream!Running, Stream!Ends
  <2> QED
    BY <2>1, <2>2 DEF client
<1> QED
  BY <1>1, <1>2, <1>3, <1>4, <1>5, <1>6, <1>7, <1>8 DEF Next
-----------------------------------------------------------------------------
LEMMA StreamInitially == Init => IInv /\ Stream!Init
<1> SUFFICES ASSUME Init PROVE IInv /\ Stream!Init
  OBVIOUS
<1>1. Len(output) = 0 /\ output \in Seq(Items) /\ outputIdx = 0
  BY DEF Init
<1>2. Ordered /\ Indexes
  BY <1>1 DEF Init, Indexes, Ordered
<1>3. StreamType
  BY BoundAssumption DEF Init, StreamInit, StreamType, Reasons
<1>4. TypeOK
  <2>1. reasoning \in Items \cup {None} /\ message \in BOOLEAN /\ toolsStarted \in BOOLEAN
    BY Zenon DEF Init
  <2>2. outputIdx \in 0..MaxParts
    BY <1>1, BoundAssumption
  <2>3. tools \in [ToolIndexes -> Items \cup {None}]
    BY DEF Init
  <2> QED
    BY <1>1, <1>3, <2>1, <2>2, <2>3 DEF TypeOK
<1>5. Seen /\ Room
  BY BoundAssumption, NoneAssumption
  DEF Init, StreamInit, Seen, Used, IsOpen, Room, Served, Items
<1>6. Ending /\ Stream!Init
  BY DEF Init, StreamInit, Ending, Stream!Ends, Stream!Running, Stream!Init, Stream!Fresh
<1> QED
  BY <1>2, <1>4, <1>5, <1>6 DEF IInv

(* The invariant of every behaviour. *)
THEOREM Inductive == Spec => []IInv
BY StreamInitially, StreamStep, PTL DEF Spec

(* Every variable keeps its type; in particular no index runs out.         *)
THEOREM TypeCorrect == Spec => []TypeOK
BY Inductive, PTL DEF IInv

(* The final output list is complete and in the order of the indexes.      *)
THEOREM OutputCorrect == Spec => []OutputInOrder
<1>1. IInv => OutputInOrder
  BY DEF IInv, Ordered, Ending, OutputInOrder, Stream!Ends
<1> QED
  BY <1>1, Inductive, PTL

(* The calls that are open and the items the client sees open are as many, *)
(* when neither a reasoning nor a message item is open.                    *)
LEMMA CallsAreItems ==
  ASSUME IInv, reasoning = None, ~message
  PROVE  /\ Cardinality({i \in Items : view[i] = "open"}) = Cardinality(OpenTools)
         /\ Cardinality(OpenTools) \in Nat
<1> DEFINE seen == {i \in Items : view[i] = "open"}
           f == [t \in OpenTools |-> tools[t]]
<1>1. IsFiniteSet(seen)
  <2>1. IsFiniteSet(Items)
    BY BoundAssumption, FS_Interval DEF Items
  <2> QED
    BY <2>1, FS_Subset
<1>2. ASSUME NEW t \in OpenTools PROVE tools[t] \in seen
  BY DEF IInv, Seen, IsOpen, TypeOK, OpenTools
<1>3. ASSUME NEW i \in seen PROVE \E t \in OpenTools : tools[t] = i
  BY NoneAssumption DEF IInv, Seen, IsOpen, OpenTools
<1>4. \A t, u \in OpenTools : tools[t] = tools[u] => t = u
  BY DEF IInv, Indexes, OpenTools
<1> HIDE DEF seen
<1>5. f \in [OpenTools -> seen] /\ (\A t, u \in OpenTools : f[t] = f[u] => t = u)
      /\ (\A i \in seen : \E t \in OpenTools : f[t] = i)
  BY <1>2, <1>3, <1>4
<1>6. ExistsBijection(OpenTools, seen)
  <2> HIDE DEF f
  <2>1. f \in Bijection(OpenTools, seen)
    BY <1>5, Fun_IsBij
  <2> QED
    BY <2>1, Fun_ExistsBij
<1>7. Cardinality(OpenTools) = Cardinality(seen) /\ Cardinality(seen) \in Nat
  BY <1>1, <1>6, Fun_ExistsBijSymmetric, FS_Bijection, FS_CardinalityType
<1> QED
  BY <1>7 DEF seen

(* "output_index stays exclusive", for any number of interleaved calls: no *)
(* two open items share an index, and a reasoning or message item is open  *)
(* alone.                                                                  *)
THEOREM ExclusiveCorrect == Spec => []Exclusive
<1>1. ASSUME IInv PROVE Exclusive
  <2> DEFINE seen == {i \in Items : view[i] = "open"}
  <2>1. CASE reasoning # None \/ message
    <3>1. /\ OpenTools = {} /\ ~(reasoning # None /\ message)
          /\ reasoning # None => reasoning = outputIdx
          /\ outputIdx \in Items
      BY <1>1, <2>1, BoundAssumption
      DEF IInv, Indexes, OpenTools, TypeOK, StreamType, Room, Used, Items
    <3>2. seen = {outputIdx}
      BY <1>1, <2>1, <3>1, NoneAssumption DEF IInv, Seen, IsOpen, OpenTools
    <3> QED
      BY <2>1, <3>1, <3>2, FS_Singleton, FS_EmptySet DEF Exclusive
  <2>2. CASE reasoning = None /\ ~message
    <3>1. Cardinality(seen) = Cardinality(OpenTools) /\ Cardinality(OpenTools) \in Nat
      BY <1>1, <2>2, CallsAreItems
    <3> QED
      BY <2>2, <3>1 DEF Exclusive
  <2> QED
    BY <2>1, <2>2
<1> QED
  BY <1>1, Inductive, PTL

(* A stream that failed is not closed as completed or incomplete.          *)
THEOREM FailureReported == Spec => []NeverFakeCompleted
<1>1. IInv => NeverFakeCompleted
  BY DEF IInv, Ending, NeverFakeCompleted
<1> QED
  BY <1>1, Inductive, PTL

(* The translated stream is an ItemStream: items are opened in order, get  *)
(* deltas only while they are open, are closed once, and the stream ends   *)
(* with none open.                                                         *)
THEOREM Refinement == Spec => Implements
<1>1. Init => Stream!Init
  BY StreamInitially
<1>2. IInv /\ [Next]_vars => [Stream!Next]_Stream!vars
  BY StreamStep DEF Stream!vars
<1> QED
  BY <1>1, <1>2, Inductive, PTL DEF Spec, Implements, Stream!Spec
-----------------------------------------------------------------------------
(***************************************************************************)
(* The messages of MCStreams.  A step of it moves one translator, so that  *)
(* the other variables are those of an AnthropicStream.                    *)
(***************************************************************************)
Translated == INSTANCE AnthropicStreamProofs WITH
  phase <- mPhase, part <- mPart, count <- mCount, reason <- mReason,
  how <- mHow, failure <- mFailure, view <- mView, event <- mEvent

LEMMA SameStep == [MCNext]_mcVars => [Translated!Next]_Translated!vars
<1> SUFFICES ASSUME [MCNext]_mcVars PROVE [Translated!Next]_Translated!vars
  OBVIOUS
<1> USE DEF Messages!blocks, Messages!loop, Messages!client, Messages!upstream,
            Translated!blocks, Translated!loop, Translated!client,
            Translated!upstream
<1>1. CASE Messages!Outer /\ UNCHANGED Messages!blocks
  BY <1>1 DEF Translated!Next, Messages!Outer, Messages!Reject, Messages!Accept,
              Messages!ReadPart, Messages!ReadReason, Messages!ReadError,
              Messages!ReadLimit, Messages!ReadEOF, Messages!Breaks,
              Messages!ReadBreaks, Messages!ClientLeaves, Messages!Announce,
              Messages!EndsAs, Messages!Parts, Messages!Reasons, Translated!Outer,
              Translated!Reject, Translated!Accept, Translated!ReadPart,
              Translated!ReadReason, Translated!ReadError, Translated!ReadLimit,
              Translated!ReadEOF, Translated!Breaks, Translated!ReadBreaks,
              Translated!ClientLeaves, Translated!Announce, Translated!EndsAs,
              Translated!Parts, Translated!Reasons
<1>2. CASE Messages!Reasoning
  BY <1>2 DEF Translated!Next, Messages!Reasoning, Messages!Handling, Messages!Send,
              Messages!Taken, Messages!Started, Messages!StopText,
              Translated!Reasoning, Translated!Handling, Translated!Send,
              Translated!Taken, Translated!Started, Translated!StopText
<1>3. CASE Messages!Text
  BY <1>3 DEF Translated!Next, Messages!Text, Messages!Handling, Messages!Send,
              Messages!Taken, Messages!ClearForText, Messages!StopTool,
              Messages!StopThinking, Messages!StartText, Messages!Min,
              Translated!Text, Translated!Handling, Translated!Send,
              Translated!Taken, Translated!ClearForText, Translated!StopTool,
              Translated!StopThinking, Translated!StartText, Translated!Min
<1>4. CASE Messages!NewTool
  BY <1>4 DEF Translated!Next, Messages!NewTool, Messages!Handling, Messages!Send,
              Messages!Started, Messages!ClearForTool, Messages!StopThinking,
              Messages!StopText, Messages!ProseStopped, Translated!NewTool,
              Translated!Handling, Translated!Send, Translated!Started,
              Translated!ClearForTool, Translated!StopThinking, Translated!StopText,
              Translated!ProseStopped
<1>5. CASE Messages!KnownTool
  BY <1>5 DEF Translated!Next, Messages!KnownTool, Messages!Handling, Messages!Send,
              Messages!Started, Messages!Taken, Messages!LateName,
              Translated!KnownTool, Translated!Handling, Translated!Send,
              Translated!Started, Translated!Taken, Translated!LateName
<1>6. CASE Messages!Close
  BY <1>6 DEF Translated!Next, Messages!Close, Messages!StopThinking,
              Messages!StopText, Messages!StopTool, Messages!Send, Messages!Min,
              Translated!Close, Translated!StopThinking, Translated!StopText,
              Translated!StopTool, Translated!Send, Translated!Min
<1>7. CASE Messages!MessageStop
  BY <1>7 DEF Translated!Next, Messages!MessageStop, Messages!AllStopped,
              Messages!Announce, Messages!Terminal, Translated!MessageStop,
              Translated!AllStopped, Translated!Announce, Translated!Terminal
<1>8. CASE UNCHANGED messages
  BY <1>8 DEF messages, Translated!vars
<1> QED
  BY <1>1, <1>2, <1>3, <1>4, <1>5, <1>6, <1>7, <1>8
  DEF MCNext, mcVars, messages, Messages!Next

LEMMA SameSpec == MCSpec => Translated!Spec
<1>1. MCInit => Translated!Init
  BY DEF MCInit, Messages!Init, Translated!Init, Messages!StreamInit, Translated!StreamInit,
         Messages!Items, Translated!Items
<1> QED
  BY <1>1, SameStep, PTL DEF MCSpec, Translated!Spec

(* What the theorems of AnthropicStreamProofs rest on. *)
LEMMA SameAssumptions == Translated!BoundAssumption /\ Translated!NoneAssumption
BY BoundAssumption, NoneAssumption
DEF Translated!BoundAssumption, Translated!NoneAssumption, Translated!Items, Items

(* Messages API: every variable of the translator keeps its type; in       *)
(* particular no content index runs out.                                   *)
THEOREM MessagesTypeCorrect == MCSpec => []MessagesTypeOK
<1>1. Translated!MessagesTypeOK => MessagesTypeOK
  BY DEF MessagesTypeOK, Messages!MessagesTypeOK, Messages!StreamType,
         Messages!Items, Messages!Parts, Messages!Reasons,
         Translated!MessagesTypeOK, Translated!StreamType, Translated!Items,
         Translated!Parts, Translated!Reasons
<1> QED
  BY <1>1, SameSpec, SameAssumptions, Translated!TypeCorrect, PTL

(* Messages API: however thinking, text and calls interleave, the client   *)
(* sees open what streamState holds open, blocks of calls that text has    *)
(* stopped aside.                                                          *)
THEOREM ViewCorrect == MCSpec => []ViewMatches
<1>1. Translated!ViewMatches => ViewMatches
  BY DEF ViewMatches, Messages!ViewMatches, Messages!Revived, Messages!Items,
         Translated!ViewMatches, Translated!Revived, Translated!Items
<1> QED
  BY <1>1, SameSpec, SameAssumptions, Translated!ViewCorrect, PTL

(* Messages API: "tool->text: close the open tool blocks first"; a thinking *)
(* or text block is open alone.                                            *)
THEOREM ProseCorrect == MCSpec => []ProseAlone
<1>1. Translated!ProseAlone => ProseAlone
  BY DEF ProseAlone, Messages!ProseAlone, Messages!Revived, Messages!Items,
         Translated!ProseAlone, Translated!Revived, Translated!Items
<1> QED
  BY <1>1, SameSpec, SameAssumptions, Translated!ProseCorrect, PTL

(* Messages API: whichever of finish and emitErrorAndStop ends a message,  *)
(* every block it has started is stopped and every index below nextBlock   *)
(* was used.                                                               *)
THEOREM EndCorrect == MCSpec => []EndsClosed
<1>1. Translated!EndsClosed => EndsClosed
  BY DEF EndsClosed, Messages!EndsClosed, Messages!Revived, Messages!Items,
         Translated!EndsClosed, Translated!Revived, Translated!Items
<1> QED
  BY <1>1, SameSpec, SameAssumptions, Translated!EndCorrect, PTL
=============================================================================
