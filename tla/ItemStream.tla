----------------------------- MODULE ItemStream -----------------------------
(***************************************************************************)
(* What a client of a translated stream may rely on: content blocks, or    *)
(* output items, are opened in the order of their index, get their deltas  *)
(* while they are open, are closed once, and the stream is ended, once,    *)
(* with everything closed.                                                 *)
(***************************************************************************)
EXTENDS Naturals

CONSTANT Items  \* the indexes 0, 1, ... a stream may use

VARIABLES
  view,  \* what the client knows of each item: "absent", "open" or "closed"
  event  \* the event it got last

vars == <<view, event>>

Ends == {"completed", "incomplete", "failed"}
Fresh == view = [i \in Items |-> "absent"]

Init == Fresh /\ event = [type |-> "none"]

Created == event.type = "none" /\ event' = [type |-> "created"] /\ UNCHANGED view

Rejected == event.type = "none" /\ event' = [type |-> "rejected"] /\ UNCHANGED view

Running == event.type \notin {"none", "rejected"} \cup Ends

Open(i) ==
  /\ Running /\ view[i] = "absent"
  /\ \A j \in Items : j < i => view[j] # "absent"
  /\ view' = [view EXCEPT ![i] = "open"] /\ event' = [type |-> "open", item |-> i]

Delta(i) ==
  /\ Running /\ view[i] = "open"
  /\ event' = [type |-> "delta", item |-> i] /\ UNCHANGED view

Close(i) ==
  /\ Running /\ view[i] = "open"
  /\ view' = [view EXCEPT ![i] = "closed"] /\ event' = [type |-> "close", item |-> i]

End ==
  /\ Running /\ \A i \in Items : view[i] # "open"
  /\ \E end \in Ends : event' = [type |-> end]
  /\ UNCHANGED view

Next == Created \/ Rejected \/ End \/ \E i \in Items : Open(i) \/ Delta(i) \/ Close(i)

Spec == Init /\ [][Next]_vars
=============================================================================
