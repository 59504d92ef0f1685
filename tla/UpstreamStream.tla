--------------------------- MODULE UpstreamStream ---------------------------
(***************************************************************************)
(* The half of a translated stream that anthropic.WriteStream and          *)
(* responses.WriteStream share: the first event decides between an HTTP    *)
(* error and a stream, then chat.completion chunks are read until the body *)
(* ends, an error object arrives, or reading fails or idles out.           *)
(*                                                                         *)
(* A chunk's reasoning, content and tool calls are handled in this order,  *)
(* one after the other, so a chunk is modelled by the parts it consists    *)
(* of.  Every step sends the client one event at most; the client may be   *)
(* gone before any of them, which ends the translation.  The two or three  *)
(* events with which the Responses API opens and closes one item are one   *)
(* event here.  Token counts and the texts themselves are left out.        *)
(***************************************************************************)
EXTENDS Integers, FiniteSets, FiniteSetsExt

CONSTANTS
  ToolIndexes,  \* the tool_calls indexes upstream uses
  MaxParts,     \* parts upstream sends at most
  None          \* no part, no item

ASSUME BoundAssumption == MaxParts \in Nat

Items == 0..(MaxParts - 1)  \* no part opens more than one item

ASSUME NoneAssumption == None \notin Items

Parts ==
  [kind : {"reasoning", "text"}]
    \cup [kind : {"tool"}, index : ToolIndexes, named : BOOLEAN, args : BOOLEAN]

(* finish_reason: none yet, stop or tool_calls, length.  content_filter    *)
(* counts as cut in the Responses API and as whole in the Messages API.    *)
Reasons == {"none", "whole", "cut"}

VARIABLES
  phase,   \* "first", "reading", "ending" or "done"
  part,    \* the part being translated
  count,   \* parts read so far
  reason,  \* lastFinishReason
  how,     \* how the stream is to end: "completed" or "failed"
  failure, \* history: how upstream failed, "none" so far
  view,    \* client: each item is "absent", "open" or "closed"
  event    \* client: the event received last

upstream == <<part, count, reason>>
client   == <<view, event>>
loop     == <<phase, how, failure>>

Send(type, i) ==
  /\ event' = [type |-> type, item |-> i]
  /\ view' = [view EXCEPT ![i] = IF type = "open" THEN "open"
                                 ELSE IF type = "close" THEN "closed" ELSE @]

Announce(type) == event' = [type |-> type] /\ UNCHANGED view

StreamInit ==
  /\ phase = "first" /\ part = None /\ count = 0 /\ reason = "none"
  /\ how = "completed" /\ failure = "none"
  /\ view = [i \in Items |-> "absent"] /\ event = [type |-> "none"]

(* An empty body, a rate limit or an error in the first event, a failure   *)
(* before it is whole: a plain HTTP error.                                 *)
Reject ==
  /\ phase = "first"
  /\ Announce("rejected")
  /\ phase' = "done"
  /\ UNCHANGED <<upstream, how, failure>>

(* message_start, or response.created and response.in_progress. *)
Accept ==
  /\ phase = "first"
  /\ Announce("created")
  /\ phase' = "reading"
  /\ UNCHANGED <<upstream, how, failure>>

ReadPart ==
  /\ phase = "reading" /\ part = None /\ count < MaxParts
  /\ part' \in Parts
  /\ count' = count + 1
  /\ UNCHANGED <<reason, loop, client>>

(* The last finish_reason wins; terminal frames wait for the body's end.   *)
ReadReason ==
  /\ phase = "reading" /\ part = None
  /\ reason' \in Reasons \ {"none"}
  /\ UNCHANGED <<part, count, loop, client>>

(* The part is dealt with. *)
Taken == part' = None /\ UNCHANGED <<count, reason>>

EndsAs(end) == phase' = "ending" /\ how' = end

(* The last event: an answer that was cut short is told from a whole one.  *)
Terminal == IF how = "completed" /\ reason = "cut" THEN "incomplete" ELSE how

(* A chunk carries an error object. *)
ReadError ==
  /\ phase = "reading" /\ part = None
  /\ EndsAs("failed") /\ failure' = "error"
  /\ UNCHANGED <<upstream, client>>

(* A chunk carries a rate limit error: ErrorEventMessage does not take it  *)
(* for an error, and without choices it is passed over.                    *)
ReadLimit ==
  /\ phase = "reading" /\ part = None
  /\ failure' = "limit"
  /\ UNCHANGED <<phase, how, upstream, client>>

ReadEOF ==
  /\ phase = "reading" /\ part = None
  /\ EndsAs("completed")
  /\ UNCHANGED <<failure, upstream, client>>

(* A read fails, or IdleReader gives up on a silent upstream; the adapters *)
(* end the stream as they each see fit.                                    *)
ReadBreaks(end) ==
  /\ phase = "reading" /\ part = None
  /\ EndsAs(end) /\ failure' = "broken"
  /\ UNCHANGED <<upstream, client>>

(* A write fails: nothing more reaches the client. *)
ClientLeaves ==
  /\ phase \in {"reading", "ending"}
  /\ phase' = "done"
  /\ UNCHANGED <<how, failure, upstream, client>>

StreamType ==
  /\ phase \in {"first", "reading", "ending", "done"}
  /\ part \in Parts \cup {None} /\ count \in 0..MaxParts /\ reason \in Reasons
  /\ how \in {"completed", "failed"} /\ failure \in {"none", "error", "limit", "broken"}
  /\ view \in [Items -> {"absent", "open", "closed"}]
=============================================================================
