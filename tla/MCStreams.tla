------------------------------ MODULE MCStreams ------------------------------
(***************************************************************************)
(* Both translators for TLC: ResponsesStream as it is, and the variables   *)
(* of an AnthropicStream beside it.  One behaviour is one stream of one    *)
(* API; the other translator stays in its initial state.                   *)
(***************************************************************************)
EXTENDS ResponsesStream, TLC

VARIABLES
  api,  \* "messages" or "responses"
  mPhase, mPart, mCount, mReason, mHow, mFailure, mView, mEvent,
  thinking, text, next, toolBlock, toolOpen, named

Messages == INSTANCE AnthropicStream WITH
  phase <- mPhase, part <- mPart, count <- mCount, reason <- mReason,
  how <- mHow, failure <- mFailure, view <- mView, event <- mEvent

messages ==
  <<mPhase, mPart, mCount, mReason, mHow, mFailure, mView, mEvent,
    thinking, text, next, toolBlock, toolOpen, named>>

Symmetry == Permutations(ToolIndexes)

MCInit == api \in {"messages", "responses"} /\ Messages!Init /\ Init

MCNext ==
  /\ UNCHANGED api
  /\ \/ api = "messages" /\ Messages!Next /\ UNCHANGED vars
     \/ api = "responses" /\ Next /\ UNCHANGED messages

mcVars == <<api, vars, messages>>
MCSpec == MCInit /\ [][MCNext]_mcVars

(* Messages API: every variable keeps its type. *)
MessagesTypeOK == Messages!MessagesTypeOK

(* Messages API: what streamState holds open is what the client sees open. *)
ViewMatches == Messages!ViewMatches

(* Messages API: a thinking or text block is open alone. *)
ProseAlone == Messages!ProseAlone

(* Messages API: a message ends with every block closed. *)
EndsClosed == Messages!EndsClosed

(* Both APIs: "Mid-stream OpenAI error: terminate with response.failed     *)
(* (not completed)", and "stop without fake success"; a rate limit error   *)
(* is one too.                                                             *)
LimitIsNotSuccess ==
  /\ failure = "limit" => event.type \notin {"completed", "incomplete"}
  /\ mFailure = "limit" => mEvent.type \notin {"completed", "incomplete"}
=============================================================================
