------------------------------ MODULE ModelCall ------------------------------
(***************************************************************************)
(* One call of the gateway's text model                                    *)
(* (src/src/adapters/gateway-courseware-model.ts): what may come back, how *)
(* it is read, and what the caller is told.  Three protocols carry the     *)
(* answer, each as a stream of server-sent events that the model, or the   *)
(* gateway, or the connection may break off at any point; a call may       *)
(* insist on the stream (requireResponsesSse, chain 4).                    *)
(*                                                                         *)
(* No state: a call is made and answered within one step of its caller     *)
(* (module PlanningStages).  Prompts, schemas, metrics, token usage and    *)
(* the size limits are left out; an answer has a head and a tail, and is   *)
(* JSON only as a whole.                                                   *)
(***************************************************************************)
EXTENDS Naturals, SequencesExt

Protocols == {"RESPONSES_JSON_SCHEMA", "RESPONSES_FUNCTION", "CHAT_LEGACY"}

Whole == <<"head", "tail">>
Event(type, text) == [type |-> type, text |-> text]
Delta(part) == Event("delta", <<part>>)
Parts == <<Delta("head"), Delta("tail")>>

\* What the gateway sends.  done carries the whole text, or nothing; a gateway that
\* changed its upstream in the middle repeats what it sent; a model that reached its
\* limit stops with an incomplete answer.
Streams(protocol) ==
  IF protocol = "CHAT_LEGACY"
  THEN {Parts \o <<Event("finish", <<>>), Event("DONE", <<>>)>>,
        <<Delta("head")>> \o Parts \o <<Event("finish", <<>>)>>,
        <<Delta("head"), Event("finish", <<>>), Event("DONE", <<>>)>>}
  ELSE LET named == IF protocol = "RESPONSES_FUNCTION" THEN <<Event("added", <<>>)>> ELSE <<>>
           Done(text) == <<Event("done", text), Event("completed", <<>>)>>
       IN {named \o Parts \o Done(Whole), named \o Parts \o Done(<<>>), named \o Done(Whole),
           Parts \o Done(Whole),
           named \o <<Delta("head")>> \o Parts \o Done(Whole),
           named \o <<Delta("head"), Event("incomplete", <<>>)>>}

\* What comes back: nothing, a refusal, a body that is not a stream, or the beginning
\* of a stream, after which the connection is closed, closed within an event (TORN) or
\* broken, or nothing more comes (SILENT).
Reply(kind) == [kind |-> kind, status |-> 200, wrapped |-> "NO", events |-> <<>>, end |-> "CLOSED"]
Refusals ==
  {[Reply("REFUSED") EXCEPT !.status = status, !.wrapped = wrapped] :
     status \in {400, 401, 403, 404, 408, 422, 429, 500, 504},
     wrapped \in {"NO", "SAME_STATUS", "OTHER_STATUS", "RESPONSE_STATUS"}}
Replies(protocol) ==
  {Reply("NOTHING"), [Reply("NOTHING") EXCEPT !.end = "SILENT"], Reply("OTHER_BODY")}
  \cup Refusals
  \cup UNION {{[Reply("STREAM") EXCEPT !.events = SubSeq(s, 1, n), !.end = end] :
                 n \in 0 .. Len(s), end \in {"CLOSED", "TORN", "BROKEN", "SILENT"}} : s \in Streams(protocol)}

Text(events) == FlattenSeq([i \in DOMAIN events |-> events[i].text])
Some(events, type) == SelectSeq(events, LAMBDA e : e.type = type)

\* The stream was closed before the gateway had ended its answer.
CutOff(reply) ==
  /\ reply.kind = "STREAM" /\ reply.end \in {"CLOSED", "TORN"}
  /\ \A type \in {"finish", "DONE", "completed", "incomplete"} : Some(reply.events, type) = <<>>
-------------------------------------------------------------------------------
\* modelConfigurationRejectionCode, requireSuccessfulResponse
ConfigurationError(reply) ==
  /\ reply.status \in {401, 403, 404}
  /\ reply.wrapped \in {"NO", "SAME_STATUS"}
RefusalCode(reply) ==
  CASE ConfigurationError(reply) -> "MODEL_CONFIGURATION"
    [] ~ConfigurationError(reply) /\ reply.status = 429 -> "PROVIDER_RATE_LIMIT"
    [] ~ConfigurationError(reply) /\ reply.status \in {408, 504} -> "PROVIDER_TIMEOUT"
    [] OTHER -> "PROVIDER_UNAVAILABLE"

\* readStream: any end of the choices, and any text.
ReadChat(events) ==
  LET text == Text(Some(events, "delta"))
  IN IF Some(events, "finish") \o Some(events, "DONE") = <<>> \/ text = <<>>
     THEN <<>> ELSE text

\* readResponsesStream, readResponsesTextStream: the call of the tool, or the text, is
\* done, the response is completed, and what was sent in parts agrees with the whole.
\* The parts of a tool call that was not announced belong to nobody.
ReadResponses(protocol, events) ==
  LET mine == protocol = "RESPONSES_JSON_SCHEMA" \/ Some(events, "added") # <<>>
      done == IF mine THEN Some(events, "done") ELSE <<>>
      parts == IF mine THEN Text(Some(events, "delta")) ELSE <<>>
      whole == Text(done)
  IN IF done = <<>> \/ Some(events, "completed") = <<>> THEN <<>>
     ELSE IF whole = <<>> THEN parts
     ELSE IF parts \in {<<>>, whole} THEN whole ELSE <<>>

\* What the caller is told: the text, or an error and whether the request may have been
\* taken without an answer.  sound: the model kept to the schema.
Told(error, submission) == [error |-> error, submission |-> submission]
Parsed(text, sound) ==
  Told(IF text = Whole /\ sound THEN "NONE" ELSE "MODEL_JSON_INVALID", "ACCEPTED")

\* Variant: the error of the stream is told as it is, whoever insists on the stream.
UnreadableAlike(protocol, sse, torn) ==
  Told(IF torn \/ protocol = "RESPONSES_JSON_SCHEMA" THEN "MODEL_JSON_INVALID"
       ELSE "PROVIDER_UNAVAILABLE", "ACCEPTED")

\* throwToolResponseError of a stream without an answer, or with an event that is torn.
Unreadable(protocol, sse, torn) ==
  Told(IF sse THEN "V4_CHAIN4_PROTOCOL_UNSUPPORTED"
       ELSE IF torn \/ protocol = "RESPONSES_JSON_SCHEMA" THEN "MODEL_JSON_INVALID"
       ELSE "PROVIDER_UNAVAILABLE", "ACCEPTED")

ReadStream(protocol, sse, reply, sound) ==
  LET torn == reply.end = "TORN"
      text == IF protocol = "CHAT_LEGACY" THEN ReadChat(reply.events)
                                          ELSE ReadResponses(protocol, reply.events)
  IN IF torn \/ text = <<>> THEN Unreadable(protocol, sse, torn) ELSE Parsed(text, sound)

\* request, requestResponsesJsonSchema, requestResponses, requestChatCompletions
Request(protocol, sse, reply, sound) ==
  CASE reply.kind = "NOTHING" ->
         Told(IF reply.end = "SILENT" THEN "PROVIDER_TIMEOUT" ELSE "PROVIDER_UNAVAILABLE", "UNKNOWN")
    [] reply.kind = "REFUSED" -> Told(RefusalCode(reply), "ACCEPTED")
    [] reply.kind = "OTHER_BODY" ->
         IF sse THEN Told("V4_CHAIN4_PROTOCOL_UNSUPPORTED", "ACCEPTED") ELSE Parsed(Whole, sound)
    [] reply.kind = "STREAM" /\ reply.end = "SILENT" -> Told("PROVIDER_TIMEOUT", "ACCEPTED")
    [] reply.kind = "STREAM" /\ reply.end = "BROKEN" -> Told("PROVIDER_UNAVAILABLE", "ACCEPTED")
    [] OTHER -> ReadStream(protocol, sse, reply, sound)

\* preflightStructuredGeneration of a caller that takes no other protocol.
Preflight(reply, sound) ==
  LET told == Request("RESPONSES_JSON_SCHEMA", TRUE, reply, sound)
  IN IF \/ told.error = "MODEL_JSON_INVALID"
        \/ told.error = "PROVIDER_UNAVAILABLE" /\ reply.status \in {400, 422}
     THEN Told("V4_CHAIN4_PROTOCOL_UNSUPPORTED", told.submission) ELSE told
===============================================================================
