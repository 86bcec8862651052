---------------------------- MODULE OpenRouterWire ----------------------------
(***************************************************************************)
(* The two translations of internal/llm/openrouter.go: from the body of a  *)
(* reply to a response, and from stored content blocks to the messages of  *)
(* a request.  A body is                                                   *)
(*                                                                         *)
(*   [json : BOOLEAN, error : an error, choices : Seq(choice)]             *)
(*   choice = [error, text, refusal, calls : Seq([id, args]), reason,      *)
(*             details : BOOLEAN]                                          *)
(*                                                                         *)
(* where an error is NoError or its code (NoCode: it has none).  Arguments *)
(* are "" (absent, null or empty), "garbage" (not JSON) or a JSON value.   *)
(* The system message and the tool definitions are passed through and left *)
(* out.                                                                    *)
(***************************************************************************)
EXTENDS LLM, SequencesExt

NoError == -1
NoCode  == 0

RetryableStatus(status) == status \in {408, 429} \/ status >= 500

\* The code of an error inside a successful reply.
EmbeddedStatus(body) ==
    CASE ~body.json                                   -> NoCode
      [] body.json /\ body.error # NoError            -> body.error
      [] body.json /\ body.error = NoError /\ body.choices # <<>>
         /\ body.choices[1].error # NoError           -> body.choices[1].error
      [] OTHER                                        -> NoCode

\* What decodeResponse accepts.
Decodable(body) ==
    /\ body.json
    /\ body.error = NoError
    /\ body.choices # <<>>
    /\ body.choices[1].error = NoError
    /\ \A i \in DOMAIN body.choices[1].calls : body.choices[1].calls[i].args # "garbage"

NormalizeStopReason(reason) ==
    CASE reason = "stop"                           -> "end_turn"
      [] reason = "length"                         -> "max_tokens"
      [] reason \in {"content_filter", "refusal"}  -> "refusal"
      [] OTHER                                     -> reason

\* Mutant: the finish reason decides, whatever the message holds.
ReasonDecides(choice) ==
    IF choice.refusal THEN "refusal" ELSE NormalizeStopReason(choice.reason)

StopReason(choice) ==
    CASE choice.calls # <<>>                    -> "tool_use"
      [] choice.calls = <<>> /\ choice.refusal  -> "refusal"
      [] OTHER                                  -> NormalizeStopReason(choice.reason)

ToolArguments(args) == IF args = "" THEN "{}" ELSE args

Optional(condition, block) == IF condition THEN <<block>> ELSE <<>>

\* decodeResponse of a decodable body.  What a refusal says has no block: the
\* code asks only whether it is empty.
Decode(body) ==
    LET choice == body.choices[1]
        Use(c) == [type |-> "tool_use", id |-> c.id, input |-> ToolArguments(c.args)]
    IN  [stop    |-> StopReason(choice),
         content |-> Optional(choice.text # "", [type |-> "text", text |-> choice.text])
                     \o [i \in DOMAIN choice.calls |-> Use(choice.calls[i])]
                     \o Optional(choice.details, [type |-> "provider_metadata"])]

-----------------------------------------------------------------------------
\* A message of a request.  `text' lists the texts joined by line feeds; an
\* empty list is no content at all.
WireMessage(role, text, calls, details, callId) ==
    [role |-> role, text |-> text, calls |-> calls, details |-> details, callId |-> callId]

Texts(content) ==
    LET texts == Kept(content, "type", {"text"})
    IN  [i \in DOMAIN texts |-> texts[i].text]

Calls(content) ==
    LET uses == ToolUses(content)
    IN  [i \in DOMAIN uses |-> [id |-> uses[i].id, args |-> ToolArguments(uses[i].input)]]

AssistantMessage(content) ==
    WireMessage("assistant", Texts(content), Calls(content),
                \E i \in DOMAIN content : content[i].type = "provider_metadata", "")

IsEmpty(m) == m.text = <<>> /\ m.calls = <<>> /\ ~m.details

FlushText(acc) ==
    acc.out \o Optional(acc.texts # <<>>, WireMessage("user", acc.texts, <<>>, FALSE, ""))

AddBlock(acc, b) ==
    CASE b.type = "text" -> [acc EXCEPT !.texts = Append(@, b.text)]
      [] b.type = "tool_result" ->
            [texts |-> <<>>,
             out   |-> Append(FlushText(acc),
                              WireMessage("tool", <<b.content>>, <<>>, FALSE, b.callId))]
      [] OTHER -> acc

\* A user message becomes its results, each a message of its own, and one
\* message for every run of texts between them.
UserMessages(content) ==
    LET upTo[n \in 0 .. Len(content)] ==
            IF n = 0 THEN [texts |-> <<>>, out |-> <<>>] ELSE AddBlock(upTo[n - 1], content[n])
    IN  FlushText(upTo[Len(content)])

Converted(m) ==
    IF m.role # "assistant" THEN UserMessages(m.content)
    ELSE Optional(~IsEmpty(AssistantMessage(m.content)), AssistantMessage(m.content))

\* The messages of requestPayload.
Payload(history) == FlattenSeq([i \in DOMAIN history |-> Converted(history[i])])
==============================================================================
