----------------------------- MODULE AnthropicWire -----------------------------
(***************************************************************************)
(* The two translations of internal/llm/anthropic.go: from a message of    *)
(* the Messages API to a response, and from stored content blocks to the   *)
(* messages of a request.  A body is                                       *)
(*                                                                         *)
(*   [stop : a stop reason, blocks : Seq(block)]                           *)
(*                                                                         *)
(* with a block [type, ...] as the API has it: "text", "thinking" (with    *)
(* its signature), "redacted_thinking", "tool_use" (whose input may be     *)
(* "", absent), or of a type the client does not know.  The SDK makes the  *)
(* call and retries it; system text, tools and is_error are left out.      *)
(***************************************************************************)
EXTENDS LLM, SequencesExt

ThinkingTypes == {"thinking", "redacted_thinking"}
DecodedTypes  == {"text", "tool_use"} \cup ThinkingTypes
SentTypes     == DecodedTypes \cup {"tool_result"}

\* The response Complete makes of a message.
DecodeMessage(body) ==
    [stop    |-> body.stop,
     content |-> Kept(body.blocks, "type", DecodedTypes)]

MessageParam(role, blocks) == [role |-> role, blocks |-> blocks]

\* Mutant: redacted thinking, which holds no text, is not sent back.
DropsRedacted(m) ==
    LET Convert(b) == IF b.type = "tool_use" /\ b.input = "" THEN [b EXCEPT !.input = "{}"] ELSE b
        sent == Kept(m.content, "type", SentTypes \ {"redacted_thinking"})
    IN  MessageParam(m.role, [i \in DOMAIN sent |-> Convert(sent[i])])

\* toMessageParam; the metadata of the other provider is not sent.
ToMessageParam(m) ==
    LET Convert(b) == IF b.type = "tool_use" /\ b.input = "" THEN [b EXCEPT !.input = "{}"] ELSE b
        sent == Kept(m.content, "type", SentTypes)
    IN  MessageParam(m.role, [i \in DOMAIN sent |-> Convert(sent[i])])

\* The messages of a request.
MessageParams(history) == [i \in DOMAIN history |-> ToMessageParam(history[i])]
==============================================================================
