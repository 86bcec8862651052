--------------------------------- MODULE LLM ---------------------------------
(***************************************************************************)
(* The provider-neutral response of internal/llm/client.go: a stop reason  *)
(* and content blocks, and what the tool loop reads from it.               *)
(***************************************************************************)
EXTENDS Integers, Sequences

\* What the loop tells apart in a response: its stop reason, whether it holds
\* tool_use blocks, whether Text() is not empty.
ResponseType == [stop : {"end_turn", "tool_use", "max_tokens", "refusal"},
                 uses : BOOLEAN, text : BOOLEAN]

\* The records of list whose field has one of the values, in order.
Kept(list, field, values) ==
    LET kept[n \in 0 .. Len(list)] ==
            IF n = 0 THEN <<>>
            ELSE IF list[n][field] \in values THEN Append(kept[n - 1], list[n])
            ELSE kept[n - 1]
    IN  kept[Len(list)]

ToolUses(content) == Kept(content, "type", {"tool_use"})

\* The response as the loop sees it.  Every stop reason it does not know ends
\* the turn like "end_turn".
Outline(response) ==
    [stop |-> IF response.stop \in {"tool_use", "max_tokens", "refusal"}
              THEN response.stop ELSE "end_turn",
     uses |-> \E i \in DOMAIN response.content : response.content[i].type = "tool_use",
     text |-> \E i \in DOMAIN response.content : response.content[i].type = "text"]
==============================================================================
