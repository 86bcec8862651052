-------------------------------- MODULE Replay --------------------------------
(***************************************************************************)
(* What a conversation looks like on the wire of its provider: the history *)
(* runToolLoop (internal/harness/harness.go) builds from user messages,    *)
(* decoded responses and tool results, sent back whole with each request.  *)
(* Harness has the control of the loop; here are the blocks.               *)
(*                                                                         *)
(* The history outlives the process, and the next one may be started with  *)
(* another LLM_PROVIDER.                                                   *)
(***************************************************************************)
EXTENDS OpenRouterWire, AnthropicWire

CONSTANTS Bodies,        \* the bodies OpenRouter may answer with
          Messages,      \* the messages Anthropic may answer with
          MaxMessages    \* bound: messages of the history

\* Ids and arguments are strings in either API.
ASSUME ReplayAssumption ==
    /\ MaxMessages \in Nat
    /\ \A body \in Bodies : Decodable(body) =>
           /\ body.choices[1].calls \in Seq([id : STRING, args : STRING])
           /\ body.choices[1].details \in BOOLEAN
    /\ \A body \in Messages :
           /\ body.blocks \in Seq(Range(body.blocks))
           /\ \A b \in Range(body.blocks) :
                  b.type = "tool_use" => b \in [type : {"tool_use"}, id : STRING, input : STRING]

VARIABLES history,       \* Seq([role, content])
          received,      \* history variable: what is behind assistant messages
          provider,      \* "openrouter" or "anthropic"
          pc             \* who speaks next: "user", "model" or "tools"

replayVars == <<history, received, provider, pc>>

Said(role, content) == history' = Append(history, [role |-> role, content |-> content])

ReplayInit ==
    /\ history = <<>> /\ received = <<>> /\ pc = "user"
    /\ provider \in {"openrouter", "anthropic"}

UserSays ==
    /\ pc = "user" /\ Len(history) < MaxMessages
    /\ Said("user", <<[type |-> "text", text |-> "hello"]>>)
    /\ pc' = "model"
    /\ UNCHANGED <<received, provider>>

\* buildLLMClient of the next process.
Restart ==
    /\ pc = "user"
    /\ provider' \in {"openrouter", "anthropic"} \ {provider}
    /\ UNCHANGED <<history, received, pc>>

\* The call fails, or its response cannot be decoded: the turn is over.
ModelIsSilent ==
    /\ pc = "model"
    /\ pc' = "user"
    /\ UNCHANGED <<history, received, provider>>

Responds(response, original) ==
    /\ Said("assistant", response.content)
    /\ received' = Append(received, original)
    /\ pc' = IF response.stop = "tool_use" THEN "tools" ELSE "user"

ModelSays ==
    /\ pc = "model" /\ Len(history) < MaxMessages
    /\ \/ /\ provider = "openrouter"
          /\ \E body \in Bodies :
                /\ Decodable(body)
                /\ Responds(Decode(body), [from |-> provider, choice |-> body.choices[1]])
       \/ /\ provider = "anthropic"
          /\ \E body \in Messages :
                Responds(DecodeMessage(body), [from |-> provider, blocks |-> body.blocks])
    /\ UNCHANGED provider

\* Mutant: only the first of the calls is executed.
FirstToolRuns ==
    /\ pc = "tools"
    /\ LET calls == ToolUses(history[Len(history)].content)
       IN  Said("user", [i \in DOMAIN calls \cap {1} |->
                            [type |-> "tool_result", callId |-> calls[i].id,
                             content |-> "result"]])
    /\ pc' = "model"
    /\ UNCHANGED <<received, provider>>

\* Every call gets its result, in one message.
ToolsRun ==
    /\ pc = "tools"
    /\ LET calls == ToolUses(history[Len(history)].content)
       IN  Said("user", [i \in DOMAIN calls |->
                            [type |-> "tool_result", callId |-> calls[i].id,
                             content |-> "result"]])
    /\ pc' = "model"
    /\ UNCHANGED <<received, provider>>

ReplayNext == UserSays \/ Restart \/ ModelIsSilent \/ ModelSays \/ ToolsRun

ReplaySpec == ReplayInit /\ [][ReplayNext]_replayVars

-----------------------------------------------------------------------------
\* Chat Completions: every tool message answers the call in its place of the
\* assistant message before it, and no call is left without an answer.
ChatPaired(P) ==
    LET Answers(a, i) == /\ i - a \in DOMAIN P[a].calls
                         /\ P[i].role = "tool"
                         /\ P[i].callId = P[a].calls[i - a].id
    IN  /\ \A i \in DOMAIN P : P[i].role = "tool" =>
                \E a \in 1 .. i - 1 : P[a].role = "assistant" /\ Answers(a, i)
        /\ \A a \in DOMAIN P : \A k \in DOMAIN P[a].calls :
                a + k \in DOMAIN P /\ Answers(a, a + k)

\* Messages: the results of a message are those of the tool uses of the one
\* before it.
MessagesPaired(P) ==
    LET Uses(i)    == {b.id : b \in {c \in Range(P[i].blocks) : c.type = "tool_use"}}
        Results(i) == {b.callId : b \in {c \in Range(P[i].blocks) : c.type = "tool_result"}}
    IN  \A i \in 0 .. Len(P) :
            (IF i = 0 THEN {} ELSE Uses(i)) = (IF i = Len(P) THEN {} ELSE Results(i + 1))

\* No message of Anthropic was cut at max_tokens after a call: the loop runs no
\* tool then, and the call stays without its result (run HarnessCutTools).
WholeMessages ==
    \A body \in Messages : body.stop # "tool_use" => ToolUses(body.blocks) = <<>>

\* Either API accepts a request only if it is paired: so is every request of
\* the loop, with parallel calls, with calls under any finish reason, with the
\* reason "tool_use" and no call, and after a change of the provider.
RequestPaired ==
    pc = "model" => IF provider = "openrouter" THEN ChatPaired(Payload(history))
                    ELSE MessagesPaired(MessageParams(history))

\* What the provider sent, in the form of OpenRouter and in that of Anthropic.
Arguments(calls) == [i \in DOMAIN calls |-> [calls[i] EXCEPT !.args = ToolArguments(@)]]

InChat(r) ==
    IF r.from = "openrouter"
    THEN WireMessage("assistant", Optional(r.choice.text # "", r.choice.text),
                     Arguments(r.choice.calls), r.choice.details, "")
    ELSE WireMessage("assistant", Texts(r.blocks), Calls(r.blocks), FALSE, "")

InMessages(r) ==
    IF r.from = "anthropic"
    THEN MessageParam("assistant",
             LET known == Kept(r.blocks, "type",
                               {"text", "thinking", "redacted_thinking", "tool_use"})
             IN  [i \in DOMAIN known |-> IF known[i].type = "tool_use"
                                         THEN [known[i] EXCEPT !.input = ToolArguments(@)]
                                         ELSE known[i]])
    ELSE MessageParam("assistant",
             LET calls == Arguments(r.choice.calls)
             IN  Optional(r.choice.text # "", [type |-> "text", text |-> r.choice.text])
                 \o [i \in DOMAIN calls |->
                        [type |-> "tool_use", id |-> calls[i].id, input |-> calls[i].args]])

\* "... so replay is lossless" (harness.go:194): what a request says the
\* assistant said is what the model sent - texts, calls with their ids and
\* arguments, and to the same provider its reasoning, signed or redacted - in
\* the order it came - less the blocks of unknown types, the words of a refusal,
\* of which OpenRouter's client takes only that there are any, and, to
\* OpenRouter, the messages that held nothing.
ReplayLossless ==
    IF provider = "openrouter"
    THEN Kept(Payload(history), "role", {"assistant"})
             = FlattenSeq([i \in DOMAIN received |->
                              Optional(~IsEmpty(InChat(received[i])), InChat(received[i]))])
    ELSE Kept(MessageParams(history), "role", {"assistant"})
             = [i \in DOMAIN received |-> InMessages(received[i])]
==============================================================================
