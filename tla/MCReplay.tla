------------------------------- MODULE MCReplay -------------------------------
(* Bodies for TLC: every shape the two decoders tell apart. *)
EXTENDS Replay

Choice(text, refusal, calls, reason, details) ==
    [error |-> NoError, text |-> text, refusal |-> refusal, calls |-> calls,
     reason |-> reason, details |-> details]
Ok(choice) == [json |-> TRUE, error |-> NoError, choices |-> <<choice>>]

One == <<[id |-> "c1", args |-> ""]>>
Two == <<[id |-> "c1", args |-> "{7}"], [id |-> "c2", args |-> ""]>>
Bad == <<[id |-> "c1", args |-> "garbage"]>>

ManyBodies ==
    {Ok(Choice("hi", FALSE, <<>>, "stop", FALSE)),
     Ok(Choice("", FALSE, <<>>, "stop", TRUE)),
     Ok(Choice("", FALSE, <<>>, "length", FALSE)),
     Ok(Choice("", TRUE, <<>>, "stop", FALSE)),
     Ok(Choice("look", FALSE, Two, "tool_calls", TRUE)),
     Ok(Choice("", TRUE, One, "stop", FALSE)),
     Ok(Choice("", FALSE, <<>>, "tool_use", FALSE)),
     Ok(Choice("", FALSE, Bad, "tool_calls", FALSE))}

Text(text)  == [type |-> "text", text |-> text]
Thought     == [type |-> "thinking", text |-> "hm", signature |-> "s"]
Redacted    == [type |-> "redacted_thinking", data |-> "r"]
Use(id, in) == [type |-> "tool_use", id |-> id, input |-> in]

ManyMessages ==
    {[stop |-> "end_turn", blocks |-> <<Thought, Text("hi")>>],
     [stop |-> "max_tokens", blocks |-> <<Redacted>>],
     [stop |-> "refusal", blocks |-> <<>>],
     [stop |-> "end_turn", blocks |-> <<Text("a"), [type |-> "unknown"], Text("b")>>],
     [stop |-> "tool_use",
      blocks |-> <<Thought, Redacted, Use("u1", "{7}"), Text("look"), Use("u2", "")>>]}

ASSUME NoneIsCut == WholeMessages
==============================================================================
