------------------------------ MODULE MCHarness ------------------------------
(* Small instances of Harness for TLC. *)
EXTENDS Harness, TLC

JID(user, server) == [user |-> user, server |-> server]
Pn(user)  == JID(user, DefaultUserServer)
Lid(user) == JID(user, HiddenUserServer)
NoJID     == JID("", "")

Event(channel, chat, sender, alt, id) ==
    [company |-> "A", channel |-> channel, fromMe |-> FALSE, group |-> FALSE,
     chat |-> chat, sender |-> sender, senderAlt |-> alt,
     message |-> [conversation |-> "hi", extended |-> NoText], id |-> id]

Ana(id)    == Event("CUSTOMER", Pn("ana"), Pn("ana"), NoJID, id)
AnaLid(id) == Event("CUSTOMER", Lid("x9"), Lid("x9"), Pn("ana"), id)
Staff(user, id) == Event("EMPLOYEE", Pn(user), Pn(user), NoJID, id)

\* One message of Ana, redelivered, also under her hidden id.
Redelivered == {Ana("m1"), AnaLid("m1")}
\* One chat, three messages.
OneChat == {Ana("m1"), Ana("m2"), Ana("m3")}
\* An employee who also writes as a customer, and an archived contact on
\* the employee line.
BothLines == {Ana("m1"), Ana("m2")} \cup {Staff("ana", "m4"), Staff("ben", "m5")}

Hash == <<"A", Pn("ana")>> :> 0 @@ <<"A", Lid("x9")>> :> 1 @@ <<"A", Pn("ben")>> :> 1

Unknown == [u \in UserKeys |-> Absent]
Known   == [u \in UserKeys |-> CASE u[2] = "ana" -> "EMPLOYEE"
                                 [] u[2] = "ben" -> "inactive"
                                 [] OTHER        -> Absent]

Resp(stop, uses, text) == [stop |-> stop, uses |-> uses, text |-> text]
Final   == Resp("end_turn", FALSE, TRUE)
Silent  == Resp("end_turn", FALSE, FALSE)
Refusal == Resp("refusal", FALSE, TRUE)
Tools   == Resp("tool_use", TRUE, FALSE)
Cut     == Resp("max_tokens", TRUE, TRUE)   \* Anthropic: cut off in a tool call

OpenRouter == {Final, Silent, Refusal, Tools}
FinalOrTools == {Final, Tools}
Anthropic  == OpenRouter \cup {Cut}
==============================================================================
