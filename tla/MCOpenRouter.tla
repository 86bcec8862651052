----------------------------- MODULE MCOpenRouter -----------------------------
(* Replies for TLC: every branch of Complete. *)
EXTENDS OpenRouter

Choice(text, calls, reason, error) ==
    [error |-> error, text |-> text, refusal |-> FALSE, calls |-> calls,
     reason |-> reason, details |-> FALSE]
Body(error, choices) == [json |-> TRUE, error |-> error, choices |-> choices]
NotJson == [json |-> FALSE, error |-> NoError, choices |-> <<>>]

HTTP(status, header, body) ==
    [status |-> status, retryAfter |-> header, large |-> FALSE, body |-> body]
After(n) == [form |-> "seconds", n |-> n]
On(n)    == [form |-> "date", n |-> n]

Answered   == Body(NoError, <<Choice("hi", <<>>, "stop", NoError)>>)
WithTools  == Body(NoError, <<Choice("", <<[id |-> "c1", args |-> ""]>>, "stop", NoError)>>)
Overloaded == Body(503, <<>>)
ChoiceDown == Body(NoError, <<Choice("", <<>>, "error", 502)>>)
NoChoice   == Body(NoError, <<>>)
BadCall    == Body(NoError, <<Choice("", <<[id |-> "c1", args |-> "garbage"]>>, "stop", NoError)>>)

ManyReplies ==
    {HTTP(200, NoHeader, Answered), HTTP(200, NoHeader, WithTools),
     HTTP(200, After(0), Overloaded), HTTP(200, NoHeader, ChoiceDown),
     HTTP(200, NoHeader, NoChoice), HTTP(200, NoHeader, BadCall),
     HTTP(429, After(0), NotJson), HTTP(429, After(2), NotJson),
     HTTP(503, On(3), NotJson), HTTP(408, NoHeader, NotJson),
     HTTP(400, After(1), NotJson), HTTP(301, NoHeader, NotJson),
     [HTTP(200, NoHeader, Answered) EXCEPT !.large = TRUE]}
==============================================================================
