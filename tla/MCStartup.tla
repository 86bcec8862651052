------------------------------ MODULE MCStartup ------------------------------
(* Two lines of a company, one of them paired, more devices to link; two       *)
(* scripts; environments of which some load.                                   *)
EXTENDS Startup, TLC

TwoLines   == <<"customer", "employee">>
OnePaired  == "customer" :> "d1" @@ "employee" :> NoJid
FewJids    == {"d1", "d2", "d3", "d4"}
TwoScripts == <<"0001_init.sql", "0002_next.sql">>
NotSet     == -1000

Plain == [provider |-> "", openRouterKey |-> FALSE, anthropicKey |-> TRUE, model |-> FALSE,
          databaseUrl |-> TRUE, attempts |-> NotSet, maxTokens |-> NotSet,
          summarizeAfter |-> NotSet, historyTail |-> NotSet]
Routed == [Plain EXCEPT !.openRouterKey = TRUE, !.model = TRUE]

\* Only the first two and the seventh load.
FewEnvironments ==
    {Plain, Routed,
     [Plain EXCEPT !.openRouterKey = TRUE],
     [Plain EXCEPT !.provider = "openrouter", !.model = TRUE],
     [Plain EXCEPT !.provider = "other", !.model = TRUE],
     [Routed EXCEPT !.attempts = 4],
     [Routed EXCEPT !.attempts = 1, !.summarizeAfter = 31],
     [Routed EXCEPT !.maxTokens = 0],
     [Plain EXCEPT !.historyTail = 50]}
==============================================================================
