-------------------------------- MODULE Inbox --------------------------------
(***************************************************************************)
(* What deduplication promises about one WhatsApp message, however often   *)
(* it is delivered and however often the process dies: it is claimed at    *)
(* most once, for good, and answered at most once, after it was claimed.   *)
(***************************************************************************)
EXTENDS Naturals

CONSTANT Keys          \* what identifies a message: (company, wa_message_id)

VARIABLES claimed,     \* the messages some turn has taken on
          answers      \* [Keys -> 0 .. 1]: replies handed to WhatsApp

inboxVars == <<claimed, answers>>

InboxInit == /\ claimed = {}
             /\ answers = [k \in Keys |-> 0]

Claim(k) == /\ k \notin claimed
            /\ claimed' = claimed \cup {k}
            /\ UNCHANGED answers

\* The turn that claimed the message answers it, or it never is.
Answer(k) == /\ k \in claimed
             /\ answers[k] = 0
             /\ answers' = [answers EXCEPT ![k] = 1]
             /\ UNCHANGED claimed

InboxNext == \E k \in Keys : Claim(k) \/ Answer(k)

InboxSpec == InboxInit /\ [][InboxNext]_inboxVars
==============================================================================
