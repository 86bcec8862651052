------------------------------ MODULE ModelCall ------------------------------
(***************************************************************************)
(* What the tool loop expects of llm.Client.Complete: one call comes to    *)
(* one answer of the expected shape or to an error, and it always returns. *)
(* ModelAnswers and ModelFailure of Harness are the two ways it returns.   *)
(***************************************************************************)
CONSTANT Responses       \* the outlines of the answers

VARIABLES status,        \* "pending", "answered" or "failed"
          answer         \* the outline of the answer

callVars == <<status, answer>>

NoAnswer == [stop |-> "", uses |-> FALSE, text |-> FALSE]

CallInit == status = "pending" /\ answer = NoAnswer

Answer == /\ status = "pending"
          /\ status' = "answered"
          /\ answer' \in Responses

Fail == /\ status = "pending"
        /\ status' = "failed"
        /\ UNCHANGED answer

CallNext == Answer \/ Fail

CallSpec == CallInit /\ [][CallNext]_callVars /\ WF_callVars(CallNext)
==============================================================================
