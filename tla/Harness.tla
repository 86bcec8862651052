------------------------------- MODULE Harness -------------------------------
(***************************************************************************)
(* Harness.process (internal/harness/harness.go, identity.go, history.go)  *)
(* run by every worker of the pool, over the tables it reads and writes    *)
(* through internal/store.                                                 *)
(*                                                                         *)
(* One action is one call that leaves the process - a statement sent to    *)
(* the database, a model call, a message sent - with the local code up to  *)
(* the next one.  A call without effect on shared state (a read whose      *)
(* result the later steps of the turn cannot see change, a model call) is  *)
(* joined to the call next to it.                                          *)
(***************************************************************************)
EXTENDS WorkerPool, LLM, FiniteSets

CONSTANTS MaxToolIterations,  \* MAX_TOOL_ITERATIONS, not validated by config
          HistoryTailLimit,   \* HISTORY_TAIL_LIMIT
          SummarizeAfter,     \* SUMMARIZE_AFTER
          Responses,          \* what the model may answer
          InitUsers           \* the users table at the first start

\* Faults also names what may go wrong with a call of a turn:
\*   "db"       a statement fails and has no effect
\*   "ack"      a statement is committed but its caller is told it failed
\*   "llm"      a model call fails (its retries are over)
\*   "send"     WhatsApp does not take the reply
\*   "deadline" processTimeout runs out

\* Rows of users, by (company, phone).
UserKeys == {<<m.company, m.phone>> : m \in Inbounds}
UserKey(m) == <<m.company, m.phone>>
Absent == "absent"

\* Rows of conversations.
Conversations == {ConversationOf(m) : m \in Inbounds}

ASSUME HarnessAssumption ==
    /\ MaxToolIterations \in Int
    /\ HistoryTailLimit \in Nat /\ SummarizeAfter \in Nat
    /\ SummarizeAfter > HistoryTailLimit          \* config.Load checks this
    /\ Responses \subseteq ResponseType
    /\ \A r \in Responses : r.stop = "tool_use" => r.uses
    /\ InitUsers \in [UserKeys -> {Absent, "CUSTOMER", "EMPLOYEE", "inactive"}]

VARIABLES processed,    \* processed_messages: a set of (company, wa_message_id)
          users,        \* users: key -> role, "inactive" or Absent
          convs,        \* conversations: key -> watermark, summary, escalated_at
          messages,     \* messages: rows in id order
          escalations,  \* escalations: the turns that inserted a row
          sends,        \* history: replies handed to WhatsApp, in order
          pc,           \* [Workers -> the next call of the turn]
          turn,         \* [Workers -> the locals of process()]
          expired       \* workers whose turn has outlived processTimeout

tables    == <<processed, users, convs, messages, escalations>>
turnVars  == <<pc, turn, expired>>
hVars     == <<poolVars, tables, sends, turnVars>>

\* Locals: the conversation snapshot, the rows of the prompt, the rounds done,
\* the reply text and what follows it, the rows being folded.
NoTurn == [upto |-> 0, covered |-> {}, prompt |-> {}, rounds |-> 0,
           text |-> "", next |-> "end", fold |-> {}]

HInit == /\ PoolInit
         /\ processed = {}
         /\ users = InitUsers
         /\ convs = [c \in Conversations |->
                        [upto |-> 0, covered |-> {}, escalated |-> FALSE]]
         /\ messages = <<>>
         /\ escalations = {}
         /\ sends = <<>>
         /\ pc = [w \in Workers |-> "idle"]
         /\ turn = [w \in Workers |-> NoTurn]
         /\ expired = {}

-----------------------------------------------------------------------------
Msg(w)  == accepted[running[w]]
Conv(w) == ConversationOf(Msg(w))

\* The context of the turn: cancelled with the pool, or out of time.
CtxDead(w) == phase # "running" \/ w \in expired

\* What the caller of a statement may see.  "applied" is an error after the
\* statement took effect.
Outcomes(w) ==
    IF CtxDead(w) THEN {"err"}
    ELSE {"ok"} \cup (IF "db"  \in Faults THEN {"err"} ELSE {})
                \cup (IF "ack" \in Faults THEN {"applied"} ELSE {})

ReadOutcomes(w) == Outcomes(w) \ {"applied"}

ModelFails(w) == CtxDead(w) \/ "llm" \in Faults

Goto(w, label) ==
    /\ pc' = [pc EXCEPT ![w] = label]
    /\ UNCHANGED <<poolVars, expired>>

\* process() returns.
Return(w) ==
    /\ Finish(w)
    /\ pc' = [pc EXCEPT ![w] = "idle"]
    /\ turn' = [turn EXCEPT ![w] = NoTurn]
    /\ expired' = expired \ {w}

\* h.reply(ctx, msg, text); then `next'.
ReplyWith(w, text, next) ==
    /\ Goto(w, "reply")
    /\ turn' = [turn EXCEPT ![w].text = text, ![w].next = next]

\* The early failures: an apology and nothing more.
Apologise(w) == ReplyWith(w, "failed", "end")

\* INSERT INTO messages, if outcome o lets it happen.
AppendMessage(w, kind, uses, o) ==
    messages' = IF o = "err" THEN messages
                ELSE Append(messages, [conv |-> Conv(w), kind |-> kind,
                                       turn |-> running[w], uses |-> uses])

-----------------------------------------------------------------------------
\* The worker takes a message and calls process().
Begin(w) ==
    /\ Receive(w)
    /\ pc' = [pc EXCEPT ![w] = "dedup"]
    /\ UNCHANGED <<tables, sends, turn, expired>>

\* Mutant: an error of the check lets the message pass.
DedupFailsOpen(w) ==
    /\ pc[w] = "dedup"
    /\ UNCHANGED <<users, convs, messages, escalations, sends, turn>>
    /\ LET k == DeliveryKey(Msg(w))
       IN  \E o \in Outcomes(w) :
             \/ /\ o = "ok" /\ k \notin processed
                /\ processed' = processed \cup {k}
                /\ Goto(w, "identity")
             \/ /\ o # "ok"
                /\ processed' = IF o = "applied" THEN processed \cup {k} ELSE processed
                /\ Goto(w, "identity")

\* 1. FirstTimeProcessing: insert or skip.
Dedup(w) ==
    /\ pc[w] = "dedup"
    /\ UNCHANGED <<users, convs, messages, escalations, sends>>
    /\ LET k == DeliveryKey(Msg(w))
       IN  \E o \in Outcomes(w) :
             \/ /\ o = "ok" /\ k \notin processed
                /\ processed' = processed \cup {k}
                /\ Goto(w, "identity")
                /\ UNCHANGED turn
             \/ /\ o = "ok" /\ k \in processed
                /\ UNCHANGED processed
                /\ Return(w)
             \/ /\ o # "ok"
                /\ processed' = IF o = "applied" THEN processed \cup {k} ELSE processed
                /\ Return(w)

\* Mutant: ON CONFLICT updates the role.
EnsureCustomerUpdates(w) ==
    /\ pc[w] = "identity" /\ Msg(w).channel = "CUSTOMER"
    /\ UNCHANGED <<processed, convs, messages, escalations, sends, turn>>
    /\ "ok" \in Outcomes(w)
    /\ users' = [users EXCEPT ![UserKey(Msg(w))] = "CUSTOMER"]
    /\ Goto(w, "lookup")

\* 2. resolveIdentity on the customer line: EnsureCustomer inserts a user who
\* is absent, in one statement, ...
EnsureCustomer(w) ==
    /\ pc[w] = "identity" /\ Msg(w).channel = "CUSTOMER"
    /\ UNCHANGED <<processed, convs, messages, escalations, sends>>
    /\ \E o \in Outcomes(w) :
          /\ users' = IF o = "err" THEN users
                      ELSE [users EXCEPT ![UserKey(Msg(w))] =
                               IF @ = Absent THEN "CUSTOMER" ELSE @]
          /\ IF o = "ok" THEN Goto(w, "lookup") /\ UNCHANGED turn
                         ELSE Apologise(w)

\* ... and reads the active row of the user in a second one.
LookupCustomer(w) ==
    /\ pc[w] = "lookup"
    /\ UNCHANGED <<tables, sends>>
    /\ LET active == users[UserKey(Msg(w))] \notin {Absent, "inactive"}
       IN  \E o \in ReadOutcomes(w) :
             \/ /\ o = "ok" /\ active
                /\ Goto(w, "open")
                /\ UNCHANGED turn
             \/ /\ o = "err" \/ ~active
                /\ Apologise(w)

\* Mutant: any registered user will do.
LookupAnyone(w) ==
    /\ pc[w] = "identity" /\ Msg(w).channel = "EMPLOYEE"
    /\ UNCHANGED <<tables, sends>>
    /\ "ok" \in Outcomes(w)
    /\ IF users[UserKey(Msg(w))] # Absent THEN Goto(w, "open") /\ UNCHANGED turn
                                          ELSE ReplyWith(w, "unknown", "end")

\* ... and on the employee line: only registered active employees.
LookupEmployee(w) ==
    /\ pc[w] = "identity" /\ Msg(w).channel = "EMPLOYEE"
    /\ UNCHANGED <<tables, sends>>
    /\ \E o \in ReadOutcomes(w) :
          \/ /\ o = "ok" /\ users[UserKey(Msg(w))] = "EMPLOYEE"
             /\ Goto(w, "open")
             /\ UNCHANGED turn
          \/ /\ o = "ok" /\ users[UserKey(Msg(w))] # "EMPLOYEE"
             /\ ReplyWith(w, "unknown", "end")
          \/ /\ o = "err"
             /\ Apologise(w)

\* GetCompany fails: the turn ends without a word.
CompanyFails(w) ==
    /\ pc[w] = "open"
    /\ "err" \in ReadOutcomes(w)
    /\ UNCHANGED <<tables, sends>>
    /\ Return(w)

\* 3. GetOrCreateConversation: the turn works on a snapshot of the row.
OpenConversation(w) ==
    /\ pc[w] = "open"
    /\ UNCHANGED <<tables, sends>>
    /\ \E o \in Outcomes(w) :
          \/ /\ o = "ok"
             /\ turn' = [turn EXCEPT ![w].upto = convs[Conv(w)].upto,
                                     ![w].covered = convs[Conv(w)].covered]
             /\ Goto(w, "persist")
          \/ /\ o # "ok"
             /\ Apologise(w)

PersistInbound(w) ==
    /\ pc[w] = "persist"
    /\ UNCHANGED <<processed, users, convs, escalations, sends>>
    /\ \E o \in Outcomes(w) :
          /\ AppendMessage(w, "user", FALSE, o)
          /\ IF o = "ok" THEN Goto(w, "history") /\ UNCHANGED turn
                         ELSE Apologise(w)

-----------------------------------------------------------------------------
\* The rows of a conversation the model may see: ids after a watermark.
RowsAfter(c, upto) ==
    {i \in DOMAIN messages : /\ messages[i].conv = c
                             /\ i > upto
                             /\ messages[i].kind # "system_note"}

\* Mutants: the LIMIT before the order, a tail that is not trimmed.
FirstOnes(S, n) == {i \in S : Cardinality({j \in S : j < i}) < n}
Untrimmed(S)    == S

Newest(S, n) == {i \in S : Cardinality({j \in S : j > i}) < n}
Oldest(S, n) == {i \in S : Cardinality({j \in S : j < i}) < n}

\* A tail cut in the middle of an exchange loses its head.
FromFirstUser(S) ==
    {i \in S : \E j \in S : j <= i /\ messages[j].kind = "user"}

\* Mutant: one round too many.
RoundTooMany(rounds) == IF rounds <= MaxToolIterations THEN "model" ELSE "escalate"

\* The loop goes round, or has run out of rounds.
Round(rounds) == IF rounds < MaxToolIterations THEN "model" ELSE "escalate"

\* 4. buildHistory.
BuildHistory(w) ==
    /\ pc[w] = "history"
    /\ UNCHANGED <<tables, sends>>
    /\ \E o \in ReadOutcomes(w) :
          \/ /\ o = "ok"
             /\ turn' = [turn EXCEPT ![w].prompt =
                   FromFirstUser(Newest(RowsAfter(Conv(w), turn[w].upto), HistoryTailLimit))]
             /\ Goto(w, Round(0))
          \/ /\ o = "err"
             /\ Apologise(w)

\* Mutant: an answer that could not be persisted is sent all the same.
AnswersUnpersisted(w) ==
    /\ pc[w] = "model" /\ ~CtxDead(w)
    /\ UNCHANGED <<processed, users, convs, escalations, sends>>
    /\ \E r \in Responses, o \in Outcomes(w) :
          /\ AppendMessage(w, "assistant", r.uses, o)
          /\ IF r.stop = "tool_use"
             THEN Goto(w, "tools") /\ UNCHANGED turn
             ELSE ReplyWith(w, "answer", "count")

\* 5. The model answers; its turn is persisted before anything else.
ModelAnswers(w) ==
    /\ pc[w] = "model" /\ ~CtxDead(w)
    /\ UNCHANGED <<processed, users, convs, escalations, sends>>
    /\ \E r \in Responses, o \in Outcomes(w) :
          /\ AppendMessage(w, "assistant", r.uses, o)
          /\ \/ /\ o # "ok"
                /\ ReplyWith(w, "failed", "count")
             \/ /\ o = "ok" /\ r.stop = "tool_use"
                /\ turn' = [turn EXCEPT ![w].prompt = @ \cup {Len(messages) + 1}]
                /\ Goto(w, "tools")
             \/ /\ o = "ok" /\ r.stop # "tool_use"
                /\ ReplyWith(w, IF r.stop # "refusal" /\ r.text THEN "answer" ELSE "failed",
                             "count")

\* Mutants: the empty text is sent, the turn ends without a reply, the turn
\* waits for something that never comes.
FailureUntold(w) ==
    /\ pc[w] = "model" /\ ModelFails(w)
    /\ UNCHANGED <<tables, sends>>
    /\ ReplyWith(w, "", "count")

FailureSilent(w) ==
    /\ pc[w] = "model" /\ ModelFails(w)
    /\ UNCHANGED <<tables, sends>>
    /\ Return(w)

FailureBlocks(w) ==
    /\ pc[w] = "model" /\ ModelFails(w)
    /\ UNCHANGED <<tables, sends, turn>>
    /\ Goto(w, "blocked")

ModelFailure(w) ==
    /\ pc[w] = "model" /\ ModelFails(w)
    /\ UNCHANGED <<tables, sends>>
    /\ ReplyWith(w, "failed", "count")

\* Mutant: results that could not be stored do not end the loop.
ToolsGoOn(w) ==
    /\ pc[w] = "tools"
    /\ UNCHANGED <<processed, users, convs, escalations, sends>>
    /\ \E o \in Outcomes(w) : AppendMessage(w, "tool_result", FALSE, o)
    /\ turn' = [turn EXCEPT ![w].rounds = @ + 1]
    /\ Goto(w, Round(turn[w].rounds + 1))

\* Every tool of this stage only reads; the results are one row.
RunTools(w) ==
    /\ pc[w] = "tools"
    /\ UNCHANGED <<processed, users, convs, escalations, sends>>
    /\ \E o \in Outcomes(w) :
          /\ AppendMessage(w, "tool_result", FALSE, o)
          /\ \/ /\ o = "ok"
                /\ turn' = [turn EXCEPT ![w].prompt = @ \cup {Len(messages) + 1},
                                        ![w].rounds = @ + 1]
                /\ Goto(w, Round(turn[w].rounds + 1))
             \/ /\ o # "ok"
                /\ ReplyWith(w, "failed", "count")

-----------------------------------------------------------------------------
\* autoEscalate: two writes whose errors are only logged, a reply, a note.
CreateEscalation(w) ==
    /\ pc[w] = "escalate"
    /\ \E o \in Outcomes(w) :
          escalations' = IF o = "err" THEN escalations ELSE escalations \cup {running[w]}
    /\ Goto(w, "mark")
    /\ UNCHANGED <<processed, users, convs, messages, sends, turn>>

SetEscalated(w) ==
    /\ pc[w] = "mark"
    /\ \E o \in Outcomes(w) :
          convs' = IF o = "err" THEN convs
                   ELSE [convs EXCEPT ![Conv(w)].escalated = TRUE]
    /\ ReplyWith(w, "escalated", "note")
    /\ UNCHANGED <<processed, users, messages, escalations, sends>>

NoteEscalation(w) ==
    /\ pc[w] = "note"
    /\ \E o \in Outcomes(w) : AppendMessage(w, "system_note", FALSE, o)
    /\ Return(w)
    /\ UNCHANGED <<processed, users, convs, escalations, sends>>

\* SendText fails under a dead context; an error is only logged.
Reply(w) ==
    /\ pc[w] = "reply"
    /\ \E delivered \in BOOLEAN :
          /\ delivered => ~CtxDead(w)
          /\ ~delivered => CtxDead(w) \/ "send" \in Faults
          /\ sends' = Append(sends, [turn |-> running[w], text |-> turn[w].text,
                                     delivered |-> delivered])
    /\ IF turn[w].next = "end" THEN Return(w)
                               ELSE Goto(w, turn[w].next) /\ UNCHANGED turn
    /\ UNCHANGED tables

-----------------------------------------------------------------------------
\* Mutant: the rows to fold are taken from the start of the conversation.
CountFromStart(w) ==
    /\ pc[w] = "count"
    /\ UNCHANGED <<tables, sends>>
    /\ LET count == Cardinality(RowsAfter(Conv(w), turn[w].upto))
       IN  \/ /\ count > SummarizeAfter
              /\ turn' = [turn EXCEPT ![w].fold =
                             Oldest(RowsAfter(Conv(w), 0), count - HistoryTailLimit)]
              /\ Goto(w, "fold")
           \/ /\ count <= SummarizeAfter
              /\ Return(w)

\* 6. maybeSummarize counts from the snapshot of step 3 and picks the rows
\* beyond the tail.
CountTail(w) ==
    /\ pc[w] = "count"
    /\ UNCHANGED <<tables, sends>>
    /\ LET tail  == RowsAfter(Conv(w), turn[w].upto)
           count == Cardinality(tail)
       IN  \/ /\ "ok" \in ReadOutcomes(w) /\ count > SummarizeAfter
              /\ turn' = [turn EXCEPT ![w].fold = Oldest(tail, count - HistoryTailLimit)]
              /\ Goto(w, "fold")
           \/ /\ "err" \in ReadOutcomes(w) \/ count <= SummarizeAfter
              /\ Return(w)

\* Mutant: the watermark jumps over the rows kept.
FoldToEnd(w) ==
    /\ pc[w] = "fold"
    /\ UNCHANGED <<processed, users, messages, escalations, sends>>
    /\ convs' = [convs EXCEPT ![Conv(w)].upto = Len(messages),
                              ![Conv(w)].covered = turn[w].covered \cup turn[w].fold]
    /\ Return(w)

\* A response that is a summary: the whole answer, and not a refusal.
Summarises(r) == r.stop = "end_turn" /\ r.text

\* The model, offered no tools, merges them into the snapshot's summary;
\* UpdateSummary stores the text of its response, whatever it says.
FoldSummary(w) ==
    /\ pc[w] = "fold"
    /\ UNCHANGED <<processed, users, messages, escalations, sends>>
    /\ \/ /\ ModelFails(w)
          /\ UNCHANGED convs
       \/ \E r \in {s \in Responses : ~s.uses}, o \in Outcomes(w) :
             convs' = IF o = "err" THEN convs
                      ELSE [convs EXCEPT
                               ![Conv(w)].upto = CHOOSE i \in turn[w].fold :
                                                    \A j \in turn[w].fold : j <= i,
                               ![Conv(w)].covered = IF Summarises(r)
                                                    THEN turn[w].covered \cup turn[w].fold
                                                    ELSE {}]
    /\ Return(w)

-----------------------------------------------------------------------------
\* processTimeout runs out for the turn of w.
Expire(w) ==
    /\ "deadline" \in Faults
    /\ running[w] # Idle /\ w \notin expired
    /\ expired' = expired \cup {w}
    /\ UNCHANGED <<poolVars, tables, sends, pc, turn>>

\* The tables outlive the process; the turns do not.
HHalt ==
    /\ Halt
    /\ pc' = [w \in Workers |-> "idle"]
    /\ turn' = [w \in Workers |-> NoTurn]
    /\ expired' = {}
    /\ UNCHANGED <<tables, sends>>

Outside ==
    /\ (\E e \in Events : OnMessage(e)) \/ (\E w \in Workers : Exit(w))
       \/ Cancel \/ Disconnect \/ Boot
    /\ UNCHANGED <<tables, sends, turnVars>>

Step(w) ==
    \/ Dedup(w) \/ EnsureCustomer(w) \/ LookupCustomer(w) \/ LookupEmployee(w)
    \/ CompanyFails(w) \/ OpenConversation(w) \/ PersistInbound(w)
    \/ BuildHistory(w) \/ ModelAnswers(w) \/ ModelFailure(w) \/ RunTools(w)
    \/ CreateEscalation(w) \/ SetEscalated(w) \/ NoteEscalation(w)
    \/ Reply(w) \/ CountTail(w) \/ FoldSummary(w)

HNext == \/ \E w \in Workers : Begin(w) \/ Step(w) \/ Expire(w)
         \/ HHalt \/ Outside

HSpec == HInit /\ [][HNext]_hVars

\* Every call of a turn returns: statements and model calls carry the context
\* of the turn, which has a deadline.  The workers as in WorkerPool.
HFairness == \A w \in Workers : /\ WF_hVars(Begin(w))
                                /\ WF_hVars(Step(w))
                                /\ SF_hVars(Exit(w) /\ UNCHANGED <<tables, sends, turnVars>>)

FairHSpec == HSpec /\ HFairness

-----------------------------------------------------------------------------
Labels == {"idle", "dedup", "identity", "lookup", "open", "persist", "history", "model",
           "tools", "escalate", "mark", "reply", "note", "count", "fold"}

RowIds == 1 .. Len(messages)

Row    == [conv : Conversations, uses : BOOLEAN, turn : Indices,
           kind : {"user", "assistant", "tool_result", "system_note"}]
Send   == [turn : Indices, delivered : BOOLEAN,
           text : {"answer", "failed", "unknown", "escalated"}]
Locals == [upto : Nat, covered : SUBSET RowIds, prompt : SUBSET RowIds,
           rounds : Nat, fold : SUBSET RowIds,
           text : {"", "answer", "failed", "unknown", "escalated"},
           next : {"end", "count", "note"}]

TablesOK ==
    /\ processed \subseteq {DeliveryKey(m) : m \in Inbounds}
    /\ users \in [UserKeys -> {Absent, "CUSTOMER", "EMPLOYEE", "inactive"}]
    /\ convs \in [Conversations ->
                    [upto : Nat, covered : SUBSET RowIds, escalated : BOOLEAN]]
    /\ messages \in Seq(Row)
    /\ escalations \subseteq Indices
    /\ sends \in Seq(Send)

\* A worker is idle exactly when the pool says so; a turn that replies has a
\* text, a turn that folds has rows.
TurnsOK ==
    /\ pc \in [Workers -> Labels]
    /\ turn \in [Workers -> Locals]
    /\ expired \subseteq Workers
    /\ \A w \in Workers : /\ pc[w] = "idle" <=> running[w] = Idle
                          /\ pc[w] = "reply" => turn[w].text # ""
                          /\ pc[w] = "fold" => turn[w].fold # {}

\* Type of the pool, the tables and the locals.
HTypeOK == PoolTypeOK /\ TablesOK /\ TurnsOK

KeyOf(i) == DeliveryKey(accepted[i])

\* However often WhatsApp redelivers a message, on however many chats and
\* across restarts, lost acknowledgements and cancelled turns: at most one
\* reply is handed to WhatsApp for it and at most one user row is written.
AtMostOnce ==
    /\ \A a, b \in DOMAIN sends :
          KeyOf(sends[a].turn) = KeyOf(sends[b].turn) => a = b
    /\ \A i, j \in RowIds :
          /\ messages[i].kind = "user" /\ messages[j].kind = "user"
          /\ KeyOf(messages[i].turn) = KeyOf(messages[j].turn)
          => i = j

\* Each step is one of the abstract inbox, or changes neither part of it.
HInbox == INSTANCE Inbox WITH
    Keys    <- {DeliveryKey(m) : m \in Inbounds},
    claimed <- processed,
    answers <- [k \in {DeliveryKey(m) : m \in Inbounds} |->
                   Cardinality({a \in DOMAIN sends : KeyOf(sends[a].turn) = k})]
ImplementsInbox == HInbox!InboxSpec

\* The pool sees process() as one step that always ends: whatever fails in its
\* calls, runs out of time or is cancelled in between, the pipeline behaves like
\* the pool with the pool's own fairness.
ImplementsPool == FairPoolSpec

\* The prompt of worker w once its rows are read.
Prompting(w) == pc[w] \in {"model", "tools"}

\* What the provider's API accepts: the rows start with a user row, every row
\* that requests tools is followed by its results and nothing else is results.
WellFormed(rows) ==
    LET Follows(i, j) == j > i /\ ~\E k \in rows : i < k /\ k < j
    IN  /\ \A i \in rows : (\A j \in rows : i <= j) => messages[i].kind = "user"
        /\ \A i, j \in rows : Follows(i, j) =>
              (messages[i].uses <=> messages[j].kind = "tool_result")
        /\ \A i \in rows : (\A j \in rows : j <= i) => ~messages[i].uses

\* Every request replays an exchange the API accepts, although the tail is
\* cut, folded and interleaved with notes.
PromptWellFormed ==
    \A w \in Workers : pc[w] = "model" => WellFormed(turn[w].prompt)

\* Every request holds the message being answered, every row of this turn,
\* and no row of another conversation.
PromptHoldsTurn ==
    \A w \in Workers : Prompting(w) =>
        /\ \A i \in turn[w].prompt : messages[i].conv = Conv(w)
        /\ \A i \in RowIds : messages[i].turn = running[w] => i \in turn[w].prompt

\* "rows <= this are covered by Summary" (store/conversations.go:16): the
\* summary was told exactly the rows up to the watermark.
SummaryCoversWatermark ==
    \A c \in Conversations :
        convs[c].covered = {i \in RowIds : /\ messages[i].conv = c
                                           /\ i <= convs[c].upto
                                           /\ messages[i].kind # "system_note"}

\* Messages of one conversation reached two workers (two chats of one contact).
SplitConversation(c) ==
    \E i, j \in Indices :
        /\ ConversationOf(accepted[i]) = c /\ ConversationOf(accepted[j]) = c
        /\ WorkerIndex(accepted[i]) # WorkerIndex(accepted[j])

\* A fold works with a watermark read minutes before; it moves the watermark
\* of a conversation back, over rows already summarised, only if messages of
\* that conversation went to two workers.
WatermarkAdvances ==
    [][\A c \in Conversations :
          convs'[c].upto >= convs[c].upto \/ SplitConversation(c)]_hVars

\* A turn asks the model at most MaxToolIterations times, and is escalated
\* only after every one of its rounds asked for tools and got their results.
RowsOf(i, kind) == {r \in RowIds : messages[r].turn = i /\ messages[r].kind = kind}
EscalationIsExhaustion ==
    \A i \in Indices :
        /\ Cardinality(RowsOf(i, "assistant")) <= AtLeastOne(MaxToolIterations + 1) - 1
        /\ i \in escalations \cup {sends[a].turn : a \in {b \in DOMAIN sends :
                                                            sends[b].text = "escalated"}} =>
              /\ \A r \in RowsOf(i, "assistant") : messages[r].uses
              /\ \A kind \in {"assistant", "tool_result"} :
                    Cardinality(RowsOf(i, kind)) = AtLeastOne(MaxToolIterations + 1) - 1

\* The customer is told no answer the stored history does not hold: behind
\* every answer is the user row and a final assistant row of the same turn.
AnswersAreInHistory ==
    \A a \in DOMAIN sends : sends[a].text = "answer" =>
        /\ RowsOf(sends[a].turn, "user") # {}
        /\ \E r \in RowsOf(sends[a].turn, "assistant") : ~messages[r].uses

\* The employee line writes rows, escalates and answers only for a registered
\* active employee; everyone else gets the fixed refusal or an apology.
StaffLineServesStaff ==
    LET Staff(i) == accepted[i].channel = "EMPLOYEE" => users[UserKey(accepted[i])] = "EMPLOYEE"
    IN  /\ \A r \in RowIds : Staff(messages[r].turn)
        /\ \A a \in DOMAIN sends : sends[a].text \in {"answer", "escalated"} => Staff(sends[a].turn)

\* EnsureCustomer "never changes the role of an existing user" (users.go:56),
\* and nothing else does.
RolesNeverChange ==
    [][\A u \in UserKeys : users'[u] # users[u] =>
           users[u] = Absent /\ users'[u] = "CUSTOMER"]_hVars

\* One message in, one reply out (harness.go:1-3), eventually: while the
\* database answers in time, a reply is attempted to every message the pool
\* takes, whatever the model and WhatsApp do, unless the process stops.
EveryMessageAnswered ==
    \A i \in 1 .. MaxAccepted :
        i \in Indices ~>
            \/ phase # "running"
            \/ i \in Indices /\ \E a \in DOMAIN sends : KeyOf(sends[a].turn) = KeyOf(i)

\* "I've passed the conversation to a member of our team" (harness.go:41): who
\* is told so has a row in the escalation queue.
EscalationsAreQueued ==
    \A a \in DOMAIN sends :
        sends[a].delivered /\ sends[a].text = "escalated" => sends[a].turn \in escalations

\* Every row of turn i that requests tools has results after it, before the
\* next answer of the model.
Answered(i) ==
    \A r \in RowsOf(i, "assistant") : messages[r].uses =>
        \E q \in RowsOf(i, "tool_result") :
            r < q /\ \A s \in RowsOf(i, "assistant") : s <= r \/ q < s

\* "Execute every requested tool; all results go back" (harness.go:210): a
\* turn that is over left no tool request without results.
RequestedToolsAreAnswered ==
    \A i \in handled : Answered(i)

\* Short of that, for a client that reports tool use as such: a turn that is
\* over and left a request without results told the sender that it failed.  A
\* statement that fails, runs out of time or loses its acknowledgement in the
\* middle of an exchange never lets the loop go on to an answer.
UnansweredToolsAreTold ==
    \A i \in handled :
        Answered(i) \/ \E a \in DOMAIN sends : sends[a].turn = i /\ sends[a].text = "failed"
==============================================================================
