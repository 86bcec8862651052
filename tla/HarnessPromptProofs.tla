------------------------- MODULE HarnessPromptProofs -------------------------
(***************************************************************************)
(* What a turn knows of its conversation stays true while it works: its    *)
(* snapshot of the watermark and the summary, and the rows of its prompt.  *)
(* So a prompt holds the message it answers, a fold only moves the         *)
(* watermark forward, and what it folds is all there is to fold.           *)
(*                                                                         *)
(* All of this is so until messages of one conversation go to two workers, *)
(* which the code only prevents when the conversation has one chat.        *)
(***************************************************************************)
EXTENDS HarnessTurnProofs

OneWorkerEach ==
    \A m, n \in Inbounds : ConversationOf(m) = ConversationOf(n) =>
                               WorkerIndex(m) = WorkerIndex(n)

\* The rows of a conversation that count, and those after a watermark.
ConvRows(c) == {r \in RowIds : messages[r].conv = c /\ messages[r].kind # "system_note"}
After(c, upto) == {r \in ConvRows(c) : r > upto}

NewestRow(c, u) == u \in ConvRows(c) /\ \A r \in ConvRows(c) : r <= u

\* Where a turn works on the snapshot it took of its conversation.
Opened(label, t) ==
    \/ label \in {"persist", "history", "model", "tools", "escalate", "mark", "note",
                  "count", "fold"}
    \/ label = "reply" /\ t.next # "end"

\* A prompt has every row of the conversation from one on: a user row, and
\* those of turn i, unless the tail it is cut from is empty by configuration.
Prompt(c, i, rows) ==
    /\ rows \subseteq ConvRows(c)
    /\ \A p \in rows : \A r \in ConvRows(c) : p <= r => r \in rows
    /\ HistoryTailLimit > 0 =>
          /\ rows # {} /\ TurnRows(i) \subseteq rows
          /\ \A p \in rows : (\A r \in rows : p <= r) => messages[p].kind = "user"

\* A fold takes the rows after the watermark from the oldest on.
Fold(c, upto, rows) ==
    /\ rows \subseteq After(c, upto)
    /\ \A f \in rows : \A r \in After(c, upto) : r <= f => r \in rows

\* What turn i of conversation c knows when it stands at `label' with locals t.
Sees(c, i, label, t) ==
    /\ Opened(label, t) => t.upto = convs[c].upto /\ t.covered = convs[c].covered
    /\ label = "history" => \E u \in RowIds : /\ NewestRow(c, u) /\ u > t.upto
                                              /\ messages[u].kind = "user"
                                              /\ TurnRows(i) \subseteq {u}
    /\ label \in {"model", "tools"} => Prompt(c, i, t.prompt)
    /\ label = "fold" => Fold(c, t.upto, t.fold)

\* The inductive invariant: a turn sees its conversation as it is, unless
\* messages of the conversation went to another worker as well.
TailInv == /\ \A c \in Conversations : convs[c].upto <= Len(messages)
           /\ \A w \in Workers :
                 pc[w] # "idle" => \/ SplitConversation(Conv(w))
                                   \/ Sees(Conv(w), running[w], pc[w], turn[w])

-----------------------------------------------------------------------------
\* One chat per conversation is enough.
LEMMA OneChatIsEnough ==
    ASSUME \A m, n \in Inbounds : ConversationOf(m) = ConversationOf(n) => LaneKey(m) = LaneKey(n)
    PROVE  OneWorkerEach
BY LaneHasOneWorker DEF OneWorkerEach

\* Then no conversation is ever split ...
LEMMA NeverSplit ==
    ASSUME OneWorkerEach, PoolInv, NEW c
    PROVE  ~SplitConversation(c)
<1>1. \A i \in Indices : accepted[i] \in Inbounds
    BY DEF PoolInv, PoolTypeOK, Indices
<1> QED
    BY <1>1 DEF SplitConversation, OneWorkerEach

\* Two turns in progress are turns of different conversations, or of a split one.
LEMMA OthersElsewhere ==
    ASSUME PoolInv, HTypeOK, NEW v \in Workers, NEW w \in Workers, v # w,
           pc[v] # "idle", pc[w] # "idle"
    PROVE  Conv(v) # Conv(w) \/ SplitConversation(Conv(w))
<1>1. running[v] \in Indices /\ running[w] \in Indices
    BY TurnHasMessage
<1>2. WorkerIndex(accepted[running[v]]) # WorkerIndex(accepted[running[w]])
    BY TurnHasMessage DEF PoolInv, RunningInLane
<1> QED
    BY <1>1, <1>2 DEF SplitConversation, Conv, Msg

\* A conversation that is split stays so.
LEMMA SplitStays ==
    ASSUME PoolInv, [PoolNext]_poolVars, NEW c, SplitConversation(c)
    PROVE  SplitConversation(c)'
<1>1. PICK i, j \in Indices :
         /\ ConversationOf(accepted[i]) = c /\ ConversationOf(accepted[j]) = c
         /\ WorkerIndex(accepted[i]) # WorkerIndex(accepted[j])
    BY DEF SplitConversation
<1>2. accepted'[i] = accepted[i] /\ accepted'[j] = accepted[j]
    BY NumbersKeep
<1>3. i \in Indices' /\ j \in Indices'
    BY IndicesGrow
<1>4. \A m : WorkerIndex(m)' = WorkerIndex(m) /\ ConversationOf(m)' = ConversationOf(m)
    OBVIOUS
<1> QED
    BY <1>1, <1>2, <1>3 DEF SplitConversation

\* The rows buildHistory and maybeSummarize read.
LEMMA RowsAfterIs ==
    ASSUME HTypeOK
    PROVE  \A c, upto : RowsAfter(c, upto) = After(c, upto)
<1>1. DOMAIN messages = RowIds
    BY DEF HTypeOK, TablesOK, RowIds
<1> QED BY <1>1 DEF RowsAfter, After, ConvRows

\* A row goes to the end of its conversation, and to no other.
LEMMA ConvRowAdded ==
    ASSUME HTypeOK, NEW w \in Workers, pc[w] # "idle", PoolInv,
           NEW kind \in Kinds, NEW uses \in BOOLEAN, NEW o, o # "err",
           AppendMessage(w, kind, uses, o)
    PROVE  LET new == Len(messages) + 1
           IN  /\ \A c : ConvRows(c)' = IF c = Conv(w) /\ kind # "system_note"
                                        THEN ConvRows(c) \cup {new} ELSE ConvRows(c)
               /\ new \in Nat /\ \A r \in RowIds : r \in Nat /\ r < new
               /\ Len(messages)' = new
<1> DEFINE new == Len(messages) + 1
           row == [conv |-> Conv(w), kind |-> kind, turn |-> running[w], uses |-> uses]
<1>1. messages \in Seq(Row)
    BY DEF HTypeOK, TablesOK
<1>2. /\ new \notin RowIds /\ RowIds' = RowIds \cup {new}
      /\ \A r \in RowIds : messages'[r] = messages[r]
      /\ messages'[new].kind = kind /\ messages'[new].conv = Conv(w)
    BY RowAdded
<1>3. messages' = Append(messages, row)
    BY DEF AppendMessage
<1>4. new \in Nat /\ \A r \in RowIds : r \in Nat /\ r < new
    BY <1>1 DEF RowIds
<1>5. Len(messages)' = new
    BY <1>1, <1>3
<1> HIDE DEF new, row
<1>6. ASSUME NEW c
      PROVE  ConvRows(c)' = IF c = Conv(w) /\ kind # "system_note" THEN ConvRows(c) \cup {new}
                                                                  ELSE ConvRows(c)
    <2>1. \A r : r \in ConvRows(c)' <=> /\ r \in RowIds \cup {new}
                                        /\ messages'[r].conv = c /\ messages'[r].kind # "system_note"
        BY <1>2 DEF ConvRows
    <2>2. \A r : r \in ConvRows(c) <=> /\ r \in RowIds
                                       /\ messages[r].conv = c /\ messages[r].kind # "system_note"
        BY DEF ConvRows
    <2> QED BY <1>2, <2>1, <2>2
<1> QED BY <1>4, <1>5, <1>6 DEF new

\* What a call of w leaves alone: the other conversations.
SparesConv(c) ==
    /\ ConvRows(c)' = ConvRows(c)
    /\ c \in Conversations => /\ convs'[c].upto = convs[c].upto
                              /\ convs'[c].covered = convs[c].covered

\* Who knows something of a conversation that is spared still knows it.
LEMMA SeesStays ==
    ASSUME Keeps, NEW c \in Conversations, SparesConv(c), NEW i, TurnRows(i)' = TurnRows(i),
           NEW label, NEW t, Sees(c, i, label, t)
    PROVE  Sees(c, i, label, t)'
<1>1. ConvRows(c)' = ConvRows(c) /\ \A upto : After(c, upto)' = After(c, upto)
    BY DEF SparesConv, After
<1>2. \A r \in ConvRows(c) : messages'[r] = messages[r]
    BY DEF Keeps, ConvRows
<1>3. \A u : NewestRow(c, u) => NewestRow(c, u)'
    BY <1>1 DEF NewestRow
<1>4. \A rows : Prompt(c, i, rows) => Prompt(c, i, rows)'
    BY <1>1, <1>2 DEF Prompt
<1>5. \A upto, rows : Fold(c, upto, rows) => Fold(c, upto, rows)'
    BY <1>1 DEF Fold
<1>6. Opened(label, t)' = Opened(label, t)
    BY DEF Opened
<1>7. ASSUME label = "history"
      PROVE  (\E u \in RowIds : /\ NewestRow(c, u) /\ u > t.upto /\ messages[u].kind = "user"
                                /\ TurnRows(i) \subseteq {u})'
    <2>1. PICK u \in RowIds : /\ NewestRow(c, u) /\ u > t.upto /\ messages[u].kind = "user"
                              /\ TurnRows(i) \subseteq {u}
        BY <1>7 DEF Sees
    <2> QED
        BY <1>2, <1>3, <2>1 DEF Keeps
<1> QED
    BY <1>4, <1>5, <1>6, <1>7 DEF Sees, SparesConv

\* The worker that stands there knows it.
LEMMA SeesNext ==
    ASSUME NEW w, NEW c, NEW i, NEW label, NEW t, Sees(c, i, label, t)',
           c = Conv(w)', i = running'[w], label = pc'[w], t = turn'[w]
    PROVE  Sees(Conv(w), running[w], pc[w], turn[w])'
OBVIOUS

-----------------------------------------------------------------------------
\* Which calls write the conversations row, and what.
LEMMA ConvsStep ==
    ASSUME HTypeOK, PoolInv, NEW w \in Workers, Step(w)
    PROVE  /\ \A c \in Conversations : c # Conv(w) => convs'[c] = convs[c]
           /\ ~FoldSummary(w) => \A c \in Conversations : /\ convs'[c].upto = convs[c].upto
                                                          /\ convs'[c].covered = convs[c].covered
<1> DEFINE C == [upto : Nat, covered : SUBSET RowIds, escalated : BOOLEAN]
<1>1. convs \in [Conversations -> C]
    BY DEF HTypeOK, TablesOK
<1>2. CASE UNCHANGED convs
    BY <1>2
<1>3. CASE SetEscalated(w)
    <2>1. convs' \in {convs, [convs EXCEPT ![Conv(w)].escalated = TRUE]}
        BY <1>3 DEF SetEscalated
    <2>2. ASSUME NEW c \in Conversations
          PROVE  /\ c # Conv(w) => convs'[c] = convs[c]
                 /\ convs'[c].upto = convs[c].upto /\ convs'[c].covered = convs[c].covered
        <3>1. convs[c] \in C
            BY <1>1
        <3> QED BY <1>1, <2>1, <3>1
    <2> QED BY <2>2
<1>4. CASE FoldSummary(w)
    <2>1. \/ convs' = convs
          \/ \E i, cov : convs' = [convs EXCEPT ![Conv(w)].upto = i, ![Conv(w)].covered = cov]
        BY <1>4 DEF FoldSummary
    <2>2. ASSUME NEW c \in Conversations, c # Conv(w) PROVE convs'[c] = convs[c]
        BY <1>1, <2>1, <2>2
    <2> QED BY <1>4, <2>2
<1>5. UNCHANGED convs \/ SetEscalated(w) \/ FoldSummary(w)
    BY DEF Step, Dedup, EnsureCustomer, LookupCustomer, LookupEmployee, CompanyFails, OpenConversation,
           PersistInbound, BuildHistory, ModelAnswers, ModelFailure, RunTools,
           CreateEscalation, NoteEscalation, Reply, CountTail, tables
<1> QED BY <1>2, <1>3, <1>4, <1>5

\* A call leaves the other conversations alone.
LEMMA StepSparesOthers ==
    ASSUME PoolInv, HTypeOK, NEW w \in Workers, Step(w), NEW c, c # Conv(w)
    PROVE  SparesConv(c)
<1>1. pc[w] # "idle"
    BY StepIsInTurn
<1>2. ConvRows(c)' = ConvRows(c)
    <2>1. CASE UNCHANGED messages
        BY <2>1 DEF ConvRows, RowIds
    <2>2. CASE ~UNCHANGED messages
        <3>1. PICK kind \in Kinds, uses \in BOOLEAN :
                  \E o : o # "err" /\ AppendMessage(w, kind, uses, o)
            BY <2>2, StepAppends
        <3>2. PICK o : o # "err" /\ AppendMessage(w, kind, uses, o)
            BY <3>1
        <3> QED BY <1>1, <3>2, ConvRowAdded
    <2> QED BY <2>1, <2>2
<1> QED BY <1>2, ConvsStep DEF SparesConv

\* A station that asks nothing of the rows.
LEMMA PlainSees ==
    ASSUME NEW c, NEW i, NEW label, NEW t, label \notin {"history", "model", "tools", "fold"},
           Opened(label, t) => t.upto = convs[c].upto /\ t.covered = convs[c].covered
    PROVE  Sees(c, i, label, t)
BY DEF Sees

\* The newest rows, from the first user row on, are every row from there on.
LEMMA PromptIs ==
    ASSUME HTypeOK, NEW c, NEW i, NEW upto \in Nat,
           NEW u \in RowIds, NewestRow(c, u), u > upto,
           messages[u].kind = "user", TurnRows(i) \subseteq {u}
    PROVE  Prompt(c, i, FromFirstUser(Newest(RowsAfter(c, upto), HistoryTailLimit)))
<1> DEFINE S == After(c, upto)
           N == Newest(S, HistoryTailLimit)
           P == FromFirstUser(N)
<1>1. Len(messages) \in Nat /\ RowIds \subseteq Nat
    BY DEF HTypeOK, TablesOK, RowIds
<1>2. IsFiniteSet(RowIds)
    BY <1>1, FS_Interval DEF RowIds
<1>3. S \subseteq RowIds /\ S \subseteq ConvRows(c) /\ RowsAfter(c, upto) = S
    BY RowsAfterIs DEF After, ConvRows
<1>4. HistoryTailLimit \in Nat
    BY HarnessAssumption
<1>5. ASSUME NEW p \in N, NEW r \in S, p <= r PROVE r \in N
    <2> DEFINE Lp == {j \in S : j > p}
               Lr == {j \in S : j > r}
    <2>1. Lr \subseteq Lp
        <3>1. p \in Nat /\ r \in Nat /\ \A j \in S : j \in Nat
            BY <1>1, <1>3, <1>5 DEF Newest
        <3>2. \A j \in S : j > r => j > p
            <4> SUFFICES ASSUME NEW j \in S, j > r PROVE j > p
                OBVIOUS
            <4>1. j \in Nat
                BY <3>1
            <4> QED BY <1>5, <3>1, <4>1
        <3> QED BY <3>2
    <2>2. IsFiniteSet(Lp)
        BY <1>2, <1>3, FS_Subset
    <2>3. Cardinality(Lr) <= Cardinality(Lp) /\ Cardinality(Lr) \in Nat /\ Cardinality(Lp) \in Nat
        BY <2>1, <2>2, FS_Subset, FS_CardinalityType
    <2>4. Cardinality(Lp) < HistoryTailLimit
        BY <1>5 DEF Newest
    <2>5. Cardinality(Lr) < HistoryTailLimit
        BY <1>4, <2>3, <2>4
    <2> QED BY <2>5 DEF Newest
<1>6. N \subseteq S /\ P \subseteq N
    BY DEF Newest, FromFirstUser
<1>7. ASSUME NEW p \in P, NEW r \in ConvRows(c), p <= r PROVE r \in P
    <2>1. p \in S /\ p > upto /\ r \in RowIds
        BY <1>6 DEF After, ConvRows
    <2>2. r \in S
        <3>1. r \in Nat /\ p \in Nat
            BY <1>1, <1>3, <2>1
        <3>2. r > upto
            BY <1>7, <2>1, <3>1
        <3> QED BY <3>2 DEF After
    <2>3. r \in N
        BY <1>5, <1>6, <1>7, <2>2
    <2>4. PICK j \in N : j <= p /\ messages[j].kind = "user"
        BY DEF FromFirstUser
    <2>5. j <= r
        BY <1>1, <1>3, <1>6, <1>7, <2>1, <2>4
    <2> QED BY <2>3, <2>4, <2>5 DEF FromFirstUser
<1>8. ASSUME NEW p \in P, \A r \in P : p <= r PROVE messages[p].kind = "user"
    <2>1. PICK j \in N : j <= p /\ messages[j].kind = "user"
        BY DEF FromFirstUser
    <2>2. j \in Nat /\ p \in Nat
        BY <1>1, <1>3, <1>6, <2>1
    <2>3. j \in P
        BY <2>1, <2>2 DEF FromFirstUser
    <2>4. p <= j
        BY <1>8, <2>3
    <2>5. p = j
        BY <2>1, <2>2, <2>4
    <2> QED BY <2>1, <2>5
<1>9. ASSUME HistoryTailLimit > 0 PROVE u \in P
    <2>1. u \in S
        BY DEF NewestRow, After
    <2>2. \A j \in S : ~(j > u)
        <3> SUFFICES ASSUME NEW j \in S PROVE ~(j > u)
            OBVIOUS
        <3>1. j <= u /\ j \in Nat /\ u \in Nat
            BY <1>1, <1>3 DEF NewestRow
        <3> QED BY <3>1
    <2>3. {j \in S : j > u} = {}
        BY <2>2
    <2>4. Cardinality({j \in S : j > u}) = 0
        BY <2>3, FS_EmptySet
    <2>5. u \in N
        BY <1>4, <1>9, <2>1, <2>4 DEF Newest
    <2>6. u <= u
        BY <1>1
    <2> QED BY <2>5, <2>6 DEF FromFirstUser
<1> HIDE DEF P, N, S
<1>10. Prompt(c, i, P)
    BY <1>3, <1>6, <1>7, <1>8, <1>9 DEF Prompt
<1> QED BY <1>3, <1>10 DEF P, N

\* The oldest rows are every row up to the last of them.
LEMMA FoldIs ==
    ASSUME HTypeOK, NEW c, NEW upto, NEW n \in Int
    PROVE  Fold(c, upto, Oldest(After(c, upto), n))
<1> DEFINE S == After(c, upto)
           O == Oldest(S, n)
<1>1. Len(messages) \in Nat /\ RowIds \subseteq Nat
    BY DEF HTypeOK, TablesOK, RowIds
<1>2. IsFiniteSet(RowIds)
    BY <1>1, FS_Interval DEF RowIds
<1>3. S \subseteq RowIds
    BY DEF After, ConvRows
<1>4. ASSUME NEW f \in O, NEW r \in S, r <= f PROVE r \in O
    <2> DEFINE Bf == {j \in S : j < f}
               Br == {j \in S : j < r}
    <2>1. Br \subseteq Bf
        <3>1. f \in Nat /\ r \in Nat /\ \A j \in S : j \in Nat
            BY <1>1, <1>3, <1>4 DEF Oldest
        <3>2. \A j \in S : j < r => j < f
            <4> SUFFICES ASSUME NEW j \in S, j < r PROVE j < f
                OBVIOUS
            <4>1. j \in Nat
                BY <3>1
            <4> QED BY <1>4, <3>1, <4>1
        <3> QED BY <3>2
    <2>2. IsFiniteSet(Bf)
        BY <1>2, <1>3, FS_Subset
    <2>3. Cardinality(Br) <= Cardinality(Bf) /\ Cardinality(Br) \in Nat /\ Cardinality(Bf) \in Nat
        BY <2>1, <2>2, FS_Subset, FS_CardinalityType
    <2>4. Cardinality(Bf) < n
        BY <1>4 DEF Oldest
    <2>5. Cardinality(Br) < n
        BY <2>3, <2>4
    <2> QED BY <2>5 DEF Oldest
<1> QED
    BY <1>4 DEF Fold, Oldest

\* A call that writes no row.
LEMMA QuietSees ==
    ASSUME PoolInv, HTypeOK, NEW w \in Workers, Step(w), UNCHANGED messages,
           Sees(Conv(w), running[w], pc[w], turn[w])
    PROVE  \/ pc'[w] = "idle"
           \/ running' = running /\ Sees(Conv(w), running[w], pc'[w], turn'[w])
<1> DEFINE c == Conv(w)
           i == running[w]
<1> SUFFICES \/ pc'[w] = "idle"
             \/ running' = running /\ Sees(c, i, pc'[w], turn'[w])
    OBVIOUS
<1>1. /\ pc[w] # "idle" /\ c \in Conversations /\ TurnsOK /\ running \in [Workers -> Nat]
      /\ Sees(c, i, pc[w], turn[w])
    BY StepIsInTurn, TurnHasMessage DEF HTypeOK, PoolTypeOK
<1>2. turn \in [Workers -> Locals] /\ turn[w] \in Locals
    BY <1>1 DEF TurnsOK
<1> HIDE DEF c, i
<1>3. ASSUME Return(w) PROVE pc'[w] = "idle"
    BY <1>1, <1>3, ReturnIs
<1>4. ASSUME NEW text, ReplyWith(w, text, "end")
      PROVE  running' = running /\ Sees(c, i, pc'[w], turn'[w])
    <2>1. pc'[w] = "reply" /\ UNCHANGED poolVars /\ turn'[w].next = "end"
        BY <1>1, <1>4, ReplyWithIs
    <2>2. ~Opened(pc'[w], turn'[w])
        BY <2>1 DEF Opened
    <2> QED BY <2>1, <2>2, PlainSees DEF poolVars
<1>5. ASSUME Opened(pc[w], turn[w]), NEW text, NEW next, ReplyWith(w, text, next)
      PROVE  running' = running /\ Sees(c, i, pc'[w], turn'[w])
    <2>1. /\ pc'[w] = "reply" /\ UNCHANGED poolVars
          /\ turn'[w].upto = turn[w].upto /\ turn'[w].covered = turn[w].covered
        BY <1>1, <1>5, ReplyWithIs
    <2>2. turn[w].upto = convs[c].upto /\ turn[w].covered = convs[c].covered
        BY <1>1, <1>5 DEF Sees
    <2> QED BY <2>1, <2>2, PlainSees DEF poolVars
<1>6. ASSUME NEW label \in {"identity", "lookup", "open"}, Goto(w, label)
      PROVE  running' = running /\ Sees(c, i, pc'[w], turn'[w])
    <2>1. pc'[w] = label /\ UNCHANGED poolVars
        BY <1>1, <1>6, GotoIs
    <2>2. ~Opened(pc'[w], turn'[w])
        BY <2>1 DEF Opened
    <2> QED BY <2>1, <2>2, PlainSees DEF poolVars
<1>7. ASSUME NEW label \in {"mark", "count", "note"}, Goto(w, label), UNCHANGED turn,
             Opened(pc[w], turn[w])
      PROVE  running' = running /\ Sees(c, i, pc'[w], turn'[w])
    <2>1. pc'[w] = label /\ UNCHANGED poolVars
        BY <1>1, <1>7, GotoIs
    <2>2. turn'[w].upto = convs[c].upto /\ turn'[w].covered = convs[c].covered
        BY <1>1, <1>7 DEF Sees
    <2> QED BY <2>1, <2>2, PlainSees DEF poolVars
<1>8. pc[w] \in {"model", "tools", "escalate", "mark"} => Opened(pc[w], turn[w])
    BY DEF Opened
<1>11. CASE Dedup(w)
    BY <1>3, <1>6, <1>11 DEF Dedup
<1>12. CASE EnsureCustomer(w)
    BY <1>4, <1>6, <1>12 DEF EnsureCustomer, Apologise
<1>13. CASE LookupCustomer(w) \/ LookupEmployee(w)
    BY <1>4, <1>6, <1>13 DEF LookupCustomer, LookupEmployee, Apologise
<1>14. CASE CompanyFails(w)
    BY <1>3, <1>14 DEF CompanyFails
<1>15. CASE OpenConversation(w)
    <2>1. CASE Apologise(w)
        BY <1>4, <2>1 DEF Apologise
    <2>2. CASE ~Apologise(w)
        <3>1. /\ turn' = [turn EXCEPT ![w].upto = convs[c].upto, ![w].covered = convs[c].covered]
              /\ Goto(w, "persist")
            BY <1>15, <2>2 DEF OpenConversation, c
        <3>2. turn'[w].upto = convs[c].upto /\ turn'[w].covered = convs[c].covered
            BY <1>2, <3>1 DEF Locals
        <3>3. pc'[w] = "persist" /\ UNCHANGED poolVars
            BY <1>1, <3>1, GotoIs
        <3> QED BY <3>2, <3>3, PlainSees DEF poolVars
    <2> QED BY <2>1, <2>2
<1>16. CASE PersistInbound(w)
    <2>1. Len(messages) \in Nat /\ messages' = messages
        BY DEF HTypeOK, TablesOK
    <2>2. PICK o \in Outcomes(w) : /\ AppendMessage(w, "user", FALSE, o)
                                   /\ o = "ok" \/ Apologise(w)
        BY <1>16 DEF PersistInbound
    <2>3. o = "err"
        <3>1. \A row : messages' # Append(messages, row)
            <4> SUFFICES ASSUME NEW row, messages' = Append(messages, row) PROVE FALSE
                OBVIOUS
            <4>1. messages \in Seq(Row)
                BY DEF HTypeOK, TablesOK
            <4>2. Len(messages') = Len(messages) + 1
                BY <4>1
            <4> QED BY <2>1, <4>2
        <3> QED BY <2>2, <3>1 DEF AppendMessage
    <2>4. Apologise(w)
        BY <2>2, <2>3
    <2> QED BY <1>4, <2>4 DEF Apologise
<1>17. CASE BuildHistory(w)
    <2>1. CASE Apologise(w)
        BY <1>4, <2>1 DEF Apologise
    <2>2. CASE ~Apologise(w)
        <3> DEFINE p == FromFirstUser(Newest(RowsAfter(c, turn[w].upto), HistoryTailLimit))
        <3>1. turn' = [turn EXCEPT ![w].prompt = p] /\ Goto(w, Round(0)) /\ pc[w] = "history"
            BY <1>17, <2>2 DEF BuildHistory, c
        <3>2. Prompt(c, i, p)
            <4>1. PICK u \in RowIds : /\ NewestRow(c, u) /\ u > turn[w].upto
                                      /\ messages[u].kind = "user" /\ TurnRows(i) \subseteq {u}
                BY <1>1, <3>1 DEF Sees
            <4>2. turn[w].upto \in Nat
                BY <1>2 DEF Locals
            <4> QED BY <4>1, <4>2, PromptIs
        <3> HIDE DEF p
        <3>3. /\ turn'[w].upto = turn[w].upto /\ turn'[w].covered = turn[w].covered
              /\ turn'[w].prompt = p
            BY <1>2, <3>1 DEF Locals
        <3>4. turn[w].upto = convs[c].upto /\ turn[w].covered = convs[c].covered
            BY <1>1, <3>1 DEF Sees, Opened
        <3>5. pc'[w] = Round(0) /\ UNCHANGED poolVars
            BY <1>1, <3>1, GotoIs
        <3>6. Round(0) \in {"model", "escalate"}
            BY DEF Round
        <3>7. Sees(c, i, pc'[w], turn'[w])
            BY <3>2, <3>3, <3>4, <3>5, <3>6 DEF Sees
        <3> QED BY <3>5, <3>7 DEF poolVars
    <2> QED BY <2>1, <2>2
<1>18. CASE ModelAnswers(w) \/ RunTools(w)
    <2>1. Len(messages) \in Nat /\ messages' = messages /\ messages \in Seq(Row)
        BY DEF HTypeOK, TablesOK
    <2>2. \E kind, uses : \E o : /\ AppendMessage(w, kind, uses, o)
                                 /\ o # "ok" => ReplyWith(w, "failed", "count")
        BY <1>18 DEF ModelAnswers, RunTools
    <2>3. PICK kind, uses, o : /\ AppendMessage(w, kind, uses, o)
                               /\ o # "ok" => ReplyWith(w, "failed", "count")
        BY <2>2
    <2>4. o # "ok"
        <3>1. \A row : Len(Append(messages, row)) = Len(messages) + 1
            BY <2>1
        <3> QED BY <2>1, <2>3, <3>1 DEF AppendMessage
    <2>5. Opened(pc[w], turn[w])
        BY <1>8, <1>18 DEF ModelAnswers, RunTools
    <2> QED BY <1>5, <2>3, <2>4, <2>5
<1>19. CASE ModelFailure(w)
    BY <1>5, <1>8, <1>19 DEF ModelFailure
<1>20. CASE CreateEscalation(w)
    BY <1>7, <1>8, <1>20 DEF CreateEscalation
<1>21. CASE SetEscalated(w)
    BY <1>5, <1>8, <1>21 DEF SetEscalated
<1>22. CASE NoteEscalation(w)
    BY <1>3, <1>22 DEF NoteEscalation
<1>23. CASE Reply(w)
    <2>1. Return(w) \/ (turn[w].next # "end" /\ Goto(w, turn[w].next) /\ UNCHANGED turn)
        BY <1>23 DEF Reply
    <2>2. turn[w].next \in {"end", "count", "note"} /\ pc[w] = "reply"
        BY <1>2, <1>23 DEF Locals, Reply
    <2>3. turn[w].next # "end" => Opened(pc[w], turn[w])
        BY <2>2 DEF Opened
    <2> QED BY <1>3, <1>7, <2>1, <2>2, <2>3
<1>24. CASE CountTail(w)
    <2>1. CASE Return(w)
        BY <1>3, <2>1
    <2>2. CASE ~Return(w)
        <3> DEFINE tail == RowsAfter(c, turn[w].upto)
                   n == Cardinality(tail) - HistoryTailLimit
                   f == Oldest(tail, n)
        <3>1. turn' = [turn EXCEPT ![w].fold = f] /\ Goto(w, "fold") /\ pc[w] = "count"
            BY <1>24, <2>2 DEF CountTail, c
        <3>2. n \in Int
            <4>1. Len(messages) \in Nat
                BY DEF HTypeOK, TablesOK
            <4>2. IsFiniteSet(RowIds) /\ tail \subseteq RowIds
                BY <4>1, FS_Interval, RowsAfterIs DEF RowIds, After, ConvRows
            <4>3. Cardinality(tail) \in Nat
                BY <4>2, FS_Subset, FS_CardinalityType
            <4> QED BY <4>3, HarnessAssumption
        <3> HIDE DEF n
        <3>3. Fold(c, turn[w].upto, f)
            BY <3>2, RowsAfterIs, FoldIs
        <3> HIDE DEF f
        <3>4. /\ turn'[w].upto = turn[w].upto /\ turn'[w].covered = turn[w].covered
              /\ turn'[w].fold = f
            BY <1>2, <3>1 DEF Locals
        <3>5. turn[w].upto = convs[c].upto /\ turn[w].covered = convs[c].covered
            BY <1>1, <3>1 DEF Sees, Opened
        <3>6. pc'[w] = "fold" /\ UNCHANGED poolVars
            BY <1>1, <3>1, GotoIs
        <3>7. Sees(c, i, pc'[w], turn'[w])
            BY <3>3, <3>4, <3>5, <3>6 DEF Sees
        <3> QED BY <3>6, <3>7 DEF poolVars
    <2> QED BY <2>1, <2>2
<1>25. CASE FoldSummary(w)
    BY <1>3, <1>25 DEF FoldSummary
<1> QED
    BY <1>11, <1>12, <1>13, <1>14, <1>15, <1>16, <1>17, <1>18, <1>19, <1>20, <1>21, <1>22,
       <1>23, <1>24, <1>25 DEF Step

-----------------------------------------------------------------------------
\* A row of its own turn makes a prompt longer.
LEMMA PromptGrows ==
    ASSUME HTypeOK, NEW c, NEW i, NEW rows, Prompt(c, i, rows), NEW new \in Nat,
           \A r \in RowIds : r \in Nat /\ r < new /\ messages'[r] = messages[r],
           ConvRows(c)' = ConvRows(c) \cup {new},
           TurnRows(i)' = TurnRows(i) \cup {new}
    PROVE  Prompt(c, i, rows \cup {new})'
<1> DEFINE more == rows \cup {new}
<1>1. rows \subseteq ConvRows(c) /\ ConvRows(c) \subseteq RowIds
    BY DEF Prompt, ConvRows
<1>2. more \subseteq ConvRows(c)'
    BY <1>1
<1>3. ASSUME NEW p \in more, NEW r \in ConvRows(c) \cup {new}, p <= r PROVE r \in more
    <2>1. CASE r = new
        BY <2>1
    <2>2. CASE r # new
        <3>1. r \in ConvRows(c) /\ r \in Nat /\ r < new
            BY <1>1, <2>2
        <3>2. p # new
            BY <1>3, <3>1
        <3> QED BY <1>3, <3>1, <3>2 DEF Prompt
    <2> QED BY <2>1, <2>2
<1>4. ASSUME HistoryTailLimit > 0
      PROVE  /\ more # {} /\ TurnRows(i)' \subseteq more
             /\ \A p \in more : (\A r \in more : p <= r) => messages'[p].kind = "user"
    <2>1. rows # {} /\ TurnRows(i) \subseteq rows
        BY <1>4 DEF Prompt
    <2>2. ASSUME NEW p \in more, \A r \in more : p <= r PROVE messages'[p].kind = "user"
        <3>1. p # new
            <4>1. PICK q \in rows : TRUE
                BY <2>1
            <4>2. q \in Nat /\ q < new
                BY <1>1, <4>1
            <4> QED BY <2>2, <4>1, <4>2
        <3>2. p \in rows /\ p \in RowIds
            BY <1>1, <3>1
        <3> QED BY <1>4, <2>2, <3>2 DEF Prompt
    <2> QED BY <2>1, <2>2
<1> QED
    BY <1>2, <1>3, <1>4 DEF Prompt

\* A call that writes a row.
LEMMA WriteSees ==
    ASSUME PoolInv, HTypeOK, TailInv, TurnInv, NEW w \in Workers, Step(w), ~UNCHANGED messages,
           Sees(Conv(w), running[w], pc[w], turn[w])
    PROVE  \/ pc'[w] = "idle"
           \/ /\ running' = running
              /\ \A c, i, label, t : /\ c = Conv(w) /\ i = running[w]
                                     /\ label = pc'[w] /\ t = turn'[w]
                                     => Sees(c, i, label, t)'
<1>1. PICK c, i : c = Conv(w) /\ i = running[w]
    OBVIOUS
<1>2. /\ pc[w] # "idle" /\ c \in Conversations /\ TurnsOK /\ running \in [Workers -> Nat]
      /\ Sees(c, i, pc[w], turn[w]) /\ At(i, pc[w], turn[w])
    BY <1>1, StepIsInTurn, TurnHasMessage DEF HTypeOK, PoolTypeOK, TurnInv
<1>3. turn \in [Workers -> Locals] /\ turn[w] \in Locals
    BY <1>2 DEF TurnsOK
<1>0. PICK new : new = Len(messages) + 1
    OBVIOUS
<1>4. ASSUME NEW kind \in Kinds, NEW uses \in BOOLEAN, NEW o, AppendMessage(w, kind, uses, o),
             kind # "system_note"
      PROVE  /\ o # "err" /\ new \in Nat
             /\ \A r \in RowIds : r \in Nat /\ r < new /\ messages'[r] = messages[r]
             /\ ConvRows(c)' = ConvRows(c) \cup {new}
             /\ TurnRows(i)' = TurnRows(i) \cup {new}
             /\ new \in RowIds' /\ messages'[new].kind = kind
    <2>1. o # "err"
        BY <1>4 DEF AppendMessage
    <2> QED BY <1>0, <1>1, <1>2, <1>4, <2>1, RowAdded, ConvRowAdded
<1>5. ~FoldSummary(w)
    BY DEF FoldSummary
<1>6. convs'[c].upto = convs[c].upto /\ convs'[c].covered = convs[c].covered
    BY <1>2, <1>5, ConvsStep
<1> DEFINE Goal(label, t) == Sees(c, i, label, t)'
<1>7. ASSUME NEW label, NEW t, label \notin {"history", "model", "tools", "fold"},
             Opened(label, t) => t.upto = convs[c].upto /\ t.covered = convs[c].covered
      PROVE  Goal(label, t)
    <2>1. Opened(label, t)' <=> Opened(label, t)
        BY DEF Opened
    <2> QED BY <1>6, <1>7, <2>1 DEF Sees
<1>8. ASSUME Opened(pc[w], turn[w]), NEW text, NEW next, ReplyWith(w, text, next)
      PROVE  running' = running /\ \A label, t : label = pc'[w] /\ t = turn'[w] => Goal(label, t)
    <2>1. /\ pc'[w] = "reply" /\ UNCHANGED poolVars
          /\ turn'[w].upto = turn[w].upto /\ turn'[w].covered = turn[w].covered
        BY <1>2, <1>8, ReplyWithIs
    <2>2. turn[w].upto = convs[c].upto /\ turn[w].covered = convs[c].covered
        BY <1>2, <1>8 DEF Sees
    <2> HIDE DEF Goal
    <2> QED BY <1>7, <2>1, <2>2 DEF poolVars
<1>9. pc[w] \in {"model", "tools", "persist"} => Opened(pc[w], turn[w])
    BY DEF Opened
<1>10. ASSUME pc[w] \in {"model", "tools"}, NEW label \in {"model", "tools", "escalate"},
              pc'[w] = label, turn'[w].upto = turn[w].upto, turn'[w].covered = turn[w].covered,
              turn'[w].prompt = turn[w].prompt \cup {new}, new \in Nat,
              \A r \in RowIds : r \in Nat /\ r < new /\ messages'[r] = messages[r],
              ConvRows(c)' = ConvRows(c) \cup {new}, TurnRows(i)' = TurnRows(i) \cup {new}
       PROVE  \A t : t = turn'[w] => Goal(label, t)
    <2>1. turn[w].upto = convs[c].upto /\ turn[w].covered = convs[c].covered
        BY <1>2, <1>9, <1>10 DEF Sees
    <2>2. Prompt(c, i, turn[w].prompt)
        BY <1>2, <1>10 DEF Sees
    <2>3. \A rows : Prompt(c, i, rows) => Prompt(c, i, rows \cup {new})'
        BY <1>10, PromptGrows
    <2>4. \A rows : rows = turn[w].prompt \cup {new} => Prompt(c, i, rows)'
        BY <2>2, <2>3
    <2> SUFFICES ASSUME NEW t, t = turn'[w] PROVE Goal(label, t)
        OBVIOUS
    <2>5. Prompt(c, i, t.prompt)'
        BY <1>10, <2>4
    <2>6. t.upto = convs'[c].upto /\ t.covered = convs'[c].covered
        BY <1>6, <1>10, <2>1
    <2> QED BY <2>5, <2>6 DEF Sees
<1> HIDE DEF Goal
<1>11. \/ pc'[w] = "idle"
       \/ running' = running /\ \A label, t : label = pc'[w] /\ t = turn'[w] => Goal(label, t)
    <2>1. CASE PersistInbound(w)
        <3>1. PICK o : AppendMessage(w, "user", FALSE, o)
                       /\ IF o = "ok" THEN Goto(w, "history") /\ UNCHANGED turn
                                      ELSE Apologise(w)
            BY <2>1 DEF PersistInbound
        <3>2. pc[w] = "persist"
            BY <2>1 DEF PersistInbound
        <3>3. CASE Apologise(w)
            BY <1>8, <1>9, <3>2, <3>3 DEF Apologise
        <3>4. CASE Goto(w, "history") /\ UNCHANGED turn
            <4>1. /\ new \in Nat /\ \A r \in RowIds : r \in Nat /\ r < new /\ messages'[r] = messages[r]
                  /\ ConvRows(c)' = ConvRows(c) \cup {new}
                  /\ TurnRows(i)' = TurnRows(i) \cup {new}
                  /\ new \in RowIds' /\ messages'[new].kind = "user"
                BY <1>4, <3>1 DEF Kinds
            <4>2. TurnRows(i)' = {new}
                BY <1>2, <3>2, <4>1 DEF At, Untold, Traceless
            <4>3. NewestRow(c, new)'
                <5>1. \A r \in ConvRows(c) : r <= new
                    BY <4>1 DEF ConvRows
                <5> QED BY <4>1, <5>1 DEF NewestRow
            <4>4. turn[w].upto = convs[c].upto /\ turn[w].covered = convs[c].covered
                BY <1>2, <1>9, <3>2 DEF Sees
            <4>5. new > turn[w].upto
                <5>1. convs[c].upto <= Len(messages) /\ Len(messages) \in Nat
                    BY <1>2 DEF TailInv, HTypeOK, TablesOK
                <5>2. turn[w].upto \in Nat
                    BY <1>3 DEF Locals
                <5> QED BY <1>0, <4>4, <5>1, <5>2
            <4>6. pc'[w] = "history" /\ running' = running
                BY <1>2, <3>4, GotoIs DEF poolVars
            <4>7. \A t : t = turn[w] => Goal("history", t)
                <5> SUFFICES ASSUME NEW t, t = turn[w] PROVE Sees(c, i, "history", t)'
                    BY DEF Goal
                <5>1. t.upto = convs'[c].upto /\ t.covered = convs'[c].covered /\ new > t.upto
                    BY <1>6, <4>4, <4>5
                <5> QED BY <4>1, <4>2, <4>3, <5>1 DEF Sees
            <4> QED BY <3>4, <4>6, <4>7
        <3> QED BY <3>1, <3>3, <3>4
    <2>2. CASE ModelAnswers(w)
        <3>1. PICK r \in Responses, o \in Outcomes(w) :
                 /\ AppendMessage(w, "assistant", r.uses, o)
                 /\ \/ \E text : ReplyWith(w, text, "count")
                    \/ /\ turn' = [turn EXCEPT ![w].prompt = @ \cup {Len(messages) + 1}]
                       /\ Goto(w, "tools")
            BY <2>2 DEF ModelAnswers
        <3>2. pc[w] = "model" /\ r.uses \in BOOLEAN
            BY <2>2, HarnessAssumption DEF ModelAnswers, ResponseType
        <3>3. CASE \E text : ReplyWith(w, text, "count")
            BY <1>8, <1>9, <3>2, <3>3
        <3>4. CASE /\ turn' = [turn EXCEPT ![w].prompt = @ \cup {Len(messages) + 1}]
                   /\ Goto(w, "tools")
            <4>1. /\ turn'[w].upto = turn[w].upto /\ turn'[w].covered = turn[w].covered
                  /\ turn'[w].prompt = turn[w].prompt \cup {new}
                BY <1>0, <1>3, <3>4 DEF Locals
            <4>2. pc'[w] = "tools" /\ running' = running
                BY <1>2, <3>4, GotoIs DEF poolVars
            <4>3. /\ new \in Nat /\ \A q \in RowIds : q \in Nat /\ q < new /\ messages'[q] = messages[q]
                  /\ ConvRows(c)' = ConvRows(c) \cup {new}
                  /\ TurnRows(i)' = TurnRows(i) \cup {new}
                BY <1>4, <3>1, <3>2 DEF Kinds
            <4> QED BY <1>10, <3>2, <4>1, <4>2, <4>3
        <3> QED BY <3>1, <3>3, <3>4
    <2>3. CASE RunTools(w)
        <3>1. PICK o \in Outcomes(w) :
                 /\ AppendMessage(w, "tool_result", FALSE, o)
                 /\ \/ ReplyWith(w, "failed", "count")
                    \/ /\ turn' = [turn EXCEPT ![w].prompt = @ \cup {Len(messages) + 1},
                                               ![w].rounds = @ + 1]
                       /\ Goto(w, Round(turn[w].rounds + 1))
            BY <2>3 DEF RunTools
        <3>2. pc[w] = "tools"
            BY <2>3 DEF RunTools
        <3>3. CASE ReplyWith(w, "failed", "count")
            BY <1>8, <1>9, <3>2, <3>3
        <3>4. CASE /\ turn' = [turn EXCEPT ![w].prompt = @ \cup {Len(messages) + 1},
                                           ![w].rounds = @ + 1]
                   /\ Goto(w, Round(turn[w].rounds + 1))
            <4>1. /\ turn'[w].upto = turn[w].upto /\ turn'[w].covered = turn[w].covered
                  /\ turn'[w].prompt = turn[w].prompt \cup {new}
                BY <1>0, <1>3, <3>4 DEF Locals
            <4>2. pc'[w] = Round(turn[w].rounds + 1) /\ running' = running
                BY <1>2, <3>4, GotoIs DEF poolVars
            <4>3. /\ new \in Nat /\ \A q \in RowIds : q \in Nat /\ q < new /\ messages'[q] = messages[q]
                  /\ ConvRows(c)' = ConvRows(c) \cup {new}
                  /\ TurnRows(i)' = TurnRows(i) \cup {new}
                BY <1>4, <3>1 DEF Kinds
            <4>4. Round(turn[w].rounds + 1) \in {"model", "escalate"}
                BY DEF Round
            <4> QED BY <1>10, <3>2, <4>1, <4>2, <4>3, <4>4
        <3> QED BY <3>1, <3>3, <3>4
    <2>4. CASE NoteEscalation(w)
        BY <1>2, <2>4, ReturnIs DEF NoteEscalation
    <2> QED
        BY <2>1, <2>2, <2>3, <2>4
           DEF Step, Dedup, EnsureCustomer, LookupCustomer, LookupEmployee, CompanyFails, OpenConversation,
               BuildHistory, ModelFailure, CreateEscalation, SetEscalated, Reply, CountTail,
               FoldSummary, tables
<1> QED
    BY <1>1, <1>11 DEF Goal

-----------------------------------------------------------------------------
\* What UpdateSummary writes: the watermark goes to the last of the rows folded.
LEMMA FoldWrites ==
    ASSUME PoolInv, HTypeOK, NEW w \in Workers, FoldSummary(w)
    PROVE  \/ UNCHANGED convs
           \/ \E c \in Conversations, last \in turn[w].fold, r \in Responses :
                 /\ c = Conv(w) /\ ~r.uses
                 /\ \A f \in turn[w].fold : f <= last
                 /\ last \in RowIds
                 /\ convs'[c].upto = last
                 /\ convs'[c].covered = IF Summarises(r)
                                        THEN turn[w].covered \cup turn[w].fold ELSE {}
<1> DEFINE c == Conv(w)
           f == turn[w].fold
           last == CHOOSE i \in f : \A j \in f : j <= i
<1>1. pc[w] = "fold" /\ c \in Conversations /\ turn[w] \in Locals
    BY TurnHasMessage DEF FoldSummary, HTypeOK, TurnsOK
<1>2. f \subseteq RowIds /\ f # {}
    BY <1>1 DEF Locals, HTypeOK, TurnsOK
<1>3. last \in f /\ \A j \in f : j <= last
    BY <1>2, RowsHaveLast DEF HTypeOK
<1>4. \/ UNCHANGED convs
      \/ \E r \in {s \in Responses : ~s.uses} :
            convs' = [convs EXCEPT ![c].upto = last,
                                   ![c].covered = IF Summarises(r) THEN turn[w].covered \cup f
                                                                   ELSE {}]
    BY DEF FoldSummary
<1> HIDE DEF last, f
<1>5. ASSUME NEW r \in {s \in Responses : ~s.uses}, NEW cov,
             convs' = [convs EXCEPT ![c].upto = last, ![c].covered = cov]
      PROVE  convs'[c].upto = last /\ convs'[c].covered = cov
    <2>1. convs[c] \in [upto : Nat, covered : SUBSET RowIds, escalated : BOOLEAN]
          /\ DOMAIN convs = Conversations
        BY <1>1 DEF HTypeOK, TablesOK
    <2> QED BY <1>1, <1>5, <2>1
<1> HIDE DEF c
<1>6. \/ UNCHANGED convs
      \/ \E r \in {s \in Responses : ~s.uses} :
            /\ convs'[c].upto = last
            /\ convs'[c].covered = IF Summarises(r) THEN turn[w].covered \cup f ELSE {}
    BY <1>4, <1>5
<1> QED
    BY <1>1, <1>2, <1>3, <1>6 DEF c, f

\* In a turn that sees its conversation all of them are behind the old watermark.
LEMMA FoldMoves ==
    ASSUME PoolInv, HTypeOK, NEW w \in Workers, FoldSummary(w),
           Sees(Conv(w), running[w], pc[w], turn[w])
    PROVE  \/ UNCHANGED convs
           \/ \E c \in Conversations, last \in turn[w].fold, r \in Responses :
                 /\ c = Conv(w) /\ ~r.uses
                 /\ Fold(c, convs[c].upto, turn[w].fold)
                 /\ \A f \in turn[w].fold : f <= last
                 /\ last \in RowIds /\ last > convs[c].upto
                 /\ convs'[c].upto = last
                 /\ convs'[c].covered = IF Summarises(r)
                                        THEN convs[c].covered \cup turn[w].fold ELSE {}
<1>1. PICK c : c = Conv(w)
    OBVIOUS
<1>2. pc[w] = "fold"
    BY DEF FoldSummary
<1>3. Fold(c, convs[c].upto, turn[w].fold) /\ turn[w].covered = convs[c].covered
    BY <1>1, <1>2 DEF Sees, Opened
<1>4. \A f \in turn[w].fold : f > convs[c].upto
    BY <1>3 DEF Fold, After
<1> QED
    BY <1>1, <1>3, <1>4, FoldWrites

\* The tables of rows only grow.
LEMMA LongerMessages ==
    ASSUME PoolInv, HTypeOK, NEW w \in Workers, Step(w)
    PROVE  /\ Len(messages) \in Nat /\ Len(messages)' \in Nat
           /\ Len(messages) <= Len(messages)'
<1>1. pc[w] # "idle" /\ Len(messages) \in Nat
    BY StepIsInTurn DEF HTypeOK, TablesOK
<1>2. CASE UNCHANGED messages
    BY <1>1, <1>2
<1>3. CASE ~UNCHANGED messages
    <2>1. PICK kind \in Kinds, uses \in BOOLEAN :
              \E o : o # "err" /\ AppendMessage(w, kind, uses, o)
        BY <1>3, StepAppends
    <2>2. Len(messages)' = Len(messages) + 1
        BY <1>1, <2>1, ConvRowAdded
    <2> QED BY <1>1, <2>2
<1> QED BY <1>2, <1>3

\* Every call of a turn keeps the tail that buildHistory selects together with the summary's watermark.
LEMMA TailStep ==
    ASSUME PoolInv, HTypeOK, [PoolNext]_poolVars, TurnInv, TailInv, NEW w \in Workers, Step(w)
    PROVE  TailInv'
<1>1. /\ TurnsOK /\ running \in [Workers -> Nat] /\ pc[w] # "idle" /\ running[w] # Idle
      /\ Conv(w) \in Conversations
    BY StepIsInTurn, TurnHasMessage DEF HTypeOK, PoolTypeOK
<1>2. /\ \A v \in Workers \ {w} :
             pc'[v] = pc[v] /\ turn'[v] = turn[v] /\ running'[v] = running[v]
      /\ accepted' = accepted
    BY <1>1, StepMovesOne
<1>3. Keeps /\ \A j : j # running[w] => TurnRows(j)' = TurnRows(j)
    BY StepLeavesWell DEF LeavesWell, Spares
<1>4. ASSUME NEW c \in Conversations PROVE convs'[c].upto <= Len(messages)'
    <2>1. convs[c].upto \in Nat
        BY DEF HTypeOK, TablesOK
    <2>2. CASE convs'[c].upto = convs[c].upto
        BY <2>1, <2>2, LongerMessages DEF TailInv
    <2>3. CASE convs'[c].upto # convs[c].upto
        <3>1. FoldSummary(w) /\ c = Conv(w)
            BY <2>3, ConvsStep
        <3>2. convs'[c].upto \in RowIds
            BY <2>3, <3>1, FoldWrites
        <3> QED BY <3>2, LongerMessages DEF RowIds
    <2> QED BY <2>2, <2>3
<1>5. ASSUME NEW v \in Workers, pc'[v] # "idle"
      PROVE  SplitConversation(Conv(v))' \/ Sees(Conv(v), running[v], pc[v], turn[v])'
    <2>1. CASE v # w
        <3>1. pc[v] # "idle"
            BY <1>2, <1>5, <2>1
        <3>2. PICK c, i, label, t : c = Conv(v) /\ i = running[v] /\ label = pc[v] /\ t = turn[v]
            OBVIOUS
        <3>3. c = Conv(v)' /\ i = running'[v] /\ label = pc'[v] /\ t = turn'[v]
            BY <1>2, <2>1, <3>2 DEF Conv, Msg
        <3>4. CASE SplitConversation(c)
            BY <3>3, <3>4, SplitStays
        <3>5. CASE ~SplitConversation(c)
            <4>1. /\ Sees(c, i, label, t) /\ c \in Conversations /\ c # Conv(w)
                  /\ i # running[w]
                BY <1>1, <2>1, <3>1, <3>2, <3>5, TurnHasMessage, OthersElsewhere, RunsAlone
                   DEF TailInv
            <4>2. Sees(c, i, label, t)'
                BY <1>3, <4>1, StepSparesOthers, SeesStays
            <4> QED BY <3>3, <4>2, SeesNext
        <3> QED BY <3>4, <3>5
    <2>2. CASE v = w
        <3>1. PICK c, i, label, t : c = Conv(w) /\ i = running[w] /\ label = pc'[w] /\ t = turn'[w]
            OBVIOUS
        <3>2. running' = running
            BY <1>1, <1>5, <2>2, StepMovesOne
        <3>3. c = Conv(w)' /\ i = running'[w]
            BY <1>2, <3>1, <3>2 DEF Conv, Msg
        <3>4. CASE SplitConversation(c)
            BY <2>2, <3>3, <3>4, SplitStays
        <3>5. CASE ~SplitConversation(c)
            <4>0. Sees(Conv(w), running[w], pc[w], turn[w])
                BY <1>1, <3>1, <3>5 DEF TailInv
            <4>1. CASE ~UNCHANGED messages
                BY <1>5, <2>2, <3>1, <3>3, <4>0, <4>1, WriteSees, SeesNext
            <4>2. CASE UNCHANGED messages
                <5>1. Sees(c, i, label, t)
                    BY <1>5, <2>2, <3>1, <4>0, <4>2, QuietSees
                <5>2. ~FoldSummary(w)
                    BY <1>1, <1>5, <2>2, ReturnIs DEF FoldSummary
                <5>3. SparesConv(c) /\ TurnRows(i)' = TurnRows(i)
                    BY <1>1, <3>1, <4>2, <5>2, ConvsStep DEF SparesConv, ConvRows, RowIds, TurnRows
                <5>4. Sees(c, i, label, t)'
                    BY <1>1, <1>3, <3>1, <5>1, <5>3, SeesStays
                <5> QED BY <2>2, <3>1, <3>3, <5>4, SeesNext
            <4> QED BY <4>1, <4>2
        <3> QED BY <3>4, <3>5
    <2> QED BY <2>1, <2>2
<1> QED
    BY <1>4, <1>5 DEF TailInv

\* Outside the calls of turns no table is written; a worker that is in a turn
\* is at its start or where it was.
LEMMA ElsewhereIs ==
    ASSUME PoolInv, HTypeOK, [PoolNext]_poolVars, [HNext]_hVars, ~\E w \in Workers : Step(w)
    PROVE  /\ UNCHANGED <<tables, sends>>
           /\ \A w \in Workers :
                 \/ pc'[w] \in {"idle", "dedup"}
                 \/ /\ pc'[w] = pc[w] /\ turn'[w] = turn[w] /\ running'[w] = running[w]
                    /\ pc[w] # "idle" => Conv(w)' = Conv(w)
<1>1. pc \in [Workers -> Labels] /\ running \in [Workers -> Nat]
    BY DEF HTypeOK, TurnsOK, PoolTypeOK
<1>2. UNCHANGED <<tables, sends>>
    BY DEF HNext, Begin, Expire, HHalt, Outside, hVars
<1>3. ASSUME NEW w \in Workers
      PROVE  \/ pc'[w] \in {"idle", "dedup"}
             \/ pc'[w] = pc[w] /\ turn'[w] = turn[w] /\ running'[w] = running[w]
    <2>1. CASE \E v \in Workers : Begin(v)
        <3>1. PICK v \in Workers : /\ pc' = [pc EXCEPT ![v] = "dedup"] /\ turn' = turn
                                   /\ running' = [running EXCEPT ![v] = Head(queues[v])]
            BY <2>1 DEF Begin, Receive
        <3> QED BY <1>1, <3>1
    <2>2. CASE HHalt
        BY <2>2 DEF HHalt
    <2>3. CASE (\E v \in Workers : Expire(v)) \/ Outside \/ UNCHANGED hVars
        BY <2>3 DEF Expire, Outside, hVars, turnVars, poolVars, OnMessage, Exit, Cancel,
                    Disconnect, Boot
    <2> QED BY <2>1, <2>2, <2>3 DEF HNext
<1>4. ASSUME NEW w \in Workers, pc[w] # "idle", running'[w] = running[w]
      PROVE  Conv(w)' = Conv(w)
    <2>1. running[w] \in Indices
        BY <1>4, TurnHasMessage
    <2>2. accepted'[running[w]] = accepted[running[w]]
        BY <2>1, NumbersKeep
    <2> QED BY <1>4, <2>2 DEF Conv, Msg
<1> QED BY <1>2, <1>3, <1>4

\* TailInv is an invariant.
THEOREM TailInvariant == HSpec => []TailInv
<1>1. HInit => TailInv
    <2> SUFFICES ASSUME HInit PROVE TailInv
        OBVIOUS
    <2>1. Len(messages) = 0 /\ \A w \in Workers : pc[w] = "idle"
        BY DEF HInit
    <2>2. \A c \in Conversations : convs[c].upto = 0
        BY DEF HInit
    <2> QED BY <2>1, <2>2 DEF TailInv
<1>2. ASSUME PoolInv, HTypeOK, [PoolNext]_poolVars, TurnInv, TailInv, [HNext]_hVars
      PROVE  TailInv'
    <2>1. CASE \E w \in Workers : Step(w)
        BY <1>2, <2>1, TailStep
    <2>2. CASE ~\E w \in Workers : Step(w)
        <3>1. /\ UNCHANGED <<tables, sends>>
              /\ \A w \in Workers :
                    \/ pc'[w] \in {"idle", "dedup"}
                    \/ /\ pc'[w] = pc[w] /\ turn'[w] = turn[w] /\ running'[w] = running[w]
                       /\ pc[w] # "idle" => Conv(w)' = Conv(w)
            BY <1>2, <2>2, ElsewhereIs
        <3>2. Keeps /\ \A j : TurnRows(j)' = TurnRows(j)
            BY <3>1 DEF Keeps, TurnRows, RowIds, tables
        <3>3. \A c : SparesConv(c)
            BY <3>1 DEF SparesConv, ConvRows, RowIds, tables
        <3>4. \A c, i, t : Sees(c, i, "dedup", t)'
            BY DEF Sees, Opened
        <3>5. ASSUME NEW w \in Workers, pc'[w] # "idle"
              PROVE  SplitConversation(Conv(w))' \/ Sees(Conv(w), running[w], pc[w], turn[w])'
            <4>1. CASE pc'[w] = "dedup"
                <5>1. \A c, i, label, t : label = "dedup" => Sees(c, i, label, t)'
                    BY <3>4
                <5>2. PICK c, i, label, t : /\ c = Conv(w)' /\ i = running'[w]
                                            /\ label = pc'[w] /\ t = turn'[w]
                    OBVIOUS
                <5> QED BY <4>1, <5>1, <5>2, SeesNext
            <4>2. CASE pc'[w] # "dedup"
                <5>1. PICK c, i, label, t : /\ c = Conv(w) /\ i = running[w]
                                            /\ label = pc[w] /\ t = turn[w]
                    OBVIOUS
                <5>2. pc[w] # "idle"
                    BY <3>1, <3>5, <4>2
                <5>3. c = Conv(w)' /\ i = running'[w] /\ label = pc'[w] /\ t = turn'[w]
                    BY <3>1, <3>5, <4>2, <5>1, <5>2
                <5>4. CASE SplitConversation(c)
                    BY <1>2, <5>3, <5>4, SplitStays
                <5>5. CASE ~SplitConversation(c)
                    <6>1. Sees(c, i, label, t) /\ c \in Conversations
                        BY <1>2, <5>1, <5>2, <5>5, TurnHasMessage DEF TailInv
                    <6>2. Sees(c, i, label, t)'
                        BY <3>2, <3>3, <6>1, SeesStays
                    <6> QED BY <5>3, <6>2, SeesNext
                <5> QED BY <5>4, <5>5
            <4> QED BY <4>1, <4>2
        <3>6. \A c \in Conversations : convs'[c].upto <= Len(messages)'
            BY <1>2, <3>1 DEF TailInv, tables
        <3> QED BY <3>5, <3>6 DEF TailInv
    <2> QED BY <2>1, <2>2
<1>3. HSpec => []PoolInv /\ [][PoolNext]_poolVars
    BY HarnessIsPool, PoolInvariant, PTL DEF PoolSpec
<1> QED
    BY <1>1, <1>2, <1>3, HTypeCorrect, TurnInvariant, PTL DEF HSpec

-----------------------------------------------------------------------------
\* No two workers process messages of one conversation at once, if its
\* messages share a worker; they do when it has one chat.
THEOREM ConversationSerialTheorem ==
    ASSUME OneWorkerEach PROVE HSpec => []ConversationSerial
<1>1. PoolInv => ConversationSerial
    <2> SUFFICES ASSUME PoolInv, NEW v \in Workers, NEW w \in Workers, v # w,
                        running[v] # Idle, running[w] # Idle
                 PROVE  ConversationOf(accepted[running[v]]) # ConversationOf(accepted[running[w]])
        BY DEF ConversationSerial
    <2>1. accepted[running[v]] \in Inbounds /\ accepted[running[w]] \in Inbounds
        BY DEF PoolInv, PoolTypeOK, RunningInLane, Current
    <2> QED
        BY <2>1 DEF OneWorkerEach, PoolInv, RunningInLane
<1> QED
    BY <1>1, HarnessIsPool, PoolInvariant, PTL

\* Every request holds the message it answers and the other rows of its turn,
\* and none of another conversation, if the tail it may hold is not empty.
THEOREM PromptHoldsTurnTheorem ==
    ASSUME OneWorkerEach, HistoryTailLimit > 0 PROVE HSpec => []PromptHoldsTurn
<1>1. PoolInv /\ HTypeOK /\ TailInv => PromptHoldsTurn
    BY NeverSplit DEF TailInv, Sees, Prompt, ConvRows, TurnRows, PromptHoldsTurn, Prompting
<1>2. HSpec => []PoolInv
    BY HarnessIsPool, PoolInvariant, PTL
<1> QED
    BY <1>1, <1>2, HTypeCorrect, TailInvariant, PTL

\* No fold moves the watermark of a conversation back, over rows already
\* summarised, unless messages of the conversation went to two workers.
THEOREM WatermarkTheorem == HSpec => WatermarkAdvances
<1>1. ASSUME PoolInv, HTypeOK, TailInv, [HNext]_hVars
      PROVE  [\A c \in Conversations :
                 convs'[c].upto >= convs[c].upto \/ SplitConversation(c)]_hVars
    <2> SUFFICES ASSUME HNext, NEW c \in Conversations, ~SplitConversation(c)
                 PROVE  convs'[c].upto >= convs[c].upto
        BY <1>1
    <2>1. convs[c].upto \in Nat
        BY <1>1 DEF HTypeOK, TablesOK
    <2>2. CASE convs'[c].upto = convs[c].upto
        BY <2>1, <2>2
    <2>3. CASE convs'[c].upto # convs[c].upto
        <3>1. PICK w \in Workers : Step(w)
            BY <2>3 DEF HNext, Begin, Expire, HHalt, Outside, tables
        <3>2. FoldSummary(w) /\ c = Conv(w)
            BY <1>1, <2>3, <3>1, ConvsStep
        <3>3. Sees(Conv(w), running[w], pc[w], turn[w])
            BY <1>1, <3>1, <3>2, StepIsInTurn DEF TailInv
        <3>4. convs'[c].upto \in RowIds /\ convs'[c].upto > convs[c].upto
            BY <1>1, <2>3, <3>2, <3>3, FoldMoves
        <3> QED BY <2>1, <3>4 DEF RowIds
    <2> QED BY <2>2, <2>3
<1>2. HSpec => []PoolInv
    BY HarnessIsPool, PoolInvariant, PTL DEF PoolSpec
<1> QED
    BY <1>1, <1>2, HTypeCorrect, TailInvariant, PTL DEF HSpec, WatermarkAdvances

\* Every response without tool use is a summary: true of a model that neither
\* refuses nor stops short, which maybeSummarize does not check.
WholeSummaries == \A r \in Responses : ~r.uses => Summarises(r)

\* The summary of a conversation was told exactly the rows up to its watermark.
THEOREM SummaryTheorem ==
    ASSUME OneWorkerEach, WholeSummaries PROVE HSpec => []SummaryCoversWatermark
<1> DEFINE Behind(c) == {r \in ConvRows(c) : r <= convs[c].upto}
<1>1. SummaryCoversWatermark <=> \A c \in Conversations : convs[c].covered = Behind(c)
    <2>1. \A c : Behind(c) = {i \in RowIds : /\ messages[i].conv = c /\ i <= convs[c].upto
                                             /\ messages[i].kind # "system_note"}
        BY DEF ConvRows
    <2> QED BY <2>1 DEF SummaryCoversWatermark
<1>2. HInit => SummaryCoversWatermark
    BY DEF HInit, SummaryCoversWatermark, RowIds
<1>3. ASSUME PoolInv, HTypeOK, [PoolNext]_poolVars, TailInv, SummaryCoversWatermark, [HNext]_hVars
      PROVE  SummaryCoversWatermark'
    <2> SUFFICES ASSUME NEW c \in Conversations
                 PROVE  convs'[c].covered = {r \in ConvRows(c)' : r <= convs'[c].upto}
        <3>1. \A c : {r \in ConvRows(c)' : r <= convs'[c].upto} =
                     {i \in RowIds' : /\ messages'[i].conv = c /\ i <= convs'[c].upto
                                      /\ messages'[i].kind # "system_note"}
            BY DEF ConvRows
        <3> QED BY <3>1 DEF SummaryCoversWatermark
    <2>1. convs[c].covered = Behind(c) /\ convs[c].upto \in Nat /\ convs[c].upto <= Len(messages)
        BY <1>1, <1>3 DEF HTypeOK, TablesOK, TailInv
    <2>2. Len(messages) \in Nat /\ ConvRows(c) \subseteq Nat
        BY <1>3 DEF HTypeOK, TablesOK, ConvRows, RowIds
    <2>3. CASE SparesConv(c)
        BY <2>1, <2>3 DEF SparesConv
    <2>4. CASE ~SparesConv(c)
        <3>1. PICK w \in Workers : Step(w)
            BY <1>3, <2>4, ElsewhereIs DEF SparesConv, ConvRows, RowIds, tables
        <3>2. c = Conv(w) /\ pc[w] # "idle"
            BY <1>3, <2>4, <3>1, StepSparesOthers, StepIsInTurn
        <3>3. CASE ~FoldSummary(w)
            <4>1. convs'[c].upto = convs[c].upto /\ convs'[c].covered = convs[c].covered
                BY <1>3, <3>1, <3>3, ConvsStep
            <4>2. PICK new : new \in Nat /\ new > Len(messages) /\ ConvRows(c)' \in {ConvRows(c), ConvRows(c) \cup {new}}
                <5>1. ~UNCHANGED messages
                    BY <2>4, <4>1 DEF SparesConv, ConvRows, RowIds
                <5>2. PICK kind \in Kinds, uses \in BOOLEAN :
                          \E o : o # "err" /\ AppendMessage(w, kind, uses, o)
                    BY <3>1, <5>1, StepAppends
                <5>3. Len(messages) + 1 \in Nat /\ Len(messages) + 1 > Len(messages)
                    BY <2>2
                <5> QED BY <1>3, <3>2, <5>2, <5>3, ConvRowAdded
            <4>3. ~(new <= convs[c].upto)
                BY <2>1, <2>2, <4>2
            <4> QED BY <2>1, <4>1, <4>2, <4>3
        <3>4. CASE FoldSummary(w)
            <4>1. ConvRows(c)' = ConvRows(c)
                BY <3>4 DEF FoldSummary, ConvRows, RowIds
            <4>2. PICK last \in turn[w].fold :
                     /\ Fold(c, convs[c].upto, turn[w].fold)
                     /\ \A f \in turn[w].fold : f <= last
                     /\ last > convs[c].upto /\ last \in RowIds
                     /\ convs'[c].upto = last
                     /\ convs'[c].covered = convs[c].covered \cup turn[w].fold
                <5>1. Sees(Conv(w), running[w], pc[w], turn[w])
                    BY <1>3, <3>2, NeverSplit DEF TailInv
                <5> QED
                    BY <1>3, <2>4, <3>2, <3>4, <4>1, <5>1, FoldMoves
                       DEF SparesConv, WholeSummaries
            <4>3. \A r \in ConvRows(c) :
                     r <= last <=> r <= convs[c].upto \/ r \in turn[w].fold
                <5> SUFFICES ASSUME NEW r \in ConvRows(c)
                             PROVE  r <= last <=> r <= convs[c].upto \/ r \in turn[w].fold
                    OBVIOUS
                <5>1. r \in Nat /\ last \in Nat
                    BY <2>2, <4>2 DEF RowIds
                <5>2. CASE r <= convs[c].upto
                    BY <2>1, <4>2, <5>1, <5>2
                <5>3. CASE r > convs[c].upto
                    <6>1. r \in After(c, convs[c].upto)
                        BY <5>3 DEF After
                    <6> QED BY <2>1, <4>2, <5>1, <5>3, <6>1 DEF Fold
                <5> QED BY <2>1, <5>1, <5>2, <5>3
            <4>4. turn[w].fold \subseteq ConvRows(c)
                BY <4>2 DEF Fold, After
            <4> QED BY <2>1, <4>1, <4>2, <4>3, <4>4
        <3> QED BY <3>3, <3>4
    <2> QED BY <2>3, <2>4
<1>4. HSpec => []PoolInv /\ [][PoolNext]_poolVars
    BY HarnessIsPool, PoolInvariant, PTL DEF PoolSpec
<1> QED
    BY <1>2, <1>3, <1>4, HTypeCorrect, TailInvariant, PTL DEF HSpec

-----------------------------------------------------------------------------
(***************************************************************************)
(* The exchange the provider's API accepts.                                *)
(***************************************************************************)
\* Contexts die of signals and deadlines only.
Alive == /\ "stop" \notin Faults => phase \in {"running", "down"}
         /\ "deadline" \notin Faults => expired = {}

\* A context that ended has a cause: the signal, or the turn's own deadline.
THEOREM AliveInvariant == HSpec => []Alive
<1>1. HInit => Alive
    BY DEF HInit, PoolInit, Alive
<1>2. ASSUME HTypeOK, Alive, [HNext]_hVars PROVE Alive'
    <2>1. TurnsOK /\ running \in [Workers -> Nat]
        BY <1>2 DEF HTypeOK, PoolTypeOK
    <2>2. CASE \E w \in Workers : Step(w)
        <3>1. PICK w \in Workers : Step(w)
            BY <2>2
        <3>2. UNCHANGED phase
            BY <2>1, <3>1, StepMovesOne
        <3>3. expired' \subseteq expired
            BY <3>1 DEF Step, Dedup, EnsureCustomer, LookupCustomer, LookupEmployee, CompanyFails,
                        OpenConversation, PersistInbound, BuildHistory, ModelAnswers,
                        ModelFailure, RunTools, CreateEscalation, SetEscalated,
                        NoteEscalation, Reply, CountTail, FoldSummary,
                        Goto, ReplyWith, Apologise, Return
        <3> QED BY <1>2, <3>2, <3>3 DEF Alive
    <2>3. CASE \E w \in Workers : Begin(w) \/ Expire(w)
        BY <1>2, <2>3 DEF Begin, Receive, Expire, Alive, poolVars
    <2>4. CASE HHalt
        BY <1>2, <2>4 DEF HHalt, Halt, Alive
    <2>5. CASE Outside
        BY <1>2, <2>5 DEF Outside, OnMessage, Exit, Cancel, Disconnect, Boot, Alive, turnVars
    <2>6. CASE UNCHANGED hVars
        BY <1>2, <2>6 DEF hVars, poolVars, turnVars, Alive
    <2> QED
        BY <1>2, <2>2, <2>3, <2>4, <2>5, <2>6 DEF HNext
<1> QED
    BY <1>1, <1>2, HTypeCorrect, PTL DEF HSpec

\* The calls of a turn do not fail, nor does the process die: a turn cut off
\* between a tool request and its results leaves a history the API refuses.
Calm == Faults \cap {"db", "ack", "deadline", "stop", "crash"} = {}

NextRow(c, i, j) == i < j /\ \A k \in ConvRows(c) : k <= i \/ j <= k

\* Some turn of conversation c runs tools.
AtTools(c) == \E w \in Workers : pc[w] = "tools" /\ Conv(w) = c

\* Requests and results alternate in every conversation, notes left aside; its
\* last row requests tools exactly while they run.
PairInv ==
    \A c \in Conversations :
        /\ \A i, j \in ConvRows(c) : NextRow(c, i, j) =>
               (messages[i].uses <=> messages[j].kind = "tool_result")
        /\ \A i \in ConvRows(c) : NewestRow(c, i) => (messages[i].uses <=> AtTools(c))

\* Then every statement succeeds.
LEMMA CalmOutcomes ==
    ASSUME Calm, Alive, PoolInv, HTypeOK, NEW w \in Workers, pc[w] # "idle"
    PROVE  ~CtxDead(w) /\ Outcomes(w) = {"ok"}
<1>1. phase \in {"running", "down"} /\ expired = {}
    BY DEF Calm, Alive
<1>2. running[w] # Idle
    BY TurnHasMessage
<1>3. phase # "down"
    BY <1>2 DEF PoolInv, DownIsEmpty, Up
<1>4. ~CtxDead(w)
    BY <1>1, <1>3 DEF CtxDead
<1> QED
    BY <1>4 DEF Outcomes, Calm

\* A turn goes to its tools with the row that requests them, and leaves them
\* with the row of their results.
LEMMA CalmStep ==
    ASSUME Calm, WholeTools, Alive, PoolInv, HTypeOK, NEW w \in Workers, Step(w)
    PROVE  \/ UNCHANGED messages /\ (pc[w] = "tools" <=> pc'[w] = "tools")
           \/ \E kind \in Kinds, uses \in BOOLEAN :
                 /\ AppendMessage(w, kind, uses, "ok")
                 /\ kind = "system_note" => pc[w] # "tools" /\ pc'[w] # "tools"
                 /\ kind = "tool_result" <=> pc[w] = "tools"
                 /\ uses <=> pc'[w] = "tools"
<1>1. /\ pc[w] # "idle" /\ TurnsOK /\ running \in [Workers -> Nat]
      /\ turn \in [Workers -> Locals] /\ turn[w] \in Locals
    BY StepIsInTurn DEF HTypeOK, PoolTypeOK, TurnsOK
<1>2. ~CtxDead(w) /\ Outcomes(w) = {"ok"}
    BY <1>1, CalmOutcomes
<1>3. ASSUME NEW label, Goto(w, label) PROVE pc'[w] = label
    BY <1>1, <1>3, GotoIs
<1>4. ASSUME NEW text, NEW next, ReplyWith(w, text, next) PROVE pc'[w] = "reply"
    BY <1>1, <1>4, ReplyWithIs
<1>5. ASSUME Return(w) PROVE pc'[w] = "idle"
    BY <1>1, <1>5, ReturnIs
<1>11. CASE Dedup(w)
    BY <1>3, <1>5, <1>11 DEF Dedup
<1>12. CASE EnsureCustomer(w)
    BY <1>3, <1>4, <1>12 DEF EnsureCustomer, Apologise
<1>13. CASE LookupCustomer(w) \/ LookupEmployee(w)
    BY <1>3, <1>4, <1>13 DEF LookupCustomer, LookupEmployee, Apologise, tables
<1>14. CASE CompanyFails(w) \/ CountTail(w)
    BY <1>3, <1>5, <1>14 DEF CompanyFails, CountTail, tables
<1>15. CASE OpenConversation(w)
    BY <1>3, <1>4, <1>15 DEF OpenConversation, Apologise, tables
<1>16. CASE PersistInbound(w)
    <2>1. AppendMessage(w, "user", FALSE, "ok") /\ Goto(w, "history") /\ pc[w] = "persist"
        BY <1>2, <1>16 DEF PersistInbound
    <2> QED BY <1>3, <2>1 DEF Kinds
<1>17. CASE BuildHistory(w)
    <2>1. Round(0) \in {"model", "escalate"}
        BY DEF Round
    <2> QED BY <1>3, <1>4, <1>17, <2>1 DEF BuildHistory, Apologise, tables
<1>18. CASE ModelAnswers(w)
    <2>1. PICK r \in Responses :
             /\ AppendMessage(w, "assistant", r.uses, "ok")
             /\ \/ r.stop = "tool_use" /\ Goto(w, "tools")
                \/ r.stop # "tool_use" /\ \E text : ReplyWith(w, text, "count")
        BY <1>2, <1>18 DEF ModelAnswers
    <2>2. r.uses \in BOOLEAN /\ (r.uses <=> r.stop = "tool_use")
        BY HarnessAssumption DEF ResponseType, WholeTools
    <2>3. pc[w] = "model"
        BY <1>18 DEF ModelAnswers
    <2>4. r.uses <=> pc'[w] = "tools"
        BY <1>3, <1>4, <2>1, <2>2
    <2> QED BY <2>1, <2>2, <2>3, <2>4 DEF Kinds
<1>19. CASE ModelFailure(w)
    BY <1>4, <1>19 DEF ModelFailure, tables
<1>20. CASE RunTools(w)
    <2>1. /\ AppendMessage(w, "tool_result", FALSE, "ok")
          /\ Goto(w, Round(turn[w].rounds + 1)) /\ pc[w] = "tools"
        BY <1>2, <1>20 DEF RunTools
    <2>2. pc'[w] # "tools"
        BY <1>3, <2>1 DEF Round
    <2> QED BY <2>1, <2>2 DEF Kinds
<1>21. CASE CreateEscalation(w)
    BY <1>3, <1>21 DEF CreateEscalation
<1>22. CASE SetEscalated(w)
    BY <1>4, <1>22 DEF SetEscalated
<1>23. CASE NoteEscalation(w)
    <2>1. AppendMessage(w, "system_note", FALSE, "ok") /\ Return(w) /\ pc[w] = "note"
        BY <1>2, <1>23 DEF NoteEscalation
    <2> QED BY <1>5, <2>1 DEF Kinds
<1>24. CASE Reply(w)
    <2>1. turn[w].next \in {"end", "count", "note"}
        BY <1>1 DEF Locals
    <2> QED BY <1>3, <1>5, <1>24, <2>1 DEF Reply, tables
<1>25. CASE FoldSummary(w)
    BY <1>5, <1>25 DEF FoldSummary
<1> QED
    BY <1>11, <1>12, <1>13, <1>14, <1>15, <1>16, <1>17, <1>18, <1>19, <1>20, <1>21, <1>22,
       <1>23, <1>24, <1>25 DEF Step

\* The other conversations of the invariant stay as they are.
LEMMA PairsStay ==
    ASSUME Keeps, PairInv, NEW c \in Conversations, ConvRows(c)' = ConvRows(c),
           AtTools(c)' <=> AtTools(c)
    PROVE  /\ \A i, j \in ConvRows(c)' : NextRow(c, i, j)' =>
                  (messages'[i].uses <=> messages'[j].kind = "tool_result")
           /\ \A i \in ConvRows(c)' : NewestRow(c, i)' => (messages'[i].uses <=> AtTools(c)')
<1>1. \A r \in ConvRows(c) : messages'[r] = messages[r]
    BY DEF Keeps, ConvRows
<1>2. \A i, j : NextRow(c, i, j)' <=> NextRow(c, i, j)
    BY DEF NextRow
<1>3. \A i : NewestRow(c, i)' <=> NewestRow(c, i)
    BY DEF NewestRow
<1> QED
    BY <1>1, <1>2, <1>3 DEF PairInv

\* A row that fits the last one, at the end of its conversation.
LEMMA PairsGrow ==
    ASSUME HTypeOK, Keeps, PairInv, NEW c \in Conversations, NEW new \in Nat,
           \A r \in RowIds : r \in Nat /\ r < new,
           ConvRows(c)' = ConvRows(c) \cup {new},
           messages'[new].kind = "tool_result" <=> AtTools(c),
           messages'[new].uses <=> AtTools(c)'
    PROVE  /\ \A i, j \in ConvRows(c)' : NextRow(c, i, j)' =>
                  (messages'[i].uses <=> messages'[j].kind = "tool_result")
           /\ \A i \in ConvRows(c)' : NewestRow(c, i)' => (messages'[i].uses <=> AtTools(c)')
<1>1. \A r \in ConvRows(c) : messages'[r] = messages[r] /\ r \in Nat /\ r < new
    BY DEF Keeps, ConvRows
<1>2. ASSUME NEW i \in ConvRows(c)', NEW j \in ConvRows(c)', NextRow(c, i, j)'
      PROVE  messages'[i].uses <=> messages'[j].kind = "tool_result"
    <2>1. i < j /\ \A k \in ConvRows(c) : k <= i \/ j <= k
        BY <1>2 DEF NextRow
    <2>2. i \in ConvRows(c)
        <3>1. i # new
            BY <1>1, <2>1
        <3> QED BY <3>1
    <2>3. CASE j = new
        <3>1. NewestRow(c, i)
            <4>1. \A k \in ConvRows(c) : k <= i
                <5> SUFFICES ASSUME NEW k \in ConvRows(c) PROVE k <= i
                    OBVIOUS
                <5>1. k \in Nat /\ k < new
                    BY <1>1
                <5> QED BY <2>1, <2>3, <5>1
            <4> QED BY <2>2, <4>1 DEF NewestRow
        <3> QED BY <1>1, <2>2, <2>3, <3>1 DEF PairInv
    <2>4. CASE j # new
        BY <1>1, <2>1, <2>2, <2>4 DEF PairInv, NextRow
    <2> QED BY <2>3, <2>4
<1>3. ASSUME NEW i \in ConvRows(c)', NewestRow(c, i)'
      PROVE  messages'[i].uses <=> AtTools(c)'
    <2>1. new <= i
        BY <1>3 DEF NewestRow
    <2>2. i = new
        BY <1>1, <2>1
    <2> QED BY <2>2
<1> QED BY <1>2, <1>3

\* While w works on a conversation nobody else runs tools for it.
LEMMA ToolsOfOne ==
    ASSUME OneWorkerEach, PoolInv, HTypeOK, NEW w \in Workers, pc[w] # "idle"
    PROVE  AtTools(Conv(w)) <=> pc[w] = "tools"
BY OthersElsewhere, NeverSplit DEF AtTools

\* Every call of a turn keeps the pairing of tool requests with their results,
\* since none of them fails.
LEMMA PairStep ==
    ASSUME OneWorkerEach, Calm, WholeTools, PoolInv, HTypeOK, TurnInv, Alive, PairInv,
           NEW w \in Workers, Step(w)
    PROVE  PairInv'
<1>1. /\ TurnsOK /\ running \in [Workers -> Nat] /\ pc[w] # "idle"
      /\ Conv(w) \in Conversations
    BY StepIsInTurn, TurnHasMessage DEF HTypeOK, PoolTypeOK
<1>2. /\ \A v \in Workers \ {w} :
             pc'[v] = pc[v] /\ turn'[v] = turn[v] /\ running'[v] = running[v]
      /\ accepted' = accepted
      /\ pc'[w] = "idle" \/ running' = running
    BY <1>1, StepMovesOne
<1>3. Keeps
    BY StepLeavesWell DEF LeavesWell
<1>4. /\ \A v \in Workers \ {w} : Conv(v)' = Conv(v)
      /\ pc'[w] # "idle" => Conv(w)' = Conv(w)
    BY <1>2 DEF Conv, Msg
<1>5. ASSUME NEW c, c # Conv(w) PROVE AtTools(c)' <=> AtTools(c)
    BY <1>2, <1>4, <1>5 DEF AtTools
<1>6. ASSUME NEW c, c = Conv(w)
      PROVE  (AtTools(c) <=> pc[w] = "tools") /\ (AtTools(c)' <=> pc'[w] = "tools")
    <2>1. AtTools(c) <=> pc[w] = "tools"
        BY <1>1, <1>6, ToolsOfOne
    <2>2. \A v \in Workers \ {w} : pc[v] = "tools" => Conv(v) # c
        BY <1>1, <1>6, OthersElsewhere, NeverSplit
    <2>3. AtTools(c)' <=> pc'[w] = "tools"
        BY <1>2, <1>4, <1>6, <2>2 DEF AtTools
    <2> QED BY <2>1, <2>3
<1> SUFFICES ASSUME NEW c \in Conversations
             PROVE  /\ \A i, j \in ConvRows(c)' : NextRow(c, i, j)' =>
                           (messages'[i].uses <=> messages'[j].kind = "tool_result")
                    /\ \A i \in ConvRows(c)' : NewestRow(c, i)' =>
                           (messages'[i].uses <=> AtTools(c)')
    BY DEF PairInv
<1>7. CASE c # Conv(w)
    <2>1. ConvRows(c)' = ConvRows(c)
        BY <1>7, StepSparesOthers DEF SparesConv
    <2> QED BY <1>3, <1>5, <1>7, <2>1, PairsStay
<1>8. CASE c = Conv(w)
    <2>1. CASE UNCHANGED messages /\ (pc[w] = "tools" <=> pc'[w] = "tools")
        <3>1. ConvRows(c)' = ConvRows(c)
            BY <2>1 DEF ConvRows, RowIds
        <3>2. AtTools(c)' <=> AtTools(c)
            BY <1>6, <1>8, <2>1
        <3> QED BY <1>3, <3>1, <3>2, PairsStay
    <2>2. CASE ~(UNCHANGED messages /\ (pc[w] = "tools" <=> pc'[w] = "tools"))
        <3>1. PICK kind \in Kinds, uses \in BOOLEAN :
                 /\ AppendMessage(w, kind, uses, "ok")
                 /\ kind = "system_note" => pc[w] # "tools" /\ pc'[w] # "tools"
                 /\ kind = "tool_result" <=> pc[w] = "tools"
                 /\ uses <=> pc'[w] = "tools"
            BY <2>2, CalmStep
        <3>2. PICK new : new = Len(messages) + 1
            OBVIOUS
        <3>3. /\ messages'[new].kind = kind /\ messages'[new].uses = uses
              /\ new \in Nat /\ \A r \in RowIds : r \in Nat /\ r < new
              /\ ConvRows(c)' = IF kind # "system_note" THEN ConvRows(c) \cup {new}
                                                        ELSE ConvRows(c)
            BY <1>1, <1>8, <3>1, <3>2, RowAdded, ConvRowAdded
        <3>4. CASE kind = "system_note"
            <4>1. AtTools(c)' <=> AtTools(c)
                BY <1>6, <1>8, <3>1, <3>4
            <4> QED BY <1>3, <3>3, <3>4, <4>1, PairsStay
        <3>5. CASE kind # "system_note"
            <4>1. /\ messages'[new].kind = "tool_result" <=> AtTools(c)
                  /\ messages'[new].uses <=> AtTools(c)'
                BY <1>6, <1>8, <3>1, <3>3
            <4> QED BY <1>3, <3>3, <3>5, <4>1, PairsGrow
        <3> QED BY <3>4, <3>5
    <2> QED BY <2>1, <2>2
<1> QED BY <1>7, <1>8

\* What happens outside the calls lets a worker run its tools to the end.
LEMMA ToolsRunOn ==
    ASSUME Calm, PoolInv, HTypeOK, Alive, [HNext]_hVars, ~\E w \in Workers : Step(w),
           NEW w \in Workers, pc[w] = "tools"
    PROVE  pc'[w] = "tools"
<1>1. /\ running[w] # Idle /\ phase = "running"
      /\ pc \in [Workers -> Labels]
    BY CalmOutcomes, TurnHasMessage DEF CtxDead, HTypeOK, TurnsOK
<1>2. CASE \E v \in Workers : Begin(v)
    <2>1. PICK v \in Workers : running[v] = Idle /\ pc' = [pc EXCEPT ![v] = "dedup"]
        BY <1>2 DEF Begin, Receive
    <2> QED BY <1>1, <2>1
<1>3. CASE HHalt
    BY <1>1, <1>3 DEF HHalt, Halt, Calm
<1>4. CASE (\E v \in Workers : Expire(v)) \/ Outside \/ UNCHANGED hVars
    BY <1>4 DEF Expire, Outside, hVars, turnVars
<1> QED BY <1>2, <1>3, <1>4 DEF HNext

\* PairInv is an invariant while nothing cuts a turn off.
THEOREM PairInvariant ==
    ASSUME OneWorkerEach, Calm, WholeTools PROVE HSpec => []PairInv
<1>1. HInit => PairInv
    BY DEF HInit, PairInv, ConvRows, RowIds
<1>2. ASSUME PoolInv, HTypeOK, [PoolNext]_poolVars, TurnInv, Alive, PairInv, [HNext]_hVars
      PROVE  PairInv'
    <2>1. CASE \E w \in Workers : Step(w)
        BY <1>2, <2>1, PairStep
    <2>2. CASE ~\E w \in Workers : Step(w)
        <3>1. /\ UNCHANGED <<tables, sends>>
              /\ \A w \in Workers :
                    \/ pc'[w] \in {"idle", "dedup"}
                    \/ /\ pc'[w] = pc[w] /\ turn'[w] = turn[w] /\ running'[w] = running[w]
                       /\ pc[w] # "idle" => Conv(w)' = Conv(w)
            BY <1>2, <2>2, ElsewhereIs
        <3>2. ASSUME NEW w \in Workers, pc[w] = "tools" PROVE pc'[w] = "tools"
            BY <1>2, <2>2, <3>2, ToolsRunOn
        <3>3. \A c : AtTools(c)' <=> AtTools(c)
            BY <3>1, <3>2 DEF AtTools
        <3>4. Keeps /\ \A c : ConvRows(c)' = ConvRows(c)
            BY <3>1 DEF Keeps, ConvRows, RowIds, tables
        <3> SUFFICES ASSUME NEW c \in Conversations
                     PROVE  /\ \A i, j \in ConvRows(c)' : NextRow(c, i, j)' =>
                                   (messages'[i].uses <=> messages'[j].kind = "tool_result")
                            /\ \A i \in ConvRows(c)' : NewestRow(c, i)' =>
                                   (messages'[i].uses <=> AtTools(c)')
            BY DEF PairInv
        <3> QED BY <1>2, <3>3, <3>4, PairsStay
    <2> QED BY <2>1, <2>2
<1>3. HSpec => []PoolInv /\ [][PoolNext]_poolVars
    BY HarnessIsPool, PoolInvariant, PTL DEF PoolSpec
<1> QED
    BY <1>1, <1>2, <1>3, HTypeCorrect, TurnInvariant, AliveInvariant, PTL DEF HSpec

\* Every request replays an exchange the provider's API accepts, however the
\* tail is cut, folded and interleaved with notes, for every tail length but 0,
\* while no turn is cut off (Calm) and chats and clients are as assumed.
THEOREM PromptWellFormedTheorem ==
    ASSUME OneWorkerEach, Calm, WholeTools, HistoryTailLimit > 0
    PROVE  HSpec => []PromptWellFormed
<1>1. ASSUME PoolInv, HTypeOK, TailInv, PairInv PROVE PromptWellFormed
    <2> SUFFICES ASSUME NEW w \in Workers, pc[w] = "model" PROVE WellFormed(turn[w].prompt)
        BY DEF PromptWellFormed
    <2> DEFINE c == Conv(w)
               rows == turn[w].prompt
    <2>1. Prompt(c, running[w], rows) /\ c \in Conversations
        BY <1>1, TurnHasMessage, NeverSplit DEF TailInv, Sees
    <2>2. ~AtTools(c)
        BY <1>1, ToolsOfOne
    <2>3. ConvRows(c) \subseteq Nat /\ rows \subseteq ConvRows(c)
        BY <1>1, <2>1 DEF HTypeOK, TablesOK, ConvRows, RowIds, Prompt
    <2> HIDE DEF c, rows
    <2>4. \A i \in rows : (\A j \in rows : i <= j) => messages[i].kind = "user"
        BY <2>1 DEF Prompt
    <2>5. ASSUME NEW i \in rows, NEW j \in rows, j > i, ~\E k \in rows : i < k /\ k < j
          PROVE  messages[i].uses <=> messages[j].kind = "tool_result"
        <3>1. \A k \in ConvRows(c) : k <= i \/ j <= k
            <4> SUFFICES ASSUME NEW k \in ConvRows(c), ~(k <= i) PROVE j <= k
                OBVIOUS
            <4>1. k \in Nat /\ i \in Nat /\ j \in Nat /\ i <= k
                BY <2>3
            <4>2. k \in rows
                BY <2>1, <4>1 DEF Prompt
            <4> QED BY <2>5, <4>1, <4>2
        <3>2. NextRow(c, i, j)
            BY <2>3, <2>5, <3>1 DEF NextRow
        <3> QED BY <1>1, <2>1, <2>3, <3>2 DEF PairInv
    <2>6. ASSUME NEW i \in rows, \A j \in rows : j <= i PROVE ~messages[i].uses
        <3>1. \A k \in ConvRows(c) : k <= i
            <4> SUFFICES ASSUME NEW k \in ConvRows(c), ~(k <= i) PROVE FALSE
                OBVIOUS
            <4>1. k \in Nat /\ i \in Nat /\ i <= k
                BY <2>3
            <4>2. k \in rows
                BY <2>1, <4>1 DEF Prompt
            <4> QED BY <2>6, <4>2
        <3>2. NewestRow(c, i)
            BY <2>3, <3>1 DEF NewestRow
        <3> QED BY <1>1, <2>1, <2>2, <2>3, <3>2 DEF PairInv
    <2> QED
        BY <2>4, <2>5, <2>6 DEF WellFormed, rows
<1>2. HSpec => []PoolInv
    BY HarnessIsPool, PoolInvariant, PTL DEF PoolSpec
<1> QED
    BY <1>1, <1>2, HTypeCorrect, TailInvariant, PairInvariant, PTL

-----------------------------------------------------------------------------
(***************************************************************************)
(* What happens to a tool request that gets no results.                    *)
(***************************************************************************)
Told(i) == \E a \in DOMAIN sends : sends[a].turn = i /\ sends[a].text = "failed"

\* Row r of turn i has its results, before the next answer of the model.
Settled(i, r) ==
    \E q \in RowsOf(i, "tool_result") :
        r < q /\ \A s \in RowsOf(i, "assistant") : s <= r \/ q < s

\* Only the last answer of the model may still wait for results.
AnsweredButLast(i) ==
    \E last \in RowsOf(i, "assistant") :
        \A r \in RowsOf(i, "assistant") :
            r <= last /\ (r # last /\ messages[r].uses => Settled(i, r))

\* What turn i may owe when it stands at `label' with locals t.
Owes(i, label, t) ==
    /\ label \in {"history", "model", "escalate", "mark"} => Answered(i)
    /\ label = "tools" => AnsweredButLast(i)
    /\ label = "reply" => Answered(i) \/ t.text = "failed"
    /\ label \in {"note", "count", "fold"} => Answered(i) \/ Told(i)

\* The inductive invariant: an unanswered request is about to be answered or
\* the sender is told, or about to be told, that the turn failed.
DebtInv == /\ \A w \in Workers : Owes(running[w], pc[w], turn[w])
           /\ UnansweredToolsAreTold

\* Where a turn has stored no answer of the model, none waits for results.
LEMMA TracelessAnswered ==
    ASSUME NEW i, RowsOf(i, "assistant") = {} PROVE Answered(i)
BY DEF Answered

\* Turns whose rows stay have the same debts.
LEMMA DebtStays ==
    ASSUME Keeps, NEW i,
           RowsOf(i, "assistant")' = RowsOf(i, "assistant"),
           RowsOf(i, "tool_result")' = RowsOf(i, "tool_result")
    PROVE  /\ Answered(i) => Answered(i)'
           /\ AnsweredButLast(i) => AnsweredButLast(i)'
           /\ Told(i) => Told(i)'
<1>1. \A r \in RowsOf(i, "assistant") : messages'[r] = messages[r]
    BY DEF Keeps, RowsOf
<1>2. \A r : Settled(i, r)' <=> Settled(i, r)
    BY DEF Settled
<1>3. Told(i) => Told(i)'
    BY DEF Told, Keeps
<1>4. Answered(i) => Answered(i)'
    BY <1>1 DEF Answered
<1>5. AnsweredButLast(i) => AnsweredButLast(i)'
    BY <1>1, <1>2 DEF AnsweredButLast
<1> QED
    BY <1>3, <1>4, <1>5

\* An answer of the model is the last row of its turn; what came before it was settled.
LEMMA AnswerOwes ==
    ASSUME HTypeOK, Keeps, NEW i, NEW new \in Nat,
           \A r \in RowIds : r \in Nat /\ r < new,
           RowsOf(i, "assistant")' = RowsOf(i, "assistant") \cup {new},
           RowsOf(i, "tool_result")' = RowsOf(i, "tool_result"),
           Answered(i)
    PROVE  /\ AnsweredButLast(i)'
           /\ ~messages'[new].uses => Answered(i)'
<1>1. \A r \in RowsOf(i, "assistant") : messages'[r] = messages[r] /\ r \in Nat /\ r < new
    BY DEF Keeps, RowsOf
<1>2. \A q \in RowsOf(i, "tool_result") : q \in Nat /\ q < new
    BY DEF RowsOf
<1>3. ASSUME NEW r \in RowsOf(i, "assistant"), messages[r].uses
      PROVE  \E q \in RowsOf(i, "tool_result") :
                 r < q /\ \A s \in RowsOf(i, "assistant") \cup {new} : s <= r \/ q < s
    <2>1. PICK q \in RowsOf(i, "tool_result") :
                 r < q /\ \A s \in RowsOf(i, "assistant") : s <= r \/ q < s
        BY <1>3 DEF Answered
    <2> QED BY <1>2, <2>1
<1>4. ASSUME NEW r \in RowsOf(i, "assistant")', r # new, messages'[r].uses
      PROVE  Settled(i, r)'
    BY <1>1, <1>3, <1>4 DEF Settled
<1>5. AnsweredButLast(i)'
    BY <1>1, <1>4 DEF AnsweredButLast
<1>6. ASSUME ~messages'[new].uses PROVE Answered(i)'
    BY <1>4, <1>6 DEF Answered, Settled
<1> QED BY <1>5, <1>6

\* The row of results settles the last answer of the model.
LEMMA ResultsSettle ==
    ASSUME HTypeOK, Keeps, NEW i, NEW new \in Nat,
           \A r \in RowIds : r \in Nat /\ r < new,
           RowsOf(i, "assistant")' = RowsOf(i, "assistant"),
           RowsOf(i, "tool_result")' = RowsOf(i, "tool_result") \cup {new},
           AnsweredButLast(i)
    PROVE  Answered(i)'
<1>1. \A r \in RowsOf(i, "assistant") : messages'[r] = messages[r] /\ r \in Nat /\ r < new
    BY DEF Keeps, RowsOf
<1>2. PICK last \in RowsOf(i, "assistant") :
        \A r \in RowsOf(i, "assistant") :
            r <= last /\ (r # last /\ messages[r].uses => Settled(i, r))
    BY DEF AnsweredButLast
<1>3. ASSUME NEW r \in RowsOf(i, "assistant"), messages[r].uses
      PROVE  \E q \in RowsOf(i, "tool_result") \cup {new} :
                 r < q /\ \A s \in RowsOf(i, "assistant") : s <= r \/ q < s
    <2>1. CASE r = last
        BY <1>1, <1>2, <2>1
    <2>2. CASE r # last
        BY <1>2, <1>3, <2>2 DEF Settled
    <2> QED BY <2>1, <2>2
<1> QED
    BY <1>1, <1>3 DEF Answered

\* What a call of turn i leaves it owing.
Pays(i, w) ==
    \/ Answered(i)' /\ pc'[w] # "tools"
    \/ Told(i)' /\ pc'[w] \in {"idle", "note", "count", "fold"}
    \/ pc'[w] = "reply" /\ turn'[w].text = "failed"
    \/ pc'[w] = "tools" /\ AnsweredButLast(i)'

\* A call leaves its turn in debt only on the way to the results or to the
\* apology.
LEMMA StepPays ==
    ASSUME WholeTools, PoolInv, HTypeOK, TurnInv, DebtInv, NEW w \in Workers, Step(w),
           NEW i, i = running[w]
    PROVE  Pays(i, w)
<1>1. /\ TurnsOK /\ running \in [Workers -> Nat] /\ pc[w] # "idle"
      /\ turn \in [Workers -> Locals] /\ turn[w] \in Locals
    BY StepIsInTurn DEF HTypeOK, PoolTypeOK, TurnsOK
<1>2. Keeps
    BY StepLeavesWell DEF LeavesWell
<1>3. Owes(i, pc[w], turn[w]) /\ At(i, pc[w], turn[w])
    BY DEF DebtInv, TurnInv
<1>4. pc[w] \in Untold => Answered(i)
    BY <1>3, TracelessAnswered DEF At, Traceless, TurnRows, RowsOf
<1>5. ASSUME NEW label, Goto(w, label) PROVE pc'[w] = label
    BY <1>1, <1>5, GotoIs
<1>6. ASSUME NEW text, NEW next, ReplyWith(w, text, next)
      PROVE  pc'[w] = "reply" /\ turn'[w].text = text
    BY <1>1, <1>6, ReplyWithIs
<1>7. ASSUME Return(w) PROVE pc'[w] = "idle"
    BY <1>1, <1>7, ReturnIs
<1>8. UNCHANGED messages => /\ Answered(i) => Answered(i)'
                            /\ AnsweredButLast(i) => AnsweredButLast(i)'
                            /\ Told(i) => Told(i)'
    <2>1. UNCHANGED messages => \A kind : RowsOf(i, kind)' = RowsOf(i, kind)
        BY DEF RowsOf, RowIds
    <2> QED BY <1>2, <2>1, DebtStays
<1>9. PICK new : new = Len(messages) + 1
    OBVIOUS
<1>10. ASSUME NEW kind \in Kinds, NEW uses \in BOOLEAN, NEW o, AppendMessage(w, kind, uses, o),
              o # "err"
       PROVE  /\ new \in Nat /\ \A r \in RowIds : r \in Nat /\ r < new
              /\ messages'[new].uses = uses
              /\ \A k : RowsOf(i, k)' = IF k = kind THEN RowsOf(i, k) \cup {new} ELSE RowsOf(i, k)
    BY <1>1, <1>9, <1>10, RowAdded, ConvRowAdded
<1>11. CASE Dedup(w)
    <2>1. pc[w] = "dedup" /\ UNCHANGED messages /\ (Return(w) \/ Goto(w, "identity"))
        BY <1>11 DEF Dedup
    <2> QED BY <1>4, <1>5, <1>7, <1>8, <2>1 DEF Pays, Untold
<1>12. CASE EnsureCustomer(w) \/ LookupCustomer(w) \/ LookupEmployee(w)
    <2>1. pc[w] \in {"identity", "lookup"} /\ UNCHANGED messages
        BY <1>12 DEF EnsureCustomer, LookupCustomer, LookupEmployee, tables
    <2>2. \/ Goto(w, "lookup") \/ Goto(w, "open")
          \/ ReplyWith(w, "failed", "end") \/ ReplyWith(w, "unknown", "end")
        BY <1>12 DEF EnsureCustomer, LookupCustomer, LookupEmployee, Apologise
    <2> QED BY <1>4, <1>5, <1>6, <1>8, <2>1, <2>2 DEF Pays, Untold
<1>13. CASE CompanyFails(w) \/ OpenConversation(w)
    <2>1. pc[w] = "open" /\ UNCHANGED messages
        BY <1>13 DEF CompanyFails, OpenConversation, tables
    <2>2. Return(w) \/ Goto(w, "persist") \/ ReplyWith(w, "failed", "end")
        BY <1>13 DEF CompanyFails, OpenConversation, Apologise
    <2> QED BY <1>4, <1>5, <1>6, <1>7, <1>8, <2>1, <2>2 DEF Pays, Untold
<1>14. CASE PersistInbound(w)
    <2>1. PICK o : /\ AppendMessage(w, "user", FALSE, o)
                   /\ Goto(w, "history") \/ ReplyWith(w, "failed", "end")
        BY <1>14 DEF PersistInbound, Apologise
    <2>2. RowsOf(i, "assistant") = {}
        BY <1>3, <1>14 DEF PersistInbound, At, Untold, Traceless, TurnRows, RowsOf
    <2>3. RowsOf(i, "assistant")' = {}
        <3>1. CASE o = "err"
            BY <2>1, <2>2, <3>1 DEF AppendMessage, RowsOf, RowIds
        <3>2. CASE o # "err"
            BY <1>10, <2>1, <2>2, <3>2 DEF Kinds
        <3> QED BY <3>1, <3>2
    <2>4. Answered(i)'
        BY <2>3 DEF Answered
    <2> QED BY <1>5, <1>6, <2>1, <2>4 DEF Pays
<1>15. CASE BuildHistory(w) \/ ModelFailure(w) \/ CreateEscalation(w) \/ SetEscalated(w)
    <2>1. Answered(i) /\ UNCHANGED messages
        BY <1>3, <1>15 DEF BuildHistory, ModelFailure, CreateEscalation, SetEscalated, Owes, tables
    <2>2. \/ \E label \in {"model", "escalate", "mark"} : Goto(w, label)
          \/ \E text, next : ReplyWith(w, text, next)
        BY <1>15 DEF BuildHistory, ModelFailure, CreateEscalation, SetEscalated, Apologise, Round
    <2> QED BY <1>5, <1>6, <1>8, <2>1, <2>2 DEF Pays
<1>16. CASE ModelAnswers(w)
    <2>1. PICK r \in Responses, o \in Outcomes(w) :
             /\ AppendMessage(w, "assistant", r.uses, o)
             /\ \/ o # "ok" /\ ReplyWith(w, "failed", "count")
                \/ o = "ok" /\ r.stop = "tool_use" /\ Goto(w, "tools")
                \/ o = "ok" /\ r.stop # "tool_use" /\ \E text : ReplyWith(w, text, "count")
        BY <1>16 DEF ModelAnswers
    <2>2. Answered(i) /\ r.uses \in BOOLEAN /\ (r.uses => r.stop = "tool_use")
        BY <1>3, <1>16, HarnessAssumption DEF ModelAnswers, Owes, ResponseType, WholeTools
    <2>3. CASE o # "ok"
        BY <1>6, <2>1, <2>3 DEF Pays
    <2>4. CASE o = "ok"
        <3>1. /\ new \in Nat /\ \A q \in RowIds : q \in Nat /\ q < new
              /\ messages'[new].uses = r.uses
              /\ RowsOf(i, "assistant")' = RowsOf(i, "assistant") \cup {new}
              /\ RowsOf(i, "tool_result")' = RowsOf(i, "tool_result")
            BY <1>10, <2>1, <2>2, <2>4 DEF Kinds
        <3>2. AnsweredButLast(i)' /\ (~r.uses => Answered(i)')
            BY <1>2, <2>2, <3>1, AnswerOwes
        <3> QED BY <1>5, <1>6, <2>1, <2>2, <2>4, <3>2 DEF Pays
    <2> QED BY <2>3, <2>4
<1>17. CASE RunTools(w)
    <2>1. PICK o \in Outcomes(w) :
             /\ AppendMessage(w, "tool_result", FALSE, o)
             /\ \/ o = "ok" /\ Goto(w, Round(turn[w].rounds + 1))
                \/ o # "ok" /\ ReplyWith(w, "failed", "count")
        BY <1>17 DEF RunTools
    <2>2. CASE o # "ok"
        BY <1>6, <2>1, <2>2 DEF Pays
    <2>3. CASE o = "ok"
        <3>1. /\ new \in Nat /\ \A q \in RowIds : q \in Nat /\ q < new
              /\ RowsOf(i, "assistant")' = RowsOf(i, "assistant")
              /\ RowsOf(i, "tool_result")' = RowsOf(i, "tool_result") \cup {new}
            BY <1>10, <2>1, <2>3 DEF Kinds
        <3>2. AnsweredButLast(i)
            BY <1>3, <1>17 DEF RunTools, Owes
        <3>3. Answered(i)'
            BY <1>2, <3>1, <3>2, ResultsSettle
        <3>4. pc'[w] # "tools"
            BY <1>5, <2>1, <2>3 DEF Round
        <3> QED BY <3>3, <3>4 DEF Pays
    <2> QED BY <2>2, <2>3
<1>18. CASE NoteEscalation(w)
    <2>1. PICK o : AppendMessage(w, "system_note", FALSE, o)
        BY <1>18 DEF NoteEscalation
    <2>2. /\ RowsOf(i, "assistant")' = RowsOf(i, "assistant")
          /\ RowsOf(i, "tool_result")' = RowsOf(i, "tool_result")
        <3>1. CASE o = "err"
            BY <2>1, <3>1 DEF AppendMessage, RowsOf, RowIds
        <3>2. CASE o # "err"
            BY <1>10, <2>1, <3>2 DEF Kinds
        <3> QED BY <3>1, <3>2
    <2>3. Answered(i) \/ Told(i)
        BY <1>3, <1>18 DEF NoteEscalation, Owes
    <2>4. Answered(i)' \/ Told(i)'
        BY <1>2, <2>2, <2>3, DebtStays
    <2>5. pc'[w] = "idle"
        BY <1>7, <1>18 DEF NoteEscalation
    <2> QED BY <2>4, <2>5 DEF Pays
<1>19. CASE Reply(w)
    <2>1. pc[w] = "reply" /\ UNCHANGED messages
        BY <1>19 DEF Reply, tables
    <2>2. pc'[w] \in {"idle", "note", "count"}
        <3>1. turn[w].next \in {"end", "count", "note"}
            BY <1>1 DEF Locals
        <3> QED BY <1>5, <1>7, <1>19, <3>1 DEF Reply
    <2>3. CASE Answered(i)
        BY <1>8, <2>1, <2>2, <2>3 DEF Pays
    <2>4. CASE ~Answered(i)
        <3>1. turn[w].text = "failed"
            BY <1>3, <2>1, <2>4 DEF Owes
        <3>2. PICK d : sends' = Append(sends, [turn |-> running[w], text |-> turn[w].text,
                                               delivered |-> d])
            BY <1>19 DEF Reply
        <3>3. sends \in Seq(Send)
            BY DEF HTypeOK, TablesOK
        <3>4. PICK a : a = Len(sends) + 1
            OBVIOUS
        <3>5. a \in DOMAIN sends' /\ sends'[a].turn = i /\ sends'[a].text = "failed"
            BY <3>1, <3>2, <3>3, <3>4
        <3>6. Told(i)'
            BY <3>5 DEF Told
        <3> QED BY <2>2, <3>6 DEF Pays
    <2> QED BY <2>3, <2>4
<1>20. CASE CountTail(w) \/ FoldSummary(w)
    <2>1. (Answered(i) \/ Told(i)) /\ UNCHANGED messages
        BY <1>3, <1>20 DEF CountTail, FoldSummary, Owes, tables
    <2>2. pc'[w] \in {"idle", "fold"}
        BY <1>5, <1>7, <1>20 DEF CountTail, FoldSummary
    <2> QED BY <1>8, <2>1, <2>2 DEF Pays
<1> QED
    BY <1>11, <1>12, <1>13, <1>14, <1>15, <1>16, <1>17, <1>18, <1>19, <1>20 DEF Step

\* Where the turn stands next, said of rigid values.
LEMMA OwesNext ==
    ASSUME NEW w, NEW i, NEW label, NEW t, i = running'[w], label = pc'[w], t = turn'[w],
           Owes(i, label, t)'
    PROVE  Owes(running[w], pc[w], turn[w])'
OBVIOUS

\* A call settles its own turn so far, and touches no other.
LEMMA DebtStep ==
    ASSUME WholeTools, PoolInv, HTypeOK, TurnInv, DebtInv, NEW w \in Workers, Step(w)
    PROVE  DebtInv'
<1>1. /\ TurnsOK /\ running \in [Workers -> Nat] /\ pc[w] # "idle" /\ running[w] # Idle
    BY StepIsInTurn, TurnHasMessage DEF HTypeOK, PoolTypeOK
<1>2. /\ \A v \in Workers \ {w} :
             pc'[v] = pc[v] /\ turn'[v] = turn[v] /\ running'[v] = running[v]
      /\ pc'[w] = "idle" \/ running' = running
    BY <1>1, StepMovesOne
<1>3. Keeps /\ \A j : j # running[w] => Spares(j)
    BY StepLeavesWell DEF LeavesWell
<1>4. ASSUME NEW j, j # running[w]
      PROVE  /\ Answered(j) => Answered(j)'
             /\ AnsweredButLast(j) => AnsweredButLast(j)'
             /\ Told(j) => Told(j)'
    BY <1>3, <1>4, SparesRows, DebtStays
<1>5. PICK i : i = running[w]
    OBVIOUS
<1>6. Pays(i, w)
    BY <1>5, StepPays
<1>7. ASSUME NEW v \in Workers PROVE Owes(running[v], pc[v], turn[v])'
    <2>1. CASE v # w
        <3>1. PICK j, label, t : j = running[v] /\ label = pc[v] /\ t = turn[v]
            OBVIOUS
        <3>2. j = running'[v] /\ label = pc'[v] /\ t = turn'[v]
            BY <1>2, <2>1, <3>1
        <3>3. Owes(j, label, t) /\ j # running[w]
            BY <1>1, <2>1, <3>1, RunsAlone DEF DebtInv
        <3>4. Owes(j, label, t)'
            BY <1>4, <3>3 DEF Owes
        <3> QED BY <3>2, <3>4, OwesNext
    <2>2. CASE v = w
        <3>1. PICK j, label, t : j = running'[w] /\ label = pc'[w] /\ t = turn'[w]
            OBVIOUS
        <3>2. label = "idle" \/ j = i
            BY <1>2, <1>5, <3>1
        <3>3. Owes(j, label, t)'
            BY <1>6, <3>1, <3>2 DEF Owes, Pays
        <3> QED BY <2>2, <3>1, <3>3, OwesNext
    <2> QED BY <2>1, <2>2
<1>8. ASSUME NEW j \in handled' PROVE Answered(j)' \/ Told(j)'
    <2>1. CASE j = i /\ pc'[w] = "idle"
        BY <1>6, <2>1 DEF Pays
    <2>2. CASE j = i /\ pc'[w] # "idle"
        <3>1. handled' = handled
            BY <1>1, <1>2, <2>2, StepIsPoolStep DEF Finish, poolVars
        <3> QED
            BY <1>1, <1>5, <1>8, <2>2, <3>1 DEF PoolInv, RunningInLane
    <2>3. CASE j # i
        <3>1. j \in handled
            BY <1>5, <1>8, <2>3, StepIsPoolStep DEF Finish, poolVars
        <3>2. Answered(j) \/ Told(j)
            BY <3>1 DEF DebtInv, UnansweredToolsAreTold, Told
        <3> QED BY <1>4, <1>5, <2>3, <3>2
    <2> QED BY <2>1, <2>2, <2>3
<1>9. UnansweredToolsAreTold'
    BY <1>8 DEF UnansweredToolsAreTold, Told
<1> QED
    BY <1>7, <1>9 DEF DebtInv

\* A turn that is over and left a tool request without results told its sender
\* that it failed, whatever fails, is cut off or dies, with a client that
\* reports every request for tools as one (WholeTools).
THEOREM ToolsToldTheorem ==
    ASSUME WholeTools PROVE HSpec => []UnansweredToolsAreTold
<1>1. HInit => DebtInv
    BY DEF HInit, PoolInit, DebtInv, Owes, UnansweredToolsAreTold
<1>2. ASSUME PoolInv, HTypeOK, [PoolNext]_poolVars, TurnInv, DebtInv, [HNext]_hVars
      PROVE  DebtInv'
    <2>1. CASE \E w \in Workers : Step(w)
        BY <1>2, <2>1, DebtStep
    <2>2. CASE ~\E w \in Workers : Step(w)
        <3>1. /\ UNCHANGED <<messages, sends>>
              /\ \A w \in Workers :
                    \/ pc'[w] \in {"idle", "dedup"}
                    \/ pc'[w] = pc[w] /\ turn'[w] = turn[w] /\ running'[w] = running[w]
            BY <1>2, <2>2, ElsewhereIs DEF tables
        <3>2. handled' = handled
            BY <1>2, <2>2 DEF HNext, Begin, Receive, Expire, HHalt, Halt, Outside, OnMessage,
                              Dispatch, DispatchTrue, DispatchFalse, DispatchPanics, Exit,
                              Cancel, Disconnect, Boot, hVars, poolVars
        <3>3. \A j : /\ Answered(j)' <=> Answered(j)
                     /\ AnsweredButLast(j)' <=> AnsweredButLast(j)
                     /\ Told(j)' <=> Told(j)
            BY <3>1 DEF Answered, AnsweredButLast, Settled, Told, RowsOf, RowIds
        <3>4. ASSUME NEW w \in Workers PROVE Owes(running[w], pc[w], turn[w])'
            <4>1. PICK j, label, t : j = running'[w] /\ label = pc'[w] /\ t = turn'[w]
                OBVIOUS
            <4>2. label \in {"idle", "dedup"} \/ Owes(j, label, t)
                BY <1>2, <3>1, <4>1 DEF DebtInv
            <4>3. Owes(j, label, t)'
                BY <3>3, <4>2 DEF Owes
            <4> QED BY <4>1, <4>3, OwesNext
        <3>5. UnansweredToolsAreTold'
            BY <1>2, <3>2, <3>3 DEF DebtInv, UnansweredToolsAreTold, Told
        <3> QED BY <3>4, <3>5 DEF DebtInv
    <2> QED BY <2>1, <2>2
<1>3. DebtInv => UnansweredToolsAreTold
    BY DEF DebtInv
<1>4. HSpec => []PoolInv /\ [][PoolNext]_poolVars
    BY HarnessIsPool, PoolInvariant, PTL DEF PoolSpec
<1> QED
    BY <1>1, <1>2, <1>3, <1>4, HTypeCorrect, TurnInvariant, PTL DEF HSpec
=============================================================================
