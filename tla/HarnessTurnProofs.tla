-------------------------- MODULE HarnessTurnProofs --------------------------
(***************************************************************************)
(* What a turn leaves behind tells where it was: the rows, replies and     *)
(* escalations of a message are those of the calls its turn has made.  So  *)
(* no answer goes out that the history does not hold, a turn asks the      *)
(* model no more often than it may, and is escalated only when its rounds  *)
(* are used up.                                                            *)
(***************************************************************************)
EXTENDS HarnessProofs

\* The rounds a turn may use.
Limit == AtLeastOne(MaxToolIterations + 1) - 1

\* The traces of turn i.
TurnRows(i) == {r \in RowIds : messages[r].turn = i}
Asked(i)    == RowsOf(i, "assistant")
ResultsOf(i) == RowsOf(i, "tool_result")
SentBy(i)   == {a \in DOMAIN sends : sends[a].turn = i}

Traceless(i) == TurnRows(i) = {} /\ SentBy(i) = {} /\ i \notin escalations

AllUse(i) == \A r \in Asked(i) : messages[r].uses

Exhausted(i) == /\ AllUse(i)
                /\ Cardinality(Asked(i)) = Limit
                /\ Cardinality(ResultsOf(i)) = Limit

\* A response that uses tools says so in its stop reason: true of the
\* OpenRouter client, not of the Anthropic one at max_tokens.
WholeTools == \A r \in Responses : r.uses => r.stop = "tool_use"

Answerable(i) == /\ RowsOf(i, "user") # {}
                 /\ WholeTools => \E r \in Asked(i) : ~messages[r].uses

Escalated(i) == i \in escalations \/ \E a \in SentBy(i) : sends[a].text = "escalated"

\* The stations of a turn.
Untold   == {"dedup", "identity", "lookup", "open", "persist"}
Working  == {"history", "model", "tools", "escalate"}
Telling  == Working \cup {"mark", "reply"}

\* What turn i has left behind when it stands at `label' with locals t.
At(i, label, t) ==
    /\ label \in Untold => Traceless(i)
    /\ label \in Untold \cup {"idle", "history"} => t.rounds = 0
    /\ label \in Working \cup {"mark"} => RowsOf(i, "user") # {}
    /\ label \in Working => i \notin escalations
    /\ label \in Telling => SentBy(i) = {}
    /\ label = "history" => Asked(i) = {} /\ ResultsOf(i) = {}
    /\ label \in {"model", "tools"} =>
          /\ t.rounds < Limit /\ AllUse(i)
          /\ Cardinality(ResultsOf(i)) = t.rounds
          /\ Cardinality(Asked(i)) = IF label = "tools" THEN t.rounds + 1 ELSE t.rounds
    /\ label \in {"escalate", "mark"} => Exhausted(i)
    /\ label = "reply" /\ t.text = "answer" => Answerable(i)
    /\ label = "reply" /\ t.text = "escalated" => Exhausted(i)

\* What holds of turn i for ever.
Bounded(i) == /\ Cardinality(Asked(i)) <= Limit
              /\ Escalated(i) => Exhausted(i)

\* What holds of reply a for ever.
Backed(a) == sends[a].text = "answer" => Answerable(sends[a].turn)

\* The inductive invariant: a message that waits has left nothing behind, a
\* turn in progress what its calls have left.
TurnInv == /\ \A i \in Queued : Traceless(i)
           /\ \A w \in Workers : At(running[w], pc[w], turn[w])
           /\ \A i \in Indices : Bounded(i)
           /\ \A a \in DOMAIN sends : Backed(a)

-----------------------------------------------------------------------------
\* How each way to leave a call moves the worker.
LEMMA GotoIs ==
    ASSUME TurnsOK, NEW w \in Workers, NEW label, Goto(w, label)
    PROVE  pc'[w] = label /\ UNCHANGED poolVars
BY DEF Goto, TurnsOK

\* ReplyWith: the worker is about to send that text, the rest of its turn as it was.
LEMMA ReplyWithIs ==
    ASSUME TurnsOK, NEW w \in Workers, NEW text, NEW next, ReplyWith(w, text, next)
    PROVE  /\ pc'[w] = "reply" /\ UNCHANGED poolVars
           /\ turn'[w].text = text /\ turn'[w].next = next
           /\ turn'[w].rounds = turn[w].rounds
           /\ turn'[w].upto = turn[w].upto /\ turn'[w].covered = turn[w].covered
<1>1. turn[w] \in Locals /\ turn \in [Workers -> Locals]
    BY DEF TurnsOK
<1>2. turn'[w] = [turn[w] EXCEPT !.text = text, !.next = next]
    BY <1>1 DEF ReplyWith
<1> QED
    BY <1>1, <1>2, GotoIs DEF ReplyWith, Locals

\* The return of process() frees the worker and touches no queue.
LEMMA ReturnIs ==
    ASSUME TurnsOK, running \in [Workers -> Nat], NEW w \in Workers, Return(w)
    PROVE  /\ pc'[w] = "idle" /\ turn'[w] = NoTurn /\ running'[w] = Idle
           /\ UNCHANGED <<accepted, queues, phase>>
BY DEF Return, Finish, TurnsOK

\* A call of one worker moves no other.
LEMMA StepMovesOne ==
    ASSUME TurnsOK, running \in [Workers -> Nat], NEW w \in Workers, Step(w)
    PROVE  /\ \A v \in Workers \ {w} :
                 pc'[v] = pc[v] /\ turn'[v] = turn[v] /\ running'[v] = running[v]
           /\ UNCHANGED <<accepted, queues, phase>>
           /\ pc'[w] = "idle" \/ running' = running
<1> USE DEF Goto, ReplyWith, Apologise
<1>1. TurnsOK => turn \in [Workers -> Locals] /\ pc \in [Workers -> Labels]
    BY DEF TurnsOK
<1> DEFINE Moves == /\ \E label : pc' = [pc EXCEPT ![w] = label]
                    /\ \E t : turn' = [turn EXCEPT ![w] = t]
                    /\ UNCHANGED poolVars
<1>2. turn = [turn EXCEPT ![w] = turn[w]]
    BY <1>1
<1>3. ASSUME NEW label, Goto(w, label), UNCHANGED turn PROVE Moves
    BY <1>2, <1>3
<1>4. ASSUME NEW text, NEW next, ReplyWith(w, text, next) PROVE Moves
    BY <1>4
<1>5. ASSUME NEW label, Goto(w, label), \E t : turn' = [turn EXCEPT ![w] = t] PROVE Moves
    BY <1>5
<1>6. Return(w) \/ Moves
    <2>1. CASE Dedup(w)             BY <1>3, <2>1 DEF Dedup
    <2>2. CASE EnsureCustomer(w)    BY <1>3, <1>4, <2>2 DEF EnsureCustomer
    <2>3. CASE LookupEmployee(w)    BY <1>3, <1>4, <2>3 DEF LookupEmployee
    <2>4. CASE CompanyFails(w)      BY <2>4 DEF CompanyFails
    <2>5. CASE OpenConversation(w)  BY <1>4, <1>5, <2>5 DEF OpenConversation
    <2>6. CASE PersistInbound(w)    BY <1>3, <1>4, <2>6 DEF PersistInbound
    <2>7. CASE BuildHistory(w)      BY <1>4, <1>5, <2>7 DEF BuildHistory
    <2>8. CASE ModelAnswers(w)      BY <1>4, <1>5, <2>8 DEF ModelAnswers
    <2>9. CASE ModelFailure(w)      BY <1>4, <2>9 DEF ModelFailure
    <2>10. CASE RunTools(w)         BY <1>4, <1>5, <2>10 DEF RunTools
    <2>11. CASE CreateEscalation(w) BY <1>3, <2>11 DEF CreateEscalation
    <2>12. CASE SetEscalated(w)     BY <1>4, <2>12 DEF SetEscalated
    <2>13. CASE NoteEscalation(w)   BY <2>13 DEF NoteEscalation
    <2>14. CASE Reply(w)            BY <1>3, <2>14 DEF Reply
    <2>15. CASE CountTail(w)        BY <1>5, <2>15 DEF CountTail
    <2>16. CASE FoldSummary(w)      BY <2>16 DEF FoldSummary
    <2>17. CASE LookupCustomer(w)   BY <1>3, <1>4, <2>17 DEF LookupCustomer
    <2> HIDE DEF Moves
    <2> QED
        BY <2>1, <2>2, <2>3, <2>4, <2>5, <2>6, <2>7, <2>8, <2>9, <2>10, <2>11, <2>12,
           <2>13, <2>14, <2>15, <2>16, <2>17 DEF Step
<1>7. CASE Return(w)
    BY <1>1, <1>7 DEF Return, Finish
<1>8. CASE Moves
    BY <1>1, <1>8 DEF poolVars
<1> QED
    BY <1>6, <1>7, <1>8

-----------------------------------------------------------------------------
\* A step that leaves the traces of turn j alone; rows and replies stay.
Keeps == /\ RowIds \subseteq RowIds' /\ DOMAIN sends \subseteq DOMAIN sends'
         /\ \A r \in RowIds : messages'[r] = messages[r]
         /\ \A a \in DOMAIN sends : sends'[a] = sends[a]

Spares(j) == /\ TurnRows(j)' = TurnRows(j)
             /\ SentBy(j)' = SentBy(j)
             /\ j \in escalations' <=> j \in escalations

\* Rows of a kind are among the rows of the turn, and finitely many.
LEMMA RowsAreFew ==
    ASSUME HTypeOK, NEW i, NEW kind
    PROVE  /\ RowsOf(i, kind) \subseteq RowIds
           /\ IsFiniteSet(RowsOf(i, kind))
           /\ Cardinality(RowsOf(i, kind)) \in Nat
<1>1. Len(messages) \in Nat
    BY DEF HTypeOK, TablesOK
<1>2. IsFiniteSet(RowIds)
    BY <1>1, FS_Interval DEF RowIds
<1>3. RowsOf(i, kind) \subseteq RowIds
    BY DEF RowsOf
<1> QED
    BY <1>2, <1>3, FS_Subset, FS_CardinalityType

\* A call that leaves the rows of a turn alone leaves those of each kind alone.
LEMMA SparesRows ==
    ASSUME Keeps, NEW j, Spares(j), NEW kind
    PROVE  RowsOf(j, kind)' = RowsOf(j, kind)
<1>1. \A r : r \in RowsOf(j, kind) <=> r \in TurnRows(j) /\ messages[r].kind = kind
    BY DEF RowsOf, TurnRows
<1>2. \A r : r \in RowsOf(j, kind)' <=> r \in TurnRows(j)' /\ messages'[r].kind = kind
    BY DEF RowsOf, TurnRows
<1>3. \A r \in TurnRows(j) : messages'[r] = messages[r]
    BY DEF Keeps, TurnRows
<1> QED
    BY <1>1, <1>2, <1>3 DEF Spares

\* An answer that is backed stays so.
LEMMA AnswerableStays ==
    ASSUME Keeps, NEW j, Answerable(j)
    PROVE  Answerable(j)'
<1>1. \A kind : \A r \in RowsOf(j, kind) : r \in RowsOf(j, kind)' /\ messages'[r] = messages[r]
    BY DEF Keeps, RowsOf
<1>2. WholeTools' = WholeTools
    BY DEF WholeTools
<1>3. PICK u : u \in RowsOf(j, "user")
    BY DEF Answerable
<1>4. RowsOf(j, "user")' # {}
    BY <1>1, <1>3
<1>5. WholeTools => \E r \in Asked(j)' : ~messages'[r].uses
    BY <1>1 DEF Answerable, Asked
<1> QED
    BY <1>2, <1>4, <1>5 DEF Answerable

\* What is spared stands where it stood.
LEMMA SparedStands ==
    ASSUME Keeps, NEW j, Spares(j)
    PROVE  /\ Traceless(j)' <=> Traceless(j)
           /\ AllUse(j)' <=> AllUse(j)
           /\ Exhausted(j)' <=> Exhausted(j)
           /\ Escalated(j)' <=> Escalated(j)
           /\ Bounded(j)' <=> Bounded(j)
           /\ \A label, t : At(j, label, t) => At(j, label, t)'
<1>1. \A kind : RowsOf(j, kind)' = RowsOf(j, kind)
    BY SparesRows
<1>2. Asked(j)' = Asked(j) /\ ResultsOf(j)' = ResultsOf(j)
    BY <1>1 DEF Asked, ResultsOf
<1>3. Traceless(j)' <=> Traceless(j)
    BY DEF Spares, Traceless
<1>4. AllUse(j)' <=> AllUse(j)
    <2>1. \A r \in Asked(j) : messages'[r] = messages[r]
        BY DEF Asked, RowsOf, Keeps
    <2> QED BY <1>2, <2>1 DEF AllUse
<1>5. Limit' = Limit
    BY DEF Limit
<1>6. Exhausted(j)' <=> Exhausted(j)
    BY <1>2, <1>4, <1>5 DEF Exhausted
<1>7. Escalated(j)' <=> Escalated(j)
    <2>1. \A a \in SentBy(j) : sends'[a] = sends[a]
        BY DEF SentBy, Keeps
    <2> QED BY <2>1 DEF Escalated, Spares
<1>8. Bounded(j)' <=> Bounded(j)
    BY <1>2, <1>5, <1>6, <1>7 DEF Bounded
<1>9. ASSUME NEW label, NEW t, At(j, label, t) PROVE At(j, label, t)'
    <2>1. Answerable(j) => Answerable(j)'
        BY AnswerableStays
    <2>2. Untold' = Untold /\ Working' = Working /\ Telling' = Telling
        BY DEF Untold, Working, Telling
    <2>3. SentBy(j)' = SentBy(j) /\ (j \in escalations' <=> j \in escalations)
        BY DEF Spares
    <2> QED
        BY <1>1, <1>2, <1>3, <1>4, <1>5, <1>6, <1>9, <2>1, <2>2, <2>3 DEF At
<1> QED
    BY <1>3, <1>4, <1>6, <1>7, <1>8, <1>9

\* A step that leaves the tables of traces alone spares every turn.
LEMMA QuietSpares ==
    ASSUME UNCHANGED <<messages, sends, escalations>>
    PROVE  Keeps /\ \A j : Spares(j)
BY DEF Keeps, Spares, TurnRows, SentBy, RowIds

\* A row of turn i and `kind', if it is written, is one more of its kind ...
LEMMA RowAdded ==
    ASSUME HTypeOK, NEW w \in Workers, pc[w] # "idle", PoolInv,
           NEW kind \in Kinds, NEW uses \in BOOLEAN, NEW o, o # "err",
           AppendMessage(w, kind, uses, o)
    PROVE  LET new == Len(messages) + 1
           IN  /\ new \notin RowIds /\ RowIds' = RowIds \cup {new}
               /\ \A r \in RowIds : messages'[r] = messages[r]
               /\ messages'[new].turn = running[w] /\ messages'[new].kind = kind
               /\ messages'[new].uses = uses /\ messages'[new].conv = Conv(w)
               /\ \A j : TurnRows(j)' = IF j = running[w] THEN TurnRows(j) \cup {new} ELSE TurnRows(j)
               /\ \A j, k : RowsOf(j, k)' = IF j = running[w] /\ k = kind
                                            THEN RowsOf(j, k) \cup {new} ELSE RowsOf(j, k)
               /\ \A j : j = running[w] =>
                     Cardinality(RowsOf(j, kind))' = Cardinality(RowsOf(j, kind)) + 1
<1> DEFINE new == Len(messages) + 1
           row == [conv |-> Conv(w), kind |-> kind, turn |-> running[w], uses |-> uses]
<1>1. messages \in Seq(Row)
    BY DEF HTypeOK, TablesOK
<1>2. messages' = Append(messages, row)
    BY DEF AppendMessage
<1>3. /\ row.conv = Conv(w) /\ row.kind = kind /\ row.turn = running[w] /\ row.uses = uses
      /\ row \in Row
    BY TurnHasMessage DEF Row, Kinds
<1> HIDE DEF row
<1>4. /\ new \notin RowIds /\ RowIds' = RowIds \cup {new}
      /\ \A r \in RowIds : messages'[r] = messages[r]
      /\ messages'[new] = row
    BY <1>1, <1>2, <1>3 DEF RowIds
<1> HIDE DEF new
<1>5. ASSUME NEW j
      PROVE  TurnRows(j)' = IF j = running[w] THEN TurnRows(j) \cup {new} ELSE TurnRows(j)
    <2>1. \A r : r \in TurnRows(j)' <=> r \in RowIds \cup {new} /\ messages'[r].turn = j
        BY <1>4 DEF TurnRows
    <2>2. \A r : r \in TurnRows(j) <=> r \in RowIds /\ messages[r].turn = j
        BY DEF TurnRows
    <2>3. messages'[new].turn = running[w]
        BY <1>3, <1>4
    <2> QED BY <1>4, <2>1, <2>2, <2>3
<1>6. ASSUME NEW j, NEW k
      PROVE  RowsOf(j, k)' = IF j = running[w] /\ k = kind THEN RowsOf(j, k) \cup {new}
                                                           ELSE RowsOf(j, k)
    <2>1. \A r : r \in RowsOf(j, k)' <=> r \in RowIds \cup {new} /\ messages'[r].turn = j
                                                                /\ messages'[r].kind = k
        BY <1>4 DEF RowsOf
    <2>2. \A r : r \in RowsOf(j, k) <=> r \in RowIds /\ messages[r].turn = j /\ messages[r].kind = k
        BY DEF RowsOf
    <2>3. messages'[new].turn = running[w] /\ messages'[new].kind = kind
        BY <1>3, <1>4
    <2> QED BY <1>4, <2>1, <2>2, <2>3
<1>7. ASSUME NEW j, j = running[w]
      PROVE  Cardinality(RowsOf(j, kind))' = Cardinality(RowsOf(j, kind)) + 1
    <2>1. IsFiniteSet(RowsOf(j, kind)) /\ new \notin RowsOf(j, kind)
        BY <1>4, RowsAreFew
    <2>2. Cardinality(RowsOf(j, kind) \cup {new}) = Cardinality(RowsOf(j, kind)) + 1
        BY <2>1, FS_AddElement
    <2> QED BY <1>6, <1>7, <2>2
<1> QED
    BY <1>3, <1>4, <1>5, <1>6, <1>7 DEF new

-----------------------------------------------------------------------------
\* What a call of the turn in w must do to the traces.
LeavesWell(w) ==
    /\ Keeps
    /\ \A j : j # running[w] => Spares(j)
    /\ At(running[w], pc[w], turn[w])'
    /\ \A j : j = running[w] => Bounded(j)'
    /\ \A a \in DOMAIN sends' \ DOMAIN sends : Backed(a)'

\* A worker without a turn has nothing to answer for.
LEMMA IdleStands ==
    ASSUME NEW w, pc'[w] = "idle", turn'[w] = NoTurn
    PROVE  At(running[w], pc[w], turn[w])'
<1>1. NoTurn.rounds = 0
    BY DEF NoTurn
<1>2. ASSUME NEW i, NEW t, t.rounds = 0 PROVE At(i, "idle", t)'
    BY <1>2 DEF At, Untold, Working, Telling
<1>3. \A i, label, t : label = "idle" /\ t.rounds = 0 => At(i, label, t)'
    BY <1>2
<1>4. turn'[w].rounds = 0
    BY <1>1
<1> HIDE DEF NoTurn
<1> QED
    BY <1>3, <1>4

\* A call that leaves no trace.
LEMMA QuietLeavesWell ==
    ASSUME PoolInv, HTypeOK, TurnInv, NEW w \in Workers, pc[w] # "idle",
           UNCHANGED <<messages, sends, escalations>>,
           \/ pc'[w] = "idle" /\ turn'[w] = NoTurn
           \/ running' = running /\ At(running[w], pc'[w], turn'[w])
    PROVE  LeavesWell(w)
<1>1. Keeps /\ \A j : Spares(j)
    BY QuietSpares
<1>2. running[w] \in Indices
    BY TurnHasMessage
<1>3. \A j : j = running[w] => Bounded(j)'
    BY <1>1, <1>2, SparedStands DEF TurnInv
<1>4. At(running[w], pc[w], turn[w])'
    <2>1. CASE pc'[w] = "idle" /\ turn'[w] = NoTurn
        BY <2>1, IdleStands
    <2>2. CASE running' = running /\ At(running[w], pc'[w], turn'[w])
        <3> DEFINE i == running[w]
                   label == pc'[w]
                   t == turn'[w]
        <3>1. \A j : Spares(j) => \A l, u : At(j, l, u) => At(j, l, u)'
            BY <1>1, SparedStands
        <3>2. \A j, l, u : At(j, l, u) => At(j, l, u)'
            BY <1>1, <3>1
        <3>3. \A j, l, u : At(j, l, u) /\ j = running'[w] /\ l = pc'[w] /\ u = turn'[w]
                              => At(running[w], pc[w], turn[w])'
            BY <3>2
        <3> QED BY <2>2, <3>3
    <2> QED BY <2>1, <2>2
<1> QED
    BY <1>1, <1>3, <1>4 DEF LeavesWell

\* The ways from station to station that leave no trace.
LEMMA LimitIs ==
    /\ Limit \in Nat
    /\ \A n \in Nat : Round(n) = "model" => n < Limit
    /\ \A n \in Nat : Round(n) # "model" => Round(n) = "escalate" /\ n >= Limit
BY HarnessAssumption DEF Limit, AtLeastOne, Round

\* Once the reply was tried, nothing more is asked of the turn's traces.
LEMMA LateStands ==
    \A i, t : At(i, "count", t) /\ At(i, "fold", t) /\ At(i, "note", t)
BY DEF At, Untold, Working, Telling

\* An apology may be sent from any place before the reply.
LEMMA FailedStands ==
    ASSUME NEW i, NEW t, NEW u, NEW label \in Untold \cup Telling, At(i, label, t),
           u.text \in {"failed", "unknown"}
    PROVE  At(i, "reply", u)
<1>1. SentBy(i) = {}
    BY DEF At, Untold, Telling, Traceless
<1> QED
    BY <1>1 DEF At, Untold, Working, Telling

\* Before the user's row is stored, one place is as good as the next.
LEMMA UntoldStands ==
    ASSUME NEW i, NEW t, NEW u, u.rounds = t.rounds, NEW label \in Untold, NEW next \in Untold,
           At(i, label, t)
    PROVE  At(i, next, u)
BY DEF At, Untold, Working, Telling

\* From the stored row to the first round, or to the escalation when no round is allowed.
LEMMA HistoryStands ==
    ASSUME HTypeOK, NEW i, NEW t, NEW u, u.rounds = 0, At(i, "history", t)
    PROVE  At(i, Round(0), u)
<1>1. /\ RowsOf(i, "user") # {} /\ i \notin escalations /\ SentBy(i) = {}
      /\ Asked(i) = {} /\ ResultsOf(i) = {}
    BY DEF At, Untold, Working, Telling
<1>2. Cardinality(Asked(i)) = 0 /\ Cardinality(ResultsOf(i)) = 0 /\ AllUse(i)
    BY <1>1, FS_EmptySet DEF AllUse
<1>3. CASE Round(0) = "model"
    BY <1>1, <1>2, <1>3, LimitIs DEF At, Untold, Working, Telling
<1>4. CASE Round(0) # "model"
    <2>1. Round(0) = "escalate" /\ Limit = 0
        BY <1>4, LimitIs
    <2>2. Exhausted(i)
        BY <1>2, <2>1 DEF Exhausted
    <2> QED
        BY <1>1, <2>1, <2>2 DEF At, Untold, Working, Telling
<1> QED BY <1>3, <1>4

\* From the marked conversation to the sentence that says the team was informed.
LEMMA MarkStands ==
    ASSUME NEW i, NEW t, NEW u, u.text = "escalated", At(i, "mark", t)
    PROVE  At(i, "reply", u)
<1>1. SentBy(i) = {}
    BY DEF At, Telling
<1>2. Exhausted(i)
    BY DEF At
<1> QED
    BY <1>1, <1>2 DEF At, Untold, Working, Telling

\* The calls before the message is stored, the calls that only read, and the
\* fold.
LEMMA QuietSteps ==
    ASSUME PoolInv, HTypeOK, TurnInv, NEW w \in Workers,
           \/ Dedup(w) \/ EnsureCustomer(w) \/ LookupCustomer(w) \/ LookupEmployee(w)
           \/ CompanyFails(w) \/ OpenConversation(w) \/ BuildHistory(w) \/ ModelFailure(w) \/ SetEscalated(w)
           \/ CountTail(w) \/ FoldSummary(w)
    PROVE  LeavesWell(w)
<1> DEFINE i == running[w]
<1>1. TurnsOK /\ running \in [Workers -> Nat] /\ turn \in [Workers -> Locals]
    BY DEF HTypeOK, TurnsOK, PoolTypeOK
<1>2. At(i, pc[w], turn[w])
    BY DEF TurnInv
<1>3. Return(w) => pc'[w] = "idle" /\ turn'[w] = NoTurn
    BY <1>1, ReturnIs
<1>4. ASSUME NEW next, pc[w] \in Untold \cup Telling,
             ReplyWith(w, "failed", next) \/ ReplyWith(w, "unknown", next)
      PROVE  running' = running /\ At(i, pc'[w], turn'[w])
    <2>1. /\ pc'[w] = "reply" /\ turn'[w].text \in {"failed", "unknown"}
          /\ running' = running
        BY <1>1, <1>4, ReplyWithIs DEF poolVars
    <2> QED
        BY <1>2, <1>4, <2>1, FailedStands
<1>5. ASSUME NEW next \in Untold, pc[w] \in Untold, Goto(w, next), turn'[w].rounds = turn[w].rounds
      PROVE  running' = running /\ At(i, pc'[w], turn'[w])
    BY <1>1, <1>2, <1>5, GotoIs, UntoldStands DEF poolVars
<1>6. {"dedup", "identity", "lookup", "open", "persist", "history", "model"} \subseteq Untold \cup Telling
    BY DEF Untold, Working, Telling
<1> DEFINE Leaves == \/ pc'[w] = "idle" /\ turn'[w] = NoTurn
                     \/ running' = running /\ At(i, pc'[w], turn'[w])
<1>7. /\ pc[w] # "idle" /\ UNCHANGED <<messages, sends, escalations>>
      /\ Leaves
    <2>1. CASE Dedup(w)
        <3>1. Return(w) \/ (Goto(w, "identity") /\ UNCHANGED turn)
            BY <2>1 DEF Dedup
        <3>2. pc[w] = "dedup" /\ UNCHANGED <<messages, sends, escalations>>
            BY <2>1 DEF Dedup
        <3>3. Leaves
            BY <1>3, <1>5, <3>1, <3>2 DEF Untold
        <3> QED BY <3>2, <3>3
    <2>2. CASE EnsureCustomer(w) \/ LookupCustomer(w) \/ LookupEmployee(w)
        <3>1. \/ (Goto(w, "lookup") \/ Goto(w, "open")) /\ UNCHANGED turn
              \/ ReplyWith(w, "failed", "end") \/ ReplyWith(w, "unknown", "end")
            BY <2>2 DEF EnsureCustomer, LookupCustomer, LookupEmployee, Apologise
        <3>2. pc[w] \in {"identity", "lookup"} /\ UNCHANGED <<messages, sends, escalations>>
            BY <2>2 DEF EnsureCustomer, LookupCustomer, LookupEmployee, tables
        <3>3. Leaves
            BY <1>4, <1>5, <1>6, <3>1, <3>2 DEF Untold
        <3> QED BY <3>2, <3>3
    <2>3. CASE CompanyFails(w)
        BY <1>3, <2>3 DEF CompanyFails, tables
    <2>4. CASE OpenConversation(w)
        <3>1. pc[w] = "open" /\ UNCHANGED <<messages, sends, escalations>>
            BY <2>4 DEF OpenConversation, tables
        <3>2. CASE Apologise(w)
            BY <1>4, <1>6, <3>1, <3>2 DEF Apologise
        <3>3. CASE ~Apologise(w)
            <4>1. /\ turn' = [turn EXCEPT ![w].upto = convs[Conv(w)].upto,
                                          ![w].covered = convs[Conv(w)].covered]
                  /\ Goto(w, "persist")
                BY <2>4, <3>3 DEF OpenConversation
            <4>2. turn[w] \in Locals
                BY <1>1
            <4>3. turn'[w].rounds = turn[w].rounds
                BY <1>1, <4>1, <4>2 DEF Locals
            <4> QED
                BY <1>5, <3>1, <4>1, <4>3 DEF Untold
        <3> QED BY <3>2, <3>3
    <2>5. CASE BuildHistory(w)
        <3>1. pc[w] = "history" /\ UNCHANGED <<messages, sends, escalations>>
            BY <2>5 DEF BuildHistory, tables
        <3>2. CASE Apologise(w)
            BY <1>4, <1>6, <3>1, <3>2 DEF Apologise
        <3>3. CASE ~Apologise(w)
            <4>1. PICK p : turn' = [turn EXCEPT ![w].prompt = p] /\ Goto(w, Round(0))
                BY <2>5, <3>3 DEF BuildHistory
            <4>2. turn[w] \in Locals
                BY <1>1
            <4>3. turn'[w].rounds = turn[w].rounds
                BY <1>1, <4>1, <4>2 DEF Locals
            <4>4. turn[w].rounds = 0
                BY <1>2, <3>1 DEF At
            <4>5. pc'[w] = Round(0) /\ running' = running
                BY <1>1, <4>1, GotoIs DEF poolVars
            <4> QED
                BY <1>2, <3>1, <4>3, <4>4, <4>5, HistoryStands
        <3> QED BY <3>2, <3>3
    <2>6. CASE ModelFailure(w)
        BY <1>4, <1>6, <2>6 DEF ModelFailure, tables
    <2>7. CASE SetEscalated(w)
        <3>1. /\ pc[w] = "mark" /\ UNCHANGED <<messages, sends, escalations>>
              /\ ReplyWith(w, "escalated", "note")
            BY <2>7 DEF SetEscalated
        <3>2. pc'[w] = "reply" /\ turn'[w].text = "escalated" /\ running' = running
            BY <1>1, <3>1, ReplyWithIs DEF poolVars
        <3>3. At(i, "reply", turn'[w])
            BY <1>2, <3>1, <3>2, MarkStands
        <3> QED BY <3>1, <3>2, <3>3
    <2>8. CASE CountTail(w)
        <3>1. pc[w] = "count" /\ UNCHANGED <<messages, sends, escalations>>
            BY <2>8 DEF CountTail, tables
        <3>2. Return(w) \/ Goto(w, "fold")
            BY <2>8 DEF CountTail
        <3>3. Goto(w, "fold") => pc'[w] = "fold" /\ running' = running
            BY <1>1, GotoIs DEF poolVars
        <3> QED BY <1>3, <3>1, <3>2, <3>3, LateStands
    <2>9. CASE FoldSummary(w)
        BY <1>3, <2>9 DEF FoldSummary
    <2> HIDE DEF Leaves
    <2> QED
        BY <2>1, <2>2, <2>3, <2>4, <2>5, <2>6, <2>7, <2>8, <2>9
<1> QED
    BY <1>7, QuietLeavesWell

-----------------------------------------------------------------------------
\* A call that writes a row touches its own turn only.
LEMMA RowSpares ==
    ASSUME PoolInv, HTypeOK, NEW w \in Workers, pc[w] # "idle",
           NEW kind \in Kinds, NEW uses \in BOOLEAN, NEW o, AppendMessage(w, kind, uses, o),
           UNCHANGED <<sends, escalations>>
    PROVE  /\ Keeps
           /\ \A j : j # running[w] => Spares(j)
           /\ \A j : SentBy(j)' = SentBy(j)
           /\ o = "err" => UNCHANGED messages
<1>1. \A j : SentBy(j)' = SentBy(j)
    BY DEF SentBy
<1>2. CASE o = "err"
    <2>1. UNCHANGED messages
        BY <1>2 DEF AppendMessage
    <2> QED BY <1>1, <2>1, QuietSpares
<1>3. CASE o # "err"
    BY <1>1, <1>3, RowAdded DEF Keeps, Spares
<1> QED BY <1>2, <1>3

\* Where the turn stands next, said of rigid values.
LEMMA StandsNext ==
    ASSUME NEW w, NEW i, NEW label, NEW t, i = running'[w], label = pc'[w], t = turn'[w],
           At(i, label, t)'
    PROVE  At(running[w], pc[w], turn[w])'
<1>1. \A j, l, u : At(j, l, u)' /\ j = running'[w] /\ l = pc'[w] /\ u = turn'[w]
                      => At(running[w], pc[w], turn[w])'
    OBVIOUS
<1> QED
    BY <1>1

\* A reply that promises nothing may follow any row.
LEMMA FailedStandsNext ==
    ASSUME NEW w, NEW i, i = running'[w], pc'[w] = "reply",
           turn'[w].text \in {"failed", "unknown"}, SentBy(i)' = {}
    PROVE  At(running[w], pc[w], turn[w])'
<1>1. ASSUME NEW t, t.text \in {"failed", "unknown"} PROVE At(i, "reply", t)'
    BY <1>1 DEF At, Untold, Working, Telling
<1>2. PICK t, l : t = turn'[w] /\ l = pc'[w]
    OBVIOUS
<1>3. t.text \in {"failed", "unknown"} /\ l = "reply"
    BY <1>2
<1>4. At(i, l, t)'
    BY <1>1, <1>3
<1> QED
    BY <1>2, <1>4, StandsNext

\* The user row is the first trace of a turn.
LEMMA PersistLeavesWell ==
    ASSUME PoolInv, HTypeOK, TurnInv, NEW w \in Workers, PersistInbound(w)
    PROVE  LeavesWell(w)
<1>1. TurnsOK /\ running \in [Workers -> Nat]
    BY DEF HTypeOK, PoolTypeOK
<1>2. PICK o \in Outcomes(w) :
         /\ AppendMessage(w, "user", FALSE, o)
         /\ IF o = "ok" THEN Goto(w, "history") /\ UNCHANGED turn ELSE Apologise(w)
    BY DEF PersistInbound
<1>3. pc[w] = "persist" /\ UNCHANGED <<sends, escalations>>
    BY DEF PersistInbound
<1>4. /\ Keeps
      /\ \A j : j # running[w] => Spares(j)
      /\ \A j : SentBy(j)' = SentBy(j)
      /\ o = "err" => UNCHANGED messages
    BY <1>2, <1>3, RowSpares DEF Kinds
<1>5. PICK i : i = running[w]
    OBVIOUS
<1>6. At(i, "persist", turn[w])
    BY <1>3, <1>5 DEF TurnInv
<1>7. Traceless(i) /\ turn[w].rounds = 0
    BY <1>6 DEF At, Untold
<1>8. \A kind : RowsOf(i, kind) = {}
    BY <1>7 DEF Traceless, TurnRows, RowsOf
<1>9. running' = running
    BY <1>1, <1>2, GotoIs DEF Apologise, ReplyWith, poolVars
<1>10. CASE o = "err"
    <2>1. ReplyWith(w, "failed", "end")
        BY <1>2, <1>10 DEF Apologise
    <2>2. pc'[w] = "reply" /\ turn'[w].text = "failed"
        BY <1>1, <2>1, ReplyWithIs
    <2>3. At(running[w], pc'[w], turn'[w])
        BY <1>5, <1>6, <2>2, FailedStands DEF Untold
    <2> QED
        BY <1>3, <1>4, <1>9, <1>10, <2>3, QuietLeavesWell
<1>11. CASE o # "err"
    <2> DEFINE new == Len(messages) + 1
    <2>1. /\ RowsOf(i, "user")' = RowsOf(i, "user") \cup {new}
          /\ Asked(i)' = Asked(i) /\ ResultsOf(i)' = ResultsOf(i)
        BY <1>2, <1>3, <1>5, <1>11, RowAdded DEF Kinds, Asked, ResultsOf
    <2>2. Asked(i)' = {} /\ ResultsOf(i)' = {} /\ SentBy(i)' = {} /\ RowsOf(i, "user")' # {}
        BY <1>4, <1>7, <1>8, <2>1 DEF Asked, ResultsOf, Traceless
    <2>3. i \notin escalations'
        BY <1>3, <1>7 DEF Traceless
    <2>4. Bounded(i)'
        <3>1. Cardinality(Asked(i)') = 0
            BY <2>2, FS_EmptySet
        <3>2. ~Escalated(i)'
            BY <2>2, <2>3 DEF Escalated
        <3>3. Limit' = Limit
            BY DEF Limit
        <3> QED
            BY <3>1, <3>2, <3>3, LimitIs DEF Bounded
    <2>5. At(running[w], pc[w], turn[w])'
        <3>1. CASE o = "ok"
            <4>1. pc'[w] = "history" /\ turn'[w].rounds = 0
                BY <1>1, <1>2, <1>7, <3>1, GotoIs
            <4>2. ASSUME NEW t, t.rounds = 0 PROVE At(i, "history", t)'
                BY <2>2, <2>3, <4>2 DEF At, Untold, Working, Telling
            <4>3. PICK t, l : t = turn'[w] /\ l = pc'[w]
                OBVIOUS
            <4>4. At(i, l, t)'
                BY <4>1, <4>2, <4>3
            <4> QED
                BY <1>5, <1>9, <4>3, <4>4, StandsNext
        <3>2. CASE o # "ok"
            <4>1. pc'[w] = "reply" /\ turn'[w].text = "failed"
                BY <1>1, <1>2, <3>2, ReplyWithIs DEF Apologise
            <4> QED
                BY <1>5, <1>9, <2>2, <4>1, FailedStandsNext
        <3> QED BY <3>1, <3>2
    <2> QED
        BY <1>3, <1>4, <1>5, <2>4, <2>5 DEF LeavesWell
<1> QED BY <1>10, <1>11

\* An assistant row is one round more; the turn has not been escalated.
LEMMA ModelLeavesWell ==
    ASSUME PoolInv, HTypeOK, TurnInv, NEW w \in Workers, ModelAnswers(w)
    PROVE  LeavesWell(w)
<1>1. TurnsOK /\ running \in [Workers -> Nat] /\ turn \in [Workers -> Locals]
    BY DEF HTypeOK, TurnsOK, PoolTypeOK
<1>2. PICK r \in Responses, o \in Outcomes(w) :
         /\ AppendMessage(w, "assistant", r.uses, o)
         /\ \/ /\ o # "ok"
               /\ ReplyWith(w, "failed", "count")
            \/ /\ o = "ok" /\ r.stop = "tool_use"
               /\ turn' = [turn EXCEPT ![w].prompt = @ \cup {Len(messages) + 1}]
               /\ Goto(w, "tools")
            \/ /\ o = "ok" /\ r.stop # "tool_use"
               /\ ReplyWith(w, IF r.stop # "refusal" /\ r.text THEN "answer" ELSE "failed",
                            "count")
    BY DEF ModelAnswers
<1>3. pc[w] = "model" /\ UNCHANGED <<sends, escalations>>
    BY DEF ModelAnswers
<1>4. r.uses \in BOOLEAN /\ (r.stop = "tool_use" => r.uses)
    BY HarnessAssumption DEF ResponseType
<1>5. /\ Keeps
      /\ \A j : j # running[w] => Spares(j)
      /\ \A j : SentBy(j)' = SentBy(j)
      /\ o = "err" => UNCHANGED messages
    BY <1>2, <1>3, <1>4, RowSpares DEF Kinds
<1>6. PICK i, t : i = running[w] /\ t = turn[w]
    OBVIOUS
<1>7. At(i, "model", t)
    BY <1>3, <1>6 DEF TurnInv
<1>8. /\ t.rounds < Limit /\ AllUse(i) /\ SentBy(i) = {} /\ i \notin escalations
      /\ RowsOf(i, "user") # {}
      /\ Cardinality(ResultsOf(i)) = t.rounds /\ Cardinality(Asked(i)) = t.rounds
    BY <1>7 DEF At, Working, Telling
<1>9. running' = running
    BY <1>1, <1>2, GotoIs DEF ReplyWith, poolVars
<1>10. CASE o = "err"
    <2>1. pc'[w] = "reply" /\ turn'[w].text = "failed"
        BY <1>1, <1>2, <1>10, ReplyWithIs
    <2>2. At(running[w], pc'[w], turn'[w])
        BY <1>6, <1>7, <2>1, FailedStands DEF Telling, Working
    <2> QED
        BY <1>3, <1>5, <1>9, <1>10, <2>2, QuietLeavesWell
<1>11. CASE o # "err"
    <2> DEFINE new == Len(messages) + 1
    <2>1. /\ Asked(i)' = Asked(i) \cup {new} /\ ResultsOf(i)' = ResultsOf(i)
          /\ RowsOf(i, "user")' = RowsOf(i, "user")
          /\ Cardinality(Asked(i))' = Cardinality(Asked(i)) + 1
          /\ messages'[new].uses = r.uses
          /\ \A q \in RowIds : messages'[q] = messages[q]
        BY <1>2, <1>3, <1>4, <1>6, <1>11, RowAdded DEF Kinds, Asked, ResultsOf
    <2> HIDE DEF new
    <2>2. SentBy(i)' = {} /\ i \notin escalations' /\ RowsOf(i, "user")' # {}
        BY <1>3, <1>5, <1>8, <2>1
    <2>3. t.rounds \in Nat
        BY <1>1, <1>6 DEF Locals
    <2>4. Limit' = Limit /\ Limit \in Nat
        BY LimitIs DEF Limit
    <2>5. Cardinality(Asked(i))' = t.rounds + 1 /\ Cardinality(ResultsOf(i))' = t.rounds
        BY <1>8, <2>1
    <2>6. Bounded(i)'
        <3>1. ~Escalated(i)'
            BY <2>2 DEF Escalated
        <3>2. Cardinality(Asked(i))' <= Limit
            BY <1>8, <2>3, <2>4, <2>5
        <3> QED
            BY <2>4, <3>1, <3>2 DEF Bounded
    <2>7. At(running[w], pc[w], turn[w])'
        <3>1. CASE ReplyWith(w, "failed", "count")
            <4>1. pc'[w] = "reply" /\ turn'[w].text = "failed"
                BY <1>1, <3>1, ReplyWithIs
            <4> QED
                BY <1>6, <1>9, <2>2, <4>1, FailedStandsNext
        <3>2. CASE r.stop # "tool_use" /\ ReplyWith(w, "answer", "count")
            <4>1. pc'[w] = "reply" /\ turn'[w].text = "answer"
                BY <1>1, <3>2, ReplyWithIs
            <4>2. WholeTools => ~r.uses
                BY <3>2 DEF WholeTools
            <4>3. WholeTools => \E q \in Asked(i)' : ~messages'[q].uses
                BY <2>1, <4>2
            <4>4. Answerable(i)'
                BY <2>2, <4>3 DEF Answerable, WholeTools
            <4>5. ASSUME NEW u, u.text = "answer" PROVE At(i, "reply", u)'
                BY <2>2, <4>4, <4>5 DEF At, Untold, Working, Telling
            <4>6. PICK u, l : u = turn'[w] /\ l = pc'[w]
                OBVIOUS
            <4>7. At(i, l, u)'
                BY <4>1, <4>5, <4>6
            <4> QED
                BY <1>6, <1>9, <4>6, <4>7, StandsNext
        <3>3. CASE /\ o = "ok" /\ r.stop = "tool_use"
                   /\ turn' = [turn EXCEPT ![w].prompt = @ \cup {Len(messages) + 1}]
                   /\ Goto(w, "tools")
            <4>1. pc'[w] = "tools"
                BY <1>1, <3>3, GotoIs
            <4>2. turn'[w].rounds = t.rounds
                BY <1>1, <1>6, <3>3 DEF Locals
            <4>3. AllUse(i)'
                <5>1. \A q \in Asked(i) : q \in RowIds /\ messages[q].uses
                    BY <1>8 DEF AllUse, Asked, RowsOf
                <5>2. \A q \in Asked(i)' : messages'[q].uses
                    BY <1>4, <2>1, <3>3, <5>1
                <5> QED BY <5>2 DEF AllUse
            <4>4. ASSUME NEW u, u.rounds = t.rounds PROVE At(i, "tools", u)'
                BY <1>8, <2>2, <2>4, <2>5, <4>3, <4>4 DEF At, Untold, Working, Telling
            <4>5. PICK u, l : u = turn'[w] /\ l = pc'[w]
                OBVIOUS
            <4>6. At(i, l, u)'
                BY <4>1, <4>2, <4>4, <4>5
            <4> QED
                BY <1>6, <1>9, <4>5, <4>6, StandsNext
        <3> QED BY <1>2, <3>1, <3>2, <3>3
    <2> QED
        BY <1>3, <1>5, <1>6, <2>6, <2>7 DEF LeavesWell
<1> QED BY <1>10, <1>11

\* The results close a round: the next one starts, or the turn is exhausted.
LEMMA ToolsLeaveWell ==
    ASSUME PoolInv, HTypeOK, TurnInv, NEW w \in Workers, RunTools(w)
    PROVE  LeavesWell(w)
<1>1. TurnsOK /\ running \in [Workers -> Nat] /\ turn \in [Workers -> Locals]
    BY DEF HTypeOK, TurnsOK, PoolTypeOK
<1>2. PICK o \in Outcomes(w) :
         /\ AppendMessage(w, "tool_result", FALSE, o)
         /\ \/ /\ o = "ok"
               /\ turn' = [turn EXCEPT ![w].prompt = @ \cup {Len(messages) + 1},
                                       ![w].rounds = @ + 1]
               /\ Goto(w, Round(turn[w].rounds + 1))
            \/ /\ o # "ok"
               /\ ReplyWith(w, "failed", "count")
    BY DEF RunTools
<1>3. pc[w] = "tools" /\ UNCHANGED <<sends, escalations>>
    BY DEF RunTools
<1>4. /\ Keeps
      /\ \A j : j # running[w] => Spares(j)
      /\ \A j : SentBy(j)' = SentBy(j)
      /\ o = "err" => UNCHANGED messages
    BY <1>2, <1>3, RowSpares DEF Kinds
<1>5. PICK i, t : i = running[w] /\ t = turn[w]
    OBVIOUS
<1>6. At(i, "tools", t)
    BY <1>3, <1>5 DEF TurnInv
<1>7. /\ t.rounds < Limit /\ AllUse(i) /\ SentBy(i) = {} /\ i \notin escalations
      /\ RowsOf(i, "user") # {}
      /\ Cardinality(ResultsOf(i)) = t.rounds /\ Cardinality(Asked(i)) = t.rounds + 1
    BY <1>6 DEF At, Working, Telling
<1>8. running' = running
    BY <1>1, <1>2, GotoIs DEF ReplyWith, poolVars
<1>9. CASE o = "err"
    <2>1. pc'[w] = "reply" /\ turn'[w].text = "failed"
        BY <1>1, <1>2, <1>9, ReplyWithIs
    <2>2. At(running[w], pc'[w], turn'[w])
        BY <1>5, <1>6, <2>1, FailedStands DEF Telling, Working
    <2> QED
        BY <1>3, <1>4, <1>8, <1>9, <2>2, QuietLeavesWell
<1>10. CASE o # "err"
    <2>1. /\ Asked(i)' = Asked(i) /\ RowsOf(i, "user")' = RowsOf(i, "user")
          /\ Cardinality(ResultsOf(i))' = Cardinality(ResultsOf(i)) + 1
          /\ \A q \in RowIds : messages'[q] = messages[q]
        BY <1>2, <1>3, <1>5, <1>10, RowAdded DEF Kinds, Asked, ResultsOf
    <2>2. SentBy(i)' = {} /\ i \notin escalations' /\ RowsOf(i, "user")' # {}
        BY <1>3, <1>4, <1>7, <2>1
    <2>3. t.rounds \in Nat
        BY <1>1, <1>5 DEF Locals
    <2>4. Limit' = Limit /\ Limit \in Nat
        BY LimitIs DEF Limit
    <2>5. Cardinality(Asked(i))' = t.rounds + 1 /\ Cardinality(ResultsOf(i))' = t.rounds + 1
        BY <1>7, <2>1
    <2>6. Bounded(i)'
        <3>1. ~Escalated(i)'
            BY <2>2 DEF Escalated
        <3>2. Cardinality(Asked(i))' <= Limit
            BY <1>7, <2>3, <2>4, <2>5
        <3> QED
            BY <2>4, <3>1, <3>2 DEF Bounded
    <2>7. AllUse(i)'
        <3>1. \A q \in Asked(i) : q \in RowIds /\ messages[q].uses
            BY <1>7 DEF AllUse, Asked, RowsOf
        <3> QED BY <2>1, <3>1 DEF AllUse
    <2>8. At(running[w], pc[w], turn[w])'
        <3>1. CASE o # "ok"
            <4>1. pc'[w] = "reply" /\ turn'[w].text = "failed"
                BY <1>1, <1>2, <3>1, ReplyWithIs
            <4> QED
                BY <1>5, <1>8, <2>2, <4>1, FailedStandsNext
        <3>2. CASE o = "ok"
            <4>1. pc'[w] = Round(t.rounds + 1)
                BY <1>1, <1>2, <1>5, <3>2, GotoIs
            <4>2. turn'[w].rounds = t.rounds + 1
                BY <1>1, <1>2, <1>5, <3>2 DEF Locals
            <4>3. \/ pc'[w] = "model" /\ t.rounds + 1 < Limit
                  \/ pc'[w] = "escalate" /\ t.rounds + 1 = Limit
                BY <1>7, <2>3, <2>4, <4>1, LimitIs
            <4>4. ASSUME NEW u, u.rounds = t.rounds + 1, t.rounds + 1 < Limit
                  PROVE  At(i, "model", u)'
                BY <2>2, <2>4, <2>5, <2>7, <4>4 DEF At, Untold, Working, Telling
            <4>5. ASSUME t.rounds + 1 = Limit
                  PROVE  \A u : At(i, "escalate", u)'
                <5>1. Exhausted(i)'
                    BY <2>4, <2>5, <2>7, <4>5 DEF Exhausted
                <5> QED
                    BY <2>2, <5>1 DEF At, Untold, Working, Telling
            <4>6. PICK u, l : u = turn'[w] /\ l = pc'[w]
                OBVIOUS
            <4>7. At(i, l, u)'
                BY <4>2, <4>3, <4>4, <4>5, <4>6
            <4> QED
                BY <1>5, <1>8, <4>6, <4>7, StandsNext
        <3> QED BY <3>1, <3>2
    <2> QED
        BY <1>3, <1>4, <1>5, <2>6, <2>8 DEF LeavesWell
<1> QED BY <1>9, <1>10

-----------------------------------------------------------------------------
\* A turn that uses up its rounds is escalated once they are.
LEMMA EscalateLeavesWell ==
    ASSUME PoolInv, HTypeOK, TurnInv, NEW w \in Workers, CreateEscalation(w)
    PROVE  LeavesWell(w)
<1>1. TurnsOK
    BY DEF HTypeOK
<1>2. PICK o \in Outcomes(w) :
         escalations' = IF o = "err" THEN escalations ELSE escalations \cup {running[w]}
    BY DEF CreateEscalation
<1>3. pc[w] = "escalate" /\ UNCHANGED <<messages, sends>>
    BY DEF CreateEscalation
<1>4. pc'[w] = "mark" /\ running' = running
    BY <1>1, GotoIs DEF CreateEscalation, poolVars
<1>5. PICK i, t : i = running[w] /\ t = turn[w]
    OBVIOUS
<1>6. At(i, "escalate", t)
    BY <1>3, <1>5 DEF TurnInv
<1>7. RowsOf(i, "user") # {} /\ SentBy(i) = {} /\ Exhausted(i)
    BY <1>6 DEF At, Working, Telling
<1>8. Keeps /\ \A j : j # running[w] => Spares(j)
    BY <1>2, <1>3 DEF Keeps, Spares, TurnRows, SentBy, RowIds
<1>9. RowsOf(i, "user")' # {} /\ SentBy(i)' = {} /\ Exhausted(i)'
    <2>1. \A kind : RowsOf(i, kind)' = RowsOf(i, kind)
        BY <1>3 DEF RowsOf, RowIds
    <2>2. Asked(i)' = Asked(i) /\ ResultsOf(i)' = ResultsOf(i)
        BY <2>1 DEF Asked, ResultsOf
    <2>3. AllUse(i)'
        BY <1>3, <1>7, <2>2 DEF Exhausted, AllUse
    <2>4. SentBy(i)' = SentBy(i)
        BY <1>3 DEF SentBy
    <2> QED
        BY <1>7, <2>1, <2>2, <2>3, <2>4 DEF Exhausted, Limit
<1>10. Cardinality(Asked(i))' <= Limit'
    BY <1>9, LimitIs DEF Exhausted, Limit
<1>11. Bounded(i)'
    BY <1>9, <1>10 DEF Bounded
<1>12. At(running[w], pc[w], turn[w])'
    <2>1. \A u : At(i, "mark", u)'
        BY <1>9 DEF At, Untold, Working, Telling
    <2>2. PICK u, l : u = turn'[w] /\ l = pc'[w]
        OBVIOUS
    <2>3. At(i, l, u)'
        BY <1>4, <2>1, <2>2
    <2> QED
        BY <1>4, <1>5, <2>2, <2>3, StandsNext
<1> QED
    BY <1>3, <1>5, <1>8, <1>11, <1>12 DEF LeavesWell

\* A note is no part of an exchange.
LEMMA NoteLeavesWell ==
    ASSUME PoolInv, HTypeOK, TurnInv, NEW w \in Workers, NoteEscalation(w)
    PROVE  LeavesWell(w)
<1>1. TurnsOK /\ running \in [Workers -> Nat]
    BY DEF HTypeOK, PoolTypeOK
<1>2. PICK o \in Outcomes(w) : AppendMessage(w, "system_note", FALSE, o)
    BY DEF NoteEscalation
<1>3. pc[w] = "note" /\ UNCHANGED <<sends, escalations>>
    BY DEF NoteEscalation
<1>4. pc'[w] = "idle" /\ turn'[w] = NoTurn
    BY <1>1, ReturnIs DEF NoteEscalation
<1>5. /\ Keeps
      /\ \A j : j # running[w] => Spares(j)
      /\ \A j : SentBy(j)' = SentBy(j)
      /\ o = "err" => UNCHANGED messages
    BY <1>2, <1>3, RowSpares DEF Kinds
<1>6. CASE o = "err"
    BY <1>3, <1>4, <1>5, <1>6, QuietLeavesWell
<1>7. CASE o # "err"
    <2>1. PICK i : i = running[w]
        OBVIOUS
    <2>2. Bounded(i)
        BY <1>3, <2>1, TurnHasMessage DEF TurnInv
    <2>3. /\ Asked(i)' = Asked(i) /\ ResultsOf(i)' = ResultsOf(i)
          /\ \A q \in RowIds : messages'[q] = messages[q]
        BY <1>2, <1>3, <1>7, <2>1, RowAdded DEF Kinds, Asked, ResultsOf
    <2>4. AllUse(i) => AllUse(i)'
        <3>1. \A q \in Asked(i) : messages'[q] = messages[q]
            BY <2>3 DEF Asked, RowsOf
        <3> QED BY <2>3, <3>1 DEF AllUse
    <2>5. Exhausted(i) => Exhausted(i)'
        BY <2>3, <2>4 DEF Exhausted, Limit
    <2>6. Escalated(i)' => Escalated(i)
        BY <1>3, <1>5 DEF Escalated
    <2>7. Bounded(i)'
        BY <2>2, <2>3, <2>5, <2>6 DEF Bounded, Limit
    <2> QED
        BY <1>3, <1>4, <1>5, <2>1, <2>7, IdleStands DEF LeavesWell
<1> QED BY <1>6, <1>7

\* A reply says what its turn may say.
LEMMA ReplyLeavesWell ==
    ASSUME PoolInv, HTypeOK, TurnInv, NEW w \in Workers, Reply(w)
    PROVE  LeavesWell(w)
<1>1. TurnsOK /\ running \in [Workers -> Nat] /\ sends \in Seq(Send)
    BY DEF HTypeOK, PoolTypeOK, TablesOK
<1>2. PICK d : sends' = Append(sends, [turn |-> running[w], text |-> turn[w].text,
                                       delivered |-> d])
    BY DEF Reply
<1>3. pc[w] = "reply" /\ UNCHANGED <<messages, escalations>>
    BY DEF Reply, tables
<1>4. PICK i, t : i = running[w] /\ t = turn[w]
    OBVIOUS
<1>5. At(i, "reply", t)
    BY <1>3, <1>4 DEF TurnInv
<1>6. Bounded(i)
    BY <1>3, <1>4, TurnHasMessage DEF TurnInv
<1>0. PICK new : new = Len(sends) + 1
    OBVIOUS
<1>7. /\ DOMAIN sends' = DOMAIN sends \cup {new} /\ new \notin DOMAIN sends
      /\ sends'[new].turn = i /\ sends'[new].text = t.text
      /\ \A a \in DOMAIN sends : sends'[a] = sends[a]
    BY <1>0, <1>1, <1>2, <1>4
<1>8. RowIds' = RowIds
    BY <1>3 DEF RowIds
<1>9. Keeps
    BY <1>3, <1>7, <1>8 DEF Keeps
<1>10. ASSUME NEW j, j # running[w] PROVE Spares(j)
    BY <1>3, <1>4, <1>7, <1>8, <1>10 DEF Spares, TurnRows, SentBy
<1>11. \A kind : RowsOf(i, kind)' = RowsOf(i, kind)
    BY <1>3, <1>8 DEF RowsOf
<1>12. Asked(i)' = Asked(i) /\ ResultsOf(i)' = ResultsOf(i) /\ Limit' = Limit
    BY <1>11 DEF Asked, ResultsOf, Limit
<1>13. Exhausted(i) => Exhausted(i)'
    BY <1>3, <1>12 DEF Exhausted, AllUse
<1>14. ASSUME Escalated(i)' PROVE Exhausted(i)
    <2>1. CASE i \in escalations
        BY <1>6, <2>1 DEF Bounded, Escalated
    <2>2. CASE i \notin escalations
        <3>1. PICK a \in SentBy(i)' : sends'[a].text = "escalated"
            BY <1>3, <1>14, <2>2 DEF Escalated
        <3>2. a \in DOMAIN sends' /\ sends'[a].turn = i
            BY <3>1 DEF SentBy
        <3>3. CASE a = new
            BY <1>5, <1>7, <3>1, <3>3 DEF At
        <3>4. CASE a # new
            <4>1. a \in SentBy(i) /\ sends[a].text = "escalated"
                BY <1>7, <3>1, <3>2, <3>4 DEF SentBy
            <4> QED BY <1>6, <4>1 DEF Bounded, Escalated
        <3> QED BY <3>3, <3>4
    <2> QED BY <2>1, <2>2
<1>15. Bounded(i)'
    BY <1>6, <1>12, <1>13, <1>14 DEF Bounded
<1>16. Backed(new)'
    <2>1. t.text = "answer" => Answerable(i)'
        BY <1>5, <1>9, AnswerableStays DEF At
    <2> QED
        BY <1>7, <2>1 DEF Backed
<1>17. At(running[w], pc[w], turn[w])'
    <2>1. CASE Return(w)
        BY <1>1, <2>1, ReturnIs, IdleStands
    <2>2. CASE ~Return(w)
        <3>1. Goto(w, t.next) /\ t.next # "end"
            BY <1>4, <2>2 DEF Reply
        <3>2. t.next \in Nexts
            BY <1>1, <1>4 DEF TurnsOK, Locals, Nexts
        <3>3. pc'[w] \in {"count", "note"} /\ running' = running
            BY <1>1, <3>1, <3>2, GotoIs DEF Nexts, poolVars
        <3>4. \A l, u : l \in {"count", "note"} => At(i, l, u)'
            BY DEF At, Untold, Working, Telling
        <3>5. PICK u, l : u = turn'[w] /\ l = pc'[w]
            OBVIOUS
        <3>6. At(i, l, u)'
            BY <3>3, <3>4, <3>5
        <3> QED
            BY <1>4, <3>3, <3>5, <3>6, StandsNext
    <2> QED BY <2>1, <2>2
<1>18. \A a \in DOMAIN sends' \ DOMAIN sends : Backed(a)'
    BY <1>7, <1>16
<1> QED
    BY <1>4, <1>9, <1>10, <1>15, <1>17, <1>18 DEF LeavesWell

-----------------------------------------------------------------------------
\* Every call of a turn, and the turn that runs it alone.
LEMMA StepLeavesWell ==
    ASSUME PoolInv, HTypeOK, TurnInv, NEW w \in Workers, Step(w)
    PROVE  LeavesWell(w)
BY QuietSteps, PersistLeavesWell, ModelLeavesWell, ToolsLeaveWell, EscalateLeavesWell,
   NoteLeavesWell, ReplyLeavesWell
DEF Step

\* A call belongs to a worker with a turn.
LEMMA StepIsInTurn ==
    ASSUME NEW w, Step(w) PROVE pc[w] # "idle"
BY DEF Step, Dedup, EnsureCustomer, LookupCustomer, LookupEmployee, CompanyFails, OpenConversation,
       PersistInbound, BuildHistory, ModelAnswers, ModelFailure, RunTools, CreateEscalation,
       SetEscalated, NoteEscalation, Reply, CountTail, FoldSummary

\* A number is in one worker only, and out of the queues once it runs.
LEMMA RunsAlone ==
    ASSUME PoolInv, NEW w \in Workers, running[w] # Idle
    PROVE  /\ \A v \in Workers \ {w} : running[v] # running[w]
           /\ running[w] \notin Queued
<1>1. ASSUME NEW v \in Workers \ {w}, running[v] = running[w] PROVE FALSE
    BY <1>1 DEF PoolInv, RunningInLane
<1>2. ASSUME NEW v \in Workers, NEW p \in 1 .. Len(queues[v]), queues[v][p] = running[w]
      PROVE  FALSE
    <2>1. v = w
        BY <1>2 DEF PoolInv, RunningInLane, QueuedInLane
    <2>2. running[w] < queues[w][p] /\ running[w] \in Nat
        BY <1>2, <2>1 DEF PoolInv, QueueSorted, PoolTypeOK
    <2> QED BY <1>2, <2>1, <2>2
<1> QED
    BY <1>1, <1>2 DEF Queued

\* Every call of a turn keeps the invariant, for its own turn and for all others.
LEMMA TurnStep ==
    ASSUME PoolInv, HTypeOK, TurnInv, NEW w \in Workers, Step(w)
    PROVE  TurnInv'
<1>1. LeavesWell(w)
    BY StepLeavesWell
<1>2. pc[w] # "idle" /\ TurnsOK /\ running \in [Workers -> Nat]
    BY StepIsInTurn DEF HTypeOK, PoolTypeOK
<1>3. running[w] # Idle
    BY <1>2, TurnHasMessage
<1>4. /\ \A v \in Workers \ {w} :
             pc'[v] = pc[v] /\ turn'[v] = turn[v] /\ running'[v] = running[v]
      /\ UNCHANGED <<accepted, queues, phase>>
    BY <1>2, StepMovesOne
<1>5. Queued' = Queued /\ Indices' = Indices
    BY <1>4 DEF Queued, Indices
<1>6. Keeps /\ \A j : j # running[w] => Spares(j)
    BY <1>1 DEF LeavesWell
<1>7. \A j : j # running[w] =>
          /\ Traceless(j) => Traceless(j)'
          /\ Bounded(j) => Bounded(j)'
          /\ \A label, t : At(j, label, t) => At(j, label, t)'
    BY <1>6, SparedStands
<1>8. \A i \in Queued : Traceless(i)'
    BY <1>3, <1>7, RunsAlone DEF TurnInv
<1>9. ASSUME NEW v \in Workers PROVE At(running[v], pc[v], turn[v])'
    <2>1. CASE v = w
        BY <1>1, <2>1 DEF LeavesWell
    <2>2. CASE v # w
        <3>1. PICK i, label, t : i = running[v] /\ label = pc[v] /\ t = turn[v]
            OBVIOUS
        <3>2. At(i, label, t) /\ i # running[w]
            BY <1>3, <2>2, <3>1, RunsAlone DEF TurnInv
        <3>3. At(i, label, t)'
            BY <1>7, <3>2
        <3>4. i = running'[v] /\ label = pc'[v] /\ t = turn'[v]
            BY <1>4, <2>2, <3>1
        <3> QED BY <3>3, <3>4, StandsNext
    <2> QED BY <2>1, <2>2
<1>10. \A i \in Indices : Bounded(i)'
    BY <1>1, <1>7 DEF TurnInv, LeavesWell
<1>11. ASSUME NEW a \in DOMAIN sends PROVE Backed(a)'
    <2>1. sends'[a] = sends[a] /\ Backed(a)
        BY <1>6 DEF Keeps, TurnInv
    <2>2. PICK j : j = sends[a].turn
        OBVIOUS
    <2>3. Answerable(j) => Answerable(j)'
        BY <1>6, AnswerableStays
    <2> QED
        BY <2>1, <2>2, <2>3 DEF Backed
<1>12. \A a \in DOMAIN sends' : Backed(a)'
    BY <1>1, <1>11 DEF LeavesWell
<1> QED
    BY <1>5, <1>8, <1>9, <1>10, <1>12 DEF TurnInv

\* Outside the calls of turns nothing is written; a message that joins a
\* queue has a new number.
LEMMA ElsewhereStands ==
    ASSUME HTypeOK, TurnInv, UNCHANGED <<messages, sends, escalations>>,
           \A i \in Queued' : i \in Queued \/ i \notin Indices,
           \A w \in Workers : \E i, label, t :
               /\ i = running'[w] /\ label = pc'[w] /\ t = turn'[w]
               /\ At(i, label, t)
    PROVE  TurnInv'
<1>1. Keeps /\ \A j : Spares(j)
    BY QuietSpares
<1>2. \A j : /\ Traceless(j) => Traceless(j)'
             /\ Bounded(j) => Bounded(j)'
             /\ \A label, t : At(j, label, t) => At(j, label, t)'
    BY <1>1, SparedStands
<1>3. \A i : i \notin Indices => Traceless(i)
    <2>1. messages \in Seq(Row) /\ sends \in Seq(Send) /\ escalations \subseteq Indices
        BY DEF HTypeOK, TablesOK
    <2>2. \A r \in RowIds : messages[r] \in Row
        BY <2>1 DEF RowIds
    <2>3. \A a \in DOMAIN sends : sends[a] \in Send
        BY <2>1
    <2>4. \A r \in RowIds : messages[r].turn \in Indices
        BY <2>2 DEF Row
    <2>5. \A a \in DOMAIN sends : sends[a].turn \in Indices
        BY <2>3 DEF Send
    <2> QED
        BY <2>1, <2>4, <2>5 DEF Traceless, TurnRows, SentBy
<1>4. \A i : Traceless(i) => Bounded(i)
    <2> SUFFICES ASSUME NEW i, Traceless(i) PROVE Bounded(i)
        OBVIOUS
    <2>1. Asked(i) = {} /\ SentBy(i) = {} /\ i \notin escalations
        BY DEF Traceless, TurnRows, Asked, RowsOf
    <2> QED
        BY <2>1, LimitIs, FS_EmptySet DEF Bounded, Escalated
<1>5. \A i \in Queued' : Traceless(i)'
    BY <1>2, <1>3 DEF TurnInv
<1>6. \A i : Bounded(i)'
    BY <1>2, <1>3, <1>4 DEF TurnInv
<1>7. ASSUME NEW w \in Workers PROVE At(running[w], pc[w], turn[w])'
    <2>1. PICK i, label, t : /\ i = running'[w] /\ label = pc'[w] /\ t = turn'[w]
                             /\ At(i, label, t)
        OBVIOUS
    <2> QED BY <1>2, <2>1, StandsNext
<1>8. \A a \in DOMAIN sends : Backed(a)'
    <2> SUFFICES ASSUME NEW a \in DOMAIN sends PROVE Backed(a)'
        OBVIOUS
    <2>1. PICK j : j = sends[a].turn
        OBVIOUS
    <2>2. Answerable(j) => Answerable(j)'
        BY <1>1, AnswerableStays
    <2>3. Backed(a)
        BY DEF TurnInv
    <2> QED
        BY <2>1, <2>2, <2>3 DEF Backed
<1> QED
    BY <1>5, <1>6, <1>7, <1>8 DEF TurnInv

-----------------------------------------------------------------------------
\* TurnInv is an invariant of the pipeline.
THEOREM TurnInvariant == HSpec => []TurnInv
<1>1. HInit => TurnInv
    <2> SUFFICES ASSUME HInit PROVE TurnInv
        OBVIOUS
    <2>1. /\ sends = <<>> /\ Queued = {} /\ Indices = {}
          /\ \A w \in Workers : pc[w] = "idle" /\ turn[w] = NoTurn
        BY DEF HInit, PoolInit, Queued, Indices
    <2>2. \A i, label, t : label = "idle" /\ t.rounds = 0 => At(i, label, t)
        BY DEF At, Untold, Working, Telling
    <2>3. NoTurn.rounds = 0
        BY DEF NoTurn
    <2>4. \A w \in Workers : At(running[w], pc[w], turn[w])
        BY <2>1, <2>2, <2>3
    <2> QED
        BY <2>1, <2>4 DEF TurnInv
<1>2. ASSUME PoolInv, HTypeOK, TurnInv, [HNext]_hVars
      PROVE  TurnInv'
    <2>1. /\ pc \in [Workers -> Labels] /\ running \in [Workers -> Nat]
          /\ turn \in [Workers -> Locals] /\ TurnsOK
          /\ queues \in [Workers -> Seq(Nat \ {Idle})]
        BY <1>2 DEF HTypeOK, TurnsOK, PoolTypeOK
    <2>2. \A w \in Workers : \E i, label, t :
              i = running[w] /\ label = pc[w] /\ t = turn[w] /\ At(i, label, t)
        BY <1>2 DEF TurnInv
    <2>3. CASE \E w \in Workers : Step(w)
        BY <1>2, <2>3, TurnStep
    <2>4. CASE \E w \in Workers : Begin(w)
        <3>1. PICK w \in Workers : Begin(w)
            BY <2>4
        <3>2. /\ UNCHANGED <<messages, sends, escalations>>
              /\ pc' = [pc EXCEPT ![w] = "dedup"] /\ turn' = turn
              /\ running' = [running EXCEPT ![w] = Head(queues[w])]
              /\ queues' = [queues EXCEPT ![w] = Tail(queues[w])]
              /\ queues[w] # <<>> /\ running[w] = Idle
            BY <3>1 DEF Begin, Receive, tables
        <3>3. Queued' \subseteq Queued
            <4>1. \A v \in Workers : \A p \in 1 .. Len(queues'[v]) :
                     \E q \in 1 .. Len(queues[v]) : queues'[v][p] = queues[v][q]
                BY <2>1, <3>2
            <4> QED BY <4>1 DEF Queued
        <3>4. Head(queues[w]) \in Queued
            <4>1. 1 \in 1 .. Len(queues[w]) /\ Head(queues[w]) = queues[w][1]
                BY <2>1, <3>2
            <4> QED BY <4>1 DEF Queued
        <3>5. ASSUME NEW v \in Workers
              PROVE  \E i, label, t : /\ i = running'[v] /\ label = pc'[v] /\ t = turn'[v]
                                      /\ At(i, label, t)
            <4>1. CASE v # w
                BY <2>1, <2>2, <3>2, <4>1
            <4>2. CASE v = w
                <5>1. PICK i, t : i = Head(queues[w]) /\ t = turn[w]
                    OBVIOUS
                <5>2. Traceless(i)
                    BY <1>2, <3>4, <5>1 DEF TurnInv
                <5>3. At(running[w], "idle", t)
                    <6>1. pc[w] = "idle"
                        BY <1>2, <3>2 DEF HTypeOK, TurnsOK
                    <6> QED BY <1>2, <5>1, <6>1 DEF TurnInv
                <5>4. t.rounds = 0
                    BY <5>3 DEF At
                <5>5. At(i, "dedup", t)
                    BY <5>2, <5>4 DEF At, Untold, Working, Telling
                <5> QED
                    BY <2>1, <3>2, <4>2, <5>1, <5>5
            <4> QED BY <4>1, <4>2
        <3> QED
            BY <1>2, <3>2, <3>3, <3>5, ElsewhereStands
    <2>5. CASE \E w \in Workers : Expire(w)
        <3>1. UNCHANGED <<messages, sends, escalations, pc, turn, running, queues>>
            BY <2>5 DEF Expire, tables, poolVars
        <3>2. Queued' = Queued
            BY <3>1 DEF Queued
        <3> QED BY <1>2, <2>2, <3>1, <3>2, ElsewhereStands
    <2>6. CASE HHalt
        <3>1. /\ UNCHANGED <<messages, sends, escalations>>
              /\ pc' = [w \in Workers |-> "idle"]
              /\ turn' = [w \in Workers |-> NoTurn]
              /\ queues' = [w \in Workers |-> <<>>]
            BY <2>6 DEF HHalt, Halt, tables
        <3>2. Queued' = {}
            BY <3>1 DEF Queued
        <3>3. \A i, label, t : label = "idle" /\ t.rounds = 0 => At(i, label, t)
            BY DEF At, Untold, Working, Telling
        <3>4. NoTurn.rounds = 0
            BY DEF NoTurn
        <3>5. \A w \in Workers : \E i, label, t :
                  i = running'[w] /\ label = pc'[w] /\ t = turn'[w] /\ At(i, label, t)
            BY <3>1, <3>3, <3>4
        <3> QED BY <1>2, <3>1, <3>2, <3>5, ElsewhereStands
    <2>7. CASE Outside
        <3>1. UNCHANGED <<messages, sends, escalations, pc, turn, running>>
            BY <2>7 DEF Outside, tables, turnVars, OnMessage, Exit, Cancel, Disconnect, Boot
        <3>2. \A i \in Queued' : i \in Queued \/ i \notin Indices
            <4>1. \/ queues' = queues
                  \/ \E w \in Workers :
                        queues' = [queues EXCEPT ![w] = Append(queues[w], Len(accepted) + 1)]
                BY <2>7 DEF Outside, OnMessage, Dispatch, DispatchTrue, DispatchFalse,
                            DispatchPanics, Exit, Cancel, Disconnect, Boot
            <4>2. CASE queues' = queues
                BY <4>2 DEF Queued
            <4>3. CASE queues' # queues
                <5>1. PICK w \in Workers :
                          queues' = [queues EXCEPT ![w] = Append(queues[w], Len(accepted) + 1)]
                    BY <4>1, <4>3
                <5>2. Len(accepted) \in Nat
                    BY <1>2 DEF HTypeOK, PoolTypeOK
                <5>3. \A v \in Workers : \A p \in 1 .. Len(queues'[v]) :
                          \/ \E q \in 1 .. Len(queues[v]) : queues'[v][p] = queues[v][q]
                          \/ queues'[v][p] = Len(accepted) + 1
                    BY <2>1, <5>1, <5>2
                <5>4. Len(accepted) + 1 \notin Indices
                    BY <5>2 DEF Indices
                <5> QED BY <5>3, <5>4 DEF Queued
            <4> QED BY <4>2, <4>3
        <3> QED BY <1>2, <2>2, <3>1, <3>2, ElsewhereStands
    <2>8. CASE UNCHANGED hVars
        <3>1. UNCHANGED <<messages, sends, escalations, pc, turn, running, queues>>
            BY <2>8 DEF hVars, tables, turnVars, poolVars
        <3>2. Queued' = Queued
            BY <3>1 DEF Queued
        <3> QED BY <1>2, <2>2, <3>1, <3>2, ElsewhereStands
    <2> QED
        BY <1>2, <2>3, <2>4, <2>5, <2>6, <2>7, <2>8 DEF HNext
<1>3. HSpec => []PoolInv
    BY HarnessIsPool, PoolInvariant, PTL
<1> QED
    BY <1>1, <1>2, <1>3, HTypeCorrect, PTL DEF HSpec

-----------------------------------------------------------------------------
\* A turn asks the model at most MaxToolIterations times, and is escalated
\* only after all its rounds, whatever fails.
THEOREM EscalationTheorem == HSpec => []EscalationIsExhaustion
<1>1. HTypeOK /\ TurnInv => EscalationIsExhaustion
    <2> SUFFICES ASSUME HTypeOK, TurnInv, NEW i \in Indices
                 PROVE  /\ Cardinality(Asked(i)) <= Limit
                        /\ i \in escalations \cup {sends[a].turn : a \in {b \in DOMAIN sends :
                                                            sends[b].text = "escalated"}} =>
                              Exhausted(i)
        BY DEF EscalationIsExhaustion, Exhausted, AllUse, Asked, ResultsOf, Limit
    <2>1. Bounded(i)
        BY DEF TurnInv
    <2>2. i \in escalations \cup {sends[a].turn : a \in {b \in DOMAIN sends :
                                                            sends[b].text = "escalated"}}
              => Escalated(i)
        BY DEF Escalated, SentBy
    <2> QED BY <2>1, <2>2 DEF Bounded
<1> QED
    BY <1>1, HTypeCorrect, TurnInvariant, PTL

\* Behind every answer are the user row and a final assistant row of its turn,
\* if the model's client hides no tool use behind another stop reason.
THEOREM AnswersInHistoryTheorem ==
    ASSUME WholeTools PROVE HSpec => []AnswersAreInHistory
<1>1. TurnInv => AnswersAreInHistory
    BY DEF TurnInv, Backed, Answerable, AnswersAreInHistory, Asked
<1> QED
    BY <1>1, TurnInvariant, PTL

-----------------------------------------------------------------------------
(***************************************************************************)
(* Roles, and whom the employee line serves.                               *)
(***************************************************************************)
\* EnsureCustomer inserts; nothing else writes to users.
LEMMA UsersStep ==
    ASSUME HTypeOK, [HNext]_hVars, NEW u \in UserKeys, users'[u] # users[u]
    PROVE  users[u] = Absent /\ users'[u] = "CUSTOMER"
<1>1. users' # users
    OBVIOUS
<1>2. PICK w \in Workers : EnsureCustomer(w)
    BY <1>1 DEF HNext, Begin, Expire, HHalt, Outside, Step, Dedup, LookupCustomer, LookupEmployee, CompanyFails,
                OpenConversation, PersistInbound, BuildHistory, ModelAnswers, ModelFailure,
                RunTools, CreateEscalation, SetEscalated, NoteEscalation, Reply, CountTail,
                FoldSummary, tables, hVars
<1>3. PICK k : users' \in {users, [users EXCEPT ![k] = IF @ = Absent THEN "CUSTOMER" ELSE @]}
    BY <1>2 DEF EnsureCustomer
<1>4. users \in [UserKeys -> {Absent, "CUSTOMER", "EMPLOYEE", "inactive"}]
    BY DEF HTypeOK, TablesOK
<1> QED
    BY <1>3, <1>4

\* No step changes the role of a registered user.
THEOREM RolesTheorem == HSpec => RolesNeverChange
<1>1. HTypeOK /\ [HNext]_hVars =>
          [\A u \in UserKeys : users'[u] # users[u] =>
               users[u] = Absent /\ users'[u] = "CUSTOMER"]_hVars
    BY UsersStep
<1> QED
    BY <1>1, HTypeCorrect, PTL DEF HSpec, RolesNeverChange

Staff(i) == accepted[i].channel = "EMPLOYEE" => users[UserKey(accepted[i])] = "EMPLOYEE"

\* Where a turn stands only if its sender may be served.
Served(label, t) ==
    \/ label \in {"lookup", "open", "persist", "history", "model", "tools", "escalate", "mark",
                  "note"}
    \/ label = "reply" /\ (t.text \in {"answer", "escalated"} \/ t.next = "note")

\* The inductive invariant: the lookup made at the start of a turn holds for
\* the whole of it.
StaffInv == /\ \A w \in Workers : Served(pc[w], turn[w]) => Staff(running[w])
            /\ StaffLineServesStaff

\* Who is staff stays staff.
LEMMA StaffStays ==
    ASSUME PoolInv, HTypeOK, [PoolNext]_poolVars, [HNext]_hVars, NEW i \in Indices, Staff(i)
    PROVE  Staff(i)'
<1>1. accepted'[i] = accepted[i]
    BY NumbersKeep
<1>2. accepted[i] \in Inbounds
    BY DEF PoolInv, PoolTypeOK, Indices
<1>3. UserKey(accepted[i]) \in UserKeys
    BY <1>2 DEF UserKey, UserKeys
<1>4. "EMPLOYEE" # Absent
    BY DEF Absent
<1>5. users[UserKey(accepted[i])] = "EMPLOYEE" => users'[UserKey(accepted[i])] = "EMPLOYEE"
    BY <1>3, <1>4, UsersStep
<1> QED
    BY <1>1, <1>5 DEF Staff

\* A turn comes to be served by a lookup on its line only.
LEMMA ServedStep ==
    ASSUME PoolInv, HTypeOK, StaffInv, NEW w \in Workers, Step(w), Served(pc'[w], turn'[w])
    PROVE  /\ running' = running
           /\ Staff(running[w]) /\ (pc[w] = "identity" \/ Served(pc[w], turn[w]))
<1>1. TurnsOK /\ running \in [Workers -> Nat] /\ turn \in [Workers -> Locals]
    BY DEF HTypeOK, TurnsOK, PoolTypeOK
<1>2. Return(w) => ~Served(pc'[w], turn'[w])
    BY <1>1, ReturnIs DEF Served
<1>3. \A next : next \in {"end", "count"} =>
          (ReplyWith(w, "failed", next) \/ ReplyWith(w, "unknown", next)
              => ~Served(pc'[w], turn'[w]))
    BY <1>1, ReplyWithIs DEF Served
<1>4. ~Return(w)
    BY <1>2
<1>5. ~Apologise(w)
    BY <1>3 DEF Apologise
<1>6. running' = running
    BY <1>1, <1>2, <1>4, StepMovesOne DEF Served
<1>7. CASE Served(pc[w], turn[w])
    BY <1>6, <1>7 DEF StaffInv
<1>8. CASE ~Served(pc[w], turn[w])
    <2>1. \A label : Goto(w, label) => pc'[w] = label
        BY <1>1, GotoIs
    <2>2. pc[w] \in {"dedup", "identity", "count", "fold"} \/ pc[w] = "reply"
        <3>1. pc[w] \in Labels /\ pc[w] # "idle"
            BY <1>1, StepIsInTurn DEF TurnsOK
        <3> QED BY <1>8, <3>1 DEF Served, Labels
    <2>3. CASE pc[w] = "dedup"
        <3>1. Dedup(w)
            BY <2>3 DEF Step, Dedup, EnsureCustomer, LookupCustomer, LookupEmployee, CompanyFails,
                        OpenConversation, PersistInbound, BuildHistory, ModelAnswers,
                        ModelFailure, RunTools, CreateEscalation, SetEscalated,
                        NoteEscalation, Reply, CountTail, FoldSummary
        <3>2. pc'[w] = "identity"
            BY <1>4, <2>1, <3>1 DEF Dedup
        <3> QED BY <3>2 DEF Served
    <2>4. CASE pc[w] \in {"count", "fold"}
        <3>1. CountTail(w) \/ FoldSummary(w)
            BY <2>4 DEF Step, Dedup, EnsureCustomer, LookupCustomer, LookupEmployee, CompanyFails,
                        OpenConversation, PersistInbound, BuildHistory, ModelAnswers,
                        ModelFailure, RunTools, CreateEscalation, SetEscalated,
                        NoteEscalation, Reply, CountTail, FoldSummary
        <3>2. pc'[w] = "fold"
            BY <1>4, <2>1, <3>1 DEF CountTail, FoldSummary
        <3> QED BY <3>2 DEF Served
    <2>5. CASE pc[w] = "reply"
        <3>1. Reply(w)
            BY <2>5 DEF Step, Dedup, EnsureCustomer, LookupCustomer, LookupEmployee, CompanyFails,
                        OpenConversation, PersistInbound, BuildHistory, ModelAnswers,
                        ModelFailure, RunTools, CreateEscalation, SetEscalated,
                        NoteEscalation, Reply, CountTail, FoldSummary
        <3>2. Goto(w, turn[w].next) /\ turn[w].next # "end"
            BY <1>4, <3>1 DEF Reply
        <3>3. turn[w].next \in Nexts
            BY <1>1 DEF Locals, Nexts
        <3>4. turn[w].next = "count"
            BY <1>8, <2>5, <3>2, <3>3 DEF Served, Nexts
        <3>5. pc'[w] = "count"
            BY <2>1, <3>2, <3>4
        <3> QED BY <3>5 DEF Served
    <2>6. CASE pc[w] = "identity"
        <3>1. EnsureCustomer(w) \/ LookupEmployee(w)
            BY <2>6 DEF Step, Dedup, EnsureCustomer, LookupCustomer, LookupEmployee, CompanyFails,
                        OpenConversation, PersistInbound, BuildHistory, ModelAnswers,
                        ModelFailure, RunTools, CreateEscalation, SetEscalated,
                        NoteEscalation, Reply, CountTail, FoldSummary
        <3>2. Msg(w) = accepted[running[w]]
            BY DEF Msg
        <3>3. CASE EnsureCustomer(w)
            BY <1>6, <2>6, <3>2, <3>3 DEF EnsureCustomer, Staff
        <3>4. CASE LookupEmployee(w)
            <4>1. users[UserKey(Msg(w))] = "EMPLOYEE"
                BY <1>3, <1>5, <3>4 DEF LookupEmployee
            <4> QED BY <1>6, <2>6, <3>2, <4>1 DEF Staff
        <3> QED BY <3>1, <3>3, <3>4
    <2> QED BY <2>2, <2>3, <2>4, <2>5, <2>6
<1> QED BY <1>7, <1>8

\* A row comes from one of the calls that write rows.
LEMMA StepAppends ==
    ASSUME NEW w \in Workers, Step(w)
    PROVE  \/ UNCHANGED messages
           \/ \E kind \in Kinds, uses \in BOOLEAN : \E o :
                 /\ o # "err" /\ AppendMessage(w, kind, uses, o)
                 /\ pc[w] \in {"persist", "model", "tools", "note"}
<1>1. \A r \in Responses : r.uses \in BOOLEAN
    BY HarnessAssumption DEF ResponseType
<1>2. \/ UNCHANGED messages
      \/ \E kind \in Kinds, uses \in BOOLEAN : \E o :
            AppendMessage(w, kind, uses, o) /\ pc[w] \in {"persist", "model", "tools", "note"}
    BY <1>1 DEF Step, Dedup, EnsureCustomer, LookupCustomer, LookupEmployee, CompanyFails,
           OpenConversation, PersistInbound, BuildHistory, ModelAnswers, ModelFailure,
           RunTools, CreateEscalation, SetEscalated, NoteEscalation, Reply, CountTail,
           FoldSummary, tables, Kinds
<1>3. \A kind, uses : AppendMessage(w, kind, uses, "err") => UNCHANGED messages
    BY DEF AppendMessage
<1> QED
    BY <1>2, <1>3

\* Rows and replies come from the calls that write them.
LEMMA NewTraces ==
    ASSUME PoolInv, HTypeOK, NEW w \in Workers, Step(w)
    PROVE  /\ \A r \in RowIds' :
                 \/ r \in RowIds /\ messages'[r] = messages[r]
                 \/ messages'[r].turn = running[w] /\ pc[w] \in {"persist", "model", "tools", "note"}
           /\ \A a \in DOMAIN sends' :
                 \/ a \in DOMAIN sends /\ sends'[a] = sends[a]
                 \/ /\ sends'[a].turn = running[w] /\ sends'[a].text = turn[w].text
                    /\ pc[w] = "reply"
<1>1. TurnsOK /\ running \in [Workers -> Nat] /\ sends \in Seq(Send) /\ pc[w] # "idle"
    BY StepIsInTurn DEF HTypeOK, PoolTypeOK, TablesOK
<1>2. \A r \in RowIds' : \/ r \in RowIds /\ messages'[r] = messages[r]
                         \/ /\ messages'[r].turn = running[w]
                            /\ pc[w] \in {"persist", "model", "tools", "note"}
    <2>1. CASE UNCHANGED messages
        BY <2>1 DEF RowIds
    <2>2. CASE ~UNCHANGED messages
        <3>1. PICK kind \in Kinds, uses \in BOOLEAN :
                  \E o : /\ o # "err" /\ AppendMessage(w, kind, uses, o)
                         /\ pc[w] \in {"persist", "model", "tools", "note"}
            BY <2>2, StepAppends
        <3> QED
            BY <1>1, <3>1, RowAdded
    <2> QED BY <2>1, <2>2
<1>3. CASE UNCHANGED sends
    BY <1>2, <1>3
<1>4. CASE ~UNCHANGED sends
    <2>1. Reply(w)
        BY <1>4 DEF Step, Dedup, EnsureCustomer, LookupCustomer, LookupEmployee, CompanyFails,
               OpenConversation, PersistInbound, BuildHistory, ModelAnswers, ModelFailure,
               RunTools, CreateEscalation, SetEscalated, NoteEscalation, Reply, CountTail,
               FoldSummary, tables
    <2>2. pc[w] = "reply"
        BY <2>1 DEF Reply
    <2>3. PICK d : sends' = Append(sends, [turn |-> running[w], text |-> turn[w].text,
                                           delivered |-> d])
        BY <2>1 DEF Reply
    <2>4. \A a \in DOMAIN sends' :
              \/ a \in DOMAIN sends /\ sends'[a] = sends[a]
              \/ sends'[a].turn = running[w] /\ sends'[a].text = turn[w].text
        BY <1>1, <2>3
    <2> QED BY <1>2, <2>2, <2>4
<1> QED BY <1>3, <1>4

\* Every turn past its identity check, row and answer on the employee line
\* is an employee's.
THEOREM StaffInvariant == HSpec => []StaffInv
<1>1. HInit => StaffInv
    BY DEF HInit, StaffInv, Served, StaffLineServesStaff, RowIds
<1>2. ASSUME PoolInv, HTypeOK, [PoolNext]_poolVars, StaffInv, [HNext]_hVars
      PROVE  StaffInv'
    <2>1. \A i \in Indices : Staff(i) => Staff(i)'
        BY <1>2, StaffStays
    <2>2. /\ \A r \in RowIds : messages[r].turn \in Indices /\ Staff(messages[r].turn)
          /\ \A a \in DOMAIN sends : /\ sends[a].turn \in Indices
                                     /\ sends[a].text \in {"answer", "escalated"} => Staff(sends[a].turn)
        <3>1. messages \in Seq(Row) /\ sends \in Seq(Send)
            BY <1>2 DEF HTypeOK, TablesOK
        <3>2. \A r \in RowIds : messages[r].turn \in Indices
            <4>1. \A r \in RowIds : messages[r] \in Row
                BY <3>1 DEF RowIds
            <4> QED BY <4>1 DEF Row
        <3>3. \A a \in DOMAIN sends : sends[a].turn \in Indices
            <4>1. \A a \in DOMAIN sends : sends[a] \in Send
                BY <3>1
            <4> QED BY <4>1 DEF Send
        <3> QED
            BY <1>2, <3>2, <3>3 DEF StaffInv, StaffLineServesStaff, Staff
    <2>3. TurnsOK /\ running \in [Workers -> Nat] /\ pc \in [Workers -> Labels]
          /\ turn \in [Workers -> Locals]
        BY <1>2 DEF HTypeOK, TurnsOK, PoolTypeOK
    <2>4. ASSUME NEW w \in Workers, Served(pc[w], turn[w])
          PROVE  running[w] \in Indices /\ Staff(running[w])
        BY <1>2, <2>4, TurnHasMessage DEF StaffInv, Served
    <2> DEFINE Serving == \A w \in Workers : Served(pc'[w], turn'[w]) =>
                              \E i \in Indices : i = running'[w] /\ Staff(i)
               Tracing == /\ \A r \in RowIds' : \E i \in Indices : i = messages'[r].turn /\ Staff(i)
                          /\ \A a \in DOMAIN sends' : sends'[a].text \in {"answer", "escalated"} =>
                                \E i \in Indices : i = sends'[a].turn /\ Staff(i)
    <2>5. ASSUME UNCHANGED <<messages, sends>> PROVE Tracing
        <3>1. RowIds' = RowIds
            BY <2>5 DEF RowIds
        <3> QED BY <2>2, <2>5, <3>1
    <2>6. Serving /\ Tracing
        <3>1. CASE \E w \in Workers : Step(w)
            <4>1. PICK w \in Workers : Step(w)
                BY <3>1
            <4>2. /\ \A v \in Workers \ {w} :
                         pc'[v] = pc[v] /\ turn'[v] = turn[v] /\ running'[v] = running[v]
                BY <2>3, <4>1, StepMovesOne
            <4>3. pc[w] # "idle" /\ running[w] \in Indices
                BY <1>2, <4>1, StepIsInTurn, TurnHasMessage
            <4>4. Serving
                BY <1>2, <2>4, <4>1, <4>2, <4>3, ServedStep
            <4>5. pc[w] \in {"persist", "model", "tools", "note"} => Served(pc[w], turn[w])
                BY DEF Served
            <4>6. pc[w] = "reply" /\ turn[w].text \in {"answer", "escalated"}
                      => Served(pc[w], turn[w])
                BY DEF Served
            <4>7. Tracing
                BY <1>2, <2>2, <2>4, <4>1, <4>5, <4>6, NewTraces
            <4> QED BY <4>4, <4>7
        <3>2. CASE \E w \in Workers : Begin(w)
            <4>1. PICK w \in Workers : Begin(w)
                BY <3>2
            <4>2. /\ UNCHANGED <<messages, sends, turn>>
                  /\ pc' = [pc EXCEPT ![w] = "dedup"]
                  /\ running' = [running EXCEPT ![w] = Head(queues[w])]
                BY <4>1 DEF Begin, Receive, tables
            <4>3. pc'[w] = "dedup" /\ \A v \in Workers \ {w} :
                                          pc'[v] = pc[v] /\ running'[v] = running[v]
                BY <2>3, <4>2
            <4>4. ~Served("dedup", turn[w])
                BY DEF Served
            <4> QED BY <2>4, <2>5, <4>2, <4>3, <4>4
        <3>3. CASE HHalt
            <4>1. UNCHANGED <<messages, sends>> /\ \A w \in Workers : pc'[w] = "idle"
                BY <3>3 DEF HHalt, tables
            <4> QED BY <2>5, <4>1 DEF Served
        <3>4. CASE (\E w \in Workers : Expire(w)) \/ Outside \/ UNCHANGED hVars
            <4>1. UNCHANGED <<messages, sends, pc, turn, running>>
                BY <3>4 DEF Expire, Outside, hVars, tables, turnVars, poolVars,
                            OnMessage, Exit, Cancel, Disconnect, Boot
            <4> QED BY <2>4, <2>5, <4>1
        <3> QED
            BY <1>2, <3>1, <3>2, <3>3, <3>4 DEF HNext
    <2>7. \A i \in Indices : Staff(i) =>
              (accepted'[i].channel = "EMPLOYEE" => users'[UserKey(accepted'[i])] = "EMPLOYEE")
        BY <2>1 DEF Staff, UserKey
    <2>8. (\A w \in Workers : Served(pc[w], turn[w]) => Staff(running[w]))'
        BY <2>6, <2>7 DEF Served, Staff, UserKey
    <2>9. StaffLineServesStaff'
        BY <2>6, <2>7 DEF StaffLineServesStaff, UserKey
    <2> QED
        BY <2>8, <2>9 DEF StaffInv
<1>3. HSpec => []PoolInv /\ [][PoolNext]_poolVars
    BY HarnessIsPool, PoolInvariant, PTL DEF PoolSpec
<1> QED
    BY <1>1, <1>2, <1>3, HTypeCorrect, PTL DEF HSpec

\* The employee line serves employees only.
THEOREM StaffTheorem == HSpec => []StaffLineServesStaff
<1>1. StaffInv => StaffLineServesStaff
    BY DEF StaffInv
<1> QED
    BY <1>1, StaffInvariant, PTL
==============================================================================
