---------------------------- MODULE HarnessProofs ----------------------------
(***************************************************************************)
(* Theorems about Harness: it is a pool, so that every theorem about pools *)
(* holds of it; its tables and locals have their types; it is an inbox     *)
(* that takes each message once.                                           *)
(***************************************************************************)
EXTENDS Harness, WorkerPoolProofs, FiniteSetTheorems, WellFoundedInduction

\* A call of a turn is no step of the pool; the return of process() is one.
LEMMA StepIsPoolStep ==
    ASSUME NEW w \in Workers, Step(w)
    PROVE  Finish(w) \/ UNCHANGED poolVars
<1> USE DEF Return, Goto, ReplyWith, Apologise
<1>1. CASE Dedup(w)             BY <1>1 DEF Dedup
<1>2. CASE EnsureCustomer(w)    BY <1>2 DEF EnsureCustomer
<1>3. CASE LookupEmployee(w)    BY <1>3 DEF LookupEmployee
<1>4. CASE CompanyFails(w)      BY <1>4 DEF CompanyFails
<1>5. CASE OpenConversation(w)  BY <1>5 DEF OpenConversation
<1>6. CASE PersistInbound(w)    BY <1>6 DEF PersistInbound
<1>7. CASE BuildHistory(w)      BY <1>7 DEF BuildHistory
<1>8. CASE ModelAnswers(w)      BY <1>8 DEF ModelAnswers
<1>9. CASE ModelFailure(w)      BY <1>9 DEF ModelFailure
<1>10. CASE RunTools(w)         BY <1>10 DEF RunTools
<1>11. CASE CreateEscalation(w) BY <1>11 DEF CreateEscalation
<1>12. CASE SetEscalated(w)     BY <1>12 DEF SetEscalated
<1>13. CASE NoteEscalation(w)   BY <1>13 DEF NoteEscalation
<1>14. CASE Reply(w)            BY <1>14 DEF Reply
<1>15. CASE CountTail(w)        BY <1>15 DEF CountTail
<1>16. CASE FoldSummary(w)      BY <1>16 DEF FoldSummary
<1>17. CASE LookupCustomer(w)   BY <1>17 DEF LookupCustomer
<1> QED
    BY <1>1, <1>2, <1>3, <1>4, <1>5, <1>6, <1>7, <1>8, <1>9, <1>10, <1>11, <1>12,
       <1>13, <1>14, <1>15, <1>16, <1>17 DEF Step

\* The pipeline, with every failure of its calls, is a worker pool.
THEOREM HarnessIsPool == HSpec => PoolSpec
<1>1. HInit => PoolInit
    BY DEF HInit
<1>2. [HNext]_hVars => [PoolNext]_poolVars
    <2> SUFFICES ASSUME HNext \/ UNCHANGED hVars PROVE PoolNext \/ UNCHANGED poolVars
        OBVIOUS
    <2>1. CASE \E w \in Workers : Begin(w)
        BY <2>1 DEF Begin, PoolNext
    <2>2. CASE \E w \in Workers : Step(w)
        BY <2>2, StepIsPoolStep DEF PoolNext
    <2>3. CASE \E w \in Workers : Expire(w)
        BY <2>3 DEF Expire
    <2>4. CASE HHalt
        BY <2>4 DEF HHalt, PoolNext
    <2>5. CASE Outside
        BY <2>5 DEF Outside, PoolNext
    <2>6. CASE UNCHANGED hVars
        BY <2>6 DEF hVars
    <2> QED
        BY <2>1, <2>2, <2>3, <2>4, <2>5, <2>6 DEF HNext
<1> QED
    BY <1>1, <1>2, PTL DEF HSpec, PoolSpec

\* So turns of one chat never overlap, whatever fails in them.
THEOREM HarnessSerial == HSpec => []SerialLanes
BY HarnessIsPool, SerialLanesTheorem, PTL

\* Nor do the turns of one chat block or overtake those of another as far as the
\* order goes: the pipeline is a behaviour of independent lanes, one per chat.
THEOREM HarnessLanes == HSpec => ImplementsLanes
BY HarnessIsPool, LanesTheorem, PTL

-----------------------------------------------------------------------------
(***************************************************************************)
(* Types.  PoolInv comes from the pool's own theorem; what is left are the *)
(* tables and the locals of the turns.                                     *)
(***************************************************************************)
Kinds == {"user", "assistant", "tool_result", "system_note"}
Texts == {"answer", "failed", "unknown", "escalated"}
Nexts == {"end", "count", "note"}

\* A worker with a turn has a message the pool accepted.
LEMMA TurnHasMessage ==
    ASSUME PoolInv, HTypeOK, NEW w \in Workers, pc[w] # "idle"
    PROVE  /\ running[w] \in Indices /\ running[w] # Idle
           /\ Msg(w) \in Inbounds
           /\ Conv(w) \in Conversations
           /\ UserKey(Msg(w)) \in UserKeys
           /\ DeliveryKey(Msg(w)) \in {DeliveryKey(m) : m \in Inbounds}
<1>1. running[w] # Idle
    BY DEF HTypeOK, TurnsOK
<1>2. running[w] \in Indices
    BY <1>1 DEF PoolInv, PoolTypeOK, RunningInLane, Current, Indices
<1>3. Msg(w) \in Inbounds
    BY <1>2 DEF PoolInv, PoolTypeOK, Indices, Msg
<1> QED
    BY <1>1, <1>2, <1>3 DEF Conv, Conversations, UserKey, UserKeys

\* A call of a turn leaves the numbering of messages alone.
LEMMA StepKeepsAccepted ==
    ASSUME NEW w \in Workers, Step(w)
    PROVE  accepted' = accepted /\ Indices' = Indices
BY StepIsPoolStep DEF Finish, poolVars, Indices

\* Inserting a row.
LEMMA AppendOK ==
    ASSUME TablesOK, UNCHANGED accepted, NEW w \in Workers,
           running[w] \in Indices, Conv(w) \in Conversations,
           NEW kind \in Kinds, NEW uses \in BOOLEAN, NEW o,
           AppendMessage(w, kind, uses, o)
    PROVE  /\ messages' \in Seq(Row')
           /\ RowIds \subseteq RowIds'
           /\ o # "err" => Len(messages) + 1 \in RowIds'
<1>1. Row' = Row
    BY DEF Row, Indices
<1> DEFINE row == [conv |-> Conv(w), kind |-> kind, turn |-> running[w], uses |-> uses]
<1>2. row \in Row
    BY DEF Row, Kinds
<1>3. messages \in Seq(Row)
    BY DEF TablesOK
<1>4. messages' = messages \/ messages' = Append(messages, row)
    BY DEF AppendMessage
<1>5. o # "err" => messages' = Append(messages, row)
    BY DEF AppendMessage
<1> HIDE DEF row
<1>6. messages' \in Seq(Row)
    BY <1>2, <1>3, <1>4
<1>7. RowIds \subseteq RowIds'
    BY <1>2, <1>3, <1>4 DEF RowIds
<1>8. o # "err" => Len(messages) + 1 \in RowIds'
    BY <1>2, <1>3, <1>5 DEF RowIds
<1> QED
    BY <1>1, <1>6, <1>7, <1>8

\* Tables only gain rows.
LEMMA ConvsGrow ==
    ASSUME TablesOK, RowIds \subseteq RowIds'
    PROVE  convs \in [Conversations -> [upto : Nat, covered : SUBSET RowIds',
                                        escalated : BOOLEAN]]
<1>1. [upto : Nat, covered : SUBSET RowIds, escalated : BOOLEAN]
          \subseteq [upto : Nat, covered : SUBSET RowIds', escalated : BOOLEAN]
    OBVIOUS
<1> QED
    BY <1>1 DEF TablesOK

\* Locals that name stored rows stay well-typed while rows are only added.
LEMMA LocalsGrow ==
    ASSUME RowIds \subseteq RowIds'
    PROVE  Locals \subseteq Locals'
BY DEF Locals

\* The three ways a step leaves its worker.
LEMMA GotoOK ==
    ASSUME TurnsOK, RowIds \subseteq RowIds', NEW w \in Workers, pc[w] # "idle",
           NEW label \in Labels \ {"idle"}, Goto(w, label),
           turn'[w] \in Locals', DOMAIN turn' = Workers,
           turn' = [turn EXCEPT ![w] = turn'[w]],
           label = "reply" => turn'[w].text # "",
           label = "fold" => turn'[w].fold # {}
    PROVE  TurnsOK'
<1>1. /\ pc' = [pc EXCEPT ![w] = label] /\ UNCHANGED <<running, expired>>
    BY DEF Goto, poolVars
<1>2. turn' \in [Workers -> Locals']
    BY LocalsGrow DEF TurnsOK
<1> QED
    BY <1>1, <1>2 DEF TurnsOK

\* What is left of the turn once its text is known (ReplyWith) keeps the types.
LEMMA ReplyWithOK ==
    ASSUME TurnsOK, RowIds \subseteq RowIds', NEW w \in Workers, pc[w] # "idle",
           NEW text \in Texts, NEW next \in Nexts, ReplyWith(w, text, next)
    PROVE  TurnsOK'
<1> DEFINE t == [turn[w] EXCEPT !.text = text, !.next = next]
<1>1. turn[w] \in Locals' /\ turn \in [Workers -> Locals]
    BY LocalsGrow DEF TurnsOK
<1>2. t \in Locals' /\ t.text = text
    BY <1>1 DEF Locals, Texts, Nexts
<1>3. turn' = [turn EXCEPT ![w] = t]
    BY <1>1 DEF ReplyWith
<1>4. turn'[w] = t /\ DOMAIN turn' = Workers
    BY <1>1, <1>3
<1> HIDE DEF t
<1> QED
    BY <1>2, <1>3, <1>4, GotoOK DEF ReplyWith, Labels, Texts

\* So does the return of process().
LEMMA ReturnOK ==
    ASSUME TurnsOK, PoolInv, RowIds \subseteq RowIds', NEW w \in Workers, Return(w)
    PROVE  TurnsOK'
<1>1. /\ running' = [running EXCEPT ![w] = Idle]
      /\ pc' = [pc EXCEPT ![w] = "idle"]
      /\ turn' = [turn EXCEPT ![w] = NoTurn]
      /\ expired' = expired \ {w}
    BY DEF Return, Finish
<1>2. NoTurn \in Locals'
    BY DEF NoTurn, Locals
<1>3. turn \in [Workers -> Locals']
    BY LocalsGrow DEF TurnsOK
<1>4. turn' \in [Workers -> Locals']
    BY <1>1, <1>2, <1>3
<1>5. running \in [Workers -> Nat]
    BY DEF PoolInv, PoolTypeOK
<1>6. pc' \in [Workers -> Labels]
    BY <1>1 DEF TurnsOK, Labels
<1> QED
    BY <1>1, <1>3, <1>4, <1>5, <1>6 DEF TurnsOK

-----------------------------------------------------------------------------
\* A non-empty set of numbers has a least one.
LEMMA NatSetHasLeast ==
    ASSUME NEW S \in SUBSET Nat, S # {}
    PROVE  \E i \in S : \A j \in S : i <= j
<1> DEFINE R == {ss \in Nat \X Nat : ss[1] < ss[2]}
<1>1. IsWellFoundedOn(R, Nat)
    BY NatLessThanWellFounded DEF OpToRel
<1>2. \A x, y \in Nat : <<y, x>> \in R <=> y < x
    OBVIOUS
<1> HIDE DEF R
<1>3. \E x \in S : \A y \in S : ~(<<y, x>> \in R)
    BY <1>1, WFMin
<1>4. PICK x \in S : \A y \in S : ~(<<y, x>> \in R)
    BY <1>3
<1>5. ASSUME NEW y \in S PROVE x <= y
    <2>1. x \in Nat /\ y \in Nat
        OBVIOUS
    <2>2. ~(y < x)
        BY <1>2, <1>4, <2>1
    <2> QED
        BY <2>1, <2>2
<1> QED
    BY <1>5

\* The rows of a conversation have a last one ...
LEMMA RowsHaveLast ==
    ASSUME TablesOK, NEW S \in SUBSET RowIds, S # {}
    PROVE  /\ (CHOOSE i \in S : \A j \in S : j <= i) \in S
           /\ \A k \in S : k <= (CHOOSE i \in S : \A j \in S : j <= i)
<1> DEFINE n == Len(messages)
           T == {n - i : i \in S}
<1>1. n \in Nat /\ \A i \in S : i \in Nat /\ n - i \in Nat
    BY DEF TablesOK, RowIds
<1>2. T \in SUBSET Nat /\ T # {}
    BY <1>1
<1>3. PICK t \in T : \A u \in T : t <= u
    BY <1>2, NatSetHasLeast
<1>4. PICK i \in S : t = n - i
    BY <1>3
<1>5. \A j \in S : n - i <= n - j
    BY <1>3, <1>4
<1>6. \A j \in S : j <= i
    BY <1>1, <1>5
<1> QED BY <1>6

\* ... and an oldest one, which a fold never leaves out.
LEMMA FoldHasRows ==
    ASSUME TablesOK, NEW S \in SUBSET RowIds, Cardinality(S) > SummarizeAfter
    PROVE  Oldest(S, Cardinality(S) - HistoryTailLimit) # {}
<1>1. Len(messages) \in Nat /\ S \in SUBSET Nat
    BY DEF TablesOK, RowIds
<1>2. IsFiniteSet(RowIds)
    BY <1>1, FS_Interval DEF RowIds
<1>3. IsFiniteSet(S) /\ Cardinality(S) \in Nat
    BY <1>2, FS_Subset, FS_CardinalityType
<1>4. S # {}
    BY HarnessAssumption, FS_EmptySet
<1>5. PICK i \in S : \A j \in S : i <= j
    BY <1>1, <1>4, NatSetHasLeast
<1>6. \A j \in S : ~(j < i)
    <2> SUFFICES ASSUME NEW j \in S PROVE ~(j < i)
        OBVIOUS
    <2>1. i \in Nat /\ j \in Nat /\ i <= j
        BY <1>1, <1>5
    <2> QED BY <2>1
<1>7. Cardinality(S) - HistoryTailLimit > 0
    BY <1>3, HarnessAssumption
<1>8. Cardinality({j \in S : j < i}) = 0
    <2>1. {j \in S : j < i} = {}
        BY <1>6
    <2> QED BY <2>1, FS_EmptySet
<1>9. i \in Oldest(S, Cardinality(S) - HistoryTailLimit)
    BY <1>7, <1>8 DEF Oldest
<1> QED
    BY <1>9

-----------------------------------------------------------------------------
\* One call of a turn.
LEMMA StepTypes ==
    ASSUME PoolInv, HTypeOK, NEW w \in Workers, pc[w] # "idle", Step(w)
    PROVE  TablesOK' /\ TurnsOK'
<1>1. /\ running[w] \in Indices /\ Msg(w) \in Inbounds /\ Conv(w) \in Conversations
      /\ UserKey(Msg(w)) \in UserKeys
      /\ DeliveryKey(Msg(w)) \in {DeliveryKey(m) : m \in Inbounds}
    BY TurnHasMessage
<1>2. accepted' = accepted /\ Indices' = Indices
    BY StepKeepsAccepted
<1>3. TablesOK /\ TurnsOK
    BY DEF HTypeOK
<1>4. Row' = Row /\ Send' = Send
    BY <1>2 DEF Row, Send
<1>5. UNCHANGED messages => RowIds' = RowIds
    BY DEF RowIds
<1>6. turn \in [Workers -> Locals] /\ turn[w] \in Locals
    BY <1>3 DEF TurnsOK
<1>7. ASSUME NEW kind \in Kinds, NEW uses \in BOOLEAN, NEW o, AppendMessage(w, kind, uses, o),
             UNCHANGED <<processed, users, escalations, sends>>,
             convs' = convs
      PROVE  /\ TablesOK' /\ RowIds \subseteq RowIds'
             /\ o # "err" => Len(messages) + 1 \in RowIds'
    <2>1. messages' \in Seq(Row') /\ RowIds \subseteq RowIds'
          /\ (o # "err" => Len(messages) + 1 \in RowIds')
        BY <1>1, <1>2, <1>3, <1>7, AppendOK
    <2> QED
        BY <1>2, <1>3, <1>4, <1>7, <2>1, ConvsGrow DEF TablesOK
<1>8. ASSUME UNCHANGED <<tables, sends>>
      PROVE  TablesOK' /\ RowIds' = RowIds
    BY <1>2, <1>3, <1>4, <1>5, <1>8 DEF tables, TablesOK
<1>9. ASSUME NEW label \in Labels \ {"idle", "reply", "fold"}, Goto(w, label),
             UNCHANGED turn, RowIds \subseteq RowIds'
      PROVE  TurnsOK'
    <2>1. turn'[w] \in Locals' /\ DOMAIN turn' = Workers /\ turn' = [turn EXCEPT ![w] = turn'[w]]
        BY <1>6, <1>9, LocalsGrow
    <2> QED
        BY <1>3, <1>9, <2>1, GotoOK
<1>10. ASSUME RowIds \subseteq RowIds', Apologise(w) PROVE TurnsOK'
    BY <1>3, <1>10, ReplyWithOK DEF Apologise, Texts, Nexts
<1>11. ASSUME RowIds \subseteq RowIds', NEW text \in Texts, NEW next \in Nexts,
              ReplyWith(w, text, next)
       PROVE  TurnsOK'
    BY <1>3, <1>11, ReplyWithOK
<1>12. ASSUME RowIds \subseteq RowIds', Return(w) PROVE TurnsOK'
    BY <1>3, <1>12, ReturnOK
<1>13. {"identity", "lookup", "open", "persist", "history", "model", "tools", "escalate",
        "mark", "note", "count"} \subseteq Labels \ {"idle", "reply", "fold"}
    BY DEF Labels
<1>21. CASE Dedup(w)
    <2>1. /\ UNCHANGED <<users, convs, messages, escalations, sends>>
          /\ processed' \subseteq {DeliveryKey(m) : m \in Inbounds}
        BY <1>1, <1>3, <1>21 DEF Dedup, TablesOK
    <2>2. TablesOK' /\ RowIds' = RowIds
        BY <1>2, <1>3, <1>4, <1>5, <2>1 DEF TablesOK
    <2>3. (Goto(w, "identity") /\ UNCHANGED turn) \/ Return(w)
        BY <1>21 DEF Dedup
    <2> QED
        BY <1>9, <1>12, <1>13, <2>2, <2>3
<1>22. CASE EnsureCustomer(w)
    <2>1. /\ UNCHANGED <<processed, convs, messages, escalations, sends>>
          /\ users' \in [UserKeys -> {Absent, "CUSTOMER", "EMPLOYEE", "inactive"}]
        BY <1>1, <1>3, <1>22 DEF EnsureCustomer, TablesOK
    <2>2. TablesOK' /\ RowIds' = RowIds
        BY <1>2, <1>3, <1>4, <1>5, <2>1 DEF TablesOK
    <2>3. (Goto(w, "lookup") /\ UNCHANGED turn) \/ Apologise(w)
        BY <1>22 DEF EnsureCustomer
    <2> QED
        BY <1>9, <1>10, <1>13, <2>2, <2>3
<1>37. CASE LookupCustomer(w)
    <2>1. TablesOK' /\ RowIds' = RowIds
        BY <1>8, <1>37 DEF LookupCustomer
    <2>2. (Goto(w, "open") /\ UNCHANGED turn) \/ Apologise(w)
        BY <1>37 DEF LookupCustomer
    <2> QED
        BY <1>9, <1>10, <1>13, <2>1, <2>2
<1>23. CASE LookupEmployee(w)
    <2>1. TablesOK' /\ RowIds' = RowIds
        BY <1>8, <1>23 DEF LookupEmployee
    <2>2. (Goto(w, "open") /\ UNCHANGED turn) \/ ReplyWith(w, "unknown", "end") \/ Apologise(w)
        BY <1>23 DEF LookupEmployee
    <2> QED
        BY <1>9, <1>10, <1>11, <1>13, <2>1, <2>2 DEF Texts, Nexts
<1>24. CASE CompanyFails(w)
    BY <1>8, <1>12, <1>24 DEF CompanyFails
<1>25. CASE OpenConversation(w)
    <2>1. TablesOK' /\ RowIds' = RowIds
        BY <1>8, <1>25 DEF OpenConversation
    <2>2. CASE Apologise(w)
        BY <1>10, <2>1, <2>2
    <2>3. CASE ~Apologise(w)
        <3> DEFINE t == [turn[w] EXCEPT !.upto = convs[Conv(w)].upto,
                                        !.covered = convs[Conv(w)].covered]
        <3>1. Goto(w, "persist") /\ turn' = [turn EXCEPT ![w] = t]
            BY <1>6, <1>25, <2>3 DEF OpenConversation
        <3>2. /\ convs[Conv(w)].upto \in Nat
              /\ convs[Conv(w)].covered \in SUBSET RowIds
            BY <1>1, <1>3 DEF TablesOK
        <3>3. t \in Locals'
            BY <1>6, <2>1, <3>2 DEF Locals
        <3> HIDE DEF t
        <3>4. turn'[w] = t /\ DOMAIN turn' = Workers
            BY <1>6, <3>1
        <3> QED
            BY <1>3, <1>13, <2>1, <3>1, <3>3, <3>4, GotoOK
    <2> QED BY <2>2, <2>3
<1>26. CASE PersistInbound(w)
    <2>1. PICK o \in Outcomes(w) :
             /\ AppendMessage(w, "user", FALSE, o)
             /\ (Goto(w, "history") /\ UNCHANGED turn) \/ Apologise(w)
        BY <1>26 DEF PersistInbound
    <2>2. UNCHANGED <<processed, users, convs, escalations, sends>>
        BY <1>26 DEF PersistInbound
    <2>3. TablesOK' /\ RowIds \subseteq RowIds'
        BY <1>7, <2>1, <2>2 DEF Kinds
    <2> QED
        BY <1>9, <1>10, <1>13, <2>1, <2>3
<1>27. CASE BuildHistory(w)
    <2>1. TablesOK' /\ RowIds' = RowIds
        BY <1>8, <1>27 DEF BuildHistory
    <2>2. CASE Apologise(w)
        BY <1>10, <2>1, <2>2
    <2>3. CASE ~Apologise(w)
        <3> DEFINE p == FromFirstUser(Newest(RowsAfter(Conv(w), turn[w].upto), HistoryTailLimit))
                   t == [turn[w] EXCEPT !.prompt = p]
        <3>1. p \subseteq RowIds
            BY <1>3 DEF FromFirstUser, Newest, RowsAfter, RowIds, TablesOK
        <3>2. Goto(w, Round(0)) /\ turn' = [turn EXCEPT ![w].prompt = p]
            BY <1>27, <2>3 DEF BuildHistory
        <3> HIDE DEF p
        <3>3. turn' = [turn EXCEPT ![w] = t]
            BY <1>6, <3>2
        <3>4. t \in Locals'
            BY <1>6, <2>1, <3>1 DEF Locals
        <3> HIDE DEF t
        <3>5. turn'[w] = t /\ DOMAIN turn' = Workers
            BY <1>6, <3>3
        <3>6. Round(0) \in Labels \ {"idle", "reply", "fold"}
            BY DEF Round, Labels
        <3> QED
            BY <1>3, <2>1, <3>2, <3>3, <3>4, <3>5, <3>6, GotoOK
    <2> QED BY <2>2, <2>3
<1>28. CASE ModelAnswers(w)
    <2>1. PICK r \in Responses, o \in Outcomes(w) :
             /\ AppendMessage(w, "assistant", r.uses, o)
             /\ \/ /\ o # "ok"
                   /\ ReplyWith(w, "failed", "count")
                \/ /\ o = "ok" /\ r.stop = "tool_use"
                   /\ turn' = [turn EXCEPT ![w].prompt = @ \cup {Len(messages) + 1}]
                   /\ Goto(w, "tools")
                \/ /\ o = "ok" /\ r.stop # "tool_use"
                   /\ ReplyWith(w, IF r.stop # "refusal" /\ r.text THEN "answer" ELSE "failed",
                                "count")
        BY <1>28 DEF ModelAnswers
    <2>2. UNCHANGED <<processed, users, convs, escalations, sends>>
        BY <1>28 DEF ModelAnswers
    <2>3. r.uses \in BOOLEAN
        BY HarnessAssumption DEF ResponseType
    <2>4. /\ TablesOK' /\ RowIds \subseteq RowIds'
          /\ o # "err" => Len(messages) + 1 \in RowIds'
        BY <1>7, <2>1, <2>2, <2>3 DEF Kinds
    <2>5. CASE ReplyWith(w, "failed", "count") \/ ReplyWith(w, "answer", "count")
        BY <1>11, <2>4, <2>5 DEF Texts, Nexts
    <2>6. CASE o = "ok" /\ Goto(w, "tools")
               /\ turn' = [turn EXCEPT ![w].prompt = @ \cup {Len(messages) + 1}]
        <3> DEFINE t == [turn[w] EXCEPT !.prompt = @ \cup {Len(messages) + 1}]
        <3>1. turn' = [turn EXCEPT ![w] = t]
            BY <1>6, <2>6
        <3>2. t \in Locals'
            BY <1>6, <2>4, <2>6 DEF Locals
        <3> HIDE DEF t
        <3>3. turn'[w] = t /\ DOMAIN turn' = Workers
            BY <1>6, <3>1
        <3> QED
            BY <1>3, <1>13, <2>4, <2>6, <3>1, <3>2, <3>3, GotoOK
    <2> QED BY <2>1, <2>5, <2>6
<1>29. CASE ModelFailure(w)
    BY <1>8, <1>11, <1>29 DEF ModelFailure, Texts, Nexts
<1>30. CASE RunTools(w)
    <2>1. PICK o \in Outcomes(w) :
             /\ AppendMessage(w, "tool_result", FALSE, o)
             /\ \/ /\ o = "ok"
                   /\ turn' = [turn EXCEPT ![w].prompt = @ \cup {Len(messages) + 1},
                                           ![w].rounds = @ + 1]
                   /\ Goto(w, Round(turn[w].rounds + 1))
                \/ /\ o # "ok"
                   /\ ReplyWith(w, "failed", "count")
        BY <1>30 DEF RunTools
    <2>2. UNCHANGED <<processed, users, convs, escalations, sends>>
        BY <1>30 DEF RunTools
    <2>3. /\ TablesOK' /\ RowIds \subseteq RowIds'
          /\ o # "err" => Len(messages) + 1 \in RowIds'
        BY <1>7, <2>1, <2>2 DEF Kinds
    <2>4. CASE o # "ok"
        BY <1>11, <2>1, <2>3, <2>4 DEF Texts, Nexts
    <2>5. CASE o = "ok"
        <3> DEFINE t == [turn[w] EXCEPT !.prompt = @ \cup {Len(messages) + 1},
                                        !.rounds = @ + 1]
        <3>1. turn' = [turn EXCEPT ![w] = t]
            BY <1>6, <2>1, <2>5
        <3>2. t \in Locals'
            <4>1. turn[w] \in Locals'
                BY <1>6, <2>3, LocalsGrow
            <4>2. turn[w].prompt \cup {Len(messages) + 1} \in SUBSET RowIds'
                BY <2>3, <2>5, <4>1 DEF Locals
            <4>3. turn[w].rounds + 1 \in Nat
                <5>1. turn[w].rounds \in Nat
                    BY <1>6 DEF Locals
                <5> QED BY <5>1
            <4> DEFINE p == turn[w].prompt \cup {Len(messages) + 1}
                       r == turn[w].rounds + 1
            <4>4. t = [turn[w] EXCEPT !.prompt = p, !.rounds = r]
                OBVIOUS
            <4> HIDE DEF p, r
            <4>5. p \in SUBSET RowIds' /\ r \in Nat
                BY <4>2, <4>3 DEF p, r
            <4> QED
                BY <4>1, <4>4, <4>5 DEF Locals
        <3> HIDE DEF t
        <3>3. turn'[w] = t /\ DOMAIN turn' = Workers
            BY <1>6, <3>1
        <3>4. Round(turn[w].rounds + 1) \in Labels \ {"idle", "reply", "fold"}
            BY DEF Round, Labels
        <3> QED
            BY <1>3, <2>1, <2>3, <2>5, <3>1, <3>2, <3>3, <3>4, GotoOK
    <2> QED BY <2>4, <2>5
<1>31. CASE CreateEscalation(w)
    <2>1. /\ UNCHANGED <<processed, users, convs, messages, sends, turn>>
          /\ escalations' \subseteq Indices
          /\ Goto(w, "mark")
        BY <1>1, <1>3, <1>31 DEF CreateEscalation, TablesOK
    <2>2. TablesOK' /\ RowIds' = RowIds
        BY <1>2, <1>3, <1>4, <1>5, <2>1 DEF TablesOK
    <2> QED
        BY <1>9, <1>13, <2>1, <2>2
<1>32. CASE SetEscalated(w)
    <2>1. /\ UNCHANGED <<processed, users, messages, escalations, sends>>
          /\ convs' \in {convs, [convs EXCEPT ![Conv(w)].escalated = TRUE]}
          /\ ReplyWith(w, "escalated", "note")
        BY <1>32 DEF SetEscalated
    <2>2. convs' \in [Conversations -> [upto : Nat, covered : SUBSET RowIds, escalated : BOOLEAN]]
        BY <1>1, <1>3, <2>1 DEF TablesOK
    <2>3. TablesOK' /\ RowIds' = RowIds
        BY <1>2, <1>3, <1>4, <1>5, <2>1, <2>2 DEF TablesOK
    <2> QED
        BY <1>11, <2>1, <2>3 DEF Texts, Nexts
<1>33. CASE NoteEscalation(w)
    <2>1. /\ \E o \in Outcomes(w) : AppendMessage(w, "system_note", FALSE, o)
          /\ UNCHANGED <<processed, users, convs, escalations, sends>>
          /\ Return(w)
        BY <1>33 DEF NoteEscalation
    <2>2. TablesOK' /\ RowIds \subseteq RowIds'
        BY <1>7, <2>1 DEF Kinds
    <2> QED
        BY <1>12, <2>1, <2>2
<1>34. CASE Reply(w)
    <2>1. UNCHANGED tables
        BY <1>34 DEF Reply
    <2>2. PICK delivered \in BOOLEAN :
              sends' = Append(sends, [turn |-> running[w], text |-> turn[w].text,
                                      delivered |-> delivered])
        BY <1>34 DEF Reply
    <2>3. turn[w].text \in Texts
        BY <1>3, <1>6, <1>34 DEF Reply, TurnsOK, Locals, Texts
    <2>4. sends' \in Seq(Send)
        BY <1>1, <1>3, <2>2, <2>3 DEF TablesOK, Send, Texts
    <2>5. TablesOK' /\ RowIds' = RowIds
        BY <1>2, <1>3, <1>4, <1>5, <2>1, <2>4 DEF TablesOK, tables
    <2>6. Return(w) \/ (Goto(w, turn[w].next) /\ UNCHANGED turn /\ turn[w].next # "end")
        BY <1>34 DEF Reply
    <2>7. turn[w].next \in Nexts
        BY <1>6 DEF Locals, Nexts
    <2> QED
        BY <1>9, <1>12, <1>13, <2>5, <2>6, <2>7 DEF Nexts
<1>35. CASE CountTail(w)
    <2>1. TablesOK' /\ RowIds' = RowIds
        BY <1>8, <1>35 DEF CountTail
    <2>2. CASE Return(w)
        BY <1>12, <2>1, <2>2
    <2>3. CASE ~Return(w)
        <3> DEFINE tail  == RowsAfter(Conv(w), turn[w].upto)
                   count == Cardinality(tail)
                   f     == Oldest(tail, count - HistoryTailLimit)
                   t     == [turn[w] EXCEPT !.fold = f]
        <3>1. count > SummarizeAfter /\ Goto(w, "fold") /\ turn' = [turn EXCEPT ![w].fold = f]
            BY <1>35, <2>3 DEF CountTail
        <3>2. tail \subseteq RowIds /\ f \subseteq RowIds
            BY <1>3 DEF RowsAfter, Oldest, RowIds, TablesOK
        <3>3. f # {}
            BY <1>3, <3>1, <3>2, FoldHasRows
        <3> HIDE DEF f
        <3>4. turn' = [turn EXCEPT ![w] = t]
            BY <1>6, <3>1
        <3>5. t \in Locals' /\ t.fold = f
            BY <1>6, <2>1, <3>2 DEF Locals
        <3> HIDE DEF t
        <3>6. turn'[w] = t /\ DOMAIN turn' = Workers
            BY <1>6, <3>4
        <3> QED
            BY <1>3, <2>1, <3>1, <3>3, <3>4, <3>5, <3>6, GotoOK DEF Labels
    <2> QED BY <2>2, <2>3
<1>36. CASE FoldSummary(w)
    <2> DEFINE f == turn[w].fold
               last == CHOOSE i \in f : \A j \in f : j <= i
               all  == turn[w].covered \cup f
    <2>1. /\ UNCHANGED <<processed, users, messages, escalations, sends>>
          /\ Return(w)
          /\ \/ convs' = convs
             \/ \E cov \in {{}, all} :
                   convs' = [convs EXCEPT ![Conv(w)].upto = last, ![Conv(w)].covered = cov]
        BY <1>36 DEF FoldSummary
    <2>2. f \subseteq RowIds /\ f # {} /\ all \subseteq RowIds
        BY <1>3, <1>6, <1>36 DEF FoldSummary, TurnsOK, Locals
    <2>3. last \in f
        BY <1>3, <2>2, RowsHaveLast
    <2>4. last \in Nat
        BY <2>2, <2>3 DEF RowIds
    <2> HIDE DEF f, last, all
    <2>5. convs' \in [Conversations -> [upto : Nat, covered : SUBSET RowIds, escalated : BOOLEAN]]
        <3> DEFINE C == [upto : Nat, covered : SUBSET RowIds, escalated : BOOLEAN]
        <3>1. convs \in [Conversations -> C] /\ convs[Conv(w)] \in C
            BY <1>1, <1>3 DEF TablesOK
        <3>2. ASSUME NEW cov \in {{}, all},
                     convs' = [convs EXCEPT ![Conv(w)].upto = last, ![Conv(w)].covered = cov]
              PROVE  convs' \in [Conversations -> C]
            <4> DEFINE c == [convs[Conv(w)] EXCEPT !.upto = last, !.covered = cov]
            <4>1. cov \in SUBSET RowIds
                BY <2>2
            <4>2. c \in C
                BY <2>4, <3>1, <4>1
            <4>3. convs' = [convs EXCEPT ![Conv(w)] = c]
                BY <1>1, <3>1, <3>2
            <4> HIDE DEF c, C
            <4> QED
                BY <3>1, <4>2, <4>3
        <3> HIDE DEF C
        <3>3. convs' \in [Conversations -> C]
            BY <2>1, <3>1, <3>2
        <3> QED
            BY <3>3 DEF C
    <2>6. TablesOK' /\ RowIds' = RowIds
        BY <1>2, <1>3, <1>4, <1>5, <2>1, <2>5 DEF TablesOK
    <2> QED
        BY <1>12, <2>1, <2>6
<1> QED
    BY <1>21, <1>22, <1>23, <1>24, <1>25, <1>26, <1>27, <1>28, <1>29, <1>30, <1>31, <1>32,
       <1>33, <1>34, <1>35, <1>36, <1>37 DEF Step

-----------------------------------------------------------------------------
\* A message from outside only adds to the numbering.
LEMMA OutsideTypes ==
    ASSUME HTypeOK, UNCHANGED <<tables, sends>>, Indices \subseteq Indices'
    PROVE  TablesOK'
<1>1. TablesOK
    BY DEF HTypeOK
<1>2. Row \subseteq Row' /\ Send \subseteq Send' /\ RowIds' = RowIds
    BY DEF Row, Send, RowIds, tables
<1>3. messages' \in Seq(Row') /\ sends' \in Seq(Send')
    BY <1>1, <1>2 DEF TablesOK, tables
<1> QED
    BY <1>1, <1>2, <1>3 DEF TablesOK, tables

\* The pool only ever adds messages.
LEMMA IndicesGrow ==
    ASSUME PoolInv, [PoolNext]_poolVars
    PROVE  Indices \subseteq Indices'
<1>1. accepted \in Seq(Inbounds) /\ Len(accepted) \in Nat
    BY DEF PoolInv, PoolTypeOK
<1>2. accepted' = accepted \/ \E e : accepted' = Append(accepted, e)
    <2>1. CASE \E e \in Events : OnMessage(e)
        BY <2>1 DEF OnMessage, Dispatch, DispatchTrue, DispatchFalse, DispatchPanics
    <2>2. CASE ~\E e \in Events : OnMessage(e)
        BY <2>2 DEF PoolNext, Receive, Exit, Finish, Cancel, Disconnect, Halt, Boot, poolVars
    <2> QED BY <2>1, <2>2
<1> QED
    BY <1>1, <1>2 DEF Indices

\* The first process starts with empty tables and idle workers.
LEMMA HTypeInit == HInit => TablesOK /\ TurnsOK
<1> SUFFICES ASSUME HInit PROVE TablesOK /\ TurnsOK
    OBVIOUS
<1>1. messages = <<>> /\ sends = <<>> /\ messages \in Seq(Row) /\ sends \in Seq(Send)
    BY DEF HInit
<1>2. convs \in [Conversations -> [upto : Nat, covered : SUBSET RowIds, escalated : BOOLEAN]]
    BY DEF HInit
<1>3. TablesOK
    BY <1>1, <1>2, HarnessAssumption DEF HInit, TablesOK
<1>4. NoTurn \in Locals
    BY DEF NoTurn, Locals
<1>5. TurnsOK
    BY <1>4 DEF HInit, PoolInit, TurnsOK, Labels
<1> QED BY <1>3, <1>5

\* The pool's part is the pool's own invariant; the rest is preserved by every
\* call of a turn, and by what happens outside the turns.
THEOREM HTypeCorrect == HSpec => []HTypeOK
<1>1. HInit => TablesOK /\ TurnsOK
    BY HTypeInit
<1>2. ASSUME PoolInv, PoolInv', [PoolNext]_poolVars, TablesOK, TurnsOK, [HNext]_hVars
      PROVE  TablesOK' /\ TurnsOK'
    <2>1. HTypeOK
        BY <1>2 DEF HTypeOK, PoolInv
    <2>2. Indices \subseteq Indices'
        BY <1>2, IndicesGrow
    <2>3. running \in [Workers -> Nat] /\ running' \in [Workers -> Nat]
        BY <1>2 DEF PoolInv, PoolTypeOK
    <2>4. UNCHANGED messages => Locals' = Locals
        BY DEF Locals, RowIds
    <2>5. CASE \E w \in Workers : Begin(w)
        <3>1. PICK w \in Workers : Begin(w)
            BY <2>5
        <3>2. TablesOK'
            BY <1>2, <2>1, <2>2, <3>1, OutsideTypes DEF Begin, tables
        <3>3. /\ running[w] = Idle
              /\ running' = [running EXCEPT ![w] = Head(queues[w])]
              /\ queues[w] # <<>>
            BY <3>1 DEF Begin, Receive
        <3>4. queues[w] \in Seq(Nat \ {Idle})
            BY <1>2 DEF PoolInv, PoolTypeOK
        <3>5. Head(queues[w]) # Idle
            BY <3>3, <3>4
        <3>6. /\ pc' = [pc EXCEPT ![w] = "dedup"]
              /\ UNCHANGED <<messages, turn, expired>>
            BY <3>1 DEF Begin, tables
        <3>7. TurnsOK'
            BY <1>2, <2>3, <2>4, <3>3, <3>5, <3>6 DEF TurnsOK, Labels
        <3> QED BY <3>2, <3>7
    <2>6. CASE \E w \in Workers : Step(w)
        <3>1. PICK w \in Workers : Step(w)
            BY <2>6
        <3>2. pc[w] # "idle"
            BY <3>1 DEF Step, Dedup, EnsureCustomer, LookupCustomer, LookupEmployee, CompanyFails,
                        OpenConversation, PersistInbound, BuildHistory, ModelAnswers,
                        ModelFailure, RunTools, CreateEscalation, SetEscalated,
                        NoteEscalation, Reply, CountTail, FoldSummary
        <3> QED
            BY <1>2, <2>1, <3>1, <3>2, StepTypes
    <2>7. CASE \E w \in Workers : Expire(w)
        <3>1. /\ UNCHANGED <<poolVars, tables, sends, pc, turn>>
              /\ expired' \subseteq Workers
            BY <1>2, <2>7 DEF Expire, TurnsOK
        <3>2. TablesOK'
            BY <1>2, <2>1, <2>2, <3>1, OutsideTypes
        <3>3. TurnsOK'
            BY <1>2, <2>4, <3>1 DEF TurnsOK, tables, poolVars
        <3> QED BY <3>2, <3>3
    <2>8. CASE HHalt
        <3>1. /\ pc' = [w \in Workers |-> "idle"]
              /\ turn' = [w \in Workers |-> NoTurn]
              /\ expired' = {}
              /\ UNCHANGED <<tables, sends>>
              /\ running' = [w \in Workers |-> Idle]
            BY <2>8 DEF HHalt, Halt
        <3>2. TablesOK'
            <4>1. TablesOK /\ Row \subseteq Row' /\ Send \subseteq Send' /\ RowIds' = RowIds
                BY <1>2, <2>2, <3>1 DEF Row, Send, RowIds, tables
            <4>2. messages' \in Seq(Row') /\ sends' \in Seq(Send')
                BY <3>1, <4>1 DEF TablesOK, tables
            <4> QED BY <2>2, <3>1, <4>1, <4>2 DEF TablesOK, tables
        <3>3. NoTurn \in Locals'
            BY DEF NoTurn, Locals
        <3>4. TurnsOK'
            BY <3>1, <3>3 DEF TurnsOK, Labels
        <3> QED BY <3>2, <3>4
    <2>9. CASE Outside
        <3>1. UNCHANGED <<tables, sends, turnVars>>
            BY <2>9 DEF Outside
        <3>2. UNCHANGED running
            BY <2>9 DEF Outside, OnMessage, Exit, Cancel, Disconnect, Boot
        <3>3. TablesOK'
            BY <1>2, <2>1, <2>2, <3>1, OutsideTypes DEF turnVars
        <3>4. TurnsOK'
            BY <1>2, <2>4, <3>1, <3>2 DEF TurnsOK, tables, turnVars
        <3> QED BY <3>3, <3>4
    <2>10. CASE UNCHANGED hVars
        <3>1. UNCHANGED <<tables, sends, pc, turn, expired, running>>
            BY <2>10 DEF hVars, turnVars, poolVars
        <3>2. TablesOK'
            BY <1>2, <2>1, <2>2, <3>1, OutsideTypes
        <3>3. TurnsOK'
            BY <1>2, <2>4, <3>1 DEF TurnsOK, tables
        <3> QED BY <3>2, <3>3
    <2> QED
        BY <1>2, <2>5, <2>6, <2>7, <2>8, <2>9, <2>10 DEF HNext
<1>3. HSpec => []PoolInv /\ [][PoolNext]_poolVars
    BY HarnessIsPool, PoolInvariant, PTL DEF PoolSpec
<1>4. PoolInv /\ TablesOK /\ TurnsOK => HTypeOK
    BY DEF HTypeOK, PoolInv
<1> QED
    BY <1>1, <1>2, <1>3, <1>4, HarnessIsPool, PoolInvariant, PTL DEF HSpec, PoolSpec
-----------------------------------------------------------------------------
(***************************************************************************)
(* No message is answered or stored twice, however often it is delivered:  *)
(* the row of processed_messages makes one turn the owner of a message for *)
(* ever, although turns of the same message run in different workers, in   *)
(* different lives of the process, and fail anywhere.                      *)
(***************************************************************************)

\* Where a turn has not handed over its reply, or not written its user row.
Unsent   == Labels \ {"idle", "dedup", "note", "count", "fold"}
Unstored == {"identity", "lookup", "open", "persist"}

Owns(w) == pc[w] \notin {"idle", "dedup"}

SentFor(k)   == \E a \in DOMAIN sends : KeyOf(sends[a].turn) = k
StoredFor(k) == \E i \in RowIds : messages[i].kind = "user" /\ KeyOf(messages[i].turn) = k

\* A turn past the check owns its message alone; what was sent and stored was
\* sent and stored by owners; an owner that is not there yet finds neither.
ClaimInv ==
    /\ \A w \in Workers : Owns(w) => KeyOf(running[w]) \in processed
    /\ \A v, w \in Workers : Owns(v) /\ Owns(w) /\ KeyOf(running[v]) = KeyOf(running[w]) => v = w
    /\ \A w \in Workers : pc[w] \in Unsent => ~SentFor(KeyOf(running[w]))
    /\ \A w \in Workers : pc[w] \in Unstored => ~StoredFor(KeyOf(running[w]))
    /\ \A a \in DOMAIN sends : KeyOf(sends[a].turn) \in processed
    /\ \A i \in RowIds : messages[i].kind = "user" => KeyOf(messages[i].turn) \in processed
    /\ AtMostOnce

-----------------------------------------------------------------------------
\* The first call of a turn.
Claims(w) ==
    /\ pc[w] = "dedup"
    /\ UNCHANGED <<messages, sends>>
    /\ processed' \in {processed, processed \cup {KeyOf(running[w])}}
    /\ \/ pc' = [pc EXCEPT ![w] = "idle"]
       \/ /\ pc' = [pc EXCEPT ![w] = "identity"] /\ running' = running
          /\ KeyOf(running[w]) \notin processed /\ KeyOf(running[w]) \in processed'

\* Any later call: at most one row, a user row only to get past "persist"; at
\* most one reply, only to get past "reply".
Works(w) ==
    /\ pc[w] \notin {"idle", "dedup"}
    /\ processed' = processed
    /\ \E label \in Labels \ {"dedup"} :
          /\ pc' = [pc EXCEPT ![w] = label]
          /\ label # "idle" => running' = running
          /\ \/ /\ UNCHANGED sends
                /\ label \in Unsent => pc[w] \in Unsent
             \/ /\ pc[w] = "reply" /\ label \notin Unsent
                /\ \E d : sends' = Append(sends, [turn |-> running[w], text |-> turn[w].text,
                                                  delivered |-> d])
          /\ label \in Unstored => pc[w] \in Unstored
          /\ \/ UNCHANGED messages
             \/ /\ label \notin Unstored
                /\ \E kind \in Kinds : \E uses :
                      /\ kind = "user" => pc[w] = "persist"
                      /\ messages' = Append(messages, [conv |-> Conv(w), kind |-> kind,
                                                       turn |-> running[w], uses |-> uses])

\* An insert of a row (AppendMessage) adds one row of the worker's own turn at the end, or none.
LEMMA AppendMessageIs ==
    ASSUME NEW w, NEW kind \in Kinds, NEW uses, NEW o, AppendMessage(w, kind, uses, o)
    PROVE  \/ UNCHANGED messages
           \/ \E u : messages' = Append(messages, [conv |-> Conv(w), kind |-> kind,
                                                   turn |-> running[w], uses |-> u])
BY DEF AppendMessage

\* Every call is one of the two.
LEMMA StepIsClaimOrWork ==
    ASSUME NEW w \in Workers, TurnsOK, running \in [Workers -> Nat], Step(w)
    PROVE  /\ accepted' = accepted
           /\ \A v \in Workers \ {w} : running'[v] = running[v]
           /\ Claims(w) \/ Works(w)
<1> USE DEF Kinds
<1>1. accepted' = accepted
    BY StepKeepsAccepted
<1>2. \A v \in Workers \ {w} : running'[v] = running[v]
    BY StepIsPoolStep DEF Finish, poolVars
<1>3. ASSUME NEW label, Goto(w, label)
      PROVE  pc' = [pc EXCEPT ![w] = label] /\ running' = running
    BY <1>3 DEF Goto, poolVars
<1>4. ASSUME NEW text, NEW next, ReplyWith(w, text, next)
      PROVE  pc' = [pc EXCEPT ![w] = "reply"] /\ running' = running
    BY <1>3, <1>4 DEF ReplyWith
<1>5. ASSUME Apologise(w)
      PROVE  pc' = [pc EXCEPT ![w] = "reply"] /\ running' = running
    BY <1>4, <1>5 DEF Apologise
<1>6. ASSUME Return(w) PROVE pc' = [pc EXCEPT ![w] = "idle"]
    BY <1>6 DEF Return
<1>11. CASE Dedup(w)
    <2>1. DeliveryKey(Msg(w)) = KeyOf(running[w])
        BY DEF KeyOf, Msg
    <2>2. pc[w] = "dedup" /\ UNCHANGED <<messages, sends>>
        BY <1>11 DEF Dedup
    <2>3. processed' \in {processed, processed \cup {KeyOf(running[w])}}
        BY <1>11, <2>1 DEF Dedup
    <2>4. \/ Return(w)
          \/ /\ Goto(w, "identity")
             /\ KeyOf(running[w]) \notin processed /\ KeyOf(running[w]) \in processed'
        BY <1>11, <2>1 DEF Dedup
    <2> QED
        BY <1>1, <1>2, <1>3, <1>6, <2>2, <2>3, <2>4 DEF Claims
<1>12. CASE \/ EnsureCustomer(w) \/ LookupCustomer(w) \/ LookupEmployee(w)
            \/ CompanyFails(w) \/ OpenConversation(w)
    <2>1. /\ pc[w] \in Unstored
          /\ UNCHANGED <<processed, messages, sends>>
        BY <1>12 DEF EnsureCustomer, LookupCustomer, LookupEmployee, CompanyFails,
                     OpenConversation, Unstored, tables
    <2>2. \/ \E label \in {"lookup", "open", "persist"} : Goto(w, label)
          \/ Apologise(w) \/ ReplyWith(w, "unknown", "end") \/ Return(w)
        BY <1>12 DEF EnsureCustomer, LookupCustomer, LookupEmployee, CompanyFails, OpenConversation
    <2>3. \E label \in {"lookup", "open", "persist", "reply", "idle"} :
             pc' = [pc EXCEPT ![w] = label] /\ (label # "idle" => running' = running)
        BY <1>3, <1>4, <1>5, <1>6, <2>2
    <2> QED
        BY <1>1, <1>2, <2>1, <2>3 DEF Works, Unstored, Unsent, Labels
<1>13. CASE PersistInbound(w)
    <2>1. PICK o \in Outcomes(w) :
             /\ AppendMessage(w, "user", FALSE, o)
             /\ Goto(w, "history") \/ Apologise(w)
        BY <1>13 DEF PersistInbound
    <2>2. pc[w] = "persist" /\ UNCHANGED <<processed, sends>>
        BY <1>13 DEF PersistInbound
    <2>3. \E label \in {"history", "reply"} : pc' = [pc EXCEPT ![w] = label] /\ running' = running
        BY <1>3, <1>5, <2>1
    <2> QED
        BY <1>1, <1>2, <2>1, <2>2, <2>3, AppendMessageIs DEF Works, Unstored, Unsent, Labels
<1>14. CASE BuildHistory(w) \/ ModelFailure(w)
    <2>1. pc[w] \in {"history", "model"} /\ UNCHANGED <<processed, messages, sends>>
        BY <1>14 DEF BuildHistory, ModelFailure, tables
    <2>2. Goto(w, Round(0)) \/ Apologise(w) \/ ReplyWith(w, "failed", "count")
        BY <1>14 DEF BuildHistory, ModelFailure
    <2>3. \E label \in {"model", "escalate", "reply"} :
             pc' = [pc EXCEPT ![w] = label] /\ running' = running
        BY <1>3, <1>4, <1>5, <2>2 DEF Round
    <2> QED
        BY <1>1, <1>2, <2>1, <2>3 DEF Works, Unstored, Unsent, Labels
<1>15. CASE ModelAnswers(w) \/ RunTools(w)
    <2>1. pc[w] \in {"model", "tools"} /\ UNCHANGED <<processed, sends>>
        BY <1>15 DEF ModelAnswers, RunTools
    <2>2. \E kind \in Kinds \ {"user"} : \E u, o : AppendMessage(w, kind, u, o)
        BY <1>15 DEF ModelAnswers, RunTools
    <2>3. \/ \E label \in {"tools", "model", "escalate"} : Goto(w, label)
          \/ \E text : ReplyWith(w, text, "count")
        BY <1>15 DEF ModelAnswers, RunTools, Round
    <2>4. \E label \in {"tools", "model", "escalate", "reply"} :
             pc' = [pc EXCEPT ![w] = label] /\ running' = running
        BY <1>3, <1>4, <2>3
    <2> QED
        BY <1>1, <1>2, <2>1, <2>2, <2>4, AppendMessageIs DEF Works, Unstored, Unsent, Labels
<1>16. CASE CreateEscalation(w) \/ SetEscalated(w)
    <2>1. pc[w] \in {"escalate", "mark"} /\ UNCHANGED <<processed, messages, sends>>
        BY <1>16 DEF CreateEscalation, SetEscalated
    <2>2. Goto(w, "mark") \/ ReplyWith(w, "escalated", "note")
        BY <1>16 DEF CreateEscalation, SetEscalated
    <2>3. \E label \in {"mark", "reply"} : pc' = [pc EXCEPT ![w] = label] /\ running' = running
        BY <1>3, <1>4, <2>2
    <2> QED
        BY <1>1, <1>2, <2>1, <2>3 DEF Works, Unstored, Unsent, Labels
<1>17. CASE NoteEscalation(w)
    <2>1. pc[w] = "note" /\ UNCHANGED <<processed, sends>> /\ Return(w)
        BY <1>17 DEF NoteEscalation
    <2>2. \E o : AppendMessage(w, "system_note", FALSE, o)
        BY <1>17 DEF NoteEscalation
    <2> QED
        BY <1>1, <1>2, <1>6, <2>1, <2>2, AppendMessageIs DEF Works, Unstored, Unsent, Labels
<1>18. CASE Reply(w)
    <2>1. pc[w] = "reply" /\ UNCHANGED <<processed, messages>>
        BY <1>18 DEF Reply, tables
    <2>2. \E d : sends' = Append(sends, [turn |-> running[w], text |-> turn[w].text,
                                         delivered |-> d])
        BY <1>18 DEF Reply
    <2>3. turn[w].next \in Nexts
        BY DEF TurnsOK, Locals, Nexts
    <2>4. Return(w) \/ (Goto(w, turn[w].next) /\ turn[w].next # "end")
        BY <1>18 DEF Reply
    <2>5. \E label \in {"idle", "count", "note"} :
             pc' = [pc EXCEPT ![w] = label] /\ (label # "idle" => running' = running)
        BY <1>3, <1>6, <2>3, <2>4 DEF Nexts
    <2> QED
        BY <1>1, <1>2, <2>1, <2>2, <2>5 DEF Works, Unstored, Unsent, Labels
<1>19. CASE CountTail(w) \/ FoldSummary(w)
    <2>1. pc[w] \in {"count", "fold"} /\ UNCHANGED <<processed, messages, sends>>
        BY <1>19 DEF CountTail, FoldSummary, tables
    <2>2. Goto(w, "fold") \/ Return(w)
        BY <1>19 DEF CountTail, FoldSummary
    <2>3. \E label \in {"idle", "fold"} :
             pc' = [pc EXCEPT ![w] = label] /\ (label # "idle" => running' = running)
        BY <1>3, <1>6, <2>2
    <2> QED
        BY <1>1, <1>2, <2>1, <2>3 DEF Works, Unstored, Unsent, Labels
<1> QED
    BY <1>11, <1>12, <1>13, <1>14, <1>15, <1>16, <1>17, <1>18, <1>19 DEF Step

-----------------------------------------------------------------------------
\* The claim of MarkProcessed keeps the invariant: the message it claims has left no trace yet.
LEMMA ClaimStep ==
    ASSUME PoolInv, HTypeOK, ClaimInv, NEW w \in Workers, Claims(w),
           accepted' = accepted, \A v \in Workers \ {w} : running'[v] = running[v]
    PROVE  ClaimInv'
<1> DEFINE key == KeyOf(running[w])
<1>1. \A i : KeyOf(i)' = DeliveryKey(accepted[i]) /\ KeyOf(i) = DeliveryKey(accepted[i])
    BY DEF KeyOf
<1>2. pc \in [Workers -> Labels] /\ running \in [Workers -> Nat]
    BY DEF HTypeOK, TurnsOK, PoolTypeOK
<1>3. /\ pc[w] = "dedup" /\ processed \subseteq processed'
      /\ UNCHANGED <<messages, sends>>
    BY DEF Claims
<1>4. \A v \in Workers \ {w} : pc'[v] = pc[v]
    BY <1>2 DEF Claims
<1>5. \/ pc'[w] = "idle"
      \/ /\ pc'[w] = "identity" /\ running' = running
         /\ key \notin processed /\ key \in processed'
    BY <1>2 DEF Claims
<1>6. RowIds' = RowIds
    BY <1>3 DEF RowIds
<1>7. \A a \in DOMAIN sends : KeyOf(sends[a].turn) \in processed
    BY DEF ClaimInv
<1>8. \A i \in RowIds : messages[i].kind = "user" => KeyOf(messages[i].turn) \in processed
    BY DEF ClaimInv
<1> HIDE DEF key
<1>9. \A v \in Workers \ {w} : Owns(v) => KeyOf(running[v]) \in processed
    BY DEF ClaimInv
<1>10. AtMostOnce'
    BY <1>1, <1>3, <1>6 DEF ClaimInv, AtMostOnce
<1>11. ASSUME NEW v \in Workers, pc'[v] \notin {"idle", "dedup"}
       PROVE  DeliveryKey(accepted[running'[v]]) \in processed'
    BY <1>1, <1>3, <1>4, <1>5, <1>9, <1>11 DEF Owns, key
<1>12. ASSUME NEW v \in Workers, NEW u \in Workers,
              pc'[v] \notin {"idle", "dedup"}, pc'[u] \notin {"idle", "dedup"},
              DeliveryKey(accepted[running'[v]]) = DeliveryKey(accepted[running'[u]])
       PROVE  v = u
    <2>1. CASE v # w /\ u # w
        BY <1>1, <1>4, <1>12, <2>1 DEF ClaimInv, Owns
    <2>2. CASE v = w /\ u # w
        BY <1>1, <1>4, <1>5, <1>9, <1>12, <2>2 DEF Owns, key
    <2>3. CASE v # w /\ u = w
        BY <1>1, <1>4, <1>5, <1>9, <1>12, <2>3 DEF Owns, key
    <2> QED BY <2>1, <2>2, <2>3
<1>13. ASSUME NEW v \in Workers, pc'[v] \in Unsent, NEW a \in DOMAIN sends,
              DeliveryKey(accepted[sends[a].turn]) = DeliveryKey(accepted[running'[v]])
       PROVE  FALSE
    <2>1. CASE v # w
        BY <1>1, <1>4, <1>13, <2>1 DEF ClaimInv, SentFor
    <2>2. CASE v = w
        BY <1>1, <1>5, <1>7, <1>13, <2>2 DEF Unsent, Labels, key
    <2> QED BY <2>1, <2>2
<1>14. ASSUME NEW v \in Workers, pc'[v] \in Unstored, NEW i \in RowIds,
              messages[i].kind = "user",
              DeliveryKey(accepted[messages[i].turn]) = DeliveryKey(accepted[running'[v]])
       PROVE  FALSE
    <2>1. CASE v # w
        BY <1>1, <1>4, <1>14, <2>1 DEF ClaimInv, StoredFor
    <2>2. CASE v = w
        BY <1>1, <1>5, <1>8, <1>14, <2>2 DEF Unstored, key
    <2> QED BY <2>1, <2>2
<1>15. Unsent' = Unsent /\ Unstored' = Unstored
    BY DEF Unsent, Unstored, Labels
<1> QED
    BY <1>1, <1>3, <1>6, <1>7, <1>8, <1>10, <1>11, <1>12, <1>13, <1>14, <1>15
    DEF ClaimInv, Owns, SentFor, StoredFor, KeyOf

\* A new row or reply is of the turn of w, and is the last one.
LEMMA WhatIsNew ==
    ASSUME HTypeOK, NEW w \in Workers, Works(w)
    PROVE  /\ \A a \in DOMAIN sends' :
                \/ a \in DOMAIN sends /\ sends'[a] = sends[a]
                \/ /\ a = Len(sends) + 1 /\ sends'[a].turn = running[w]
                   /\ pc[w] = "reply" /\ pc'[w] \notin Unsent
           /\ \A i \in RowIds' :
                \/ i \in RowIds /\ messages'[i] = messages[i]
                \/ /\ i = Len(messages) + 1 /\ messages'[i].turn = running[w]
                   /\ messages'[i].kind = "user" => pc[w] = "persist"
                   /\ pc'[w] \notin Unstored
<1>1. sends \in Seq(Send) /\ messages \in Seq(Row) /\ pc \in [Workers -> Labels]
    BY DEF HTypeOK, TablesOK, TurnsOK
<1>2. PICK label \in Labels \ {"dedup"} :
          /\ pc' = [pc EXCEPT ![w] = label]
          /\ \/ UNCHANGED sends
             \/ /\ pc[w] = "reply" /\ label \notin Unsent
                /\ \E d : sends' = Append(sends, [turn |-> running[w], text |-> turn[w].text,
                                                  delivered |-> d])
          /\ \/ UNCHANGED messages
             \/ /\ label \notin Unstored
                /\ \E kind \in Kinds : \E uses :
                      /\ kind = "user" => pc[w] = "persist"
                      /\ messages' = Append(messages, [conv |-> Conv(w), kind |-> kind,
                                                       turn |-> running[w], uses |-> uses])
    BY DEF Works
<1>3. pc'[w] = label
    BY <1>1, <1>2
<1>4. \A s, a : sends' = Append(sends, s) /\ a \in DOMAIN sends' =>
          (a \in DOMAIN sends /\ sends'[a] = sends[a]) \/ (a = Len(sends) + 1 /\ sends'[a] = s)
    BY <1>1
<1>5. \A r, i : messages' = Append(messages, r) /\ i \in RowIds' =>
          (i \in RowIds /\ messages'[i] = messages[i]) \/ (i = Len(messages) + 1 /\ messages'[i] = r)
    BY <1>1 DEF RowIds
<1>6. \A a \in DOMAIN sends' :
          \/ a \in DOMAIN sends /\ sends'[a] = sends[a]
          \/ /\ a = Len(sends) + 1 /\ sends'[a].turn = running[w]
             /\ pc[w] = "reply" /\ label \notin Unsent
    <2>1. CASE UNCHANGED sends
        BY <2>1
    <2>2. CASE pc[w] = "reply" /\ label \notin Unsent
               /\ \E d : sends' = Append(sends, [turn |-> running[w], text |-> turn[w].text,
                                                 delivered |-> d])
        <3>1. PICK d : sends' = Append(sends, [turn |-> running[w], text |-> turn[w].text,
                                               delivered |-> d])
            BY <2>2
        <3> QED
            BY <1>4, <2>2, <3>1
    <2> QED BY <1>2, <2>1, <2>2
<1>7. \A i \in RowIds' :
          \/ i \in RowIds /\ messages'[i] = messages[i]
          \/ /\ i = Len(messages) + 1 /\ messages'[i].turn = running[w]
             /\ messages'[i].kind = "user" => pc[w] = "persist"
             /\ label \notin Unstored
    <2>1. CASE UNCHANGED messages
        BY <2>1 DEF RowIds
    <2>2. CASE ~UNCHANGED messages
        <3>0. PICK kind \in Kinds : \E uses :
                 /\ kind = "user" => pc[w] = "persist"
                 /\ messages' = Append(messages, [conv |-> Conv(w), kind |-> kind,
                                                  turn |-> running[w], uses |-> uses])
            BY <1>2, <2>2
        <3>1. PICK uses :
                 /\ kind = "user" => pc[w] = "persist"
                 /\ messages' = Append(messages, [conv |-> Conv(w), kind |-> kind,
                                                  turn |-> running[w], uses |-> uses])
            BY <3>0
        <3>2. label \notin Unstored
            BY <1>2, <2>2
        <3> DEFINE row == [conv |-> Conv(w), kind |-> kind, turn |-> running[w], uses |-> uses]
        <3>3. row.kind = kind /\ row.turn = running[w]
            OBVIOUS
        <3>4. messages' = Append(messages, row)
            BY <3>1
        <3> HIDE DEF row
        <3>5. \A i \in RowIds' : (i \in RowIds /\ messages'[i] = messages[i])
                                \/ (i = Len(messages) + 1 /\ messages'[i] = row)
            BY <1>5, <3>4
        <3> QED
            BY <3>1, <3>2, <3>3, <3>5
    <2> QED BY <2>1, <2>2
<1> QED
    BY <1>3, <1>6, <1>7

\* So does every later call: it adds at most the one reply and the one row its turn was still to leave.
LEMMA WorkStep ==
    ASSUME PoolInv, HTypeOK, ClaimInv, NEW w \in Workers, Works(w),
           accepted' = accepted, \A v \in Workers \ {w} : running'[v] = running[v]
    PROVE  ClaimInv'
<1> DEFINE key == KeyOf(running[w])
<1>1. \A i : KeyOf(i)' = KeyOf(i)
    BY DEF KeyOf
<1>2. pc \in [Workers -> Labels] /\ sends \in Seq(Send) /\ messages \in Seq(Row)
    BY DEF HTypeOK, TablesOK, TurnsOK
<1>3. /\ pc[w] \notin {"idle", "dedup"} /\ processed' = processed
      /\ pc'[w] # "idle" => running' = running
      /\ \A v \in Workers \ {w} : pc'[v] = pc[v]
      /\ pc'[w] \in Unstored => pc[w] \in Unstored
      /\ pc'[w] \in Unsent => sends' = sends /\ pc[w] \in Unsent
    BY <1>2 DEF Works
<1>4. key \in processed
    BY <1>3 DEF ClaimInv, Owns
<1>5. /\ \A a \in DOMAIN sends' :
            \/ a \in DOMAIN sends /\ sends'[a] = sends[a]
            \/ /\ a = Len(sends) + 1 /\ sends'[a].turn = running[w]
               /\ pc[w] = "reply" /\ pc'[w] \notin Unsent
      /\ \A i \in RowIds' :
            \/ i \in RowIds /\ messages'[i] = messages[i]
            \/ /\ i = Len(messages) + 1 /\ messages'[i].turn = running[w]
               /\ messages'[i].kind = "user" => pc[w] = "persist"
               /\ pc'[w] \notin Unstored
    BY WhatIsNew
<1>6. pc[w] = "reply" => ~SentFor(key)
    BY DEF ClaimInv, Unsent, Labels
<1>7. pc[w] = "persist" => ~StoredFor(key)
    BY DEF ClaimInv, Unstored
<1>8. \A v \in Workers \ {w} : Owns(v) => KeyOf(running[v]) # key
    BY <1>3 DEF ClaimInv, Owns
<1> HIDE DEF key
<1>9. \A v \in Workers \ {w} : Owns(v)' = Owns(v) /\ running'[v] = running[v]
    BY <1>3 DEF Owns
<1>10. Owns(w)' => Owns(w) /\ running'[w] = running[w]
    BY <1>3 DEF Owns
<1>11. \A v \in Workers : Owns(v)' => Owns(v) /\ KeyOf(running[v])' = KeyOf(running[v])
    BY <1>1, <1>9, <1>10 DEF KeyOf
<1>12. \A v \in Workers : Owns(v)' => KeyOf(running[v])' \in processed'
    BY <1>3, <1>11 DEF ClaimInv
<1>13. \A u, v \in Workers :
          Owns(u)' /\ Owns(v)' /\ KeyOf(running[u])' = KeyOf(running[v])' => u = v
    BY <1>11 DEF ClaimInv
<1>14. ASSUME NEW v \in Workers, pc'[v] \in Unsent, NEW a \in DOMAIN sends',
              KeyOf(sends[a].turn)' = KeyOf(running[v])'
       PROVE  FALSE
    <2>1. Owns(v)'
        BY <1>14 DEF Owns, Unsent, Labels
    <2>2. CASE v = w
        BY <1>1, <1>3, <1>10, <1>14, <2>1, <2>2 DEF ClaimInv, SentFor, KeyOf
    <2>3. CASE v # w /\ a \in DOMAIN sends /\ sends'[a] = sends[a]
        BY <1>1, <1>3, <1>11, <1>14, <2>1, <2>3 DEF ClaimInv, SentFor, KeyOf
    <2>4. CASE v # w /\ sends'[a].turn = running[w]
        BY <1>1, <1>8, <1>11, <1>14, <2>1, <2>4 DEF key, KeyOf
    <2> QED BY <1>5, <2>2, <2>3, <2>4
<1>15. ASSUME NEW v \in Workers, pc'[v] \in Unstored, NEW i \in RowIds',
              messages'[i].kind = "user", KeyOf(messages[i].turn)' = KeyOf(running[v])'
       PROVE  FALSE
    <2>1. Owns(v)'
        BY <1>15 DEF Owns, Unstored
    <2>2. CASE i \in RowIds /\ messages'[i] = messages[i]
        <3>1. pc[v] \in Unstored
            BY <1>3, <1>15
        <3> QED
            BY <1>1, <1>11, <1>15, <2>1, <2>2, <3>1 DEF ClaimInv, StoredFor, KeyOf
    <2>3. CASE v # w /\ messages'[i].turn = running[w]
        BY <1>1, <1>8, <1>11, <1>15, <2>1, <2>3 DEF key, KeyOf
    <2> QED BY <1>5, <1>15, <2>2, <2>3
<1>16. \A a \in DOMAIN sends' : KeyOf(sends[a].turn)' \in processed'
    BY <1>1, <1>3, <1>4, <1>5 DEF ClaimInv, KeyOf, key
<1>17. \A i \in RowIds' : messages'[i].kind = "user" => KeyOf(messages[i].turn)' \in processed'
    BY <1>1, <1>3, <1>4, <1>5 DEF ClaimInv, KeyOf, key
<1>18. ASSUME NEW a \in DOMAIN sends', NEW b \in DOMAIN sends',
              KeyOf(sends[a].turn)' = KeyOf(sends[b].turn)'
       PROVE  a = b
    <2>1. CASE a \in DOMAIN sends /\ b \in DOMAIN sends
               /\ sends'[a] = sends[a] /\ sends'[b] = sends[b]
        BY <1>1, <1>18, <2>1 DEF ClaimInv, AtMostOnce, KeyOf
    <2>2. CASE pc[w] = "reply" /\ a = Len(sends) + 1 /\ sends'[a].turn = running[w]
               /\ b \in DOMAIN sends /\ sends'[b] = sends[b]
        BY <1>1, <1>6, <1>18, <2>2 DEF SentFor, KeyOf, key
    <2>3. CASE pc[w] = "reply" /\ b = Len(sends) + 1 /\ sends'[b].turn = running[w]
               /\ a \in DOMAIN sends /\ sends'[a] = sends[a]
        BY <1>1, <1>6, <1>18, <2>3 DEF SentFor, KeyOf, key
    <2> QED BY <1>5, <2>1, <2>2, <2>3
<1>19. ASSUME NEW i \in RowIds', NEW j \in RowIds',
              messages'[i].kind = "user", messages'[j].kind = "user",
              KeyOf(messages[i].turn)' = KeyOf(messages[j].turn)'
       PROVE  i = j
    <2>1. CASE i \in RowIds /\ j \in RowIds
               /\ messages'[i] = messages[i] /\ messages'[j] = messages[j]
        BY <1>1, <1>19, <2>1 DEF ClaimInv, AtMostOnce, KeyOf
    <2>2. CASE pc[w] = "persist" /\ i = Len(messages) + 1 /\ messages'[i].turn = running[w]
               /\ j \in RowIds /\ messages'[j] = messages[j]
        BY <1>1, <1>7, <1>19, <2>2 DEF StoredFor, KeyOf, key
    <2>3. CASE pc[w] = "persist" /\ j = Len(messages) + 1 /\ messages'[j].turn = running[w]
               /\ i \in RowIds /\ messages'[i] = messages[i]
        BY <1>1, <1>7, <1>19, <2>3 DEF StoredFor, KeyOf, key
    <2> QED BY <1>5, <1>19, <2>1, <2>2, <2>3
<1>20. AtMostOnce'
    BY <1>18, <1>19 DEF AtMostOnce
<1>21. Unsent' = Unsent /\ Unstored' = Unstored
    BY DEF Unsent, Unstored, Labels
<1> QED
    BY <1>12, <1>13, <1>14, <1>15, <1>16, <1>17, <1>20, <1>21
    DEF ClaimInv, Owns, SentFor, StoredFor

\* A message keeps its number.
LEMMA NumbersKeep ==
    ASSUME PoolInv, [PoolNext]_poolVars
    PROVE  \A i \in Indices : accepted'[i] = accepted[i]
<1>1. accepted \in Seq(Inbounds)
    BY DEF PoolInv, PoolTypeOK
<1>2. accepted' = accepted \/ \E e : accepted' = Append(accepted, e)
    <2>1. CASE \E e \in Events : OnMessage(e)
        BY <2>1 DEF OnMessage, Dispatch, DispatchTrue, DispatchFalse, DispatchPanics
    <2>2. CASE ~\E e \in Events : OnMessage(e)
        BY <2>2 DEF PoolNext, Receive, Exit, Finish, Cancel, Disconnect, Halt, Boot, poolVars
    <2> QED BY <2>1, <2>2
<1> QED
    BY <1>1, <1>2 DEF Indices

\* What happens outside a call: messages get numbers, turns begin and are lost.
LEMMA ElsewhereKeepsClaims ==
    ASSUME HTypeOK, ClaimInv, UNCHANGED <<processed, messages, sends>>,
           \A i \in Indices : accepted'[i] = accepted[i],
           \A w \in Workers : Owns(w) => running[w] \in Indices,
           \A w \in Workers : pc'[w] \notin {"idle", "dedup"} =>
                                  pc'[w] = pc[w] /\ running'[w] = running[w]
    PROVE  ClaimInv'
<1>1. \A i \in Indices : KeyOf(i) = DeliveryKey(accepted[i]) /\ KeyOf(i)' = KeyOf(i)
    BY DEF KeyOf
<1>2. sends \in Seq(Send) /\ messages \in Seq(Row)
    BY DEF HTypeOK, TablesOK
<1>3. \A a \in DOMAIN sends : sends[a].turn \in Indices
    <2>1. \A a \in DOMAIN sends : sends[a] \in Send
        BY <1>2
    <2> QED BY <2>1 DEF Send
<1>4. \A i \in RowIds : messages[i].turn \in Indices
    <2>1. \A i \in RowIds : messages[i] \in Row
        BY <1>2 DEF RowIds
    <2> QED BY <2>1 DEF Row
<1>5. RowIds' = RowIds /\ Unsent' = Unsent /\ Unstored' = Unstored
    BY DEF RowIds, Unsent, Unstored, Labels
<1>6. \A w \in Workers : pc'[w] \in Unsent \cup Unstored => pc'[w] \notin {"idle", "dedup"}
    BY DEF Unsent, Unstored, Labels
<1>7. \A w \in Workers : pc'[w] \notin {"idle", "dedup"} =>
          pc'[w] = pc[w] /\ running'[w] = running[w] /\ running[w] \in Indices
    BY DEF Owns
<1>8. AtMostOnce'
    <2>1. AtMostOnce
        BY DEF ClaimInv
    <2>2. \A i \in Indices : DeliveryKey(accepted'[i]) = DeliveryKey(accepted[i])
        OBVIOUS
    <2>3. sends' = sends /\ messages' = messages
        OBVIOUS
    <2> QED
        BY <1>3, <1>4, <1>5, <2>1, <2>2, <2>3 DEF AtMostOnce, KeyOf
<1>9. ASSUME NEW w \in Workers, pc'[w] \notin {"idle", "dedup"}
      PROVE  KeyOf(running[w]) \in processed /\ DeliveryKey(accepted'[running'[w]]) = KeyOf(running[w])
    BY <1>1, <1>7, <1>9 DEF ClaimInv, Owns, KeyOf
<1>10. \A a \in DOMAIN sends : DeliveryKey(accepted'[sends[a].turn]) = KeyOf(sends[a].turn)
    BY <1>1, <1>3 DEF KeyOf
<1>11. \A i \in RowIds : DeliveryKey(accepted'[messages[i].turn]) = KeyOf(messages[i].turn)
    BY <1>1, <1>4 DEF KeyOf
<1>12. \A v, w \in Workers :
          /\ pc'[v] \notin {"idle", "dedup"} /\ pc'[w] \notin {"idle", "dedup"}
          /\ DeliveryKey(accepted'[running'[v]]) = DeliveryKey(accepted'[running'[w]])
          => v = w
    BY <1>7, <1>9 DEF ClaimInv, Owns
<1>13. \A w \in Workers : pc'[w] \in Unsent => ~SentFor(KeyOf(running[w]))
    BY <1>6, <1>7 DEF ClaimInv
<1>14. \A w \in Workers : pc'[w] \in Unstored => ~StoredFor(KeyOf(running[w]))
    BY <1>6, <1>7 DEF ClaimInv
<1>15. \A w \in Workers : pc'[w] \in Unsent => ~SentFor(KeyOf(running[w]))'
    BY <1>6, <1>9, <1>10, <1>13 DEF SentFor, KeyOf
<1>16. \A w \in Workers : pc'[w] \in Unstored => ~StoredFor(KeyOf(running[w]))'
    BY <1>5, <1>6, <1>9, <1>11, <1>14 DEF StoredFor, KeyOf
<1>17. \A a \in DOMAIN sends : KeyOf(sends[a].turn)' \in processed
    BY <1>10 DEF ClaimInv, KeyOf
<1>18. \A i \in RowIds : messages[i].kind = "user" => KeyOf(messages[i].turn)' \in processed
    BY <1>11 DEF ClaimInv, KeyOf
<1> QED
    BY <1>5, <1>8, <1>9, <1>12, <1>15, <1>16, <1>17, <1>18 DEF ClaimInv, Owns, KeyOf

-----------------------------------------------------------------------------
\* Every claim is for ever: ClaimInv is an invariant of the pipeline.
THEOREM ClaimInvariant == HSpec => []ClaimInv
<1>1. HInit => ClaimInv
    <2> SUFFICES ASSUME HInit PROVE ClaimInv
        OBVIOUS
    <2>1. sends = <<>> /\ RowIds = {} /\ \A w \in Workers : pc[w] = "idle"
        BY DEF HInit, RowIds
    <2> QED
        BY <2>1 DEF ClaimInv, Owns, SentFor, StoredFor, AtMostOnce, Unsent, Unstored, Labels
<1>2. ASSUME PoolInv, HTypeOK, ClaimInv, [PoolNext]_poolVars, [HNext]_hVars
      PROVE  ClaimInv'
    <2>1. \A i \in Indices : accepted'[i] = accepted[i]
        BY <1>2, NumbersKeep
    <2>2. \A w \in Workers : Owns(w) => running[w] \in Indices
        BY <1>2, TurnHasMessage DEF Owns
    <2>3. pc \in [Workers -> Labels] /\ running \in [Workers -> Nat] /\ TurnsOK
        BY <1>2 DEF HTypeOK, TurnsOK, PoolTypeOK
    <2>4. CASE \E w \in Workers : Step(w)
        <3>1. PICK w \in Workers : Step(w)
            BY <2>4
        <3>2. /\ accepted' = accepted
              /\ \A v \in Workers \ {w} : running'[v] = running[v]
              /\ Claims(w) \/ Works(w)
            BY <2>3, <3>1, StepIsClaimOrWork
        <3> QED
            BY <1>2, <3>2, ClaimStep, WorkStep
    <2>5. CASE \E w \in Workers : Begin(w)
        <3>1. PICK w \in Workers : Begin(w)
            BY <2>5
        <3>2. /\ UNCHANGED <<processed, messages, sends>>
              /\ pc' = [pc EXCEPT ![w] = "dedup"]
              /\ \A v \in Workers \ {w} : running'[v] = running[v]
            BY <2>3, <3>1 DEF Begin, Receive, tables
        <3>3. \A v \in Workers : pc'[v] \notin {"idle", "dedup"} =>
                                    pc'[v] = pc[v] /\ running'[v] = running[v]
            BY <2>3, <3>2
        <3> QED
            BY <1>2, <2>1, <2>2, <3>2, <3>3, ElsewhereKeepsClaims
    <2>6. CASE HHalt
        <3>1. UNCHANGED <<processed, messages, sends>> /\ \A v \in Workers : pc'[v] = "idle"
            BY <2>6 DEF HHalt, tables
        <3> QED
            BY <1>2, <2>1, <2>2, <3>1, ElsewhereKeepsClaims
    <2>7. CASE (\E w \in Workers : Expire(w)) \/ Outside \/ UNCHANGED hVars
        <3>1. UNCHANGED <<processed, messages, sends, pc>>
            BY <2>7 DEF Expire, Outside, hVars, tables, turnVars
        <3>2. UNCHANGED running
            BY <2>7 DEF Expire, Outside, OnMessage, Exit, Cancel, Disconnect, Boot, hVars, poolVars
        <3> QED
            BY <1>2, <2>1, <2>2, <3>1, <3>2, ElsewhereKeepsClaims
    <2> QED
        BY <1>2, <2>4, <2>5, <2>6, <2>7 DEF HNext
<1>3. HSpec => []PoolInv /\ [][PoolNext]_poolVars
    BY HarnessIsPool, PoolInvariant, PTL DEF PoolSpec
<1> QED
    BY <1>1, <1>2, <1>3, HTypeCorrect, PTL DEF HSpec

\* The check on (company, message id) makes replies and rows unique.
THEOREM AtMostOnceTheorem == HSpec => []AtMostOnce
<1>1. ClaimInv => AtMostOnce
    BY DEF ClaimInv
<1> QED
    BY <1>1, ClaimInvariant, PTL

-----------------------------------------------------------------------------
\* The state of the abstract inbox.
InboxKeys  == {DeliveryKey(m) : m \in Inbounds}
RepliesTo(k) == {a \in DOMAIN sends : KeyOf(sends[a].turn) = k}
Answers    == [k \in InboxKeys |-> Cardinality(RepliesTo(k))]

\* A step that leaves replies and their numbers alone leaves the answers alone.
LEMMA SameAnswers ==
    ASSUME HTypeOK, sends' = sends, \A i \in Indices : accepted'[i] = accepted[i]
    PROVE  Answers' = Answers
<1>1. \A a \in DOMAIN sends : sends[a].turn \in Indices
    <2>1. sends \in Seq(Send)
        BY DEF HTypeOK, TablesOK
    <2>2. \A a \in DOMAIN sends : sends[a] \in Send
        BY <2>1
    <2> QED BY <2>2 DEF Send
<1>2. \A a \in DOMAIN sends : KeyOf(sends[a].turn)' = KeyOf(sends[a].turn)
    BY <1>1 DEF KeyOf
<1>3. \A k : RepliesTo(k)' = RepliesTo(k)
    BY <1>2 DEF RepliesTo
<1> QED
    BY <1>3 DEF Answers

\* A reply is the first one for the message of its turn.
LEMMA FirstAnswer ==
    ASSUME HTypeOK, ClaimInv, NEW w \in Workers, pc[w] = "reply", accepted' = accepted,
           NEW d, sends' = Append(sends, [turn |-> running[w], text |-> turn[w].text,
                                          delivered |-> d])
    PROVE  /\ RepliesTo(KeyOf(running[w])) = {}
           /\ Answers' = [Answers EXCEPT ![KeyOf(running[w])] = 1]
<1> DEFINE key == KeyOf(running[w])
           s   == [turn |-> running[w], text |-> turn[w].text, delivered |-> d]
<1>1. RepliesTo(key) = {}
    BY DEF ClaimInv, Unsent, Labels, SentFor, RepliesTo
<1>2. \A i : KeyOf(i)' = KeyOf(i)
    BY DEF KeyOf
<1>3. s.turn = running[w] /\ sends' = Append(sends, s)
    OBVIOUS
<1> HIDE DEF s
<1>4. /\ DOMAIN sends' = DOMAIN sends \cup {Len(sends) + 1}
      /\ Len(sends) + 1 \notin DOMAIN sends
      /\ sends'[Len(sends) + 1] = s
      /\ \A a \in DOMAIN sends : sends'[a] = sends[a]
    BY <1>3 DEF HTypeOK, TablesOK
<1>5. \A a \in DOMAIN sends : KeyOf(sends'[a].turn) = KeyOf(sends[a].turn)
    BY <1>4
<1>6. KeyOf(sends'[Len(sends) + 1].turn) = key
    BY <1>3, <1>4
<1> HIDE DEF key
<1> DEFINE After(k) == {a \in DOMAIN sends' : KeyOf(sends'[a].turn) = k}
<1>7. ASSUME NEW k, k # key PROVE After(k) = RepliesTo(k)
    <2>1. \A a : a \in After(k) <=> a \in DOMAIN sends /\ KeyOf(sends[a].turn) = k
        BY <1>4, <1>5, <1>6, <1>7
    <2> HIDE DEF After
    <2> QED BY <2>1 DEF RepliesTo
<1>8. After(key) = {Len(sends) + 1}
    <2>1. \A a \in DOMAIN sends : KeyOf(sends[a].turn) # key
        BY <1>1 DEF RepliesTo
    <2>2. \A a : a \in After(key) <=> a = Len(sends) + 1
        BY <1>4, <1>5, <1>6, <2>1
    <2> HIDE DEF After
    <2> QED BY <2>2
<1>9. Answers' = [k \in InboxKeys |-> Cardinality(After(k))]
    BY <1>2 DEF Answers, InboxKeys, RepliesTo, KeyOf
<1> HIDE DEF After
<1>10. Cardinality(After(key)) = 1
    BY <1>8, FS_Singleton
<1>11. \A k : k # key => Cardinality(After(k)) = Cardinality(RepliesTo(k))
    BY <1>7
<1>12. Answers' = [Answers EXCEPT ![key] = 1]
    BY <1>9, <1>10, <1>11 DEF Answers
<1> QED
    BY <1>1, <1>12 DEF key

\* Every step of the pipeline is a step of the inbox, or none.
LEMMA InboxStep ==
    ASSUME PoolInv, HTypeOK, ClaimInv, [PoolNext]_poolVars, [HNext]_hVars
    PROVE  \/ \E k \in InboxKeys :
                 \/ /\ k \notin processed /\ processed' = processed \cup {k}
                    /\ Answers' = Answers
                 \/ /\ k \in processed /\ Answers[k] = 0
                    /\ Answers' = [Answers EXCEPT ![k] = 1]
                    /\ processed' = processed
           \/ processed' = processed /\ Answers' = Answers
<1>1. \A i \in Indices : accepted'[i] = accepted[i]
    BY NumbersKeep
<1>2. pc \in [Workers -> Labels] /\ running \in [Workers -> Nat] /\ TurnsOK
      /\ accepted \in Seq(Inbounds)
    BY DEF HTypeOK, TurnsOK, PoolTypeOK
<1>3. CASE \E w \in Workers : Step(w)
    <2>1. PICK w \in Workers : Step(w)
        BY <1>3
    <2>2. accepted' = accepted /\ (Claims(w) \/ Works(w))
        BY <1>2, <2>1, StepIsClaimOrWork
    <2> DEFINE key == KeyOf(running[w])
    <2>3. pc[w] # "idle"
        BY <2>2 DEF Claims, Works
    <2>4. running[w] \in Indices
        BY <2>3, TurnHasMessage
    <2>5. key \in InboxKeys
        <3>1. accepted[running[w]] \in Inbounds
            BY <1>2, <2>4 DEF Indices
        <3> QED BY <3>1 DEF KeyOf, InboxKeys
    <2>6. CASE sends' = sends
        <3>1. Answers' = Answers
            BY <1>1, <2>6, SameAnswers
        <3>2. processed' \in {processed, processed \cup {key}}
            BY <2>2 DEF Claims, Works
        <3> HIDE DEF key
        <3> QED
            BY <2>5, <3>1, <3>2
    <2>7. CASE sends' # sends
        <3>1. Works(w)
            BY <2>2, <2>7 DEF Claims
        <3>2. /\ processed' = processed /\ pc[w] = "reply"
              /\ \E d : sends' = Append(sends, [turn |-> running[w], text |-> turn[w].text,
                                                delivered |-> d])
            BY <2>7, <3>1 DEF Works
        <3>3. RepliesTo(key) = {} /\ Answers' = [Answers EXCEPT ![key] = 1]
            BY <2>2, <3>2, FirstAnswer
        <3>4. key \in processed
            BY <3>2 DEF ClaimInv, Owns
        <3>5. Answers[key] = 0
            BY <2>5, <3>3, FS_EmptySet DEF Answers
        <3> HIDE DEF key
        <3> QED
            BY <2>5, <3>2, <3>3, <3>4, <3>5
    <2> QED BY <2>6, <2>7
<1>4. CASE ~\E w \in Workers : Step(w)
    <2>1. processed' = processed /\ sends' = sends
        BY <1>4 DEF HNext, Begin, Expire, HHalt, Outside, hVars, tables
    <2> QED
        BY <1>1, <2>1, SameAnswers
<1> QED
    BY <1>3, <1>4

\* The pipeline implements the inbox: a message is claimed once, for good, and
\* answered at most once, by the turn that claimed it.
THEOREM HarnessIsInbox == HSpec => ImplementsInbox
<1>1. HInit => HInbox!InboxInit
    <2> SUFFICES ASSUME HInit PROVE HInbox!InboxInit
        OBVIOUS
    <2>1. processed = {} /\ sends = <<>>
        BY DEF HInit
    <2>2. \A k : {a \in DOMAIN sends : KeyOf(sends[a].turn) = k} = {}
        BY <2>1
    <2> QED
        BY <2>1, <2>2, FS_EmptySet DEF HInbox!InboxInit
<1>2. ASSUME PoolInv, HTypeOK, ClaimInv, [PoolNext]_poolVars, [HNext]_hVars
      PROVE  [HInbox!InboxNext]_HInbox!inboxVars
    BY <1>2, InboxStep DEF HInbox!InboxNext, HInbox!Claim, HInbox!Answer, HInbox!inboxVars,
                           Answers, RepliesTo, InboxKeys
<1>3. HSpec => []PoolInv /\ [][PoolNext]_poolVars
    BY HarnessIsPool, PoolInvariant, PTL DEF PoolSpec
<1> QED
    BY <1>1, <1>2, <1>3, HTypeCorrect, ClaimInvariant, PTL
    DEF HSpec, ImplementsInbox, HInbox!InboxSpec
==============================================================================
