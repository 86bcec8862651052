--------------------------- MODULE WorkerPoolProofs ---------------------------
(***************************************************************************)
(* Theorems about WorkerPool, for every number of workers, queue size,     *)
(* hash function, width of int and set of events.                          *)
(***************************************************************************)
EXTENDS WorkerPool, TLAPS

\* The numbers this life of the process has accepted.
Current == booted + 1 .. Len(accepted)

\* What a queue holds was accepted in this life, for this worker, and is not
\* handled yet.
QueuedInLane ==
    \A w \in Workers : \A p \in 1 .. Len(queues[w]) :
        /\ queues[w][p] \in Current
        /\ WorkerIndex(accepted[queues[w][p]]) = w
        /\ queues[w][p] \notin handled

\* So was what a worker processes.
RunningInLane ==
    \A w \in Workers : running[w] # Idle =>
        /\ running[w] \in Current
        /\ WorkerIndex(accepted[running[w]]) = w
        /\ running[w] \notin handled

\* A queue holds its messages in the order they were accepted, the one in
\* process before all of them.
QueueSorted ==
    \A w \in Workers :
        /\ \A p, q \in 1 .. Len(queues[w]) : p < q => queues[w][p] < queues[w][q]
        /\ running[w] # Idle => \A p \in 1 .. Len(queues[w]) : running[w] < queues[w][p]

\* No message is nowhere.
Pending ==
    Up => \A i \in Current :
            \/ i \in handled
            \/ \E w \in Workers : running[w] = i
            \/ \E w \in Workers : \E p \in 1 .. Len(queues[w]) : queues[w][p] = i

DownIsEmpty ==
    ~Up => \A w \in Workers : queues[w] = <<>> /\ running[w] = Idle

\* The inductive invariant: a lane's messages have one worker, whose queue
\* is sorted, so the head of the queue is the oldest message of every lane it
\* holds.
PoolInv == /\ PoolTypeOK
           /\ QueuedInLane
           /\ RunningInLane
           /\ QueueSorted
           /\ Pending
           /\ DownIsEmpty
           /\ ProcessedInOrder

-----------------------------------------------------------------------------
\* newWorkerPool raises both numbers to at least one.
LEMMA WorkersFacts ==
    /\ NumWorkers \in Nat \ {0}
    /\ QueueSize \in Nat \ {0}
    /\ Workers \subseteq Nat
BY PoolAssumption DEF NumWorkers, QueueSize, Workers, AtLeastOne

\* Messages of one lane have one worker.
LEMMA LaneHasOneWorker ==
    ASSUME NEW m, NEW n, LaneKey(m) = LaneKey(n)
    PROVE  WorkerIndex(m) = WorkerIndex(n)
BY DEF WorkerIndex

\* A pool that just started has empty queues.
LEMMA PoolInitInv == PoolInit => PoolInv
<1> SUFFICES ASSUME PoolInit PROVE PoolInv
    OBVIOUS
<1>1. PoolTypeOK
    BY PoolAssumption, WorkersFacts DEF PoolInit, PoolTypeOK, Indices, Idle
<1>2. ProcessedInOrder
    BY DEF PoolInit, ProcessedInOrder, Running, Idle
<1> QED
    BY <1>1, <1>2 DEF PoolInit, PoolInv, QueuedInLane, RunningInLane, QueueSorted,
                      Pending, DownIsEmpty, Current, Up, Idle

\* The messages in process are those some worker has.
LEMMA RunningMember ==
    ASSUME NEW j PROVE j \in Running <=> j # Idle /\ \E w \in Workers : running[w] = j
BY DEF Running

-----------------------------------------------------------------------------
\* dispatch puts a new, hence largest, number at the end of the queue of its worker, or drops it.
LEMMA OnMessageInv ==
    ASSUME PoolInv, NEW e \in Events, OnMessage(e)
    PROVE  PoolInv'
<1> DEFINE m == InboundOf(e)
           n == Len(accepted) + 1
<1> USE PoolAssumption, WorkersFacts
<1>0. m \in Inbounds /\ Up
    BY DEF OnMessage, Inbounds, Up
<1>1. CASE UNCHANGED <<accepted, queues>> /\ unrouted' \in SUBSET Inbounds
    <2>1. UNCHANGED <<phase, boots, accepted, booted, queues, running, exited, handled>>
        BY <1>1 DEF OnMessage
    <2>2. PoolTypeOK'
        BY <1>1, <2>1 DEF PoolInv, PoolTypeOK, Indices
    <2> QED
        BY <2>1, <2>2 DEF PoolInv, QueuedInLane, RunningInLane, QueueSorted, Pending,
            DownIsEmpty, Up, Current, ProcessedInOrder, SameLane, Running
<1>2. ASSUME NEW w \in Workers, w = WorkerIndex(m), DispatchTrue(m, w)
      PROVE  PoolInv'
    <2>1. /\ UNCHANGED <<phase, boots, booted, running, exited, handled, unrouted>>
          /\ accepted' = Append(accepted, m)
          /\ queues' = [queues EXCEPT ![w] = Append(@, n)]
          /\ Len(queues[w]) < QueueSize
        BY <1>2 DEF OnMessage, DispatchTrue
    <2>2. /\ accepted \in Seq(Inbounds) /\ booted \in 0 .. Len(accepted)
          /\ queues \in [Workers -> Seq(Nat \ {Idle})]
          /\ handled \subseteq Indices
          /\ running \in [Workers -> Nat]
          /\ Len(accepted) \in Nat
          /\ \A v \in Workers : Len(queues[v]) \in Nat
        BY DEF PoolInv, PoolTypeOK
    <2>3. /\ accepted' \in Seq(Inbounds) /\ Len(accepted') = n /\ n \in Nat \ {Idle}
          /\ accepted'[n] = m
          /\ \A i \in Indices : accepted'[i] = accepted[i]
        BY <1>0, <2>1, <2>2 DEF Indices, Idle
    <2>4. /\ queues' \in [Workers -> Seq(Nat \ {Idle})]
          /\ \A v \in Workers \ {w} : queues'[v] = queues[v]
          /\ Len(queues'[w]) = Len(queues[w]) + 1
          /\ queues'[w][Len(queues[w]) + 1] = n
          /\ \A p \in 1 .. Len(queues[w]) : queues'[w][p] = queues[w][p]
        BY <2>1, <2>2, <2>3
    <2>12. \A v \in Workers : \A p \in 1 .. Len(queues[v]) :
              /\ queues[v][p] \in Current'
              /\ WorkerIndex(accepted'[queues[v][p]]) = v
              /\ queues[v][p] \notin handled'
        <3> SUFFICES ASSUME NEW v \in Workers, NEW p \in 1 .. Len(queues[v])
                     PROVE  /\ queues[v][p] \in Current'
                            /\ WorkerIndex(accepted'[queues[v][p]]) = v
                            /\ queues[v][p] \notin handled'
            OBVIOUS
        <3>1. /\ queues[v][p] \in Current
              /\ WorkerIndex(accepted[queues[v][p]]) = v
              /\ queues[v][p] \notin handled
            BY DEF PoolInv, QueuedInLane
        <3>2. queues[v][p] \in Indices
            BY <2>2, <3>1 DEF Current, Indices
        <3> QED
            BY <2>1, <2>2, <2>3, <3>1, <3>2 DEF Current
    <2>5. PoolTypeOK'
        <3>1. \A v \in Workers : Len(queues'[v]) <= QueueSize
            BY <2>1, <2>2, <2>4 DEF PoolInv, PoolTypeOK
        <3>2. booted' \in 0 .. Len(accepted') /\ handled' \subseteq 1 .. Len(accepted')
            BY <2>1, <2>2, <2>3 DEF Indices
        <3>3. /\ phase' \in {"running", "cancelled", "disconnected", "down"}
              /\ boots' \in 0 .. MaxBoots + 1
              /\ running' \in [Workers -> Nat]
              /\ exited' \subseteq Workers
              /\ unrouted' \subseteq Inbounds
            BY <2>1 DEF PoolInv, PoolTypeOK
        <3> QED
            BY <2>3, <2>4, <3>1, <3>2, <3>3 DEF PoolTypeOK, Indices
    <2>6. QueuedInLane'
        <3> SUFFICES ASSUME NEW v \in Workers, NEW p \in 1 .. Len(queues'[v])
                     PROVE  /\ queues'[v][p] \in Current'
                            /\ WorkerIndex(accepted'[queues'[v][p]]) = v
                            /\ queues'[v][p] \notin handled'
            BY DEF QueuedInLane, WorkerIndex
        <3>1. CASE v = w /\ p = Len(queues[w]) + 1
            BY <1>2, <2>1, <2>2, <2>3, <2>4, <3>1 DEF Current, Indices
        <3>2. CASE ~(v = w /\ p = Len(queues[w]) + 1)
            <4>1. CASE v # w
                BY <2>4, <4>1, <2>12
            <4>2. CASE v = w
                <5>1. p \in 1 .. Len(queues[w])
                    BY <2>2, <2>4, <3>2, <4>2
                <5> QED
                    BY <2>4, <4>2, <5>1, <2>12
            <4> QED BY <4>1, <4>2
        <3> QED BY <3>1, <3>2
    <2>7. RunningInLane'
        <3> SUFFICES ASSUME NEW v \in Workers, running[v] # Idle
                     PROVE  /\ running[v] \in Current'
                            /\ WorkerIndex(accepted'[running[v]]) = v
                            /\ running[v] \notin handled'
            BY <2>1 DEF RunningInLane, WorkerIndex
        <3>1. /\ running[v] \in Current
              /\ WorkerIndex(accepted[running[v]]) = v
              /\ running[v] \notin handled
            BY DEF PoolInv, RunningInLane
        <3>2. running[v] \in Indices
            BY <2>2, <3>1 DEF Current, Indices
        <3> QED
            BY <2>1, <2>2, <2>3, <3>1, <3>2 DEF Current
    <2>8. QueueSorted'
        <3> SUFFICES ASSUME NEW v \in Workers
                     PROVE  /\ \A p, q \in 1 .. Len(queues'[v]) :
                                  p < q => queues'[v][p] < queues'[v][q]
                            /\ running'[v] # Idle => \A p \in 1 .. Len(queues'[v]) :
                                  running'[v] < queues'[v][p]
            BY DEF QueueSorted
        <3>1. CASE v # w
            BY <2>1, <2>4, <3>1 DEF PoolInv, QueueSorted
        <3>2. CASE v = w
            <4>1. \A p \in 1 .. Len(queues[w]) : queues[w][p] < n
                BY <2>2 DEF PoolInv, QueuedInLane, Current
            <4>2. running[w] # Idle => running[w] < n
                BY <2>2 DEF PoolInv, RunningInLane, Current
            <4>3. \A p, q \in 1 .. Len(queues[w]) : p < q => queues[w][p] < queues[w][q]
                BY DEF PoolInv, QueueSorted
            <4>4. running[w] # Idle => \A p \in 1 .. Len(queues[w]) : running[w] < queues[w][p]
                BY DEF PoolInv, QueueSorted
            <4>5. \A p \in 1 .. Len(queues'[w]) :
                     p \in 1 .. Len(queues[w]) \/ p = Len(queues[w]) + 1
                BY <2>2, <2>4
            <4>6. \A p, q \in 1 .. Len(queues'[w]) :
                     p < q => queues'[w][p] < queues'[w][q]
                <5> SUFFICES ASSUME NEW p \in 1 .. Len(queues'[w]),
                                    NEW q \in 1 .. Len(queues'[w]), p < q
                             PROVE  queues'[w][p] < queues'[w][q]
                    OBVIOUS
                <5>1. p \in 1 .. Len(queues[w])
                    BY <2>2, <2>4
                <5> QED BY <2>4, <4>1, <4>3, <4>5, <5>1
            <4>7. running'[w] # Idle => \A p \in 1 .. Len(queues'[w]) :
                     running'[w] < queues'[w][p]
                BY <2>1, <2>4, <4>2, <4>4, <4>5
            <4> QED
                BY <3>2, <4>6, <4>7
        <3> QED BY <3>1, <3>2
    <2>9. Pending'
        <3> SUFFICES ASSUME NEW i \in Current'
                     PROVE  \/ i \in handled
                            \/ \E v \in Workers : running[v] = i
                            \/ \E v \in Workers : \E p \in 1 .. Len(queues'[v]) : queues'[v][p] = i
            BY <2>1 DEF Pending, Up
        <3>1. CASE i = n
            <4>1. Len(queues[w]) + 1 \in 1 .. Len(queues'[w])
                BY <2>2, <2>4
            <4> QED
                BY <2>4, <3>1, <4>1
        <3>2. CASE i # n
            <4>1. i \in Current
                BY <2>1, <2>2, <2>3, <3>2 DEF Current
            <4>2. \A v \in Workers : \A p \in 1 .. Len(queues[v]) :
                     /\ p \in 1 .. Len(queues'[v])
                     /\ queues'[v][p] = queues[v][p]
                <5> SUFFICES ASSUME NEW v \in Workers, NEW p \in 1 .. Len(queues[v])
                             PROVE  p \in 1 .. Len(queues'[v]) /\ queues'[v][p] = queues[v][p]
                    OBVIOUS
                <5>1. CASE v = w  BY <2>2, <2>4, <5>1
                <5>2. CASE v # w  BY <2>4, <5>2
                <5> QED BY <5>1, <5>2
            <4>3. \/ i \in handled
                  \/ \E v \in Workers : running[v] = i
                  \/ \E v \in Workers : \E p \in 1 .. Len(queues[v]) : queues[v][p] = i
                BY <1>0, <4>1 DEF PoolInv, Pending
            <4> QED
                BY <4>2, <4>3
        <3> QED BY <3>1, <3>2
    <2>10. DownIsEmpty'
        BY <1>0, <2>1 DEF DownIsEmpty, Up
    <2>11. ProcessedInOrder'
        <3>1. \A j \in handled \cup Running : j \in Indices
            <4>1. handled \subseteq Indices /\ Current \subseteq Indices
                BY <2>2 DEF PoolInv, PoolTypeOK, Current, Indices
            <4>2. \A v \in Workers : running[v] # Idle => running[v] \in Current
                BY DEF PoolInv, RunningInLane
            <4> QED
                BY <4>1, <4>2 DEF Running
        <3>2. handled' = handled /\ Running' = Running /\ booted' = booted
            BY <2>1 DEF Running
        <3> SUFFICES ASSUME NEW j \in handled \cup Running, NEW i \in booted + 1 .. j - 1,
                            LaneKey(accepted'[i]) = LaneKey(accepted'[j])
                     PROVE  i \in handled
            BY <3>2 DEF ProcessedInOrder, SameLane, LaneKey
        <3>3. i \in Indices /\ j \in Indices
            BY <2>2, <3>1 DEF Indices
        <3> QED
            BY <2>3, <3>3 DEF PoolInv, ProcessedInOrder, SameLane
    <2> QED
        BY <2>5, <2>6, <2>7, <2>8, <2>9, <2>10, <2>11 DEF PoolInv
<1> QED
    BY <1>0, <1>1, <1>2 DEF OnMessage, Dispatch, DispatchTrue, DispatchFalse, DispatchPanics,
                            PoolInv, PoolTypeOK

-----------------------------------------------------------------------------
\* A worker takes the head of its own queue.
LEMMA ReceiveInv ==
    ASSUME PoolInv, NEW w \in Workers, Receive(w)
    PROVE  PoolInv'
<1> DEFINE h == queues[w][1]
<1> USE PoolAssumption, WorkersFacts
<1>1. /\ accepted \in Seq(Inbounds) /\ booted \in 0 .. Len(accepted)
      /\ Len(accepted) \in Nat
      /\ queues \in [Workers -> Seq(Nat \ {Idle})]
      /\ running \in [Workers -> Nat]
      /\ handled \subseteq Indices
      /\ \A v \in Workers : Len(queues[v]) \in Nat
    BY DEF PoolInv, PoolTypeOK
<1>2. /\ UNCHANGED <<phase, boots, accepted, booted, exited, handled, unrouted>>
      /\ Up /\ Up' /\ running[w] = Idle
      /\ running' = [running EXCEPT ![w] = h]
      /\ queues' = [queues EXCEPT ![w] = Tail(@)]
      /\ 1 \in 1 .. Len(queues[w])
    BY <1>1 DEF Receive, Up
<1>3. /\ h \in Current /\ h \in Nat \ {Idle}
      /\ WorkerIndex(accepted[h]) = w
      /\ h \notin handled
    BY <1>1, <1>2 DEF PoolInv, QueuedInLane
<1>4. /\ running' \in [Workers -> Nat] /\ running'[w] = h
      /\ \A v \in Workers \ {w} : running'[v] = running[v] /\ queues'[v] = queues[v]
      /\ queues' \in [Workers -> Seq(Nat \ {Idle})]
      /\ Len(queues'[w]) = Len(queues[w]) - 1
      /\ \A p \in 1 .. Len(queues'[w]) :
            /\ queues'[w][p] = queues[w][p + 1]
            /\ p + 1 \in 1 .. Len(queues[w])
    BY <1>1, <1>2, <1>3
<1>5. Current' = Current /\ Indices' = Indices
    BY <1>2 DEF Current, Indices
<1>6. PoolTypeOK'
    <2>1. \A v \in Workers : Len(queues'[v]) <= QueueSize
        <3> SUFFICES ASSUME NEW v \in Workers PROVE Len(queues'[v]) <= QueueSize
            OBVIOUS
        <3>1. Len(queues[v]) <= QueueSize
            BY DEF PoolInv, PoolTypeOK
        <3>2. CASE v = w  BY <1>1, <1>4, <3>1, <3>2
        <3>3. CASE v # w  BY <1>4, <3>1, <3>3
        <3> QED BY <3>2, <3>3
    <2> QED
        BY <1>2, <1>4, <1>5, <2>1 DEF PoolInv, PoolTypeOK
<1>7. QueuedInLane'
    <2> SUFFICES ASSUME NEW v \in Workers, NEW p \in 1 .. Len(queues'[v])
                 PROVE  /\ queues'[v][p] \in Current
                        /\ WorkerIndex(accepted[queues'[v][p]]) = v
                        /\ queues'[v][p] \notin handled
        BY <1>2, <1>5 DEF QueuedInLane, WorkerIndex
    <2>1. CASE v = w
        <3>1. queues'[v][p] = queues[w][p + 1] /\ p + 1 \in 1 .. Len(queues[w])
            BY <1>4, <2>1
        <3>2. \A q \in 1 .. Len(queues[w]) :
                  /\ queues[w][q] \in Current
                  /\ WorkerIndex(accepted[queues[w][q]]) = w
                  /\ queues[w][q] \notin handled
            BY DEF PoolInv, QueuedInLane
        <3> QED
            BY <2>1, <3>1, <3>2
    <2>2. CASE v # w  BY <1>4, <2>2 DEF PoolInv, QueuedInLane
    <2> QED BY <2>1, <2>2
<1>8. RunningInLane'
    <2> SUFFICES ASSUME NEW v \in Workers, running'[v] # Idle
                 PROVE  /\ running'[v] \in Current
                        /\ WorkerIndex(accepted[running'[v]]) = v
                        /\ running'[v] \notin handled
        BY <1>2, <1>5 DEF RunningInLane, WorkerIndex
    <2>1. CASE v = w  BY <1>3, <1>4, <2>1
    <2>2. CASE v # w  BY <1>4, <2>2 DEF PoolInv, RunningInLane
    <2> QED BY <2>1, <2>2
<1>9. QueueSorted'
    <2> SUFFICES ASSUME NEW v \in Workers
                 PROVE  /\ \A p, q \in 1 .. Len(queues'[v]) :
                              p < q => queues'[v][p] < queues'[v][q]
                        /\ running'[v] # Idle => \A p \in 1 .. Len(queues'[v]) :
                              running'[v] < queues'[v][p]
        BY DEF QueueSorted
    <2>1. CASE v # w
        BY <1>4, <2>1 DEF PoolInv, QueueSorted
    <2>2. CASE v = w
        <3>1. \A p, q \in 1 .. Len(queues[w]) : p < q => queues[w][p] < queues[w][q]
            BY DEF PoolInv, QueueSorted
        <3>2. \A p \in 1 .. Len(queues'[w]) : 1 < p + 1
            BY <1>1, <1>4
        <3> QED
            BY <1>1, <1>2, <1>4, <2>2, <3>1, <3>2
    <2> QED BY <2>1, <2>2
<1>10. Pending'
    <2> SUFFICES ASSUME NEW i \in Current, i \notin handled
                 PROVE  \/ \E v \in Workers : running'[v] = i
                        \/ \E v \in Workers : \E p \in 1 .. Len(queues'[v]) : queues'[v][p] = i
        BY <1>2, <1>5 DEF Pending
    <2>1. i # Idle
        BY <1>1 DEF Current, Idle
    <2>2. CASE \E v \in Workers : running[v] = i
        BY <1>2, <1>4, <2>1, <2>2
    <2>3. CASE \E v \in Workers : \E p \in 1 .. Len(queues[v]) : queues[v][p] = i
        <3>1. PICK v \in Workers : \E p \in 1 .. Len(queues[v]) : queues[v][p] = i
            BY <2>3
        <3>2. PICK p \in 1 .. Len(queues[v]) : queues[v][p] = i
            BY <3>1
        <3>3. CASE v # w
            BY <1>4, <3>2, <3>3
        <3>4. CASE v = w /\ p = 1
            BY <1>4, <3>2, <3>4
        <3>5. CASE v = w /\ p # 1
            <4>1. p - 1 \in 1 .. Len(queues'[w]) /\ (p - 1) + 1 = p
                BY <1>1, <1>4, <3>5
            <4> QED
                BY <1>4, <3>2, <3>5, <4>1
        <3> QED BY <3>3, <3>4, <3>5
    <2> QED
        BY <1>2, <2>2, <2>3 DEF PoolInv, Pending
<1>11. DownIsEmpty'
    BY <1>2 DEF DownIsEmpty
<1>12. ProcessedInOrder'
    <2> SUFFICES ASSUME NEW j \in handled \cup Running', NEW i \in booted + 1 .. j - 1,
                        LaneKey(accepted[i]) = LaneKey(accepted[j])
                 PROVE  i \in handled
        BY <1>2 DEF ProcessedInOrder, SameLane, LaneKey
    <2>1. CASE j \in handled \cup Running
        BY <2>1 DEF PoolInv, ProcessedInOrder, SameLane
    <2>2. CASE j \notin handled \cup Running
        \* The message just taken was the oldest one waiting in its lane.
        <3>1. j = h
            <4>1. PICK v \in Workers : running'[v] = j /\ j # Idle
                BY <2>2, RunningMember DEF Running
            <4>2. v = w
                BY <1>4, <2>2, <4>1 DEF Running
            <4> QED
                BY <1>4, <4>1, <4>2
        <3>2. i \in Current /\ i \in Nat /\ i < h
            BY <1>1, <1>3, <3>1 DEF Current
        <3>3. WorkerIndex(accepted[i]) = w
            BY <1>3, <3>1, LaneHasOneWorker
        <3>4. ~ \E v \in Workers : running[v] = i
            <4> SUFFICES ASSUME NEW v \in Workers, running[v] = i PROVE FALSE
                OBVIOUS
            <4>1. i # Idle
                BY <1>1, <3>2 DEF Current, Idle
            <4>2. v = w
                BY <3>3, <4>1 DEF PoolInv, RunningInLane
            <4> QED
                BY <1>2, <4>1, <4>2
        <3>5. ~ \E v \in Workers : \E p \in 1 .. Len(queues[v]) : queues[v][p] = i
            <4> SUFFICES ASSUME NEW v \in Workers, NEW p \in 1 .. Len(queues[v]),
                                queues[v][p] = i
                         PROVE  FALSE
                OBVIOUS
            <4>1. v = w
                BY <3>3 DEF PoolInv, QueuedInLane
            <4>2. p = 1 \/ 1 < p
                BY <1>1
            <4>3. 1 < p => h < i
                BY <1>2, <4>1 DEF PoolInv, QueueSorted
            <4> QED
                BY <1>1, <1>3, <3>2, <4>1, <4>2, <4>3
        <3> QED
            BY <1>2, <3>2, <3>4, <3>5 DEF PoolInv, Pending
    <2> QED BY <2>1, <2>2
<1> QED
    BY <1>6, <1>7, <1>8, <1>9, <1>10, <1>11, <1>12 DEF PoolInv

-----------------------------------------------------------------------------
\* A worker that returns has handled its message.
LEMMA FinishInv ==
    ASSUME PoolInv, NEW w \in Workers, Finish(w)
    PROVE  PoolInv'
<1> USE PoolAssumption, WorkersFacts
<1> DEFINE h == running[w]
<1>1. /\ accepted \in Seq(Inbounds) /\ booted \in 0 .. Len(accepted)
      /\ Len(accepted) \in Nat
      /\ running \in [Workers -> Nat]
      /\ handled \subseteq Indices
    BY DEF PoolInv, PoolTypeOK
<1>2. /\ UNCHANGED <<phase, boots, accepted, booted, queues, exited, unrouted>>
      /\ Up /\ Up' /\ h # Idle
      /\ running' = [running EXCEPT ![w] = Idle]
      /\ handled' = handled \cup {h}
    BY DEF Finish, Up
<1>3. /\ h \in Current /\ WorkerIndex(accepted[h]) = w /\ h \in Indices
    BY <1>1, <1>2 DEF PoolInv, RunningInLane, Current, Indices
<1>4. /\ running' \in [Workers -> Nat] /\ running'[w] = Idle
      /\ \A v \in Workers \ {w} : running'[v] = running[v]
      /\ Current' = Current /\ Indices' = Indices
    BY <1>1, <1>2 DEF Idle, Current, Indices
<1>5. PoolTypeOK'
    BY <1>2, <1>3, <1>4 DEF PoolInv, PoolTypeOK
<1>6. QueuedInLane'
    <2> SUFFICES ASSUME NEW v \in Workers, NEW p \in 1 .. Len(queues[v])
                 PROVE  queues[v][p] # h
        BY <1>2, <1>4 DEF PoolInv, QueuedInLane, WorkerIndex
    <2>1. CASE v = w
        BY <1>1, <1>2, <2>1 DEF PoolInv, QueueSorted
    <2>2. CASE v # w
        BY <1>3, <2>2 DEF PoolInv, QueuedInLane
    <2> QED BY <2>1, <2>2
<1>7. RunningInLane'
    <2> SUFFICES ASSUME NEW v \in Workers \ {w}, running[v] # Idle
                 PROVE  /\ running[v] \in Current
                        /\ WorkerIndex(accepted[running[v]]) = v
                        /\ running[v] \notin handled'
        BY <1>2, <1>4 DEF RunningInLane, WorkerIndex
    <2>1. /\ running[v] \in Current
          /\ WorkerIndex(accepted[running[v]]) = v
          /\ running[v] \notin handled
        BY DEF PoolInv, RunningInLane
    <2> QED
        BY <1>2, <1>3, <2>1
<1>8. QueueSorted'
    BY <1>2, <1>4 DEF PoolInv, QueueSorted
<1>9. Pending'
    BY <1>2, <1>4 DEF PoolInv, Pending
<1>10. DownIsEmpty'
    BY <1>2 DEF DownIsEmpty
<1>11. ProcessedInOrder'
    <2>1. handled' \cup Running' \subseteq handled \cup Running
        BY <1>2, <1>4 DEF Running
    <2> QED
        BY <1>2, <2>1 DEF PoolInv, ProcessedInOrder, SameLane, LaneKey
<1> QED
    BY <1>5, <1>6, <1>7, <1>8, <1>9, <1>10, <1>11 DEF PoolInv

-----------------------------------------------------------------------------
\* Steps that move no message: a worker leaves, the signal, the disconnection.
LEMMA QuietInv ==
    ASSUME PoolInv, PoolTypeOK', Up = Up',
           UNCHANGED <<accepted, booted, queues, running, handled>>
    PROVE  PoolInv'
<1>1. ProcessedInOrder'
    BY DEF PoolInv, ProcessedInOrder, SameLane, LaneKey, Running
<1>2. QueuedInLane' /\ RunningInLane'
    BY DEF PoolInv, QueuedInLane, RunningInLane, Current, WorkerIndex
<1> QED
    BY <1>1, <1>2 DEF PoolInv, QueueSorted, Pending, DownIsEmpty, Current

\* The end of the process and its next start empty the pool's memory.
LEMMA HaltInv ==
    ASSUME PoolInv, Halt PROVE PoolInv'
<1> USE PoolAssumption, WorkersFacts
<1>1. /\ UNCHANGED <<boots, accepted, booted, exited, handled, unrouted>>
      /\ phase' = "down" /\ ~Up'
      /\ queues' = [v \in Workers |-> <<>>]
      /\ running' = [v \in Workers |-> Idle]
    BY DEF Halt, Up
<1>2. \A v \in Workers : queues'[v] = <<>> /\ running'[v] = Idle
    BY <1>1
<1>3. PoolTypeOK'
    BY <1>1 DEF PoolInv, PoolTypeOK, Indices, Idle
<1>4. Running' = {}
    BY <1>2 DEF Running
<1>5. ProcessedInOrder'
    BY <1>1, <1>4 DEF PoolInv, ProcessedInOrder, SameLane, LaneKey
<1> QED
    BY <1>1, <1>2, <1>3, <1>5
       DEF PoolInv, QueuedInLane, RunningInLane, QueueSorted, Pending, DownIsEmpty

\* A new process has a new pool; numbers of former lives are in no place.
LEMMA BootInv ==
    ASSUME PoolInv, Boot PROVE PoolInv'
<1> USE PoolAssumption, WorkersFacts
<1>1. /\ UNCHANGED <<accepted, queues, running, handled, unrouted>>
      /\ phase' = "running" /\ ~Up /\ boots' = boots + 1 /\ boots < MaxBoots
      /\ booted' = Len(accepted) /\ exited' = {}
    BY DEF Boot, Up
<1>2. \A v \in Workers : queues[v] = <<>> /\ running[v] = Idle
    BY <1>1 DEF PoolInv, DownIsEmpty
<1>3. PoolTypeOK'
    BY <1>1 DEF PoolInv, PoolTypeOK, Indices
<1>4. Current' = {}
    BY <1>1 DEF PoolInv, PoolTypeOK, Current
<1>5. ProcessedInOrder'
    <2>1. Running' = {}
        BY <1>1, <1>2 DEF Running
    <2>2. \A j \in handled : j \in 1 .. Len(accepted)
        BY DEF PoolInv, PoolTypeOK, Indices
    <2>3. \A j \in handled : booted' + 1 .. j - 1 = {}
        BY <1>1, <2>2 DEF PoolInv, PoolTypeOK
    <2> QED
        BY <1>1, <2>1, <2>3 DEF ProcessedInOrder
<1> QED
    BY <1>1, <1>2, <1>3, <1>4, <1>5
       DEF PoolInv, QueuedInLane, RunningInLane, QueueSorted, Pending, DownIsEmpty, Up

-----------------------------------------------------------------------------
\* Every reachable state satisfies the inductive invariant.
THEOREM PoolInvariant == PoolSpec => []PoolInv
<1>1. PoolInit => PoolInv
    BY PoolInitInv
<1>2. PoolInv /\ [PoolNext]_poolVars => PoolInv'
    <2> SUFFICES ASSUME PoolInv, [PoolNext]_poolVars PROVE PoolInv'
        OBVIOUS
    <2>1. CASE \E e \in Events : OnMessage(e)
        BY <2>1, OnMessageInv
    <2>2. CASE \E w \in Workers : Receive(w)
        BY <2>2, ReceiveInv
    <2>3. CASE \E w \in Workers : Finish(w)
        BY <2>3, FinishInv
    <2>4. CASE \E w \in Workers : Exit(w)
        <3>1. PoolTypeOK' /\ Up' = Up
            BY <2>4, PoolAssumption DEF Exit, PoolInv, PoolTypeOK, Indices, Up
        <3> QED
            BY <2>4, <3>1, QuietInv DEF Exit
    <2>5. CASE Cancel \/ Disconnect
        <3>1. PoolTypeOK' /\ Up' = Up
            BY <2>5, PoolAssumption DEF Cancel, Disconnect, PoolInv, PoolTypeOK, Indices, Up
        <3> QED
            BY <2>5, <3>1, QuietInv DEF Cancel, Disconnect
    <2>6. CASE Halt
        BY <2>6, HaltInv
    <2>7. CASE Boot
        BY <2>7, BootInv
    <2>8. CASE UNCHANGED poolVars
        <3>1. PoolTypeOK' /\ Up' = Up
            BY <2>8 DEF poolVars, PoolInv, PoolTypeOK, Indices, Up
        <3> QED
            BY <2>8, <3>1, QuietInv DEF poolVars
    <2> QED
        BY <2>1, <2>2, <2>3, <2>4, <2>5, <2>6, <2>7, <2>8 DEF PoolNext
<1> QED
    BY <1>1, <1>2, PTL DEF PoolSpec

\* Type correctness of the pool; in particular no queue outgrows its capacity.
THEOREM PoolTypeCorrect == PoolSpec => []PoolTypeOK
<1>1. PoolInv => PoolTypeOK
    BY DEF PoolInv
<1> QED
    BY <1>1, PoolInvariant, PTL

\* process() never runs for two messages of one (company, chat) at once.
THEOREM SerialLanesTheorem == PoolSpec => []SerialLanes
<1>1. PoolInv => SerialLanes
    BY LaneHasOneWorker DEF PoolInv, RunningInLane, SerialLanes, SameLane
<1> QED
    BY <1>1, PoolInvariant, PTL

\* A chat's messages are handled in the order in which they were accepted.
THEOREM ProcessedInOrderTheorem == PoolSpec => []ProcessedInOrder
<1>1. PoolInv => ProcessedInOrder
    BY DEF PoolInv
<1> QED
    BY <1>1, PoolInvariant, PTL

\* While the process lives, an accepted message is in exactly one place.
THEOREM AccountedTheorem == PoolSpec => []Accounted
<1>1. PoolInv => Accounted
    <2> SUFFICES ASSUME PoolInv, Up, NEW i \in Current
                 PROVE  \/ i \in Queued  /\ i \notin Running \cup handled
                        \/ i \in Running /\ i \notin Queued \cup handled
                        \/ i \in handled /\ i \notin Queued \cup Running
        BY DEF Accounted, Current
    <2>1. i \in Queued \cup Running \cup handled
        <3>1. i # Idle
            BY DEF PoolInv, PoolTypeOK, Current, Idle
        <3> QED
            BY <3>1 DEF PoolInv, Pending, Queued, Running
    <2>2. ~(i \in Queued /\ i \in handled)
        BY DEF PoolInv, QueuedInLane, Queued
    <2>3. ~(i \in Running /\ i \in handled)
        BY DEF PoolInv, RunningInLane, Running
    <2>4. ~(i \in Queued /\ i \in Running)
        <3> SUFFICES ASSUME NEW v \in Workers, NEW p \in 1 .. Len(queues[v]), queues[v][p] = i,
                            NEW w \in Workers, running[w] = i, i # Idle
                     PROVE  FALSE
            BY DEF Queued, Running
        <3>1. v = w
            BY DEF PoolInv, QueuedInLane, RunningInLane
        <3>2. running[w] < queues[w][p]
            BY <3>1 DEF PoolInv, QueueSorted
        <3> QED
            BY <3>1, <3>2 DEF PoolInv, PoolTypeOK
    <2> QED
        BY <2>1, <2>2, <2>3, <2>4
<1> QED
    BY <1>1, PoolInvariant, PTL

\* A message without a worker has a hash that int does not hold, whatever the
\* number of workers and however many lives the process had.
THEOREM RoutedTheorem == PoolSpec => []RoutedUnlessOverflow
<1>1. ASSUME NEW m \in Inbounds, WorkerIndex(m) \notin Workers
      PROVE  Sum32[LaneKey(m)] > IntMax
    <2> DEFINE u == Sum32[LaneKey(m)]
    <2> SUFFICES ASSUME u <= IntMax PROVE FALSE
        BY PoolAssumption
    <2>1. u \in Nat
        BY PoolAssumption
    <2>2. WorkerIndex(m) = u % NumWorkers
        BY <2>1 DEF WorkerIndex, ToInt, Rem
    <2> HIDE DEF u
    <2>3. u % NumWorkers \in 0 .. NumWorkers - 1
        BY <2>1, WorkersFacts
    <2> QED
        BY <1>1, <2>2, <2>3 DEF Workers
<1>2. PoolInit => RoutedUnlessOverflow
    BY DEF PoolInit, RoutedUnlessOverflow
<1>3. RoutedUnlessOverflow /\ [PoolNext]_poolVars => RoutedUnlessOverflow'
    <2> SUFFICES ASSUME RoutedUnlessOverflow, [PoolNext]_poolVars
                 PROVE  RoutedUnlessOverflow'
        OBVIOUS
    <2>1. ASSUME NEW e \in Events, OnMessage(e) PROVE RoutedUnlessOverflow'
        <3>1. InboundOf(e) \in Inbounds
            BY <2>1 DEF OnMessage, Inbounds
        <3> QED
            BY <1>1, <2>1, <3>1 DEF OnMessage, Dispatch, DispatchTrue, DispatchFalse,
                                    DispatchPanics, RoutedUnlessOverflow
    <2> QED
        BY <2>1 DEF PoolNext, Receive, Finish, Exit, Cancel, Disconnect, Halt, Boot,
                    poolVars, RoutedUnlessOverflow
<1> QED
    BY <1>2, <1>3, PTL DEF PoolSpec

-----------------------------------------------------------------------------
\* The refinement of Lanes: a lane waits among the queued messages, and the
\* one in progress is the only one of its lane that a worker has.

\* What is queued stands at some place of some queue.
LEMMA QueuedMember ==
    ASSUME NEW j
    PROVE  j \in Queued <=> \E w \in Workers : \E p \in 1 .. Len(queues[w]) : queues[w][p] = j
BY DEF Queued

\* Of a set with one member at most, the member chosen is that one.
LEMMA ChosenIs ==
    ASSUME NEW S, NEW i \in S, \A j \in S : j = i
    PROVE  S # {} /\ (CHOOSE j \in S : TRUE) = i
OBVIOUS

\* What is queued or in process has its number, and a worker by its lane.
LEMMA LaneFacts ==
    ASSUME PoolInv
    PROVE  /\ Len(accepted) \in Nat
           /\ Queued \subseteq Indices /\ Running \subseteq Indices
           /\ \A w \in Workers : \A p \in 1 .. Len(queues[w]) :
                 WorkerIndex(accepted[queues[w][p]]) = w
           /\ \A w \in Workers : running[w] \in Running =>
                 WorkerIndex(accepted[running[w]]) = w
           /\ \A i, j \in Running : SameLane(i, j) => i = j
<1>1. Len(accepted) \in Nat /\ booted \in 0 .. Len(accepted)
    BY DEF PoolInv, PoolTypeOK
<1>2. Current \subseteq Indices
    BY <1>1 DEF Current, Indices
<1>3. /\ \A w \in Workers : \A p \in 1 .. Len(queues[w]) :
            queues[w][p] \in Current /\ WorkerIndex(accepted[queues[w][p]]) = w
      /\ \A w \in Workers : running[w] # Idle =>
            running[w] \in Current /\ WorkerIndex(accepted[running[w]]) = w
    BY DEF PoolInv, QueuedInLane, RunningInLane
<1>4. \A i, j \in Running : SameLane(i, j) => i = j
    <2> SUFFICES ASSUME NEW v \in Workers, NEW w \in Workers,
                        running[v] # Idle, running[w] # Idle,
                        SameLane(running[v], running[w])
                 PROVE  running[v] = running[w]
        BY RunningMember
    <2>1. WorkerIndex(accepted[running[v]]) = WorkerIndex(accepted[running[w]])
        BY LaneHasOneWorker DEF SameLane
    <2> QED BY <1>3, <2>1
<1>5. Queued \subseteq Indices
    BY <1>2, <1>3, QueuedMember
<1>6. Running \subseteq Indices
    BY <1>2, <1>3, RunningMember
<1> QED BY <1>1, <1>3, <1>4, <1>5, <1>6, RunningMember

\* The message in progress of a lane.
LEMMA ActiveIs ==
    ASSUME PoolInv, NEW k
    PROVE  /\ \A i \in Running : LaneKey(accepted[i]) = k => ActiveIn(k) = i
           /\ (\A i \in Running : LaneKey(accepted[i]) # k) => ActiveIn(k) = Idle
           /\ ActiveIn(k) = Idle \/ (ActiveIn(k) \in Running /\ LaneKey(accepted[ActiveIn(k)]) = k)
<1> DEFINE mine == {i \in Running : LaneKey(accepted[i]) = k}
<1>1. ASSUME NEW i \in Running, LaneKey(accepted[i]) = k PROVE ActiveIn(k) = i
    <2>1. i \in mine /\ \A j \in mine : j = i
        BY <1>1, LaneFacts DEF SameLane
    <2>2. mine # {} /\ (CHOOSE j \in mine : TRUE) = i
        <3> HIDE DEF mine
        <3> QED BY <2>1, ChosenIs
    <2> QED BY <2>2 DEF ActiveIn
<1>2. ASSUME \A i \in Running : LaneKey(accepted[i]) # k PROVE ActiveIn(k) = Idle
    <2>1. mine = {}
        BY <1>2
    <2> QED BY <2>1 DEF ActiveIn
<1> QED BY <1>1, <1>2

\* Nothing moves in the lanes if nothing moves in queues and workers.
LEMMA QuietLanes ==
    ASSUME UNCHANGED <<accepted, queues, running>>
    PROVE  UNCHANGED PoolLanes!laneVars
<1>1. Queued' = Queued /\ Running' = Running
    BY DEF Queued, Running
<1>2. \A k \in LaneKeys : WaitingIn(k)' = WaitingIn(k) /\ ActiveIn(k)' = ActiveIn(k)
    BY <1>1 DEF WaitingIn, ActiveIn, LaneKey
<1>3. LaneKeys' = LaneKeys
    BY DEF LaneKeys, LaneKey, Inbounds
<1> QED BY <1>2, <1>3 DEF PoolLanes!laneVars

\* A message the pool takes is accepted by its lane.
LEMMA AcceptLane ==
    ASSUME PoolInv, NEW m \in Inbounds, NEW w \in Workers, DispatchTrue(m, w),
           Len(accepted) < MaxAccepted, running' = running
    PROVE  PoolLanes!Accept(LaneKey(m), Len(accepted) + 1)
<1> DEFINE n == Len(accepted) + 1
           k == LaneKey(m)
<1>1. /\ accepted \in Seq(Inbounds) /\ Len(accepted) \in Nat
      /\ queues \in [Workers -> Seq(Nat \ {Idle})]
      /\ \A v \in Workers : Len(queues[v]) \in Nat
    BY DEF PoolInv, PoolTypeOK
<1>2. /\ accepted' = Append(accepted, m)
      /\ queues' = [queues EXCEPT ![w] = Append(@, n)]
    BY DEF DispatchTrue
<1>3. accepted'[n] = m /\ \A i \in Indices : accepted'[i] = accepted[i]
    BY <1>1, <1>2 DEF Indices
<1>4. /\ \A v \in Workers \ {w} : queues'[v] = queues[v]
      /\ Len(queues'[w]) = Len(queues[w]) + 1
      /\ queues'[w][Len(queues[w]) + 1] = n
      /\ \A p \in 1 .. Len(queues[w]) : queues'[w][p] = queues[w][p]
    BY <1>1, <1>2, PoolAssumption DEF Idle
<1>5. Queued \subseteq Indices /\ Running \subseteq Indices /\ Running' = Running
    BY LaneFacts DEF Running
<1>6. Queued' = Queued \cup {n}
    <2>1. n \in Queued'
        <3>1. Len(queues[w]) + 1 \in 1 .. Len(queues'[w])
            BY <1>1, <1>4
        <3> QED BY <1>4, <3>1 DEF Queued
    <2>2. ASSUME NEW j \in Queued PROVE j \in Queued'
        <3>1. PICK v \in Workers : \E p \in 1 .. Len(queues[v]) : queues[v][p] = j
            BY QueuedMember
        <3>3. PICK p \in 1 .. Len(queues[v]) : queues[v][p] = j
            BY <3>1
        <3>2. p \in 1 .. Len(queues'[v]) /\ queues'[v][p] = j
            <4>1. CASE v = w  BY <1>1, <1>4, <3>3, <4>1
            <4>2. CASE v # w  BY <1>4, <3>3, <4>2
            <4> QED BY <4>1, <4>2
        <3> QED BY <3>2 DEF Queued
    <2>3. ASSUME NEW j \in Queued', j # n PROVE j \in Queued
        <3>1. PICK v \in Workers : \E p \in 1 .. Len(queues'[v]) : queues'[v][p] = j
            BY <2>3 DEF Queued
        <3>3. PICK p \in 1 .. Len(queues'[v]) : queues'[v][p] = j
            BY <3>1
        <3>2. p \in 1 .. Len(queues[v]) /\ queues[v][p] = j
            <4>1. CASE v = w
                <5>1. p # Len(queues[w]) + 1
                    BY <1>4, <2>3, <3>3, <4>1
                <5>2. p \in 1 .. Len(queues[w])
                    BY <1>1, <1>4, <3>3, <4>1, <5>1
                <5> QED BY <1>4, <3>3, <4>1, <5>2
            <4>2. CASE v # w  BY <1>4, <3>3, <4>2
            <4> QED BY <4>1, <4>2
        <3> QED BY <3>2, QueuedMember
    <2> QED BY <2>1, <2>2, <2>3
<1>7. n \notin Queued /\ n \notin Indices /\ n \in 1 .. MaxAccepted
    BY <1>1, <1>5, PoolAssumption DEF Indices
<1>8. LaneKeys' = LaneKeys /\ k \in LaneKeys
    BY DEF LaneKeys, LaneKey, Inbounds
<1>9. ASSUME NEW l \in LaneKeys
      PROVE  /\ WaitingIn(l)' = IF l = k THEN WaitingIn(l) \cup {n} ELSE WaitingIn(l)
             /\ ActiveIn(l)' = ActiveIn(l)
    <2>3. WaitingIn(l)' = IF l = k THEN WaitingIn(l) \cup {n} ELSE WaitingIn(l)
        <3>1. WaitingIn(l)' = {i \in Queued' : LaneKey(accepted'[i]) = l}
            BY DEF WaitingIn, LaneKey
        <3>2. \A i \in Indices : LaneKey(accepted'[i]) = LaneKey(accepted[i])
            BY <1>3
        <3>3. LaneKey(accepted'[n]) = k
            BY <1>3
        <3> HIDE DEF n, k
        <3> QED BY <1>5, <1>6, <1>7, <3>1, <3>2, <3>3 DEF WaitingIn
    <2>4. {i \in Running' : LaneKey(accepted'[i]) = l} = {i \in Running : LaneKey(accepted[i]) = l}
        BY <1>3, <1>5
    <2>5. ActiveIn(l)' = ActiveIn(l)
        <3>1. PICK S : S = {i \in Running : LaneKey(accepted[i]) = l}
            OBVIOUS
        <3>2. ActiveIn(l) = IF S = {} THEN Idle ELSE CHOOSE i \in S : TRUE
            BY <3>1 DEF ActiveIn
        <3>3. ActiveIn(l)' = IF S = {} THEN Idle ELSE CHOOSE i \in S : TRUE
            <4>1. S = {i \in Running' : LaneKey(accepted'[i]) = l}
                BY <2>4, <3>1
            <4> QED BY <4>1 DEF ActiveIn
        <3> QED BY <3>2, <3>3
    <2> QED BY <2>3, <2>5
<1>10. \A j \in WaitingIn(k) \cup {ActiveIn(k)} : j < n
    <2>1. \A j \in Indices : j < n
        BY <1>1 DEF Indices
    <2>2. Idle < n
        BY <1>1 DEF Idle
    <2>3. ActiveIn(k) = Idle \/ ActiveIn(k) \in Running
        BY ActiveIs
    <2> HIDE DEF n, k
    <2> QED BY <1>5, <2>1, <2>2, <2>3 DEF WaitingIn
<1> HIDE DEF n, k
<1>11. [l \in LaneKeys |-> WaitingIn(l)]' = [[l \in LaneKeys |-> WaitingIn(l)] EXCEPT ![k] = @ \cup {n}]
    BY <1>8, <1>9
<1>12. [l \in LaneKeys |-> ActiveIn(l)]' = [l \in LaneKeys |-> ActiveIn(l)]
    BY <1>8, <1>9
<1>13. \A j \in [l \in LaneKeys |-> WaitingIn(l)][k] \cup {[l \in LaneKeys |-> ActiveIn(l)][k]} : j < n
    BY <1>8, <1>10
<1>14. PoolLanes!Accept(k, n)
    BY <1>11, <1>12, <1>13 DEF PoolLanes!Accept
<1> QED BY <1>14 DEF n, k

\* A message a worker takes from its queue is the next one of its lane.
LEMMA BeginLane ==
    ASSUME PoolInv, NEW w \in Workers, Receive(w)
    PROVE  \E k \in LaneKeys : PoolLanes!Begin(k)
<1> DEFINE h == queues[w][1]
           k == LaneKey(accepted[h])
<1>1. /\ accepted \in Seq(Inbounds)
      /\ queues \in [Workers -> Seq(Nat \ {Idle})]
      /\ running \in [Workers -> Nat]
      /\ \A v \in Workers : Len(queues[v]) \in Nat
    BY DEF PoolInv, PoolTypeOK
<1>2. /\ accepted' = accepted /\ running[w] = Idle
      /\ running' = [running EXCEPT ![w] = h]
      /\ queues' = [queues EXCEPT ![w] = Tail(@)]
      /\ 1 \in 1 .. Len(queues[w])
    BY <1>1 DEF Receive
<1>3. /\ h \in Queued /\ h \in Indices /\ h \in Nat \ {Idle}
      /\ WorkerIndex(accepted[h]) = w
    BY <1>1, <1>2, LaneFacts, QueuedMember
<1>4. /\ \A v \in Workers \ {w} : queues'[v] = queues[v] /\ running'[v] = running[v]
      /\ running'[w] = h
      /\ Len(queues'[w]) = Len(queues[w]) - 1
      /\ \A p \in 1 .. Len(queues'[w]) :
            /\ queues'[w][p] = queues[w][p + 1]
            /\ p + 1 \in 1 .. Len(queues[w])
    BY <1>1, <1>2
<1>5. \A p, q \in 1 .. Len(queues[w]) : p < q => queues[w][p] < queues[w][q]
    BY DEF PoolInv, QueueSorted
<1>6. \A v \in Workers : \A p \in 1 .. Len(queues[v]) : queues[v][p] \in Nat
    BY <1>1
<1>7. ASSUME NEW j \in Queued, WorkerIndex(accepted[j]) = w
      PROVE  h <= j /\ \E p \in 1 .. Len(queues[w]) : queues[w][p] = j
    <2>1. PICK v \in Workers : \E p \in 1 .. Len(queues[v]) : queues[v][p] = j
        BY QueuedMember
    <2>2. PICK p \in 1 .. Len(queues[v]) : queues[v][p] = j
        BY <2>1
    <2>3. v = w
        BY <1>7, <2>2, LaneFacts
    <2>4. p = 1 \/ 1 < p
        BY <1>1
    <2> QED BY <1>2, <1>3, <1>5, <1>6, <2>2, <2>3, <2>4
<1>8. Queued' = Queued \ {h}
    <2>1. ASSUME NEW j \in Queued' PROVE j \in Queued /\ j # h
        <3>1. PICK v \in Workers : \E p \in 1 .. Len(queues'[v]) : queues'[v][p] = j
            BY <2>1 DEF Queued
        <3>2. PICK p \in 1 .. Len(queues'[v]) : queues'[v][p] = j
            BY <3>1
        <3>3. CASE v # w
            <4>1. p \in 1 .. Len(queues[v]) /\ queues[v][p] = j
                BY <1>4, <3>2, <3>3
            <4>2. WorkerIndex(accepted[j]) = v
                BY <4>1, LaneFacts
            <4> QED BY <1>3, <3>3, <4>1, <4>2, QueuedMember
        <3>4. CASE v = w
            <4>1. p + 1 \in 1 .. Len(queues[w]) /\ queues[w][p + 1] = j /\ 1 < p + 1
                BY <1>4, <3>2, <3>4
            <4>2. h < j
                BY <1>2, <1>5, <4>1
            <4> QED BY <1>3, <1>6, <4>1, <4>2, QueuedMember
        <3> QED BY <3>3, <3>4
    <2>2. ASSUME NEW j \in Queued, j # h PROVE j \in Queued'
        <3>1. PICK v \in Workers : \E p \in 1 .. Len(queues[v]) : queues[v][p] = j
            BY QueuedMember
        <3>2. PICK p \in 1 .. Len(queues[v]) : queues[v][p] = j
            BY <3>1
        <3>3. CASE v # w
            <4>1. p \in 1 .. Len(queues'[v]) /\ queues'[v][p] = j
                BY <1>4, <3>2, <3>3
            <4> QED BY <4>1 DEF Queued
        <3>4. CASE v = w
            <4>1. p # 1
                BY <2>2, <3>2, <3>4
            <4>2. PICK q \in 1 .. Len(queues'[w]) : p = q + 1
                <5>1. p - 1 \in 1 .. Len(queues'[w]) /\ p = (p - 1) + 1
                    BY <1>1, <1>4, <3>2, <3>4, <4>1
                <5> QED BY <5>1
            <4>3. queues'[w][q] = j
                BY <1>4, <3>2, <3>4, <4>2
            <4> QED BY <4>3 DEF Queued
        <3> QED BY <3>3, <3>4
    <2> QED BY <2>1, <2>2
<1>9. Running' = Running \cup {h}
    BY <1>2, <1>3, <1>4 DEF Running
<1>10. ASSUME NEW j \in Running PROVE LaneKey(accepted[j]) # k
    <2>1. PICK v \in Workers : running[v] = j /\ j # Idle
        BY RunningMember
    <2>2. WorkerIndex(accepted[j]) = v
        BY <2>1, LaneFacts
    <2>3. v # w
        BY <1>2, <2>1
    <2> QED BY <1>3, <2>2, <2>3, LaneHasOneWorker
<1>11. k \in LaneKeys /\ LaneKeys' = LaneKeys
    <2>1. accepted[h] \in Inbounds
        BY <1>1, <1>3 DEF Indices
    <2> QED BY <2>1 DEF LaneKeys, LaneKey, Inbounds
<1>12. ActiveIn(k) = Idle
    BY <1>10, ActiveIs
<1>13. h \in WaitingIn(k) /\ \A j \in WaitingIn(k) : h <= j
    <2>1. ASSUME NEW j \in WaitingIn(k) PROVE h <= j
        <3>1. j \in Queued /\ LaneKey(accepted[j]) = LaneKey(accepted[h])
            BY <2>1 DEF WaitingIn
        <3>2. WorkerIndex(accepted[j]) = w
            BY <1>3, <3>1, LaneHasOneWorker
        <3> QED BY <1>7, <3>1, <3>2
    <2> QED BY <1>3, <2>1 DEF WaitingIn
<1>14. ASSUME NEW l \in LaneKeys
       PROVE  /\ WaitingIn(l)' = IF l = k THEN WaitingIn(l) \ {h} ELSE WaitingIn(l)
              /\ ActiveIn(l)' = IF l = k THEN h ELSE ActiveIn(l)
    <2>1. WaitingIn(l)' = {i \in Queued' : LaneKey(accepted'[i]) = l}
        BY DEF WaitingIn, LaneKey
    <2>2. WaitingIn(l)' = IF l = k THEN WaitingIn(l) \ {h} ELSE WaitingIn(l)
        <3> HIDE DEF h
        <3> QED BY <1>2, <1>8, <2>1 DEF WaitingIn
    <2>3. PICK S : S = {i \in Running : LaneKey(accepted[i]) = l}
        OBVIOUS
    <2>4. ActiveIn(l) = IF S = {} THEN Idle ELSE CHOOSE i \in S : TRUE
        BY <2>3 DEF ActiveIn
    <2>5. PICK T : T = {i \in Running' : LaneKey(accepted'[i]) = l}
        OBVIOUS
    <2>6. ActiveIn(l)' = IF T = {} THEN Idle ELSE CHOOSE i \in T : TRUE
        BY <2>5 DEF ActiveIn
    <2>7. CASE l = k
        <3>1. h \in T /\ \A j \in T : j = h
            BY <1>2, <1>9, <1>10, <2>5, <2>7
        <3>2. T # {} /\ (CHOOSE i \in T : TRUE) = h
            <4> HIDE DEF h
            <4> QED BY <3>1, ChosenIs
        <3> QED BY <2>2, <2>6, <2>7, <3>2
    <2>8. CASE l # k
        <3>1. T = S
            BY <1>2, <1>9, <2>3, <2>5, <2>8
        <3> QED BY <2>2, <2>4, <2>6, <2>8, <3>1
    <2> QED BY <2>7, <2>8
<1> HIDE DEF h, k
<1>15. [l \in LaneKeys |-> WaitingIn(l)]' = [[l \in LaneKeys |-> WaitingIn(l)] EXCEPT ![k] = @ \ {h}]
    BY <1>11, <1>14
<1>16. [l \in LaneKeys |-> ActiveIn(l)]' = [[l \in LaneKeys |-> ActiveIn(l)] EXCEPT ![k] = h]
    BY <1>11, <1>14
<1>17. /\ [l \in LaneKeys |-> ActiveIn(l)][k] = 0
       /\ h \in [l \in LaneKeys |-> WaitingIn(l)][k]
       /\ \A j \in [l \in LaneKeys |-> WaitingIn(l)][k] : h <= j
    BY <1>11, <1>12, <1>13 DEF Idle
<1>18. PoolLanes!Begin(k)
    BY <1>15, <1>16, <1>17 DEF PoolLanes!Begin, PoolLanes!Nobody
<1> QED BY <1>11, <1>18

\* A turn that ends frees its lane.
LEMMA EndLane ==
    ASSUME PoolInv, NEW w \in Workers, Finish(w)
    PROVE  \E k \in LaneKeys : PoolLanes!End(k)
<1> DEFINE h == running[w]
           k == LaneKey(accepted[h])
<1>1. /\ accepted \in Seq(Inbounds)
      /\ running \in [Workers -> Nat]
      /\ UNCHANGED <<accepted, queues>>
      /\ h # Idle /\ running' = [running EXCEPT ![w] = Idle]
    BY DEF PoolInv, PoolTypeOK, Finish
<1>2. h \in Running /\ h \in Indices /\ WorkerIndex(accepted[h]) = w
    BY <1>1, LaneFacts, RunningMember
<1>3. Running' = Running \ {h}
    <2>1. ASSUME NEW v \in Workers, v # w, running[v] # Idle PROVE running[v] # h
        <3>1. running[v] \in Running
            BY <2>1, RunningMember
        <3> QED BY <1>2, <2>1, <3>1, LaneFacts
    <2>2. running'[w] = Idle /\ \A v \in Workers \ {w} : running'[v] = running[v]
        BY <1>1
    <2> QED BY <2>1, <2>2 DEF Running
<1>4. Queued' = Queued
    BY <1>1 DEF Queued
<1>5. \A j \in Running : LaneKey(accepted[j]) = k => j = h
    BY <1>2, LaneFacts DEF SameLane
<1>6. k \in LaneKeys /\ LaneKeys' = LaneKeys
    <2>1. accepted[h] \in Inbounds
        BY <1>1, <1>2 DEF Indices
    <2> QED BY <2>1 DEF LaneKeys, LaneKey, Inbounds
<1>7. ActiveIn(k) = h
    BY <1>2, ActiveIs
<1>8. ASSUME NEW l \in LaneKeys
      PROVE  /\ WaitingIn(l)' = WaitingIn(l)
             /\ ActiveIn(l)' = IF l = k THEN Idle ELSE ActiveIn(l)
    <2>1. WaitingIn(l)' = WaitingIn(l)
        BY <1>1, <1>4 DEF WaitingIn, LaneKey
    <2>2. PICK S : S = {i \in Running : LaneKey(accepted[i]) = l}
        OBVIOUS
    <2>3. ActiveIn(l) = IF S = {} THEN Idle ELSE CHOOSE i \in S : TRUE
        BY <2>2 DEF ActiveIn
    <2>4. PICK T : T = {i \in Running' : LaneKey(accepted'[i]) = l}
        OBVIOUS
    <2>5. ActiveIn(l)' = IF T = {} THEN Idle ELSE CHOOSE i \in T : TRUE
        BY <2>4 DEF ActiveIn
    <2>6. CASE l = k
        <3>1. T = {}
            BY <1>1, <1>3, <1>5, <2>4, <2>6
        <3> QED BY <2>1, <2>5, <2>6, <3>1
    <2>7. CASE l # k
        <3>1. T = S
            BY <1>1, <1>3, <2>2, <2>4, <2>7
        <3> QED BY <2>1, <2>3, <2>5, <2>7, <3>1
    <2> QED BY <2>6, <2>7
<1> HIDE DEF h, k
<1>9. [l \in LaneKeys |-> WaitingIn(l)]' = [l \in LaneKeys |-> WaitingIn(l)]
    BY <1>6, <1>8
<1>10. [l \in LaneKeys |-> ActiveIn(l)]' = [[l \in LaneKeys |-> ActiveIn(l)] EXCEPT ![k] = Idle]
    BY <1>6, <1>8
<1>11. [l \in LaneKeys |-> ActiveIn(l)][k] # 0
    BY <1>1, <1>6, <1>7 DEF Idle
<1>12. PoolLanes!End(k)
    BY <1>9, <1>10, <1>11 DEF PoolLanes!End, PoolLanes!Nobody, Idle
<1> QED BY <1>6, <1>12

\* With no message in memory every lane is empty.
LEMMA EmptyLanes ==
    ASSUME Queued = {}, Running = {}
    PROVE  /\ [l \in LaneKeys |-> WaitingIn(l)] = [l \in LaneKeys |-> {}]
           /\ [l \in LaneKeys |-> ActiveIn(l)] = [l \in LaneKeys |-> Idle]
<1>1. ASSUME NEW l PROVE WaitingIn(l) = {} /\ ActiveIn(l) = Idle
    BY DEF WaitingIn, ActiveIn
<1> QED BY <1>1

\* The end of a process loses what its lanes held.
LEMMA LoseLanes ==
    ASSUME PoolInv, Halt
    PROVE  PoolLanes!Lose
<1>1. /\ queues' = [w \in Workers |-> <<>>]
      /\ running' = [w \in Workers |-> Idle]
    BY DEF Halt
<1>2. Queued' = {} /\ Running' = {}
    BY <1>1 DEF Queued, Running
<1>3. \A l : WaitingIn(l)' = {} /\ ActiveIn(l)' = Idle
    BY <1>2 DEF WaitingIn, ActiveIn
<1>4. LaneKeys' = LaneKeys
    BY DEF LaneKeys, LaneKey, Inbounds
<1> QED BY <1>3, <1>4 DEF PoolLanes!Lose, PoolLanes!Nobody, Idle

\* ImplementsLanes: the pool, its workers, queues, full queues, signal, crashes
\* and restarts are a behaviour of independent serial lanes, each of which takes
\* its messages in the order in which they were accepted.
THEOREM LanesTheorem == PoolSpec => ImplementsLanes
<1>1. PoolInit => PoolLanes!LanesInit
    <2> SUFFICES ASSUME PoolInit PROVE PoolLanes!LanesInit
        OBVIOUS
    <2>1. Queued = {} /\ Running = {}
        BY DEF PoolInit, Queued, Running
    <2> QED BY <2>1, EmptyLanes DEF PoolLanes!LanesInit, PoolLanes!Nobody, Idle
<1>2. PoolInv /\ [PoolNext]_poolVars => [PoolLanes!LanesNext]_(PoolLanes!laneVars)
    <2> SUFFICES ASSUME PoolInv, [PoolNext]_poolVars
                 PROVE  PoolLanes!LanesNext \/ UNCHANGED PoolLanes!laneVars
        OBVIOUS
    <2>1. ASSUME NEW e \in Events, OnMessage(e)
          PROVE  PoolLanes!LanesNext \/ UNCHANGED PoolLanes!laneVars
        <3> DEFINE m == InboundOf(e)
        <3>1. /\ m \in Inbounds /\ Len(accepted) < MaxAccepted /\ running' = running
              /\ Dispatch(m)
            BY <2>1 DEF OnMessage, Inbounds
        <3> HIDE DEF m
        <3>2. ASSUME NEW w \in Workers, DispatchTrue(m, w)
              PROVE  PoolLanes!LanesNext
            <4>1. PoolLanes!Accept(LaneKey(m), Len(accepted) + 1)
                BY <3>1, <3>2, AcceptLane
            <4>2. LaneKey(m) \in LaneKeys /\ Len(accepted) + 1 \in 1 .. MaxAccepted
                <5>1. Len(accepted) \in Nat
                    BY LaneFacts
                <5> QED BY <3>1, <5>1, PoolAssumption DEF LaneKeys
            <4> QED BY <4>1, <4>2 DEF PoolLanes!LanesNext
        <3>3. CASE UNCHANGED <<accepted, queues>>
            BY <3>1, <3>3, QuietLanes
        <3> QED BY <3>1, <3>2, <3>3 DEF Dispatch, DispatchFalse, DispatchPanics
    <2>2. ASSUME NEW w \in Workers, Receive(w) PROVE PoolLanes!LanesNext
        BY <2>2, BeginLane DEF PoolLanes!LanesNext
    <2>3. ASSUME NEW w \in Workers, Finish(w) PROVE PoolLanes!LanesNext
        BY <2>3, EndLane DEF PoolLanes!LanesNext
    <2>4. CASE Halt
        BY <2>4, LoseLanes DEF PoolLanes!LanesNext
    <2>5. CASE (\E w \in Workers : Exit(w)) \/ Cancel \/ Disconnect \/ Boot \/ UNCHANGED poolVars
        <3>1. UNCHANGED <<accepted, queues, running>>
            BY <2>5 DEF Exit, Cancel, Disconnect, Boot, poolVars
        <3> QED BY <3>1, QuietLanes
    <2> QED BY <2>1, <2>2, <2>3, <2>4, <2>5 DEF PoolNext
<1> QED BY <1>1, <1>2, PoolInvariant, PTL DEF PoolSpec, ImplementsLanes, PoolLanes!LanesSpec
==============================================================================
