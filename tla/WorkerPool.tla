------------------------------ MODULE WorkerPool ------------------------------
(***************************************************************************)
(* The worker pool of internal/harness/workers.go, from the event handler  *)
(* that feeds it (wa.Manager.onMessage, Harness.Enqueue) to the process    *)
(* that starts, cancels and ends it (cmd/harness/main.go).                 *)
(*                                                                         *)
(* `accepted' numbers the messages the pool took, in the order it took     *)
(* them, over every life of the process; queues and workers hold these     *)
(* numbers.  It is a history variable: the process keeps only the queues.  *)
(***************************************************************************)
EXTENDS Integers, Sequences, Inbound

CONSTANTS Events,           \* the WhatsApp events that may arrive
          WorkerCount,      \* WORKER_COUNT
          WorkerQueueSize,  \* WORKER_QUEUE_SIZE
          HashSize,         \* hash values are 0 .. HashSize-1 (2^32 in Go)
          IntMax,           \* largest int of the build (2^31-1 or 2^63-1)
          Sum32,            \* lane key -> hash value
          MaxAccepted,      \* bound: deliveries the pool takes, in all lives
          MaxBoots,         \* bound: lives of the process
          Faults            \* what may go wrong: "stop", "crash", ...

Inbounds == {InboundOf(e) : e \in {f \in Events : ~Ignored(f)}}

\* company|chat, the bytes that dispatch hashes.
LaneKey(m) == <<m.company, m.chat>>

ASSUME PoolAssumption ==
    /\ WorkerCount \in Int /\ WorkerQueueSize \in Int
    /\ HashSize \in Nat \ {0} /\ IntMax \in Nat
    /\ 2 * IntMax + 2 >= HashSize
    /\ \A m \in Inbounds : Sum32[LaneKey(m)] \in 0 .. HashSize - 1
    /\ MaxAccepted \in Nat /\ MaxBoots \in Nat

AtLeastOne(n) == IF n < 1 THEN 1 ELSE n

NumWorkers == AtLeastOne(WorkerCount)
QueueSize  == AtLeastOne(WorkerQueueSize)
Workers    == 0 .. NumWorkers - 1

\* int(u) of an unsigned hash value: it wraps where int is too narrow.
ToInt(u) == IF u <= IntMax THEN u ELSE u - 2 * (IntMax + 1)

\* Go's %: the sign of the dividend.
Rem(a, b) == IF a >= 0 THEN a % b ELSE -((-a) % b)

VARIABLES phase,     \* "running", "cancelled", "disconnected" or "down"
          boots,     \* lives of the process so far
          accepted,  \* history: the inbounds the pool took, numbered
          booted,    \* history: Len(accepted) when this life began
          queues,    \* [Workers -> Seq(numbers)]
          running,   \* [Workers -> the number in process, or Idle]
          exited,    \* workers whose goroutine has returned
          handled,   \* history: numbers whose process() call returned
          unrouted   \* history: inbounds whose index was out of range

poolVars == <<phase, boots, accepted, booted, queues, running, exited,
              handled, unrouted>>

\* Mutant: the next worker in turn, whatever the chat.
RoundRobin(m) == Rem(Len(accepted), NumWorkers)

\* Mutant: the hash is not reduced.
IndexUnreduced(m) == ToInt(Sum32[LaneKey(m)])

WorkerIndex(m) == Rem(ToInt(Sum32[LaneKey(m)]), NumWorkers)

Idle == 0
Up   == phase # "down"

Indices == 1 .. Len(accepted)

PoolInit == /\ phase = "running"
            /\ boots = 1
            /\ accepted = <<>>
            /\ booted = 0
            /\ queues = [w \in Workers |-> <<>>]
            /\ running = [w \in Workers |-> Idle]
            /\ exited = {}
            /\ handled = {}
            /\ unrouted = {}

-----------------------------------------------------------------------------
\* Mutant: the capacity of the queue is not checked.
TrueUnbounded(m, w) ==
    /\ accepted' = Append(accepted, m)
    /\ queues' = [queues EXCEPT ![w] = Append(@, Len(accepted) + 1)]
    /\ UNCHANGED unrouted

\* The non-blocking send took the message.
DispatchTrue(m, w) ==
    /\ Len(queues[w]) < QueueSize
    /\ accepted' = Append(accepted, m)
    /\ queues' = [queues EXCEPT ![w] = Append(@, Len(accepted) + 1)]
    /\ UNCHANGED unrouted

\* The queue is full: the message is logged and dropped.
DispatchFalse(w) ==
    /\ Len(queues[w]) >= QueueSize
    /\ UNCHANGED <<accepted, queues, unrouted>>

\* p.queues[negative]: the handler panics and the message goes nowhere.
DispatchPanics(m) ==
    /\ WorkerIndex(m) \notin Workers
    /\ unrouted' = unrouted \cup {m}
    /\ UNCHANGED <<accepted, queues>>

Dispatch(m) ==
    \/ \E w \in {WorkerIndex(m)} \cap Workers : DispatchTrue(m, w) \/ DispatchFalse(w)
    \/ DispatchPanics(m)

\* An event arrives on a connected client.  An ignored one changes nothing.
OnMessage(e) ==
    /\ phase \in {"running", "cancelled"}
    /\ Len(accepted) < MaxAccepted
    /\ ~Ignored(e)
    /\ Dispatch(InboundOf(e))
    /\ UNCHANGED <<phase, boots, booted, running, exited, handled>>

\* Mutant: the newest message first.
ReceiveNewest(w) ==
    /\ Up /\ w \notin exited
    /\ running[w] = Idle
    /\ queues[w] # <<>>
    /\ running' = [running EXCEPT ![w] = queues[w][Len(queues[w])]]
    /\ queues'  = [queues EXCEPT ![w] = SubSeq(@, 1, Len(@) - 1)]
    /\ UNCHANGED <<phase, boots, accepted, booted, exited, handled, unrouted>>

\* Mutant: the context is looked at only after a message was taken.
ReceiveThenGiveUp(w) ==
    /\ Up /\ w \notin exited
    /\ running[w] = Idle
    /\ queues[w] # <<>>
    /\ running' = IF phase = "running" THEN [running EXCEPT ![w] = Head(queues[w])]
                                      ELSE running
    /\ queues'  = [queues EXCEPT ![w] = Tail(@)]
    /\ UNCHANGED <<phase, boots, accepted, booted, exited, handled, unrouted>>

\* Both cases of a worker's select may be ready: Go picks one at random.
Receive(w) ==
    /\ Up /\ w \notin exited
    /\ running[w] = Idle
    /\ queues[w] # <<>>
    /\ running' = [running EXCEPT ![w] = Head(queues[w])]
    /\ queues'  = [queues EXCEPT ![w] = Tail(@)]
    /\ UNCHANGED <<phase, boots, accepted, booted, exited, handled, unrouted>>

\* Mutant: a worker learns of the cancellation only from a new message.
ExitOnMessage(w) ==
    /\ phase \in {"cancelled", "disconnected"} /\ w \notin exited
    /\ running[w] = Idle
    /\ queues[w] # <<>>
    /\ exited' = exited \cup {w}
    /\ UNCHANGED <<phase, boots, accepted, booted, queues, running, handled, unrouted>>

Exit(w) ==
    /\ phase \in {"cancelled", "disconnected"} /\ w \notin exited
    /\ running[w] = Idle
    /\ exited' = exited \cup {w}
    /\ UNCHANGED <<phase, boots, accepted, booted, queues, running, handled, unrouted>>

\* Mutant: the loop around the select is missing.
FinishAndLeave(w) ==
    /\ Up /\ running[w] # Idle
    /\ handled' = handled \cup {running[w]}
    /\ running' = [running EXCEPT ![w] = Idle]
    /\ exited' = exited \cup {w}
    /\ UNCHANGED <<phase, boots, accepted, booted, queues, unrouted>>

\* process(ctx, msg) returns; it always does, its context has a deadline.
Finish(w) ==
    /\ Up /\ running[w] # Idle
    /\ handled' = handled \cup {running[w]}
    /\ running' = [running EXCEPT ![w] = Idle]
    /\ UNCHANGED <<phase, boots, accepted, booted, queues, exited, unrouted>>

-----------------------------------------------------------------------------
\* SIGINT or SIGTERM.
Cancel ==
    /\ "stop" \in Faults
    /\ phase = "running"
    /\ phase' = "cancelled"
    /\ UNCHANGED <<boots, accepted, booted, queues, running, exited, handled, unrouted>>

\* mgr.Stop() after the signal.
Disconnect ==
    /\ phase = "cancelled"
    /\ phase' = "disconnected"
    /\ UNCHANGED <<boots, accepted, booted, queues, running, exited, handled, unrouted>>

\* The process ends: run() returns without waiting for the workers, or it is
\* killed.  Queues and turns in progress are gone.
Halt ==
    /\ \/ phase = "disconnected"
       \/ Up /\ "crash" \in Faults
    /\ phase' = "down"
    /\ queues' = [w \in Workers |-> <<>>]
    /\ running' = [w \in Workers |-> Idle]
    /\ UNCHANGED <<boots, accepted, booted, exited, handled, unrouted>>

\* h.Start, then mgr.Start.
Boot ==
    /\ phase = "down" /\ boots < MaxBoots
    /\ phase' = "running"
    /\ boots' = boots + 1
    /\ booted' = Len(accepted)
    /\ exited' = {}
    /\ UNCHANGED <<accepted, queues, running, handled, unrouted>>

PoolNext == \/ \E e \in Events : OnMessage(e)
            \/ \E w \in Workers : Receive(w) \/ Finish(w) \/ Exit(w)
            \/ Cancel \/ Disconnect \/ Halt \/ Boot

PoolSpec == PoolInit /\ [][PoolNext]_poolVars

\* Goroutines are scheduled; a turn ends by its deadline at the latest; a
\* worker that is infinitely often between two messages of a cancelled pool
\* takes the ctx.Done() case in the end (the choice is uniform): SF.
PoolFairness == \A w \in Workers : /\ WF_poolVars(Receive(w))
                                   /\ WF_poolVars(Finish(w))
                                   /\ SF_poolVars(Exit(w))

FairPoolSpec == PoolSpec /\ PoolFairness

-----------------------------------------------------------------------------
\* Type of the pool's state.
PoolTypeOK ==
    /\ phase \in {"running", "cancelled", "disconnected", "down"}
    /\ boots \in 0 .. MaxBoots + 1
    /\ accepted \in Seq(Inbounds)
    /\ booted \in 0 .. Len(accepted)
    /\ queues \in [Workers -> Seq(Nat \ {Idle})]
    /\ \A w \in Workers : Len(queues[w]) <= QueueSize
    /\ running \in [Workers -> Nat]
    /\ exited \subseteq Workers
    /\ handled \subseteq Indices
    /\ unrouted \subseteq Inbounds

SameLane(i, j) == LaneKey(accepted[i]) = LaneKey(accepted[j])

Running == {running[w] : w \in Workers} \ {Idle}

Queued == UNION {{queues[w][p] : p \in 1 .. Len(queues[w])} : w \in Workers}

\* "messages for the same (company, chat) always hash to the same worker and
\* are processed in order" (workers.go:9): process() never runs for two
\* messages of one chat at once.
SerialLanes ==
    \A v, w \in Workers :
        v # w /\ running[v] # Idle /\ running[w] # Idle
            => ~SameLane(running[v], running[w])

\* The other half: a message is begun only after every earlier message of its
\* chat that this life of the process took has been handled to the end.
ProcessedInOrder ==
    \A j \in handled \cup Running : \A i \in booted + 1 .. j - 1 :
        SameLane(i, j) => i \in handled

\* A message the pool answered "true" for is in exactly one place: waiting,
\* in process, or handled.  Enqueue's result is never a promise then broken
\* while the process lives.
Accounted ==
    Up => \A i \in booted + 1 .. Len(accepted) :
            \/ i \in Queued  /\ i \notin Running \cup handled
            \/ i \in Running /\ i \notin Queued \cup handled
            \/ i \in handled /\ i \notin Queued \cup Running

\* Every message the pool took is handled, unless the process is told to stop
\* or dies (fairness of the workers only).
EveryAcceptedHandled ==
    \A i \in 1 .. MaxAccepted :
        i \in Indices ~> i \in handled \/ phase # "running" \/ booted >= i

\* "Workers stop when ctx is canceled" (harness.go:67), even if messages
\* arrive until the clients disconnect.
WorkersStop == phase = "cancelled" ~> exited = Workers \/ phase = "down"

-----------------------------------------------------------------------------
\* The pool implements the lanes it promises.  A lane waits in its worker's
\* queue, between messages of other lanes; a queue is in the order of its numbers.
LaneKeys == {LaneKey(m) : m \in Inbounds}

WaitingIn(k) == {i \in Queued : LaneKey(accepted[i]) = k}

ActiveIn(k) ==
    LET mine == {i \in Running : LaneKey(accepted[i]) = k}
    IN  IF mine = {} THEN Idle ELSE CHOOSE i \in mine : TRUE

PoolLanes == INSTANCE Lanes WITH
    Keys    <- LaneKeys,
    Ids     <- 1 .. MaxAccepted,
    waiting <- [k \in LaneKeys |-> WaitingIn(k)],
    active  <- [k \in LaneKeys |-> ActiveIn(k)]

\* Every behaviour of the pool is a behaviour of independent serial lanes.
ImplementsLanes == PoolLanes!LanesSpec

-----------------------------------------------------------------------------
\* Every message the handler passes on has a worker (workers.go:9: "always
\* hash to the same worker"), unless its hash is beyond the largest int, where
\* the index may be negative: no build with a 64-bit int loses one.
RoutedUnlessOverflow == \A m \in unrouted : Sum32[LaneKey(m)] > IntMax

\* "a single conversation is always processed in order" (docs/DESIGN.md): no
\* two workers process messages of one conversations row at once.
ConversationSerial ==
    \A v, w \in Workers :
        v # w /\ running[v] # Idle /\ running[w] # Idle
            => ConversationOf(accepted[running[v]]) # ConversationOf(accepted[running[w]])
==============================================================================
