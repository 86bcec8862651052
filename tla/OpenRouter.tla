------------------------------ MODULE OpenRouter ------------------------------
(***************************************************************************)
(* One call of OpenRouterClient.Complete (internal/llm/openrouter.go): its *)
(* attempts, the waits between them, the timeout of each request and the   *)
(* context of the turn, which ends at a deadline or is cancelled.          *)
(*                                                                         *)
(* `now' is the time since the call began, in clock units.  An action that *)
(* takes time sets it to the instant at which it ends.                     *)
(***************************************************************************)
EXTENDS OpenRouterWire

CONSTANTS MaxAttempts,      \* LLM_MAX_ATTEMPTS
          RequestTimeout,   \* Timeout of the HTTP client
          Deadline,         \* when the context of the turn expires
          Second,           \* clock units in a second
          DurationMax,      \* largest time.Duration (2^63-1 ns), in clock units
          Replies,          \* [status, retryAfter, large, body] a request may get
          Faults            \* "transport": requests fail; "cancel": SIGTERM

\* A Retry-After header: form "none", "seconds" or "date", and a delay.
NoHeader == [form |-> "none", n |-> 0]

ASSUME OpenRouterAssumption ==
    /\ MaxAttempts \in Int
    /\ RequestTimeout \in Nat /\ Deadline \in Nat /\ DurationMax \in Nat
    /\ Second \in Nat \ {0}
    /\ \A r \in Replies :
          /\ r.status \in Nat /\ r.large \in BOOLEAN
          /\ r.retryAfter \in [form : {"none", "seconds", "date"}, n : Nat]

VARIABLES pc,          \* "send", "flight", "wait", "answered" or "failed"
          now,
          attempt,     \* the attempt under way
          began,       \* when its request was sent
          wake,        \* when the timer of waitForRetry fires
          cancelled,   \* the context was cancelled
          tries        \* history: what each attempt came to, and when

callVars == <<pc, now, attempt, began, wake, cancelled, tries>>

\* NewOpenRouterClient raises a smaller number to one.
Attempts == IF MaxAttempts < 1 THEN 1 ELSE MaxAttempts

DeadAt(t) == cancelled \/ t >= Deadline

CompleteInit ==
    /\ pc = "send" /\ now = 0 /\ attempt = 1 /\ began = 0 /\ wake = 0
    /\ cancelled = FALSE /\ tries = <<>>

-----------------------------------------------------------------------------
\* time.Duration is a signed 64-bit number of nanoseconds.
Wrap(n) == LET size == 2 * (DurationMax + 1)
           IN  IF n % size <= DurationMax THEN n % size ELSE (n % size) - size

AtLeastZero(n) == IF n < 0 THEN 0 ELSE n
AtMost(n, m)   == IF n > m THEN m ELSE n

\* 1s, 2s, 4s, ... 32s, and up to half as much again.
Backoffs(k) == LET base == Second * 2 ^ AtMost(k - 1, 5)
               IN  base .. base + base \div 2

\* Mutant: the header is not looked at.
AlwaysBackoff(header, k) == Backoffs(k)

\* The delays waitForRetry may choose before attempt k + 1.
Delays(header, k) ==
    CASE header.form = "seconds" -> {AtLeastZero(Wrap(header.n * Second))}
      [] header.form = "date"    -> {AtMost(header.n * Second, DurationMax)}
      [] OTHER                   -> Backoffs(k)

-----------------------------------------------------------------------------
\* client.Do: under a dead context no request leaves.
Send ==
    /\ pc = "send"
    /\ IF DeadAt(now) THEN pc' = "failed" /\ UNCHANGED began
                      ELSE pc' = "flight" /\ began' = now
    /\ UNCHANGED <<now, attempt, wake, cancelled, tries>>

\* The request under way comes to its end at time t; `try' says how.
Ends(t, try) ==
    /\ pc = "flight"
    /\ t \in now .. AtMost(began + RequestTimeout, Deadline)
    /\ now' = t
    /\ tries' = Append(tries, try)
    /\ UNCHANGED <<attempt, began, cancelled>>

Fail == pc' = "failed" /\ UNCHANGED wake

RetryAfterWait(header, t) ==
    /\ attempt < Attempts
    /\ pc' = "wait"
    /\ wake' \in {t + d : d \in Delays(header, attempt)}

\* The request or the reading of its body fails: by the network, by the
\* timeout of the client, or with the context.
TransportError ==
    \E t \in now .. Deadline :
        /\ \/ "transport" \in Faults
           \/ t = began + RequestTimeout
           \/ DeadAt(t)
        /\ Ends(t, [reply |-> FALSE, header |-> NoHeader, began |-> began, ended |-> t])
        /\ IF DeadAt(t) \/ attempt = Attempts THEN Fail ELSE RetryAfterWait(NoHeader, t)

\* Mutant: 4xx replies are retried.
RetriesClientErrors(r, t) ==
    \/ r.status >= 400 /\ RetryAfterWait(r.retryAfter, t)
    \/ r.status < 400 /\ UNCHANGED wake
       /\ pc' = IF Decodable(r.body) THEN "answered" ELSE "failed"

\* What a reply that was read leads to.
Judge(r, t) ==
    \/ /\ RetryableStatus(r.status)
       /\ IF attempt < Attempts THEN RetryAfterWait(r.retryAfter, t) ELSE Fail
    \/ /\ ~RetryableStatus(r.status)
       /\ r.status \notin 200 .. 299 \/ r.large
       /\ Fail
    \/ /\ r.status \in 200 .. 299 /\ ~r.large
       /\ IF RetryableStatus(EmbeddedStatus(r.body)) /\ attempt < Attempts
          THEN RetryAfterWait(r.retryAfter, t)
          ELSE /\ pc' = IF Decodable(r.body) THEN "answered" ELSE "failed"
               /\ UNCHANGED wake

Reply ==
    \E r \in Replies : \E t \in now .. Deadline :
        /\ Ends(t, [reply |-> TRUE, status |-> r.status, header |-> r.retryAfter,
                    large |-> r.large, body |-> r.body, began |-> began, ended |-> t])
        /\ Judge(r, t)

\* The timer fires.  With the context dead at the same instant the select may
\* still choose it.
Wake ==
    /\ pc = "wait"
    /\ wake <= Deadline /\ (cancelled => wake = now)
    /\ now' = wake
    /\ attempt' = attempt + 1
    /\ pc' = "send"
    /\ UNCHANGED <<began, wake, cancelled, tries>>

\* The context is done before the timer fires.
WaitCancelled ==
    /\ pc = "wait"
    /\ cancelled \/ wake >= Deadline
    /\ now' = IF cancelled THEN now ELSE Deadline
    /\ Fail
    /\ UNCHANGED <<attempt, began, cancelled, tries>>

\* SIGINT or SIGTERM, while the call waits for something.
CancelTurn ==
    /\ "cancel" \in Faults /\ ~cancelled
    /\ pc \in {"flight", "wait"}
    /\ now' \in now .. AtMost(IF pc = "wait" THEN wake ELSE began + RequestTimeout, Deadline)
    /\ cancelled' = TRUE
    /\ UNCHANGED <<pc, attempt, began, wake, tries>>

Advance == Send \/ TransportError \/ Reply \/ Wake \/ WaitCancelled

CompleteNext == Advance \/ CancelTurn

\* The client has a timeout, the wait a timer: every step of the call ends.
CompleteSpec == CompleteInit /\ [][CompleteNext]_callVars /\ WF_callVars(Advance)

-----------------------------------------------------------------------------
\* Timeouts, 408, 429 and 5xx, also inside a successful reply.
Transient(try) ==
    \/ ~try.reply
    \/ RetryableStatus(try.status)
    \/ try.status \in 200 .. 299 /\ ~try.large /\ RetryableStatus(EmbeddedStatus(try.body))

\* "<= 3 attempts ... on timeouts, 429, 5xx. Non-retryable 4xx fails fast"
\* (docs/DESIGN.md:160): every attempt but the last was transient, there are at
\* most MaxAttempts, and under a live context the call gives up only for a
\* reason: its attempts are spent, or the last one was not transient.
RetriesTransientOnly ==
    /\ Len(tries) <= Attempts
    /\ \A i \in 1 .. Len(tries) - 1 : Transient(tries[i])
    /\ pc = "failed" => DeadAt(now) \/ Len(tries) = Attempts \/ ~Transient(tries[Len(tries)])

\* "respeita Retry-After" (README.md:179), "1s/2s/4s" (docs/DESIGN.md:160): an
\* attempt begins no earlier than the header of the reply before it asks, or
\* than the backoff of its number.
RetriesAreSpaced ==
    LET Least(i) == IF tries[i].header.form = "none" THEN Second * 2 ^ (i - 1)
                                                     ELSE tries[i].header.n * Second
    IN  \A i \in 1 .. Len(tries) - 1 : tries[i + 1].began >= tries[i].ended + Least(i)

\* The call is the loop's model call: it returns, and what it returns is the
\* outline of a reply without errors.
NoAnswer == [stop |-> "", uses |-> FALSE, text |-> FALSE]
Call == INSTANCE ModelCall WITH
    Responses <- {r \in ResponseType : r.stop = "tool_use" <=> r.uses},
    status    <- IF pc \in {"answered", "failed"} THEN pc ELSE "pending",
    answer    <- IF pc = "answered" THEN Outline(Decode(tries[Len(tries)].body)) ELSE NoAnswer
ImplementsModelCall == Call!CallSpec
==============================================================================
