--------------------------- MODULE OpenRouterProofs ---------------------------
(***************************************************************************)
(* Theorems about OpenRouter, for every number of attempts, timeout,       *)
(* deadline and clock, every set of replies and every choice of faults:    *)
(* which attempts are followed by another one, and how long after.         *)
(***************************************************************************)
EXTENDS OpenRouter, TLAPS

Headers == [form : {"none", "seconds", "date"}, n : Nat]
Bodies  == {r.body : r \in Replies}

\* What `tries' records: a request that failed, or the reply to one.
Failed  == [reply : {FALSE}, header : {NoHeader}, began : Int, ended : Int]
Replied == [reply : {TRUE}, status : Nat, header : Headers, large : BOOLEAN,
            body : Bodies, began : Int, ended : Int]
Trial   == Failed \cup Replied

CallTypeOK ==
    /\ pc \in {"send", "flight", "wait", "answered", "failed"}
    /\ now \in Int /\ began \in Int /\ wake \in Int
    /\ attempt \in 1 .. Attempts
    /\ cancelled \in BOOLEAN
    /\ tries \in Seq(Trial)

\* An attempt under way is one more than those recorded, and every recorded
\* one called for it.
EarlierAttempts ==
    /\ pc \in {"send", "flight"} => /\ Len(tries) = attempt - 1
                                    /\ \A i \in 1 .. Len(tries) : Transient(tries[i])
    /\ pc = "wait" => /\ Len(tries) = attempt /\ attempt < Attempts
                      /\ \A i \in 1 .. Len(tries) : Transient(tries[i])
    /\ pc \in {"answered", "failed"} =>
          /\ Len(tries) <= attempt
          /\ \A i \in 1 .. Len(tries) - 1 : Transient(tries[i])

\* Why a call that failed gave up.
ReasonToFail ==
    pc = "failed" => DeadAt(now) \/ Len(tries) = Attempts \/ ~Transient(tries[Len(tries)])

\* What RetriesTransientOnly needs to be inductive.
CallInv == CallTypeOK /\ EarlierAttempts /\ ReasonToFail

-----------------------------------------------------------------------------
\* There is at least one attempt, whatever LLM_MAX_ATTEMPTS says.
LEMMA AttemptsPositive == Attempts \in Nat \ {0}
BY OpenRouterAssumption DEF Attempts

\* Whatever waitForRetry chooses is a time: a duration that wraps is cut at
\* zero.
LEMMA DelaysAreTimes ==
    ASSUME NEW header \in Headers, NEW k \in 1 .. Attempts, NEW d \in Delays(header, k)
    PROVE  d \in Int
<1>1. header.n * Second \in Int
  BY OpenRouterAssumption DEF Headers
<1>2. ASSUME NEW n \in Int PROVE Wrap(n) \in Int
  BY OpenRouterAssumption DEF Wrap
<1>3. CASE header.form = "seconds"
  BY <1>1, <1>2, <1>3 DEF Delays, AtLeastZero
<1>4. CASE header.form = "date"
  BY <1>1, <1>4, OpenRouterAssumption DEF Delays, AtMost
<1>5. CASE header.form = "none"
  <2>1. Delays(header, k) = Backoffs(k)
    BY <1>5 DEF Delays
  <2>2. QED
    BY <2>1 DEF Backoffs
<1>6. QED
  BY <1>3, <1>4, <1>5 DEF Headers

-----------------------------------------------------------------------------
\* The call begins with nothing tried.
LEMMA CallInitInv == CompleteInit => CallInv
<1>1. SUFFICES ASSUME CompleteInit PROVE CallInv
  OBVIOUS
<1>2. CallTypeOK
  <2>1. tries \in Seq(Trial)
    BY <1>1 DEF CompleteInit
  <2>2. 1 \in 1 .. Attempts
    BY AttemptsPositive
  <2>3. pc = "send" /\ now = 0 /\ attempt = 1 /\ began = 0 /\ wake = 0 /\ cancelled = FALSE
    BY <1>1 DEF CompleteInit
  <2>4. attempt \in 1 .. Attempts
    BY <2>2, <2>3
  <2>5. pc \in {"send", "flight", "wait", "answered", "failed"}
    BY <2>3
  <2>6. cancelled \in BOOLEAN
    BY <2>3
  <2>7. now \in Int /\ began \in Int /\ wake \in Int
    BY <2>3
  <2>8. QED
    BY <2>1, <2>4, <2>5, <2>6, <2>7 DEF CallTypeOK
<1>3. Len(tries) = 0 /\ pc = "send" /\ attempt = 1
  BY <1>1 DEF CompleteInit
<1>4. EarlierAttempts /\ ReasonToFail
  BY <1>3 DEF EarlierAttempts, ReasonToFail
<1>5. QED
  BY <1>2, <1>4 DEF CallInv

\* Of a sequence with one more element, the last is the new one.
LEMMA AppendIs ==
    ASSUME NEW S, NEW s \in Seq(S), NEW e \in S
    PROVE  /\ Append(s, e) \in Seq(S)
           /\ Len(Append(s, e)) = Len(s) + 1
           /\ Append(s, e)[Len(s) + 1] = e
           /\ \A i \in 1 .. Len(s) : Append(s, e)[i] = s[i]
OBVIOUS

\* A request that is under way comes to an end: what all the attempts came to
\* is then known, and every one before it was transient.
LEMMA EndsInv ==
    ASSUME CallInv, NEW t, NEW try \in Trial, Ends(t, try)
    PROVE  /\ pc = "flight" /\ t \in Int /\ now' = t /\ now' \in Int /\ now <= t
           /\ tries' \in Seq(Trial)
           /\ Len(tries') = attempt
           /\ Len(tries) = attempt - 1
           /\ tries'[attempt] = try
           /\ \A i \in 1 .. attempt - 1 : tries'[i] = tries[i]
           /\ \A i \in 1 .. attempt - 1 : Transient(tries'[i])
           /\ attempt' = attempt /\ began' = began /\ cancelled' = cancelled
           /\ attempt \in 1 .. Attempts
<1>1. /\ pc = "flight" /\ t \in now .. AtMost(began + RequestTimeout, Deadline)
      /\ now' = t /\ tries' = Append(tries, try)
      /\ attempt' = attempt /\ began' = began /\ cancelled' = cancelled
  BY DEF Ends
<1>2. /\ now \in Int /\ began \in Int /\ attempt \in 1 .. Attempts /\ tries \in Seq(Trial)
      /\ Len(tries) = attempt - 1
      /\ \A i \in 1 .. Len(tries) : Transient(tries[i])
  BY <1>1 DEF CallInv, CallTypeOK, EarlierAttempts
<1>3. AtMost(began + RequestTimeout, Deadline) \in Int
  BY <1>2, OpenRouterAssumption DEF AtMost
<1>4. t \in Int /\ now <= t
  BY <1>1, <1>2, <1>3
<1>5. attempt \in Int
  BY <1>2, AttemptsPositive
<1>6. /\ tries' \in Seq(Trial) /\ Len(tries') = attempt /\ tries'[attempt] = try
      /\ \A i \in 1 .. attempt - 1 : tries'[i] = tries[i]
  BY <1>1, <1>2, <1>5, AppendIs
<1>7. \A i \in 1 .. attempt - 1 : Transient(tries'[i])
  BY <1>2, <1>6
<1>8. QED
  BY <1>1, <1>2, <1>4, <1>6, <1>7

\* After the end of a request that calls for another attempt, the call waits
\* or gives up.
LEMMA EndedInv ==
    ASSUME CallInv, NEW t, NEW try \in Trial, Ends(t, try),
           wake' \in Int,
           \/ pc' = "wait" /\ attempt < Attempts /\ Transient(try)
           \/ pc' = "answered"
           \/ pc' = "failed" /\ (DeadAt(t) \/ attempt = Attempts \/ ~Transient(try))
    PROVE  CallInv'
<1>1. /\ t \in Int /\ now' = t /\ now' \in Int
      /\ tries' \in Seq(Trial)
      /\ Len(tries') = attempt
      /\ tries'[attempt] = try
      /\ \A i \in 1 .. attempt - 1 : Transient(tries'[i])
      /\ attempt' = attempt /\ began' = began /\ cancelled' = cancelled
      /\ attempt \in 1 .. Attempts
  BY EndsInv
<1>2. attempt \in Int /\ Attempts' = Attempts
  BY <1>1, AttemptsPositive DEF Attempts
<1>3. CallTypeOK'
  BY <1>1, <1>2 DEF CallInv, CallTypeOK
<1>4. Transient(try) => \A i \in 1 .. attempt : Transient(tries'[i])
  BY <1>1, <1>2
<1>5. EarlierAttempts'
  <2>1. \A i \in 1 .. Len(tries') - 1 : Transient(tries'[i])
    BY <1>1
  <2>2. Transient(try) => \A i \in 1 .. Len(tries') : Transient(tries'[i])
    BY <1>1, <1>4
  <2>3. \A s : Transient(s)' <=> Transient(s)
    BY DEF Transient
  <2>4. QED
    BY <1>1, <1>2, <2>1, <2>2 DEF EarlierAttempts, Transient
<1>6. ReasonToFail'
  BY <1>1, <1>2 DEF ReasonToFail, DeadAt, Transient
<1>7. QED
  BY <1>3, <1>5, <1>6 DEF CallInv

\* Send starts the next request, or gives up under a dead context.
LEMMA SendInv == ASSUME CallInv, Send PROVE CallInv'
<1>1. /\ pc = "send" /\ now' = now /\ attempt' = attempt /\ wake' = wake
      /\ cancelled' = cancelled /\ tries' = tries
      /\ \/ DeadAt(now) /\ pc' = "failed" /\ began' = began
         \/ pc' = "flight" /\ began' = now
  BY DEF Send
<1>2. CallTypeOK'
  BY <1>1 DEF CallInv, CallTypeOK, Attempts
<1>3. \A i \in 1 .. Len(tries) : Transient(tries[i])
  BY <1>1 DEF CallInv, EarlierAttempts
<1>4. Len(tries) = attempt - 1 /\ attempt \in Int
  BY <1>1, AttemptsPositive DEF CallInv, CallTypeOK, EarlierAttempts
<1>5. EarlierAttempts'
  BY <1>1, <1>3, <1>4 DEF EarlierAttempts, Transient
<1>6. ReasonToFail'
  BY <1>1 DEF ReasonToFail, DeadAt
<1>7. QED
  BY <1>2, <1>5, <1>6 DEF CallInv

\* The request fails.
LEMMA TransportErrorInv == ASSUME CallInv, TransportError PROVE CallInv'
<1>1. PICK t \in now .. Deadline :
         /\ Ends(t, [reply |-> FALSE, header |-> NoHeader, began |-> began, ended |-> t])
         /\ IF DeadAt(t) \/ attempt = Attempts THEN Fail ELSE RetryAfterWait(NoHeader, t)
  BY DEF TransportError
<1> DEFINE try == [reply |-> FALSE, header |-> NoHeader, began |-> began, ended |-> t]
<1>2. /\ now \in Int /\ began \in Int /\ wake \in Int /\ attempt \in 1 .. Attempts
  BY DEF CallInv, CallTypeOK
<1>3. t \in Int
  BY <1>2, OpenRouterAssumption
<1>4. try \in Trial
  BY <1>2, <1>3 DEF Trial, Failed
<1>5. Transient(try)
  BY DEF Transient
<1>6. NoHeader \in Headers
  BY DEF NoHeader, Headers
<1>7. CASE DeadAt(t) \/ attempt = Attempts
  <2>1. pc' = "failed" /\ wake' \in Int
    BY <1>1, <1>2, <1>7 DEF Fail
  <2>2. QED
    BY <1>1, <1>4, <1>7, <2>1, EndedInv
<1>8. CASE ~(DeadAt(t) \/ attempt = Attempts)
  <2>1. pc' = "wait" /\ attempt < Attempts /\ wake' \in {t + d : d \in Delays(NoHeader, attempt)}
    BY <1>1, <1>8 DEF RetryAfterWait
  <2>2. wake' \in Int
    BY <1>2, <1>3, <1>6, <2>1, DelaysAreTimes
  <2>3. QED
    BY <1>1, <1>4, <1>5, <2>1, <2>2, EndedInv
<1>9. QED
  BY <1>7, <1>8

\* A reply is judged: what is retried is transient, and what is not retried
\* though attempts are left is not.
LEMMA ReplyInv == ASSUME CallInv, Reply PROVE CallInv'
<1>1. PICK r \in Replies, t \in now .. Deadline :
         /\ Ends(t, [reply |-> TRUE, status |-> r.status, header |-> r.retryAfter,
                     large |-> r.large, body |-> r.body, began |-> began, ended |-> t])
         /\ Judge(r, t)
  BY DEF Reply
<1> DEFINE try == [reply |-> TRUE, status |-> r.status, header |-> r.retryAfter,
                   large |-> r.large, body |-> r.body, began |-> began, ended |-> t]
<1>2. /\ now \in Int /\ began \in Int /\ wake \in Int /\ attempt \in 1 .. Attempts
  BY DEF CallInv, CallTypeOK
<1>3. t \in Int
  BY <1>2, OpenRouterAssumption
<1>4. r.status \in Nat /\ r.large \in BOOLEAN /\ r.retryAfter \in Headers
  BY OpenRouterAssumption DEF Headers
<1>5. try \in Trial
  BY <1>2, <1>3, <1>4 DEF Trial, Replied, Bodies
<1>6. Transient(try) <=>
         \/ RetryableStatus(r.status)
         \/ r.status \in 200 .. 299 /\ ~r.large /\ RetryableStatus(EmbeddedStatus(r.body))
  BY DEF Transient
<1>7. ASSUME RetryAfterWait(r.retryAfter, t), Transient(try) PROVE CallInv'
  <2>1. pc' = "wait" /\ attempt < Attempts /\ wake' \in {t + d : d \in Delays(r.retryAfter, attempt)}
    BY <1>7 DEF RetryAfterWait
  <2>2. wake' \in Int
    BY <1>2, <1>3, <1>4, <2>1, DelaysAreTimes
  <2>3. QED
    BY <1>1, <1>5, <1>7, <2>1, <2>2, EndedInv
<1>8. ASSUME UNCHANGED wake, \/ pc' = "answered"
                             \/ pc' = "failed" /\ (attempt = Attempts \/ ~Transient(try))
      PROVE  CallInv'
  BY <1>1, <1>2, <1>5, <1>8, EndedInv
<1>9. ~(attempt < Attempts) => attempt = Attempts
  BY <1>2, AttemptsPositive
<1>10. RetryableStatus(r.status) => r.status \notin 200 .. 299
  BY <1>4 DEF RetryableStatus
<1>11. CASE RetryableStatus(r.status)
  <2>1. \/ attempt < Attempts /\ RetryAfterWait(r.retryAfter, t)
        \/ ~(attempt < Attempts) /\ Fail
    BY <1>1, <1>10, <1>11 DEF Judge
  <2>2. QED
    BY <1>6, <1>7, <1>8, <1>9, <1>11, <2>1 DEF Fail
<1>12. CASE ~RetryableStatus(r.status) /\ (r.status \notin 200 .. 299 \/ r.large)
  <2>1. Fail /\ ~Transient(try)
    BY <1>1, <1>6, <1>12 DEF Judge
  <2>2. QED
    BY <1>8, <2>1 DEF Fail
<1>13. CASE ~RetryableStatus(r.status) /\ r.status \in 200 .. 299 /\ ~r.large
  <2>1. CASE RetryableStatus(EmbeddedStatus(r.body)) /\ attempt < Attempts
    <3>1. RetryAfterWait(r.retryAfter, t)
      BY <1>1, <1>13, <2>1 DEF Judge
    <3>2. QED
      BY <1>6, <1>7, <1>13, <2>1, <3>1
  <2>2. CASE ~(RetryableStatus(EmbeddedStatus(r.body)) /\ attempt < Attempts)
    <3>1. pc' \in {"answered", "failed"} /\ UNCHANGED wake
      BY <1>1, <1>13, <2>2 DEF Judge
    <3>2. attempt = Attempts \/ ~Transient(try)
      BY <1>6, <1>9, <1>13, <2>2
    <3>3. QED
      BY <1>8, <3>1, <3>2
  <2>3. QED
    BY <2>1, <2>2
<1>14. QED
  BY <1>11, <1>12, <1>13

\* The timer fires, and the next attempt is to be sent.
LEMMA WakeInv == ASSUME CallInv, Wake PROVE CallInv'
<1>1. /\ pc = "wait" /\ pc' = "send" /\ now' = wake /\ attempt' = attempt + 1
      /\ began' = began /\ wake' = wake /\ cancelled' = cancelled /\ tries' = tries
  BY DEF Wake
<1>2. /\ CallTypeOK /\ Len(tries) = attempt /\ attempt < Attempts
      /\ \A i \in 1 .. Len(tries) : Transient(tries[i])
  BY <1>1 DEF CallInv, EarlierAttempts
<1>3. attempt \in 1 .. Attempts /\ attempt + 1 \in 1 .. Attempts
  BY <1>2, AttemptsPositive DEF CallTypeOK
<1>4. CallTypeOK'
  BY <1>1, <1>2, <1>3 DEF CallTypeOK, Attempts
<1>5. Len(tries) = attempt + 1 - 1
  BY <1>2, <1>3
<1>6. EarlierAttempts'
  BY <1>1, <1>2, <1>5 DEF EarlierAttempts, Transient
<1>7. ReasonToFail'
  BY <1>1 DEF ReasonToFail
<1>8. QED
  BY <1>4, <1>6, <1>7 DEF CallInv

\* The context ends first.
LEMMA WaitCancelledInv == ASSUME CallInv, WaitCancelled PROVE CallInv'
<1>1. /\ pc = "wait" /\ pc' = "failed" /\ wake' = wake
      /\ attempt' = attempt /\ began' = began /\ cancelled' = cancelled /\ tries' = tries
      /\ now' = IF cancelled THEN now ELSE Deadline
  BY DEF WaitCancelled, Fail
<1>2. /\ CallTypeOK /\ Len(tries) = attempt /\ attempt \in Int
      /\ \A i \in 1 .. Len(tries) : Transient(tries[i])
  BY <1>1, AttemptsPositive DEF CallInv, EarlierAttempts, CallTypeOK
<1>3. CallTypeOK'
  BY <1>1, <1>2, OpenRouterAssumption DEF CallTypeOK, Attempts
<1>4. EarlierAttempts'
  <2>1. \A i \in 1 .. Len(tries) - 1 : i \in 1 .. Len(tries)
    BY <1>2
  <2>2. Len(tries) <= attempt /\ \A i \in 1 .. Len(tries) - 1 : Transient(tries[i])
    BY <1>2, <2>1
  <2>3. QED
    BY <1>1, <2>2 DEF EarlierAttempts, Transient
<1>5. ReasonToFail'
  <2>1. DeadAt(now)'
    BY <1>1, OpenRouterAssumption DEF DeadAt
  <2>2. QED
    BY <2>1 DEF ReasonToFail
<1>6. QED
  BY <1>3, <1>4, <1>5 DEF CallInv

\* The process is told to stop while the call waits.
LEMMA CancelTurnInv == ASSUME CallInv, CancelTurn PROVE CallInv'
<1>1. /\ pc \in {"flight", "wait"} /\ pc' = pc /\ attempt' = attempt /\ began' = began
      /\ wake' = wake /\ tries' = tries /\ cancelled' = TRUE
      /\ now' \in now .. AtMost(IF pc = "wait" THEN wake ELSE began + RequestTimeout, Deadline)
  BY DEF CancelTurn
<1>2. now' \in Int
  <2>1. \A a, b \in Int : AtMost(a, b) \in Int
    BY DEF AtMost
  <2>2. now \in Int /\ (IF pc = "wait" THEN wake ELSE began + RequestTimeout) \in Int
    BY OpenRouterAssumption DEF CallInv, CallTypeOK
  <2>3. QED
    BY <1>1, <2>1, <2>2, OpenRouterAssumption
<1>3. CallTypeOK'
  BY <1>1, <1>2 DEF CallInv, CallTypeOK, Attempts
<1>4. EarlierAttempts' /\ ReasonToFail'
  BY <1>1 DEF CallInv, EarlierAttempts, ReasonToFail, Transient, Attempts
<1>5. QED
  BY <1>3, <1>4 DEF CallInv

\* The attempts of a call, its times and the reasons it goes on or gives up.
THEOREM CallInvariant == CompleteSpec => []CallInv
<1>1. ASSUME CallInv, [CompleteNext]_callVars PROVE CallInv'
  <2>1. CASE UNCHANGED callVars
    <3>1. /\ pc' = pc /\ now' = now /\ attempt' = attempt /\ began' = began
          /\ wake' = wake /\ cancelled' = cancelled /\ tries' = tries
      BY <2>1 DEF callVars
    <3>2. CallTypeOK'
      BY <1>1, <3>1 DEF CallInv, CallTypeOK, Attempts
    <3>3. EarlierAttempts'
      BY <1>1, <3>1 DEF CallInv, EarlierAttempts, Transient, Attempts
    <3>4. ReasonToFail'
      BY <1>1, <3>1 DEF CallInv, ReasonToFail, Transient, Attempts, DeadAt
    <3>5. QED
      BY <3>2, <3>3, <3>4 DEF CallInv
  <2>2. QED
    BY <1>1, <2>1, SendInv, TransportErrorInv, ReplyInv, WakeInv, WaitCancelledInv,
       CancelTurnInv DEF CompleteNext, Advance
<1>2. QED
  BY <1>1, CallInitInv, PTL DEF CompleteSpec

\* RetriesTransientOnly: an attempt is followed by another only when it timed
\* out, was cut or drew a 408, a 429, a 5xx or a reply that embeds one; there
\* are at most MaxAttempts; and under a live context the call gives up only
\* when its attempts are spent or the last one was not transient.
THEOREM RetriesTheorem == CompleteSpec => []RetriesTransientOnly
<1>1. CallInv => RetriesTransientOnly
  <2>1. SUFFICES ASSUME CallInv PROVE RetriesTransientOnly
    OBVIOUS
  <2>2. attempt \in 1 .. Attempts /\ Len(tries) \in Nat /\ Attempts \in Nat
    BY <2>1, AttemptsPositive DEF CallInv, CallTypeOK
  <2>3. Len(tries) <= attempt
    BY <2>1, <2>2 DEF CallInv, CallTypeOK, EarlierAttempts
  <2>4. \A i \in 1 .. Len(tries) - 1 : Transient(tries[i])
    <3>1. \A i \in 1 .. Len(tries) - 1 : i \in 1 .. Len(tries)
      BY <2>2
    <3>2. QED
      BY <2>1, <3>1 DEF CallInv, CallTypeOK, EarlierAttempts
  <2>5. QED
    BY <2>1, <2>2, <2>3, <2>4 DEF CallInv, ReasonToFail, RetriesTransientOnly
<1>2. QED
  BY <1>1, CallInvariant, PTL
-----------------------------------------------------------------------------
\* The wait that is asked for after attempt k: by the header of its reply, or
\* 1s, 2s, 4s, ...
Least(header, k) == IF header.form = "none" THEN Second * 2 ^ (k - 1)
                                            ELSE header.n * Second

\* The instant before which no attempt may follow attempt k.
Earliest(k) == tries[k].ended + Least(tries[k].header, k)

\* The backoff doubles six times: the seventh wait is the sixth again.
FewAttempts == MaxAttempts <= 7

\* No server asks for a wait a time.Duration cannot hold, of 292 years.
BoundedHeaders ==
    \A r \in Replies : r.retryAfter.form # "none" => r.retryAfter.n * Second <= DurationMax

\* What is left of the wait between an attempt and the next.
SpacedInv ==
    /\ RetriesAreSpaced
    /\ pc = "wait" => wake >= Earliest(Len(tries))
    /\ pc = "send" /\ Len(tries) > 0 => now >= Earliest(Len(tries))
    /\ pc = "flight" /\ Len(tries) > 0 => began >= Earliest(Len(tries))

\* The first powers of two.
LEMMA PowersOfTwo == \A k \in 0 .. 5 : 2 ^ k \in Nat
<1>1. 2 ^ 0 = 1 /\ 2 ^ 1 = 2 /\ 2 ^ 2 = 4 /\ 2 ^ 3 = 8 /\ 2 ^ 4 = 16 /\ 2 ^ 5 = 32
  OBVIOUS
<1>2. SUFFICES ASSUME NEW k \in 0 .. 5 PROVE 2 ^ k \in Nat
  OBVIOUS
<1>3. k = 0 \/ k = 1 \/ k = 2 \/ k = 3 \/ k = 4 \/ k = 5
  OBVIOUS
<1>4. QED
  BY <1>1, <1>3, Zenon, 1 \in Nat, 2 \in Nat, 4 \in Nat, 8 \in Nat, 16 \in Nat, 32 \in Nat

\* A duration that fits is not changed by the wrap.
LEMMA NoWrap == ASSUME NEW n \in Nat, n <= DurationMax PROVE Wrap(n) = n
<1>1. n % (2 * (DurationMax + 1)) = n
  BY OpenRouterAssumption
<1>2. QED
  BY <1>1 DEF Wrap

\* waitForRetry never waits less than it was asked to.
LEMMA DelaysAreEnough ==
    ASSUME FewAttempts, NEW header \in Headers,
           header.form # "none" => header.n * Second <= DurationMax,
           NEW k \in 1 .. Attempts, k < Attempts, NEW d \in Delays(header, k)
    PROVE  Least(header, k) \in Int /\ d >= Least(header, k)
<1>1. header.n * Second \in Nat
  BY OpenRouterAssumption DEF Headers
<1>2. CASE header.form = "seconds"
  <2>1. d = AtLeastZero(Wrap(header.n * Second))
    BY <1>2 DEF Delays
  <2>2. d = header.n * Second
    BY <1>1, <1>2, <2>1, NoWrap DEF AtLeastZero
  <2>3. QED
    BY <1>1, <1>2, <2>2 DEF Least
<1>3. CASE header.form = "date"
  <2>1. d = AtMost(header.n * Second, DurationMax)
    BY <1>3 DEF Delays
  <2>2. d = header.n * Second
    BY <1>1, <1>3, <2>1, OpenRouterAssumption DEF AtMost
  <2>3. QED
    BY <1>1, <1>3, <2>2 DEF Least
<1>4. CASE header.form = "none"
  <2>1. k - 1 \in 0 .. 5
    BY OpenRouterAssumption DEF FewAttempts, Attempts
  <2>2. AtMost(k - 1, 5) = k - 1
    BY <2>1 DEF AtMost
  <2>3. d \in Backoffs(k)
    BY <1>4 DEF Delays
  <2> DEFINE base == Second * 2 ^ (k - 1)
  <2>4. base \in Nat
    <3>1. 2 ^ (k - 1) \in Nat
      BY <2>1, PowersOfTwo
    <3>2. \A p \in Nat : Second * p \in Nat
      BY OpenRouterAssumption
    <3>3. QED
      BY <3>1, <3>2
  <2>5. d \in base .. base + base \div 2
    BY <2>2, <2>3 DEF Backoffs
  <2>6. Least(header, k) = base
    BY <1>4 DEF Least
  <2> HIDE DEF base
  <2>7. QED
    BY <2>4, <2>5, <2>6
<1>5. QED
  BY <1>2, <1>3, <1>4 DEF Headers

\* RetriesAreSpaced, in the words of this module.
LEMMA SpacedIs ==
    RetriesAreSpaced <=> \A i \in 1 .. Len(tries) - 1 : tries[i + 1].began >= Earliest(i)
BY DEF RetriesAreSpaced, Earliest, Least

\* A request comes to its end no earlier than it was asked to begin, and the
\* wait it calls for begins there.
LEMMA EndedSpaced ==
    ASSUME CallInv, SpacedInv, FewAttempts, NEW t, NEW try \in Trial, Ends(t, try),
           try.began = began, try.ended = t,
           try.header.form # "none" => try.header.n * Second <= DurationMax,
           \/ pc' = "wait" /\ attempt < Attempts
              /\ wake' \in {t + d : d \in Delays(try.header, attempt)}
           \/ pc' \in {"answered", "failed"}
    PROVE  SpacedInv'
<1>1. /\ pc = "flight" /\ t \in Int
      /\ Len(tries') = attempt /\ Len(tries) = attempt - 1
      /\ tries'[attempt] = try
      /\ \A i \in 1 .. attempt - 1 : tries'[i] = tries[i]
      /\ attempt \in 1 .. Attempts
  BY EndsInv
<1>2. attempt \in Int /\ Attempts \in Int
  BY <1>1, AttemptsPositive
<1>3. \A i \in 1 .. attempt - 1 : Earliest(i)' = Earliest(i)
  BY <1>1 DEF Earliest
<1>4. ASSUME NEW i \in 1 .. attempt - 1 PROVE tries'[i + 1].began >= Earliest(i)'
  <2>1. CASE i = attempt - 1
    <3>1. tries'[i + 1].began = began
      BY <1>1, <1>2, <2>1
    <3>2. began >= Earliest(i)
      BY <1>1, <1>2, <2>1 DEF SpacedInv
    <3>3. QED
      BY <1>3, <3>1, <3>2
  <2>2. CASE i # attempt - 1
    <3>1. i \in 1 .. Len(tries) - 1 /\ i + 1 \in 1 .. attempt - 1
      BY <1>1, <1>2, <2>2
    <3>2. tries[i + 1].began >= Earliest(i)
      BY <3>1, SpacedIs DEF SpacedInv
    <3>3. QED
      BY <1>1, <1>3, <3>1, <3>2
  <2>3. QED
    BY <2>1, <2>2
<1>5. RetriesAreSpaced'
  BY <1>1, <1>4 DEF RetriesAreSpaced, Earliest, Least
<1>6. ASSUME pc' = "wait" PROVE wake' >= Earliest(Len(tries))'
  <2>1. try.header \in Headers
    <3>1. NoHeader \in Headers
      BY DEF NoHeader, Headers
    <3>2. QED
      BY <3>1 DEF Trial, Failed, Replied
  <2>2. PICK d \in Delays(try.header, attempt) : wake' = t + d
    BY <1>6
  <2>3. d \in Int
    BY <1>1, <2>1, DelaysAreTimes
  <2>4. Least(try.header, attempt) \in Int /\ d >= Least(try.header, attempt)
    BY <1>1, <1>6, <2>1, DelaysAreEnough
  <2>5. Earliest(Len(tries))' = t + Least(try.header, attempt)
    BY <1>1 DEF Earliest, Least
  <2>6. QED
    BY <1>1, <2>2, <2>3, <2>4, <2>5
<1>7. pc' \notin {"send", "flight"}
  OBVIOUS
<1>8. QED
  BY <1>5, <1>6, <1>7 DEF SpacedInv

\* A request that fails is tried again after the backoff of its number.
LEMMA TransportErrorSpaced ==
    ASSUME CallInv, SpacedInv, FewAttempts, TransportError PROVE SpacedInv'
<1>1. PICK t \in now .. Deadline :
         /\ Ends(t, [reply |-> FALSE, header |-> NoHeader, began |-> began, ended |-> t])
         /\ IF DeadAt(t) \/ attempt = Attempts THEN Fail ELSE RetryAfterWait(NoHeader, t)
  BY DEF TransportError
<1> DEFINE try == [reply |-> FALSE, header |-> NoHeader, began |-> began, ended |-> t]
<1>2. /\ now \in Int /\ began \in Int
  BY DEF CallInv, CallTypeOK
<1>3. t \in Int
  BY <1>2, OpenRouterAssumption
<1>4. try \in Trial
  BY <1>2, <1>3 DEF Trial, Failed
<1>5. \/ pc' = "wait" /\ attempt < Attempts /\ wake' \in {t + d : d \in Delays(NoHeader, attempt)}
      \/ pc' = "failed"
  BY <1>1 DEF Fail, RetryAfterWait
<1>6. try.header = NoHeader /\ try.began = began /\ try.ended = t
  OBVIOUS
<1>7. NoHeader.form = "none"
  BY DEF NoHeader
<1>8. Ends(t, try)
  BY <1>1
<1> HIDE DEF try
<1>9. QED
  BY <1>4, <1>5, <1>6, <1>7, <1>8, EndedSpaced

\* A reply is followed by another attempt after the wait of its header.
LEMMA ReplySpaced ==
    ASSUME CallInv, SpacedInv, FewAttempts, BoundedHeaders, Reply PROVE SpacedInv'
<1>1. PICK r \in Replies, t \in now .. Deadline :
         /\ Ends(t, [reply |-> TRUE, status |-> r.status, header |-> r.retryAfter,
                     large |-> r.large, body |-> r.body, began |-> began, ended |-> t])
         /\ Judge(r, t)
  BY DEF Reply
<1> DEFINE try == [reply |-> TRUE, status |-> r.status, header |-> r.retryAfter,
                   large |-> r.large, body |-> r.body, began |-> began, ended |-> t]
<1>2. /\ now \in Int /\ began \in Int
  BY DEF CallInv, CallTypeOK
<1>3. t \in Int
  BY <1>2, OpenRouterAssumption
<1>4. r.status \in Nat /\ r.large \in BOOLEAN /\ r.retryAfter \in Headers
  BY OpenRouterAssumption DEF Headers
<1>5. try \in Trial
  BY <1>2, <1>3, <1>4 DEF Trial, Replied, Bodies
<1>6. RetryAfterWait(r.retryAfter, t) \/ pc' = "failed" \/ pc' = "answered"
  BY <1>1 DEF Judge, Fail
<1>7. \/ pc' = "wait" /\ attempt < Attempts /\ wake' \in {t + d : d \in Delays(r.retryAfter, attempt)}
      \/ pc' \in {"answered", "failed"}
  BY <1>6 DEF RetryAfterWait
<1>8. try.header = r.retryAfter /\ try.began = began /\ try.ended = t
  OBVIOUS
<1>9. Ends(t, try)
  BY <1>1
<1>10. r.retryAfter.form # "none" => r.retryAfter.n * Second <= DurationMax
  BY DEF BoundedHeaders
<1> HIDE DEF try
<1>11. QED
  BY <1>5, <1>7, <1>8, <1>9, <1>10, EndedSpaced

\* RetriesAreSpaced: with at most seven attempts, an attempt begins no earlier
\* than the Retry-After of the reply before it asks, or than the backoff of its
\* number.
THEOREM SpacingTheorem ==
    ASSUME FewAttempts, BoundedHeaders
    PROVE  CompleteSpec => []RetriesAreSpaced
<1>1. CompleteInit => SpacedInv
  <2>1. SUFFICES ASSUME CompleteInit PROVE SpacedInv
    OBVIOUS
  <2>2. Len(tries) = 0 /\ pc = "send"
    BY <2>1 DEF CompleteInit
  <2>3. QED
    BY <2>2 DEF SpacedInv, RetriesAreSpaced
<1>2. ASSUME CallInv, SpacedInv, [CompleteNext]_callVars PROVE SpacedInv'
  <2>1. ASSUME tries' = tries,
               pc' = "wait" => wake' >= Earliest(Len(tries)),
               pc' = "send" /\ Len(tries) > 0 => now' >= Earliest(Len(tries)),
               pc' = "flight" /\ Len(tries) > 0 => began' >= Earliest(Len(tries))
        PROVE  SpacedInv'
    BY <1>2, <2>1 DEF SpacedInv, RetriesAreSpaced, Earliest, Least
  <2>2. CASE UNCHANGED callVars
    BY <1>2, <2>1, <2>2 DEF SpacedInv, callVars
  <2>3. CASE Send
    BY <1>2, <2>1, <2>3 DEF SpacedInv, Send
  <2>4. CASE TransportError
    BY <1>2, <2>4, TransportErrorSpaced
  <2>5. CASE Reply
    BY <1>2, <2>5, ReplySpaced
  <2>6. CASE Wake
    BY <1>2, <2>1, <2>6 DEF SpacedInv, Wake
  <2>7. CASE WaitCancelled
    BY <1>2, <2>1, <2>7 DEF SpacedInv, WaitCancelled, Fail
  <2>8. CASE CancelTurn
    BY <1>2, <2>1, <2>8 DEF SpacedInv, CancelTurn
  <2>9. QED
    BY <1>2, <2>2, <2>3, <2>4, <2>5, <2>6, <2>7, <2>8 DEF CompleteNext, Advance
<1>3. SpacedInv => RetriesAreSpaced
  BY DEF SpacedInv
<1>4. QED
  BY <1>1, <1>2, <1>3, CallInvariant, PTL DEF CompleteSpec
-----------------------------------------------------------------------------
\* The calls of a body are a list, and no service gives a message without calls
\* the finish reason "tool_use": that is the loop's word, not that of Chat
\* Completions ("tool_calls").
ReasonsAreTheirs ==
    \A r \in Replies : Decodable(r.body) =>
        LET choice == r.body.choices[1]
        IN  /\ choice.calls \in Seq({choice.calls[i] : i \in DOMAIN choice.calls})
            /\ choice.reason # "tool_use"

\* What is in a list made of two is in one of them.
LEMMA InConcatenation ==
    ASSUME NEW T, NEW s \in Seq(T), NEW t \in Seq(T), NEW type
    PROVE  /\ s \o t \in Seq(T)
           /\ (\E i \in DOMAIN (s \o t) : (s \o t)[i].type = type) <=>
                 \/ \E i \in DOMAIN s : s[i].type = type
                 \/ \E i \in DOMAIN t : t[i].type = type
<1>1. /\ s \o t \in Seq(T) /\ Len(s \o t) = Len(s) + Len(t)
      /\ Len(s) \in Nat /\ Len(t) \in Nat
      /\ DOMAIN s = 1 .. Len(s) /\ DOMAIN t = 1 .. Len(t)
      /\ DOMAIN (s \o t) = 1 .. Len(s) + Len(t)
  OBVIOUS
<1>2. /\ \A i \in 1 .. Len(s) : (s \o t)[i] = s[i]
      /\ \A i \in Len(s) + 1 .. Len(s) + Len(t) : (s \o t)[i] = t[i - Len(s)]
  OBVIOUS
<1>3. ASSUME NEW i \in DOMAIN (s \o t), (s \o t)[i].type = type
      PROVE  \/ \E h \in DOMAIN s : s[h].type = type
             \/ \E h \in DOMAIN t : t[h].type = type
  <2>1. CASE i \in 1 .. Len(s)
    BY <1>1, <1>2, <1>3, <2>1
  <2>2. CASE i \notin 1 .. Len(s)
    <3>1. i \in Len(s) + 1 .. Len(s) + Len(t) /\ i - Len(s) \in 1 .. Len(t)
      BY <1>1, <2>2
    <3>2. t[i - Len(s)].type = type
      BY <1>2, <1>3, <3>1
    <3> QED BY <1>1, <3>1, <3>2
  <2> QED BY <2>1, <2>2
<1>4. ASSUME NEW i \in DOMAIN s, s[i].type = type
      PROVE  \E h \in DOMAIN (s \o t) : (s \o t)[h].type = type
  <2>1. i \in DOMAIN (s \o t) /\ (s \o t)[i] = s[i]
    BY <1>1, <1>2
  <2> QED BY <1>4, <2>1
<1>5. ASSUME NEW i \in DOMAIN t, t[i].type = type
      PROVE  \E h \in DOMAIN (s \o t) : (s \o t)[h].type = type
  <2>1. Len(s) + i \in Len(s) + 1 .. Len(s) + Len(t) /\ (Len(s) + i) - Len(s) = i
    BY <1>1
  <2>2. Len(s) + i \in DOMAIN (s \o t) /\ (s \o t)[Len(s) + i] = t[i]
    BY <1>1, <1>2, <2>1
  <2> QED BY <1>5, <2>2
<1> QED BY <1>1, <1>3, <1>4, <1>5

\* A block that may be there is the only one of its list.
LEMMA OptionalIs ==
    ASSUME NEW T, NEW block \in T, NEW condition
    PROVE  /\ Optional(condition, block) \in Seq(T)
           /\ \A i \in DOMAIN Optional(condition, block) : Optional(condition, block)[i] = block
<1>1. <<block>> \in Seq(T) /\ \A i \in DOMAIN <<block>> : <<block>>[i] = block
  OBVIOUS
<1>2. <<>> \in Seq(T) /\ DOMAIN <<>> = {}
  OBVIOUS
<1>3. Optional(condition, block) = <<block>> \/ Optional(condition, block) = <<>>
  BY DEF Optional
<1> QED BY <1>1, <1>2, <1>3

\* A decoded body asks for tools if and only if it holds a call, whatever its
\* finish reason.
LEMMA BodiesDecode ==
    ASSUME ReasonsAreTheirs, NEW r \in Replies, Decodable(r.body)
    PROVE  Outline(Decode(r.body)) \in {s \in ResponseType : s.stop = "tool_use" <=> s.uses}
<1> DEFINE choice == r.body.choices[1]
           use(c) == [type |-> "tool_use", id |-> c.id, input |-> ToolArguments(c.args)]
           said == [type |-> "text", text |-> choice.text]
           meta == [type |-> "provider_metadata"]
           T == {said, meta} \cup {use(choice.calls[i]) : i \in DOMAIN choice.calls}
           first == Optional(choice.text # "", said)
           uses == [i \in DOMAIN choice.calls |-> use(choice.calls[i])]
           last == Optional(choice.details, meta)
           content == first \o uses \o last
<1>1. /\ choice.calls \in Seq({choice.calls[i] : i \in DOMAIN choice.calls})
      /\ choice.reason # "tool_use"
  BY DEF ReasonsAreTheirs
<1>2. Decode(r.body).stop = StopReason(choice) /\ Decode(r.body).content = content
  BY DEF Decode
<1>3. first \in Seq(T) /\ \A i \in DOMAIN first : first[i].type = "text"
  <2>1. said \in T /\ said.type = "text"
    OBVIOUS
  <2>2. PICK some \in BOOLEAN : first = Optional(some, said)
    <3>1. first = Optional(TRUE, said) \/ first = Optional(FALSE, said)
      BY DEF Optional
    <3> QED BY <3>1
  <2> HIDE DEF first, said, T
  <2> QED BY <2>1, <2>2, OptionalIs
<1>4. last \in Seq(T) /\ \A i \in DOMAIN last : last[i].type = "provider_metadata"
  <2>1. meta \in T /\ meta.type = "provider_metadata"
    OBVIOUS
  <2> HIDE DEF meta, T, choice
  <2> QED BY <2>1, OptionalIs
<1>5. /\ uses \in Seq(T) /\ \A i \in DOMAIN uses : uses[i].type = "tool_use"
      /\ (\E i \in DOMAIN uses : uses[i].type = "tool_use") <=> choice.calls # <<>>
  <2>1. /\ DOMAIN choice.calls = 1 .. Len(choice.calls) /\ Len(choice.calls) \in Nat
        /\ choice.calls # <<>> <=> Len(choice.calls) # 0
    BY <1>1
  <2>2. uses \in [1 .. Len(choice.calls) -> T] /\ DOMAIN uses = 1 .. Len(choice.calls)
    BY <2>1
  <2>3. \A i \in DOMAIN uses : uses[i].type = "tool_use"
    OBVIOUS
  <2> HIDE DEF uses, T
  <2>4. uses \in Seq(T)
    BY <2>1, <2>2
  <2> HIDE DEF choice
  <2>5. Len(choice.calls) # 0 => 1 \in DOMAIN uses
    BY <2>1, <2>2
  <2>6. Len(choice.calls) = 0 => DOMAIN uses = {}
    BY <2>1, <2>2
  <2> QED BY <2>1, <2>3, <2>4, <2>5, <2>6
<1>6. content = (first \o uses) \o last
  OBVIOUS
<1> HIDE DEF first, uses, last, T, content
<1>7. (\E i \in DOMAIN content : content[i].type = "tool_use") <=> choice.calls # <<>>
  <2>1. first \o uses \in Seq(T)
    BY <1>3, <1>5, InConcatenation
  <2>2. (\E i \in DOMAIN (first \o uses) : (first \o uses)[i].type = "tool_use") <=> choice.calls # <<>>
    <3>1. (\E i \in DOMAIN (first \o uses) : (first \o uses)[i].type = "tool_use") <=>
             \/ \E i \in DOMAIN first : first[i].type = "tool_use"
             \/ \E i \in DOMAIN uses : uses[i].type = "tool_use"
      BY <1>3, <1>5, InConcatenation
    <3>2. ~ \E i \in DOMAIN first : first[i].type = "tool_use"
      BY <1>3
    <3> QED BY <1>5, <3>1, <3>2
  <2>3. (\E i \in DOMAIN content : content[i].type = "tool_use") <=>
           \/ \E i \in DOMAIN (first \o uses) : (first \o uses)[i].type = "tool_use"
           \/ \E i \in DOMAIN last : last[i].type = "tool_use"
    BY <1>4, <1>6, <2>1, InConcatenation
  <2> QED BY <1>4, <2>2, <2>3
<1>8. StopReason(choice) = "tool_use" <=> choice.calls # <<>>
  BY <1>1, Zenon DEF StopReason, NormalizeStopReason
<1>9. /\ Outline(Decode(r.body)).stop \in {"end_turn", "tool_use", "max_tokens", "refusal"}
      /\ Outline(Decode(r.body)).stop = "tool_use" <=> StopReason(choice) = "tool_use"
      /\ Outline(Decode(r.body)).uses = (\E i \in DOMAIN content : content[i].type = "tool_use")
  BY <1>2 DEF Outline
<1>10. Outline(Decode(r.body)) \in ResponseType
  BY DEF Outline, ResponseType
<1> QED BY <1>7, <1>8, <1>9, <1>10

\* Only the end of a call that answers changes what the loop sees of it.
LEMMA EndedCall ==
    ASSUME CallInv, ReasonsAreTheirs, Reply, pc' = "answered"
    PROVE  /\ pc = "flight"
           /\ Outline(Decode(tries[Len(tries)].body))'
                \in {s \in ResponseType : s.stop = "tool_use" <=> s.uses}
<1>1. PICK r \in Replies, t \in now .. Deadline :
         /\ Ends(t, [reply |-> TRUE, status |-> r.status, header |-> r.retryAfter,
                     large |-> r.large, body |-> r.body, began |-> began, ended |-> t])
         /\ Judge(r, t)
  BY DEF Reply
<1> DEFINE try == [reply |-> TRUE, status |-> r.status, header |-> r.retryAfter,
                   large |-> r.large, body |-> r.body, began |-> began, ended |-> t]
<1>2. /\ now \in Int /\ began \in Int /\ t \in Int
  BY OpenRouterAssumption DEF CallInv, CallTypeOK
<1>3. r.status \in Nat /\ r.large \in BOOLEAN /\ r.retryAfter \in Headers
  BY OpenRouterAssumption DEF Headers
<1>4. try \in Trial
  BY <1>2, <1>3 DEF Trial, Replied, Bodies
<1>5. try.body = r.body
  OBVIOUS
<1>6. Ends(t, try)
  BY <1>1
<1> HIDE DEF try
<1>7. /\ pc = "flight" /\ Len(tries') = attempt /\ tries'[attempt] = try
  BY <1>4, <1>6, EndsInv
<1>8. Decodable(r.body)
  BY <1>1 DEF Judge, Fail, RetryAfterWait
<1>9. tries'[Len(tries')].body = r.body
  BY <1>5, <1>7
<1>10. Outline(Decode(r.body)) \in {s \in ResponseType : s.stop = "tool_use" <=> s.uses}
  BY <1>8, BodiesDecode
<1>11. QED
  BY <1>7, <1>9, <1>10

\* ImplementsModelCall, without its fairness: towards the loop a call of
\* Complete answers once, with the outline of a response, or fails once, and
\* its attempts and waits are not seen.
THEOREM CallTheorem ==
    ASSUME ReasonsAreTheirs
    PROVE  CompleteSpec => Call!CallInit /\ [][Call!CallNext]_(Call!callVars)
<1>1. CompleteInit => Call!CallInit
  BY DEF CompleteInit, Call!CallInit, Call!NoAnswer, NoAnswer
<1>2. ASSUME CallInv, [CompleteNext]_callVars PROVE [Call!CallNext]_(Call!callVars)
  <2>1. ASSUME pc' = pc, tries' = tries PROVE UNCHANGED Call!callVars
    BY <2>1 DEF Call!callVars
  <2>2. ASSUME pc \notin {"answered", "failed"}, pc' \notin {"answered", "failed"}
        PROVE  UNCHANGED Call!callVars
    BY <2>2 DEF Call!callVars
  <2>3. ASSUME pc \notin {"answered", "failed"}, pc' = "failed" PROVE Call!Fail
    BY <2>3 DEF Call!Fail
  <2>4. CASE UNCHANGED callVars \/ CancelTurn
    BY <2>1, <2>4 DEF callVars, CancelTurn
  <2>5. CASE Send
    BY <2>2, <2>3, <2>5 DEF Send, Call!CallNext
  <2>6. CASE TransportError
    BY <2>2, <2>3, <2>6 DEF TransportError, Ends, Fail, RetryAfterWait, Call!CallNext
  <2>7. CASE Reply
    <3>1. pc = "flight" /\ pc' \in {"wait", "failed", "answered"}
      BY <2>7 DEF Reply, Ends, Judge, Fail, RetryAfterWait
    <3>2. CASE pc' = "answered"
      <4>1. Outline(Decode(tries[Len(tries)].body))'
               \in {s \in ResponseType : s.stop = "tool_use" <=> s.uses}
        BY <1>2, <2>7, <3>2, EndedCall
      <4>2. Call!Answer
        BY <3>1, <3>2, <4>1 DEF Call!Answer
      <4>3. QED
        BY <4>2 DEF Call!CallNext
    <3>3. QED
      BY <2>2, <2>3, <3>1, <3>2 DEF Call!CallNext
  <2>8. CASE Wake
    BY <2>2, <2>8 DEF Wake
  <2>9. CASE WaitCancelled
    BY <2>3, <2>9 DEF WaitCancelled, Fail, Call!CallNext
  <2>10. QED
    BY <1>2, <2>4, <2>5, <2>6, <2>7, <2>8, <2>9 DEF CompleteNext, Advance
<1>3. QED
  BY <1>1, <1>2, CallInvariant, PTL DEF CompleteSpec
==============================================================================
