# A formal model of go-harness-whatsmeow

The program is a multi-tenant WhatsApp assistant: it receives messages through
whatsmeow, runs each through a language model with tools, and answers on the
line it arrived on. This directory holds TLA+ modules translated from its Go
source, TLC runs that check them on small instances, and TLAPS proofs about
them. `PROJECT.json` is the index: components, runs, the mutants that show each
property can fail, the source lines behind each definition, hazards, theorems.

    tlc -workers 2 -config Pool.cfg MCWorkerPool.tla     # a run (see "Runs")
    tlapm WorkerPoolProofs.tla                           # the proofs of a module

## 1. Inventory

| Component | Source | State | Operations | Modules |
|---|---|---|---|---|
| event handler | `internal/wa/manager.go` | none | `onMessage`, `extractText`, `senderPhone` | Inbound, WorkerPool |
| worker pool | `internal/harness/workers.go`, `Harness.Enqueue` | a bounded channel per worker | `dispatch`, `start`, the worker loop | WorkerPool, Lanes |
| message pipeline | `internal/harness/{harness,identity,history}.go` | locals of `process`, its deadline | `process`, `resolveIdentity`, `buildHistory`, `runToolLoop`, `autoEscalate`, `reply`, `maybeSummarize` | Harness, Inbox |
| conversation store | `internal/store/{dedup,conversations,users,escalations}.go` | five tables | one SQL statement each | Harness |
| llm interface | `internal/llm/client.go` | none | `Response.Text`, `Response.ToolUses` | LLM, ModelCall |
| OpenRouter client | `internal/llm/openrouter.go` | attempts and timer of a call | `Complete`, `requestPayload`, `decodeResponse`, `waitForRetry` | OpenRouter, OpenRouterWire, Replay |
| Anthropic client | `internal/llm/anthropic.go` | none | `Complete`, `toMessageParam`; retries are in the SDK | AnthropicWire, Replay |
| session manager | `internal/wa/manager.go`, `internal/store/channels.go` | session map, `wa_channels`, whatsmeow's devices | `Start`, `connect`, `pair`, `Stop`, LoggedOut | Sessions |
| migration runner | `internal/db/db.go` | the schema, `schema_migrations` | `Migrate` | Migrate |
| configuration | `internal/config/config.go` | none | `Load` | Startup, and assumptions elsewhere |
| process lifecycle | `cmd/harness/main.go` | running, cancelled, down | `run`, `migrateOnly`, signal, stop | Startup, WorkerPool |
| tool registry | `internal/tools/registry.go` | the registered tools | role gate, `validateParams`, `Execute` | ToolInput, Tools |
| customer tools | `internal/tools/customer.go`, `internal/store/{orders,catalog,products,rules}.go` | none; four tables they read | five tools, one or two SQL statements each | Tools |
| audit log | `internal/store/audit.go` | `audit_log` | one insert; nothing calls it | not modelled |
| employee writes | `docs/DESIGN.md`, `0001_init.sql` | `pending_writes` | designed, not implemented | no code to model |

### How they interact

`main.run` loads the configuration, migrates the schema (which `harness migrate`
may do at the same time), starts the pool, then the sessions. A connected client calls
`onMessage`, which filters and normalises the event and calls `Enqueue` in
whatsmeow's event goroutine: `dispatch` must not block, so a full queue drops
the message. Each worker goroutine receives from its own channel and runs
`process` to the end under a five-minute context derived from the pool's. A
turn is a sequence of single SQL statements, model calls and at most one
`SendText`; there is no transaction around it. SIGTERM cancels the root context
(all statements and calls fail from then on), `Stop` disconnects the clients,
and `run` returns without waiting for the workers: the process may also die
anywhere. Only the tables and whatsmeow's device store survive.

### What is hard, and what makes each part correct

- **Pool.** Several lanes share one worker, queues overflow, a cancelled pool has
  two ready select cases. Correct: turns of one chat never overlap and run in
  the order accepted; an accepted message is in exactly one place; every
  accepted message is served; cancelled workers stop.
- **Pipeline.** Redelivery over two chat ids and over restarts; any statement may
  fail, or be applied and reported as failed; the deadline or a signal may come
  between any two; the history is cut at a row limit and folded into a summary
  from a snapshot taken minutes earlier. Correct: at most one reply and one
  stored user row per WhatsApp message; no answer without its history; each
  prompt is accepted by the provider's API and holds the turn; the summary
  holds exactly the rows up to the watermark, which only advances; escalation
  means exhaustion; a tool request gets its results or the sender hears of the
  failure; the employee line serves employees.
- **OpenRouter client.** Retries, `Retry-After`, a timer racing the context,
  replies that fail inside a 200, results that must answer calls in place.
  Correct: only transient failures are retried, never early, never more than
  allowed; every request pairs calls and results; replay loses nothing.
- **Providers.** The history holds blocks of whichever API answered, and the next
  process may use the other one. Correct: what is sent says what was received.
- **Start.** Two processes migrate at once, a kill or a lost acknowledgement comes
  between a script and its record, a configuration is refused. Correct: the
  schema is that of the first scripts in order, sessions run on the whole of it,
  a start comes to serve or ends.
- **Tools.** Inputs are whatever a model writes; numbers are float64, ids int64;
  an order is read by two statements while others change it. Correct: a handler
  sees only what its schema admits and its role may call; nobody reads another
  one's order; an answer is what a row was during the call; a search below its
  limit misses nothing.
- **Sessions.** Start interrupted anywhere, the device linked before it is
  recorded, devices unlinked by the phone. Correct: lines and devices stay one
  to one; a paired line is not paired again while its device exists; a serving
  manager serves every line; stopping leaves no client; `Start` returns.

## 2. Modules and how they follow the code

`Inbound` is `onMessage` without its last call: the early returns (`Ignored`) and
the record handed on (`InboundOf`), plus the two keys used later: the
deduplication key (company, id) and the conversation row (company, phone,
channel).

`WorkerPool` has the queues, what each worker runs and the life of the process
(`phase`). `OnMessage` is the handler with `dispatch`; `Receive`, `Finish` and
`Exit` are the worker's select; `Cancel`, `Disconnect`, `Halt`, `Boot` are
`main.run`. The hash is a constant function; its conversion to `int` and Go's
signed `%` are modelled (`ToInt`, `Rem`), so a narrow `int` gives a negative
index and a panic in the handler (`DispatchPanics`). `accepted`, `handled`,
`booted` and `unrouted` are history variables. `Lanes` is the abstract pool: one
first-in first-out lane per chat, no workers. Messages are numbered as they are
accepted, so that a lane is a set of numbers whose least is next.

`Harness` extends the pool with `process`. One action is one call that leaves
the process with the local code up to the next one, so that another worker, the
deadline, a signal or a crash can come between any two calls. `Outcomes` gives
the results of a statement: success, failure, or failure reported after the
commit. Messages are rows [conversation, kind, turn, uses]; ids are positions.
`covered` is the ghost of the summary's text: the set of rows it was told. Reads
that no later step of the turn can see change are joined to the next call
(`GetCompany` failing is `CompanyFails`). The store's `EnsureCustomer` is two
statements and two actions, `EnsureCustomer` (INSERT ... ON CONFLICT DO NOTHING)
and `LookupCustomer` (the SELECT). `TouchConversation` has no effect the
properties see. `Inbox` is the abstract view: a message is claimed once, then
answered at most once.

`LLM` is the response as the loop sees it (stop reason, has tool uses, has
text). `ModelCall` is one model call in the abstract: pending, then answered or
failed, and it always returns; `OpenRouter` refines it. `OpenRouter` is
`Complete` with a clock: attempts, the two-minute request timeout, the wait with
backoff or `Retry-After` (with `time.Duration`'s wrap-around), cancellation.
`OpenRouterWire` is the translation in both directions: `Payload` (history to
chat messages) and `Decode` (body to blocks and stop reason); `AnthropicWire` is
the same for the Messages API (`MessageParams`, `DecodeMessage`). `Replay` runs
the loop's conversation through them, block by block; `Restart` is a new process
with the other provider, between two turns. `received` remembers what each
assistant row was made from, so that ReplayLossless can compare it with the
request, whichever of the two APIs wrote the row and whichever reads it.

`Sessions` is the manager. `Starting` is the loop of `Start`, one statement or
network call per action; the scan of the QR code adds the device to whatsmeow's
store before `Record` writes `wa_channels`, as in `pair`; the new device may come
under a JID that the row of a line still holds, of a device unlinked since, and
then the UNIQUE constraint of the column refuses it to any other line
(`HeldElsewhere`). `connected` says who
receives events, `sessions` is the map replies look into.

`Migrate` is `db.Migrate` for any set of runners, one statement per action: a
script takes effect as a whole and fails if it already did (`0001_init.sql` is a
transaction of `CREATE TABLE` without IF NOT EXISTS); its record is a second
statement. The script, its BEGIN and its COMMIT go to the server in one message,
so that the server ends it whether the runner lives, stands still or dies: a
second runner waits for its locks no longer than the server takes for the
first, and that wait is part of the step. `Startup` composes two runners (`harness run`, `harness migrate`) with
`Sessions` and the checks of `config.Load` (`Loads`): `BeginRun`, `MigrateStep`,
`StartManager` and `ManagerStep` are `run` from its first line to its last. The
sessions' own actions are unchanged; a session action is a `ManagerStep`.

`ToolInput` is what happens to the input of a tool call before its handler: JSON
numbers become floats with a mantissa of `Precision` bits (`Float`), ids become
integers of `IntBits` bits (`Int64`, which saturates or wraps to the least value
as the processor has it), and `ValidateParams` checks a schema. `Conforms` is the
reference: what the schema says of the numbers as written. `Tools` is one call:
`Execute` up to the first statement, then the statements, between which `Write`
lets others change the tables: revise or archive rows, place orders, and give an
order to another customer of the company. `db` is the history of the tables, so that an
answer can be compared with the states of its call.

The modules `*Proofs` hold the theorems (section 4): `WorkerPoolProofs`,
`StartupProofs`, `ToolsProofs`, `OpenRouterProofs` and `ReplayProofs` each extend
the module they are about; those of the pipeline extend each other, from
`HarnessProofs` (it is a pool and an inbox, its types) over `HarnessTurnProofs`
(what a turn has left behind at each of its places) to `HarnessPromptProofs` (the
tail, the summary, the exchange).

The `MC*` modules give the constants their values. Definitions preceded by a
comment "Mutant" are faulty variants of the definition below them; no
specification uses them.

## 3. Runs

Eight runs pass; four show a disagreement between the code and what its
comments, its replies or its design document say.

| Run | Question | What it shows |
|---|---|---|
| Pool | Are chats serial lanes, also over shutdown, crash and restart, and are they served and stopped? | PoolTypeOK, SerialLanes, ProcessedInOrder, Accounted, RoutedUnlessOverflow, ImplementsLanes, EveryAcceptedHandled, WorkersStop; with a narrow `int` one chat maps to a worker through a negative hash and one to none |
| HarnessDelivery | What if one message comes twice, on two chats, and everything may fail: statements, their acknowledgements, model, sends, deadline, signal, crash? | HTypeOK, AtMostOnce, AnswersAreInHistory, EscalationIsExhaustion, UnansweredToolsAreTold, ImplementsInbox, ImplementsPool (the fair pool) |
| HarnessTurns | What does the model get to see, who is served on which line, and does everyone get an answer? | PromptWellFormed, PromptHoldsTurn, StaffLineServesStaff, RolesNeverChange, EveryMessageAnswered, with failing models and sends |
| HarnessSummary | Do summary and watermark agree under failures, crash and restart? | SummaryCoversWatermark, WatermarkAdvances, for one chat and a model that answers the summary call with a text |
| Replay | Are requests well paired, and is replay lossless, also after a change of the provider? | RequestPaired, ReplayLossless, over every shape of reply of both APIs |
| OpenRouter | Does a call retry as documented and return? | RetriesTransientOnly, RetriesAreSpaced, ImplementsModelCall |
| Startup | On which schema do sessions run, do lines keep their devices, and does a start end? | StartupTypeOK, SchemaInOrder, ServesMigratedSchema, OneDevicePerLine, EveryLineServed, StopDisconnectsAll, RecordedLinesKeepTheirDevice, StartReturns |
| Tools | What may a model's input do, and what do answers say? | HandlersSeeWellShapedInput, SchemaIsEnforced, OrdersStayPrivate, AnswersAreCurrent, SearchIsComplete |
| PoolConversations | Is one *conversation* serial? | No: refutes ConversationSerial |
| HarnessCutTools | Does every requested tool get its result? | No: refutes RequestedToolsAreAnswered |
| HarnessForgets | Does the summary cover what it claims when the model does not summarise? | No: refutes SummaryCoversWatermark |
| HarnessEscalates | Has who is told of a hand-over a row in the escalation queue when statements may fail? | No: refutes EscalationsAreQueued |

`CHECK_DEADLOCK FALSE` is set in every run but Tools, because deliveries, lives of
the process, messages and attempts are bounded, and the system then rests; a
tool call can always be followed by another. Of the
refuting runs HarnessEscalates needs one failing insert; the other three need no
fault: the claims fail in normal operation.

### Bounds

- Two workers, so that lanes can share a worker and can run in parallel; queues
  of one or two, so that both a full queue and two lanes in one queue occur.
  HarnessTurns has WORKER_QUEUE_SIZE 0, which the code raises to one.
- `MaxAccepted` (one to four deliveries, in all lives) and `MaxBoots` (one to two
  lives; three for Startup): a duplicate, a message after it and a restart
  between them are the smallest history in which deduplication, order and
  recovery can go wrong. HarnessDelivery has the two deliveries of one message and
  every fault. In HarnessSummary and HarnessTurns three messages fill the tail,
  cut it and fold it. As the deliveries are bounded, a cancelled worker of a run
  at last finds its queue empty; arrivals without end are what the strong
  fairness of `Exit` is for.
- `MaxToolIterations` one or two, `HistoryTailLimit` two or three,
  `SummarizeAfter` three or four: a tail cut inside a tool exchange, exhaustion
  and folding all happen.
- Hash values 0..7 and an `int` of three or four bits stand for 2^32 and 32 or 64
  bits; the theorems hold for any sizes.
- OpenRouter: three attempts, a second of two clock units, a deadline of ten, so
  that timeouts, waits and the deadline overlap in every order. Replay: up to
  eight messages, so that an exchange with parallel calls is replayed twice, and
  replayed to the other provider.
- Startup: two lines, one paired, four device ids, three lives, two scripts, two
  processes, nine environments of which three load: a life that ends anywhere
  leaves a half-done schema or pairing to the next, which a third one inherits.
  The theorems hold for any of these.
- Tools: floats with three bits of mantissa and integers of five, so that rounding
  (9 is read as 8) and overflow (beyond 15) are within reach of small literals;
  two companies, two customers and an employee, two writes by others, so that an
  order can change between its two statements and again after them. The limits
  10 and 20 of a search are 2 and 3, for catalogs of that size.

### Fairness

- Worker goroutines are scheduled: weak fairness of `Receive` and of the end of a
  turn. In `Harness` the end is not assumed but follows from weak fairness of
  each call (`Step`): statements and model calls carry a context with a
  deadline, and every loop is bounded. ImplementsPool shows that this yields the
  fairness the pool assumes, over every fault, the deadline, the signal, the
  exit of the workers and a restart.
- `Exit` has strong fairness: while messages keep arriving, a cancelled worker's
  select has two ready cases and Go chooses uniformly.
- A model call ends because the HTTP client has a timeout and the wait a timer;
  in `Startup`, statements and connections of the serving process return and a QR
  channel runs out of codes (`StartupFairness`); of `harness migrate` nothing is
  assumed, it may stop anywhere.
- Nothing else is fair: messages need not arrive, signals need not come.

## 4. Proofs

For every value of the constants: any number of workers, queue size, hash
function, set of events; any scripts, lines, devices, environments and number of
lives; any choice of faults:

| Theorem | Statement |
|---|---|
| `PoolTypeCorrect`, `SerialLanesTheorem`, `ProcessedInOrderTheorem`, `AccountedTheorem` | `PoolSpec` implies always PoolTypeOK, SerialLanes, ProcessedInOrder, Accounted |
| `RoutedTheorem` | `PoolSpec` implies always RoutedUnlessOverflow: only a hash beyond the largest `int` can be without a worker, so the panic is confined to builds with a 32-bit `int` |
| `SchemaInOrderTheorem`, `ServesMigratedTheorem` | `StartupSpec` implies always SchemaInOrder and ServesMigratedSchema |
| `StartupTypeCorrect`, `OneDevicePerLineTheorem`, `EveryLineServedTheorem`, `StopDisconnectsTheorem` | `StartupSpec` implies always StartupTypeOK, OneDevicePerLine, EveryLineServed, StopDisconnectsAll |
| `KeepDeviceTheorem` | `StartupSpec` implies RecordedLinesKeepTheirDevice, an action property |
| `WellShapedTheorem`, `OrdersStayPrivateTheorem` | `ToolsSpec` implies always HandlersSeeWellShapedInput and OrdersStayPrivate, for any further tools, inputs, tables, callers and writes of others |
| `SchemaTheorem`, `CurrentTheorem`, `SearchTheorem` | `ToolsSpec` implies always SchemaIsEnforced, AnswersAreCurrent, SearchIsComplete |
| `LanesTheorem` | `PoolSpec` implies ImplementsLanes, the whole refinement: workers, queues, signal, crash and restart are steps of independent lanes |
| `HarnessIsPool` | `HSpec => PoolSpec`: each step of the pipeline is a step of the pool or leaves it alone |
| `HarnessSerial`, `HarnessLanes` | hence turns of one chat never overlap in the whole pipeline, and it implements the lanes |
| `HTypeCorrect` | `HSpec` implies always HTypeOK: tables, locals, program counters |
| `AtMostOnceTheorem` | `HSpec` implies always AtMostOnce |
| `HarnessIsInbox` | `HSpec` implies ImplementsInbox: each step of the pipeline claims a message, answers a claimed one for the first time, or changes neither |
| `EscalationTheorem`, `StaffTheorem`, `RolesTheorem` | `HSpec` implies always EscalationIsExhaustion and StaffLineServesStaff, and RolesNeverChange, under every fault |
| `AnswersInHistoryTheorem` | `HSpec` implies always AnswersAreInHistory (W) |
| `WatermarkTheorem` | `HSpec` implies WatermarkAdvances, under every fault: a watermark goes back only in a conversation whose messages went to two workers |
| `ToolsToldTheorem` | `HSpec` implies always UnansweredToolsAreTold, under every fault (W) |
| `ConversationSerialTheorem` | `HSpec` implies always ConversationSerial (O) |
| `PromptHoldsTurnTheorem` | `HSpec` implies always PromptHoldsTurn (O, T) |
| `SummaryTheorem` | `HSpec` implies always SummaryCoversWatermark (O, S) |
| `PromptWellFormedTheorem` | `HSpec` implies always PromptWellFormed (O, C, W, T) |
| `RetriesTheorem` | `CompleteSpec` implies always RetriesTransientOnly |
| `SpacingTheorem` | `CompleteSpec` implies always RetriesAreSpaced (B) |
| `CallTheorem` | `CompleteSpec` implies the safety half of ImplementsModelCall: `Call!CallInit /\ [][Call!CallNext]_(Call!callVars)` (N) |
| `LosslessTheorem` | `ReplaySpec` implies always ReplayLossless, for any bodies of both providers, histories of any length and any changes of the provider |
| `RequestPairedTheorem` | `ReplaySpec` implies always RequestPaired (M) |
| `WholeToolsTheorem` | Whatever either decoder returns is, in outline, in `ResponseType` and has stop reason "tool_use" if it uses tools (M) |

The letters are hypotheses on constants, each an `ASSUME` of its theorem. Each
marks where the statement stops being true of the code, and where a run shows
that, it is named.

- **W**, `WholeTools`: a response that uses tools has stop reason "tool_use". The
  OpenRouter client sees to it (`Decode`; `CallTheorem` proves it of whatever it
  returns); the Anthropic client does not at `max_tokens`, which is what
  HarnessCutTools shows. `WholeToolsTheorem` says that W follows from M. A failing
  statement and a crash leave a request without results as well:
  `ToolsToldTheorem` says that under W the loop never goes on over the gap, and
  that a turn which comes to its end, however it failed, told the sender so. A
  turn lost in a crash comes to no end and tells nobody.
- **O**, `OneWorkerEach`: messages of one conversation have one worker. It follows
  from one chat per conversation (`OneChatIsEnough`) and fails for a contact
  addressed by number and by hidden id: PoolConversations.
- **S**, `WholeSummaries`: a response without tool use is a summary. Fails for
  refusals and empty texts, which `maybeSummarize` does not check: HarnessForgets.
- **C**, `Calm`: statements do not fail, no context ends and the process lives;
  the model and the sends may fail. A turn cut off between a
  tool request and its results leaves a history the API refuses.
- **T**: `HistoryTailLimit > 0`, which `config.Load` does not check.
- **B**, `FewAttempts` and `BoundedHeaders`: at most seven attempts, as the backoff
  doubles six times only, and no `Retry-After` beyond a `time.Duration`.
- **M**, `WholeMessages`: W for the messages of Anthropic themselves: one that holds
  a tool use ends with the reason "tool_use". Of OpenRouter nothing is assumed:
  `StopReason` gives a body with calls that reason whatever its finish reason is.
- **N**, `ReasonsAreTheirs`: no provider spells its `finish_reason` "tool_use", and
  the calls of a reply are a list.

`ToolsProofs` has hypotheses about data: `JsonInputs` (inputs are what a JSON
parser returns, within the range of the model's floats), `SchemasDeclare` (further
tools declare types that validateParams knows), `IsTables` (ids and ranks of the
first tables are integers, ranks are distinct), `LimitIsSmall` (the largest limit
of a search is a float64 and an int64 as it stands: 20 is), and `PowersDouble`, the law
of powers of two, which is true and which the provers do not know. The runs
HarnessDelivery (W), HarnessTurns (O, C, W, T), HarnessSummary (O, S), OpenRouter (B, N), Replay (M,
an assumption that TLC evaluates there) and Tools are instances that satisfy the
hypotheses.

**The pool's inductive invariant** (`PoolInv`, in `WorkerPoolProofs`). SerialLanes
is not inductive: nothing in it says that a *queued* message is on the worker
of its chat. `PoolInv` adds: every queued or running number is on
`WorkerIndex` of its message; queues are increasing; what runs precedes what is
queued on that worker; and every number accepted in this life is queued, running
or handled and in one place only. One worker per chat gives SerialLanes; one
increasing queue per worker gives ProcessedInOrder. For `LanesTheorem` the same invariant says
which lane a step of the pool belongs to: the number that `dispatch` adds is larger
than all of its lane (`AcceptLane`); the head of a queue is the least waiting
number of its lane, because the lane has no other queue, and that lane is free,
because its worker is (`BeginLane`); what ends was the lane's own (`EndLane`); a halt
empties all lanes at once (`LoseLanes`).

**At most once** (`ClaimInv`, in `HarnessProofs`). The invariant says that a
message with a reply or a user row is in `processed`; that two turns past
deduplication have different messages; and that a turn which has yet to reply
(or to store) has no reply (or row) for its message yet. Every action of a turn
is either the claim or a *work* step that adds at most one reply and one row of
its own turn and leaves the early part of the turn for good
(`StepIsClaimOrWork`); the invariant is then checked for these two only. The same
two kinds of step give the refinement: under ClaimInv a claim is `Claim` of
`Inbox`, a reply is `Answer`, and a step that leaves replies alone leaves the
count of answers alone (`InboxStep`).

**What a turn leaves** (`TurnInv`, in `HarnessTurnProofs`). None of the statements
about escalations and answers is inductive: each speaks of the end of a turn and
depends on everything the turn did. `At(i, label, t)` says what turn i has left
behind when it stands at `label`: nothing before its row is stored; in round n, n
assistant rows that all use tools and n rows of results, one more of the first
while tools run; a full count of both at the escalation; behind a pending answer
the rows it rests on; no reply before `reply`. A message in a queue has left
nothing. One lemma per action shows that it takes a turn from one such station
to the next and spares the rows, replies and escalations of all others
(`LeavesWell`, `StepLeavesWell`). 

**Who is served** (`StaffInv`). The employee line is checked once, at the start of
a turn; `StaffInv` carries the verdict through every later place of the turn, and
RolesNeverChange through later turns.

**The tail** (`TailInv`, in `HarnessPromptProofs`). A turn works with values that
`OpenConversation` and `BuildHistory` read minutes ago. The invariant says that
they still are what the tables hold: watermark and summary are the conversation's
(`Sees`), the prompt is the newest rows beyond the watermark, closed under later
rows, with the whole turn among them (`Prompt`), and the rows to be folded are
the oldest ones beyond it, without a gap (`Fold`). It says so of every conversation
but those whose messages went to two workers (`SplitConversation`, a state of
affairs that never ends, `SplitStays`), because in the others no other worker
writes. So the fold moves the watermark forward, over exactly the rows that it
was told, unless the conversation is split; under O none ever is
(`NeverSplit`), which is where the theorems about prompts and summaries use it.

**The exchange** (`PairInv`, `DebtInv`). WellFormed is about adjacent rows of a prompt;
`PairInv` says it of the whole history: next rows of a conversation are a request
and its results or neither, and the newest row requests tools exactly while a
worker runs them. `Alive` adds that a context which ended has a cause, so that under C statements
succeed. `DebtInv` speaks of one turn, without O or C, and of what may fail in it: at
every place of a turn at which the loop may go on, each request has its results
(`Answered`); while tools run, each but the last (`AnsweredButLast`); and where the
turn has left the loop over a request without results, the text of its reply is
that of a failure, or was (`Owes`).

**The model call** (`CallInv` and `SpacedInv`, in `OpenRouterProofs`). The recorded
attempts are one less than the attempt under way, each of them transient, and a
call that failed has one of three reasons; while it waits, `wake` is no earlier
than what the last reply asked for. The timer cannot fire early, and the next
attempt is not sent before it does. `CallTheorem` needs of the decoder only that
what it returns is the outline of a response (`BodiesDecode`).

**Replay** (`LosslessInv` and `PairInv`, in `ReplayProofs`). The filters and joins of the
wire (`Kept`, `FlattenSeq`, `UserMessages`) are recursive functions of a list. Two
functions that satisfy the recursion agree (`KeptAgrees`, `FlatAgrees`), which
tells what one more record does (`KeptOfAppend`, `FlattenOfAppend`); the rest
follows by induction over the length of the list (`SeqInduction`, where the
property is a set of lists): what is kept of a list kept or joined, that it is
the whole list or none of it. With these, a decoded body is taken apart
(`KeptOfDecoded`) and translated back into either request (`ChatReplyKeeps`,
`MessagesReplyKeeps`). LosslessInv says of *both* forms that their assistant
messages are those received, because a restart changes which of them is sent.
RequestPaired is a claim about whole requests, in which a turn is paired only
together with the results that follow it: `PairInv` says that the history is
paired in both forms, or, while tools run, that what precedes the last message
is. It is carried on by two facts: paired requests are paired when joined
(`ChatPairedJoin`, `MessagesPairedJoin`), and a message with the answers of
`ToolsRun` is paired by itself (`SaidIsPairedInChat`, `SaidIsPairedInMessages`).

**The start's inductive invariant** (`StartupInv`, in `StartupProofs`) has a part
for each half of the start and one that joins them. SchemaInOrder alone does not
say why a runner never records out of order: `MigrateInv` adds that a runner has
every script before its own recorded behind it (`PassedAreRecorded`), that
"done" means all of them (`DoneIsMigrated`), and that only one runner at a time
has a script applied and not recorded (`RecordingAlone`). `SessionsInv` adds to
OneDevicePerLine where `Start` is: the lines read and not yet done are the end
of the roster (`RosterIsLeft`), every line before them has its client
(`ServedOrLeft`), and the client under way belongs to the line under way
(`ClientUnderWay`). The join says that with the sessions alive the runner of
this process is at rest and every script is recorded; no step of the other
process can take that back, because a recorded script is never applied again.

**Tools** (`ToolsInv`, in `ToolsProofs`). OrdersStayPrivate is not inductive: the
answer shows a row that an earlier statement read, so the invariant carries
through the gap that this row is the caller's to see (`HeaderIsVisible`), and that
the call was admitted (`CallIsAdmitted`). HandlersSeeWellShapedInput rests on a
lemma about the schemas (`AssertionsHold`): each parameter a handler asserts the
type of is required by its schema and declared with that type. Two conjuncts of
ValidateParams suffice for it, whatever floats and bounds do. SchemaIsEnforced is
the other half and is about them: on numbers that are floats the checks agree with
the schema as written, one parameter at a time, and the verdict outlives the call
(`VerdictStands`). Its ids are those of the five read-only tools; what a further
tool calls its parameters is its own affair. AnswersAreCurrent carries the moment
of the first read through the gap to the second (`CurrentInv`); tables keep their
history and ids their rows, so that the row read then is still in it.
SearchIsComplete needs that the n rows with the least ranks exist and are n
(`FirstRows`), by induction over n, and that a limit the schema admits is the
number the statement gets (`LimitAsked`).

**Assumptions.** `PoolAssumption`, `HarnessAssumption`, `SessionsAssumption`,
`StartupAssumption`, `ToolInputAssumption`, `ToolsAssumption`, `OpenRouterAssumption`
and `ReplayAssumption`, evaluated by TLC in the runs. The last says that the calls
of a body are a list of ids and arguments, which are strings, and that blocks
are a list too. Those of the start say that lines and scripts are finite sequences
without repetition and that the devices recorded at the first start are of
different lines; those of the tools that a caller is a customer or an employee
and that no tool is registered twice (`Register` panics). The first two say that constants have their types, that the hash has a value
for each chat, that SUMMARIZE_AFTER exceeds HISTORY_TAIL_LIMIT (checked by
`config.Load`), that the tail limit is a natural number (which `config.Load`
does *not* check), and that a response with stop reason "tool_use" holds a
tool use (true of both clients unless a provider spells a `finish_reason`
"tool_use" without calls).

**Only model-checked.** Liveness (EveryAcceptedHandled, WorkersStop,
EveryMessageAnswered, StartReturns) and the fairness halves of the refinements
ImplementsPool and ImplementsModelCall: fairness is a matter of ENABLED, beyond the
prover. Everything else that a passing run checks is also a theorem, and so are two of the
statements that runs refute, ConversationSerial and SummaryCoversWatermark, under
the hypothesis the code lacks.

## 5. Deviations

Refuted by a run:

1. *PoolConversations.* The lane is hashed from company and chat JID; the
   conversation row is unique in company, user and channel. A contact addressed
   by phone number and by hidden id has two lanes and one row, so two workers
   work on one conversation. `docs/DESIGN.md:169-172` promises one serial queue
   per conversation.
2. *HarnessCutTools.* A response cut at `max_tokens` inside a tool call (Anthropic)
   is stored with its tool_use; the loop ends without results, and each later
   prompt that holds the row is one the API rejects. `harness.go:210`: "Execute
   every requested tool; all results go back in ONE user turn."
3. *HarnessForgets.* `maybeSummarize` stores the text of whatever response comes:
   an empty one or a refusal overwrites the summary while the watermark
   advances. `store/conversations.go:16`: "rows <= this are covered by Summary".
4. *HarnessEscalates.* `autoEscalate` only logs a failing insert into `escalations`
   (`harness.go:230`) and sends its reply all the same: "I've passed the
   conversation to a member of our team" (`harness.go:41`), in whose queue there is
   nothing. `SetEscalated`, which marks the conversation itself, may have
   succeeded or not.

Reachable in the models, but not stated as properties of a run:

- Chats of two companies may share a worker, and one waits for the other
  (`docs/DESIGN.md:170-171` says never).
- Deduplication comes after the queue, so that a redelivery takes a place in it
  (`docs/DESIGN.md:78-81` has the other order).
- A failing `GetCompany` (`harness.go:112-116`) ends the turn without a word; the
  lookups around it apologise.
- The apology of a turn that ran out of time is sent under the same dead context
  and is lost.
- With deviation 1, the later of two folds can carry the older snapshot and set
  the watermark back. WatermarkTheorem proves that there is no other way; the run
  has contacts with one chat only, for two that fold are beyond its size.
- A crash or failing statement between an assistant row and its results leaves
  the same dangling request as deviation 2. UnansweredToolsAreTold says what the
  sender hears of it; PromptWellFormed is checked for statements that succeed.
- On a build with a 32-bit `int`, half of the chats have a negative index
  (Pool fires `DispatchPanics`).
- A `Retry-After` of more seconds than a `time.Duration` holds wraps to a
  negative delay and the retry follows at once; RetriesAreSpaced is checked for
  delays that fit.
- SIGTERM or a failing statement between the scan and `SetChannelDeviceJID`
  leaves a linked device that no row records; the next start pairs again. The
  first device stays linked and unused.
- Between `Connect` and its entry in the session map a client receives messages
  whose replies find no session.
- When a script was applied and its record was not (crash, failed or
  unacknowledged statement), every later start runs the script again and fails,
  until someone adds the row by hand; SchemaInOrder holds all the while.
- An order or product id beyond 2^53 is read as the nearest float, so that the
  answer may be about another id (of the same caller: OrdersStayPrivate holds);
  2^63 itself passes for an integer where conversions saturate (arm64, the
  documented platform). SchemaIsEnforced is stated for numbers a float64 holds.
- The two statements of `getOrder` may combine the row of one moment with the
  items of a later one; AnswersAreCurrent says no more. The second statement has
  no condition on the customer, so that the items may be those the order has
  under its next owner; OrdersStayPrivate is about the row. Nothing in the
  program changes the owner of an order.
- After a change to Anthropic, an assistant row that held only OpenRouter's
  metadata or nothing, and the empty results of a `tool_use` without calls, become
  messages without content, which that API refuses; RequestPaired and
  ReplayLossless do not ask for content.
- What a refusal says (`message.refusal` of OpenRouter) is dropped: the client only
  looks whether there is a text (`openrouter.go:370`). It is not part of what
  ReplayLossless compares.
- HISTORY_TAIL_LIMIT of zero or less passes `config.Load`; the history is then
  empty, or its statement fails.

## 6. Not modelled

Texts, logs, prompts' wording, JSON syntax and HTTP headers other than
`Retry-After`; `last_activity_at`; the full-text match of a search (a row has a set
of words it is found under) and the JSON of results; the SDK's retries in the
Anthropic client and `toToolParam`; `GetService` and the audit log, which nothing
calls; the handlers' checks for a missing store or user (`customer.go:173`), since
`process` gives every call both; employee writes, which are designed
(`pending_writes`) but not written.
Statements are atomic
and ids follow the commit order (in PostgreSQL a sequence value is taken before
the commit; with one writer per conversation the difference is invisible, with
deviation 1 it is not). Administrators' changes of roles or lines while the
program runs. whatsmeow and PostgreSQL are modelled only by what the code relies
on.

## 7. Plan

In the order in which it will be written:

1. `History`: the insert of `Harness` split into the draw of an id and its commit;
   whether the fold can jump over a row not yet visible.
2. `Line`: Sessions composed with the replies of Harness; which replies find a
   session, and what `Stop` leaves in progress.

Theorems to add: that SerialLanes and AtMostOnce survive the insert split in two.
