# A verification model of gage

TLA+ modules of the parts of [gage](../src) where the order of events decides
whether the program is right, TLC configurations that check them on small
instances, and TLAPS proofs for every instance. gage is a Go library for
building agents: a loop that calls a model, runs the tools the model asks for,
and streams everything to the caller.

## The system

| Component | State it keeps | Operations | Hard because |
|---|---|---|---|
| Agent loop (`agent/loop.go`, `agent.go`) | conversation, turn, usage, loop guard, the two contexts | `Run`, `Resume`, a turn, retries, compaction | one goroutine sends to a consumer that may leave, under two contexts that end in either order; runs pause and are resumed in parts |
| Tool batch (`execTools`, `execTool`, `callTool`) | result slots, pending flags, semaphore, `sendMu` | start, approve, execute, time out, deliver, gather | one goroutine per call, and one more per call with a deadline, which survives it |
| Checkpoints (`session.go`) | a paused turn: conversation, calls, results so far | pause, decide, resume | held by the caller, possibly across processes; decided call by call |
| Compaction (`agent/compact.go`) | none | `Trim`, `Summarize` | must not separate tool uses from their results |
| Workflow runner (`workflow/workflow.go`) | none of its own | `Run`, `Resume` | load, run and save are three steps without a lock over them; each may fail, the process may die |
| Session stores (`sessions/`) | one file per session, a mutex | save (temporary file, rename), load, delete | crashes between the steps of a save |
| Permissions (`permission.go`, `policy/`, `tools/permission.go`) | cache of remembered decisions | `Approve` | asked by parallel calls; the cache is read, left and written |
| Registry and tool wrappers (`tools/`) | name to tool; a semaphore per limited tool | register, unregister, list, execute | changed while loops use it; waiting counts against deadlines |
| Token source (`providers/shared/oauth`) | stored credentials, a mutex | `Token`, `ForceRefresh` | concurrent 401s, rotating refresh tokens, a save that fails |
| codex, claudecode providers | the token source | `Stream` with one retry after a 401 | the retry races other refreshes |
| Fallback provider | events buffered before content | `Stream` | failing over after content was seen would duplicate it |
| HTTP client, SSE parser (`providers/shared`) | attempt counter; partial event | `Do`, parse | retries under retries; events split over reads |
| Provider wire formats (`providers/*`) | open block, tool-call accumulators | decode a stream, encode a request | deltas interleave over several calls |
| mcp client (`mcp/`) | session, registry to keep in step | `SyncTools`, notifications | list page by page while the server changes; replace is two steps |
| Memory (`memory/`) | records, vectors, next id | remember, recall, forget | embeds outside the lock; generated ids meet chosen ones |
| OpenTelemetry observer (`otel/`) | open spans by run, turn and call | one handler per observation | observations arrive from several goroutines |
| Example application: permissions and terminal (`examples/gage-coding`) | rules, remembered answers, one prompt, the mode, a cancel function | `Approve`, `/reload`, submit, cancel, resume, answer | parallel calls share one prompt and one memory; keys answer what is on the screen, not what is asked |
| Example application: runtime and snapshots | conversation, checkpoint, stored session; two stacks of change sets | `RunPrompt`, `RunResume`, `/undo`, `/redo`, `/clear`, loading a session | runs end in five ways, each of which updates different parts; files are recorded by parallel calls |
| Schemas, structured output, pricing, skills, search, SSE handler, built-in tools | little or none | single calls | mostly data and I/O |

How they interact: the caller starts `Agent.Run` and reads a channel. The loop
goroutine calls the `Provider` (itself perhaps a fallback over providers over
the HTTP client with tokens from a token source), relays its events, and hands
a reply's tool calls to `execTools`, which asks hooks and the `Approver`, looks
tools up in the registry and runs them. The results go back into the
conversation. A pending approval ends the run with a checkpoint. The workflow
runner loads a session, runs or resumes the agent, and saves what came of it.

What makes each part correct:

- the loop: requests the provider accepts (every tool use with its results),
  at-most-once execution over pauses, a budget and bounds that hold, one terminal
  event, an end in every case;
- the batch: complete results in call order however it was interleaved, the
  limit on workers, truthful reports, a return in every case;
- the workflow: nothing returned that is not stored, no history lost but what a compactor
  cut, repetition only where something was lost;
- permissions: no call passes on a decision made for another key; the registry
  and mcp: the registry reaches the server's list; tokens: a valid refresh token is
  never lost; fallback: content of one provider only; spans: each opened and
  closed once;
- the wire: what a server streamed is what the loop keeps, and what it keeps is
  what the next request says, in any provider's dialect;
- memory: every call as if it took effect at one moment; the example
  application: an undo that applies, a conversation that is never sent with calls
  left open.

`PROJECT.json` lists every component with its status and every hazard with the
line where it bites.

## The modules

| Module | Models |
|---|---|
| `AgentLoop` | `runLoop`, `streamTurn`, `consume`, `resumeToolBatch`, and a batch at the level of whole executions; the caller, the contexts, resumes |
| `AgentLoop_proofs` | theorems about `AgentLoop` |
| `BatchContract` | what `execTools` promises `runLoop`, however it runs |
| `ToolBatch` | every goroutine step of `execTools`, `execTool` and `callTool`; implements `BatchContract` |
| `ToolBatch_proofs` | theorems about `ToolBatch`, the refinement among them |
| `Workflow`, `MCWorkflow` | `workflow.Runner` over the file store, with the agent reduced to what `AgentLoop` shows of it |
| `TokenSource` | `oauth.TokenSource` and its file store under the `Stream` of codex, the retries of the HTTP client, a login, crashes |
| `Providers_proofs` | theorems about `TokenSource`, about `FlattenSeq`, and about the streams and requests of `Wire` |
| `ProviderStream` | what a `Provider` promises of the channel it returns |
| `Fallback` | the relaying goroutine of the fallback provider between the pumps of the inner providers and the reader; implements `ProviderStream` |
| `Fallback_proofs` | theorems about `Fallback`, the refinement among them |
| `Dialects` | operators: what the servers of Chat Completions, Responses, Anthropic, Gemini and Ollama stream, and what each client's decoder makes of it |
| `Encoders` | operators: the request each client makes of a history and of options |
| `Wire`, `MCWire` | a conversation over `Dialects` and `Encoders`: request, retries, pump, channel, `assistantAccum`, history |
| `Permissions` | operators: the decision of the library's policy and of the application's rules, and the tools a mode offers |
| `Spans` | the observer's map of open spans, one operation per observation |
| `Calls`, `MCCalls` | parallel tool calls from request to result: remembered answers, `Permissions`, the terminal's prompt, `LimitConcurrency`, `Spans` |
| `Calls_proofs` | theorems about `Calls` |
| `Snapshots` | the snapshot manager: recording, commit, undo, redo |
| `CodingApp`, `MCCodingApp` | the application's runtime over `Snapshots`: prompts, resumes, parallel edits, the stored session, restarts |
| `CodingApp_proofs` | theorems about `CodingApp` |
| `ToolSync` | the mcp client's reconciliation with a changing server and the registry |
| `ToolSync_proofs` | theorems about `ToolSync` |
| `MemoryPort` | what a `MemoryStore` promises: each call takes effect at one moment |
| `MemoryStore`, `MCMemoryStore` | the in-memory store and the memory tools; implements `MemoryPort` |
| `Stores_proofs` | theorems about `MemoryStore`, the refinement among them, and about `Workflow` |

`Calls` EXTENDS `Spans` and `Permissions`, `CodingApp` EXTENDS `Snapshots`, `Wire` EXTENDS
`Encoders`, and that `Dialects`; `ToolBatch`, `Fallback` and `MemoryStore` instantiate
their contracts. The MC modules hold the values and the symmetries of the instances.
`Workflow` and `Wire` name their specifications `RunnerSpec` and `WireSpec`, so that a
module of proofs can extend them together with another component.

### AgentLoop

`pc` is where the goroutine stands: `turn` (the top of the for loop), `stream`
(in `consume`), `backoff`, `batch` or `resume` (in `execTools` or
`resumeToolBatch`), `ending` (the terminal event is being sent), `closed`. `conv`,
`turn`, `usage` and `repeat` are the variables of `runLoop`; `status` says of each
call of the turn how far it is; `saved` are the checkpoints the caller holds. The
results in a checkpoint are the set of the calls that have one: a resume looks them up by id.
`Agent.Resume` takes a checkpoint as a value and never uses it up
(`agent/agent.go:48`): the same one may be resumed again, after a resume that failed (as
`examples/gage-coding/runtime.go:217` and `workflow/workflow.go:116` leave it to be) or after one that
did not, and so may an older one. Runs of one conversation therefore form a tree, and
`ran`, `shown`, `reqs` and `tries` are the history of one of its branches: of this run and of those that led
to it, each by the checkpoint that the next one resumed. A checkpoint carries the history up to its pause
(`past`), and a resume goes on from there. The properties are about such a
branch. What one branch executes another may execute again: `Workflow` counts that, for the
checkpoint in a store (`RepeatedOnlyAfterLoss`). One run goes on at a time.
`runDone` and `sendDone` are `ctx` and `sendCtx`: without `Config.Timeout` they are
the same context, with it the first is a child of the second, and the model lets
a cancelled parent reach the child a step later. No guard reads the history.

Text and deltas of a reply are one step; a delivery that fails in the middle of a
reply is `StreamAbandoned` or `StreamFails`. A tool's execution is one step here;
`ToolBatch` takes it apart. Identifiers of calls are distinct, as providers are
asked to make them.

### BatchContract and ToolBatch

The contract has no goroutines: each call is settled once, as a result or as
pending; each result is streamed once; the batch returns once, either complete
with both lists in call order or failed, and it fails only after a cancellation
or a timeout. `ToolBatch` has the semaphore, `sendMu`, the slots, a tool's own
goroutine with its deadline, and the final loop over the slots. Its `Contract`
instance maps slots and pending flags to outcomes. `limit` is a variable that never
changes, so that one run covers the sequential loop and the workers.

### Workflow

A conversation is the sequence of the requests it took in. `work` is what a
client's agent works on, `outcome` the session being saved and then what the caller
was given. A save takes the store's mutex, then renames the finished temporary
file or fails and leaves the file as it was. A crash ends all requests; what a
resume had executed and not saved is counted in `lost`. `serial` chooses between
clients that take turns and clients that overlap.

What an agent hands back may be shorter than what it was given: its compactor (`Compacts`)
keeps the first message and a tail, and the runner saves that
(`workflow/workflow.go:103`). `cut` is history and names the requests cut away. The
elision note or the summary that takes their place is text and left out. A compactor
of the caller's own could return anything; modelled are `Trim` and `Summarize`.

### TokenSource

A token is a number: a grant gives the next one, so that a later token is a newer
one. `call` says of each goroutine in `codex.Stream` where it is: waiting for the
mutex in `Token` or `ForceRefresh`, posting to the token endpoint, saving, sending
the request. `live` is the set of refresh tokens the endpoint still accepts; a
refresh either keeps its token or rotates it, which ends the old one. `store` is the
credentials file, `losses` says how newer credentials were kept from the store (an answer, a save or a process
that was lost, a login whose second save put older ones back): these
excuse a dead session, and nothing else does. The endpoint is external and does
what `Refresh` and the comments of the code expect of it. Access tokens age in any
state (`Age`), so that the check of the expiry and the backend may disagree.

### ProviderStream and Fallback

The contract says that events of one generation arrive, none after the one that
ends it, and that the channel is closed after that one or after a cancellation.
`Fallback` assumes it of the inner providers, or that they end without content
and without an error, as the comment in `tryOne` expects. Channels are unbuffered, so
an event passes from a pump to `tryOne` in one step (`Emit`) and from `tryOne` to
the reader in another (`Relay`). An event is its provider and one of four kinds:
`start` stands for what is no content, `text` for all content that goes on.

### Dialects, Encoders and Wire

A reply is a sequence of blocks: text, reasoning (signed or not), redacted
reasoning, a call. A piece of text carries the block and the place it comes from, so
that a lost, doubled or misplaced fragment shows. For each dialect there is what a
server may send (`...Wire`: fragments of parallel calls may be interleaved), what the
client emits for a chunk (`...Pump`) and at the end (`...Finish`), and what it writes into
the next request. `Wire` runs two turns over every pair of dialects: the pump reads on
only when its events were taken; `Flush`, `Delta` and `Consume` are `assistantAccum`; a
stream fails, is cut cleanly or at the token limit, is cancelled or asked again.

### Permissions, Spans and Calls

`call[c].at` is where the goroutine of a call stands: the two caches, the offer to the
terminal, the wait, storing the answer, the tool. `jobs` are the goroutines that run
tools, also those whose caller has stopped waiting. `listeners`, `carried` and `prompt`
are `waitApproval`, its message and the prompt on the screen. A policy is replaced and the
approver rebuilt by `Reload`, in the code's order, which may stop in between. `own` and
`granted` are history: what the user answered, and what was allowed beyond one call.
The keys are those of `handleApprovalKey`. A resume asks first, outside of any run.

### Snapshots and CodingApp

A change set maps files to a state before and one after; `undo` and `redo` are stacks of
them. A tool's call is four steps (record, write, format, record) of a goroutine, which
goes on by itself when the run it belongs to has ended. The conversation is a sequence
of four kinds of messages; `open` stands for calls without results. `awaiting`, `broken`
and `touched` are history and say which files of a change set the properties excuse, and
why: never recorded to the end, or changed by somebody else.

### ToolSync

A goroutine is a `list_changed` handler, a caller of `SyncTools` or one of `Register`. A tool is
its place in the server's order, with a version; a page is any stretch after the
cursor. `registry`, read once in `Look`, is then changed one tool at a time. `stable` is
history: what a reconciliation registered as the server has had it ever since.

### MemoryPort and MemoryStore

The port has no embedding and no ranking: a call takes effect in the step in which it
returns. In the store a text is embedded before the lock is taken; all that happens
under the lock is one step. `Near` is the embedder's similarity, any function. Ids that
callers choose overlap the generated ones.

## The runs

| Run | Instance | Shows |
|---|---|---|
| `loop` | 2 turns, 2 parallel calls, 1 stream retry, guard at 1 repeat, budget 3, compactor, timeout, a run and 2 resumes, 1 checkpoint held; about 808,000 states | well-formed requests; checkpoints account for what was done up to them; at most one execution and one delivery per call in a run and those that led to it; bounded repeats, spending and provider calls; an end |
| `tool_batch` | 3 calls, limits 0 and 2, one tool without deadline; about 105,000 states | the contract, the limit, truthful reports, termination |
| `workflow` | 2 clients, 4 requests, 2 paused turns of 2 calls, any cut of a compactor; about 296,000 states | stored before returned; repetition only after a loss; the stored conversation loses nothing but what a compactor cut |
| `token_source` | 2 goroutines, 3 tokens, 1 HTTP retry, logins; about 105,000 states | the session survives; a retry presents a newer token; every call returns |
| `fallback` | 3 providers, streams of up to 3 events; about 40,000 states | no failover after content; the contract; the channel closes |
| `wire` | 2 turns, 5 dialects, replies of up to 2 blocks and some of 3, 1152 combinations of options, 1 retry, 1 fault; about 500,000 states | what was streamed is kept; answers find their calls; sealed reasoning is replayed; options are honoured or refused |
| `calls` | 2 calls a turn, 3 requests, 4 policies, 3 modes, 2 runs or a run and its resume; about 1,200,000 states | consent covers what executes; no prompt is lost; spans are closed; runs return |
| `coding_app` | 2 files, 2 contents, 2 tools at a time, 2 runs, 3 calls, 1 fault; about 5,000,000 states | change sets apply; open exactly when a checkpoint is held; the store agrees |
| `tool_sync` | 2 tools in 2 versions, a handler, a caller, a registrar, 2 changes, 1 failure; about 760,000 states | the registry reaches the list; unchanged tools stay; syncs return |
| `memory` | 2 goroutines, 2 texts, 2 questions, 2 ids of which one may be both chosen and generated, 4 calls, 2 moments; about 1,500,000 states | vectors match texts; recalls give the best; the port |
| `calls_resume` | 1 call of an MCP tool, a run and its resume | **violated**: a resume allows what a live run asks about |
| `undo` | 2 parallel edits in 1 prompt | **violated**: an undo is refused although nobody else changed a file |

Why the bounds suffice. Two calls make a batch that can be half done, held in
part and resumed in part; two resumes make a resume of a resumed checkpoint, or two of the same
one. One checkpoint is held, since the callers in this repository keep the last one. The
guard needs three identical requests, which two turns of two calls contain both
within one reply and across two. Three calls with two workers make one worker
wait for a place. A stream retry's second attempt is the last. A fourth request
on a session makes a run, a pause and two overlapping resumes, and a conversation that
can be cut. Two goroutines on one token
source make one that refreshes what the other has just refreshed, in both paths.
Three providers make one before, one in the middle and one after the one that
delivers; with two events before the last one, content comes first, after a held
event, or before another event. Replies of two blocks have every pair of neighbours; those of
three have reasoning between two calls, and a call on each side of it. A second turn repeats the
ids that two dialects count anew in every stream. Two calls with one place and one
prompt make one wait for the other at every point; three requests are a command, a
compound one and a tool of an MCP server; the policies are rules by pattern, rules that ask, rules that
ask about MCP alone, and the library's with shells allowed. Three edits of two files make two of one
file overlap and leave one for the next prompt. Two tools make a listing that can be
torn between two pages; two changes can be there and back. Two goroutines and four
calls let one store, replace or forget an id while the other's text is embedded.

`MaxTurns`, `MaxStreamRetries`, `MaxRetries`, `MaxPlaces` and the budget are configuration
of the code; `MaxCalls`, `MaxRuns`, `MaxHeld`, `MaxRequests`, `MaxBatches`, `MaxTokens`, `MaxEvents`, `MaxFaults`,
`MaxChanges`, `MaxFailures`, `MaxGenerated` and `MaxTime` are bounds of the models. Deadlock checking is off
where the system ends or is bounded, and on for `TokenSource` and `ToolSync`, which
go on for ever.

### Fairness

`AgentLoop!Fairness`: Go schedules a goroutine that can go on; a provider's stream
ends or fails, since HTTP requests carry `ctx`; tools and approvers return. A send
is fair only while the caller has not cancelled, and fails fairly after: nothing
is assumed of a caller who has cancelled. Expiry, cancellation and resumes are not fair.

`ToolBatch!Fairness`: the same, and a tool that `callTool` waits for without a
deadline returns. A tool with a deadline may never return.

`TokenSource!Fairness`: goroutines go on, HTTP requests end, saves end. Taking the
mutex is strongly fair, since Go's `sync.Mutex` hands itself to a goroutine that
has waited for a millisecond (its starvation mode). Nothing is assumed of `Age`,
`Crash` or logins.

`Fallback!Fairness`: goroutines go on, a provider ends its stream, a reader that
reads takes what it is offered. A reader may stop reading at any time, and then
cancels, as every consumer of a stream in this repository does.

`ToolSync!Fairness`: requests are answered or fail, goroutines go on, `syncMu` is strongly
fair as above, and a notification gets a handler. Changes of the server are not fair.

`Calls!Fairness`: goroutines go on, providers and timeouts end what they guard, a tool
that is exempt from the timeout ends by itself, messages reach the screen. The user need
not answer, cancel or submit anything, and any other tool may hang for ever: a run
then returns unless it waits for the user, who has not cancelled.

`Workflow`, `Wire`, `CodingApp` and `MemoryStore` state safety only.

## What differs from the documentation

Two runs check a sentence that the code does not keep; the findings in
`PROJECT.json` quote it. `calls_resume`: a resume rebuilds a request without its
metadata, and the rules for MCP tools are not applied. `undo`: an edit that fails after
it was recorded leaves a change set that no undo accepts, and the message blames a
change by somebody else. Seen while modelling, without a run:

- Usage of a stream attempt that failed is dropped with it (`agent/loop.go:324`):
  `Result.Usage` is not that of "every provider call of the run" (`result.go:36`), nor
  does the budget count it (`agent/config.go:59`). `SpendingBounded` is about what is counted.
- A tool whose deadline passed gives its place up while it still runs
  (`agent/loop.go:789`): more than `MaxParallelTools` calls can run (`agent/config.go:77`).
  `ConcurrencyBound` is about calls that are being handled.
- A resume that fails after it executed calls leaves the old checkpoint in the store
  (`workflow/workflow.go:116`): it lists executed calls as "pending a decision"
  (`session.go:24`), and the next resume executes them again. So does the example application, which
  keeps its checkpoint (`runtime.go:217`). `RepeatedOnlyAfterLoss` counts such a failure as a loss;
  `CheckpointAccounts` says what a checkpoint says of the runs up to its pause.
- Ollama's decoder does not know the `error` line a server may send within the stream
  (`providers/ollama/native.go:79`): it reads past it, and a stream that failed ends as a complete
  message. In `Wire` such a stream is one that ends early without an error (`EndsEarly`); for the other
  dialects it fails (`ReadFails`).
- `Authorizer` "runs on every attempt" (`providers/openai/responses.go:18`), but is called
  once per stream (`responses.go:66`); retries of the HTTP client send the same header.
- A stream of Chat Completions that ends early without an error, or at the token limit,
  completes the calls it has (`providers/openai/chat.go:184`) although their arguments are
  cut. `StreamedIsKept` excepts these streams.
- Reasoning is replayed whoever sealed it: after a switch of the provider the Anthropic
  encoder sends blocks another one signed, or none (`providers/anthropic/encode.go:137`).
  `ThoughtsReplayed` is about a provider and its own seals.
- An undo that fails at one file keeps its change set "so the user can fix the cause and
  retry" (`mutations.go:172`), but files it had already written now differ from what was recorded,
  and the retry is refused. `StacksApply` excepts the files of a failed undo.
- `Client.Register` does not take `syncMu` (`mcp/client.go:188`): a tool it registers after a
  reconciliation has looked stays until the next one. `ReconciledMatches` excepts it.
- `Guard` returns `ErrApprovalPending` as an error of the tool (`tools/permission.go:46`): a
  guarded tool cannot pause a run.
- A generated memory id may be one a caller chose, whose memory is then replaced
  (`memory/store.go:85`). The port allows it.
- A stream that stalls after its headers is ended by nothing but the caller's context
  (`providers/shared/httpclient.go:32`).
- `Result.Turns` is "the number of provider calls the run made" (`result.go`), but
  counts turns: retries of a stream are not in it.
- `Result.Text` is "the text of the final assistant message", but is the last
  non-empty text, which may be of an earlier turn.
- A login that overlaps streams can end the session: `Login` saves twice and the
  second save may put back a refresh token that was rotated in between. Nothing
  is documented of it.
- The loop guard starts anew in a resume, so that a loop of calls that each pause
  is not detected.

## What is proved

TLC checks the instances above; the theorems hold for every configuration
admitted by the assumptions of the module and of those it extends (`BatchAssumption`, `ConfigAssumption`,
`TokenSourceAssumption`, `FallbackAssumption`, `SnapshotsAssumption`, `CodingAppAssumption`,
`StoreAssumption`, `WorkflowAssumption`, `ToolSyncAssumption`, `SpansAssumption`, `CallsAssumption`,
`WireAssumption`): any number of calls, limits, turns, retries, budgets, compactor results, callers,
providers, files, tools, goroutines and lengths of streams. They say that bounds are numbers, that
what is counted is finite, and that the value for "nothing" is not one of the things. The bounds of the models are constants too, so that a theorem holds
for each value of them.

`ToolBatch_proofs` rests on one inductive invariant, `IInv`. `ConcurrencyBound` alone
is not inductive: it needs that the semaphore is exactly the set of busy workers,
or, in a sequential batch, that a call is left before the next begins
(`WorkersInv`). `ReportsAreTrue` needs what is known of a call at each point of its
handling (`CallInv`). That a complete return lists everything needs that the
final loop starts only when all calls have exited without a failed delivery, and
that its lists hold, in order, the calls gone through (`GatherInv`). The proof has
one lemma for the call that moves (`CallInvOwn`), one for the others (`Others`,
`CallInvFrame`), and one per shared structure. `Refinement` then maps each step:
the four ways to get a result and a pending approval settle a call, `Send`
streams, the returns return, the contexts stop, all else stutters.

`AgentLoop_proofs` has seven arguments, each with an invariant of its own.
`BudgetInv`: wherever the loop may still spend, and in every checkpoint, the usage
is below the budget. `TerminalInv`: only results are delivered while the run goes
on, and a lost delivery implies a cancelled caller. `TriesInv`: the provider calls
made are bounded by the turns taken, by where the loop stands and, for each checkpoint handed out,
by the turn it was taken in: a resume goes on from what the checkpoint records.
`HandledInv`: the status of a call, or the checkpoint that holds it, says whether it was
executed and shown (`BatchInv` for the run, `SavedInv` for every checkpoint, by its own `past`); the calls of turns to come have ids nobody has
used (`Fresh`), and every tool message of the conversation was shown. It gives `HandledOnce`
and, about the checkpoints, `CheckpointAccounts`. No argument needs that a
checkpoint is resumed once, or how many are held (`MaxHeld`). `PairedInv`: between turns the conversation
is closed, each tool use with its results; while a batch runs or is paused it is closed up
to the last message, which asks for exactly the calls of the batch. The lemmas say that a
reply joins a closed conversation, that the results of a whole batch close it again, and
that no compaction cuts a tool use from its results.
`RepeatInv`, for `RepeatsBounded`: the loop guard's counter is at least the number of the
last requests that were identical, whichever replies and resumes they came with (`Counts`), and any
longer stretch of identical ones holds one that was not executed (`Spared`); the requests
of a finished batch never change. What the counter is after a reply is a recursive function
of its calls: `RepeatSteps` gives its equation and `Upward` is induction over a set of
natural numbers, which the well-foundedness of `<` in the library provides. `TypesInv` adds to the
types what is known of the checkpoint and of a batch.

`Providers_proofs`: `Exclusion` says that who posts or saves holds the mutex, so that one
refresh at a time works on what was stored when it began. `SessionInv` adds that the
stored credentials are usable while nobody saves, and those in the hands of the
caller that posts or saves at any time. `IssuedInv` bounds every token by the last
one issued; `RetryInv` says that from the forced refresh to the second attempt the
store, and whatever is about to be saved to it, is newer than the refused token.

`Fallback_proofs`: `OneStreamSeen` is not inductive, since it forgets what is held.
`IInv` says for each provider before, at and after the one being tried what its
stream has produced: nothing (`Untouched`), no content (`PassedOver`); and for the one
being tried that the held events are its whole stream (`Holding`) or that what the
reader has and what is being sent make it up (`Relaying`). `Refinement` maps `Relay`
and `ForwardLast` to a delivery, the close and the cancellation to themselves.

`CodingApp_proofs` has two arguments. `ConversationInv` needs no types: it says for a run in progress
what the conversation was before it (`Before`) and that this agrees with checkpoint and store,
and gives `OpenIffPending` and `StoreAgrees`. `StacksApply` needs more than the tops of the stacks:
`SnapInv` says that each stack is a chain, the state a change set leaves for a file being
the one the change set above it found (or, on the redo stack, the reverse), and that the change set being recorded continues it;
`ToolsInv` that a call of the run in progress has recorded its file before it writes. Then an undo
finds what it wants because what it uncovers wants what it wrote.

`Stores_proofs`, about `MemoryStore`: `IInv` adds to the types that a record is stored under its own id and that
a `Remember` that is about to store has a text and a time of creation to store; the vector
of an id is written in the step in which its record is. `Refinement` maps each return to
the port's step and everything before it to a stutter. `TheBestAreRecalled` is about the ranking: sorting a
finite set names every element once (`RankedSeq`), what the limit cuts off comes after what is
returned (`LeftOut`), and a recall ranks by vectors only if there is an embedder (`Embedded`).

`Stores_proofs`, about `Workflow`: `TypesInv` adds to the types that a request that saves has a session,
that the session file was saved, and that an agent without a batch has nothing to execute; with it
`ReturnedIsSaved` is inductive. The other two hold only one request at a time: `SerialInv` says that
at most one is under way (`Alone`); that its agent goes on from the conversation and the batch in
the file as it is now (`WorkOf`); that a call without a result in what is being saved was executed at most as
often as its batch was lost (`SavedOf`); and that so was one without a result in the file, unless
the agent at work has that result (`Undone`). Executing a call uses up what `Undone` leaves, losing the
request gives it back, a rename turns `SavedOf` into `Undone`. `HistoryKept` follows since a
rename alone changes the file, to a conversation that has what the file has but for what was cut
(`Keeps`, part of `WorkOf`); each cut adds what it takes to `cut` (`KeepsCut`).

`ToolSync_proofs`: `SyncInv` says who holds `syncMu` (`Exclusion`), that what a reconciliation has listed differs
from the server only in tools of which a notification is due or a handler is waiting
for the lock (`ListedInv`), that what it plans to drop and to add brings the registry to what it
listed (`PlanInv`), and what is true once it is done (`SettledInv`). `ReconciledMatches` follows
when nobody waits any more; `UnchangedStays` because a plan never drops a tool that is as listed.

`Calls_proofs` has four arguments. `PromptsReachable` is almost inductive: `PromptInv` adds the types of what
is about prompts and that before the first run there are no calls, so that no prompt of an older run
can be taken for a new call's. `SpansInv`, for `SpansClosed`, relates the observer's map to the calls: the
spans that are open are those of the run, the turn and the calls under way (`Observed`),
so that none is left when the run has ended. `TypeInv` gives the types. `ConsentInv`, for `NoBorrowedConsent`, says of each call that is
allowed whose consent it has: the policy's, the user's for this call, or one the user granted
for more than one call. It holds for all policies and rules: that the library's policy allows nothing its
configuration does not permit is `LibraryAllows`. What a resume asks of an MCP tool lacks the metadata of the tool, and
other rules may apply to it, as `calls_resume` shows. `Consented` therefore judges such a call by the request
the resume makes (`About`), and every other resumed call by the one the agent made: for these both are alike to the
rules (lemma `RulesAlike`).

`Providers_proofs` also proves `OptionsHonoured`: a request that was built is the body of some options for
the provider asked (`AskedInv`), and each dialect's body honours every option or is refused; for Anthropic
this is the arithmetic of `applyThinking` over any two limits (`BelowMax`).

Its third part is `ThoughtsReplayed`, for histories of any length with messages of any number of parts.
The encoders are compositions of `FlattenSeq`, a recursive function of the community modules:
`FlattenExists` and `FlattenEquation` give its equation, `SequencesUpward` induction over a set of sequences.
With them a `FlatMap`, which every encoder and every selection of parts or items is, maps a concatenation part by
part (`FlatMapConcat`), composes (`FlatMapTwice`), and two of them correspond element by element
when their pieces do (`FlatMapCorrespond`). So what Anthropic or Gemini is sent of a message corresponds to the
seals and calls of its parts (`SealsMatch`, `CallsMatch`, `GeminiMatch`), thoughts come first (`ThoughtsFirst`), and
the items of message `m` in a whole request are what `m` was written as (`ItemsOfMessage`). The invariant is only
`ShapeInv`: parts and messages are sequences, and what has a provider is of an assistant.

Its fourth part is `AnswersFindTheirCalls`, again for any replies and any number of turns. `Conversed` says of the
history that the calls of an assistant message have distinct ids and that one answer to each follows, in their order
(`Asks`), that every tool message is such an answer (`IsAsked`), and that the rest are the user's. From it every
encoder gives what the property asks (`ConversationAnswered`): by id, or, for Gemini and Ollama, by the name that
the last call of that id has among those before, which is the call's own however often older turns used the id
(`StretchCalls`). `Conversed` is kept only if a message never has two calls of one id, and that depends on the stream:
`StreamInv` says that the calls taken over, those in events still to be taken, and those the decoder may still
complete are different ones (`Streams`, `Pending`). A set of marks, each carried once (`Carries`), follows each
call from the chunks that end it to the event that reports it: every wire ends a call or block once (`WireFlow`), a
chunk completes at most the call it ends (`PumpDecodes`), whole calls are counted (`Counted`), Chat reports each of its
accumulated calls once at the end (`FinishReports`), and a stream cut at the token limit
ends at most the block that is open (`CutFlow`).

Only model-checked: `RunEnds`, `BatchReturns`, `StreamReturns`, `ChannelCloses`, `SyncReturns` and
`RunsReturn` (liveness under fairness is beyond the prover); and `StreamedIsKept` of `Wire`.
Nothing keeps that one from the prover in principle; its proof is unfinished. `CallsAnswered` needs only which
call a chunk ends, `StreamedIsKept` also what each of the five decoders has collected after any prefix of any reply
(text, arguments, open block, last seal) and that the events still to come complete it: an invariant per dialect, by
induction over the reply's blocks and each block's chunks, which is not stated here. The `wire` run checks the
property on all its replies. Every other property of a run is a theorem.

## What is not modelled

Within the modelled parts: what texts, images and documents say, except the pieces of
`Wire`; panics in caller code outside `Execute`; the content of `Result` except messages
and usage; compactors of the caller's own; the arithmetic of `Trim`'s cut and of token estimates; durations of waits and
`Retry-After`; codecs, deletion and the in-memory store of `sessions`; the spans inside
sub-agents, attributes and metrics; the line format of SSE, headers, tool schemas; the rendering
of the terminal and questions asked by tools.

Not at all: built-in tools, skills, web search, model lists, token counts and embeddings
(single calls to files, processes and servers, without state of their own); schema
validation and generation, structured output and prices (conversions of data); the SSE
handler (relays one stream); test doubles; start-up, configuration files and rendering
of the example application.

Further modules that would follow from these: the arithmetic of `Trim` against the
pairing it must keep, the observations of sub-agents in `Calls`, and proofs about the
decoders of `Dialects`, one at a time.
