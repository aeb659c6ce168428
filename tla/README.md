# Verification of EV Ops Copilot

EV Ops Copilot answers questions of an EV fleet's operations team: an agent plans
tool calls, reads what they return, decides whether to look further, writes an
answer and checks it against the evidence. Around it stand document ingestion and
search, a guarded SQL tool, a streaming API, and a loop from users' ratings to
evaluation cases. This directory holds TLA+ models of the parts whose correctness
depends on order, failure, timing or boundaries, the TLC configurations that check
them, and TLAPS proofs of what matters most. Paths below are relative to
`src/src/ops_copilot/` unless they start with `scripts/`, `docs/` or `tests/`.

## 1. The system

| Component | State it keeps | Operations | Talks to |
|---|---|---|---|
| Agent turn (`agent/graph.py`, `nodes/`, `turn.py`) | `AgentState`: lap, pending calls, raw results, tool history, evidence, stop reason, answer, groundedness | one node after another, routed by three conditional edges; a time limit over the whole | model calls, MCP client, events to the chat API |
| Model calls (`llm/client.py`, `llm/resilience.py`) | per model id: a breaker (failures, cooldown, trial slot), a queue (semaphore, tokens of the last minute) | `complete`, `complete_json`, `stream`, all through `_with_failover` | the model provider |
| MCP client (`mcp_client/client.py`) | current connection, retired connections, generation, a lock; per connection the calls under way | `call_tool`, `connect`, `close` | tool server |
| Tool server (`mcp_server/`) | result cache keyed by corpus version | structured query, document search, entity resolution | database, validator, retrieval |
| SQL (`sql/`) | the schema file | validate and rewrite a query; merge the schema with the database | database |
| Corpus (`rag/ingest.py`, `rag/corpus.py`, `scripts/reembed.py`, `db/migrate.py`) | documents, chunks, error codes, the model of the embeddings and the column's width (in the database); the model as last seen (in each process) | ingest a version, re-embed, migrate | database, embedding model |
| Chunking, retrieval, resolution (`rag/`) | none | split, fuse, boost, rerank, resolve | database, reranker |
| Chat API (`api/routes_chat.py`, `progress.py`, `main.py`) | background turns, one queue of events a request | `/chat`, shutdown | agent turn, feedback |
| API security (`api/security.py`) | calls of the last minute per address | rate limit, admin token | |
| Feedback (`feedback/`, `evaluation/live_judge.py`, `scripts/review_feedback.py`) | flags of turns (table), promoted cases (file), judgements | rate, detect a rephrase, judge a sample, promote, dismiss | database, agent turn |
| Evaluation (`evaluation/`, `scripts/run_eval.py`, `scripts/build_golden.py`) | the golden set; a run's folder: meta, results, report | build, run, resume, report, compare | agent turn, model calls |
| Observability, settings | recorded spans, counters; configuration | | everything |

**Concurrency.** One process, one asyncio event loop: between two awaits nothing
else runs. Turns run concurrently and share the breakers, the queues and the MCP
client. A turn that hits `api.turn_timeout_seconds` is cancelled at whatever
await it is in; so are the calls it made. Turns whose client has gone, background
judging and evaluation have no client to disappoint and run on. Ingestion, review,
evaluation, re-embedding and migration are programs of their own that meet only in
the database and in files.

**What is hard to test here** is listed line by line in `PROJECT.json`
("hazards"): cancellation in the middle of resource bookkeeping, calls that
started before a breaker opened or a connection was replaced and end after it,
nodes that fail after they had an effect, a time limit that falls between an
answer and its check, checks before an await repeated (or not) after it,
programs that meet in the database, sessions that end between two writes, and
boundaries in the pure steps, where an off-by-one looks like any other answer.

**What makes each component correct**

* Model calls: no permit is lost; only a provider's failures count against it; a
  breaker goes closed, open, half open and back; a recovered model is used again;
  every call ends; the budget holds and nobody waits past a limit.
* Agent turn: it ends, within the graph's recursion limit; no tool call is made
  twice; `partial`, `confidence` and the unverified note say the truth about how
  the turn ended; what passes the check stands on what it cites.
* MCP client: calls on a connection are counted right; no connection is
  forgotten or closed under a call; one outage causes one reconnect; every call ends.
* Tool server: a cached result is of no older corpus than the version its call
  read; what is denied is never read, what is flagged or out of the window is left
  out, and answers are bounded.
* Corpus: one embedding model's vectors at a time; the codes of a document are
  those of its current version, and a code somebody documents is known.
* Chunking, retrieval, resolution: nothing lost or misfiled; ranking keeps what
  both halves agree on; no vehicle is guessed between several.
* Chat API: a client shows one answer at a time and gets the end of its stream,
  whatever fails.
* Feedback: an implicit thumbs-down is on an earlier turn; a promoted flag has a
  case; a cluster is resolved only by cases that were scored.
* Evaluation: a resumed run scores no case twice; complete means all scored; a
  case made of a failure fails on that failure; a report hides no group.

## 2. Plan and state

1. `LlmFailover` (+ `BreakerCycle`, the abstract breaker), `ModelQueue`, which
   implements the wait `LlmFailover` assumes: done, with proofs.
2. `AgentTurn`, `McpClient`: done, with proofs.
3. `Corpus` and, over it, `ToolCache`: done, with proofs.
4. `Conversation`: the stream, the record, the rephrase and the judge around a
   turn: done, with proofs.
5. `EvalRun` and, over it, `Feedback`: done, with proofs, `Feedback` shown to
   implement `EvalSpec`.
6. Pure steps as operators: `Grounding`, `Orders`, `Retrieval`, `SearchTool`,
   `Chunking`, `Resolution`, `Periods`, `TurnTrace`, `SqlValidator`, `SqlTool`,
   `CaseChecks`, `RunReport`; `PureSteps` and, of the SQL tool, `SqlSteps` state what an
   input is and the properties of one, `MCPureSteps` enumerates: done, with proofs.
7. Left: the shutdown of the API with turns under way (see 7).

Composition: `ToolCache` EXTENDS `Corpus` (the ingestion under the cache is the one
checked), `Feedback` EXTENDS `EvalRun`, `Retrieval` and `Resolution` EXTEND
`Orders`, `SearchTool` EXTENDS both, `SqlTool` EXTENDS `SqlValidator`; `PureSteps` EXTENDS
the other pure modules, `SqlSteps` EXTENDS `SqlTool`, both over `Inputs`, and
`MCPureSteps` EXTENDS the two;
`LlmFailover` instantiates `BreakerCycle`, `ModelQueue` instantiates `LlmFailover`.

## 3. What is modelled

Common to all state machines: an action is one stretch of code between two awaits
(of a program: between two accesses to what others change), together with
everything it does without awaiting; what the outside answers is a
nondeterministic choice; a number read from a clock is replaced by the fact the
code derives from it. Each `PROJECT.json` "map" row names the lines of a definition.

### `LlmFailover` (with `BreakerCycle`)

| Model | Code |
|---|---|
| `breaker[m]`: `failures`, `cooling`, `probing` | `CircuitBreaker`: `failures`, `now < open_until`, `_probing` |
| `free[m]` | permits of `ModelQueue._slots` |
| `call[c]`: `pc`, `at`, `trial` | where a task is inside `_with_failover`: which target, admitted in half open or not |
| `healthy[m]` | whether the provider answers |
| `Start`, `Seek` | the loop over targets: `allow()`, skip, `continue`, `LLMUnavailable` or, in `primary_only()`, the provider's own error |
| `Acquire`, `Send`, `QueueTimeout` | `slot()`, `_reserve`, `QueueTimeout` |
| `ProviderFails`, `BadRequest`, `Answers` | the except branches and the success path |
| `StreamEnds` | the rest of `stream()`: no slot, no breaker |
| `Cancel` | CancelledError at the call's await, for calls under a turn's time limit |
| `CooldownEnds` | the clock passes `open_until` |

A failure that ends the try of one target and the `allow()` of the next have no
await between them, so both are one action. `failures` is only compared with the
threshold and counted to one past it. The token budget is the nondeterministic
choice between `Send` and `QueueTimeout`; `ModelQueue` says when which.

`BreakerCycle` is what a breaker promises: closed, open, half open, closed or open
again. `LlmFailover` implements it for each model under `state <- State(breaker[m])`.

### `ModelQueue`

The queue of one model, its clock included.

| Model | Code |
|---|---|
| `free`, `slotQueue` | `_slots`, and who is in its `acquire()` |
| `lockQueue` | `_budget_lock`: the head holds it, the rest wait for it |
| `spent` | `_spent`, by age instead of time; `reserved` (the estimate) is a history field, `of` stands for the reference a call has to its entry |
| `call[c]`: `pc`, `left`, `wake` | where a task is inside `slot()`; `deadline - now`; what is left of its `sleep(wait)` |
| `Enter`, `Acquire`, `SlotTimeout` | `wait_for(self._slots.acquire(), ...)` |
| `Reserve`, `Sleep`, `Refuse` | one turn of the loop in `_reserve` |
| `Finish`, `Cancel` | the body of `async with slot()` ends, with or without a usage to correct the entry; CancelledError in any await |
| `Tick` | the clock, when no task can run |

`Tick` waits for whoever can run, so what the runs find late is late by the
algorithm, not by a busy event loop. `_used` drops old entries when it is called,
`Tick` when they become old; nothing reads them in between. A window is three
ticks. `QueuesAsFailoverSays` maps this queue to `LlmFailover` with one healthy model.

### `AgentTurn`

| Model | Code |
|---|---|
| `node`, `steps` | the graph's position and LangGraph's count of node runs |
| `iteration`, `pending`, `results`, `history`, `stop`, `partial`, `next`, `lookup` | `AgentState` fields `iteration`, `pending_tool_calls`, `raw_results`, `tool_history`, `stop_reason`, `partial`, `next_question`, `complexity_hint` |
| `evidence`, `lap` | evidence, all of it and of this lap, counted: usable entries and entries that record an absence |
| `answer`, `grounded`, `retried` | the answer's origin, citations, note and confidence; `groundedness.passed`; `_grounding_retried` |
| `runs` | history variable: how often each call reached its tool |
| `Router` ... `Grounding` | the seven nodes, each with the edge leaving it; a guarded node may instead leave its fallback |
| `Timeout` | `asyncio.timeout` in `run_turn`, at any node, and the answer listed from evidence |

A tool call is its fingerprint. Models may reply with anything their schema
allows. Execute and Observe may fail after their effect: calls ran, but history
and evidence do not hear of it. The grounding checks are reduced to what follows
for control: an id that does not exist never passes, anything else may or may not.
The shipped configuration is an assumption on the constants (`ConfigAssumption`):
laps times calls stay under the evidence cap when each call gives one absence
(3 x 4 + 1 against 20), and 5 + 4 x laps under the recursion limit (17 against 60).
Not in the model: an exception in the one node that is not guarded (the check
itself, pure code), which ends the turn with an error.

### `McpClient`

| Model | Code |
|---|---|
| `conns[g]`: `state`, `retiring`, `inflight` | `_Connection` of generation `g`; "broken" is dead but looks open, "closed" is seen by `transport_open()` |
| `current`, `gen` | `_conn`, `_gen` |
| `call[c]`: `pc`, `conn`, `attempt`, `free` | a task inside `call_tool` |
| `GetConnection`, `Opened`, `OpenFails` | `_connect_locked` up to and after its await |
| `Replies`, `TimesOut`, `LosesConnection`, `Wakes`, `Replace` | `_call_once` and the except branches, `_replace` |
| `Cancel`, `Close`, `Breaks` | the turn's time limit, shutdown, the server |

Only opening a connection awaits while holding the lock, so the lock is not a
variable but the fact that some call is opening one. Left out: `close_later`,
which closes a retired connection after `call_timeout_seconds + 5` - by then no
call is on it.

### `Corpus`

| Model | Code |
|---|---|
| `docs[d]`: `content`, `at`, `vec` | a document with its chunks: its hash, `ingested_at`, and the model of its vectors |
| `codes`, `meta`, `width` | `error_codes`; `corpus_meta`; the type of `document_chunks.embedding` |
| `seen[w]` | `corpus._seen` of a process, good for `RECHECK_SECONDS` |
| `Start` | `corpus.check`, the look-up of the hash, the refusals |
| `Begin`, `Delete`, `Commit`, `Fail` | the write transaction of `ingest_text`: the hash once more, DELETE, the rest up to the commit; anything that rolls it back |
| `ReembedReads`, `ReembedWrites` | `scripts/reembed.py`: chunks read and embedded outside a transaction, written in one |
| `Migrate` | `sync_embedding_column` for an empty corpus, before the services start |

PostgreSQL runs the transactions READ COMMITTED. What a transaction writes is seen
at its commit; waiting for a locked row only delays, so a commit either succeeds or
meets what was committed since its DELETE looked: the primary key, the unique hash
or the width of the column. A text is its hash; the codes it documents and whether it
has a domain are constants of it.

### `ToolCache`

`version`, `call`, `data` are `_version`, the calls inside `cached()` and
`TTLCache._data`; the thread that reads the version and the `await` that
computes the result are where calls interleave with each other and with the
steps of `Corpus`' workers. Three ghosts (`changes`, `used`, `popped`) record what
the properties compare with. A result is the number of ingestions committed
before it was computed.

### `Conversation`

| Model | Code |
|---|---|
| `rows`, `ended` | `conversation_turns` in order of `created_at`; those with their outcome |
| `work[t]`, `draft[t]`, `partial[t]` | where the worker of a question is, the answer it writes, `AgentState.partial` |
| `stream[t]` | what the client of the question shows: drafts since the last `answer_reset`, the last record, closed |
| `judge[t]`, `flags` | the live judge of the turn; `flagged_interactions` the code writes itself |
| `Ask`, `RecordStart`, `Detect` | `events()` starts the worker; the row; `detect_implicit_negative` |
| `Write`, `WriteFails`, `Checked`, `TimeLimit`, `Raises` | `synthesize_node` and its fallback, `groundedness_node`, the ceiling, an exception that leaves the graph |
| `RecordEnd`, `Close`, `Judged` | `_record_end` with the sampling; the worker's `finally`; `review` |

The graph is what `AgentTurn` has in detail, reduced to what a client sees of it.
A client that leaves changes no step: the worker's queue has no bound.

### `EvalRun` and `Feedback`

| Model | Code |
|---|---|
| `golden`, `models`, `runs`, `proc` | `golden.jsonl`; the configured models; `evaluation_runs/`; the evaluation under way |
| `Begin`, `Resume`, `RunCase`, `Killed`, `Report` | `run_eval.py`: a new run, `--resume` (refused for a torn line or other models), one case with its line, a kill (perhaps within a line), `build_report` |
| `SwitchModels`, `Rebuild` | what happens between two invocations |
| `flags`, `rater`, `file`, `review` | `flagged_interactions`; calls of `record`; `promoted.yaml`; review sessions |
| `RecordLooks`, `RecordWrites`, `AutoFlag` | `record`: its SELECT and its write; a rephrase or a low judgement |
| `List`, `Dismiss`, `ReadCases`, `SaveCase`, `MarkPromoted`, `Leave` | a session of `review_feedback.py`, which may end at any step |
| `BuildGolden`, `LatestPass`, `Resolved` | `build_golden.py`; `latest_eval_results`; `cluster_status` |

A case is known by the turn it is made of. One cluster and one day are modelled:
clusters share nothing, and the flags `cluster_status` calls new since the fix are
those of a later day than it.

### Pure steps

`Inputs` has one variable, an input, and the properties of `PureSteps` and `SqlSteps`
compute on it. `MCPureSteps` goes from a first state per family to each of the
family's inputs. `WellFormed` and `StatementsWellFormed` say which inputs the code can pass -
what ingestion, the graph, a review, a run, the parser or a person can have come to,
of any size - and are the hypotheses of the theorems; every enumerated input satisfies them.
A statement is written flat, as `traverse_scope` lists it: its selects in a sequence, a
source that is no table at an earlier place.

| Module | Operators | Code | Left out |
|---|---|---|---|
| `Grounding` | tiers 1 to 3 of the check: tags, numbers, causes and hedges | `agent/nodes/groundedness.py` | the model's tier 4; a text is the tags, numbers and words the checks see |
| `Orders` | `sorted`, a comprehension's filter, the first k, the place of an element | as used by the next rows | |
| `Retrieval`, `SearchTool` | fusion, boost, shortlist, skip, rerank, threshold; the tool's path through resolution | `rag/retrieve.py`, `rag/rerank.py`, `mcp_server/tools/rag_retrieval.py` | similarities and scores are given |
| `Chunking` | sections, packing, splitting with overlap, captions, tables and their rows | `rag/chunking.py` | reading Markdown into blocks |
| `Resolution` | exact, padded, fuzzy; ask or assume | `rag/entity_resolution.py` | case and separators |
| `Periods` | week, month, quarter, year and the label of a quarter; the sliding window | `agent/calendar.py`, `api/security.py` | days are numbers |
| `TurnTrace` | spans of laps, nodes and calls; what is sent | `observability/tracing.py` | scrubbing, the exporter |
| `SqlValidator`, `SqlTool` | columns through aliases, CTEs and derived tables; joins; time bounds; quality guard; limit; what the database then returns; the schema's merge; the tool's two checks | `sql/validator.py`, `sql/schema_loader.py`, `mcp_server/tools/structured_query.py` | checks on the parsed text alone |
| `CaseChecks` | the deterministic checks; signals of a flagged turn; a case made of it | `evaluation/deterministic.py`, `feedback/signature.py`, `feedback/promote.py` | phrases stand for their normal form |
| `RunReport` | rates, headline, comparison, exit code | `evaluation/runner.py`, `scripts/run_eval.py` | intervals |

## 4. What is checked

| Run | Instance | Shows |
|---|---|---|
| `failover_safety` | 3 calls (2 stream, all cancellable), 2 models, threshold 2, 2 permits | `SlotAccounting`: no permit leaks or is returned twice on any way out. `HealthyNeverBlamed`: full queues, bad requests and cancellations open no breaker. `CycleOfBig`: the breaker implements `BreakerCycle`. |
| `failover_recovery` | 2 calls, none cancelled, 2 permits, fair | `ProbeHasTrial`: a taken trial slot has a trial behind it. `EveryCallEnds`; `RecoveredPrimaryCloses`. |
| `failover_stuck_trial` | as above, one call cancellable | violated: finding 1. |
| `queue` | 3 calls with one limit, one cancellable, budget 3, estimates 1, 2 and 5, replies of 1 or 3 tokens, 2 permits, fair | `WithinBudget`: what the window holds above the budget is only what replies used above their estimates. `InTime`: nobody waits past the limit. `QueuesAsFailoverSays`: the refinement. `EveryWaitEnds`. |
| `turn` | 4 tool calls, 3 laps of at most 2, up to 2 entries a call, tight limits, fair | `NoCallTwice`, also when a lap loses its results. `WithinRecursionLimit`. `PartialUnlessComplete`. `ShippedAsChecked`: a note and low confidence on what did not pass. `TurnEnds`: loop, rewrite and fallbacks lead to the end of the graph. |
| `mcp` | 3 calls, 1 retry, 2 generations, fair | `InflightCounted`, `NoneForgotten`, `OnlyBrokenReplaced`, `NotCutOff`, `EveryCallEnds`. |
| `corpus` | 2 documents, 4 texts, 2 codes, 3 models of 2 widths, 2 workers restarted on the new model, a re-embedding, a migration | `OneVectorSpace`: vectors, record and column agree. `CodesAreCurrent`: no code of a replaced version. `UnsharedCodesFound`: no code lost that only one text has. |
| `cache` | 2 callers, 2 keys, 2 entries, 4 calls, a document replaced meanwhile | `AnsweredSinceRead`: no answer is of an older corpus than the version its call used. `RecentlyUsedKept`: eviction takes the least recently used. |
| `chat` | 2 questions, one rewrite, fair | `OneDraftShown`: no two answers in one message. `FlagsPointBack`. `EveryStreamCloses`. |
| `feedback` | a flagged turn and a hand-written case, 2 flags, a run of up to 2 lines, 2 systems | `PromotedHasCase`: a flag is marked only when its case is in the file. `ResolvedWasScored`: a cluster is not called resolved on a case no run scored. `ScoredOnce`, `CompleteMeansScored`: across kills and resumptions. |
| `pure_steps` | 14 families of inputs, 150,000 in all | `GroundedMeansBacked`, `SearchesAreFair`, `ChunksAreWhole`, `IdsAreNotGuessed`, `WindowsHold`, `TurnsAreTraced`, `StatementsAreSafe`, `VerdictsHold`: each gathers the properties its modules state of one input. |
| `grounding_clause` | the same inputs | violated: finding 2. |

**Bounds.** Breakers: two calls make a straggler and a trial, a third another
call of a second tier; threshold 2 tells the failure that trips from the one
after it; two permits tell "one left" from "none". Turn: four calls and two a lap
leave one for a lap whose predecessor lost its results; three laps are the
shipped number; `RecursionLimit` and `MaxEvidence` are set to the smallest values
`ConfigAssumption` allows, so a single node run or entry too many is seen. MCP:
`MaxGen` is a bound of the model: the environment breaks no connection, and
shutdown does not happen, when the next generation would exceed it; two
generations let a call come back to a connection already replaced.

Queue: limits are shorter than the window, as shipped (40 s and 5 s against 60 s);
an estimate above the budget, a correction above and one below the estimate, and
three calls over two permits make a sleeper, a call behind it at the lock and one
still waiting for a permit at once. Nothing in `ModelQueue` needs a bound of its
own: ages and time left are bounded by window and limits, the entries by the budget.

Corpus: `MaxStamp` bounds write transactions to three: one to fill, two that
race. Two texts share a code and a third has its own, so a code can pass from one
document to another; one text is invalid. Cache: `MaxCalls` bounds calls to four
over two entries, enough to evict with one call between its read of the version
and its `put`; `MaxStamp` 1 lets one ingestion commit. Chat: `MaxTurns` is two, one
before and one that may flag it; `Drafts` is the shipped one rewrite. Feedback:
`MaxFlags`, `MaxRuns`, `MaxLines` bound rows, folders and lines; two lines are a case
without a score and its second try. Pure steps: the inputs of a family are the
smallest that tell its branches apart (`MCPureSteps` says which for each);
percentages and weights are the shipped ones, sizes and counts are small.

Deadlock is not checked where the system rests: when all questions are answered,
all calls of a bounded number are made, or the inputs are looked at.

**Fairness.** `LlmFailover!FairSpec`: waits are bounded (`wait_for`, the deadline, the
HTTP client's timeout), so a call's next step is weakly fair, as are cooldowns;
the semaphore is first come first served and budget windows move on, so a call
that keeps coming is not turned away by the queue for ever (strong fairness of
`Acquire`, `Send`, `Answers` per model; the last also says that not every request
is malformed). Cancellation and provider changes are not fair.
`AgentTurn!FairSpec`: nodes end, because each await in them is bounded; the time
limit is not assumed to fall. `McpClient!FairSpec`: opening ends one way or the
other, waits end by the deadline, `asyncio.Lock` is first come first served.
`ModelQueue!FairSpec`: a task that can run does, and time goes on (strongly fair, as
it stops while a task can run); neither the end of a request nor a cancellation is fair.
`Conversation!FairSpec`: database calls answer or fail and the ceiling ends the graph,
so a worker and a judge take their next step; nobody has to ask.

**Mutants.** Every property is paired with a plausible bug in the code it speaks
of (`Mut...` operators, each before the definition it mutates; `PROJECT.json`
says which run finds it).

## 5. What is proved

For every value of the constants that satisfies the modules' named assumptions:

* `LlmFailoverProofs`: `Typing` (`TypeOK`); `NoPermitLost` (`SlotAccounting`):
  with `TypeOK` inductive, because each action moves at most one call in or out of
  the holders of one model, where cardinality changes by one; `TrialSlotIsHeld`
  (`ProbeHasTrial`, if `UnderCeiling = {}`); `OnlyFailuresCount`
  (`HealthyNeverBlamed`); `EveryBreakerCycles`: each step maps to a step of
  `BreakerCycle` or a stutter.
* `ModelQueueProofs`: `Typing`, from the lemmas on queues (what appending, taking the
  head and removing from the middle do to members and order) and the count of
  permits; `AlwaysSomethingToWaitFor` (`_spent[0]` is never read of an empty deque);
  `NobodyWaitsTooLong` (`InTime` if all limits are equal): both queues are sorted by
  deadline, everybody at the lock is before everybody at the semaphore, and a
  sleeper wakes by its own deadline, so the head of the lock speaks for all - the
  argument that fails when limits differ; `BudgetIsKept` (`WithinBudget`): a sum is
  the number of its units, so appending adds what the appended entry counts, and the
  two steps that lower it - a correction, the window moving on - are compared unit by
  unit; `QueueServesFailover`
  (`QueuesAsFailoverSays`): each step is one of `LlmFailover`'s or a stutter, so what
  is proved there of permits holds here.
* `AgentTurnProofs`: `Typing`; `NeverLoopsOn` (`WithinRecursionLimit`), from an
  invariant that gives the number of node runs by node and lap (`StepIsCounted`);
  `NoCallRunsTwice` (`NoCallTwice`), whose invariant says where a call that has
  run may still be planned - only in a lap that is about to end the loop;
  `HonestEnding` (`ShippedAsChecked`, with laps that have a direction and high
  confidence that is earned) and `PartialIsTrue` (`PartialUnlessComplete`);
  `NothingFoundIsShown` (the cap on evidence never cuts an absence), from a bound on
  the entries a lap may add.
* `McpClientProofs`: `Typing`; `CountIsRight` (`InflightCounted`);
  `NothingIsForgotten` (`NoneForgotten`); `OneReconnectPerOutage`
  (`OnlyBrokenReplaced`). They are inductive only together with what the lock and
  the generations guarantee: one call at a time opens a connection and meanwhile
  there is no current one (`OneOpens`); the current connection is the latest
  (`Generations`); a lost connection stays lost, however often the call that lost it
  sleeps and comes back (`CallsHadOne`). `NoCallIsCutOff` (`NotCutOff`) follows:
  every step but `Close` stops a connection only when its count is zero.
* `ToolServerProofs`, of `Corpus`: `Typing`; `CodesFollowDocuments` (`CodesAreCurrent`) and
  `CodesAreFound` (`UnsharedCodesFound`), inductive because a commit replaces a
  document and all its codes at once and the unique hash keeps one text in one
  document; `OneModelAtATime` (`OneVectorSpace`, if every worker runs the new model):
  the invariant adds what a job under way and a re-embedding that has read its
  rows still know of the corpus (`VectorInv`).
  Of the cache over it: `CacheTyping`; `RecentIsKept` (`RecentlyUsedKept`): the keys of
  the cache are in the order they were last used, and what was dropped was used before
  all of them; `AnswersKeepUp` (`AnsweredSinceRead`, if one process ingests): what was read
  or answered of the latest `ingested_at` has seen every ingestion so far, because each
  commit is later than what was committed before it. With two processes a transaction that started earlier may
  commit later, and the latest `ingested_at` does not change.
  Of the SQL tool: `StatementsAreChecked` (`StatementsAreSafe`), of every statement, policy,
  schema and lookup. Place by place, no select hands a denied column on. For a set
  of rows - those not flagged, those not old - `KeptThroughout` says that if every
  select keeps to the set when the selects it reads do, the statement does; that each
  select keeps to it is an induction over its joins: a guard in ON meets every row that is
  joined, one in WHERE the rows of FROM that a LEFT join lets through, and a time bound
  in an ON before its table is joined holds of nothing (`FlaggedKeptOut`, `OldKeptOut`).
  What `validate` rewrites has the same sources and more conditions (`RewrittenGrows`).
  A plain read of an offered column passes every check of the validator of the same
  schema, if no time column is denied.
* `ConversationProofs`: `Typing`; `OneAnswerShown` (`OneDraftShown`), whose invariant
  says which draft a client can be showing at each place of the worker;
  `ThumbsDownPointBack` (`FlagsPointBack`, if `Hasty = FALSE`): rows are then
  inserted in the order of the questions.
* `FeedbackProofs`, of `EvalRun`: `Typing`; `NoCaseScoredTwice` (`ScoredOnce`): what is
  still to do has no score yet; `CompleteRunsAreScored` (`CompleteMeansScored`, if cases are only added
  between invocations and there are finitely many): the last lines scored "ok" are
  of different cases of the run, so as many of them as cases are all of them.
  Of the loop: `FeedbackTyping`; `FeedsEvaluation`: the loop implements `EvalSpec`, so
  the theorems above hold of it; `PromotedAreFiled` (`PromotedHasCase`) and
  `ResolvedIsEarned` (`ResolvedWasScored`), with one reviewer: what a session read of
  the file is still in it when the session writes.
* `PureStepsProofs`, of every well-formed input, of any size:
  * `VerdictsAreRight` (`VerdictsHold`): a percentage both of two groups reach is
    reached by them together, so the headline is never above it; a run reported
    complete is, because results with different ids, as many as there
    are cases, reach every case.
  * `PassedIsBacked` (`GroundedMeansBacked`): a sentence's words lie in clauses between
    the nearest edges, so a cause and the hedge that excuses it are in one clause.
  * `TimeIsRight` (`WindowsHold`): months begin 28 to 31 days apart, and a quarter's number is
    its months divided by three; the deque of the limiter is exactly the admitted
    calls of its window, so a refused call finds as many as the limit, and one
    moment after the wait it was told at least one less.
  * `TurnsAreShown` (`TurnsAreTraced`): an invariant over the node runs, kept by each
    node, says which observation is each node's, lap's and call's.
  * `SearchesAreRight` (`SearchesAreFair`): the ranks of a strict order are a
    permutation; what ranks better in both halves has no smaller sum, and equals keep
    the order they were met in; reranked scores go back to their own chunk.
  * `IdsAreAskedFor` (`IdsAreNotGuessed`): the longest common part of two texts is a number
    between 0 and their lengths; ratios, compared as fractions, order the fleet
    weakly and names strictly; an id splits one way into letters and number, so two
    that read the same have the same letters and differ in leading zeros only.
  * `NothingIsLost` (`ChunksAreWhole`): a text's letters are kept, in order, by every step
    of the way - splitting at breaks, regrouping, packing up to the size, the overlap,
    flushing, captions - and the stack of headings is the open ones, so a chunk is under
    the headings that stand before it; a table's rows stay in one chunk.

Recursive functions over naturals, sequences, pairs and finite sets are reasoned about through the
least argument at which a statement fails, and finite sets one element at a time
(`Least`, `OneByOne`): the statement is a set, where an induction theorem would take an
operator.

Only model-checked: the liveness properties, which are beyond the prover.
`CycleOfBig` is checked for one model; `EveryBreakerCycles` says it of each.

## 6. Findings

1. **A cancelled trial blocks a model for good** (`failover_stuck_trial`). The turn's
   time limit cancels a call by `CancelledError`, which `except Exception`
   (`llm/client.py:208`) does not catch. If the call was a breaker's trial, `_probing`
   stays set; unless a straggler clears it, the model is refused until the process restarts.
2. **A contrastive word ends no clause** (`grounding_clause`). `_CLAUSE`
   (`agent/nodes/groundedness.py:162`) has literal backspaces where `\b` was meant, so
   only punctuation splits: "the heater caused the loss but may need service" is
   one clause, and its hedge excuses the unsupported cause.

Met while modelling, stated here and not checked by a run; several are why a
constant or an assumption is as it is:

* Breakers and queues. A straggler that ends clears `_probing`, so a second trial may
  start beside the first (`llm/resilience.py:45` says only one). A stream leaves its
  slot when it opens (`llm/client.py:203`, against `docs/ARCHITECTURE.md:148-149`).
  The budget's lock is waited for without a deadline (`llm/resilience.py:86`, against
  `:12-13`): with mixed limits a call can wait past its own.
* MCP. A call fails with retries left when opening the new connection fails
  (`mcp_client/client.py:281-282`, `288`, `305`).
* SQL. The quality guard stands in ON or WHERE, where a RIGHT or FULL join does not
  let it leave flagged rows out; a time bound in the ON of a LEFT join does not bound
  the FROM table. Join keys of hidden tables and vanished columns are still offered
  to Plan (`sql/schema_loader.py:106-109`). An aggregate's result is cut at the
  limit without a word (`mcp_server/tools/structured_query.py:84`); `LIMIT 0` is
  answered "empty".
* Resolution. When more ids of the fleet read the same (but for leading zeros) than
  `max_suggestions` (3), the one typed as it stands may be missing from those shown
  (`rag/entity_resolution.py:72`), hence the condition in `TypedIsFound`.
* Search. A chunk boosted into the shortlist and then below the threshold may have
  pushed out a strong one; the skip of the reranker compares a boosted runner-up.
  Adjacent sections with equal headings are packed together.
* Corpus and cache. A worker still on the old model may write old vectors around a
  re-embedding (hence "restarted on the new model"). With two ingesting processes a
  version can be equal before and after a commit, as `ingested_at` is the
  transaction's start.
* Chat. Questions of one session that overlap may flag a later turn (`Hasty`). After
  a failed writing step the tokens shown are not the answer of the last record. The
  listed evidence of a failed step, if not partial, is judged as an answer.
* Feedback. Two raters at once insert two rows; two reviewers at once lose a case; a
  dismissal after a promotion overwrites its flags; promoting a case already in the
  file ends the session. A turn cut off before any evidence is filed under
  `wrong_tool` ahead of `hit_limit`.
* Evaluation. When the golden set is pruned between a run and its resumption, scores
  of cases that are gone count towards `complete` (`Prune`). A torn line makes a run
  unresumable and its results unreadable. A partial run in between hides a regression, as `diff_runs`
  compares with the previous run only.
* Tracing. What a guard catches never reaches `traced`, so a node that fell back is
  not marked as an error; the turn is sent all the same.

## 7. Not modelled

* Text: prompts, wording of answers and evidence, regular expressions (of `_CLAUSE`,
  what it separates), Markdown reading, SQL parsing, redaction.
* `agent/raw_store.py`, metrics and logs, which nothing reads back; settings, which are
  the constants.
* `rag/embeddings.py` and the judge's and router's prompts: calls of models whose
  answers are choices here. `evaluation/stats.py`, `agreement.py`: closed formulas over
  real numbers.
* `close_later` of a retired connection (`mcp_client/client.py`), which finds no call on
  it. The shutdown in `main.py`: it closes client and engines under background turns;
  only the client's part, `McpClient!Close`, is there.
* The chat route without a stream and the wording of progress; the other routes, thin
  handlers over what is modelled; the comparison of the admin token; `mcp_server/server.py`.
* Generating synthetic cases, seeding and collecting data, the interface, containers:
  one-off programs and files without logic of the service's own.
* Crashes of the service itself: it keeps nothing between turns but database rows,
  each written in one transaction; the programs that can be killed between
  two writes, review and evaluation, are modelled with that.
