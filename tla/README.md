# TLA+ models of the agentic RAG chatbot

This directory holds TLA+ models of the program under `src/`, the TLC
configurations that check them on small instances, and TLAPS proofs of the
properties that matter most. Paths below are relative to
`src/src/agentic_rag_chatbot_enterprise_ready/` unless they start with `docs/`.

    tlc -config im.cfg IntegrationManagerMC.tla    # one run
    tlapm IntegrationManagerProofs.tla             # the proofs of a component

`PROJECT.json` lists every run with what it shows, the lines each definition
stands for, the mutated form that each property is known to catch, the places
where code and documentation disagree, and the hazards that guide the work.

## 1. Inventory

The program is a Chainlit chat application over retrieval-augmented agents:
one asyncio event loop per web process, one user session per browser tab,
Celery workers for indexing, and a set of libraries around them (enterprise
integrations, document digitization, reliability stores).

| Component | State it keeps | Operations | What is hard |
| --- | --- | --- | --- |
| Integration manager, `backend/integrations/core/integration_manager.py` | `_connections`: id -> (state, live connector) | connect, refresh_health, disconnect, shutdown | no lock; what was read before `await _health(...)` is written after it; clean-up when a step fails |
| Connection runtime, `connection_runtime.py`, over `connection_store.py` | persisted records; `_runtime`: id -> hydrated connector | hydrate, hydrate_all, disconnect, shutdown; create, update, upsert, delete, list | two awaits in hydrate; records outlive the process; a batch must survive one failure |
| User upload indexer, `backend/indexer/user_uploaded_file_indexer.py`, run by `backend/tasks.py` | files, vector index, summary index, `index_metadata.json` | index_uploaded_files, should_reindex | four durable writes per request, several workers, files that change meanwhile |
| Chat session, `frontend/app.py` | chat history, agent, status message, animation task | on_message, check_indexing_status, on_settings_change, resume, feedback | two tasks write one message; lists shared by reference across awaits; the user stops a turn anywhere |
| Application runtime, `backend/application_runtime.py` | none of its own; conversation store, telemetry | execute, history | order of authorisation, ensure, handler, record_turn; failure of each |
| Conversation stores, `backend/reliability/conversation.py`, `chainlit_conversation_store.py`, `backend/databases/*` | threads, steps, ownership | ensure, append, list, delete; upserts of the data layers | check-then-act over awaits, soft deletion, partial turns |
| Agent runtime, `backend/orchestration/agentic_ai_system_runtime_core.py`, `integrated_agent_system.py` | model, index, memory, derived engines | the setters, run_agent_async | which derived objects a setter rebuilds |
| Provider connectors and clients, `backend/integrations/{business,collaboration}/` | HTTP client, credential, site | set credentials, authenticate, health_check, request, disconnect | retries, pages, credentials that change under a request |
| Credentials and registry, `credential_store.py`, `integration_registry.py`, `provider_adapters.py`, `integration_bootstrap.py` | secrets with expiry, descriptors | put, get, delete; register, unregister, create_connector | expiry on read, what each authentication mode needs |
| Digitization, `backend/process_doc/`; `doc_digitization.py` | checksums processed and in processing, review table | process_document_async, enqueue, fetch, resolve | concurrent duplicates, cancellation, replaced files, restarts |
| Reliability stores, `backend/reliability/*store*.py`, `observability.py`, `metrics.py` | traces in memory or in an append-only file, audit file, metric series | save, get, recent, annotate; record, prune; record a metric | bounded history, torn lines, latest record wins, limits that raise |
| Security policy, `security.py`, `security_rbac.py` | none | authorize | the audit of a decision may fail |
| Evaluation, `harness.py`, `benchmark.py`, `regression_promotion.py`, `retrospective.py`, `triage.py` | scenario catalog, proposals and reviews | replay, benchmark, propose, review, promote, analyze | executors that fail or are cancelled while the catalog grows |
| Release checks, retrieval, configuration | (almost) none | reports, calls of services | -- |

Interactions. `on_message` ensures the agent and an application surface, calls
`ApplicationRuntime.execute`, which consults the security policy, ensures the
conversation in the store, runs the agent and records the turn. Uploads are
written to the session's directory by the agent runtime and handed to Celery
by path; the worker runs the indexer on them. The connection runtime and the
integration manager create connectors through the registry; both are library
code that the application does not instantiate yet, so their callers are only
bounded by their documentation and tests.

What makes each component correct:

* manager and runtime: a table entry and its connector come and go together;
  no live connector out of reach; what was removed stays removed; a batch
  ends, over whatever listing it took;
* indexer: the metadata tells the truth about the indexes after any crash; a
  file that is answered as stored or as already indexed can be retrieved;
* chat session: the agent is asked with the history the user sees; the user
  sees the answer; every turn ends and leaves nothing running;
* conversations: only successful answers are persisted, as complete turns,
  and never in someone else's conversation;
* providers: a connector is built from a secret that is alive, a request is
  tried as often as its client says, and a health status is of one session;
* digitization: what is reserved is in work, what is skipped was finished, a
  queued review is resolved once;
* stores and reports: what a save or a decision left behind is there after a
  restart, a stored outcome is what became of the run, and the failures that
  two reports count of the stored runs differ as they should;
* regressions: only reviewed scenarios are replayed, and a report is true.

## 2. Plan

Written, in this order (most important behaviour first):

1. `ConnectorOwnership` - abstract: what a table of connections promises.
2. `IntegrationManager` (+ `MC`, `Proofs`) - implements 1.
3. `ConnectionRuntime` (+ `MC`, `Proofs`) - implements 1, over persisted records.
4. `UploadIndexer` (+ `MC`, `Proofs`).
5. `ChatSession` (+ `MC`, `Proofs`).
6. `ConversationLog` - abstract: the in-memory conversation store.
7. `Conversation` (+ `MC`, `Proofs`) - implements 6 over the Chainlit store and
   the Cosmos DB data layer; the MongoDB layer does not.
8. `DocumentPipeline` (+ `MC`, `Proofs`), and `DocumentText`, proved in the same
   `Proofs`.
9. `TraceReview`, `JsonLines`, and over both `TracedRequests` (+ `MC`, `Proofs`).
10. `Regressions` (+ `MC`, `Proofs`), over `TraceReview`.
11. `ProviderRules`, and over it `ProviderConnector` (+ `MC`), proved in 2's
    `Proofs`.

To do:

12. Proofs of what the compositions of 13 promise, and of what remains of
    DeletedStaysDeleted, OwnMessagesOnly (Conversation), AnsweredIsStored and
    SkippedIsUnchanged (UploadIndexer) when nothing is assumed of the callers.
13. Composition of `ChatSession` and `Conversation` at the action `Ask`, which
    now is an await that succeeds or raises, and of `ConnectionRuntime` and
    `ProviderConnector`, whose outcomes the former takes as given.

No module uses a RECURSIVE operator, and each names its assumptions on
constants, so that all can be proved about.

## 3. Modules

The event loop runs a coroutine undisturbed from one suspending await to the
next. In all modules an action is such a stretch of a handler, including the
clean-up it performs; what the coroutine remembers across the await is its
frame (`task`, `job`, `turn`). Awaits that never suspend (a coroutine that
awaits nothing itself) are no action boundary.

Operators whose comment starts with "Mutated form" are not part of a
specification. They are the faulty variants of the definition that follows
them, and the property they break is named in `PROJECT.json`.

### ConnectorOwnership
A connector is unused, serves one id, or is retired; an id has at most one
connector in service, and the only way out of service is `Retire`.

### IntegrationManager
`connections` is `_connections`; an entry keeps the status and the connector.
`phase` says whether a connector was created (`live`), disconnected (`closed`)
or raised in its disconnect (`broken`: it had its one clean-up attempt);
`owner` is history. `connect` is `ConnectRefused`, `ConnectNoContract` or
`ConnectStart`, then `ConnectHealthy` or `ConnectFails`; `refresh_health` is
`NotFound` or `RefreshStart`, then `RefreshDone` or `RefreshRaises`;
`Disconnect` and `Shutdown` do not suspend. `Cancel` is a task cancelled at
its await: no `except Exception` runs. Abstracted: the request's validation
(one refusal), descriptors, identities, messages; a health result is its
status. `SerialIds` and `CancellableIds` say what the callers do, not what the
code does: the ids on which no two operations overlap, and those on which a
task may be cancelled. Ids of every kind live in the same table, so that what
is claimed of a serial id is claimed beside ids that are not. The properties
ManagedIsLive, NoLostConnector, NoResurrection and the refinement are about
the serial ids; ConnectSettles is about all.

### ConnectionRuntime
`store` is the persisted record of an id (an element of `Revs`, what a caller
persisted; health is abstracted), `runtime` is `_runtime`. A frame is
`turning` in the loop of `hydrate_all`, `entering` hydrate, `resolving` or
`checking` (the two awaits). Between two hydrations `hydrate_all` does not
suspend, hence `Scheduled`. `CrashingIds` are those whose resolver may raise
something other than an IntegrationError; `SerialIds` and `CancellableIds` are
as above. NoStaleWrite is about serial ids, NoLostConnector and the refinement
about the settled ones, which are serial and not cancellable. `Restart` ends
the process: frames, table and sessions go, records stay. The registry is
assumed to give every hydration a new connector.

### UploadIndexer
`file`, `vector`, `summary`, `metadata` are the durable directories, by file
name; a content stands for its SHA-256. `indexed` is history. A `job` is an
executor (a worker process or the web process) with the frame of its request.
`Crash` kills an executor between two writes; `Fail` is any exception;
`Rewrite` is the web process writing an upload of the same name before it
queues the task. `TaskRefused` is the Celery task that refuses what it was
queued with: bad arguments, a missing file, or artifact identities that are no
longer those of the files. `Sequential` (in `MayStart`) and `StableFiles` (in
`Rewrite`) are disciplines of the callers: no line of the task or of the indexer
ensures that requests do not overlap or that files rest meanwhile. Abstracted: the files of one index directory are
persisted in one step; the expiry of records is folded into `Select`, which a
state never excludes; a path is a name.

### ChatSession
`lists` holds the content of the history list objects and `session` and each
frame refer to them, since aliasing is what goes right or wrong here. The pc of
a turn names what `on_message` awaits. `shown` is the content of the turn's
message: the status text or a number of answer tokens. `animation` is the task
that writes the status text. Frames of finished turns, their message and lists
nobody refers to are reset: nothing reads them. `CheckStatus`, `Feedback` and
`Resume` are the other handlers that touch this state; Feedback replaces an
empty history, which Python takes for a missing one, and Resume builds a new
agent from the history that Chainlit kept, or fails to. `serial` is chosen at
the start: turns one after the other, or the turns of `OverlapTurns` at once.
Abstracted: the texts, evidence rendering, settings, the application runtime
behind the question (an await that succeeds or raises) and the agent's memory
(the entries it was last built from).

### ConversationLog, Conversation
`ConversationLog` is `InMemoryConversationStore`: who opened a conversation
and its messages. `Conversation` is `ApplicationRuntime.execute` for questions
and `delete_conversation`, over `ChainlitConversationStore` and the data layer
named by `Backend`. `threads` and `steps` are the items in the database; a
deleted thread keeps its item and its steps. A `frame` is the coroutine of one
call, its pc the request it makes next, and one action is one request, because
anything may run between two: ensure_conversation is `Find`, (`Fetch`,)
`Create`; record_turn is `Answer`, then twice `Admit` and `AppendMessage`;
delete_conversation is `Locate`, (`Fetch`,) `Remove`; the front end's titling is
`Title`, (`Fetch`,) `Name`. The two layers differ where it matters: Cosmos DB
reads an item and replaces it (`CosmosUpdated`), MongoDB sets fields in place
and `isActive` with them (`MongoUpdated`). `Interrupt` is a failing handler, a
failing request (whose write may have happened), or a cancelled task. `clock`
orders the values of createdAt that one process hands out; two web processes
are two clocks and outside the model.
Abstracted: tenants (a caller is an actor with a session), the limit of
list_messages, texts (an answer is never empty, or record_turn raises: that
is `Interrupt` of "handling"), telemetry and the security policy (they raise
or have no effect here). Threads and steps that Chainlit itself writes are left
out: Chainlit is external.
`SerialThreadWrites` and `PrivateIds` are disciplines of the callers, not of the
code: nobody titles or deletes a thread while another request writes it, and
the id of a thread that does not exist yet is known to one session (Chainlit
makes ids at random).

### DocumentPipeline, DocumentText
`DocumentPipeline` is `process_document_async`: a `call` awaits the hash of its
file, the extraction, the redaction, the classification, and for a PDF the
imaging, each a worker thread that returns or raises. `processed` and
`processing` are the two sets of checksums, lost at a `Restart`; `review` is
the SQLite table, which stays. A document is its content and a content is its
own checksum, so `sum` and `text` differ exactly when a file was replaced
between the two reads (`Replace`). `Cancel` is a cancelled call: the code
releases the checksum in `except Exception`, which it is not.
`DocumentText` is the cutting of a text into overlapping chunks, as sets of
positions; it has no state. `DocumentPipelineMC` has TLC cut all texts of up to
six characters (ChunksKeepPassages), and the theorem is about any length.

### TraceReview, JsonLines, TracedRequests
`TraceReview` are the pure functions over stored traces: the retrospective's
facts and findings, health and evaluation. A trace is reduced to what they look
at; an error text and a failed event are two fields, since a trace may have
either without the other. `JsonLines` is a file that is appended to and read line
by line; an append that does not return leaves nothing, a part, a record without
its newline, or, when fsync raised, all of it.
`TracedRequests` composes them with `ApplicationRuntime.execute`: `Submit` is
the stretch up to the handler (authorisation with its audit record and prune,
metrics), `Complete` the stretch after it, with every place where a write or a
metric at its limit raises, and with the conversation that could not be ensured
(`NotEnsured`: no trace was opened); `Annotate` is a caller that adds evidence to
the trace it was given and saves it again, a save that fails and is tried again
or is crashed into like any other. The process ends where nothing is written
(`Crash`), in or around the append and the rewriting of an audit record
(`CrashInAudit`), or in the append of any trace: of a run that returned, raised
or was cancelled, and of an annotation (`DownInSave`). A rewritten audit file is
put in place by a rename, so it is never seen in parts. `Restart` opens the
stores again, which fails when a line does not parse. `durable` chooses the
trace store. What a prune keeps of the audit file and what the bounded
history keeps of the runs are the operators `Fresh`, `Retained`, `Stored` and
`Picked`. Abstracted: texts and attributes, phases (a failed event),
labels (a series per capability and outcome).

### Regressions
A `driver` is a caller of the harness: it replays one registered scenario, or
benchmarks a case under two architectures. Its frame holds the cases the call
was asked to run, those that are left, the run of the current one and the
results so far. An `author` holds a proposal, then its review, then may promote
it. Only the executor suspends. What an executor may leave in its trace is a
`Recording`: events, failed ones too, and evidence. `Ran` is the end of a case
with its trace saved, after which the call goes on (`Finish`) or, in a
benchmark, the metrics raise at a recorded attribute that is no number
(`MetricsRaise`). `ReplayAll` always raises and runs no case: it hands an
asynchronous generator to `tuple` (section 6). Abstracted: scores (an executor
meets the expectations or misses them) and the report's texts.

### ProviderRules, ProviderConnector
`ProviderRules` holds, by provider, the exceptions of the client, the requests
a method makes, the authentication modes and what the composition root
declares. `ProviderConnector` is one connector of a provider chosen at the
start: its secret (`PutSecret`, `DeleteSecret`, expiry by `now`), its
registration, `Create` through registry and adapter, its credentials
(`SetCredentials`, `Authenticate`, `DropCredentials`) and its calls. A call is
suspended while a request is in flight or backs off; what the method read
before is in its frame. Abstracted: payloads (whether they parse and what they
hold), delays, ownership of references.

## 4. Runs

| Run | Mode | Result |
| --- | --- | --- |
| `im` | 3 ids, two of them serial, one cancellable; fair | ManagedIsLive, NoLostConnector, NoResurrection and the refinement hold for the serial ids; ConnectSettles for all |
| `rt` | 2 ids, one serial with a crashing resolver, one cancellable and overlapping; a restart; fair | NoLostConnector and the refinement hold for the settled id, NoStaleWrite for the serial one (here the same); RuntimeIsLive, DeletedStaysDeleted, StartupFinishes for all |
| `up_sequential` | one request at a time, stable files, 2 crashes | RecordedWasIndexed, AnsweredIsStored, SkippedIsUnchanged hold |
| `up_drops` | as `up_sequential`, no crash | SkippedIsRetrievable **violated** |
| `chat` | 3 turns in sequence, or 2 and status checks overlapping; edited, stopped, failing, resumed; fair | RepliesHaveQuestions and TurnEnds hold; AskedInContext and RemovedStaysRemoved hold in sequence |
| `chat_answer_lost` | 1 turn | AnswerShown **violated** |
| `conv_cosmos` | Cosmos DB, serial thread writes, private ids | OwnMessagesOnly, AnswerFollowsQuestion, SuccessIsPersisted, DeletedStaysDeleted and the refinement hold |
| `conv_reopened` | MongoDB | OwnMessagesOnly **violated** |
| `documents` | 3 calls, 2 files (one PDF), a replacement, a cancellation or failed queue write or restart; fair | ReservedIsInWork, QueuedIsReviewedOnce, SkippedIsFinished, CallEnds hold |
| `requests` | 3 requests (one an upload), either trace store, at most 2 failed writes or crashes and 4 of both together | OpenStoreIsComplete, RecentMatchesIndex, DecisionsAreKept, TraceTellsOutcome, HealthCountsCancelled hold |
| `regressions` | 2 registered cases, 2 proposed ones; 1 author, 2 drivers, 3 runs of cases | PromotedWasReviewed, ReportsAreTrue hold |
| `provider` | each of 5 providers, 2 calls, 2 sessions; fair | BuiltFromLiveSecret, RetriesAreSpent, HealthIsOfOneSession, CallEnds hold |

The violated properties are what a docstring, a comment or a document says of
the code; `PROJECT.json` quotes each under "findings".

The disciplines are needed, which one changed constant shows. Were the
properties of `im` stated of all ids: refresh_health writes back an entry that
disconnect removed during its health check, against NoResurrection; and a
connect whose health check fails pops the entry of a newer connect, against
NoLostConnector, so that shutdown cannot reach its connector. A connect that is
cancelled during its health check (CancelledError is no Exception) leaves its
entry CONNECTING: ConnectSettles excepts it. In `rt`, two hydrations of one id
both pass the already-hydrated check and one live connector is lost, unless the
id is serial. `up_sequential` with `StableFiles = FALSE`: a
file replaced between loading and hashing is recorded with the hash of a
content nobody indexed, against SkippedIsUnchanged. `up_sequential` with two
jobs, `Sequential = FALSE`, `StableFiles = FALSE` and one content keeps
RecordedWasIndexed: metadata that concurrent workers lose costs a reindexing,
never a false record. `conv_cosmos` with `SerialThreadWrites = FALSE`: a title
is written over a deletion, against DeletedStaysDeleted, and readers see the
conversation come back, against OwnMessagesOnly and the refinement. With
`PrivateIds = FALSE`: two actors find no thread, and the second creation takes
over the thread and the messages of the first, against OwnMessagesOnly and the
refinement. AnswerFollowsQuestion and SuccessIsPersisted hold in all modes of
both layers.

Bounds. Two ids and two tasks are enough for one operation to disturb another
on the same id while a third party owns the other id; three connectors let an
id be reconnected while the first connector is still held, and `im` has a third
id so that a serial cancellable, a serial and a free one meet. Two revisions
tell a stale record from a current one. Two files tell a file's own indexing
from its neighbour's, two contents an old from a new one; two crashes cut off a
request and its repetition. Three turns are a question, its follow-up and an
edit of either; one token suffices to see an overwritten answer, and none is
streamed when turns overlap. One conversation suffices for `conv_*`, since no
action reads or writes two; three calls are a question, a deletion and the
question that opens the id again, by two actors with two sessions each. Three
calls of the pipeline are one in work, one that is skipped and one after a
failure. Limits of two traces and two audit events are passed by the third
request, which is what a limit of one would hide: a record without effect (its
fsync or its pruning raised) pushes out one that took effect only when both were
kept before; one day of retention is passed by the second day, four metric
series by the second request. Two mishaps are a torn write and what follows it,
and `MaxWork` allows three requests with one mishap or two with two. Three runs
of cases are a benchmark of two that a replay or a promotion interrupts; a
recording is evidence without events, or a failed event without evidence. Two
retries and two pages tell the first
from the last of each. `MaxRestarts`, `MaxCrashes`, `MaxChanges`, `MaxMishaps`,
`MaxDay`, `MaxWork`, `MaxTime` and `MaxRuns` bound counters that exist only for that.
`chat*`, `conv_*`, `documents`, `requests` and `regressions` have finitely many
turns, calls or runs, so they stop: deadlock is not checked there.

Fairness. `IntegrationManager`: weak fairness of a task's resumption, since
provider requests have timeouts and bounded retries. `ConnectionRuntime`:
strong fairness of a task's next step: other tasks hold the loop again and
again, and asyncio serves ready tasks first in, first out. `ChatSession`: weak
fairness of each handler and of the delivery of a cancellation.
`DocumentPipeline`: weak fairness of a call's next step, as a worker thread
returns or raises. `ProviderConnector`: weak fairness of a call's next answer,
as every request has a timeout; that a listing has a last page is assumed of
Graph (`MaxPages`). Callers, stops, crashes, restarts, replaced files and the
animation's ticks are never fair.

## 5. Proofs

`IntegrationManagerProofs`, for any sets of ids, connectors and tasks:

* `CommonInv` (no assumption on callers): the types, and that every connector
  in the table or in a frame was created for that id. Without the clause on
  frames EntryMatchesId is not inductive: connect and refresh_health write the
  frame's connector into the table. It gives TypeOK and EntryMatchesId.
* `SerialInv` adds, of the ids of SerialIds, that no two frames work on one id,
  that the connector of an unfinished operation is the one in the table
  (FramesHeld, what makes the write after an await safe), that the connectors
  in the table are live, and that every live connector is in the table. It
  holds beside ids that are not serial: with SerialIds = Ids it is about the
  whole table. It gives ManagedIsLive, NoLostConnector and NoResurrection, and
  it is what every step of the refinement of ConnectorOwnership needs.

The last part of the module is about the provider connectors the manager owns.
`ProviderInv`, for any calls, sessions and limits: the types; that a connector
with a site has it from the credentials it holds (SiteMatches); that a request
in flight has made no more retries than its client allows, and none of what may
not be repeated (RetriesCounted); and that, while nobody changed the
credentials, it is of the connector's site (SameSession). Without SiteMatches
the last is not inductive: a request takes the credential, the status reports
the site. It gives BuiltFromLiveSecret, RetriesAreSpent and
HealthIsOfOneSession. That the five tables of `ProviderRules` are of the right
shape, and that only a limited rate is answered by a rate limit error, are
lemmas (TablesTyped, ModesTyped, ErrorsTyped).

`ConnectionRuntimeProofs`, for any ids, connectors, tasks and records:

* `CommonInv` (no assumption on callers): the types, the shape of a frame at
  each await (FramesShaped), that one task at most has its turn (OneTurn),
  RuntimeIsLive, and that a connector under check is live, owned by the id
  (ChecksOwned), in no other frame and not in the table (ChecksApart), without
  which a failing check could disconnect what the table serves. It gives
  RuntimeIsLive and DeletedStaysDeleted.
* `SerialInv` adds, of the serial ids, that no two frames are at one id or have
  it still listed (FramesExclusive), that the record a hydrate holds is the one
  in the store, unless it was deleted (RecordsFresh), and, of the settled ids,
  that every live connector is in the table or under check (LiveHeld). It gives
  NoStaleWrite, NoLostConnector and the refinement of ConnectorOwnership.

`UploadIndexerProofs`, for any files, contents, executors and crashes:

* `TypeInv`: the types and the shape of the frames, for any mode.
* `SerialInv` (assuming Sequential and StableFiles): only one request runs,
  what it loaded is what the files hold, after each durable write that write
  holds what was loaded, and from the summary index on it is recorded in
  `indexed`. It gives RecordedWasIndexed. AnsweredIsStored and
  SkippedIsUnchanged say of such requests little more than this invariant and are
  left to TLC.

`ChatSessionProofs`, for any turns, messages and tokens:

* `HistoryInv` (however turns overlap): the types, that a list that is referred
  to exists (ListsHeld), that a turn past its question has it in its list
  (QuestionsHeld), and RepliesHaveQuestions.
* `SerialInv` adds, when turns do not overlap, that one turn runs (OneTurn),
  that the session has that turn's list, unless feedback on an empty history
  replaced it, and then the turn alone appended to its own (SessionHeld), and
  that the agent's memory is the history before the question (MemoryHeld). It
  gives AskedInContext and RemovedStaysRemoved.

`ConversationProofs`:

* `Inv` (either data layer, whatever overlaps): the types and which frames rely
  on an existing thread; that every createdAt is given once, which needs the
  stamps that running turns still hold (StampedOnce); that a question is stored
  before its answer, one tick earlier (QuestionsFirst); and that a success has
  both. It gives TypeOK, AnswerFollowsQuestion and SuccessIsPersisted.

OwnMessagesOnly, DeletedStaysDeleted and the refinement of ConversationLog hold
only while writers of a thread item do not overlap, which the code does not
ensure (section 4); they are model-checked and not among the theorems.

`DocumentPipelineProofs`, for any sets of calls, paths and contents: `IInv` is
the types, what a frame holds at each of its awaits (FramesFit), that the
checksum of a cancelled call is nobody else's (CancelledIsApart, without which
a release could take a reservation that is not the caller's), that a call
which did not meet a replaced file extracted what it hashed (OwnContent),
ReservedIsInWork, that a processed checksum is of a successful call
(ProcessedSucceeded) and QueuedIsReviewedOnce. It gives the two invariants and
SkippedIsFinished.

`DocumentText`, in the same module: a passage of at most overlap + 1 characters
that begins and ends visibly is whole in one chunk (KeepPassages): some chunk
starts at or before it, near enough (StartBefore), and stripping blanks keeps
it (StripKeeps). The chunk that has the passage is found by arithmetic, so no
induction over the text is needed.

`TracedRequestsProofs`, for any requests, roles, limits and retention. The two
halves of the state share only the requests, so each has its invariant:

* `AuditInv`, of the audit file: events lie in the order of their days
  (DaysInOrder, what makes a prune a cut), a record without its newline is the
  last line (OpenIsLast), a record that is due has a line that is whole
  (DueKept), and a file without a damaged line holds the last of the records
  that reached it, all that are due among them (CleanIsTail), which is why a
  prune that rewrites it loses none, and why an append whose fsync or rewriting
  raised takes away none; and a handler that is awaited has a record that grants
  it (Admitted). It gives DecisionsAreKept.
* `StoreInv`, of the traces: what a stored trace says is true of its request
  (TracesTell), only a store with a file leaves anything behind a process
  (MemoryIsLost), an open store has every saved trace or a newer one of which a
  save was tried (SavesKept), the last record of its run in a readable file is
  such a trace (FileKeeps), and RecentMatchesIndex. An annotation is the only
  thing that is saved over a saved trace, and it changes the evidence alone
  (AsSaved). It gives TraceTellsOutcome, HealthCountsCancelled,
  OpenStoreIsComplete and RecentMatchesIndex. What a reader makes of a file is
  defined by the last line of a run; that such a line exists is the least
  element of a set of positions, from the library's well-foundedness of the
  natural numbers, and no induction over the file is needed.

`RegressionsProofs`, for any catalog, scenarios, authors, callers and number of
runs: `Inv` is the types, that a run in progress belongs to one caller and is
not stored yet (RunsApart), that a registered scenario is a seed or approved
(Registered, Reviewed), that a proposal cites facts of a stored trace (Cited),
and that a call in progress has true results for the cases it was asked so far
and goes on with the rest (CallsTrue). A result is true (IsTrue) when the
stored trace of its run agrees with it; RunsApart is what keeps it so while
others save theirs. It gives PromotedWasReviewed and ReportsAreTrue.

The type invariants and EntryMatchesId (IntegrationManager) are proved and not
among the properties of the runs.

Only model-checked: the liveness properties ConnectSettles, StartupFinishes,
TurnEnds and CallEnds (of documents and of providers), which are out of the
prover's reach, and AnsweredIsStored, SkippedIsUnchanged, OwnMessagesOnly,
Conversation's DeletedStaysDeleted and ImplementsLog, whose assumptions on the
callers leave a theorem little to say. The theorems of a module with modes name
the mode in their hypotheses (`serial`, Sequential and StableFiles); section 4
shows what goes wrong without it.

## 6. Observed while modelling

Behaviour the models contain, that a reader of the code may want to know of
and that no finding is about:

* `process_doc/orchestrator/pipeline.py`: a cancelled call leaves its checksum
  reserved for the life of the process; the document is then always skipped.
* `durable_store.py:52`: after a torn line the trace store refuses to open.
  `security_audit_store.py:86`: after a torn line every authorize raises.
* `store.py:20`: `_by_id` keeps the traces that the bounded history dropped.
* `observability.py:37`: a cancelled run is stored as "running".
* `retained_store.py`: the trace store delegates and applies no retention.
* `retrospective.py:270`: `_fact_id` is asked for ids and compares kinds, so
  that of the findings for errors, evidence, retrieval and response none is
  made. An error trace with a failed event yields the medium lifecycle finding,
  one with an error text and no failed event yields none, although
  `tests/test_failure_triage.py:9-21` runs `analyze` on such a trace and expects
  a critical execution finding, and `tests/test_retrospective_engine.py:26-28`
  and `:58-59` expect findings about evidence, execution and retrieval.
* `connection_runtime.py:221`: `hydrate_all` goes on after an IntegrationError
  only. A resolver that raises anything else (line 108) ends it, and the
  connections after it are not tried, although the docstring (lines 203-209)
  says that "one unavailable enterprise system must not prevent unrelated
  integrations from loading".
* `security_audit_store.py:53-58`: the record is in the file before fsync and
  the pruning, so if either raises, the request is refused and its record stays,
  counts towards `max_events` and can push out a decision that took effect.
  DecisionsAreKept promises the newest records, not the newest decisions.
* `benchmark.py:246-253`: an attribute that is no number raises a TypeError
  after its run was saved, and the results of the whole benchmark are lost.
* `harness.py`: a case that expects "assertion_failed" cannot pass; an error of
  the harness itself passes a case that expects an error; a blank question in
  one case loses the results of the whole call.
* `harness.py:127`: `replay_all` gives `tuple` a generator that awaits, which is
  asynchronous, and raises a TypeError before it replays anything, though
  `docs/phase-56-reliability-replay.md:9` says it is there for "deterministic
  registration-order regression runs" and
  `tests/test_reliability_foundation.py:49-57` expects the results of both of
  its scenarios. `Regressions` has the step (`ReplayAll`); ReportsAreTrue is
  about calls that return.
* Salesforce's query_more refuses a relative nextRecordsUrl, and disconnect of
  a SAP connector with basic authentication changes nothing.
* `integration_bootstrap.py:352`: adapters get no configuration fields, so that
  modes which need a client secret or a password from the configuration cannot
  be built through the registry.
* `orchestration/agentic_ai_system.py:24` awaits a string after the indexing
  task was queued; `ChatSession` keeps both outcomes of that await.
* `agentic_ai_system_runtime_core.py:486`: set_index_name leaves the local file
  indexer with the index name it was built with.

## 7. Not modelled

See "components" in `PROJECT.json` for the operations left out of each part.
Left out altogether: the triage of findings (`triage.py`: a priority for each
category and severity, nothing else), language model, embedding and search calls (their outcomes
only), cloud SDK wrappers and configuration, release checks and dashboards
(comparisons over one input, without state), the texts of PII redaction and of
extraction, log-in through Azure AD, and user, element and listing requests of
the data layers (single requests without control).
