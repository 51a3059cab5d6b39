# Verification of flux0

TLA+ models of the server side of flux0: agents run in background tasks, emit
chunks and status events to an in-process emitter, and each HTTP request streams
back what is emitted under its correlation id. Paths below are relative to the
repository; `core`, `stream`, `api`, `nanodb`, `server` stand for
`packages/<name>/src/flux0_<name>`.

Everything runs in one asyncio event loop. There are no threads: a switch can
only happen where a coroutine really suspends, and that is what the models take
as their grain of atomicity. An `await` of something that does not suspend (a
lock nobody holds, `put` on an unbounded queue, a coroutine without a suspension
point) is not a switch.

## Inventory

| component | state | operations | hard because |
|---|---|---|---|
| BackgroundTaskService (`core/background_tasks_service.py`) | `_tasks` by tag, `_lock`, `_last_garbage_collection`, collector task | `start`, `restart`, `cancel`, `cancel_all`, `collect`, `__aexit__` | the lock is held across an await of a task; calls overlap; callers are cancelled; `now` is read before the lock |
| MemoryEventStore (`stream/store/memory.py`, `stream/patches.py`) | documents in progress, last chunk index, finalized events | `add_chunk`, `finalize_event`, `__aexit__` | chunks can be out of order, and an operation can fail after others were applied |
| MemoryEventEmitter (`stream/emitter/memory.py`) | queue, subscribers by correlation id, worker task | enqueue, subscribe, unsubscribe, worker, `shutdown` | worker against drain; a message that raises; notification against store |
| SessionService and the streaming route (`api/session_service.py`, `api/sessions.py`) | one generator, queue and `asyncio.Event` per request | post, dispatch, stream, cancel, greet | three tasks per request; clients disconnect at any await; a newer request replaces a run |
| Session, agent and user stores (`core/storage/nanodb_memory.py`) | NanoDB collections behind a readers-writer lock | create, read, update, delete, list | several operations per transaction; offsets are counted |
| NanoDB (`nanodb/`) | a list of documents per collection | find, insert, update, delete | validation after insertion, aliasing, query and projection recursion |
| LangChain adapter (`stream/frameworks/langchain.py`) | `RunContext` | `handle_event`, `filter_and_map_events` | a protocol of many event kinds translated into patches; fragments of parallel calls |
| Correlation scopes (`core/contextual_correlator.py`) | a context variable | `scope` | the context is copied when a task is created |
| Auth (`api/auth.py`) and the routes (`api/agents.py`, `api/sessions.py`, `server/app.py`) | none of their own | noop handler, every route | what was read is used some awaits later; the default user is read, then created |
| Server (`server/main.py`, `server/container_factory.py`) | exit stack, imported modules | start, load, serve, stop | order of shutdown, exception against clean exit, tasks that outlive it |
| DTOs, logging, CLI, scripts, chat client | | | see "Not modelled" |

How they interact. A request enters a correlation scope (`server/app.py`), is
given a user (`api/auth.py`), and its route reads and writes the stores. A POST to
`/{session}/events/stream` stores the user's message (`post_event`), leaves a
dispatcher task that waits for `subscription_ready`, and returns a response whose
generator `event_stream` subscribes with the emitter under the event's
correlation id and sets the event. The dispatcher then calls
`BackgroundTaskService.restart` with the tag of the session, which cancels and
awaits the session's earlier run. The run finds its agent type's runner in the
container, and enqueues chunks and statuses, of its own or through the LangChain
adapter; the emitter's worker puts each chunk in the event store and notifies the
chunk subscribers, and turns a `ready` status into a finalized event for the final
subscribers; `event_stream` stores statuses, messages and tool results in the
session store, and stops at `completed`. On shutdown the exit stack leaves the
modules first, then the task service, then the emitter (which drains), then the
event store.

What makes each correct: one task per tag that cancel can reach; every call
returns; a document is its chunks, in sequence; subscribers see what the store
took, in order; a message that is kept has the model's whole text, or the arguments
of its own calls and in their order; a session's log is a prefix of what its run
produced, without a gap but for messages there is nothing to store of, and all of it
when the response ends by itself; a run speaks to its own response; a client keeps one
identity; filters, sorting, paging and projection compose; nothing emitted is
lost when the server stops.

## Modules

| module | models | how |
|---|---|---|
| `TaskSlots` | what the background task service promises | a slot per tag: a task begins in an empty slot only, may be asked to stop, leaves by ending |
| `BackgroundTasks` | `core/background_tasks_service.py` | a call is its sequence of critical sections (`todo`); the lock is its FIFO of waiters plus the holder that is suspended in it |
| `EventStore` | `stream/store/memory.py`, `stream/patches.py` | `in_progress_docs` is `docs`, `chunk_index_tracker` is `tracker` |
| `EventEmitter` | `stream/emitter/memory.py` over `EventStore` | it extends the store: its variables (`storeVars`) are the emitter's too |
| `LangChain` | `stream/frameworks/langchain.py` over the queue and the store | a script of chunks becomes messages on the queue, those become documents and deliveries |
| `SessionStream` | `api/sessions.py` 222-305 and 322-512, `api/session_service.py` | one `stream`, `dispatcher` and `inbox` per request; the task service appears as `TaskSlots` behind its lock |
| `SessionStore` | `SessionDocumentStore` of `core/storage/nanodb_memory.py`, over `nanodb/memory.py` and `core/async_utils.py` | collections are sets of documents stamped with their order; a call is what lies between its suspensions |
| `NanoDB` | `nanodb/memory.py`, `query.py`, `projection.py`, `common.py` | `_documents` is `docs`, a call is a step, `last` is what it was and whether it returned |
| `Requests` | the routes, `api/auth.py`, `core/contextual_correlator.py`, the user and agent stores | `pc` is the point between two store calls; `ctx` the scopes of each task |
| `Server` | `server/main.py`, `server/container_factory.py` | the exit stack is `stack`; the other components appear by what stopping does to them |
| `*_proof` | | the theorems about the module of that name |
| `MC*` | | constants for TLC |

`BackgroundTasks`. `Acquire` is the grant of the lock to the head of its queue
together with the code up to the next suspension or the release; `Resume` goes
on from an awaited task that is done. `Call`, `CollectorWakes` and `Exit` begin an
operation, up to its first lock. When the lock is free and nobody queues, the
code goes straight on; the model grants it in the next step, which nobody can
tell apart since the registry only changes under the lock. `InterruptWait` and
`InterruptAwait` cancel the calling task at its two suspension points: in the
lock's queue the call is abandoned, in `_await_task` the awaited task is cancelled
and the caller's own `CancelledError` swallowed. Of the clock only two ages are
kept, up to the collection interval: that of `_last_garbage_collection` and, for
each process, that of the `now` it has read.

`EventStore`. A document is the list of operations applied and the type of its
root, which decide what still applies. `chunk_buffer` is never filled (an
out-of-order chunk raises `KeyError` at line 111 instead), so
`_apply_buffered_patches` always returns at once, and neither appears as state.

`EventEmitter`. `WorkerStep` and `DrainStep` process one message to its end:
`add_chunk` and `finalize_event` do not suspend and neither do the subscribers
of the repository. Messages are numbered to state the order. `shown` is a history
variable, kept with each notification: the operations of an event's document that
a subscriber has been notified of since the document was begun. Subscribers come and
go at any time, and `missed`, another history variable, has the events whose document
was begun when they came. Of the statuses the emitter tells only `ready` from the
others, for which `completed` stands. A chunk the store refuses and a `ready` it cannot
finalize are passed on to nobody. The store's own behaviours are `StoreSpec`, without
the emitter.

`LangChain`. A chunk of the model has text, tool calls and metadata; a call's
arguments are one of four kinds, which decide where LangChain puts the call
(`tool_calls` or `invalid_tool_calls`) and whether the store can finalize it. Text
and arguments are represented by the position of their chunk, so a garbled
message shows. `Start`, `Stream`, `End` and `ToolEnd` are the branches of
`handle_event`, `Emitted` what a chunk puts on the queue, `Applies` and `Apply` what
the patches do to a document, including the structure that is made for a path
that does not exist. All chunks of the adapter have `seq` 0: the store holds those
that do not append to their order, and so takes the first only (`InTurn`). `WorkerStep`
takes a message from the queue, as in `EventEmitter`. Fragments that LangChain cannot
parse go, all of a chunk, to the index that `additional_kwargs` has first, and raise a
`KeyError` if that is missing (`kwargs`). What `json.loads` makes of the fragments the
store has kept is not the model's to say: all of a call's fragments together parse
(`Complete`), and any others may or may not, so a document that has all of its fields
(`Builds`) is kept or not, as `ProcessStatus` chooses. The assumptions say what the
scripts of a chat model are: what is said of a call has its id or arguments
(`ScriptsAreStreams`); calls are numbered as they are opened, and arguments that
begin with a whole object are complete, as more text after it would not be one
object (`CallsAreStreams`). A kept text is what was said if it has the positions of just
its chunks, once and in order (`Says`).

`SessionStream`. What a run emits is the constant `Script`; an event is known by its
place in it, and the log holds that with each entry. `Deliver` is the emitter's worker:
a message is passed on, or refused - a chunk by the store, a message because it cannot
be finalized - and then reaches nobody, or is finalized without parts, which the response
passes over; `lost`, a history variable, has the messages of the last two kinds. Statuses
are always passed on. A session may be deleted at any time, with its log (`DeleteSession`; its
id is not used again here, as it may be in `Requests`): `create_event` then raises, which
refuses the post or ends the response (`StoreItemFails`). A client may
leave in any state; what then runs depends on where the generator is: nothing
before it has started, the `CancelledError` handler inside an await of its own,
only `finally` at a yield. The handler's `cancel` call finds the lock free or
taken; if it is taken it would suspend in a cancel scope that cancels it again.

`SessionStore`. NanoDB itself never suspends; every acquisition of the lock does,
also the one `read_session` and `list_events` make as readers inside a writer's
operation, and so does the `gather` of `delete_session`. `Interrupt` cancels the
caller at any of these. Of `create_event` the check of the session
(`CheckSession`) and the counting and insertion (`InsertEvent`) are two steps;
`delete_session` lists, deletes the events one task at a time and then the
session. A caller may choose a session id that is taken already. Reading calls
change nothing but the lock and share one action.
`dropped` is a history variable: the sessions that have lost some of their events.

`NanoDB`. Documents are functions from keys (`Names`) to numbers, Booleans, strings or
one level of nesting. Filters are finite trees, which `Depth` witnesses; those in
`Queries` are compared, those in `Asked` calls are made with. The entries of a projection
are taken one after the other (`IncludeStep`, `ExcludeStep`). `Find` sorts and projects what the code sorts and projects: the
collection's own list when there is no filter, and, since an exclusion copies
only the top of a document, the stored document's own nested parts
(`ExcludeStep`). `Insert` appends before it validates; `Update` patches a copy, with the
operations as `convert_patch` puts them (`from_` becomes `from`), which the patch library
then reads.

`Requests`. Each step of `Handle` is the code up to the next store call, since
those wait for the store's lock and let others run. A correlation id is the
sequence of the scopes entered, kept by task and copied where the code creates one
(`StoreMessage` for the dispatcher, `Dispatch` and `Greet` for the run). Replacing
a run is one step here, as the waiting is in `SessionStream`. Sessions and agents
may be deleted at any time by agents and modules, which hold the stores.
`early` and `emitted` are history variables. A collection is a sequence of documents
and a look-up takes the least position of those that match (`With`, `FirstWith`), as
NanoDB's `find` returns them in the order of their insertion.

`Server`. `setup_container` enters six components, in the order of `Components`;
`load_modules` goes through a set, so in any order; `Unwind` leaves whatever is on the
stack. Requests leave dispatchers, which nothing cancels: they may start a run
after `cancel_all`, or after the service has closed, which `late` records. A run gets
any of the runners of its agent type (`Runners`): the container's `defined_types`, which
`create_runner` goes through, are a set.

## Runs

| run | instance | shows |
|---|---|---|
| `BackgroundTasks_safety` | 2 callers, collector, closer, 2 tags, 2 runs per tag | type and inductive invariant; no task lost, doubled or awaited uncancelled; no self-wait; closing leaves no task; the collection time never moves back |
| `BackgroundTasks_live` | 2 callers, 1 tag, interval 2, never closed | implements `TaskSlots`; every call returns; finished tasks are forgotten |
| `EventStore` | 1 event, chunks of 1-2 operations, documents up to `MaxItems` | documents in sequence under loss, repetition, reordering and failing chunks, which do not count as applied |
| `EventStore_reorder` | 1 event | **violated**: an out-of-order chunk is lost, not buffered |
| `EventEmitter` | 4 messages over 4 chunks and all statuses, 2 events, 1 subscriber that comes and goes | order, final content is what was streamed, the queue drains whatever raises |
| `LangChain` | 2 runs, one with 18 scripts, up to 2 calls | kept text is whole, kept calls have their own arguments in order, statuses in order, nothing left in the store, plain messages always kept |
| `SessionStream` | 3 requests, 2 of them to one session, one that may leave or fail; a session that may be deleted | stored prefix, stored completely when completed, the lock is for stopping only, every response ends unless left, its session deleted or cut short |
| `SessionStream_abort` | 2 requests to one session | **violated**: the response of a replaced run hangs |
| `SessionStore` | 3 callers, 2 sessions, 4 documents | nobody is inside without the lock, no orphaned events, offsets are positions |
| `NanoDB` | 4 documents to insert, 2 in the collection, 27 filters, 7 projections, 3 sorts, 5 patches | query operators, sorting and paging compose; projections divide; reads keep documents; writes are whole |
| `Requests` | 3 requests of 12 kinds by 2 clients, deletions | one identity, own sessions, runs heard by their own response only, refusals leave nothing |
| `Server` | 2 modules, 3 sessions, 2 agent types, 2 messages | nothing emitted unprocessed, runners ready, modules go down in reverse, a cancelled server ends |

Bounds. Two callers suffice for every pair of overlapping operations of the task
service, and the collector, the closer and the interruptions add the third and
fourth process; `Runs` gives a tag a running task and its successor, and names are
reused once a task is forgotten, so the number of tasks over time is not bounded.
`Interval` is 2 in the liveness run so that a call can come both before and at the
end of an interval. The event store is bounded by `MaxItems`, enough for a
document to be begun, continued, broken and finalized; the emitter by `MaxSent`,
enough for two chunks, their final status and something after it, with a misfit
among them, and a chunk that both sets a key and appends, as a tool call's does.
Sessions need two requests to replace a run and a third, to another session, to be kept
waiting by the lock; one of them leaves or fails, and the session of two may be deleted:
the others show what that does to those who stay. Three store calls are one that holds the
lock and a reader and a writer that wait; 4 documents are a session with three
events, two sessions with an event each, or a session created twice under one id.
Two calls in a message are the least that can be confused, and the scripts have
each kind of argument first, later, alone and two to a chunk, text before and after
calls, and three ways to raise; the second run only has to interleave. NanoDB's properties relate
pairs of documents, and its queries, sorts and projections have two parts each.
Three requests are a session's creation, a message to it and a rival to either.
`Server` has two runners for one type and none for another, a session to wait, one
to run and one more; `MaxPending` 2 lets a drain break with a message processed and
one left.

Fairness. The event loop runs every ready task, so every step of a process that
can go on is weakly fair, and so are time and the collector's timer. A task that
has been cancelled is assumed to end (agents that swallow `CancelledError` for
ever would block `restart`, and the server); one that has not been cancelled may
run for ever in `BackgroundTasks` and `Server`. `SessionStream` assumes only that something
goes on while anything can (`LoopStep`: dispatchers, runs, responses, the emitter's
worker), which is weaker than fairness of each: requests are finitely many and each takes
finitely many steps, an agent's run those of its script, so in the end all that could be
done is, and `ResponseCompletes` says what holds from then on. In `Server` the main task's unwinding is fair, in
`LangChain` and `EventEmitter` the worker. Callers, clients, interruptions, failures
and deletions have no fairness. The lock's queue is FIFO as in CPython, so weak
fairness of its grants is enough. Symmetry is used in `BackgroundTasks_safety`,
`SessionStore` and `Requests`, which have no liveness property.

Deadlock is checked in the `BackgroundTasks`, `EventStore`, `SessionStore` and `NanoDB`
runs, which never end; the other systems end when their messages, requests or
scripts are used up or the server has stopped.

## Proofs

All theorems hold for any values of the constants that satisfy the named
assumptions of the modules (distinct processes, fresh null values, well-typed
scripts, chunks, documents and filters, a positive interval).

`BackgroundTasks_proof`

- `Invariance`: `Spec => []IInv`. `LiveIsRegistered` is not inductive alone:
  that `restart` registers its new task over one that has ended needs the task it
  awaited to be still the one registered (`RestartAwaitsCancelled`), which needs
  that whoever holds the lock is suspended in `restart` or the forced collect
  (`HolderSuspended`), that a task is only registered under its own tag
  (`RegisteredUnderOwnTag`) and that whoever acquires the lock is inside a call
  and not its holder (`QueuedIsCalling`, `NoSelfWait`). The conjunction is `IInv`;
  each section of the service has a lemma that it preserves it.
- `TypeCorrect`, `OneTaskPerTag`, `RestartWaitIsCancelled`, `NoProcessWaitsForItself`:
  its conjuncts as invariants.
- `ExitLeavesNoTask`: `__aexit__` completes only with no task running. The forced
  collect completes when no registered task runs, and by the invariant a running
  task is registered.
- `CollectionTimeAdvances`: the invariant `NowsInOrder` says that along the lock's
  queue the readings of the clock get younger, that the holder's is the oldest of
  all, and that none is older than the last collection; FIFO order keeps it.
- `Refinement`: `BackgroundTasks` implements `TaskSlots`, with a tag's slot being its
  registered task while that runs. Begin is a task's creation (the slot is free
  because the old task has ended), Stop a cancellation, End a task's end; all else
  stutters, collections included, since they only forget tasks that are done.

`EventEmitter_proof`, of the store and of the emitter, which extends it

- `StoreTypes`, `InSequence`, `IndexHasDoc`, `OnlyGrows` are about `StoreSpec`, the store
  on its own. `StoreInv` adds to the properties what a document is like before its
  first operation, and that one whose root is a list holds an append (`Begun`): a
  chunk that only sets keys, the kind whose order is checked, then applies to it not
  at all. What is applied of a chunk is a beginning of it (`AppliedOps`); where it ends
  is the least operation that does not apply, and that there is a least one is
  proved once (`LeastPosition`), as the intervals that lead to the positions are
  finite sets. The index moves with the whole of a chunk only, as it moves where nothing
  is left out (`DocumentGrows`).
- `SentOrder`: numbers grow along the queue and along each inbox, every number in an
  inbox is below all that are queued, and none exceeds `sent` (`SInv`). This holds
  whatever the store answers, so only the shape of a notification is needed of it.
- `TypeCorrect`, `FinalShown`: the emitter changes the store by the store's own
  operations only, so `StoreInv` is kept inside it. `EInv` adds that a queued message
  speaks of an event under the event's own correlation id (`Addressed`), and that
  whoever has listened to an event's chunks since its document was begun has been shown
  the document as far as it is built (`Streamed`), for which nobody has been shown
  anything of a document that is not begun (`Unbegun`); who came later is in `missed`. An
  event in whose list a chunk both appends and sets keys is excepted (`Whole`): such a
  chunk can fail midway and leave in the document what nobody was shown.
- `StoreInSequence`: `PlacedInSequence` and `TrackerHasDoc` of the store, as invariants
  of the composition.

`SessionStore_proof`: `TypeCorrect`, `LockDiscipline`, `EventsHaveSessions` and
`OffsetsAreSequential`. Its `IInv` adds to the properties that no stamp lies ahead
(`Stamped`, so a new event comes after all those counted), that the session of an
event about to be inserted is there (`Checked`), and that what is left to a deletion
is what is left of the session's events (`Listed`, so the session goes last). Each
is kept because whoever writes is alone (`WriterAlone`), which is what `LockIsHeld`
says.

`SessionStream_proof`

- `LockOnlyToStop`, `TypeCorrect`: a run is only ever in its own session's slot, and
  whoever is replacing a run holds the lock, so nobody else can begin one in
  between, and whoever holds it is replacing one: `Restart` takes it to stop the run and
  `RestartGoesOn` gives it back. The type invariant needs besides that a response that is
  storing has taken something to store.
- `StoredPrefix`, `CompletedStored`: an event goes from the emitter's queue to the
  response's, from there to the item it has taken and then to the log. `PInv` says of
  each request on its own that no run of it emits before its response has
  subscribed (`Listened`), that its events on the way are in order, those in the
  response's queue before those in the emitter's and all after the item
  (`InFlight`), that only chunks and messages in `lost` are dropped of those after the
  item (`NoneLost`), and that the log has just what is to be stored up to the item, or up to
  the one before while the response still stores the item (`InStep`), or nothing once the
  session is deleted (`Kept`). Only what is still in the emitter's queue can get lost, so what
  is to be stored up to the item does not change any more (`SameToStore`); and what a step
  stores is the next event to be stored, even though runs of other requests to the same
  session write into the same log.

`Requests_proof`

- `SpeakToOwnStream`: the invariant follows one request's scopes from task to task:
  what the http task's scopes are at each `pc` (`Scopes`), that stored event,
  dispatcher and run have the same id (`Heard`), and that what has been emitted is
  under it (`Said`). Different requests' ids differ in their first scope.
- `RefusedLeaveNothing`, `OneIdentity`, `OwnListed`: `RInv` adds the types of what the
  stores hold (`Stores`), what a request knows by how far it has come (`Placed`), that
  each user was created by the request it is named for and that a request acts for
  a user of its own sub (`Identified`), and that a session or message leads back to a
  request that got far enough to leave it, and a session to that request's user
  (`Owned`, `Messages`). Users are only ever added at the end, so the first of a sub
  stays the first (`LateRequestsAgree`), and sessions removed at any place leave the
  others as they are.

`LangChain_proof`

- `ShownInOrder`: types, the order of the statuses and the empty store, for all
  scripts. What a recursive function returns is reached without induction over
  data: a set of numbers that has 0 and the successor of each of its members has
  them all (`Induct`, from the least element of a set, `Least`), so each of the
  function's values can be described step by step (`ApplyAllSteps` for the patches of
  a chunk, `FlattenIs` for the operations of its calls, laid one block after the
  other). `IInv` adds the types of what is queued (`Patches`); that a document is in
  the store only while its `ready` is queued behind all of its chunks, or its run is
  open, or the agent did not come to its end (`Emptied`); that `processing` is the
  first that is queued or shown of an event and comes once (`StartFirst`); that
  `typing` comes once, before any text (`TypingFirst`); and that a run unborn has no
  script (`Unsaid`). A message that is put or taken keeps each of these on its own
  (the lemmas `Put...` and `Take...`), whatever the patches make of the documents.
- `KeptIsSaid`: what a document says at its end is what was said, which no step
  alone shows: `SInv` follows each chunk of a script from the queue into the
  document. Of a message (`Kept`) every queued chunk was said (`Sourced`) and `ready`
  is its last message (`ReadyLast`). Text is in order first in the document and then
  in the queue, and up to the finalization none is missing (`TextInOrder`, `TextKept`,
  `TextSaidOnly`). The arguments of a call are in order in the same way, strictly so if
  all but the opening come one to a chunk (`ArgsInOrder`, `ArgsSaidOnly`); but the store
  may refuse a chunk of them, so they are not all kept of every document. What
  `ArgsKept` says is that arguments that are not an object are in the document or in the
  queue, unless the call is neither opened in the document nor by a chunk in the queue,
  or the document is a text, and neither can be kept as a call. That holds as an opened
  call is a new one, behind those there are, opened by one chunk (`CallOrder`, from
  `CallsAreStreams`), and only if LangChain could make an object of a call of that chunk
  (`Entries`): a fragment that comes alone always applies to a call that is opened. The
  lemmas of `GrownArgs` follow this through the patches of one chunk, up to the first
  that does not apply. The first chunk of an event is always taken (`FirstTaken`):
  nothing of the event was said before it, as of any call that was there is a chunk
  queued or a document (`SomeTaken`), so its calls open from number one. `json.loads`
  appears nowhere in the argument: it may take whatever fragments are left. `ResultInv`
  says the same of a result, which is one chunk. `AbsentIsNoDoc`, that the mark of a
  missing document is none, is all that is assumed besides the two assumptions on
  scripts.

`Server_proof`

- `DrainedBeforeDown`: the exit stack is always a prefix of the order of entry, so
  while the task service is on it the emitter is up; once the service has closed no
  run is left but late ones, and the drain leaves nothing.
- `Lifecycle`: `MInv` adds the types, that the modules are initialised in the order of
  their import, all of them before the server serves, and that only then they are
  on the stack and requests come (`Loaded`), so the runner of any run is that of an
  initialised module; and that those shut down mirror those initialised, all of
  them unless there is an exception (`Unloaded`).

`NanoDB_proof`

The assumptions are those of types: what is inserted is a document
(`InsertsAreDocs`), filters are finite trees of comparisons (`QueriesAreTrees`; they are
Python dicts that `query.py` follows to their leaves), sortings and projections are
lists of keys and of paths of one or two keys (`SortsAreTyped`, `ProjectionsAreTyped`),
and a patch leaves no more than one level of nesting (`PatchesAreTyped`). An operation as
`convert_patch` puts it still has the fields its kind needs (`ConvertedIs`). Filters,
sortings, projections and patches are folds over sequences: a fold is the last of a
sequence of values (`FoldExists`), and each value is described from the one before it
as in `LangChain_proof`, up to the length of the sequence (the `...Steps` lemmas).

- `ReadsOnlyLoseExcluded`: a pass of the sort inserts each document among those before
  it, so the collection is rearranged (`Rearranges`), and what the steps of a
  projection leave of a stored document is at any time what they leave of the result
  in the parts the two share, so only what a path excludes is lost of it.
- `WritesWhole`: an update changes the one position it has found, or none; what an
  upsert and a deletion leave has no more invalid documents than there were.
- `AnswersCompose`. Types: what a patch, a projection and a sort leave is a document.
  Filters: what a filter selects follows from what its parts select, by depth
  (`MatchesIs`). Sorting: a pass puts the documents in order by its key and leaves in
  their order those it does not tell apart, so after the passes from the last key
  back to some key the collection is in lexicographic order from that key on
  (`PassLex`, `SortByIs`); in an order that any two documents have, a document's place is
  the number of those before it (`PlaceInOrder`). Pages: joining them is the answer up
  to where the last one ends (`PageContinues`, `PagesJoin`), and as many as there may be
  documents reach its end.
- `InclusionsComplement`: after some entries an inclusion has taken the leaves under
  their paths (`Included`) and an exclusion has left those under none (`Excluded`), so
  with the same paths they divide the document (`LeavesDivide`).

Only model-checked is liveness under fairness, which is beyond this prover:
`EveryCallReturns`, `DoneIsForgotten`, `QueueDrains`, `ResponseCompletes`, `CancelledEnds`
and `PlainIsKept`.

## What the violated runs say

- `EventStore_reorder`: `chunk_buffer[event_id]` raises `KeyError` (111); the class
  says it handles out-of-order chunks.
- `SessionStream_abort`: a run replaced by a newer message emits nothing more, so its
  response never ends; the status `cancelled` (`core/sessions.py:128`) is never sent.

Seen while modelling, and part of the models, without a run of their own:

- Task service: `__aexit__` without an exception waits, under the lock (105-113), for
  tasks it did not cancel, so that `cancel` (43) can not reach them.
- Event store and emitter: the drain's `try` is outside its loop (emitter 164-180), so
  the first message that raises ends it, which is why `NothingUnprocessed` excepts a
  broken emitter; `finalized_events.clear` (store 63) is not called; only `ready`, and
  not `completed` as the emitter's docstring has it, finalizes (emitter 123).
- Streaming: `finally` removes only the chunk subscriber (`sessions.py:303`); the
  greeting's run speaks under an id no response subscribes to; a session created
  again under a taken id, with a greeting, replaces the first one's run.
- Stores: after `delete_event` the offset of the next event repeats one, though
  `api/types_events.py:271` calls it the event's sequential position; racing first
  requests create two users of one sub, and the sessions the later of the two
  creates are in no later listing; `list_sessions` says that without filters all
  sessions are returned, but always filters by user.
- NanoDB: reading without a filter sorts the collection itself; excluding a nested
  key removes it from the stored document; an insertion that raises has inserted.
- LangChain: a chunk that opens a second call without a fragment of its arguments is
  refused, being another chunk of `seq` 0, and the call, or the whole message, is
  lost. So is a fragment that is JSON by itself, which is not appended but is to replace
  what was said before (`langchain.py:213`, "Replace the full args object if it's fully
  formed"): the rest is then kept if it parses, as `{"items": [`, `{}`, `]}` is kept as
  `{"items": []}`. Several fragments in one chunk go to the first one's call, where they
  may parse or spoil it. `additional_kwargs` without `tool_calls` raises `KeyError` (245).
  Of text and calls in one message one kind is kept; the documents of a cancelled or
  failed agent stay in the store.
- Server: components entered before a failing set-up are not left; a module that
  fails to initialise leaves those before it initialised, one that fails to shut
  down the rest; runs outlive the shutdown of the module whose runner they are.

## Plan

Done: every component of the inventory that keeps state has its module, and every
invariant and action property that is checked is proved. What would come next, in
order:

1. `LangChain` over `EventStore` itself: its `Apply` as a refinement of the store's
   kinds of operation, so that the two models of the patches are one.
2. `patches.py` for paths the repository does not emit.

## Not modelled

- DTOs and dependency injection: validation of fields and look-ups, no state.
- Logging, the CLI, the release scripts: nothing else reads what they write.
- The chat client: what it makes the server do (choosing session ids, creating one
  twice, leaving streams) is the environment of `Requests` and `SessionStream`; its
  rendering is not modelled.
- The static files of the chat client and the conversion of exceptions to
  responses; signals on which uvicorn ends the process.
- The registry of NanoDB's collections, used once at the start.
- JSON-patch paths other than those the adapter emits, and the conversion of
  documents to JSON, of which only success is modelled.
