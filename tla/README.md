# Verification of MLXBar

TLA+ modules, TLC configurations and TLAPS proofs about MLXBar (`src/`), a macOS
menu-bar application whose Python coordinator runs MLX language models in worker
processes and serves them over an OpenAI- and an Anthropic-compatible API.

Everything here is translated from the source; `PROJECT.json` maps every
definition that models code to the lines it stands for, lists the runs, the
mutants that show each property can fail, the hazards at their lines and the
theorems.

1. [The system](#1-the-system)
2. [The modules](#2-the-modules)
3. [The runs](#3-the-runs)
4. [The proofs](#4-the-proofs)
5. [Where the code and its comments disagree](#5-where-the-code-and-its-comments-disagree)
6. [Not modelled, and the plan](#6-not-modelled-and-the-plan)

## 1. The system

Paths are relative to `src/`. *C* is `Coordinator/mlxbar`, *W* is `Workers`.

### How it is put together

    menu bar app, CLI ──(Unix socket)──┐
    OpenAI / Anthropic clients ─(TCP)──┤
                                       ▼
      coordinator: ONE asyncio process (C/main.py)
        API handlers ── jobs ── settings, database (SQLite), catalog, RAG
              │           │
              ▼           ▼
        model pool ◄── runtime update job ── runtime slots on disk
          │ one PoolSlot per resident model or replica
          ▼
        supervisor (one per slot)
          │ HTTP over a Unix socket
          ▼
        worker process (W/common/server.py): event loop + ONE MLX thread
          prompt cache, paged KV cache, adapters for mlx-lm and mlx-vlm

The coordinator is a single event loop, so code between two awaits is atomic; its
parts share state by reference and call each other as coroutines. What makes it
hard is what may happen at an await: another task runs, the client disconnects
and the task is cancelled there, an async generator is left to the garbage
collector, a status poll repairs what it takes for debris. Blocking work (files,
SQLite, probes) goes to threads; workers are separate processes that may be slow,
die, or be killed. A worker is an event loop too, in front of one thread that owns
MLX; a cancelled await leaves the thread's job behind.

### Inventory

| Part | State | Operations | What is hard | What makes it correct |
|---|---|---|---|---|
| **Generation lanes** (C/workers/model_pool.py 1380-1900) | per slot: lane lock, owner, permit flag, queue, leases; pool: semaphore, active-lane count, abandon markers, tasks | `generate_for_model`, `_acquire_lane`, `_release_lane`, `_recover_lane`, `cancel_generation`, `status` | cancellation at each await, a finalizer that must not await, orphan recovery by polling, late close of the worker's generator | permits conserved, lanes owned, no zombie owner, no stale marker, every request ends |
| **Pool slots** (same file 900-1370, 2300-2430) | `_slots`, `PoolSlot` (state, future, leases, pins), `_load_lock`, `_pool_lock` | `load`, `unload`, `unload_model`, `_evict_slot`, `_reap_once`, replica choice | singleflight futures, two locks, evictions with no lock, slots picked before an await | waiters are woken, no process forgotten, a leased model keeps its worker |
| **Memory admission** (same file 300-880) | estimates, safety margin, pressure probe | `_admit`, `_gen_headroom_ok` | stale probes, arithmetic at the limits | the budget holds over all slots (not modelled) |
| **Pool shutdown, start-up recovery, breaker** (same file 885, 2032, 2414-2500; C/main.py 870-926) | worker manifests, crash history, `_closing` | `shutdown`, reaping of orphans, replica top-up | a load in flight at shutdown; a kill between spawn and manifest | nothing is published while closing, workers end or can be found |
| **Supervisor** (C/workers/supervisor.py) | process, manifest, loaded model, crash list; legacy gate: lock, owner, queue | start, load, generate, cancel, stop, probe; queue, acquire, recover | some of these take the lock and some do not; orphan judgement of the gate | workers are known, the loaded model is held, the gate is never stranded |
| **Runtime slots and updates** (C/runtimes) | slot directories, `active.json`, updater lock, maintenance set | stage, activate, roll back, delete, clean up, the update job | minutes between check and switch, cancellation in the rollback, crash between two files | the active slot is usable, residents run it, maintenance ends |
| **Jobs** (C/jobs.py, C/database.py 300-420) | job row, task, queue per job | create, cancel, events, restart sweep | cancel before the first step, subscribe at the end | a row ends once and is never left active |
| **Worker server** (W/common/server.py) | abort handle, registry of early cancels, MLX thread's queue, orphan limit, memory watch | `/generate`, `/rpc cancel`, load, unload, cache RPCs | cancel against next token, teardown where nothing can be awaited | generators closed, caches released, the client told the truth |
| **Prompt cache** (W/mlx_lm_worker/prompt_cache.py, W/mlx_vlm_worker/prompt_cache.py) | memory entry, snapshots, `index.json` | fetch, store, budget, sweep | replicas share a directory; index and files drift apart | the index names the files, the budget holds |
| **Paged KV cache** (W/mlx_lm_worker/paged_cache) | blocks, checksums, exact markers | store, load, prune, quarantine | crash between two renames, prune against read | only verified blocks are used, a hit is a chain of prefixes |
| **Text filters** (W/common/tool_calls.py) | partial markup | feed, finish | marks split over chunks | same text as unsplit, nothing after a stop |
| **Settings** (C/settings.py, C/api/management.py, C/presets.py) | document, write lock, backup | patch, replace, presets, import, recovery | read before the lock, rollback of a failed switch | no write lost, the file is always readable |
| **Listeners, preload, gate** (C/main.py) | servers, autoload gate, preload status | start, switch, preload with retries | same-port switch, gate read before the wait | the API stays up; a manual stop stays stopped |
| **APIs** (C/api) | per request | translate, stream | disconnects; block order of a stream | well-formed streams |
| **Images, context compression, adaptive memory** (C/api) | a request's messages and image directory, the note cache | resolve, split, summarise, label, plan | a summary is a generation that may fail; boundaries inside a tool exchange | the prompt is the conversation; nothing but old or short talk goes without a note |
| **RAG** (C/rag) | collections, documents, chunks | ingest, query, delete | check and write in two transactions | ceiling and dimension hold |
| **Catalog, database, volume guard, tokens** | rows, a stall memory, a file's mtime | scan, classify, read | late answers of threads | same verdict in coordinator and worker |
| **oMLX, CLI, Swift app, scripts** | external | HTTP, user interface | — | not modelled |

The hazards, each at its line with the properties that would catch it or the
reason none does yet, are in `PROJECT.json`.

## 2. The modules

Conventions. An action is the code of one task between two suspensions, named
after the function it belongs to. A woken waiter runs later than the step that
woke it, and a cancelled task unwinds later than `cancel()`: both gaps are states.
Where a segment is long it is written as operators on a *view* (the records it
changes), which an action stores. "mutant" definitions change the definition after
them the way a plausible bug would; only the mutants of `PROJECT.json` use them.

### GenLanes, LaneService: the generation lanes

`slots[s]` is a `PoolSlot`'s lane: the `asyncio.Lock` (`held`, its waiters `lq`,
those woken but not run `lgrant`), `_gen_lane_owner` (`owner`), `permit`, the queue,
`leases`, and the orphan verdict (`pend`, `aged`). `pool` is the semaphore with its
waiters, permits being decided upon (`raw`), `_gen_active_lanes` (`lanes`), the abandon
markers and the running acquire tasks. `req[r]` is where `generate_for_model` and its
acquire task are suspended. `active[s]` is the worker's `active_requests`.

| Action | Code |
|---|---|
| `Arrive`, `Expanded` | replica choice, the optional load of one more, lease, queue limit, inline acquisition or queue |
| `TaskStep` | one segment of `_acquire_lane`: lock, semaphore, head-room, pressure probe, nap |
| `WaitReturns`, `Heartbeat`, `BeatResumes`, `QueueTimeout` | the waiting loop and its yields |
| `WorkerAdmits`, `Finish`, `Drain` | the worker's own lock, the end of the stream, a late close |
| `Close`, `Disconnect`, `Join` | the finalizer at any yield or await; the shielded gather |
| `Cancel`, `StatusPoll`, `CapacityCheck`, `GraceElapses` | `cancel_generation`, `_recover_slot_state`, `_recover_lane`, its half second |

Asyncio's lock and semaphore are modelled with their wake-up rules (a lock stays
free until the woken waiter runs; a semaphore hands its permit over at once).
The answer of the memory head-room is a free choice. `LaneService` is what the
lanes promise: at most `Conc` slots have a holder, and no request holds two. A slot
may pass straight from one request to the next: an arrival that recovers a lane
takes it in the same step. `GenLanes` implements the service with the owner of a lane
that has its permit as the holder (`LaneServiceSpec`).

### PoolSlots: loading, eviction, unloading

`slots` is `self._slots`; `slot` holds every `PoolSlot` object ever made, also those a
task still refers to after the table dropped or replaced them; `proc` says whether
its worker process runs. `locks` are `_load_lock` and `_pool_lock`; `act[a]` is where
a loader, an unloader or the reaper is and what it still has to evict; `gens` are
generations as far as they lease slots. Actions: `Load` (an explicit engine choice
evicts first), `Join`, `Woken`, `TakeLoadLock`, `Look`, `Admitted`, `Refused`, `Start`,
`Loaded`, `LoadFails`, `FailsEarly`, `Closed`, `Drop` (load); `EvictNext`, `EvictStopped`,
`EvictPop`, `EvictDone` (`_evict_slot` and the loops around it); `Unload`, `UnloadBusy`,
`UnloadLocked`; `Reap`; `Generate`, `Expanded`, `Generated`; `Cancel` at any suspension.
A model has one replica here and a slot costs one unit of memory; GenLanes has
the replicas. Bounds: `MaxSlot` objects, `MaxKill` cancellations, `MaxReap` passes.

### RuntimeUpdate: runtime slots and the update job

`store` is the slot directory tree with `active.json` (active and previous slot),
`upd` the update job, `man` a manual installation, `pool` the pool as the job sees it
(state, engine slot, pin and lease of each model, its load lock, the maintenance
flag, and whether the pool is enabled). The job's actions follow `update_runtime`:
`StartUpdate`, `Checked`, `Locked`, `Installed`, `Drained`, `Unlocked`, `Evicted`,
`ProbeReturns`, the rollback's `BackUnlocked` and `BackEvicted`, and `Cancel`. Around it:
manual staging, activation, rollback and deletion, loads and leases, `Crash`.

### JobLife, Jobs: background jobs

`JobLife` is the life a job's row promises: queued, running, one terminal state, for
good. `Jobs` has the row, the asyncio task, the registry, the queue, an event
stream and cancellers; it implements `JobLife` (`RowLife`). Jobs are independent of
each other, so one job is the general case.

### WorkerStream: the worker's generate stream

`req[r]` is the `lines()` generator of a request, `gen[r]` the adapter's generator and
its KV cache, `mlx` the MLX thread with its queue (an entry whose await was cancelled
is "void": the executor skips it), `abort` the abort handle, `cancelled` the registry
of cancels that came first. Actions: `Generate`; `Resume` (the supervisor reads or the
answer of the thread arrives: first token, token, memory verdict, finalize, flush);
`Disconnect`; `Cancel`; `Thread`. The memory watchdog and the orphan limit are
choices at the lines that ask for them. Load, unload and cache RPCs are single jobs of the
same thread; they, the registry's expiry and its size are left out.

### PagedKV, Snapshots, VlmReuse, Recency, MCCaches: the prompt caches

Three ways a worker reuses the work of an earlier prompt; they share nothing, so a
behaviour of `MCCaches` is one of one of them (`kind`). `Recency` is what the first two
have in common: a directory is the sequence of its files by modification time, from
which files are removed (`Without`) and in which a written or touched file becomes the
last (`Recent`).

`PagedKV` is the SSD tier of an mlx-lm worker: `blobs` are the files in the order of
their use, `sums` the checksums, `marks` the exact markers, `rotten` what the disk
spoiled, `fails` and `circuit` the breaker, `kv` the one operation under way. `Lookup`,
`LoadBlock`, `Quarantine`, `Hit`, `Failed`, `FallBack` read; `Store`, `Deduplicate`,
`WriteTemporary`, `ReplaceTensor`, `ReplaceChecksum`, `PruneBlock`, `MarkExact`, `GiveUp`
write, one file operation each, and `Kill` and `Wipe` fall between any two.
`Snapshots` is `index.json` and the files it names: `Fetch` to `Discard` read, `StoreBegin`
to `Evicted` write, with the index read before the snapshot is written and written
back after. `VlmReuse` models a cache by the tokens it was computed from beside the
tokens it is *labelled* with, so that a wrong label shows: `Continues`, `RollsBack`,
`Restore`, `Refuse`, `Persist` and the settling of an interrupted cache.

### WorkerProcess, WorkerGate, PoolLifecycle, SettingsFile, RagIngest, Residents, MCServices

Services of the coordinator, checked side by side like the caches.

- `WorkerProcess`: one supervisor and its processes (`alive`, `holds`, `proc`, `manifest`,
  `loaded`, `lock`, `crashes`); a task is a load, generation, unload, forced cancel or
  probe, suspended in `_start_worker`, in `_call` or in `_stop_worker`. Workers die, time
  out at their start, and outlive a coordinator that dies.
- `WorkerGate`: the gate of a supervisor used without the pool (`queued_requests`,
  `generation_lock`, `generation_owner`), with its orphan recovery.
- `PoolLifecycle`: how the pool ends and begins. `main` is where the coordinator's last
  lines are (`unload()` waits a while for the load lock, `shutdown()` sets `_closing`, takes
  the reaper along, stops a snapshot of the slots and clears the table, the loop ends when
  no call is left); `named` are the manifests, one per model, which the worker objects of
  successive slots share. `Load` to `Closes` are the calls of `load()`, cancelled at any
  await; `Killed`, `WatchdogFires` and `ReapsOrphans` are the way through a crash.
- `SettingsFile`: `config.json` as a value for each of a handful of leaves, one for every
  kind and every rule that couples leaves; start, recovery leaf by leaf and of the whole
  file, puts, imports, keys and versions of newer builds, edits by hand. `Valid` is the
  first broken rule of `_validate`, and recovery goes by the message as the code does.
- `RagIngest`: ingest jobs against changes of their collection; the check and the
  insertion are two steps in a thread each.
- `Residents`: what is loaded on whose word: profile patches (copy, wait, write), settings
  writes with the listener switch and its rollback, loads by the user and by requests,
  unloading everything, the preload and its retries, restarts.

### ReplyText, ReplyRoutes, PromptPlan, MCReplies: a request from end to end

`PromptPlan` takes a client's conversation to the prompt: `Ask` (the checks and the
translation of both APIs), `Resolve` (images into a private directory), `EnsureModel`,
`Compress`, or the adaptive planner message by message (`PlanBegins`, `PlaceExact`,
`DropCold`, `NoteHit`, `NoteWritten`, `NoteEmpty`, `PlanFails`, `PlanEnds`) with its note
cache (`notes`, `NoteSpoils`), then `Ground` (the retrieval block), `TooLarge`, `Generated`. A
message is its role, size, whether it has images, text, calls or code, and its place in
the client's conversation; a summary is a size and the places it stands for.

`ReplyText` is the way back: the model's text cut into chunks anywhere, the marker
splitter with what it holds back, the stop filter, and the tail. `Scan` is the reference: the
same text read in one piece. `ReplyRoutes` feeds one stream of events, of a worker or of
a provider that streams tool calls in parts, to every route at once (OpenAI chat and
completions, streamed and whole; Anthropic, streamed and whole), so that what their
clients read can be compared. `MCReplies` composes the two: the events `ReplyText` writes
are read by `ReplyRoutes`, with disconnects and broken streams in between.

### Proof modules

`GenLanesProofs`, `PoolSlotsProofs` and `WorkerStreamProofs`
extend the module they are about, and
`CachesProofs`, `ServicesProofs` and `RepliesProofs` extend the compositions `MCCaches`,
`MCServices` and `MCReplies`; `PromptProofs` extends `RepliesProofs`. `RuntimeProofs` holds
the proofs about the update job and about the job manager that runs it.
`MCGenLanes` and `MCPoolSlots` hold TLC's instances and symmetry sets.

## 3. The runs

State counts are TLC's distinct states.

| Run | Asks | Instance | States |
|---|---|---|---|
| `lanes_safety` | do permits, counters, owners, leases and markers stay consistent, and is the lane service implemented? | 3 requests; a model with one slot and one with two replicas; 2 permits; queue limit 1 | 126,676 |
| `lanes_live` | does every request end? | 2 requests, 2 models, 1 permit, queue limit 2 | 1,733 |
| `slots_calm` | without cancellations: do pending loads have leaders, are workers remembered, do timely leases keep their worker? | 2 models, 3 loaders, 1 unloader, 2 generations, 1 reaper pass, room for 1 slot, 3 objects | 979,193 |
| `slots_live` | with cancellations: does nobody end with a lock; does every load end while nobody is cancelled? | 2 models, 2 loaders, 1 unloader, 1 generation, 2 cancellations, 4 objects | 85,821 |
| `update_jobs` | is the active slot usable, do residents run it, is staging safe, does maintenance end, does every job end? | 1 model, 4 slots, `keepSlots` 3, 1 cancellation, pool enabled or not, manual operations, crashes | 308,797 |
| `update_restores` ✗ | does a failed update put the residents back? | 1 model, 2 slots, no cancellation | |
| `jobs_rows` | does a row end once, is it tended, do streams tell it and end? | 1 stream, 2 cancellers, restarts, 2 progress events | 1,595 |
| `worker_stream` | are generators closed, caches released, clients told truly, cancels obeyed at the next token? | 2 requests, one of them with tools | 111,220 |
| `caches` | is only verified work reused, do index, files and budgets agree, is a failure paid for once, do labels stay true? | 2 chains sharing a block; 3 prefixes, 1 worker; 5 prompts over 2 tokens, 3 turns; kills, rot, wipes | 638,295 |
| `services` | see the modules: workers known, ended or found by the next start, gate not stranded, valid settings, sound collections, listener up, pins and stops kept | 1 task of each kind, 3 processes; 4 requests, queue limit 2; 2 loads of a model, 3 workers, 2 ends of the coordinator; 2 edits, 1 put; 3 ingests; 2 models, 3 endpoints, 3 calls | 1,370,647 |
| `replies` | is the prompt the conversation, the reply the model's text, on every route, in the form of its protocol? | conversations of 1 to 3 exchanges of 5 kinds; texts with each marker, chunks of up to 5 symbols; 4 provider events | 968,974 |
| `replies_drift` ✗ | do the two Anthropic routes agree for every engine? | the same | |

✗: TLC finds a counterexample; see section 5. Some properties are conjunctions of named
parts that one run checks together (`PermitsAccounted`, `NothingLeftBehind`, `RuntimeSound`,
`GeneratorsSettle`, `DiskKept`, `SupervisorSound`, `ResidentsServe`, `PromptSound` and
others); the parts are stated and commented where they are defined.

**Why the bounds are enough.** Lanes: two requests contend for a lane, a third
for the permit or the queue's last place; replicas need two slots of one model and
a second model to keep a permit busy. A queue limit of 1 makes `QUEUE_FULL` happen
with requests left to see it. The theorems of section 4 hold for any number.
Slots: with room for one slot a second model must evict the first; three loaders are
a leader, a waiter and a competitor; three objects allow a model to be
replaced once while its old slot is still referred to. Updates: four slot directories
are active, previous, staged and a manual one, and with `keepSlots` = 3 cleanup has
something to remove; models do not interact in an update but through the lock and
the maintenance flag, which one model and the loader share already. Worker: two
streams are enough for one to occupy the thread while the other waits, is cancelled
or dropped; a third only lengthens the queue. This module needs no numeric bound.
Caches: two chains with a common first block are what branch reuse and pruning tell
apart; a quota of 5 holds two blocks of 2 and a marker, so storing a second chain prunes
the first; two faults open the circuit (the breaker counts to 2). Two spoiled snapshots let
one lookup discard two, which is what `NoGhostEntry` has to except. One worker per
snapshot directory: with two, an index update is lost and `SnapshotsBounded` fails (section
5). Three turns are a first prompt, one that reuses it and one that meets what the second
left. Services: tasks of each kind once, since the lock already excludes two loads; a
second load by the same loader follows a first, and three processes are an engine, its
fallback and one more. Four callers let two wait behind one
that runs and a fourth find the queue full. Two calls of one model are a leader and a waiter
or successor, three workers let a model be replaced while its old slot is evicted, and two
ends of the coordinator are a stop or kill, a start, and a kill of the next. Three
ingests of two chunks against a ceiling of four are one too many. Replies: texts
have up to six symbols and a marker two, so that a chunk of five takes a stop sequence and
the marker behind it at once, which shorter ones never do, and every shorter cut occurs;
four provider events are two
calls in two parts each. `Limit`, the summary sizes and the trigger are chosen so that a
prompt may fit, be compressed to fit, and not fit.

**Deadlock** is checked everywhere except in `worker_stream`, `services` and `replies`,
which really stop: streams end, and the calls of clients are used up; elsewhere the end is
an explicit step or cannot come.

**Fairness.** Lanes: ready tasks run (event loop), the consumer of a stream resumes or
closes its generator (CPython closes a dropped one), a generation ends within
`totalTimeoutSeconds`, the menu bar polls once a second; not the queue timeout. Slots:
every task that can run on does, since loads, RPCs and waits for a process have
timeouts; arrivals, cancellations and reaper passes are free. Updates: every wait has
a timeout, an installation ends within an hour, the updater's lock is FIFO. Jobs: the
task's work ends and event streams are read. Worker: the supervisor reads a stream or
drops it, the thread runs its queue.

## 4. The proofs

TLAPS proves the following for every value of the constants that satisfies the
modules' `ASSUME`s. These say that sets of actors are finite where they are counted, that
bounds are numbers, that names standing for nobody are nobody's, that the kinds of task
that share a variable are apart, and that the values a run lists as inputs (prompts,
patches, exports, bodies of a settings write, candidates for an engine) have the shape the
code gives them; `ChainsHashed` says that a block's hash fixes its place and everything
before it, which is what `chained_hash` is for. Hypotheses of single theorems are in the
table.

| Module | Theorem | States |
|---|---|---|
| GenLanesProofs | `TypeCorrect` | types |
| | `PermitsAreAccounted` | free + granted + deciding + committed permits = `generationConcurrency`, and `_gen_active_lanes` is the number of lanes with a permit |
| | `LanesAreOwned` | a lane is locked exactly while it has an owner |
| | `NoZombies` | whoever owns a lane is still being served |
| | `NothingIsLeftBehind` | a request that is over is in no queue, counter, claim or lane |
| | `LanesImplementService` | `GenLanes` implements `LaneService` |
| PoolSlotsProofs | `TypeCorrect`, `LocksAreOwned` | types; nobody ends with a lock, whoever is cancelled wherever |
| | `LeasedSlotsRun` | a slot leased only while ready keeps its worker, for any number of tasks and cancellations |
| | `LoadsAreLed` | with no cancellation (`MaxKill = 0`) a pending load has a leader |
| | `WorkersAreTracked` | with no cancellation every worker is in the table, or somebody is about to stop it, or it has a late lease |
| RuntimeProofs | `TypeCorrect` | types |
| | `RuntimeIsSound` | with `Keep > 2`: the active slot is usable, the residents run it, the load lock has a holder, what another job installs stays |
| | `MaintenanceIsKept` | the action property: no switch under a lease, no flag left up by a job that ends |
| | `JobsTyped`, `RowsAreTended`, `StreamsTellTheOutcome` | an active row has somebody to end it; a stream reports what the row keeps |
| | `JobsImplementJobLife` | `Jobs` implements `JobLife` |
| WorkerStreamProofs | `TypeCorrect`, `GeneratorsAreSettled`, `ClientsToldTruly` | the worker's invariants |
| | `NoTokenAfterCancel` | the action property `StopsAtNextToken` |
| CachesProofs | `TypeCorrect` | types of the three caches |
| | `ServedFromSound` | a reply is served from verified blocks of its own prompt, first to last |
| | `FailuresArePaid` | the breaker counts no more failures than there were faults and removals |
| | `LabelsAreTrue` | every reply of the mlx-vlm worker continues its own prompt, every snapshot holds the tokens it is named after, until a request relabels a cache it did not use |
| | `DiskIsKept` | with one worker in the directory: index, files and both budgets agree |
| ServicesProofs | `TypeCorrect` | types of the six services |
| | `SupervisorIsSound` | processes are accounted for, the gate is not stranded, workers end with the coordinator or are named for the next |
| | `SettingsValid`, `SettingsAreKept` | only valid settings are served; no key of a newer build is lost, one bad leaf costs that leaf |
| | `CollectionsSound` | a collection nobody changed under an ingest keeps its ceiling and its dimension |
| | `ResidentsServed`, `ResidentsKept` | the listener serves the stored endpoint, pins are those asked for; rollbacks and stops are respected |
| RepliesProofs | `StreamsWellFormed` | an OpenAI stream ends once, an Anthropic stream is bracketed, for every text, chunking and provider |
| | `TheRoutesAgree` | every OpenAI route tells the same reply; on a worker both Anthropic ones do |
| | `TheReplyIsWhole` | the clients of every route read the model's text as it is in one piece, however it is cut; all of it, if no stop sequence ends it |
| PromptProofs | `RequestsTyped` | types of the request, the filters and the routes |
| | `ThePromptIsSound` | the prompt is the client's conversation, but for notes and old or short talk, whatever fails; the image files are there while it needs them |

**GenLanes.** No property above is inductive alone: a release gives back a permit only
if the flag is right, the flag only if the owner is, and the owner only if the
waiters of the lock are those requests whose task waits for it. The invariant has a
part per slot (`GoodSlot`: the lock's queue has no duplicates and is exactly the tasks
suspended on it; the lock is held exactly while there is an owner; an owner's task is
between the lock and its commit, and has the permit exactly when it is done), one for
the semaphore (`GoodPool`: its queue, the permits being decided upon and the running
tasks are those of the tasks' positions) and the conserved sums. Each operator on views (`TakeLock`, `TrySem`,
`HavePermit`, `Commit`, `Abort`, `ReleaseLane`, `RecoverLane`, `Finalize`) has a lemma
that says what it does to one slot and to the total; `Reassemble` puts a changed slot
back among the unchanged ones.

**What requests leave behind.** That an owner is alive needs more than that it was alive when it took
the lane: the finalizer of a request marks it abandoned and leaves, and its acquire task
finds the mark later. `Books` adds, beside that invariant, what every request may
have left where (`Tracked`: a queued one is not marked, one past its finalizer with a
task in flight is being cancelled) and what every slot's books say (`Booked`: the
queue is the set of queued requests, the owner has entered or is deciding, leases are
those of the requests inside). The refinement follows from both: the holder of a slot is
its owner with a permit, the conserved sum gives the bound `Conc`, and the
owner's position shows that nobody holds two.

**PoolSlots.** `IInv` adds to the types: a task past `TakeLoadLock` holds the load lock
and no two do (`Exclusive`); the future of a leader's slot is pending, and its worker
runs while it loads (`Leader`); slots on a list to evict were loaded, except under an
unload, which keeps loads out, and the one being stopped has no lease but a late one
(`Evicting`); a slot that is ready, or leased in time, has been loaded and has its
worker (`Fate`); a slot's leases are its generations (`Counted`), which know the slot
they lease (`Knows`). The lemmas about `Moves(a)` say that a step of one task leaves the
others' parts alone; each action then has a "...Keeps" lemma. `TimelyLeaseRuns` needs
`Fate` for leased slots, which in turn needs `Evicting`: an eviction looks at the lease
again, but only before it stops the worker, not while it does. `LoadsAreLed` adds `Led`.
`WorkersAreTracked` adds `Watched`: a slot marked for eviction is on somebody's list (or
leased late), a worker outside the table too, the slot a leader is filling is in
the table and has no worker until it is spawned. The one step that takes a
slot out of the table without stopping it is an admission that puts a new slot in its
place; `Stage` says that it only ever displaces one that is marked or leased late. Cancellation
is excluded
because it drops the lists (section 5).

**Runtime.** An action of the update job runs through several operators, so the
invariant is one of *views*: `Sound` (the active slot is on disk and complete, one load
at a time and under the lock, residents run the active slot, leases are on ready models)
holds of what each operator returns if it holds of what it is given, and `Follows` says which
switches and deletions lie between. What depends on where the job is suspended, such as
who holds the load lock, comes on top. `Keep > 2` is needed: clean-up keeps the active
slot, the previous one and the newest; with two or less it may take the one that
another job is installing (section 5). `keepSlots` is 3 by default.

**Jobs.** `JobInv`: what the task's position says of the row, that a canceller that runs
alone waits for the task's end, what has been told so far, and that a waiting stream
holds the queue the events go to.

**WorkerStream.** The invariant is per request (`Stream(r)`): at most one live job of it
is in the thread's queue, exactly the one its generator awaits; what the adapter's
generator and cache may be in each position; why it was interrupted. `Frame` says that a
move of one request keeps the part of the others; each move has a "Good" lemma.

**Caches.** One inductive invariant per cache; a step of one leaves the others alone.
`PagedKV`: what a restore has read so far are the first blocks of its prompt, each with the
digest its checksum names (`ReadSound`). `FailuresPaid` is a debt: failures counted, blocks still rotten and a read
that is going to fail are together no more than the faults and wipes so far
(`FailuresOwed`); a quarantine turns a rotten block into a failure and changes no
sum. The quota needs a slack of one block between a write and the prune after it
(`RoomKept`). `Snapshots`: how the index a worker has in hand relates to the one on disk (`Noted`), that up
to one unreadable file no write puts a dropped entry back (`Ghostless`), that files without
an entry are at most as many as kills (`Within`), and that the budget evicts exactly the
excess (`VictimsFit`). `VlmReuse`: a cache is never shorter than its label (`Measured`), the
cache a request reads is the live one (`Tied`), its label is a prefix of the tokens it was computed from
(`Labelled`).

**Services.** Again one invariant per component. `WorkerProcess`: who has the lock, which
process a task is starting or stopping, and that no other is alive, unless a probe ran beside
a load (`Steady`, `Calm`; section 5). `WorkerGate`: the queue holds the requests that wait,
each once, and the owner is one that will release. `PoolLifecycle`: who leads a load and
what it leads (`Led`), that a process that runs is in the table and named by its manifest but
for those a successor's manifest has crossed out (`Found`), and what `shutdown()` stops or passes over
(`Stopping`). `SettingsFile`: the document served is one that `_validate` accepts; the recovery
leaf by leaf is a fold whose value is a document, and, when one leaf is the culprit, the
one with that leaf's default. `RagIngest`: what a check read still describes a collection nobody
changed since. `Residents`: during a settings write the listener serves what the write
saw (`Serving`), and after a stop nobody is loading (`Stands`).

**Replies.** Four invariants. *Form* (`RouteInv`): the types, that a stream which goes on has
told no end, and that its frames are bracketed (`Bracketed`, `Live`: at most one block is open and
it is the last one numbered); each builder's function of an event has a lemma. *Text*
(`TextInv`): `Scan`, the text read in one piece, passes through a state that is as far as
the splitter is (`AsFar`), and what it has by then is what the clients were told and what the
stop filter keeps (`Told`). It is inductive since what `Safe` lets through ends before
every place where a marker may begin; this is where the constants must say that markers begin with
`<`, that it is nowhere else in one, and that none begins another (`MarkersApart`), which holds of the
tags in `tool_calls.py`. *Routes* (`SameInv`): the clients' reading of the streams is the reply put
together, by lemmas about what one more chunk or frame adds to `Bodies`, `CallsRead` and `BlocksRead`; a
provider's parts go to the call of their index, and a worker tells calls once. `Linked` and `ToldSame`
join text and routes: what was read of the events is what the replies hold.
*Prompt* (`PlanTyped`, `PlanOwes`): at each step the handler's draft still owes to
the conversation what `Kept` says: same end, same order, same images, calls beside
their results, notes for places that are gone, and only quiet messages gone without one. In the planner's
walk the draft is what was placed together with what is left (`Draft`), so each placement, the
compression and the retrieval block are one kind of step: a part of the draft is replaced by
nothing or by a note (`KeptCut`). A part whose messages are quiet may be cut
anywhere, and `TailStart` never cuts inside an exchange (`QuietEdge`, `CompressKept`). The
assumptions name the shapes of what clients send (`TalksShaped`), of
settings (`ConfigsShaped`) and the planner's constants (`PlanBounds`).

**Recursive functions.** `Without`, the folds over leaves and the counting over sequences
are recursive functions or `FoldSet`s. What is needed of them is proved without an induction
schema: the set of the arguments at which the claim fails has a least element
(`LeastOf`, from `WFMin`), and the step excludes it (`Counting`).

**Only model-checked.** Liveness (`EveryRequestEnds`, `LoadsEnd`, `UpdateEnds`,
`StreamsEnd`, `CancelStops`), since fairness and ENABLED are out of the prover's reach.
Every other property of the passing runs is stated by a theorem. No
module declares a RECURSIVE operator.

## 5. Where the code and its comments disagree

Two runs exhibit behaviour that a comment or a design document rules out (lines in
`PROJECT.json`, "findings").

- `update_restores`: an update with residents fails after the switch, since its own
  maintenance flag refuses its reloads, and so does its rollback.
- `replies_drift`: a provider sends text and then a tool call; the Anthropic stream shows
  the call, the whole message loses it, because the index of a call is taken for an index
  of the content.

The following are definitions of the modules that no run lists, since TLC refutes them;
check one by putting it in place of the properties of its module's configuration. Each
states what the quoted line says.

| Property | Says | What happens |
|---|---|---|
| `GenLanes!LiveNeverAbandoned` | `model_pool.py:1618`: a live request leaves that state within one step | a request blocked in the *inline* acquisition is neither queued nor known to the worker while another lane generates; two polls take its lane |
| `PoolSlots!LeasedRuns` | `model_pool.py:2320`: leased slots stay protected | a generation that tried to add a replica comes back to a slot the reaper evicted, and leases it (line 1771) |
| `PoolSlots!PendingIsLed` with cancellations | `model_pool.py:1173`: an unresolved future would hang every waiter | a leader cancelled while it evicts its victims (line 1116) leaves its future unresolved |
| `WorkerStream!TruncatedNeverStop` | `server.py:665`: report it as the cancellation it is | a cancel that lands while the next token is awaited ends in `finish_reason: "stop"` (line 701) |
| `VlmReuse!GeneratesFromPrompt` | `mlx_vlm_worker/adapter.py:1001`: an unprovable pairing is silent corruption | a cancelled cold request of the same length relabels another request's cache; the next reply continues another text |
| `WorkerGate!OneGeneration` | `supervisor.py:1072`: releasing could allow two generations to overlap | the guard looks at active requests; one between the queue and its generation is in neither table |
| `WorkerProcess!RefusedForItself` | `supervisor.py:479`: this model exhausted its retry budget | a supervisor that serves several models refuses one for another's crashes |
| `PoolLifecycle!NoneSurvives` | `main.py:921`: a worker not stopped there survives as an orphan | a load published before the snapshot spawns its process after shutdown() passed it; its watchdog ends it once the coordinator is gone |
| `PoolLifecycle!AlwaysNamed` | `supervisor.py:246`: the manifest lets a fresh start find the worker | the reaper ends the old worker of a model that was loaded again, and removes the manifest they share |
| `SettingsFile!ResetsWhatFails` | `settings.py:455`: reset only the keys that actually fail | two broken rules: leaves of the same name go too |
| `SettingsFile!ImportReproduces` | `settings_export.py:3`: an export brings the settings back | of two coupled leaves the first does not fit beside the old second, and is skipped |
| `RagIngest!CollectionSound` | `rag/store.py:171`: the ceiling and one dimension per collection | check and insertion are two transactions |
| `Residents!PatchesKept` | `management.py:914`: keeps everything else untouched | the list is copied before the write lock is awaited |
| `Residents!StopStays` | a manual stop stays | a load already waiting (the preload's next model, a request past the gate) goes on after it |
| `ReplyText!NoCallPastStop` | `server.py:782`: past the stop sequence nothing makes a tool call | a call marked in the same chunk is parsed |
| `PromptPlan!SystemTextKept` | `response_format.py:181`: append to the system message | a system message that is a list of parts loses its text |
| `PromptPlan!FittedStillFits` | `context_compression.py:17`: compression makes room | a summary longer than what it replaces takes a prompt that fitted over the limit |
| `Snapshots!IndexNamesFiles` | `prompt_cache.py:14`: a cache that cannot be read is dropped | a lookup that discards two unreadable snapshots writes the entry of the first back with the second's index (line 375); its prompt is never stored again |
| `PromptPlan!FilesGone` | `images.py:126`: the caller must call `cleanup()` | a retrieval that fails leaves the image directory |

Met while modelling, without a property:

- lanes and slots: the inline acquisition can block, against `model_pool.py:1777`; a
  waiter whose leader is cancelled finds the cancelled slot at each re-entry and fails; an
  eviction cancelled half-way, or one that gives way to a late lease, leaves a worker
  nobody will stop; clearing prompt caches iterates the slot table across awaits;
- updates: a rollback that is cancelled leaves the engine in maintenance; `old_slot` is read
  before the staging; with `keepSlots` of 2 or less cleanup may remove a slot being
  installed; with the pool disabled the runtime is switched under a loaded worker;
- two event streams of one job share its queue, so only one of them sees the end;
- memory pressure found at a trailing event leaves the stored cache in place;
- caches: two replicas lose each other's index updates; the sweep of one model's
  namespaces removes another's;
- supervisor: a probe takes no lock in single-worker mode; a forced cancel counts as a
  crash; a load cancelled by its job leaves a worker that holds the model and `loaded` unset;
- settings and listeners: an import writes the endpoint without switching the listener; a
  failed switch closes the gate even if a load opened it meanwhile;
- replies: a whole OpenAI reply may carry `finish_reason` "cancelled" where the stream says
  "stop"; an oMLX stream that ends without a reason leaves an Anthropic stream without its
  last two frames; the tail of a stopped reply shows
  splitter text held back before the stop sequence, which may be half a marker, or reasoning
  behind other reasoning that the stop sequence swallowed (`server.py:832`; the loop leaves at line 795
  with visible events still unread, found when the proof that what is shown is always a beginning
  of the text failed, and shown by TLC with chunks of five symbols);
- prompts: a format's instruction replaces a system message that is a list of parts and its
  images with it, while they are still counted; a cancelled summary is taken, and cached, as a whole one; images inside an
  Anthropic `tool_result` are dropped; `memoryPressureRatio` and `maxRetrievedSegments` are
  documented in the settings and not read by the planner.

## 6. Not modelled, and the plan

Left out for good: tensors, tokenizers and kernels (adapters, loaders), the wording of
the wire formats, the oMLX client, the CLI, the Swift application, packaging scripts, the
classification of model files. They are data, or input and output without a state of
their own.

Not modelled, and worth it: byte-level admission (the estimates are one unit per slot in
`PoolSlots` and a free choice in `GenLanes`); two workers of one snapshot directory as a
passing run (its guarantees are weaker: every listed file is whole); the request guard and
the token file; presets; the crash breaker's count and the timing of replica top-up; the worker's soft-token tier.

The modules of the caches, services and replies are composed as alternatives where they
share no state. Two compositions would say more and are left: `PoolSlots` with one
`WorkerProcess` per slot, and `Residents` with `PoolSlots` in place of its set of models.

Proofs left: only liveness, by model checking, and the two compositions above once they
exist.

### Running it

    tlc -workers 2 -config GenLanes_safety.cfg MCGenLanes
    tlapm GenLanesProofs.tla

Each run's module and configuration are in `PROJECT.json`; a run takes at most about three
minutes, the proofs of a module at most about fifteen.
