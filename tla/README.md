# Formal model of the CNE expert-streaming engine

This directory holds TLA+ specifications of the parts of the engine whose
correctness depends on the order in which threads, failures and evictions
happen, TLC configurations that check them on small instances, and TLAPS proofs
of the results that hold for every instance.

Run a check with `tlc -workers 2 -config <Run>.cfg <MC module>` and the proofs
with `tlapm <Name>Proofs.tla`.

## 1. Inventory of the system

The engine runs mixture-of-experts models that do not fit in memory: routed
expert weights are streamed from disk into windows of anonymous memory while
llama.cpp evaluates the graph. A chat server on top of it keeps conversations'
KV lanes between turns; a Python gateway in front authenticates clients.

| Component | State | Operations | Talks to | Hard part |
|---|---|---|---|---|
| **SliceCache** `core/src/features/streaming/cache.cpp` | map of entries, LRU list, `used_`, shield, pages of the windows | `touch`, `touch_at`, `touch_batch`, `touch_batch_at`, `prefetch_batch_at`, `make_room_locked`, `commit_locked` | called by the eval callback (decode thread) and the prefetch worker; fills through DirectFile or memcpy; batches through IoScheduler | two threads, one reading outside the lock; page-granular eviction; failing reads; a hard memory cap |
| **IoScheduler** `io_scheduler.cpp` | the batch (`fn_`, `count_`, `next_`, `pending_`, `failed_`), lanes, two condition variables | `run`, `worker_loop`, destructor | its one owner thread per pool | lost wakeups, lifetime of the caller's function, shutdown |
| **DirectFile** `direct_io.cpp` | a file descriptor | `read_aligned` | SliceCache | short and failing reads |
| **SessionStore** `runtime/cne_session.cpp` | slots (owner, lane, token ledger, tick), free lanes; the lanes themselves live in llama.cpp | `get_or_create`, `remove`, `evict_lru*`, `alloc_seq`, `session_prefill`, `session_append_token`, `session_decode_token` | called by HTTP threads (binding) and by the engine thread (prefill, decode) | ledger and lane must agree through failures, lane reuse, caps, tenants |
| **Chat server** `server/cne-server.cpp` | `gen_mutex`, job queue, per-request state, the slot pointer of a job | `handle_chat`, `bind_conversation`, `submit_job`, `engine_thread_loop`, `generate_sequential`, the streaming content provider | sessions, llama.cpp, clients | lifetime of what a streaming job refers to once its handler has returned; disconnects; everyone must be answered |
| **Streaming runtime** `runtime/cne_stream_cb.cpp` | window registry, kept routing, routing of the last two steps, prefetch queue | eval callback (router harvest, gating, fills, expert matmul), `lookahead_push`, `prefetch_worker`, `stream_prefetch_kick_full`, `stream_step_boundary`, `stream_prefetch_stop` | SliceCache, llama.cpp graph | unlocked registry reads, stale routing and slices, queue growth, evaluations that fail half way, shutdown |
| **MTP speculation** `runtime/cne_stream_spec.cpp` | the target's and the drafter's memory, checkpoint, pending draft | prime, draft, verify, roll back and replay, trim | llama.cpp; `emit_token` and `request_poll_stop` of the server | rejected tokens must leave both memories, recurrent states cannot be cut, failures between the two |
| **Token stream** `server/cne-server.cpp` (`TokenStream`, `Emitter`, content provider) | queue of pieces, done/failed/aborted, text sent so far | `emit_token`, `visible`, `pull`, `finish`, `abort` | engine thread to HTTP thread to client | end overtaking pieces, half-open clients, the text filter |
| **Memory and KV budget** `core/src/memory/` | none | head room, clamp of the cap, regime, `suggest_serving_kv` | setup, boot | unsigned arithmetic, a loop that shrinks until it fits |
| **Setup** `cli/cne-setup.cpp` | detected machine, items, `server.json` | detect, plan, override, confirm, write | budget; boot reads the file | termination, items changed behind the planner |
| **Boot** `runtime/cne_runtime.cpp`, `config.cpp`, `main` of the server | environment, dense policy, cap, lanes, threads | configure, prepare, load, API state, listen | all | order, two readings of the memory, failing stages with threads running |
| **API edge** `runtime/cne_api.cpp`, POST handler | keys, hits per user | authenticate, rate limit, conversation id, trimming to the lane | gateway, chat server | who a request runs as, what fits, window boundaries |
| **Gateway** `gateway/cne_gateway/` | client keys, hits per user, exchanges under way | authenticate, admit, apply policy, proxy (whole or streamed) | server | identity headers, engine that is down or dies |
| GGUF reader, registry, classifier `core/src/gguf/` | parsed file | parse, look up | boot, tools | bounds |
| Prepare, benches, probes | files | offline | reader | none of concurrency |
| llama.cpp (submodule, not in the repository) | KV lanes, logits | `llama_decode`, `llama_memory_seq_rm` | external | may fail at any token |

What makes each core component correct:

* SliceCache: an entry's pages hold its bytes; the bookkeeping matches the
  entries; memory stays within the cap (or a stated excess); what leaves is the
  least recently used; what a kernel asked for is there when it runs.
* IoScheduler: each job exactly once, no call into a dead frame, no lost
  wakeup, failures reported, orderly shutdown.
* Streaming runtime: a kernel reads the experts its own router kept; the worker
  prefetches the latest routing; what both threads touch without a lock is never
  touched by both at once; the worker can be joined.
* SessionStore and server: lanes neither leak nor are shared; caps and tenancy
  hold; prefix reuse cannot be observed; the slot a job uses exists; requests
  are served one at a time; every request ends.
* MTP and the token stream: speculation changes nothing but the speed; the
  client gets the visible text of the tokens, all of it before the end mark;
  every stream ends whoever fails or leaves.
* Setup, boot, edge and gateway: the planner ends; the cap leaves room for what
  else is needed; requests run as the user of their key and in conversations of their
  own; both limits are exact; policy and lane bound what is
  generated; every exchange ends.

## 2. Modules

| Module | Models | Kind |
|---|---|---|
| `ExpertLru` | what the cache promises: keys ordered by use, only the oldest leaves | abstract |
| `SliceCache` | cache, pages, the demand caller, the prefetch worker | detailed, implements `ExpertLru` |
| `StreamEngine` | evaluation callback and prefetch worker | composition over `SliceCache` |
| `JobBatch` | what `run` promises | abstract |
| `IoScheduler` | the lane pool with its condition variables | detailed, implements `JobBatch` |
| `SessionStore` | slots and lanes: state and operations | component |
| `ChatServer` | HTTP threads and engine thread over `SessionStore` | composition |
| `GreedyDecode` | what generation promises: a prefix of the target's greedy path, within the budget | abstract |
| `Mtp` | the speculative loop with both memories | detailed, implements `GreedyDecode` |
| `TokenStream` | emitter, queue and content provider of streamed answers | component |
| `MtpServing` | engine thread with jobs over `Mtp` and `TokenStream` | composition |
| `Budget` | head room, clamp, regime, KV estimate | pure functions |
| `Setup` | wizard and planner over `Budget` | component |
| `Boot` | start of the server from `server.json` and the environment | component over `Setup` |
| `RateLimiter` | the sliding window of gateway and engine | pure functions |
| `ApiEdge` | POST handler in front of generation | component over `Boot`, `RateLimiter` |
| `Gateway` | keys, limiter, policy, proxying | component over `ApiEdge` |
| `Serving` | setup, boots, crashes, engine, gateway, clients, clock | composition |
| `MC...` | instances for TLC | |
| `SliceCacheProofs`, `StreamEngineProofs`, `IoSchedulerProofs`, `ChatServerProofs`, `ChatReuseProofs`, `MtpProofs`, `MtpServingProofs`, `ServingProofs` | theorems | |

Definitions named "Mutant" in a comment are deliberate faults (a dropped guard,
a swapped order); no specification uses them. Each is substituted for the
definition that follows it to see that the property in question notices.

### SliceCache

`map`, `lru`, `used`, `shield` are the fields of the same name; the list is kept
as its order relation, which makes "nearer to the front" a set membership.
`window` is the set of memory units that hold their source bytes: a fill adds a
slice's units, `madvise` removes whole pages, so neighbours that share a page
are affected as in the code. `mu` is the holder of the mutex. The demand call
goes `lookup -> room -> (fill and commit | queue) -> commit -> compute`: the
serial form (`touch`, `touch_at`, `touch_batch`) commits each miss before the
next look-up, the batched one (`touch_batch_at`) makes room for all misses, then
fills, then commits. `UseOdirect` selects the backend. A failing demand fill
aborts the process, as in the code. The prefetch worker filters under the lock,
reads without it, one unit at a time, and commits under the lock again.
Left out: statistics, the optional memcmp self-check, and collisions of the
64-bit hash used as key.

### StreamEngine

Extends `SliceCache`: the cache's steps are taken unchanged (`InDemand`,
`InPrefetch`), the calls are made where the runtime makes them. The decode thread
walks `Graph`, a sequence of router and matmul nodes, or with MTP one of `Drafts`, the
graphs of the draft context, which is served by the same callback
(`cne_stream_spec.cpp:46`) and runs tensors of its own (`BeginPass`: a part of a
prompt or an evaluation of the MTP loop, after which nothing is kicked). `Router`
harvests and gates, `HarvestCall` fills the layer's windows that exist, a matmul
inserts its window (two steps, since the insertion is a write the worker could see),
makes its demand call (`Serve`), records its routing, queues the look-ahead item by
item and runs its kernel. `EndToken` is `stream_prefetch_kick_full` followed by
`stream_step_boundary`; a prompt has neither, and `EvalFails` leaves at any node.
Gating reads probabilities into doubles of which only half of the bytes are written,
so `Router` may keep any subset it could keep for some value. The worker takes an
item, looks the window up, prefetches. Its condition variable is a wait on a predicate
every change of which is notified, and is modelled as that predicate. Left out: the
debug switches, dense tensors, telemetry, and the scan at boot, which fills nothing.

### IoScheduler

One action per stretch of a thread between two points where it can lose the
mutex. Waiting threads are `asleep`/`waiting` and leave only by a notification
or a spurious wakeup. The function passed to `run` is the set of jobs on which
it returns false or throws. Each pool has one owner thread (the decode thread
owns the demand pool, the prefetch worker its own), so `run` is not called
concurrently with itself.

### SessionStore and ChatServer

A slot is the value of `owner`, `lane`, `ledger`, `last` at its conversation;
`born` is the identity of the map node, so that a pointer to a slot that was
erased and made again is seen to be stale. `kv[l]` are the tokens lane `l`
really holds, `ledger[c]` what the slot believes: `session_prefill` compares only
their lengths (`InSync`). `Reused` is the number of tokens kept, after the
desync reset, the trim and the reset when the trim fails. A failing
`llama_decode` leaves any proper prefix of the tail in the lane.

A request thread goes `queued -> (remove) -> bind -> (alloc) -> submit ->
await | drain -> done`. `gen` is `gen_mutex`: a blocking handler keeps it until
it has its answer, a streaming one until its job is queued. Evictions are one
step each, as the loop of `get_or_create` does them. The engine thread takes
jobs in order: prefill, then tokens, then the end. `logits` records which tokens
the logits in the context belong to. A job that reaches a freed slot goes to
`undefined`, where the model stops, since nothing can be said of the process.

Abstractions: requests arrive parsed, authenticated and tokenized (`ApiEdge` has that
part); MTP is off (with it every request is stateless, see `MtpServing`); the text
filters of the token stream are `TokenStream`'s; the end-of-generation decision is
nondeterministic (token, length, deadline, disconnect); lane capacity shows only as a
decode that fails.

### Mtp, TokenStream, MtpServing

A memory is two token sequences, the attention cells and what a recurrent state
has absorbed; `kind` says which context has recurrent layers, where `SeqRm` below
the state's length is refused and only a checkpoint brings the state back. `Best`
of a memory whose two parts disagree is an arbitrary token (`Garbled`), so that
anything left behind shows in the output. `Emptied` is what a clear leaves: nothing,
or with `Retains` possibly the recurrent state, which is the upstream defect #26425
that the server warns of. The loop goes `idle -> prefill -> loop ->
verify -> (loop | emit -> loop) -> ended -> idle`; a draft is any sequence the room
allows. `Draft` is checkpoint, draft and the drafter's way back, `RollBack` the whole
branch for rejected drafts in a recurrent target, `Accept`/`Emit`/`Trim` the other
one. `PrefillFails` and `VerifyFails` have both failures: the decode, and the drafter
after it. The capability probe wipes the target's memory once per process (`Begin`).
External and modelled from their use: memories, checkpoints and the speculator.

`TokenStream` keeps `toks`, the number of visible characters sent, the queue and the
flags `done`, `failed`, `aborted` of each stream. `Scan` is the loop of `visible()`
with its constant of 20 characters; a tag is its first character followed by
filling of its real length. `pull` prefers a queued piece to `done`; writes to a
client that left fail or get lost, whichever the kernel likes. `MtpServing` runs
`Mtp` as job with `Emitted` as `on_token` and the abort flag or the wall budget as
`poll_stop`. A client never leaves because the model wants it to.

### Budget, Setup, Boot, RateLimiter, ApiEdge, Gateway, Serving

Sizes are in MiB. `Setup` has one step per turn of the planner's loop. `Boot` has
one action per stage with its failure; `Left` is the return from `main`, which is
`std::terminate` when the prefetch worker or the engine thread runs. `Injected` is
what `apply_config_file` makes of a JSON value, quotes of a string included; `Over`
lays answers over suggestions. Negative numbers wrap where the code casts them
(`SizeT`, to some `Huge` number) and are ignored where it ignores them (`Count`).
A user, a key and an id are the sequences of their parts between colons, so that
`user:chat` is `user \o chat`, and the ids of two users may coincide; then it is for
the session store to say whose conversation it is, and `Bind` and `BindFails` are
both possible (`MayBeAnothers`). Thinking depends on the architecture as well as on the
request: `ThinkClosed` is the closed block that only qwen3 gets, `ThinkStripped` the
filter that lfm2moe does not get. The limiter reads the clock and takes its lock in
one step (`Limited`).
A message is its role and length; `ApiEdge!Trimmed` drops the oldest one that is not
a system message until the prompt fits, or gives up. Refusals are statuses in the
order of the handler's returns. `Bind` takes the decode lock and queues the job,
`RunJob` ends the oldest one. `Gateway` counts at authentication, before it reads the
body; the clock may move between that and the engine's own count. `Serving` adds
the clock, deaths of the engine process (queues, hits and calls are lost, the
gateway's state is not) and restarts. The gateway's connection to the engine has no
timeout, so an exchange ends by an answer, by a refusal to connect or by the end of
the connection.

## 3. Runs

| Run | States | What it shows |
|---|---|---|
| `SliceCacheDemand` | 352,947 | batched backend, failing reads, no prefetch: contents right, no untracked memory, a batch that fits is there when used |
| `SliceCachePrefetch` | 530,993 | demand racing prefetch under a tight cap, torn and failed reads, slices that are larger than the cap: bookkeeping exact, cap exceeded by less than a batch, implements LRU, the lock is released |
| `StreamEngine` | 1,552,406 | callback and worker in all prefetch modes with failing evaluations and draft graphs: the registry never grows by a window of the model while the worker searches it, latest routing wins, kernels served (without prefetch), the worker stops |
| `IoScheduler` | 99,700 | exactly once, failures reported, no call after return, no lost wakeup, shutdown |
| `ChatTenants` | 253,331 | three tenants, two lanes, per-user cap, clears, a streaming client: lanes, caps, isolation, a tenant at its cap gives up its own conversations, under a running job no handler touches a lane, except behind a job that streams |
| `ChatReuse` | 407,012 | two conversations on one lane, edited and extended prompts, decodes failing at any token, trims that may fail: reuse never shows |
| `ChatStreaming` | 509,792 | streaming, blocking and stateless requests with different prompts, a lane per conversation, trims that may fail: no request sees tokens of another, every request ends |
| `MtpServing` | 33,571 | request after request through the speculative loop, every draft, failure and full context, three kinds of contexts, clients that leave, clears that leave nothing: implements `GreedyDecode`, both memories in step, the visible text arrives whole and before the end mark, every stream ends |
| `Serving` | 177,939 | six machines from setup over boot to clients behind and beside the gateway, failing boots, one death of the engine: limits exact, tenants named rightly, policy and lane kept, cap leaves room, planner ends, every request answered |

Three runs end in a counterexample: a statement in the repository that the code
does not keep to. Each has an entry under `findings` in `PROJECT.json`.

| Run | Statement | What happens |
|---|---|---|
| `SliceCacheRace` | `cache.h:80` "Safe to race with demand fills" | load and eviction between a prefetch's read and its commit leave zeroed pages marked resident |
| `ChatDangling` | `cne-server.cpp:416` "appends generated tokens to the slot afterward" | the slot can be gone by then |
| `ThinkFilter` | `cne-server.cpp:257` "drop <think>...</think> spans" | the filter goes on 20 characters behind the start of a tag of 8: answer text is lost, and a block at the end of the text makes `substr` throw on the engine thread |

The cap is another statement the code keeps to only approximately (`cache.h:31`
"never exceed; evict to stay under"): a batched call makes room for each of its
misses as if it were alone. `OvershootBounded` says by how much it can be exceeded,
and the theorem `CapInPointerMode` that it is kept where calls are not batched.

### Observations without a run

* `ChatServer!SampleFresh`: a prompt that is a prefix of the lane is not decoded at
  all, and the first token comes from old logits (`cne_session.cpp:103`).
* `StreamEngine!DroppedAreZero`: a dropped expert's slice that an earlier evaluation
  loaded is still in the window (`cne_stream_cb.cpp:433`).
* `CleanContext` fails when a stateless request on lane 0 and a failing decode come
  together: the failed prefill keeps its old ledger (`cne_session.cpp:73`).
* The planner's loop does not end when two or more lanes of 512 tokens exceed the
  budget, as with 3400 MiB available and a model of 1000 MiB (`kv_budget.cpp:48`);
  `PlanEnds` excludes these machines, and `MCServing` has one of them.
* A string in `server.json` keeps its JSON quotes when it becomes an environment
  value (`cne-server.cpp:92`): `"dense": "anon"` means mmap.
* In API mode `session_max` is raised to 2 after the planner has run
  (`cne-setup.cpp:439`): a context of 512 becomes lanes of 256 tokens, in which the
  default answer never fits.
* API mode together with MTP answers every request that names a conversation with
  403 (`cne-server.cpp:832`).
* A boot that fails with the prefetch worker or the engine thread running ends in
  `std::terminate` instead of an exit code (`cne_runtime.cpp:120`).
* `X-Chat-Id` is preferred by the gateway when it looks the chat up, but not put
  into a body that has a `chat_id` of its own, null included (`proxy.py:44`).
* The gateway's window uses the wall clock (`auth.py:87`), the engine's a steady one.
* User ids with a colon make `user:chat` ambiguous (`cne_api.cpp:189`): chat `b:c` of
  user `a` and chat `c` of user `a:b` have the same id, and nothing forbids such a
  user. `TenantNamed` admits it; the slot's owner check still stands between the two
  while the slot lives (the second one gets a 403).
* The registry look-up of the prefetch worker (`cne_stream_cb.cpp:197`) is not
  protected from the windows of the MTP draft graph: after a sampled request has
  kicked the worker, the first greedy request inserts them, and `runtime_prepare`
  leaves prefetch on with MTP. `RegistryUnshared` is about the windows of the model
  itself; `MCStreamEngine` has the draft graph, and without the restriction TLC finds
  the race.
* "HTTP handlers only prepare state and submit jobs" (`cne-server.cpp:386`) does not
  hold with streaming clients: a handler that evicts or clears a conversation removes
  its lane from the llama context on the HTTP thread while the engine decodes
  (`cne-server.cpp:483`). `KvOnlyByEngine` says that this is the only exception.
* "Post-generation memory clears below blunt the retention but do not eliminate it"
  (`cne-server.cpp:1318`): with `Retains = TRUE` TLC finds the second request of a
  process in an unclean state. All that is said of MTP across requests is said for
  `Retains = FALSE`, a llama.cpp without #26425.
* "LFM2.5 always thinks" (`docs/GATEWAY.md:107`): the gateway's thinking policy has no
  effect there, neither on the prompt (`cne-server.cpp:766`) nor on what is shown
  (`cne-server.cpp:889`), and none on the prompt of any other architecture but qwen3.
* The engine's limiter reads the clock before it takes its lock (`cne_api.cpp:177`): a
  thread held up in between appends an older hit behind a newer one, and the pruning
  from the front stops early. The model reads and counts in one step: its instants
  are coarser than such a delay, and `LimitsExact` holds up to it.
* Trimming may drop the newest user message too (`cne-server.cpp:505`).
* The look-ahead queue is never cleared (`cne_stream_cb.cpp:253`).

### Bounds

* SliceCache: two tensors with slices of one and two units, two or three
  experts, a cap of two or three units, a shield of two. Two sizes make the size of
  a victim differ from that of the newcomer; a cap of three holds one large and one
  small slice, so batches that fit, that fit only by evicting their own hits and
  that cannot fit all occur; a cap of two makes demand evict what a prefetch is
  about to commit, and a slice of three units, which only demand calls ask for
  (`make_room` is the same for both), then finds nothing left to evict. A shield of
  two is exceeded by the third key. Slices of two units can be torn.
* StreamEngine: a layer with two routed tensors and two experts, so that the first
  looks ahead for the second and one router fills two windows; single experts are
  routed to, and `MaxEvals` prompts, tokens, draft passes and failures follow one
  another; three are a prompt that makes the windows, a token that kicks the worker and
  whatever meets it. The layer of the MTP head belongs to the draft graph. The cap
  holds one slice, so that every fill evicts and what the worker is asked to
  prefetch is absent; larger caps are the subject of the SliceCache runs (with a cap
  of two the composed state space has more than 16 million states).
  `MaxStep` bounds the step number a token gets, `MaxQueue` the length of the queue
  when an evaluation begins.
* IoScheduler: two lanes and up to three jobs, so that one lane takes a second
  job while the other works; one spurious wakeup (`MaxSpurious`) of either kind.
* ChatServer: three or four requests, up to three tenants, one or two lanes, prompts
  of up to three tokens over two letters, at most two generated tokens (`NGen`). Three
  requests are one that fills a lane, one that disturbs it, one that trusts it; a
  fourth is needed for a foreign eviction and a stale ledger. Request threads are
  interchangeable (symmetry), except where liveness is checked.

* MtpServing: drafts of up to two tokens (`NMax`) over four tokens, budgets of one
  and three, six positions (`NCtx`) and prompts of up to four, so that the room
  ends by budget, by context and not at all; prefill in chunks of two. The target's
  choice depends on the whole context, so that a wrong memory is seen. One request
  name is used again and again; jobs that wait behind others are ChatServer's.
* Serving: three requests, a clock of three instants with a window of one (two
  requests can be in one window, at its edge or out of it), limits of one, one death
  of the engine (`MaxCrashes`). Three requests of one user compete on a roomy machine,
  two users (`u` and `u:x`) have chats with the same id, and each of 22 odd requests
  comes alone on each of six machines, one with negative numbers in its environment.
  `Huge` is more than any machine has. `CHECK_DEADLOCK FALSE`: clients are finite, and
  a server that nobody asks stands still.

### Fairness

* `SliceCache!FairSpec`: weak fairness of each thread while it runs. Neither
  waits for the other while it holds the lock.
* `StreamFairSpec`: weak fairness of the worker. Nothing is asked of the decode
  thread, and `WorkerStops` only asks that the worker leaves once evaluations have
  ended: the mutex of the cache is not fair, so a decode thread that goes on for
  ever could keep the worker from it.
* `IoScheduler!FairSpec`: weak fairness of each lane and of the owner inside
  `run` and the destructor; jobs return; nobody has to call `run`.
* `ChatServer!FairSpec`: weak fairness of the engine thread and of each handler.
  `std::mutex` is not fair, but each request takes `gen_mutex` once and there
  are finitely many, so none starves. `llama_decode` and the sampler return.
  Clients need not disconnect, and arrivals are not fair.
* `MtpServing!FairSpec`: weak fairness of the engine thread, of its taking of jobs
  and of every content provider, whose wait is timed. No client has to leave.
* `Serving!FairSpec`: weak fairness of the work under way as a whole: the planner's
  turns, the engine's threads and the gateway's tasks. It is enough since every
  request takes finitely many steps. Nobody has to arrive, boot, crash or restart.

## 4. Proofs

All theorems hold for every value of the constants that satisfies the named
assumptions. These give types and finiteness, and a few things about the world that
the code relies on: either every or no request has an owner, as in the server's two
modes (`ModeAssumption`); the target's choice is a token (`TargetAssumption`); numeric
settings are numbers, which `valid_value` of the wizard sees to (`SiteAssumption`);
memory that other processes take and the rate window are natural numbers
(`DriftAssumption`, `WindowAssumption`); a wrapped negative number is more than the
machine has (`HugeAssumption`); a key belongs to a user or to nobody, and nobody is no
user (`KeyAssumption`, `GatewayAssumption`); a request has the fields and types JSON
gives it (`WellFormed`); no instant is called `Never` (`ClockAssumption`). TLC
evaluates each of them on the instances.

Each proof module holds an inductive invariant, one lemma per action, and the
theorems at its end.

* **SliceCacheProofs.** `IInv == TypeOK /\ PendingAbsent /\ Accounting /\
  ShieldIsFront`. `Accounting` alone is not inductive: a commit must know that
  its key is still absent (`PendingAbsent`, which ties the phases of both calls
  to the lock). `ShieldIsFront` makes the victim the last of the whole list,
  which is what `RefinesLru` needs. `CapInPointerMode` adds that calls are
  serial when the mmap backend is used. `OvershootIsBounded`, with prefetch and all:
  queued misses and keys still to be looked up are together at most the batch
  (`Queued`), and room was made for one of the queued ones (`RoomForOne`).
  `MemoryIsTracked` assumes that nothing is prefetched: what is populated is an
  entry, a queued miss, or above the cap. `ContentsWithoutPrefetch` and
  `ServedWithoutPrefetch` assume page-aligned slices and no prefetch;
  `SliceCacheRace` shows that the latter matters, and an eviction that zeroes half
  of a neighbour the former. The second rests on `Service`: what a fitting batch has
  touched stays in front of everything else in the list, so a victim among it would
  mean that the batch is all there is, and then it would not fit.
* **StreamEngineProofs.** `StreamInv` is the types and where in the graph the
  callback is. From it `DrivesCache`: every step of the runtime is a step of
  `SliceCache`, so that its theorems carry over (`StreamAccounting` is one).
  `ModelRegistryUnshared` needs `WindowsFirst`: something is queued, being looked up or
  open to look-ahead only when every window of the model exists, because the history
  that feeds the queue is switched only at the end of a whole evaluation, and the
  nodes an evaluation has passed have their windows. Nothing of this is true of the
  draft graph's windows; `RegistryNeverShared`, no insertion at all under a look-up,
  has the hypothesis that draft graphs run no tensors of their own (no MTP).
  `LatestAlwaysWins` is inductive with the types. `KernelsServed` carries
  `Service` over: with prefetch off the worker never starts (`WorkerOff`), and the
  batch under way is the node's own from the fill to the kernel (`OwnCall`).
* **IoSchedulerProofs.** The count of pending jobs as unclaimed plus claimed
  ones, with what each lane's stage says of the lock and of its job.
  `NoCallAfterReturn` and `RefinesBatch` follow.
* **ChatServerProofs.** `IInv` joins the lanes and caps with `Holding`: only the
  holder of `gen_mutex` is between look-up and insertion, so the room it made is
  still there. `OwnersKnown` is why adopting an anonymous slot never raises a
  tenant's count. `BlockingSlotValid` adds `Blocking`: without streaming, the
  only job in the queue or on the engine is the lock holder's. `TenantsIsolated`
  adds `Bound`: a slot gets a new birth tick when it is made anew, and a thread
  whose slot has the old tick has the slot it was given, of its own tenant.
  `OwnChatsGoFirst` is an action property that follows from `IInv`.
* **ChatReuseProofs.** `LanesOnlyByEngine` rests on `Waiting`: the handler of a blocking
  job that is queued or runs holds `gen_mutex` and waits, so that whoever else removes a
  conversation does so behind a streaming one. `ReuseUnobservable`, for servers whose
  clients never stream, is the
  argument behind `session_prefill`'s comparison of two lengths: for every slot
  the lane is empty, or the lengths of ledger and lane differ, or their tokens agree
  (`Trusted`); a stateless request on lane 0 is the one exception, and only while it
  runs (`Guest`). Its second hypothesis, no stateless requests or no failing
  decodes, is needed: without it `CleanContext` is false (see the observations).
* **MtpProofs.** One part of `IInv` per stage of the loop: what both parts of the
  target's memory hold, that the checkpoint is where the loop stands while a draft
  is open (`Saved`), that a draft keeps within the budget (`Affordable`), and that
  the tokens being emitted are the target's own path (`AtEmit`). `Lossless` is the
  refinement of `GreedyDecode`, with no hypothesis on drafts, failures or stops. Both
  it and `RoundsStartClean` assume `~Retains`: that the clears between requests leave
  nothing behind, which the server's own warning denies of today's llama.cpp. Only the
  types (`MtpTypeCorrect`) need no such hypothesis.
  `RoundsStartClean` adds the drafter (`DrafterInStep`) and needs that it is
  recurrent only if the target is: the code decides the rollback by the target's
  kind alone (`cne_stream_spec.cpp:129`).
* **MtpServingProofs.** `ServesTheLoop` carries the loop's theorems over to the
  server, with their hypothesis `~Retains`. `AnswersIntact` and `CleanEndsComplete`
  are about the emitter, the queue and the provider. `Fine` relates the two sides of
  one stream: what was sent and what is queued is together what is outside of think
  blocks (`Intact`), `sent` is its length, and a clean end has nothing left
  (`Complete`); `JobsOk` says that a job that waits or runs is of a stream that is not
  done. Both theorems assume `Legible`: no token that may have to be stripped contains
  a closing tag, and an opening one starts its token. The first part is what
  `ThinkFilter` shows to matter: behind a closing tag the filter loses text or throws.
  The facts about `FlattenSeq` and about `Scan` are inductions over sequences, done by
  a least counterexample (`NoLeast`).
* **ServingProofs.** `PlanInv` follows the numbers from the wizard's answers over
  `server.json` and the environment into the boot (`CapFits`). `ClientInv` and
  `CallInv` say what the gateway has made of a request at each stage of its way, and
  what the engine's record of it has to do with that, also when the engine died in
  between (`TenantsNamed`, `PolicyEnforced`, `RequestsFit`; the last one with lemmas
  on what `Trimmed` drops). An id in use begins with its user and a colon, and two
  users that one id begins with are the same or continue one another
  (`TwoBeginnings`); `ColonFreeTenantsApart` concludes that users without a colon
  never share one. `LimitsAreExact` relates each limiter's list of hits to the
  requests themselves: the hits of a user are in order, and those inside the window
  are as many as the requests that were let through in it (`GatewayLimit`,
  `EngineLimit`); the engine's part starts again with each process.

Only model-checked: the liveness properties (`LockReleased`, `RunReturns`,
`DestructorReturns`, `Answered`, `WorkerStops`, `EveryStreamEnds`, `PlanEnds`,
`EveryRequestAnswered`), which are out of the prover's reach; and, beyond the
hypotheses named above, `CleanContext` of a server that streams, which TLC checks
where there is a lane for each conversation (`ChatStreaming`).

## 5. Plan

1. Done: SliceCache, IoScheduler, StreamEngine, SessionStore, ChatServer, MTP
   speculation with the streamed hand-over, setup, boot, API edge and gateway, each
   model-checked and with proofs of every safety property the runs state.
2. Proofs next: contexts of a streaming server that has a lane for each
   conversation; that the sum of the messages' tokens is a number, so that
   `WellFormed` need not say so.
3. Pure functions that could be checked against reference definitions: the aligned
   read, GGUF bounds, the model registry.

## 6. Not modelled

* GGUF reader, registry and classifier: sequential code without state between
  calls; what can be wrong is byte arithmetic. Boot has "the manifest cannot be
  built" as a failing stage.
* `cne-prepare`, benchmarks, the graph census, probes and container scripts: no part
  of serving.
* The inside of llama.cpp (external): lanes, logits, memories, checkpoints and
  failures are modelled from their use.
* The gateway's `config.py`, and what Starlette and httpx do when a client leaves a
  proxied stream; the engine's own side of that is `MtpServing`.
* The setup items that serving does not depend on (kernel, threads, port) and the
  validation of typed values.
* HTTP parsing, JSON, sampling with a temperature, log output and statistics.
