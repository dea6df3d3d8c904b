# TLA+ models of the SGLang serving runtime

This directory holds TLA+ models of the concurrent and stateful parts of
SGLang (`src/python/sglang/srt`), the TLC configurations that check them on
small instances, and TLAPS proofs. Source paths below are relative to
`src/python/sglang/srt` unless they start with `src/`. `PROJECT.json` maps
every definition to the lines it models and lists components, runs, hazards,
findings and theorems.

## 1. The system

A server is a tokenizer process, one scheduler process per rank and a
detokenizer process, connected by ZeroMQ sockets.

* The **tokenizer manager** (`managers/tokenizer_manager.py`,
  `managers/tokenizer_control_mixin.py`) is an asyncio program. A coroutine per
  HTTP request tokenizes, sends, and waits for outputs; control calls (weight
  updates, LoRA loads, flush, pause) share the same loop. Its shared state:
  `rid_to_state`, `model_update_lock` (an `RWLock`), `is_pause` with its
  condition, `lora_update_lock`, the LoRA registry and its usage counters, one
  `FanOutCommunicator` per control message.
* The **scheduler** (`managers/scheduler.py`) is a single thread that repeats:
  receive messages, choose the next batch (chunked prefill, admission from the
  waiting queue, or decode), launch it, process a result. With overlap the
  result processed is the one of the previous batch. Its state: waiting queue,
  running batch, chunked request, last and current batch, result queue.
* The **KV memory** below it is a page pool (`mem_cache/allocator`), one row of
  pages per running request, and a radix tree (`mem_cache/radix_cache.py`) that
  keeps the pages of finished requests for reuse. Pages move between the three on
  every admission, chunk, decode step, retraction, abort and finish. Models with
  sliding-window layers have a second, smaller pool whose indices are evicted as
  the window moves.
* With **prefill/decode disaggregation** (`disaggregation`) a prefill instance
  computes the KV of a prompt and writes it by RDMA into pages that a decode
  instance has reserved. Each side has its queues, and threads beside the
  scheduler exchange status messages and move pages.
* The **detokenizer**, the data-parallel controller, the hierarchical cache,
  sessions, grammars and the gateway complete the picture and are not modelled
  (section 7).

What is hard to test here:

| where | what happens | properties |
|---|---|---|
| overlap loop | results arrive one iteration late, for requests that were finished, aborted, retracted or preempted since | `AnswerIsFinal`, `NoFailure`, `PagesConserved` |
| radix cache | nodes are split, deduplicated and evicted under live requests, with sizes and lock counts kept incrementally | `RowHoldsOwnTokens`, `CacheHoldsPath`, `LocksExact`, `SizesExact`, `TreeIsRadix` |
| admission, preemption | several budgets count the same pages differently; requests move between queue and batch in loops with early returns | `NoFailure`, `NeverAbortedForMemory`, `NoRequestLost`, `EventuallyAnswered` |
| allocator | pages are merged lazily on estimates, kernels hand out pages before the list is cut | `ListExact`, `RowsPaged`, `PoolSpec` |
| sliding window | indices are evicted while a batch that reads them may still run | `WindowReadable`, `PoolsExact` |
| KV transfer | two schedulers, their threads, lost peers, timeouts and aborts on either side | `NoException`, `ResourcesConserved`, `CommittedKVIsOwn`, `EveryRequestAnswered` |
| decode memory | pages are promised before they are needed, and retracted to the CPU | `AdmissionFits`, `NoRetractionWithinReserve`, `EventuallyAnswered` |
| weight updates | weights are replaced beside requests, pauses, aborts and disconnects | `UpdateAtRest`, `OneVersionPerAnswer`, `CallsReturn` |
| reader/writer lock | wake-ups, re-tests and cancellation of waiters | `Exclusion`, `CountersExact`, `NoLostWakeup`, `WriterPreference` |
| fan-out calls | answers have no request id; a woken caller races a new one | `ResultIsOwn`, `OneInFlight`, `AnswerExpected`, `WokenFindsItFree` |
| LoRA unload | two-phase unload against running requests, each of which may end in six ways | `UsedAdapterLoaded`, `CountersExact`, `RegistryMatchesBackend`, `EveryCallEnds` |

## 2. Modules

| module | models | notes |
|---|---|---|
| `RadixTree` | `RadixCache` as a data structure | operators on a record; a node is named by its path in pages |
| `SchedulerKV` | `Req` memory fields, `ReqToTokenPool`, `cache_(un)finished_req`, `release_kv_cache`, `retract_decode`, `alloc_for_extend/decode` | operators from a memory record to the record the call leaves |
| `Scheduler` | `event_loop_normal`, `event_loop_overlap`, `PrefillAdder`, batch result processing | EXTENDS `SchedulerKV` |
| `FreeList` | the fields and methods of the KV allocators | operators on an allocator record; EXTENDed by the next three |
| `PageList`, `PagePool` | one allocator in use; what an allocator promises | `PageList` implements `PagePool` |
| `PageAllocator` | token indices: `alloc_extend`, `alloc_decode` and their kernels, `free` | EXTENDS `PageList` |
| `SWACache` | sliding-window allocators and chunk caches | EXTENDS `FreeList` |
| `KVTransfer` | KV managers, messages and transfer threads (`disaggregation/common`, `disaggregation/mooncake`) | |
| `DisaggPrefill`, `DisaggDecode` | the scheduler loops of the two instances | EXTEND `KVTransfer` |
| `Disagg` | the two instances and the connection, with faults | composes the three |
| `DecodeQueue` | KV memory of a decode instance | the receiver is left open |
| `RWLock` | `utils/aio_rwlock.py` | one action per stretch of code between two awaits |
| `WeightUpdate` | pause, continue, weight updates and requests | EXTENDS `RWLock` |
| `FanOut` | `managers/communicator.py` | queueing and watching modes |
| `LoRARegistry` | `lora/lora_registry.py`, load/unload/reload in the tokenizer manager, the scheduler's adapter table | |
| `RWLockProofs`, `WeightUpdateProofs`, `FanOutProofs`, `PageListProofs`, `LoRARegistryProofs`, `LoRACountersProofs` | | proofs |
| `MC...` | instances for TLC | |

Operators whose names carry a suffix such as `_NoNotify` or `_KeepTree`, or whose
comment says *Mutant*, are deliberately wrong versions of the definition that
follows them. They are used by no specification; each stands for a plausible bug
and shows that the property it is paired with in `PROJECT.json` is able to fail.

Instances that differ only in their inputs share a run: the constants `Configs`,
`Workloads` or `Scenarios` are sets, the initial state chooses a member, and no
step changes it.

### 2.1 Scheduler and KV memory

`Scheduler` cuts one iteration of the event loop into steps, one per pass of an
inner loop (the variable `pc` and the table at the head of the module). Nothing
else runs in that process, so this does not add interleavings; messages
(`Arrive`, `AbortRequest`) are taken only at `recv`. `mem` is the KV memory:

* `mem.tree` is the radix tree, with `lock_ref`, values, `evictable_leaves` and
  the two incrementally kept sizes as the code keeps them;
* `mem.free` counts how often a page is in the free list, so that a double free
  shows as 2;
* `mem.req[r]` has the fields of `Req` the memory code uses;
* `mem.content[p]` is what the forward pass wrote into page `p`: the tokens of
  the page and everything before them. It is not a variable of the code; it
  makes "this row holds the KV of this request" a formula;
* `mem.error` names the exception or failed assertion that would end the process.

Abstractions. Only FCFS order (with or without priorities) is modelled.
`new_token_ratio`, a float that decays with time, is any of `Ratios` in each
admission pass. Sampling is deterministic (`Tokens[r]`), while the end of an
answer is open. Which evictable leaves are evicted and which free pages are
taken are left open. Ties in preemption are taken in running order. A client
aborts a request at most once. Left out: mixed chunks, LoRA, speculative
decoding, pipeline parallelism, DP attention, grammars, sessions, mamba and
hierarchical caches, prefill-only requests (`max_new_tokens` 0), queue limits and
timeouts, pause and flush, the clip of estimated new tokens.

### 2.2 Allocators

`FreeList` has the fields of `BaseTokenToKVPoolAllocator` (`free_pages`,
`release_pages`, `is_not_in_free_group`, `free_group`) as a record and its methods
as operators. `torch.sort` and `torch.unique` are external: `Sort` is any function
that enumerates a set of pages in increasing order. `PageList` adds the callers,
who free what they hold, once. `PagePool` is the abstract specification, with no
list, order or group: pages are free, used or pending, and a call is refused only
when the pages are not there. The refinement mapping of `PageList` is in the
module: `free` is the range of `free_pages` and `release_pages`, `pending` that of
the open group. `PageAllocator` adds what the callers see: rows of token indices,
and the two Triton kernels, one program per request, each of which finds its place
in the free list from the lengths of the requests before it.

`SWACache` pairs two such allocators through the mapping from full to SWA indices,
with the evictions of `maybe_evict_swa`. A batch in flight is a variable: its
window must stay readable until its result is processed. Three kinds of node are
in it, hybrid, pure SWA, and a decode node whose prompts arrive by transfer.

### 2.3 Prefill/decode disaggregation

`KVTransfer` holds what the two instances share: `request_status` of either side,
the FIFO of messages each way, the transfer queue and its worker, and the pages of
both pools with what has been written into them (`<<r, i>>` for page `i` of request
`r`). A process is a record (`p` and `d`); an iteration of its loop is one step, and
the threads (`bootstrap_thread`, the transfer worker, `decode_thread`, heartbeats)
are steps of their own that interleave with it. The worker takes a chunk, writes its
KV and writes the metadata in separate steps, so an abort can come between them; the
pages of one chunk are written at once. Faults are chosen by the scenario: an abort
on either side, a failed send, a timeout, failed attempts to fetch the info of the
prefill instance (repeated after an interval, `recent`), the death of that instance.
`DecodeQueue` looks at the decode instance alone, in tokens instead of pages:
budgets, admission, growth, retraction and resumption, against a transfer that may
end at any moment in any way.

### 2.4 RWLock and WeightUpdate

`RWLock` has three counters and a `Condition`. A task's state is `idle`, `rwait`,
`reading`, `wwait` or `writing`; `notified` is the set of waiters whose future is
set and that have not run yet. The internal mutex is never held across a
suspension and is therefore part of the steps. `Renotify` selects how
`Condition.wait` treats a notification when it is cancelled (CPython 3.13 passes it
on, 3.10 to 3.12 do not).

`WeightUpdate` puts the lock to work. A request passes `is_pause_cond` (a FIFO,
`cond`), takes the reader lock, and keeps it until it is answered, disconnected or
in error. Clients make the calls of a script: `pause_generation` in its three
modes, `continue_generation`, and updates, from disk (one future,
`model_update_result`) or through a communicator. The scheduler takes the messages
in order, and its loop is reduced to prefill-or-decode steps with enough memory.
`seen[r]` collects the weight versions behind the KV and the tokens of a request,
`cache` those behind the prefix cache. `crashed` is the assertion
"Cache flush failed after updating weights" or a second result for one future;
after it nothing is answered. One data-parallel rank, the normal loop.

### 2.5 FanOut

A *round* is one pair of `_result_event` and `_result_values`. A recipient
answers its messages in order; answers of different recipients interleave. An
event that is set makes its waiters runnable, and they run in any order with
other coroutines. Cancellation and calls without an object are not modelled: no
caller is cancelled or passes `None`.

### 2.6 LoRARegistry

Tasks are generation requests (single adapter, or a list) and client calls of
load and unload. Steps end where a coroutine really suspends: no holder of the
registry lock or of a counter's condition suspends, so a single-name `acquire` is
one step, while `acquire` for a list looks up in one step and increments in the
tasks that `gather` schedules. The ordered dictionary behind `_registry` is a
sequence, the least recently used name first: `LookedUp` is the result of moving the
names of one call to its end, described by the last use of each name instead of
loop by loop. `lora_update_lock` is held across awaits and is a
first-in-first-out queue. The scheduler side is the table `loaded` with the tests
of `LoRAManager`. A scenario says what may happen to a request besides finishing.
Not modelled: base-model entries of a list (`None`), adapter weights and their
pool, `load_lora_adapter_from_tensors` (same code), pausing.

## 3. Runs

States are distinct states. The longest run (`sched`) takes two to three minutes.

| run | states | shows |
|---|---|---|
| `weights` | 63,334 | lock invariants in use, weights change at rest, one version per completed answer, every call returns with two named exceptions |
| `fanout` | 8,932 | both modes: one request in flight, no mixed answers, calls end |
| `lora` | 100,820 | registry and scheduler agree and the limit holds always; for single names the two-phase unload is safe and ends |
| `sched` | 267,767 | memory safety, exact bookkeeping, final answers and liveness of both loops, with a queue that gets blocked as the named exception |
| `disagg` | 243,218 | no exception but one, no leak, no foreign KV, every request answered, under one fault and failed fetches |
| `decode_queue` | 127,599 | what is admitted fits, answers within a reserve of whole pages are not retracted, every request is answered unless one of two named blocks occurs |
| `page_allocator` | 91,142 | lists, estimates and kernels implement the abstract pool |
| `swa` | 126,693 | no running batch loses its window, both pools exact |

Runs that end in a counterexample, each a disagreement between the code and a
statement in the repository (quoted in `PROJECT.json`, "findings"):

| run | what the code does |
|---|---|
| `fanout_assert` | a call that arrives between wake-up and resumption of a queued caller makes that caller's assertion fail |
| `sched_lost` | requests preempted for a request that is then not admitted are in no queue any more |
| `decode_oom` | a long prompt is admitted beside a transfer with a long answer, which then runs out of memory with nothing to retract |
| `lora_leak` | a request aborted in the waiting queue never releases its adapter; an unload waits for ever |

### Observations

Behaviours the models show that a reader of the properties should know of. The
first five happen in the passing runs, and the property concerned names each as an
exception, in its formula and its comment, so that it says something about
everything else.

* `weights` runs with `Renotify = FALSE`, the `Condition` of CPython 3.10 to 3.12
  (`src/python/pyproject.toml` allows 3.10 and later, `src/docker/Dockerfile` ships
  3.12): a cancelled writer takes its notification along and a reader sleeps on a free
  lock until another update comes (`Stranded` in `CallsReturn`). With `Renotify = TRUE`
  `CallsReturn` holds without this exception.
* `weights`: a client disconnects while an update waits: the abort is sent, the reader
  lock released, and the flush may find the request in the batch. The assertion ends
  the scheduler (`crashed`), and with it every call.
* `sched`, configuration `BlockedConfig`: a prompt is accepted that can never be
  admitted, and it blocks the queue, which the comment at
  `managers/scheduler.py:1890-1894` says is prevented. `MaxNew` is cut to 0 at the
  least, and the bound on the prompt is `InputMargin` tokens below the pool: with the
  5 of the code this takes pages of more than 5 tokens, with the 0 of the run, pages
  of 2 (`Schedulable` in `EventuallyAnswered`). In `decode_queue` the same happens to a
  prompt that with the reserved tokens exceeds the pool (workload `TooLarge`,
  `BehindTooLarge` in `EventuallyAnswered`).
* `decode_queue`, workload `Stuck`: while a retracted request does not fit,
  `process_decode_queue` returns at `disaggregation/decode.py:1983` and looks at nothing
  else; a finished transfer keeps the pages it would need (`Blocked` in
  `EventuallyAnswered`). Workload `OddReserve`: a reserve that is no multiple of the page
  size does not keep a request within it from being retracted
  (`NoRetractionWithinReserve` asks for a multiple), although
  `src/docs/advanced_features/server_arguments.md:495` speaks of memory reserved for
  that many tokens.
* `disagg`, scenario `abort_decode` with `fetch`: a request aborted while the prefill
  instance is not known loses its receiver (`disaggregation/decode.py:835`) and stays in
  `pending_reqs`; the next attempt to resolve it (lines 728 and 778) ends the decode
  scheduler with an `AttributeError` (`NoReceiver` in `NoException`).

The others are outside the instances or the statements of the properties. Each can
be reproduced by the change named.

* `Scenarios <- RetractFlush` in `MCWeightUpdate`: `crashed` becomes TRUE. A retract
  pause leaves its requests in the waiting queue, `is_fully_idle`
  (`managers/scheduler.py:3594`) wants that queue empty, and the flush of the update
  fails its assertion. The docstring of `PauseGenerationReqInput`
  (`managers/io_struct.py:1479`), `src/docs/advanced_features/sglang_for_rl.md:239`
  and the disabled test `src/test/registered/rl/test_update_weights_from_disk.py:202`
  say that the cache can be flushed in this mode.
* The script `in_place` pause, `abort` pause, `continue`: the abort pause waits for
  requests that a paused engine does not finish, and holds `is_pause_cond`, which
  `continue_generation` needs. `CallsReturn` fails.
* A second client that updates from disk during an abort pause: the update has given
  `is_pause_cond` back when it sends, `continue_generation` may overtake it, and
  `UpdateAtRest` fails. Two such updates share one future: the handle loop meets a
  future that is already done.
* `LoRARegistry`: for a list request an unload between lookup and increments unloads
  the adapter it is about to use; a running request ended with status 500 or 503
  releases its adapter twice. `UsedAdapterLoaded` and `CountersExact` are stated without
  these two (`Plain`).
* `Disagg`: a request aborted at the prefill instance alone may be decoded with the KV
  of the next owner of its pages (left out of `CommittedKVIsOwn`).

### Bounds and why they are enough

* `sched`: three requests, because preemption and retraction need a victim, a
  survivor and a newcomer. Pages of 2 tokens make partial last pages, page
  alignment and splits inside a key happen. Pools of 6 to 8 pages hold any one
  request but not all of them, so that eviction, retraction and refused admission
  occur. The configurations differ in the hazard they force: late results of short
  chunks, a common prefix that is split and stored twice, answers that do not fit
  together, preemption with results in flight, a prompt that leaves no room to admit it.
* `page_allocator`: four pages, rows of up to five tokens, two requests: a request
  that ends inside a page, on its border and across pages, and a pool that runs out.
  The list part is proved for every size.
* `swa`: windows of 2 and 3, pages of 1 and 2, prompts of up to 7 tokens in chunks of 2.
* `disagg`: two requests that compete for two pages and one metadata buffer on either
  side, one of them in two chunks; one fault per behaviour, at any point, and any
  number of failed fetches up to the two attempts allowed. An abort on the decode
  side is in the scenario that starts without the info of the prefill instance only:
  once the info has been fetched, that scenario also has the aborts of requests that
  were initialized at once, in the prealloc and in the transfer queue.
* `decode_queue`: three requests, pools of 6 to 20 tokens, from one in which they run
  almost one by one to one that holds all; pages of 1, 2 and 4 tokens with a reserve of
  one page, one and a half, two and four; two run at a time, one abort.
  `AdmissionFits` needs a reserve of at least a page less one token and says so.
* `weights`: two requests and two clients; one waiting and one active holder of each
  kind, up to two cancellations. The lock part is proved for every number.
* `fanout`: three callers (one in a round, one queued, one arriving), two
  recipients, five calls. The safety properties are proved for every number.
* `lora`: three adapters with room for two, one pinned; two requests share an adapter,
  one needs a reload; one load and one unload. The safety properties are proved for
  every number.

`CHECK_DEADLOCK FALSE` is set because each instance has finitely many calls, after
which the system rests; that it does not rest too early is what the liveness
properties state.

### Fairness

* `sched`: the loop begins an iteration when there is work, and goes on inside
  one. `FairSpec` states the second part as a formula over `loop` (every step of
  the loop changes it, no message does), which is weak fairness of `Schedule`
  without its expensive `ENABLED`.
* `disagg`: both loops go round (written out in the same way), threads run and time
  passes; requests, faults and aborts may or may not come.
* `decode_queue`: the loop goes round, and every handshake and transfer ends, which
  the bounded attempts of `DisaggDecode` and the timeouts of `KVTransfer` see to.
* `weights`: the event loop runs every ready coroutine, the scheduler loops, and a
  client that has paused goes on to its next call: a pause without a
  `continue_generation` holds requests for ever by design. Nobody has to send a
  request, disconnect or be cancelled.
* `fanout`: recipients answer and ready coroutines run.
* `lora`: `WF_vars(Internal)`: the event loop and the scheduler keep running;
  nobody has to make a call. Behaviours of an instance are finite, so this is enough.

## 4. Proofs

| theorem | statement |
|---|---|
| `LockExclusion`, `LockCountersExact`, `LockNoLostWakeup`, `LockTypeOK` | `Spec => []...` of `RWLock` |
| `LockWriterPreference` | `Spec => WriterPreference` (an action property) |
| `UsersKeepTheLock` | `WSpec => Spec`: `WeightUpdate` implements `RWLock` |
| `UpdateExcludesRequests`, `UpdatesComeFirst` | `WSpec => []Exclusion`, `WSpec => WriterPreference` |
| `OneVersion` | `WSpec => []...`: without in-place pauses and without updates that keep the cache, a request is computed with one version of the weights |
| `FanOutOneInFlight`, `FanOutResultIsOwn`, `FanOutAnswerExpected` | `Spec => []...` of `FanOut` |
| `RegistryAgrees`, `CapacityHolds`, `ReloadFinds` | `Spec => []RegistryMatchesBackend`, `[]CapacityKept`, `[]ReloadedIsFound` of `LoRARegistry` |
| `CountersBalance`, `UsedIsLoaded` | `Spec => []CountersExact`, `[]UsedAdapterLoaded` of `LoRARegistry` |
| `ListStaysExact` | `ListSpec => []ListExact` of `PageList` |
| `ListImplementsPool` | `ListSpec => PoolSpec`: `PageList` implements `PagePool` |

**RWLock**, for every finite set of tasks, any number of calls and cancellations and
both kinds of `Condition`. The code tests counters, the properties speak of tasks,
so none of the properties is inductive alone. The inductive invariant is
`IInv == TypeOK /\ CountersExact /\ Exclusion /\ NoLostWakeup`: exact counters turn
`readers > 0` into "somebody reads" (lemma `CountersMean`). `MoveCounts` says how
the cardinalities change when one task moves; `TryReadInv`, `TryWriteInv`,
`ReleaseInv` and `CancelInv` treat the actions; `LockInvariant` combines them.

**WeightUpdate**, for every number of requests and clients and every script. Each
step of a coroutine is one operation of the lock or leaves it alone (lemmas
`RequestUsesLock`, `ClientUsesLock`), the scheduler never touches it; the theorems
about the lock then carry over. Assumption: tasks are requests or clients, not both.
`OneVersion` is about the scheduler's side. `OneVersionPerAnswer` speaks of answers;
the invariant `VInv` behind it says that, until the scheduler ends, all KV in a batch
or in the cache is of the current weights (`CurrentKV`), which every update keeps
because a flush succeeds only on an idle scheduler and a failed one ends it. It needs
to know that a request reaches the scheduler once and has nothing there before
(`SentOnce`), that an answer that is complete belongs to a request no batch contains
(`CompleteAnswers`), and that the updates under way are those of the script
(`CallsInScript`). Assumption: a script is a list of calls.

**FanOut**, for every finite set of callers and recipients and any number of calls,
in both modes. `OneInFlight` and `ResultIsOwn` need to know where an answer can be:
`IInv` says that without an open round nothing is on its way, and that an open round
has exactly one message or one answer of each recipient (`RoundOpen`), that lists
that callers still hold are complete and their own (`ListsOwn`, `WaitersOwn`), and
that every queued caller has a call to its name. Assumptions: finite sets, bounds are
naturals.

**LoRARegistry**, for every number of adapters, requests and updates, every limit
with fewer pinned adapters than loaded ones (`server_args.py` requires
`max_loaded_loras >= max_loras_per_batch`, and one slot is never pinned), and every
scenario; the last two theorems for `Plain` scenarios, like the properties. Between
registration and the scheduler's answer the two tables differ, so "the registry agrees
with the scheduler" is not inductive. `Inv` says who may be responsible for the
difference: only the head of `lora_update_lock` is active (`LockInv`), and the
scheduler has the adapters of the registry and at most one more, which exactly that
task *owes* (`RegistryInv`); a load under way has an identifier nobody else has
(`OpInv`). `LookedUpFacts`, `RemoveAtFacts` and `EvictInv` are what the operations on
the ordered dictionary keep. `UseInv` adds that a counter counts the sub-requests that
hold its adapter (`ExactInv`), that it exists while its adapter is registered or drains
(`CountersFor`), and where a sub-request can be (`SubInv`): when an unload is sent the
counter is 0, so nobody uses the adapter.

**PageList**, for pools of every size, every page size, with and without lazy
sorting. `IInv` adds to `ListExact` (every page in exactly one of the free list, the
released list, the open group or a caller's hands, and once) that the record is
well formed, and what a free group may hold. `ListImplementsPool` shows that an
initial state maps to an initial state and every step to a step of `PagePool` or a
stutter; the interesting case is `Obtain`, where the decision to merge is taken on
an estimate: the theorem needs the estimate to be no smaller than the real number,
and the calls in `PageAllocator` satisfy that. Assumptions: `Sort` enumerates a set
in increasing order.

Model-checked only: all liveness properties (fairness and `ENABLED` are out of the
prover's reach); `Scheduler`, `SchedulerKV`, `RadixTree`, `DecodeQueue`, `Disagg`
and `SWACache`, whose state is moved by folds over sequences and sums over sets,
about which nothing can be concluded without induction over data.

## 5. Reading the properties

Each property has a comment that states it and names the behaviour of the code it
is about. Properties with "Exact" compare an incrementally kept value with what a
walk over the whole state would compute; those are the ones a unit test of a single
call can hardly reach.

## 6. How the modules fit together

`Scheduler` treats the allocator as a multiset of free pages and leaves open which
of them it gets; `PageList` shows that the real list is such a pool. `Disagg` treats
the memory of the decode instance as pages that are reserved if they are there;
`DecodeQueue` has the budgets that decide it. `WeightUpdate` treats a communicator as
one update in flight at a time, which is what `FanOut` shows of it, and the scheduler
as a loop with enough memory.

## 7. Not modelled

The components with status `not_modelled` in `PROJECT.json` and the reasons there.

* Outside: numeric code (models, layers, kernels, sampling, speculative acceptance),
  request parsing and formatting, start-up, metrics, the gateway (a separate Rust
  program), the multimodal runtime and the front-end language. They are most of the
  repository's lines, and a model has nothing to say about them.
* Open: the request table of the tokenizer manager against the detokenizer's bounded
  table; the hierarchical cache (write-through, load-back, prefetch); the SWA, mamba
  and unified radix caches; sessions; the grammar queue; the LoRA memory pool, drainer
  and overlap loader; the input blocker and barrier; data-parallel dispatch; pipeline
  parallelism. They are stateful and concurrent and would be modules like the ones
  here; `PROJECT.json` says what each would be about.
* Inside the modelled components: the "Not modelled" part of each component's note.
