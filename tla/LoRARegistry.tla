----------------------------- MODULE LoRARegistry -----------------------------
(***************************************************************************)
(* LoRA adapters while the server runs: LoRARegistry (lora/lora_registry)  *)
(* with its usage counters, the load and unload calls of the tokenizer     *)
(* manager, generation requests that reload evicted adapters and hold an   *)
(* adapter while they run, and the scheduler's table of loaded adapters.   *)
(*                                                                         *)
(* A step is the code of one coroutine between two points where it really  *)
(* suspends.  No holder of the registry lock or of a counter's condition   *)
(* suspends, so register, unregister, lookups, increment and decrement run *)
(* to their end at once; lora_update_lock is held across awaits and is     *)
(* first come, first served.                                               *)
(***************************************************************************)
EXTENDS Integers, Sequences, FiniteSets, Functions

CONSTANTS
  Requests,   \* calls of generate_request
  Updates,    \* calls of load_lora_adapter and unload_lora_adapter
  Scenarios,  \* possible [path: [Requests -> the adapter names of its
              \* (sub-)requests], batch: the requests whose lora_path is a list,
              \* calls: the requests that are made, outcomes: what may happen to
              \* a request besides finishing]
  Kind,       \* [Updates -> {"load", "unload"}]
  Target,     \* [Updates -> the adapter name]
  Initial,    \* server_args.lora_paths, a sequence of names
  Pinned,     \* the names that are loaded as pinned
  MaxLoaded,  \* max_loaded_loras
  MaxPinned   \* max_loras_per_batch - 1

\* Adapters have distinct names (_register_adapter raises otherwise), and the limits
\* are those that ServerArgs checks.
ASSUME LoRAAssumption ==
  /\ MaxLoaded \in Nat /\ MaxPinned \in Nat /\ MaxPinned < MaxLoaded
  /\ Initial \in Seq(Range(Initial)) /\ IsInjective(Initial) /\ Len(Initial) <= MaxLoaded
  /\ Cardinality(Pinned \cap Range(Initial)) <= MaxPinned
  /\ Requests \cap Updates = {} /\ Kind \in [Updates -> {"load", "unload"}]
  /\ \A c \in Scenarios : \A q \in Requests :
       c.path[q] \in Seq(Range(c.path[q])) /\ (q \notin c.batch => Len(c.path[q]) = 1)

VARIABLES
  scenario,          \* the requests of this behaviour
  registry,          \* _registry in LRU order, a sequence of [name, id]
  counters,          \* _counters, [id -> count]
  lora_ref_cache,    \* the names that were ever loaded
  lora_update_lock,  \* its holder and, behind it, the tasks that wait for it
  loaded,            \* the scheduler's lora_refs, a set of [name, id]
  next_id,           \* the lora_id of the next LoRARef
  pc, op, todo,      \* of a task: place, current update, names to reload
  sub, ids,          \* of a sub-request: its progress and its lora_id
  releases           \* the sub-requests whose release task has not run yet

vars == <<scenario, registry, counters, lora_ref_cache, lora_update_lock, loaded, next_id,
          pc, op, todo, sub, ids, releases>>

Path == scenario.path
Batch == scenario.batch
Outcomes == scenario.outcomes

Tasks == Requests \cup Updates
Subs == UNION {{q} \X (1 .. Len(Path[q])) : q \in Requests}
SubsOf(q) == {s \in Subs : s[1] = q}
NameOf(s) == Path[s[1]][s[2]]

NamesIn(reg) == {ref.name : ref \in Range(reg)}
Position(reg, n) == CHOOSE k \in DOMAIN reg : reg[k].name = n

\* The place of the last occurrence of n in names, 0 if there is none
LastUse(names, n) ==
  LET K == {k \in DOMAIN names : names[k] = n} IN
  IF K = {} THEN 0 ELSE CHOOSE k \in K : \A j \in K : j <= k

\* What lookups of names, one after the other, make of the registry: each calls
\* OrderedDict.move_to_end, so an adapter comes behind those that were looked up
\* before it, and those that were not looked up keep their order in front.
LookedUp(reg, names) ==
  {s \in Bijection(1 .. Len(reg), Range(reg)) : \A i, j \in 1 .. Len(reg) : i < j =>
     LET use(k) == LastUse(names, s[k].name) IN
     \/ use(i) < use(j)
     \/ use(i) = 0 /\ use(j) = 0 /\ Position(reg, s[i].name) < Position(reg, s[j].name)}

\* del of an entry of an OrderedDict
RemoveAt(reg, k) == [i \in 1 .. Len(reg) - 1 |-> IF i < k THEN reg[i] ELSE reg[i + 1]]

NoOp == [name |-> "", id |-> 0, res |-> ""]

Init ==
  /\ scenario \in Scenarios
  /\ registry = [k \in DOMAIN Initial |-> [name |-> Initial[k], id |-> k]]
  /\ counters = [k \in DOMAIN Initial |-> 0]
  /\ lora_ref_cache = Range(Initial)
  /\ lora_update_lock = <<>>
  /\ loaded = Range(registry)
  /\ next_id = Len(Initial) + 1
  /\ pc = [t \in Tasks |-> "idle"]
  /\ op = [t \in Tasks |-> NoOp]
  /\ todo = [q \in Requests |-> {}]
  /\ sub = [s \in Subs |-> "none"]
  /\ ids = [s \in Subs |-> 0]
  /\ releases = {}

-----------------------------------------------------------------------------
(* the operations of the registry                                          *)

\* ConcurrentCounter.increment and decrement through _counters[id]; a task
\* whose counter was deleted changes nothing that anyone can see.
Increment(cnt, id) == IF id \in DOMAIN cnt THEN [cnt EXCEPT ![id] = @ + 1] ELSE cnt
Decrement(cnt, id) == IF id \in DOMAIN cnt THEN [cnt EXCEPT ![id] = @ - 1] ELSE cnt

Without(cnt, id) == [k \in DOMAIN cnt \ {id} |-> cnt[k]]

\* Mutant: the adapter is unloaded without waiting for its requests.
Drain_NoWait(t, cnt, id) ==
  /\ pc' = [pc EXCEPT ![t] = "unloading"] /\ counters' = Without(cnt, id)

\* wait_for_unload up to the point where it waits, and the unload message if
\* it need not wait
Drain(t, cnt, id) ==
  IF cnt[id] = 0
    THEN pc' = [pc EXCEPT ![t] = "unloading"] /\ counters' = Without(cnt, id)
    ELSE pc' = [pc EXCEPT ![t] = "draining"] /\ counters' = cnt

\* _unload_lora_adapter_locked for a registered name, up to its first await
Unregister(t, reg, cnt, n, res) ==
  \E k \in {j \in DOMAIN reg : reg[j].name = n} :
    /\ registry' = RemoveAt(reg, k)
    /\ op' = [op EXCEPT ![t] = [name |-> @.name, id |-> reg[k].id, res |-> res]]
    /\ Drain(t, cnt, reg[k].id)

\* Mutant: the most recently used adapter is evicted.
LruName_Newest(reg) ==
  LET U == {k \in DOMAIN reg : reg[k].name \notin Pinned} IN
  {reg[k].name : k \in {j \in U : \A i \in U : i <= j}}

\* lru_lora_name with exclude_pinned: the empty set stands for None
LruName(reg) ==
  LET U == {k \in DOMAIN reg : reg[k].name \notin Pinned} IN
  {reg[k].name : k \in {j \in U : \A i \in U : j <= i}}

\* acquire: the names are looked up in order until one is missing.  A single
\* name is counted at once, those of a list by tasks of their own.
Acquire(q, reg, cnt) ==
  \E missing \in {{k \in DOMAIN Path[q] : Path[q][k] \notin NamesIn(reg)}} :
    IF missing # {}
      THEN /\ \E bad \in missing : /\ \A k \in missing : bad <= k
                                   /\ registry' \in LookedUp(reg, SubSeq(Path[q], 1, bad - 1))
           /\ pc' = [pc EXCEPT ![q] = "gone"]
           /\ counters' = cnt /\ UNCHANGED <<ids, sub>>
      ELSE /\ registry' \in LookedUp(reg, Path[q])
           /\ ids' = [s \in Subs |-> IF s[1] = q
                        THEN reg[Position(reg, NameOf(s))].id ELSE ids[s]]
           /\ IF q \in Batch
                THEN /\ pc' = [pc EXCEPT ![q] = "gather"]
                     /\ sub' = [s \in Subs |-> IF s[1] = q THEN "looked" ELSE sub[s]]
                     /\ counters' = cnt
                ELSE /\ pc' = [pc EXCEPT ![q] = "acquired"]
                     /\ sub' = [s \in Subs |-> IF s[1] = q THEN "held" ELSE sub[s]]
                     /\ counters' = Increment(cnt, reg[Position(reg, Path[q][1])].id)

-----------------------------------------------------------------------------
(* load_lora_adapter, unload_lora_adapter, _resolve_lora_path              *)

KindOf(t) == IF t \in Requests THEN "load" ELSE Kind[t]

\* load_lora_adapter of n once it has the lock: a new LoRARef, the load message
BeginLoad(t, n) ==
  /\ pc' = [pc EXCEPT ![t] = "loading"]
  /\ op' = [op EXCEPT ![t] = [name |-> n, id |-> next_id, res |-> ""]]
  /\ next_id' = next_id + 1

\* Task t takes lora_update_lock for a load of n; l is its queue without t.
LoadCall(t, n, l) ==
  /\ lora_update_lock' = Append(l, t)
  /\ IF l = <<>>
       THEN BeginLoad(t, n)
       ELSE /\ pc' = [pc EXCEPT ![t] = "lock"]
            /\ op' = [op EXCEPT ![t] = [NoOp EXCEPT !.name = n]]
            /\ UNCHANGED next_id

\* The loop of _resolve_lora_path from its head: reload the next missing
\* adapter, or acquire them all.
ReloadOrAcquire(q, l, reg, cnt, missing) ==
  IF missing = {}
    THEN /\ Acquire(q, reg, cnt)
         /\ lora_update_lock' = l /\ UNCHANGED <<op, next_id, todo>>
    ELSE \E n \in missing :
           /\ registry' = reg /\ counters' = cnt /\ UNCHANGED <<ids, sub>>
           /\ todo' = [todo EXCEPT ![q] = missing \ {n}]
           /\ IF n \in lora_ref_cache
                THEN LoadCall(q, n, l)
                ELSE /\ pc' = [pc EXCEPT ![q] = "refused"]
                     /\ lora_update_lock' = l /\ UNCHANGED <<op, next_id>>

\* generate_request up to its first await: get_unregistered_loras counts as a
\* use of the names that are registered, in the order of a Python set.
Resolve(q) ==
  /\ pc[q] = "idle" /\ q \in scenario.calls
  /\ \E names \in {Range(Path[q])} :
       IF Cardinality(names) > MaxLoaded
         THEN /\ pc' = [pc EXCEPT ![q] = "refused"]
              /\ UNCHANGED <<registry, counters, lora_update_lock, next_id, op,
                             todo, ids, sub>>
         ELSE \E found \in {names \cap NamesIn(registry)} :
              \E order \in Bijection(1 .. Cardinality(found), found) :
              \E reg \in LookedUp(registry, order) :
                ReloadOrAcquire(q, lora_update_lock, reg, counters, names \ found)
  /\ UNCHANGED <<scenario, lora_ref_cache, loaded, releases>>

\* The lock is released and the caller of load or unload goes on with res.
Return(t, reg, cnt, res) ==
  IF t \in Requests /\ res # "error"
    THEN ReloadOrAcquire(t, Tail(lora_update_lock), reg, cnt, todo[t])
    ELSE /\ lora_update_lock' = Tail(lora_update_lock)
         /\ pc' = [pc EXCEPT ![t] = IF t \in Requests THEN "refused" ELSE "done"]
         /\ registry' = reg /\ counters' = cnt
         /\ UNCHANGED <<op, next_id, todo, ids, sub>>

\* Mutant: the limit is tested once, with one adapter too many allowed.
EvictOrReturn_OneMore(t, reg, cnt, res) ==
  IF Len(reg) <= MaxLoaded + 1
    THEN Return(t, reg, cnt, res)
    ELSE \E n \in LruName(reg) : /\ Unregister(t, reg, cnt, n, res)
                                 /\ UNCHANGED <<lora_update_lock, next_id, todo, ids, sub>>

\* The eviction loop of load_lora_adapter from its test, up to the next await
EvictOrReturn(t, reg, cnt, res) ==
  IF Len(reg) <= MaxLoaded
    THEN Return(t, reg, cnt, res)
    ELSE IF LruName(reg) = {}
    THEN Return(t, reg, cnt, "error")
    ELSE \E n \in LruName(reg) : /\ Unregister(t, reg, cnt, n, res)
                                 /\ UNCHANGED <<lora_update_lock, next_id, todo, ids, sub>>

\* Task t has the lock, l is the queue it heads.
BeginUpdate(t, n, l) ==
  IF KindOf(t) = "load"
    THEN /\ BeginLoad(t, n) /\ lora_update_lock' = l
         /\ UNCHANGED <<registry, counters>>
    ELSE IF n \in NamesIn(registry)
    THEN /\ Unregister(t, registry, counters, n, "")
         /\ lora_update_lock' = l /\ UNCHANGED next_id
    ELSE /\ pc' = [pc EXCEPT ![t] = "done"]
         /\ lora_update_lock' = Tail(l)
         /\ UNCHANGED <<registry, counters, op, next_id>>

\* A client's load_lora_adapter or unload_lora_adapter up to its first await
UpdateCall(u) ==
  /\ pc[u] = "idle"
  /\ IF lora_update_lock = <<>>
       THEN BeginUpdate(u, Target[u], <<u>>)
       ELSE /\ lora_update_lock' = Append(lora_update_lock, u)
            /\ pc' = [pc EXCEPT ![u] = "lock"]
            /\ op' = [op EXCEPT ![u] = [NoOp EXCEPT !.name = Target[u]]]
            /\ UNCHANGED <<registry, counters, next_id>>
  /\ UNCHANGED <<scenario, lora_ref_cache, loaded, todo, ids, sub, releases>>

LockGranted(t) ==
  /\ pc[t] = "lock" /\ Head(lora_update_lock) = t
  /\ BeginUpdate(t, op[t].name, lora_update_lock)
  /\ UNCHANGED <<scenario, lora_ref_cache, loaded, todo, ids, sub, releases>>

\* LoRAManager.load_lora_adapter in the scheduler: the answer is sent back.
BackendLoad(t) ==
  /\ pc[t] = "loading"
  /\ pc' = [pc EXCEPT ![t] = "answered"]
  /\ LET n == op[t].name
         taken == n \in {ref.name : ref \in loaded}
         full == n \in Pinned
                   /\ Cardinality({ref \in loaded : ref.name \in Pinned}) >= MaxPinned
     IN \E res \in IF taken THEN {"already"} ELSE IF full THEN {"error"}
                   ELSE {"ok"} \cup ({"error"} \cap Outcomes) :
          /\ op' = [op EXCEPT ![t] = [name |-> n, id |-> @.id, res |-> res]]
          /\ loaded' = IF res = "ok" THEN loaded \cup {[name |-> n, id |-> op[t].id]}
                       ELSE loaded
  /\ UNCHANGED <<scenario, registry, counters, lora_ref_cache, lora_update_lock, next_id,
                 todo, ids, sub, releases>>

\* Mutant: the adapter is registered whatever the scheduler answered.
LoadAnswered_IgnoreResult(t) ==
  /\ pc[t] = "answered"
  /\ LET n == op[t].name  id == op[t].id IN
     IF n \in NamesIn(registry)
       THEN Return(t, registry, counters, "error") /\ UNCHANGED lora_ref_cache
     ELSE /\ EvictOrReturn(t, Append(registry, [name |-> n, id |-> id]),
                           [k \in DOMAIN counters \cup {id} |->
                              IF k = id THEN 0 ELSE counters[k]], "ok")
          /\ lora_ref_cache' = lora_ref_cache \cup {n}
  /\ UNCHANGED <<scenario, loaded, releases>>

\* load_lora_adapter after the answer: register, then the eviction loop.  A
\* name that is already registered raises, past the loop.
LoadAnswered(t) ==
  /\ pc[t] = "answered"
  /\ LET n == op[t].name  id == op[t].id  res == op[t].res IN
     IF res # "ok"
       THEN EvictOrReturn(t, registry, counters, res) /\ UNCHANGED lora_ref_cache
     ELSE IF n \in NamesIn(registry)
       THEN Return(t, registry, counters, "error") /\ UNCHANGED lora_ref_cache
     ELSE /\ EvictOrReturn(t, Append(registry, [name |-> n, id |-> id]),
                           [k \in DOMAIN counters \cup {id} |->
                              IF k = id THEN 0 ELSE counters[k]], "ok")
          /\ lora_ref_cache' = lora_ref_cache \cup {n}
  /\ UNCHANGED <<scenario, loaded, releases>>

\* wait_for_unload is woken with the counter at zero; the unload is sent.
Drained(t) ==
  /\ pc[t] = "draining" /\ counters[op[t].id] = 0
  /\ Drain(t, counters, op[t].id)
  /\ UNCHANGED <<scenario, registry, lora_ref_cache, lora_update_lock, loaded, next_id, op,
                 todo, ids, sub, releases>>

\* LoRAManager.unload_lora_adapter in the scheduler
BackendUnload(t) ==
  /\ pc[t] = "unloading"
  /\ pc' = [pc EXCEPT ![t] = "unloaded"]
  /\ loaded' = {ref \in loaded : ref.id # op[t].id}
  /\ UNCHANGED <<scenario, registry, counters, lora_ref_cache, lora_update_lock, next_id, op,
                 todo, ids, sub, releases>>

UnloadAnswered(t) ==
  /\ pc[t] = "unloaded"
  /\ IF KindOf(t) = "load"
       THEN EvictOrReturn(t, registry, counters, op[t].res)
       ELSE Return(t, registry, counters, "ok")
  /\ UNCHANGED <<scenario, lora_ref_cache, loaded, releases>>

-----------------------------------------------------------------------------
(* a request from acquire on                                               *)

\* One of the tasks that acquire gathers for a list of names.  gather returns
\* when the last of them has run.
GatheredIncrement(s) ==
  /\ pc[s[1]] = "gather" /\ sub[s] = "looked"
  /\ sub' = [sub EXCEPT ![s] = "held"]
  /\ counters' = Increment(counters, ids[s])
  /\ pc' = [pc EXCEPT ![s[1]] = IF \E r \in SubsOf(s[1]) \ {s} : sub[r] = "looked"
                                THEN @ ELSE "acquired"]
  /\ UNCHANGED <<scenario, registry, lora_ref_cache, lora_update_lock, loaded, next_id, op,
                 todo, ids, releases>>

\* What the steps of running requests leave alone
RequestOnly == UNCHANGED <<scenario, registry, lora_ref_cache, lora_update_lock, loaded,
                           next_id, op, todo, ids>>

\* _discard_pending_req_states: outputs for the sub-requests of q that the
\* scheduler still has will be ignored.
Discarded(q) ==
  [s \in Subs |-> IF s[1] # q THEN sub[s]
                  ELSE IF sub[s] = "sent" THEN "orphan"
                  ELSE IF sub[s] = "held" THEN "done" ELSE sub[s]]

\* Tokenize the next sub-request and send it.
Send(s) ==
  /\ pc[s[1]] = "acquired" /\ sub[s] = "held"
  /\ \A r \in SubsOf(s[1]) : r[2] < s[2] => sub[r] # "held"
  /\ sub' = [sub EXCEPT ![s] = "sent"]
  /\ pc' = [pc EXCEPT ![s[1]] = IF s[2] = Len(Path[s[1]]) THEN "waiting" ELSE @]
  /\ RequestOnly /\ UNCHANGED <<counters, releases>>

\* Tokenization or validation raises; generate_request drops the states and
\* nobody will wait for the sub-requests that were sent.
TokenizeError(q) ==
  /\ "tokenize_error" \in Outcomes /\ pc[q] = "acquired"
  /\ pc' = [pc EXCEPT ![q] = "raised"]
  /\ sub' = [s \in Subs |-> IF s[1] = q /\ sub[s] = "aborted" THEN "done"
                           ELSE Discarded(q)[s]]
  /\ RequestOnly /\ UNCHANGED <<counters, releases>>

\* The client of a waiting request is gone (type 1).
Disconnect(q) ==
  /\ "disconnect" \in Outcomes /\ pc[q] = "waiting"
  /\ \E s \in SubsOf(q) : sub[s] = "sent"
  /\ pc' = [pc EXCEPT ![q] = "raised"]
  /\ sub' = Discarded(q)
  /\ RequestOnly /\ UNCHANGED <<counters, releases>>

\* Mutant: nothing is released.
Finish_NoRelease(s) ==
  /\ sub[s] = "sent" /\ sub' = [sub EXCEPT ![s] = "done"]
  /\ RequestOnly /\ UNCHANGED <<counters, pc, releases>>

\* _handle_batch_output for a finished sub-request: a task releases it.
Finish(s) ==
  /\ sub[s] = "sent"
  /\ sub' = [sub EXCEPT ![s] = "done"]
  /\ releases' = releases \cup {s}
  /\ RequestOnly /\ UNCHANGED <<counters, pc>>

\* _handle_batch_output for a request that the scheduler ended with status 500
\* or 503 while it ran
RunningAbort(s) ==
  /\ "running_abort" \in Outcomes /\ sub[s] = "sent"
  /\ sub' = [sub EXCEPT ![s] = "aborted"]
  /\ releases' = releases \cup {s}
  /\ RequestOnly /\ UNCHANGED <<counters, pc>>

\* _handle_abort_req with a reason of status 503: the request was taken out of
\* the waiting queue by the scheduler (limit, timeout).
QueueTimeout(s) ==
  /\ "queue_timeout" \in Outcomes /\ sub[s] = "sent"
  /\ sub' = [sub EXCEPT ![s] = "aborted"]
  /\ RequestOnly /\ UNCHANGED <<counters, pc, releases>>

\* _handle_abort_req without a reason: aborted by a client while it waited
QueueAbort(s) ==
  /\ "queue_abort" \in Outcomes /\ sub[s] = "sent"
  /\ sub' = [sub EXCEPT ![s] = "done"]
  /\ RequestOnly /\ UNCHANGED <<counters, pc, releases>>

\* Mutant: the status is raised before the adapter is released.
AbortSeen_NoRelease(s) ==
  /\ sub[s] = "aborted" /\ pc[s[1]] \in {"waiting", "raised"}
  /\ sub' = [sub EXCEPT ![s] = "done"]
  /\ RequestOnly /\ UNCHANGED <<counters, pc, releases>>

\* _wait_one_response meets the status: it releases the adapter, and raises
\* unless the request streams.  The waits for the other sub-requests go on.
AbortSeen(s) ==
  /\ sub[s] = "aborted" /\ pc[s[1]] \in {"waiting", "raised"}
  /\ counters' = Decrement(counters, ids[s])
  /\ \/ sub' = [sub EXCEPT ![s] = "done"] /\ UNCHANGED pc
     \/ /\ sub' = [Discarded(s[1]) EXCEPT ![s] = "done"]
        /\ pc' = [pc EXCEPT ![s[1]] = "raised"]
  /\ RequestOnly /\ UNCHANGED releases

\* The scheduler is done with a request whose state was dropped.
OrphanEnds(s) ==
  /\ sub[s] = "orphan"
  /\ sub' = [sub EXCEPT ![s] = "done"]
  /\ RequestOnly /\ UNCHANGED <<counters, pc, releases>>

\* The task that _handle_batch_output created runs.
Release(s) ==
  /\ s \in releases
  /\ releases' = releases \ {s}
  /\ counters' = Decrement(counters, ids[s])
  /\ RequestOnly /\ UNCHANGED <<pc, sub>>

-----------------------------------------------------------------------------
Begin == \/ \E q \in Requests : Resolve(q)
         \/ \E u \in Updates : UpdateCall(u)

\* What goes on without a new call
Internal ==
  \/ \E t \in Tasks : \/ LockGranted(t) \/ BackendLoad(t) \/ LoadAnswered(t)
                      \/ Drained(t) \/ BackendUnload(t) \/ UnloadAnswered(t)
  \/ \E q \in Requests : TokenizeError(q) \/ Disconnect(q)
  \/ \E s \in Subs : \/ GatheredIncrement(s) \/ Send(s) \/ Finish(s)
                     \/ RunningAbort(s) \/ QueueTimeout(s) \/ QueueAbort(s)
                     \/ AbortSeen(s) \/ OrphanEnds(s) \/ Release(s)

Next == Begin \/ Internal

Spec == Init /\ [][Next]_vars

\* The event loop and the scheduler keep running.
FairSpec == Spec /\ WF_vars(Internal)

-----------------------------------------------------------------------------
IdsIn(refs) == {ref.id : ref \in refs}

\* Registry, counters and scheduler know only identifiers that were given out,
\* and only tasks hold or wait for lora_update_lock.
TypeOK ==
  /\ Range(registry) \subseteq [name : STRING, id : 1 .. next_id - 1]
  /\ DOMAIN counters \subseteq 1 .. next_id - 1 /\ Range(counters) \subseteq Int
  /\ loaded \subseteq [name : STRING, id : 1 .. next_id - 1]
  /\ Range(lora_update_lock) \subseteq Tasks
  /\ releases \subseteq Subs
  /\ \A s \in Subs : sub[s] \in {"none", "looked", "held", "sent", "aborted",
                                 "orphan", "done"}
  /\ \A t \in Tasks : pc[t] \in {"idle", "lock", "loading", "answered", "draining",
       "unloading", "unloaded", "done", "gather", "acquired", "waiting", "refused",
       "gone", "raised"}

\* Single names, and endings that release an adapter exactly once.
Plain == Batch = {} /\ Outcomes \subseteq {"error", "queue_timeout"}

\* A sub-request that has looked its adapter up and is not over at the scheduler
Uses(s) == sub[s] \in {"looked", "held", "sent", "orphan"}

\* _unload_lora_adapter_locked sends the unload "only after all ongoing requests
\* using this LoRA adapter are finished": the scheduler has the adapter of every
\* request that may still run.  Stated for Plain scenarios: an unload can come
\* between the lookup and the count of a list of names.
UsedAdapterLoaded == Plain => \A s \in Subs : Uses(s) => ids[s] \in IdsIn(loaded)

\* Two-phase update: an adapter is registered only while the scheduler has it,
\* and when no update is under way the two agree; one name has one adapter.
RegistryMatchesBackend ==
  /\ Range(registry) \subseteq loaded
  /\ lora_update_lock = <<>> => Range(registry) = loaded
  /\ \A r1, r2 \in loaded : r1.name = r2.name => r1 = r2

\* acquire and release balance: a counter is the number of sub-requests that
\* have acquired its adapter and have not released it, and it exists as long
\* as the adapter is registered or drains.  Stated for Plain scenarios: a
\* request aborted in the waiting queue or discarded is never released, and one
\* aborted with a status while it runs is released twice.
CountersExact == Plain =>
  /\ \A id \in DOMAIN counters :
       counters[id] = Cardinality({s \in Subs : ids[s] = id
                        /\ (sub[s] \in {"held", "sent", "aborted"} \/ s \in releases)})
  /\ DOMAIN counters = IdsIn(Range(registry))
       \cup {op[t].id : t \in {u \in Tasks : pc[u] = "draining"}}

\* The eviction loop leaves at most max_loaded_loras adapters, and a load never
\* has more than one above the limit.
CapacityKept ==
  /\ Cardinality(loaded) <= MaxLoaded + 1
  /\ lora_update_lock = <<>> => Len(registry) <= MaxLoaded

\* A request that reloads its one evicted adapter finds it registered when it
\* acquires it, whatever loads and unloads run meanwhile.
ReloadedIsFound == \A q \in Requests \ Batch : pc[q] # "gone"

\* A request that is over, or that was refused
Over(q) == \/ pc[q] \in {"refused", "gone", "raised"}
           \/ pc[q] = "waiting" /\ \A s \in SubsOf(q) : sub[s] = "done"

\* No load or unload waits for ever, neither for the lock nor for the requests
\* that use the adapter it unloads, and no request waits for ever for a reload.
\* Stated for Plain scenarios; see UnloadEnds for the others.
EveryCallEnds ==
  /\ \A u \in Updates : (Plain /\ pc[u] # "idle") ~> pc[u] = "done"
  /\ \A q \in Requests : (Plain /\ pc[q] # "idle") ~> Over(q)

\* wait_for_unload ends once the adapter is no longer in use: an unload does not
\* wait for a request that was aborted in the waiting queue.
UnloadEnds == \A u \in Updates : pc[u] # "idle" ~> pc[u] = "done"
=============================================================================
