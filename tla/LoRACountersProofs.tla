-------------------------- MODULE LoRACountersProofs --------------------------
(* What the LoRA registry promises about adapters in use, for any number   *)
(* of requests, updates, adapters and limits: the counters count the       *)
(* requests that use an adapter, and an adapter in use is loaded.          *)
EXTENDS LoRARegistryProofs

-----------------------------------------------------------------------------
(* the counters                                                            *)

\* s has acquired its adapter and not released it.
Holds(s) == sub[s] \in {"held", "sent", "aborted"} \/ s \in releases
Holders(id) == {s \in Subs : ids[s] = id /\ Holds(s)}

\* A counter exists as long as its adapter is registered or a task of T waits for its
\* requests to end.
CountersFor(T, reg, cnt) ==
  DOMAIN cnt = IdsIn(Range(reg)) \cup {op[t].id : t \in {u \in T : pc[u] = "draining"}}

\* The way of a sub-request, for single names and endings that release.
SubInv ==
  /\ DOMAIN ids = Subs /\ DOMAIN sub = Subs /\ releases \subseteq Subs
  /\ \A s \in Subs : /\ sub[s] \in {"none", "held", "sent", "aborted", "done"}
                     /\ s \in releases => sub[s] = "done"
                     /\ sub[s] # "none" => pc[s[1]] \in {"acquired", "waiting", "raised"}

\* A counter counts the holders of its adapter, and every holder is counted.
ExactInv(cnt) ==
  /\ \A id \in DOMAIN cnt : IsFiniteSet(Holders(id)) /\ cnt[id] = Cardinality(Holders(id))
  /\ \A s \in Subs : Holds(s) => ids[s] \in DOMAIN cnt

Use == CountersFor(Tasks, registry, counters) /\ SubInv /\ ExactInv(counters)

UseInv == Plain => Use

-----------------------------------------------------------------------------
(* the counters, step by step                                              *)

\* Use, but for task t in the middle of a step with registry reg and counters cnt.
BaseUse(t, reg, cnt) == CountersFor(Tasks \ {t}, reg, cnt) /\ SubInv /\ ExactInv(cnt)

\* Task t has not acquired its adapter, and its step touches no other task.
Alone(t) ==
  /\ pc[t] \notin {"acquired", "waiting", "raised"}
  /\ \A u \in Tasks \ {t} : pc'[u] = pc[u] /\ op'[u] = op[u]

LEMMA SubsFacts == ASSUME NEW s \in Subs PROVE s[1] \in Requests /\ s[1] \in Tasks
BY DEF Subs, Tasks

LEMMA BaseUseFrom ==
  ASSUME Use, NEW t \in Tasks, pc[t] # "draining", NEW reg, Range(reg) = Range(registry)
  PROVE  BaseUse(t, reg, counters)
<1>1. {op[u].id : u \in {v \in Tasks \ {t} : pc[v] = "draining"}}
        = {op[u].id : u \in {v \in Tasks : pc[v] = "draining"}}
  OBVIOUS
<1>2. CountersFor(Tasks \ {t}, reg, counters)
  BY <1>1, Zenon DEF Use, CountersFor
<1> QED BY <1>2 DEF Use, BaseUse

\* Holders and the ways of sub-requests when the sub-requests rest.
LEMMA SubsRest ==
  ASSUME SubInv, NEW t \in Tasks, Alone(t), UNCHANGED <<scenario, ids, sub, releases>>
  PROVE  /\ SubInv' /\ Subs' = Subs /\ Tasks' = Tasks
         /\ \A s \in Subs : Holds(s)' <=> Holds(s)
         /\ \A id : Holders(id)' = Holders(id)
<1>1. Subs' = Subs /\ Tasks' = Tasks
  BY DEF Subs, Path, Tasks
<1>2. \A s : Holds(s)' <=> Holds(s)
  BY DEF Holds
<1>3. \A id : Holders(id)' = Holders(id)
  BY <1>1, <1>2 DEF Holders
<1>4. \A s \in Subs : sub[s] # "none" => pc'[s[1]] = pc[s[1]]
  <2> TAKE s \in Subs
  <2>1. s[1] \in Tasks
    BY SubsFacts, Zenon
  <2> QED BY <2>1, Zenon DEF SubInv, Alone
<1>5. SubInv'
  BY <1>1, <1>4 DEF SubInv
<1> QED BY <1>1, <1>2, <1>3, <1>5, Zenon

\* The identifiers that tasks wait for after a step of t
LEMMA DrainIds ==
  ASSUME NEW t \in Tasks, Alone(t), UNCHANGED scenario
  PROVE  {op'[u].id : u \in {v \in Tasks : pc'[v] = "draining"}}
           = {op[u].id : u \in {v \in Tasks \ {t} : pc[v] = "draining"}}
               \cup (IF pc'[t] = "draining" THEN {op'[t].id} ELSE {})
BY DEF Alone

\* A step of t in which the sub-requests rest and t does not come to wait for them.
LEMMA UseStays ==
  ASSUME NEW t \in Tasks, NEW reg, NEW cnt, BaseUse(t, reg, cnt), Alone(t),
         UNCHANGED <<scenario, ids, sub, releases>>,
         counters' = cnt, Range(registry') = Range(reg), pc'[t] # "draining"
  PROVE  Use'
<1>1. /\ SubInv' /\ Subs' = Subs /\ Tasks' = Tasks
      /\ \A s \in Subs : Holds(s)' <=> Holds(s)
      /\ \A id : Holders(id)' = Holders(id)
  BY SubsRest DEF BaseUse
<1>2. CountersFor(Tasks, registry, counters)'
  <2>2. {op'[u].id : u \in {v \in Tasks : pc'[v] = "draining"}}
           = {op[u].id : u \in {v \in Tasks \ {t} : pc[v] = "draining"}}
    BY DrainIds
  <2>3. DOMAIN cnt = IdsIn(Range(reg)) \cup {op[u].id : u \in {v \in Tasks \ {t} : pc[v] = "draining"}}
    BY Zenon DEF BaseUse, CountersFor
  <2>4. IdsIn(Range(registry))' = IdsIn(Range(reg))
    BY DEF IdsIn, Range
  <2>5. DOMAIN counters' = IdsIn(Range(registry))' \cup {op'[u].id : u \in {v \in Tasks : pc'[v] = "draining"}}
    BY <2>2, <2>3, <2>4, Zenon
  <2> QED BY <1>1, <2>5, Zenon DEF CountersFor
<1>3. ExactInv(counters)'
  <2>1. /\ \A id \in DOMAIN cnt : IsFiniteSet(Holders(id)) /\ cnt[id] = Cardinality(Holders(id))
        /\ \A s \in Subs : Holds(s) => ids[s] \in DOMAIN cnt
    BY DEF BaseUse, ExactInv
  <2> QED BY <1>1, <2>1 DEF ExactInv
<1> QED BY <1>1, <1>2, <1>3 DEF Use

\* With single names a request has one sub-request.
LEMMA OneSub ==
  ASSUME Plain, scenario \in Scenarios, NEW q \in Requests
  PROVE  /\ <<q, 1>> \in Subs /\ \A s \in Subs : s[1] = q => s = <<q, 1>>
         /\ Len(Path[q]) = 1 /\ DOMAIN Path[q] = {1} /\ NameOf(<<q, 1>>) = Path[q][1]
<1>1. \A r \in Requests : Path[r] \in Seq(Range(Path[r])) /\ Len(Path[r]) = 1
  BY LoRAAssumption DEF Plain, Batch, Path
<1>2. Subs = UNION {{r} \X {1} : r \in Requests}
  <2>1. 1 .. 1 = {1}
    OBVIOUS
  <2>2. \A r \in Requests : 1 .. Len(Path[r]) = {1}
    BY <1>1, <2>1, Zenon
  <2> QED BY <2>2 DEF Subs
<1>3. DOMAIN Path[q] = {1}
  BY <1>1
<1>4. NameOf(<<q, 1>>) = Path[q][1]
  BY DEF NameOf
<1> QED BY <1>1, <1>2, <1>3, <1>4

\* One more holder, one more in its counter.
LEMMA HolderAdded ==
  ASSUME SubInv, NEW cnt, ExactInv(cnt), NEW s0 \in Subs, ~Holds(s0), NEW id0 \in DOMAIN cnt,
         UNCHANGED <<scenario, releases>>,
         ids' = [s \in Subs |-> IF s = s0 THEN id0 ELSE ids[s]],
         sub' = [s \in Subs |-> IF s = s0 THEN "held" ELSE sub[s]],
         counters' = [cnt EXCEPT ![id0] = @ + 1]
  PROVE  ExactInv(counters)'
<1>1. Subs' = Subs
  BY DEF Subs, Path
<1>2. /\ \A s \in Subs : Holds(s)' <=> (s = s0 \/ Holds(s))
      /\ \A s \in Subs : ids'[s] = IF s = s0 THEN id0 ELSE ids[s]
  BY DEF Holds
<1>3. \A id : id # id0 => Holders(id)' = Holders(id)
  BY <1>1, <1>2 DEF Holders
<1>4. Holders(id0)' = Holders(id0) \cup {s0} /\ s0 \notin Holders(id0)
  BY <1>1, <1>2 DEF Holders
<1>5. DOMAIN counters' = DOMAIN cnt
  OBVIOUS
<1>6. ASSUME NEW id \in DOMAIN cnt
      PROVE  IsFiniteSet(Holders(id)') /\ counters'[id] = Cardinality(Holders(id)')
  <2>1. IsFiniteSet(Holders(id)) /\ cnt[id] = Cardinality(Holders(id))
    BY <1>6 DEF ExactInv
  <2>2. CASE id # id0
    BY <1>3, <2>1, <2>2
  <2>3. CASE id = id0
    <3>1. IsFiniteSet(Holders(id0) \cup {s0}) /\ Cardinality(Holders(id0) \cup {s0}) = Cardinality(Holders(id0)) + 1
      BY <1>4, <2>1, <2>3, FS_AddElement
    <3> QED BY <1>4, <2>1, <2>3, <3>1
  <2> QED BY <2>2, <2>3
<1>7. \A s \in Subs : Holds(s)' => ids'[s] \in DOMAIN cnt
  BY <1>2 DEF ExactInv
<1> QED BY <1>1, <1>5, <1>6, <1>7 DEF ExactInv

\* One holder less, one less in its counter.
LEMMA HolderRemoved ==
  ASSUME Use, NEW s0 \in Subs, Holds(s0), ~Holds(s0)', UNCHANGED <<scenario, ids>>,
         \A s \in Subs : s # s0 => (Holds(s)' <=> Holds(s)),
         counters' = Decrement(counters, ids[s0])
  PROVE  ExactInv(counters)' /\ DOMAIN counters' = DOMAIN counters
<1> DEFINE id0 == ids[s0]
<1>1. Subs' = Subs /\ id0 \in DOMAIN counters
  BY DEF Subs, Path, Use, ExactInv
<1>2. counters' = [counters EXCEPT ![id0] = @ - 1] /\ DOMAIN counters' = DOMAIN counters
  BY <1>1 DEF Decrement
<1>3. \A id : id # id0 => Holders(id)' = Holders(id)
  BY <1>1 DEF Holders
<1>4. Holders(id0)' = Holders(id0) \ {s0} /\ s0 \in Holders(id0)
  BY <1>1 DEF Holders
<1>6. ASSUME NEW id \in DOMAIN counters
      PROVE  IsFiniteSet(Holders(id)') /\ counters'[id] = Cardinality(Holders(id)')
  <2>1. IsFiniteSet(Holders(id)) /\ counters[id] = Cardinality(Holders(id))
    BY <1>6 DEF Use, ExactInv
  <2>2. CASE id # id0
    BY <1>2, <1>3, <2>1, <2>2
  <2>3. CASE id = id0
    <3>1. IsFiniteSet(Holders(id0) \ {s0}) /\ Cardinality(Holders(id0) \ {s0}) = Cardinality(Holders(id0)) - 1
      BY <1>4, <2>1, <2>3, FS_RemoveElement, Zenon
    <3> QED BY <1>2, <1>4, <2>1, <2>3, <3>1
  <2> QED BY <2>2, <2>3
<1>7. \A s \in Subs : Holds(s)' => ids'[s] \in DOMAIN counters
  BY DEF Use, ExactInv
<1> QED BY <1>1, <1>2, <1>6, <1>7 DEF ExactInv

\* acquire counts the request.
LEMMA AcquireUse ==
  ASSUME Plain, Shape, NEW q \in Requests, NEW reg, NEW cnt, BaseUse(q, reg, cnt),
         pc[q] \notin {"acquired", "waiting", "raised"}, Acquire(q, reg, cnt),
         UNCHANGED <<scenario, releases, op>>, Range(registry') = Range(reg)
  PROVE  Use'
<1> DEFINE missing == {k \in DOMAIN Path[q] : Path[q][k] \notin NamesIn(reg)}
           s0 == <<q, 1>>
<1>0. /\ q \in Tasks /\ DOMAIN pc = Tasks /\ scenario \in Scenarios
  BY DEF Shape, Tasks
<1>1. CASE missing # {}
  <2>1. pc' = [pc EXCEPT ![q] = "gone"] /\ counters' = cnt /\ UNCHANGED <<ids, sub>>
    BY <1>1, Zenon DEF Acquire
  <2>2. Alone(q) /\ pc'[q] # "draining"
    BY <1>0, <2>1 DEF Alone
  <2> QED BY <1>0, <2>1, <2>2, UseStays
<1>2. CASE missing = {}
  <2>1. /\ ids' = [s \in Subs |-> IF s[1] = q THEN reg[Position(reg, NameOf(s))].id ELSE ids[s]]
        /\ pc' = [pc EXCEPT ![q] = "acquired"]
        /\ sub' = [s \in Subs |-> IF s[1] = q THEN "held" ELSE sub[s]]
        /\ counters' = Increment(cnt, reg[Position(reg, Path[q][1])].id)
    <3>1. q \notin Batch
      BY DEF Plain
    <3> QED BY <1>2, <3>1, Zenon DEF Acquire
  <2> DEFINE id0 == reg[Position(reg, Path[q][1])].id
  <2>2. /\ s0 \in Subs /\ \A s \in Subs : s[1] = q => s = s0
        /\ DOMAIN Path[q] = {1} /\ NameOf(s0) = Path[q][1] /\ s0[1] = q
    BY <1>0, OneSub
  <2>3. id0 \in IdsIn(Range(reg))
    <3>1. \E k \in DOMAIN reg : reg[k].name = Path[q][1]
      BY <1>2, <2>2 DEF NamesIn, Range
    <3>2. Position(reg, Path[q][1]) \in DOMAIN reg
      BY <3>1, Zenon DEF Position
    <3> QED BY <3>2 DEF IdsIn, Range
  <2>4. id0 \in DOMAIN cnt
    BY <2>3, Zenon DEF BaseUse, CountersFor
  <2> HIDE DEF id0, s0
  <2>5. counters' = [cnt EXCEPT ![id0] = @ + 1]
    BY <2>1, <2>4 DEF Increment, id0
  <2>6. sub[s0] = "none" /\ s0 \notin releases /\ ~Holds(s0)
    BY <2>2 DEF BaseUse, SubInv, Holds
  <2>7. ids' = [s \in Subs |-> IF s = s0 THEN id0 ELSE ids[s]]
    <3>1. \A s \in Subs : s[1] = q <=> s = s0
      BY <2>2, Zenon
    <3> QED BY <2>1, <2>2, <3>1 DEF id0
  <2>8. sub' = [s \in Subs |-> IF s = s0 THEN "held" ELSE sub[s]]
    BY <2>1, <2>2
  <2>9. ExactInv(counters)'
    BY <2>2, <2>4, <2>5, <2>6, <2>7, <2>8, HolderAdded, Zenon DEF BaseUse
  <2>10. pc'[q] = "acquired" /\ \A u \in Tasks \ {q} : pc'[u] = pc[u]
    BY <1>0, <2>1
  <2>11. Subs' = Subs /\ Tasks' = Tasks
    BY DEF Subs, Path, Tasks
  <2>12. SubInv'
    <3>1. \A s \in Subs \ {s0} : sub'[s] = sub[s] /\ pc'[s[1]] = pc[s[1]]
      BY <2>2, <2>8, <2>10, SubsFacts
    <3>2. sub'[s0] = "held" /\ pc'[s0[1]] = "acquired"
      BY <2>2, <2>8, <2>10
    <3>3. DOMAIN ids' = Subs /\ DOMAIN sub' = Subs /\ releases' = releases
      BY <2>7, <2>8
    <3> QED BY <2>6, <2>11, <3>1, <3>2, <3>3 DEF BaseUse, SubInv
  <2>13. CountersFor(Tasks, registry, counters)'
    <3>1. {op'[u].id : u \in {v \in Tasks : pc'[v] = "draining"}}
            = {op[u].id : u \in {v \in Tasks \ {q} : pc[v] = "draining"}}
      BY <2>10
    <3>2. IdsIn(Range(registry))' = IdsIn(Range(reg))
      BY DEF IdsIn, Range
    <3>3. DOMAIN counters' = DOMAIN cnt
      BY <2>5
    <3>4. DOMAIN cnt = IdsIn(Range(reg)) \cup {op[u].id : u \in {v \in Tasks \ {q} : pc[v] = "draining"}}
      BY Zenon DEF BaseUse, CountersFor
    <3>5. DOMAIN counters' = IdsIn(Range(registry))' \cup {op'[u].id : u \in {v \in Tasks : pc'[v] = "draining"}}
      BY <3>1, <3>2, <3>3, <3>4, Zenon
    <3> QED BY <2>11, <3>5, Zenon DEF CountersFor
  <2> QED BY <2>9, <2>12, <2>13 DEF Use
<1> QED BY <1>1, <1>2

\* _resolve_lora_path from the head of its loop
LEMMA ReloadUse ==
  ASSUME Plain, Shape, NEW q \in Requests, NEW S, NEW reg \in Seq(S), NEW cnt, BaseUse(q, reg, cnt),
         pc[q] \notin {"acquired", "waiting", "raised"}, NEW l, NEW missing,
         ReloadOrAcquire(q, l, reg, cnt, missing), UNCHANGED <<scenario, releases>>
  PROVE  Use'
<1>0. q \in Tasks /\ DOMAIN pc = Tasks /\ DOMAIN op = Tasks
  BY DEF Shape, Tasks
<1>1. CASE missing = {}
  <2>1. Acquire(q, reg, cnt) /\ UNCHANGED op
    BY <1>1, Zenon DEF ReloadOrAcquire
  <2>2. PICK names : registry' \in LookedUp(reg, names)
    BY <2>1, Zenon DEF Acquire
  <2>3. Range(registry') = Range(reg)
    BY <2>2, LookedUpFacts
  <2> QED BY <2>1, <2>3, AcquireUse
<1>2. CASE missing # {}
  <2>1. registry' = reg /\ counters' = cnt /\ UNCHANGED <<ids, sub>>
    BY <1>2, Zenon DEF ReloadOrAcquire
  <2>2. PICK n \in missing :
          IF n \in lora_ref_cache
            THEN LoadCall(q, n, l)
            ELSE /\ pc' = [pc EXCEPT ![q] = "refused"]
                 /\ lora_update_lock' = l /\ UNCHANGED <<op, next_id>>
    BY <1>2, Zenon DEF ReloadOrAcquire
  <2>3. PICK p \in {"loading", "lock", "refused"} : pc' = [pc EXCEPT ![q] = p]
    BY <2>2, Zenon DEF LoadCall, BeginLoad
  <2>4. \A u \in Tasks \ {q} : op'[u] = op[u]
    <3>1. UNCHANGED op \/ \E x : op' = [op EXCEPT ![q] = x]
      BY <2>2, Zenon DEF LoadCall, BeginLoad
    <3> QED BY <1>0, <3>1
  <2>5. Alone(q) /\ pc'[q] # "draining"
    BY <1>0, <2>3, <2>4 DEF Alone
  <2> QED BY <1>0, <2>1, <2>5, UseStays
<1> QED BY <1>1, <1>2

LEMMA ReturnUse ==
  ASSUME Plain, Shape, NEW t \in Tasks, NEW S, NEW reg \in Seq(S), NEW cnt, BaseUse(t, reg, cnt),
         pc[t] \notin {"acquired", "waiting", "raised"}, NEW res,
         Return(t, reg, cnt, res), UNCHANGED <<scenario, releases>>
  PROVE  Use'
<1>1. CASE t \in Requests /\ res # "error"
  <2>1. ReloadOrAcquire(t, Tail(lora_update_lock), reg, cnt, todo[t])
    BY <1>1, Zenon DEF Return
  <2> QED BY <1>1, <2>1, ReloadUse
<1>2. CASE ~(t \in Requests /\ res # "error")
  <2>1. /\ pc' = [pc EXCEPT ![t] = IF t \in Requests THEN "refused" ELSE "done"]
        /\ registry' = reg /\ counters' = cnt /\ UNCHANGED <<op, ids, sub>>
    BY <1>2, Zenon DEF Return
  <2>2. Alone(t) /\ pc'[t] # "draining"
    BY <2>1 DEF Alone, Shape
  <2> QED BY <2>1, <2>2, UseStays
<1> QED BY <1>1, <1>2

\* wait_for_unload: the counter of id goes once nobody holds the adapter.
LEMMA DrainUse ==
  ASSUME NEW t \in Tasks, NEW cnt, NEW id \in DOMAIN cnt, SubInv, ExactInv(cnt),
         Drain(t, cnt, id), Shape, pc[t] \notin {"acquired", "waiting", "raised"},
         \A u \in Tasks \ {t} : pc[u] # "draining" /\ op'[u] = op[u],
         op'[t].id = id, UNCHANGED <<scenario, ids, sub, releases>>,
         IdsIn(Range(registry')) = DOMAIN cnt \ {id}
  PROVE  Use'
<1>0. /\ pc' = [pc EXCEPT ![t] = IF cnt[id] = 0 THEN "unloading" ELSE "draining"]
      /\ counters' = IF cnt[id] = 0 THEN Without(cnt, id) ELSE cnt
  BY DEF Drain
<1>1. Alone(t) /\ pc'[t] = IF cnt[id] = 0 THEN "unloading" ELSE "draining"
  BY <1>0 DEF Alone, Shape
<1>2. /\ SubInv' /\ Subs' = Subs /\ Tasks' = Tasks
      /\ \A s \in Subs : Holds(s)' <=> Holds(s)
      /\ \A k : Holders(k)' = Holders(k)
  BY <1>1, SubsRest
<1>3. {op'[u].id : u \in {v \in Tasks : pc'[v] = "draining"}} = IF cnt[id] = 0 THEN {} ELSE {id}
  BY <1>1 DEF Alone
<1>4. /\ \A k \in DOMAIN cnt : IsFiniteSet(Holders(k)) /\ cnt[k] = Cardinality(Holders(k))
      /\ \A s \in Subs : Holds(s) => ids[s] \in DOMAIN cnt
  BY DEF ExactInv
<1>5. IdsIn(Range(registry))' = DOMAIN cnt \ {id}
  BY DEF IdsIn, Range
<1>6. CASE cnt[id] = 0
  <2>1. DOMAIN counters' = DOMAIN cnt \ {id} /\ \A k \in DOMAIN cnt \ {id} : counters'[k] = cnt[k]
    BY <1>0, <1>6 DEF Without
  <2>2. Holders(id) = {}
    BY <1>4, <1>6, FS_EmptySet
  <2>3. \A s \in Subs : Holds(s) => ids[s] # id
    BY <2>2 DEF Holders
  <2>4. ExactInv(counters)'
    BY <1>2, <1>4, <2>1, <2>3 DEF ExactInv
  <2>5. CountersFor(Tasks, registry, counters)'
    <3>1. DOMAIN counters' = IdsIn(Range(registry))' \cup {op'[u].id : u \in {v \in Tasks : pc'[v] = "draining"}}
      BY <1>3, <1>5, <1>6, <2>1
    <3> QED BY <1>2, <3>1, Zenon DEF CountersFor
  <2> QED BY <1>2, <2>4, <2>5 DEF Use
<1>7. CASE cnt[id] # 0
  <2>1. counters' = cnt
    BY <1>0, <1>7
  <2>2. ExactInv(counters)'
    BY <1>2, <1>4, <2>1 DEF ExactInv
  <2>3. CountersFor(Tasks, registry, counters)'
    <3>1. DOMAIN counters' = IdsIn(Range(registry))' \cup {op'[u].id : u \in {v \in Tasks : pc'[v] = "draining"}}
      BY <1>3, <1>5, <1>7, <2>1, Zenon
    <3> QED BY <1>2, <3>1, Zenon DEF CountersFor
  <2> QED BY <1>2, <2>2, <2>3 DEF Use
<1> QED BY <1>6, <1>7

\* unregister
LEMMA UnregisterUse ==
  ASSUME NEW t \in Tasks, Shape, LoadedInv, \A u \in Tasks \ {t} : pc[u] # "draining",
         pc[t] \notin {"acquired", "waiting", "raised"},
         NEW reg \in Seq(loaded), IsInjective(reg), NEW cnt, BaseUse(t, reg, cnt),
         NEW n, NEW res, Unregister(t, reg, cnt, n, res), UNCHANGED <<scenario, ids, sub, releases>>
  PROVE  Use'
<1>1. PICK k \in DOMAIN reg :
        /\ registry' = RemoveAt(reg, k)
        /\ op' = [op EXCEPT ![t] = [name |-> @.name, id |-> reg[k].id, res |-> res]]
        /\ Drain(t, cnt, reg[k].id)
  BY Zenon DEF Unregister
<1>2. Range(registry') = Range(reg) \ {reg[k]}
  BY <1>1, RemoveAtFacts
<1>3. Range(reg) \subseteq loaded /\ reg[k] \in Range(reg)
  BY DEF Range
<1>4. \A r \in Range(reg) : r.id = reg[k].id => r = reg[k]
  BY <1>3 DEF LoadedInv
<1>5. DOMAIN cnt = IdsIn(Range(reg))
  <2>1. {op[u].id : u \in {v \in Tasks \ {t} : pc[v] = "draining"}} = {}
    OBVIOUS
  <2> QED BY <2>1 DEF BaseUse, CountersFor
<1>6. reg[k].id \in DOMAIN cnt /\ IdsIn(Range(registry')) = DOMAIN cnt \ {reg[k].id}
  BY <1>2, <1>3, <1>4, <1>5 DEF IdsIn
<1>7. op'[t].id = reg[k].id /\ \A u \in Tasks \ {t} : op'[u] = op[u]
  BY <1>1 DEF Shape
<1> QED BY <1>1, <1>6, <1>7, DrainUse DEF BaseUse

\* The eviction loop
LEMMA EvictUse ==
  ASSUME Plain, Shape, LoadedInv, NEW t \in Tasks, \A u \in Tasks \ {t} : pc[u] # "draining",
         pc[t] \notin {"acquired", "waiting", "raised"},
         NEW reg \in Seq(loaded), IsInjective(reg), NEW cnt, BaseUse(t, reg, cnt),
         NEW res, EvictOrReturn(t, reg, cnt, res), UNCHANGED <<scenario, releases>>
  PROVE  Use'
<1>1. CASE \E r : Return(t, reg, cnt, r)
  <2>1. PICK r : Return(t, reg, cnt, r)
    BY <1>1
  <2> QED BY <2>1, ReturnUse
<1>2. CASE \E n : Unregister(t, reg, cnt, n, res) /\ UNCHANGED <<ids, sub>>
  <2>1. PICK n : Unregister(t, reg, cnt, n, res) /\ UNCHANGED <<ids, sub>>
    BY <1>2
  <2> QED BY <2>1, UnregisterUse
<1> QED BY <1>1, <1>2, Zenon DEF EvictOrReturn

LEMMA HolderFacts ==
  ASSUME Inv, NEW t \in Tasks, pc[t] \in Active
  PROVE  /\ pc[t] \notin {"acquired", "waiting", "raised"}
         /\ \A u \in Tasks \ {t} : pc[u] # "draining"
<1>1. \A u \in Tasks \ {t} : pc[u] \notin Active
  BY Holder, Zenon
<1> QED BY <1>1 DEF Active

LEMMA LoadAnsweredUse == ASSUME Inv, Plain, Use, NEW t \in Tasks, LoadAnswered(t) PROVE Use'
<1> DEFINE n == op[t].name
           ref == [name |-> n, id |-> op[t].id]
<1>0. /\ pc[t] = "answered" /\ pc[t] \in Active /\ UNCHANGED <<scenario, releases>>
      /\ registry \in Seq(loaded) /\ IsInjective(registry) /\ Shape /\ LoadedInv
  BY DEF LoadAnswered, Active, Inv, RegistryInv
<1>1. /\ pc[t] \notin {"acquired", "waiting", "raised"} /\ \A u \in Tasks \ {t} : pc[u] # "draining"
  BY <1>0, HolderFacts
<1>2. BaseUse(t, registry, counters)
  BY <1>0, BaseUseFrom
<1>3. CASE \E r : EvictOrReturn(t, registry, counters, r) \/ Return(t, registry, counters, r)
  <2>1. PICK r : EvictOrReturn(t, registry, counters, r) \/ Return(t, registry, counters, r)
    BY <1>3
  <2>2. CASE EvictOrReturn(t, registry, counters, r)
    BY <1>0, <1>1, <1>2, <2>2, EvictUse
  <2>3. CASE Return(t, registry, counters, r)
    BY <1>0, <1>1, <1>2, <2>3, ReturnUse
  <2> QED BY <2>1, <2>2, <2>3
<1>4. CASE op[t].res = "ok"
  <2> DEFINE reg == Append(registry, ref)
             cnt == [k \in DOMAIN counters \cup {op[t].id} |-> IF k = op[t].id THEN 0 ELSE counters[k]]
  <2>1. CASE n \in NamesIn(registry)
    <3>1. Return(t, registry, counters, "error")
      BY <1>4, <2>1, Zenon DEF LoadAnswered
    <3> QED BY <1>3, <3>1, Zenon
  <2>2. CASE n \notin NamesIn(registry)
    <3>1. EvictOrReturn(t, reg, cnt, "ok")
      BY <1>4, <2>2, Zenon DEF LoadAnswered
    <3>2. Owes(t)
      BY <1>0, <1>4 DEF Owes
    <3>3. ref \in loaded \ Range(registry)
      BY <1>0, <3>2, Zenon DEF Inv, RegistryInv
    <3>4. reg \in Seq(loaded) /\ Range(reg) = Range(registry) \cup {ref} /\ IsInjective(reg)
      <4> HIDE DEF ref
      <4> QED BY <1>0, <3>3, AppendFacts
    <3>5. DOMAIN counters = IdsIn(Range(registry))
      <4>1. {op[u].id : u \in {v \in Tasks \ {t} : pc[v] = "draining"}} = {}
        BY <1>1
      <4> QED BY <1>2, <4>1 DEF BaseUse, CountersFor
    <3>6. op[t].id \notin DOMAIN counters
      <4>1. \A r \in Range(registry) : r \in loaded /\ r # ref
        BY <1>0, <3>3 DEF Range
      <4> HIDE DEF ref
      <4>2. \A r \in Range(registry) : r.id # ref.id
        BY <3>3, <4>1, Zenon DEF Inv, LoadedInv
      <4> QED BY <3>5, <4>2 DEF IdsIn, ref
    <3>7. DOMAIN cnt = IdsIn(Range(reg))
      BY <3>4, <3>5 DEF IdsIn
    <3>8. ExactInv(cnt)
      <4>1. /\ \A id \in DOMAIN counters : IsFiniteSet(Holders(id)) /\ counters[id] = Cardinality(Holders(id))
            /\ \A s \in Subs : Holds(s) => ids[s] \in DOMAIN counters
        BY DEF Use, ExactInv
      <4>2. Holders(op[t].id) = {}
        BY <3>6, <4>1 DEF Holders
      <4>3. IsFiniteSet(Holders(op[t].id)) /\ Cardinality(Holders(op[t].id)) = 0
        BY <4>2, FS_EmptySet
      <4> QED BY <4>1, <4>3 DEF ExactInv
    <3>9. BaseUse(t, reg, cnt)
      <4>1. {op[u].id : u \in {v \in Tasks \ {t} : pc[v] = "draining"}} = {}
        BY <1>1
      <4>2. CountersFor(Tasks \ {t}, reg, cnt)
        <5> HIDE DEF cnt, reg
        <5> QED BY <3>7, <4>1 DEF CountersFor
      <4> QED BY <3>8, <4>2, Zenon DEF BaseUse, Use
    <3> HIDE DEF reg, cnt
    <3> QED BY <1>0, <1>1, <3>1, <3>4, <3>9, EvictUse
  <2> QED BY <2>1, <2>2
<1>5. CASE op[t].res # "ok"
  <2>1. EvictOrReturn(t, registry, counters, op[t].res)
    BY <1>5, Zenon DEF LoadAnswered
  <2> QED BY <1>3, <2>1, Zenon
<1> QED BY <1>4, <1>5

LEMMA DrainedUse == ASSUME Inv, Use, NEW t \in Tasks, Drained(t) PROVE Use'
<1>0. /\ pc[t] = "draining" /\ pc[t] \in Active /\ Drain(t, counters, op[t].id)
      /\ UNCHANGED <<scenario, registry, op, ids, sub, releases>>
  BY DEF Drained, Active
<1>1. /\ pc[t] \notin {"acquired", "waiting", "raised"} /\ \A u \in Tasks \ {t} : pc[u] # "draining"
  BY <1>0, HolderFacts
<1>2. DOMAIN counters = IdsIn(Range(registry)) \cup {op[t].id}
  <2>1. {op[u].id : u \in {v \in Tasks : pc[v] = "draining"}} = {op[t].id}
    BY <1>0, <1>1
  <2> QED BY <2>1 DEF Use, CountersFor
<1>3. op[t].id \notin IdsIn(Range(registry))
  <2>1. Owes(t)
    BY <1>0 DEF Owes
  <2>2. PICK ref \in loaded \ Range(registry) : ref.id = op[t].id
    BY <2>1, Zenon DEF Inv, RegistryInv
  <2>3. \A r \in Range(registry) : r \in loaded /\ r # ref
    BY <2>2 DEF Inv, RegistryInv, Range
  <2>4. \A r \in Range(registry) : r.id # ref.id
    BY <2>2, <2>3, Zenon DEF Inv, LoadedInv
  <2> QED BY <2>2, <2>4 DEF IdsIn
<1>4. op[t].id \in DOMAIN counters /\ IdsIn(Range(registry')) = DOMAIN counters \ {op[t].id}
  BY <1>0, <1>2, <1>3
<1> QED BY <1>0, <1>1, <1>4, DrainUse DEF Use, Inv

LEMMA UnloadAnsweredUse == ASSUME Inv, Plain, Use, NEW t \in Tasks, UnloadAnswered(t) PROVE Use'
<1>0. /\ pc[t] = "unloaded" /\ pc[t] \in Active /\ UNCHANGED <<scenario, releases>>
      /\ registry \in Seq(loaded) /\ IsInjective(registry) /\ Shape /\ LoadedInv
  BY DEF UnloadAnswered, Active, Inv, RegistryInv
<1>1. /\ pc[t] \notin {"acquired", "waiting", "raised"} /\ \A u \in Tasks \ {t} : pc[u] # "draining"
  BY <1>0, HolderFacts
<1>2. BaseUse(t, registry, counters)
  BY <1>0, BaseUseFrom
<1>3. \/ EvictOrReturn(t, registry, counters, op[t].res) \/ Return(t, registry, counters, "ok")
  BY Zenon DEF UnloadAnswered
<1>4. CASE EvictOrReturn(t, registry, counters, op[t].res)
  BY <1>0, <1>1, <1>2, <1>4, EvictUse
<1>5. CASE Return(t, registry, counters, "ok")
  BY <1>0, <1>1, <1>2, <1>5, ReturnUse
<1> QED BY <1>3, <1>4, <1>5

\* The scheduler's steps do not touch the counters.
LEMMA BackendUse ==
  ASSUME Inv, Use, NEW t \in Tasks, BackendLoad(t) \/ BackendUnload(t)
  PROVE  Use'
<1>1. /\ pc[t] \in {"loading", "unloading"}
      /\ \E p \in {"answered", "unloaded"} : pc' = [pc EXCEPT ![t] = p]
      /\ UNCHANGED <<scenario, registry, counters, ids, sub, releases>>
  BY DEF BackendLoad, BackendUnload
<1>2. \A u \in Tasks \ {t} : op'[u] = op[u]
  <2>1. UNCHANGED op \/ \E x : op' = [op EXCEPT ![t] = x]
    BY Zenon DEF BackendLoad, BackendUnload
  <2> QED BY <2>1 DEF Inv, Shape
<1>3. Alone(t) /\ pc'[t] # "draining" /\ pc[t] # "draining"
  BY <1>1, <1>2 DEF Alone, Inv, Shape
<1>4. BaseUse(t, registry, counters)
  BY <1>3, BaseUseFrom
<1>5. Range(registry') = Range(registry) /\ counters' = counters
  BY <1>1
<1> QED BY <1>1, <1>3, <1>4, <1>5, UseStays

LEMMA BeginUpdateUse ==
  ASSUME Inv, Use, NEW t \in Tasks, NEW n, NEW l, BeginUpdate(t, n, l),
         pc[t] \in {"idle", "lock"}, \A u \in Tasks \ {t} : pc[u] \notin Active,
         UNCHANGED <<scenario, ids, sub, releases>>
  PROVE  Use'
<1>0. /\ pc[t] \notin {"acquired", "waiting", "raised"} /\ pc[t] # "draining"
      /\ \A u \in Tasks \ {t} : pc[u] # "draining"
  BY DEF Active
<1>1. BaseUse(t, registry, counters)
  BY <1>0, BaseUseFrom
<1>2. CASE Unregister(t, registry, counters, n, "")
  BY <1>0, <1>1, <1>2, UnregisterUse, Zenon DEF Inv, RegistryInv
<1>3. CASE ~Unregister(t, registry, counters, n, "")
  <2>1. /\ \E p \in {"loading", "done"} : pc' = [pc EXCEPT ![t] = p]
        /\ registry' = registry /\ counters' = counters
    BY <1>3, Zenon DEF BeginUpdate, BeginLoad
  <2>2. UNCHANGED op \/ \E x : op' = [op EXCEPT ![t] = x]
    BY <1>3, Zenon DEF BeginUpdate, BeginLoad
  <2>3. \A u \in Tasks \ {t} : op'[u] = op[u]
    BY <2>2 DEF Inv, Shape
  <2>4. Alone(t) /\ pc'[t] # "draining"
    BY <1>0, <2>1, <2>3 DEF Alone, Inv, Shape
  <2> QED BY <1>1, <2>1, <2>4, UseStays
<1> QED BY <1>2, <1>3, Zenon

LEMMA UpdateCallUse == ASSUME Inv, Use, NEW u \in Updates, UpdateCall(u) PROVE Use'
<1>0. /\ u \in Tasks /\ pc[u] = "idle" /\ UNCHANGED <<scenario, ids, sub, releases>>
      /\ DOMAIN pc = Tasks /\ DOMAIN op = Tasks
  BY DEF UpdateCall, Tasks, Inv, Shape
<1>1. CASE lora_update_lock = <<>>
  <2>1. BeginUpdate(u, Target[u], <<u>>)
    BY <1>1, Zenon DEF UpdateCall
  <2>2. \A v \in Tasks \ {u} : pc[v] \notin Active
    BY <1>1, Zenon DEF Inv, LockInv
  <2> QED BY <1>0, <2>1, <2>2, BeginUpdateUse
<1>2. CASE lora_update_lock # <<>>
  <2>1. /\ pc' = [pc EXCEPT ![u] = "lock"] /\ UNCHANGED <<registry, counters>>
        /\ op' = [op EXCEPT ![u] = [NoOp EXCEPT !.name = Target[u]]]
    BY <1>2, Zenon DEF UpdateCall
  <2>2. Alone(u) /\ pc'[u] # "draining"
    BY <1>0, <2>1 DEF Alone
  <2>3. BaseUse(u, registry, counters)
    BY <1>0, BaseUseFrom
  <2>4. Range(registry') = Range(registry) /\ counters' = counters
    BY <2>1
  <2> QED BY <1>0, <2>2, <2>3, <2>4, UseStays
<1> QED BY <1>1, <1>2

LEMMA LockGrantedUse == ASSUME Inv, Use, NEW t \in Tasks, LockGranted(t) PROVE Use'
<1>1. /\ pc[t] = "lock" /\ Head(lora_update_lock) = t /\ BeginUpdate(t, op[t].name, lora_update_lock)
      /\ UNCHANGED <<scenario, ids, sub, releases>>
  BY Zenon DEF LockGranted
<1>2. \A u \in Tasks \ {t} : pc[u] \notin Active
  BY <1>1 DEF Inv, LockInv
<1> QED BY <1>1, <1>2, BeginUpdateUse

LEMMA ResolveUse == ASSUME Inv, Plain, Use, NEW q \in Requests, Resolve(q) PROVE Use'
<1>0. /\ q \in Tasks /\ pc[q] = "idle" /\ UNCHANGED <<scenario, releases>>
      /\ registry \in Seq(loaded) /\ Shape /\ DOMAIN pc = Tasks
  BY DEF Resolve, Tasks, Inv, Shape, RegistryInv
<1>1. CASE Cardinality(Range(Path[q])) > MaxLoaded
  <2>1. pc' = [pc EXCEPT ![q] = "refused"] /\ UNCHANGED <<registry, counters, op, ids, sub>>
    BY <1>1, Zenon DEF Resolve
  <2>2. Alone(q) /\ pc'[q] # "draining"
    BY <1>0, <2>1 DEF Alone
  <2>3. BaseUse(q, registry, counters)
    BY <1>0, BaseUseFrom
  <2>4. Range(registry') = Range(registry) /\ counters' = counters
    BY <2>1
  <2> QED BY <1>0, <2>1, <2>2, <2>3, <2>4, UseStays
<1>2. CASE ~(Cardinality(Range(Path[q])) > MaxLoaded)
  <2>1. PICK order, missing : \E reg \in LookedUp(registry, order) :
          ReloadOrAcquire(q, lora_update_lock, reg, counters, missing)
    BY <1>2, Zenon DEF Resolve
  <2>2. PICK reg \in LookedUp(registry, order) :
          ReloadOrAcquire(q, lora_update_lock, reg, counters, missing)
    BY <2>1
  <2>3. reg \in Seq(loaded) /\ Range(reg) = Range(registry)
    BY <1>0, LookedUpFacts
  <2>4. BaseUse(q, reg, counters)
    BY <1>0, <2>3, BaseUseFrom
  <2>5. pc[q] \notin {"acquired", "waiting", "raised"}
    BY <1>0
  <2> QED BY <1>0, <2>2, <2>3, <2>4, <2>5, ReloadUse
<1> QED BY <1>1, <1>2

\* A request that has its adapter moves on, or stays where it is.
HasAdapter == {"acquired", "waiting", "raised"}
Stays == UNCHANGED pc \/ \E q \in Requests, p \in HasAdapter : pc[q] \in HasAdapter /\ pc' = [pc EXCEPT ![q] = p]

\* A step of sub-request s0 that keeps the counters exact.
LEMMA SubStep ==
  ASSUME Inv, Use, NEW s0 \in Subs, RequestOnly, Stays, sub[s0] # "none",
         DOMAIN sub' = Subs, \A s \in Subs \ {s0} : sub'[s] = sub[s],
         sub'[s0] \in {"sent", "aborted", "done"},
         releases' \subseteq Subs, \A s \in Subs \ {s0} : s \in releases' => s \in releases,
         s0 \in releases' => sub'[s0] = "done",
         DOMAIN counters' = DOMAIN counters, ExactInv(counters)'
  PROVE  Use'
<1>1. /\ UNCHANGED <<scenario, registry, op, ids>> /\ Subs' = Subs /\ Tasks' = Tasks
  BY DEF RequestOnly, Subs, Path, Tasks
<1>2. /\ \A t \in Tasks : pc[t] \in HasAdapter => pc'[t] \in HasAdapter
      /\ \A t \in Tasks : pc'[t] = "draining" <=> pc[t] = "draining"
  BY DEF Stays, HasAdapter, Inv, Shape
<1>3. SubInv'
  <2>1. SubInv
    BY DEF Use
  <2>2. DOMAIN ids' = Subs /\ DOMAIN sub' = Subs
    BY <1>1, <2>1 DEF SubInv
  <2>3. \A s \in Subs : pc[s[1]] \in HasAdapter => pc'[s[1]] \in HasAdapter
    BY <1>2, SubsFacts
  <2>4. \A s \in Subs : /\ sub[s] \in {"none", "held", "sent", "aborted", "done"}
                        /\ s \in releases => sub[s] = "done"
                        /\ sub[s] # "none" => pc[s[1]] \in HasAdapter
    BY <2>1 DEF SubInv, HasAdapter
  <2>5. \A s \in Subs : /\ sub'[s] \in {"none", "held", "sent", "aborted", "done"}
                        /\ s \in releases' => sub'[s] = "done"
                        /\ sub'[s] # "none" => pc'[s[1]] \in HasAdapter
    BY <2>3, <2>4
  <2> QED BY <1>1, <2>2, <2>5 DEF SubInv, HasAdapter
<1>4. CountersFor(Tasks, registry, counters)'
  <2>1. {op'[u].id : u \in {v \in Tasks : pc'[v] = "draining"}} = {op[u].id : u \in {v \in Tasks : pc[v] = "draining"}}
    BY <1>1, <1>2
  <2>2. IdsIn(Range(registry))' = IdsIn(Range(registry))
    BY <1>1 DEF IdsIn, Range
  <2>3. DOMAIN counters = IdsIn(Range(registry)) \cup {op[u].id : u \in {v \in Tasks : pc[v] = "draining"}}
    BY Zenon DEF Use, CountersFor
  <2>4. DOMAIN counters' = IdsIn(Range(registry))' \cup {op'[u].id : u \in {v \in Tasks : pc'[v] = "draining"}}
    BY <2>1, <2>2, <2>3, Zenon
  <2> QED BY <1>1, <2>4, Zenon DEF CountersFor
<1> QED BY <1>3, <1>4 DEF Use

\* Nobody acquires or releases: the counters stay exact.
LEMMA HoldersKept ==
  ASSUME Use, UNCHANGED <<scenario, ids, counters>>, \A s \in Subs : Holds(s)' <=> Holds(s)
  PROVE  ExactInv(counters)'
<1>1. Subs' = Subs
  BY DEF Subs, Path
<1>2. \A id : Holders(id)' = Holders(id)
  BY <1>1 DEF Holders
<1> QED BY <1>1, <1>2 DEF Use, ExactInv

LEMMA SubKept ==
  ASSUME Use, NEW s0 \in Subs, NEW v, sub' = [sub EXCEPT ![s0] = v]
  PROVE  DOMAIN sub' = Subs /\ sub'[s0] = v /\ \A s \in Subs \ {s0} : sub'[s] = sub[s]
BY DEF Use, SubInv

LEMMA SendUse == ASSUME Inv, Use, NEW s0 \in Subs, Send(s0) PROVE Use'
<1>1. /\ pc[s0[1]] = "acquired" /\ sub[s0] = "held" /\ sub' = [sub EXCEPT ![s0] = "sent"]
      /\ RequestOnly /\ UNCHANGED <<counters, releases>>
  BY Zenon DEF Send
<1>2. Stays
  <2>1. pc' = [pc EXCEPT ![s0[1]] = IF s0[2] = Len(Path[s0[1]]) THEN "waiting" ELSE pc[s0[1]]]
    BY DEF Send
  <2>2. s0[1] \in Requests
    BY SubsFacts
  <2> QED BY <1>1, <2>1, <2>2, Zenon DEF Stays, HasAdapter
<1>3. DOMAIN sub' = Subs /\ sub'[s0] = "sent" /\ \A s \in Subs \ {s0} : sub'[s] = sub[s]
  BY <1>1, SubKept, Zenon
<1>4. s0 \notin releases /\ releases \subseteq Subs
  BY <1>1 DEF Use, SubInv
<1>5. \A s \in Subs : Holds(s)' <=> Holds(s)
  BY <1>1, <1>3 DEF Holds
<1>6. ExactInv(counters)'
  BY <1>1, <1>5, HoldersKept DEF RequestOnly
<1> QED BY <1>1, <1>2, <1>3, <1>4, <1>6, SubStep

\* A sub-request ends at the scheduler: it is released by a task, or by its waiter.
LEMMA EndUse == ASSUME Inv, Use, NEW s0 \in Subs, Finish(s0) \/ QueueTimeout(s0) PROVE Use'
<1>1. /\ sub[s0] = "sent" /\ RequestOnly /\ UNCHANGED <<counters, pc>>
      /\ \/ sub' = [sub EXCEPT ![s0] = "done"] /\ releases' = releases \cup {s0}
         \/ sub' = [sub EXCEPT ![s0] = "aborted"] /\ releases' = releases
  BY Zenon DEF Finish, QueueTimeout
<1>2. Stays
  BY <1>1 DEF Stays
<1>3. s0 \notin releases /\ releases \subseteq Subs
  BY <1>1 DEF Use, SubInv
<1>4. /\ DOMAIN sub' = Subs /\ \A s \in Subs \ {s0} : sub'[s] = sub[s]
      /\ \/ sub'[s0] = "done" /\ releases' = releases \cup {s0}
         \/ sub'[s0] = "aborted" /\ releases' = releases
  BY <1>1, SubKept
<1>5. \A s \in Subs : Holds(s)' <=> Holds(s)
  BY <1>1, <1>4 DEF Holds
<1>6. ExactInv(counters)'
  BY <1>1, <1>5, HoldersKept DEF RequestOnly
<1> QED BY <1>1, <1>2, <1>3, <1>4, <1>6, SubStep

LEMMA ReleaseUse == ASSUME Inv, Use, NEW s0 \in Subs, Release(s0) PROVE Use'
<1>1. /\ s0 \in releases /\ releases' = releases \ {s0} /\ RequestOnly /\ UNCHANGED <<pc, sub>>
      /\ counters' = Decrement(counters, ids[s0])
  BY Zenon DEF Release
<1>2. /\ sub[s0] = "done" /\ DOMAIN sub = Subs /\ releases \subseteq Subs /\ Stays
  BY <1>1 DEF Use, SubInv, Stays
<1>3. Holds(s0) /\ ~Holds(s0)' /\ \A s \in Subs : s # s0 => (Holds(s)' <=> Holds(s))
  BY <1>1, <1>2 DEF Holds
<1>4. ExactInv(counters)' /\ DOMAIN counters' = DOMAIN counters
  BY <1>1, <1>3, HolderRemoved DEF RequestOnly
<1> QED BY <1>1, <1>2, <1>4, SubStep

LEMMA AbortSeenUse == ASSUME Inv, Plain, Use, NEW s0 \in Subs, AbortSeen(s0) PROVE Use'
<1>1. /\ sub[s0] = "aborted" /\ pc[s0[1]] \in {"waiting", "raised"} /\ RequestOnly /\ UNCHANGED releases
      /\ counters' = Decrement(counters, ids[s0])
      /\ \/ sub' = [sub EXCEPT ![s0] = "done"] /\ UNCHANGED pc
         \/ sub' = [Discarded(s0[1]) EXCEPT ![s0] = "done"] /\ pc' = [pc EXCEPT ![s0[1]] = "raised"]
  BY Zenon DEF AbortSeen
<1>2. s0[1] \in Requests /\ \A s \in Subs : s[1] = s0[1] => s = s0
  <2>1. s0[1] \in Requests
    BY SubsFacts
  <2> QED BY <2>1, OneSub, Zenon DEF Inv, Shape
<1>3. Stays
  BY <1>1, <1>2 DEF Stays, HasAdapter
<1>4. s0 \notin releases /\ releases \subseteq Subs
  BY <1>1 DEF Use, SubInv
<1>5. DOMAIN sub' = Subs /\ sub'[s0] = "done" /\ \A s \in Subs \ {s0} : sub'[s] = sub[s]
  <2>1. CASE sub' = [sub EXCEPT ![s0] = "done"]
    BY <2>1, SubKept, Zenon
  <2>2. CASE sub' = [Discarded(s0[1]) EXCEPT ![s0] = "done"]
    BY <1>2, <2>2 DEF Discarded
  <2> QED BY <1>1, <2>1, <2>2
<1>6. Holds(s0) /\ ~Holds(s0)' /\ \A s \in Subs : s # s0 => (Holds(s)' <=> Holds(s))
  BY <1>1, <1>4, <1>5 DEF Holds
<1>7. ExactInv(counters)' /\ DOMAIN counters' = DOMAIN counters
  BY <1>1, <1>6, HolderRemoved DEF RequestOnly
<1> QED BY <1>1, <1>3, <1>4, <1>5, <1>7, SubStep

LEMMA InitUse == Init => Use
<1> SUFFICES ASSUME Init PROVE Use
  OBVIOUS
<1>1. /\ \A s \in Subs : ~Holds(s) /\ sub[s] = "none"
      /\ releases = {} /\ DOMAIN ids = Subs /\ DOMAIN sub = Subs
  BY DEF Init, Holds
<1>2. \A id : Holders(id) = {}
  BY <1>1 DEF Holders
<1>3. ExactInv(counters)
  <2>1. \A id \in DOMAIN counters : counters[id] = 0
    BY DEF Init
  <2> QED BY <1>1, <1>2, <2>1, FS_EmptySet DEF ExactInv
<1>4. CountersFor(Tasks, registry, counters)
  <2>1. {op[u].id : u \in {v \in Tasks : pc[v] = "draining"}} = {}
    BY DEF Init
  <2>2. IdsIn(Range(registry)) = DOMAIN Initial /\ DOMAIN counters = DOMAIN Initial
    <3>1. DOMAIN registry = DOMAIN Initial /\ \A k \in DOMAIN Initial : registry[k].id = k
      BY DEF Init
    <3>2. IdsIn(Range(registry)) = {registry[k].id : k \in DOMAIN Initial}
      BY <3>1 DEF IdsIn, Range
    <3> QED BY <3>1, <3>2, Zenon DEF Init
  <2> QED BY <2>1, <2>2, Zenon DEF CountersFor
<1>5. SubInv
  BY <1>1 DEF SubInv
<1> QED BY <1>3, <1>4, <1>5 DEF Use

\* The steps that the single names and the endings of Plain scenarios leave out
LEMMA RequestUse == ASSUME Inv, Plain, Use, RequestStep PROVE Use'
<1>1. Outcomes \subseteq {"error", "queue_timeout"}
  BY DEF Plain
<1>2. \A q \in Requests : ~TokenizeError(q) /\ ~Disconnect(q)
  BY <1>1 DEF TokenizeError, Disconnect
<1>3. ASSUME NEW s \in Subs
      PROVE  ~GatheredIncrement(s) /\ ~RunningAbort(s) /\ ~QueueAbort(s) /\ ~OrphanEnds(s)
  <2>1. sub[s] \notin {"looked", "orphan"}
    BY DEF Use, SubInv
  <2> QED BY <1>1, <2>1 DEF GatheredIncrement, RunningAbort, QueueAbort, OrphanEnds
<1>4. PICK s \in Subs : Send(s) \/ Finish(s) \/ QueueTimeout(s) \/ AbortSeen(s) \/ Release(s)
  BY <1>2, <1>3, Zenon DEF RequestStep
<1> QED BY <1>4, SendUse, EndUse, AbortSeenUse, ReleaseUse

LEMMA StepUse == ASSUME Inv, UseInv, [Next]_vars PROVE UseInv'
<1>1. UNCHANGED scenario
  <2>1. RequestStep => UNCHANGED scenario
    BY RequestMoves DEF RequestOnly
  <2> QED BY <2>1, Zenon DEF Next, Begin, Internal, RequestStep, vars, Resolve, UpdateCall, LockGranted,
       BackendLoad, LoadAnswered, Drained, BackendUnload, UnloadAnswered
<1> SUFFICES ASSUME Plain, Use PROVE Use'
  BY <1>1 DEF UseInv, Plain, Batch, Outcomes
<1>2. CASE UNCHANGED vars
  <2>1. Subs' = Subs /\ Tasks' = Tasks
    BY <1>2 DEF vars, Subs, Path, Tasks
  <2>2. \A s : Holds(s)' <=> Holds(s)
    BY <1>2 DEF vars, Holds
  <2>3. ExactInv(counters)'
    BY <1>2, <2>2, HoldersKept DEF vars
  <2>4. SubInv' /\ CountersFor(Tasks, registry, counters)'
    BY <1>2, <2>1 DEF vars, Use, SubInv, CountersFor, IdsIn, Range
  <2> QED BY <2>3, <2>4 DEF Use
<1>3. ASSUME NEW q \in Requests, Resolve(q) PROVE Use'
  BY <1>3, ResolveUse
<1>4. ASSUME NEW u \in Updates, UpdateCall(u) PROVE Use'
  BY <1>4, UpdateCallUse
<1>5. ASSUME NEW t \in Tasks, \/ LockGranted(t) \/ BackendLoad(t) \/ LoadAnswered(t)
                              \/ Drained(t) \/ BackendUnload(t) \/ UnloadAnswered(t)
      PROVE  Use'
  BY <1>5, LockGrantedUse, BackendUse, LoadAnsweredUse, DrainedUse, UnloadAnsweredUse
<1>6. ASSUME RequestStep PROVE Use'
  BY <1>6, RequestUse
<1> QED BY <1>2, <1>3, <1>4, <1>5, <1>6, Zenon DEF Next, Begin, Internal, RequestStep

LEMMA UseHolds == Spec => []UseInv
<1>1. Init => UseInv
  BY InitUse DEF UseInv
<1>2. Inv /\ UseInv /\ [Next]_vars => UseInv'
  BY StepUse
<1> QED BY <1>1, <1>2, InvHolds, PTL DEF Spec

\* acquire and release balance for single names and the endings that release once: each
\* usage counter is the number of requests that hold the adapter, and it exists exactly
\* while the adapter is registered or drains.
THEOREM CountersBalance == Spec => []CountersExact
<1>1. UseInv => CountersExact
  BY Zenon DEF UseInv, Use, CountersFor, ExactInv, Holders, Holds, CountersExact
<1> QED BY <1>1, UseHolds, PTL

\* wait_for_unload: the scheduler has the adapter of every request that may still run,
\* however loads, evictions, unloads and reloads interleave with it.
THEOREM UsedIsLoaded == Spec => []UsedAdapterLoaded
<1>1. Inv /\ UseInv => UsedAdapterLoaded
  <2> SUFFICES ASSUME Inv, Use, NEW s \in Subs, Uses(s) PROVE ids[s] \in IdsIn(loaded)
    BY DEF UseInv, UsedAdapterLoaded
  <2>1. Holds(s)
    BY DEF Uses, Holds, Use, SubInv
  <2>2. ids[s] \in IdsIn(Range(registry)) \cup {op[t].id : t \in {u \in Tasks : pc[u] = "draining"}}
    BY <2>1 DEF Use, ExactInv, CountersFor
  <2>3. CASE ids[s] \in IdsIn(Range(registry))
    BY <2>3 DEF IdsIn, Range, Inv, RegistryInv
  <2>4. CASE ids[s] \in {op[t].id : t \in {u \in Tasks : pc[u] = "draining"}}
    <3>1. PICK t \in Tasks : pc[t] = "draining" /\ ids[s] = op[t].id
      BY <2>4
    <3>2. Owes(t)
      BY <3>1 DEF Owes
    <3>3. PICK ref \in loaded : ref.id = op[t].id
      BY <3>2, Zenon DEF Inv, RegistryInv
    <3> QED BY <3>1, <3>3 DEF IdsIn
  <2> QED BY <2>2, <2>3, <2>4
<1> QED BY <1>1, InvHolds, UseHolds, PTL
=============================================================================
