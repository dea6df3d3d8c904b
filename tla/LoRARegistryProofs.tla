-------------------------- MODULE LoRARegistryProofs --------------------------
(* What the LoRA registry promises, for any number of requests, updates,   *)
(* adapters and limits: the registry and the scheduler agree, the limits   *)
(* are kept, and a reloaded adapter is found.                              *)
EXTENDS LoRARegistry, FiniteSetTheorems, TLAPS

-----------------------------------------------------------------------------
(* the inductive invariant                                                 *)

\* Places of the task that runs a load or an unload; it holds lora_update_lock.
Active == {"loading", "answered", "draining", "unloading", "unloaded"}

\* The scheduler has one adapter more than the registry: it has loaded it and the
\* answer is under way, or it was unregistered and the unload has not arrived.
Owes(t) == \/ pc[t] \in {"draining", "unloading"}
           \/ pc[t] = "answered" /\ op[t].res = "ok"

\* The tasks T and the queue l of lora_update_lock: the one that is active heads it,
\* those that wait are in it.
LockInv(T, l) ==
  /\ l \in Seq(Tasks)
  /\ \A t \in T : /\ pc[t] \in Active => l # <<>> /\ l[1] = t
                  /\ pc[t] = "lock" => \E k \in DOMAIN l : l[k] = t

\* The scheduler's adapters have names and identifiers of their own, and few are pinned.
LoadedInv ==
  /\ IsFiniteSet(loaded) /\ next_id \in Nat \ {0}
  /\ \A ref \in loaded : ref.id \in 1 .. next_id - 1
  /\ \A r1, r2 \in loaded : r1.name = r2.name \/ r1.id = r2.id => r1 = r2
  /\ Cardinality({ref \in loaded : ref.name \in Pinned}) <= MaxPinned

\* The scheduler's adapters are those of the registry, or one more that a task of T owes.
RegistryInv(T, reg) ==
  /\ reg \in Seq(loaded) /\ IsInjective(reg) /\ Len(reg) <= MaxLoaded
  /\ (\A t \in T : ~Owes(t)) => Range(reg) = loaded
  /\ \A t \in T : Owes(t) =>
       \E ref \in loaded \ Range(reg) :
         /\ ref.id = op[t].id /\ loaded = Range(reg) \cup {ref}
         /\ pc[t] = "answered" => ref = [name |-> op[t].name, id |-> op[t].id]

\* What the tasks of T have under way.  The adapter of a load that succeeded, or that
\* found it there, is registered; a single name has nothing left to reload.
OpInv(T, reg) ==
  \A t \in T :
    /\ pc[t] = "loading" => op[t].id \in (1 .. next_id - 1) \ IdsIn(loaded)
    /\ pc[t] = "answered" => /\ op[t].res \in {"ok", "already", "error"}
                             /\ op[t].res = "already" => op[t].name \in NamesIn(reg)
    /\ pc[t] \in {"draining", "unloading", "unloaded"} /\ KindOf(t) = "load" =>
         op[t].name \in NamesIn(reg)
    /\ t \in Requests \ Batch /\ (pc[t] \in Active \/ pc[t] = "lock") =>
         todo[t] = {} /\ op[t].name = Path[t][1]
    /\ t \in Requests \ Batch => pc[t] # "gone"

Shape ==
  /\ scenario \in Scenarios
  /\ DOMAIN pc = Tasks /\ DOMAIN op = Tasks /\ DOMAIN todo = Requests

Inv == /\ Shape /\ LoadedInv
       /\ LockInv(Tasks, lora_update_lock)
       /\ RegistryInv(Tasks, registry)
       /\ OpInv(Tasks, registry)

-----------------------------------------------------------------------------
(* the operations on the registry's order                                  *)

\* The limits on adapters.
LEMMA Limits == MaxLoaded \in Nat /\ MaxPinned \in Nat /\ MaxPinned < MaxLoaded
BY LoRAAssumption, Zenon

LEMMA LengthFacts == ASSUME NEW S, NEW s \in Seq(S) PROVE Len(s) \in Nat /\ DOMAIN s = 1 .. Len(s)
OBVIOUS

LEMMA AboveLimit ==
  ASSUME NEW n \in Nat
  PROVE  /\ n <= MaxLoaded + 1 => n - 1 <= MaxLoaded
         /\ ~(n <= MaxLoaded) => n > MaxLoaded /\ n \in 1 .. n
BY Limits

\* Lookups only change the order of the adapters.
LEMMA LookedUpFacts ==
  ASSUME NEW S, NEW reg \in Seq(S), NEW names, NEW s \in LookedUp(reg, names)
  PROVE  s \in Seq(S) /\ Len(s) = Len(reg) /\ Range(s) = Range(reg) /\ IsInjective(s)
<1>1. /\ s \in [1 .. Len(reg) -> Range(reg)] /\ IsInjective(s)
      /\ \A x \in Range(reg) : \E i \in 1 .. Len(reg) : s[i] = x
  BY DEF LookedUp, Bijection, Injection, Surjection
<1>2. Range(reg) \subseteq S
  BY DEF Range
<1>3. s \in [1 .. Len(reg) -> S] /\ Len(reg) \in Nat
  BY <1>1, <1>2
<1>4. s \in Seq(S) /\ Len(s) = Len(reg)
  BY <1>3
<1>5. Range(s) = Range(reg)
  BY <1>1 DEF Range
<1> QED BY <1>1, <1>4, <1>5

\* del takes one adapter out.
LEMMA RemoveAtFacts ==
  ASSUME NEW S, NEW reg \in Seq(S), IsInjective(reg), NEW k \in DOMAIN reg
  PROVE  /\ RemoveAt(reg, k) \in Seq(S) /\ Len(RemoveAt(reg, k)) = Len(reg) - 1
         /\ Range(RemoveAt(reg, k)) = Range(reg) \ {reg[k]} /\ IsInjective(RemoveAt(reg, k))
<1> DEFINE n == Len(reg)
           s == RemoveAt(reg, k)
<1>1. n \in Nat \ {0} /\ DOMAIN reg = 1 .. n /\ k \in 1 .. n /\ \A i \in 1 .. n : reg[i] \in S
  OBVIOUS
<1>2. s = [i \in 1 .. n - 1 |-> IF i < k THEN reg[i] ELSE reg[i + 1]]
  BY DEF RemoveAt
<1>3. s \in [1 .. n - 1 -> S] /\ n - 1 \in Nat
  BY <1>1, <1>2
<1>4. s \in Seq(S) /\ Len(s) = n - 1
  BY <1>3
<1>5. \A i, j \in 1 .. n : reg[i] = reg[j] => i = j
  BY <1>1 DEF IsInjective
<1>6. IsInjective(s)
  BY <1>1, <1>2, <1>5 DEF IsInjective
<1>7. Range(s) = Range(reg) \ {reg[k]}
  <2>1. ASSUME NEW i \in 1 .. n - 1 PROVE s[i] \in Range(reg) \ {reg[k]}
    BY <1>1, <1>2, <1>5 DEF Range
  <2>2. ASSUME NEW i \in 1 .. n, i # k PROVE reg[i] \in Range(s)
    <3>1. CASE i < k
      <4>1. i \in 1 .. n - 1 /\ s[i] = reg[i]
        BY <1>1, <1>2, <3>1
      <4> QED BY <1>2, <4>1 DEF Range
    <3>2. CASE i > k
      <4>1. i - 1 \in 1 .. n - 1 /\ s[i - 1] = reg[i]
        BY <1>1, <1>2, <3>2
      <4> QED BY <1>2, <4>1 DEF Range
    <3> QED BY <1>1, <2>2, <3>1, <3>2
  <2> QED BY <1>1, <1>2, <2>1, <2>2, ZenonT(40) DEF Range
<1> QED BY <1>4, <1>6, <1>7

\* register puts one at the end.
LEMMA AppendFacts ==
  ASSUME NEW S, NEW reg \in Seq(S), IsInjective(reg), NEW ref \in S, ref \notin Range(reg)
  PROVE  /\ Append(reg, ref) \in Seq(S) /\ Len(Append(reg, ref)) = Len(reg) + 1
         /\ Range(Append(reg, ref)) = Range(reg) \cup {ref} /\ IsInjective(Append(reg, ref))
         /\ Append(reg, ref)[Len(reg) + 1] = ref
<1> DEFINE n == Len(reg)
           s == Append(reg, ref)
<1>1. n \in Nat /\ DOMAIN reg = 1 .. n
  OBVIOUS
<1>2. /\ s \in Seq(S) /\ Len(s) = n + 1 /\ DOMAIN s = 1 .. n + 1
      /\ \A i \in 1 .. n : s[i] = reg[i]
      /\ s[n + 1] = ref
  OBVIOUS
<1>3. \A i \in 1 .. n + 1 : i \in 1 .. n \/ i = n + 1
  BY <1>1
<1>4. n + 1 \in 1 .. n + 1 /\ \A i \in 1 .. n : i \in 1 .. n + 1
  BY <1>1
<1> HIDE DEF n, s
<1>5. Range(s) = Range(reg) \cup {ref}
  BY <1>1, <1>2, <1>3, <1>4 DEF Range
<1>6. IsInjective(s)
  BY <1>1, <1>2, <1>3, <1>4 DEF Range, IsInjective
<1> QED BY <1>2, <1>5, <1>6 DEF n, s

\* A set of numbers has a least element.
LEMMA Least ==
  ASSUME NEW K \in SUBSET Nat, K # {}
  PROVE  \E k \in K : \A j \in K : k <= j
<1> DEFINE R == OpToRel(<, Nat)
<1>1. IsWellFoundedOn(R, Nat)
  BY NatLessThanWellFounded, Zenon
<1>2. \E k \in K : \A j \in K : ~(<<j, k>> \in R)
  <2> HIDE DEF R
  <2> QED BY <1>1, WFMin, Zenon
<1>3. \A i, j \in Nat : i < j => <<i, j>> \in R
  BY DEF OpToRel
<1>4. \A i, j \in Nat : i <= j \/ j < i
  OBVIOUS
<1> HIDE DEF R
<1> QED BY <1>2, <1>3, <1>4, Zenon

\* The eviction loop finds a victim, and it is not the adapter that was just loaded:
\* fewer adapters are pinned than the limit allows to be loaded.
LEMMA EvictFacts ==
  ASSUME LoadedInv, NEW reg \in Seq(loaded), IsInjective(reg), Len(reg) > MaxLoaded
  PROVE  /\ LruName(reg) # {} /\ LruName(reg) \subseteq NamesIn(reg)
         /\ reg[Len(reg)].name \notin LruName(reg)
<1> DEFINE n == Len(reg)
           U == {k \in DOMAIN reg : reg[k].name \notin Pinned}
           P == {ref \in loaded : ref.name \in Pinned}
<1>1. n \in Nat \ {0} /\ DOMAIN reg = 1 .. n /\ \A k \in 1 .. n : reg[k] \in loaded
  BY Limits
<1>2. U \in SUBSET Nat
  BY <1>1
<1>3. \E k \in U : k # n
  <2> SUFFICES ASSUME \A k \in 1 .. n - 1 : reg[k].name \in Pinned PROVE FALSE
    BY <1>1
  <2> DEFINE f == [k \in 1 .. n - 1 |-> reg[k]]
  <2>1. f \in [1 .. n - 1 -> P] /\ \A i, j \in 1 .. n - 1 : f[i] = f[j] => i = j
    BY <1>1 DEF IsInjective
  <2>2. f \in Injection(1 .. n - 1, P)
    BY <2>1 DEF Injection, IsInjective
  <2>3. IsFiniteSet(P) /\ Cardinality(P) <= MaxPinned
    BY FS_Subset DEF LoadedInv
  <2>4. Cardinality(1 .. n - 1) <= Cardinality(P)
    <3> HIDE DEF f, P
    <3> QED BY <2>2, <2>3, FS_Injection
  <2>5. Cardinality(1 .. n - 1) = n - 1
    BY <1>1, FS_Interval
  <2>6. Cardinality(P) \in Nat
    BY <2>3, FS_CardinalityType
  <2> QED BY <1>1, <2>3, <2>4, <2>5, <2>6, Limits
<1>4. \E k \in U : \A j \in U : k <= j
  <2> HIDE DEF U
  <2> QED BY <1>2, <1>3, Least
<1>5. \A k \in DOMAIN reg : reg[k].name = reg[n].name => k = n
  BY <1>1 DEF LoadedInv, IsInjective
<1>6. LruName(reg) = {reg[k].name : k \in {i \in U : \A j \in U : i <= j}}
  BY Zenon DEF LruName
<1>7. LruName(reg) # {} /\ LruName(reg) \subseteq NamesIn(reg)
  BY <1>4, <1>6 DEF NamesIn, Range
<1>8. ASSUME NEW k \in U, \A j \in U : k <= j PROVE reg[k].name # reg[n].name
  BY <1>1, <1>3, <1>5, <1>8
<1> QED BY <1>6, <1>7, <1>8

-----------------------------------------------------------------------------
(* the invariant of everything but a task that is in the middle of a step  *)

BaseInv(q, l, reg) ==
  /\ Shape /\ LoadedInv /\ LockInv(Tasks \ {q}, l)
  /\ RegistryInv(Tasks \ {q}, reg) /\ OpInv(Tasks \ {q}, reg)

\* What the step of task q leaves of the others.
OthersKept(q) ==
  /\ UNCHANGED <<scenario, loaded>>
  /\ DOMAIN pc' = Tasks /\ DOMAIN op' = Tasks /\ DOMAIN todo' = Requests
  /\ \A t \in Tasks \ {q} : pc'[t] = pc[t] /\ op'[t] = op[t] /\ (t \in Requests => todo'[t] = todo[t])
  /\ next_id' \in Nat /\ next_id <= next_id'

\* A task that ends its step owing nothing completes the invariant.
LEMMA CompleteInv ==
  ASSUME NEW q \in Tasks, NEW l, NEW reg, BaseInv(q, l, reg), OthersKept(q),
         registry' \in Seq(loaded), IsInjective(registry'), Len(registry') = Len(reg),
         Range(registry') = Range(reg),
         ~Owes(q)', LockInv(Tasks, lora_update_lock)', OpInv({q}, registry)'
  PROVE  Inv'
<1>1. DOMAIN pc = Tasks /\ DOMAIN pc' = Tasks /\ \A t \in Tasks \ {q} : pc'[t] = pc[t]
  BY Zenon DEF OthersKept, BaseInv, Shape
<1>2. \A t \in Tasks \ {q} : op'[t] = op[t] /\ (t \in Requests => todo'[t] = todo[t])
  BY Zenon DEF OthersKept
<1>3. UNCHANGED <<scenario, loaded>> /\ next_id' \in Nat /\ next_id <= next_id' /\ next_id \in Nat \ {0}
  BY Zenon DEF OthersKept, BaseInv, LoadedInv
<1>4. Shape'
  BY <1>1, <1>3, Zenon DEF OthersKept, BaseInv, Shape, Tasks
<1>5. LoadedInv'
  BY <1>3 DEF BaseInv, LoadedInv
<1>6. \A t \in Tasks \ {q} : Owes(t)' <=> Owes(t)
  BY <1>1, <1>2, Zenon DEF Owes
<1>7. RegistryInv(Tasks, registry)'
  <2>1. registry' \in Seq(loaded') /\ IsInjective(registry)' /\ (Len(registry) <= MaxLoaded)'
    BY <1>3 DEF BaseInv, RegistryInv, IsInjective
  <2>2. Range(registry)' = Range(reg)
    BY Zenon DEF Range
  <2>3. (\A t \in Tasks : ~Owes(t))' => Range(registry)' = loaded'
    BY <1>3, <1>6, <2>2, Zenon DEF BaseInv, RegistryInv
  <2>4. ASSUME NEW t \in Tasks, Owes(t)'
        PROVE  \E ref \in loaded' \ Range(registry)' :
                 /\ ref.id = op'[t].id /\ loaded' = Range(registry)' \cup {ref}
                 /\ pc'[t] = "answered" => ref = [name |-> op'[t].name, id |-> op'[t].id]
    <3>1. t \in Tasks \ {q} /\ Owes(t)
      BY <1>6, <2>4
    <3> QED BY <1>1, <1>2, <1>3, <2>2, <3>1, Zenon DEF BaseInv, RegistryInv
  <2> QED BY <2>1, <2>3, <2>4, Zenon DEF RegistryInv
<1>8. OpInv(Tasks, registry)'
  <2>1. NamesIn(registry)' = NamesIn(reg) /\ IdsIn(loaded)' = IdsIn(loaded) /\ Batch' = Batch /\ Path' = Path
    BY <1>3, Zenon DEF NamesIn, Range, IdsIn, Batch, Path
  <2>2. 1 .. next_id - 1 \subseteq 1 .. next_id' - 1
    <3>1. \A a, b \in Nat : a <= b => 1 .. a - 1 \subseteq 1 .. b - 1
      OBVIOUS
    <3> QED BY <1>3, <3>1, Zenon
  <2>3. ASSUME NEW t \in Tasks \ {q}
        PROVE  /\ pc'[t] = "loading" => op'[t].id \in (1 .. next_id' - 1) \ IdsIn(loaded)'
               /\ pc'[t] = "answered" => /\ op'[t].res \in {"ok", "already", "error"}
                                         /\ op'[t].res = "already" => op'[t].name \in NamesIn(registry)'
               /\ pc'[t] \in {"draining", "unloading", "unloaded"} /\ KindOf(t) = "load" =>
                    op'[t].name \in NamesIn(registry)'
               /\ t \in Requests \ Batch' /\ (pc'[t] \in Active \/ pc'[t] = "lock") =>
                    todo'[t] = {} /\ op'[t].name = Path'[t][1]
               /\ t \in Requests \ Batch' => pc'[t] # "gone"
    <3>1. OpInv(Tasks \ {q}, reg)
      BY <1>1, Zenon DEF BaseInv
    <3>2. pc'[t] = pc[t] /\ op'[t] = op[t] /\ (t \in Requests => todo'[t] = todo[t])
      BY <1>1, <1>2, Zenon
    <3> QED BY <2>1, <2>2, <3>1, <3>2, Zenon DEF OpInv
  <2>4. OpInv(Tasks \ {q}, registry)'
    BY <2>3, Zenon DEF OpInv, KindOf
  <2> QED BY <2>4, Zenon DEF OpInv
<1> QED BY <1>4, <1>5, <1>7, <1>8 DEF Inv

\* A task that is done with the lock, or never had it, disturbs nobody's place in it.
LEMMA LeaveInv ==
  ASSUME NEW q \in Tasks, NEW l, NEW reg, BaseInv(q, l, reg), UNCHANGED <<scenario, loaded>>,
         NEW p \in {"gone", "gather", "acquired", "refused", "done"},
         pc' = [pc EXCEPT ![q] = p], lora_update_lock' = l, UNCHANGED <<op, next_id>>,
         DOMAIN todo' = Requests, \A t \in Requests \ {q} : todo'[t] = todo[t],
         registry' \in Seq(loaded), IsInjective(registry'), Len(registry') = Len(reg),
         Range(registry') = Range(reg), q \in Requests \ Batch => p # "gone"
  PROVE  Inv'
<1>0. /\ DOMAIN pc = Tasks /\ DOMAIN op = Tasks /\ next_id \in Nat /\ next_id <= next_id
      /\ l \in Seq(Tasks)
  BY DEF BaseInv, Shape, LoadedInv, LockInv
<1>1. \A t \in Tasks \ {q} : /\ pc[t] \in Active => l # <<>> /\ l[1] = t
                             /\ pc[t] = "lock" => \E k \in DOMAIN l : l[k] = t
  BY Zenon DEF BaseInv, LockInv
<1>2. pc'[q] = p /\ DOMAIN pc' = Tasks /\ \A t \in Tasks \ {q} : pc'[t] = pc[t]
  BY <1>0
<1>3. p \notin Active /\ p \notin {"lock", "draining", "unloading", "unloaded", "answered", "loading"}
  BY DEF Active
<1>4. Tasks' = Tasks
  BY DEF Tasks
<1>5. LockInv(Tasks, lora_update_lock)'
  BY <1>0, <1>1, <1>2, <1>3, <1>4, Zenon DEF LockInv
<1>6. ~Owes(q)'
  BY <1>2, <1>3, Zenon DEF Owes
<1>7. OpInv({q}, registry)'
  BY <1>2, <1>3 DEF OpInv, Batch
<1>8. OthersKept(q)
  BY <1>0, <1>2, Zenon DEF OthersKept
<1> QED BY <1>5, <1>6, <1>7, <1>8, CompleteInv

\* A task queues up for lora_update_lock.
LEMMA QueueUp ==
  ASSUME NEW S, NEW l \in Seq(S), NEW q \in S
  PROVE  /\ Append(l, q) \in Seq(S) /\ Append(l, q) # <<>>
         /\ Append(l, q)[1] = IF l = <<>> THEN q ELSE l[1]
         /\ \A k \in DOMAIN l : k \in DOMAIN Append(l, q) /\ Append(l, q)[k] = l[k]
         /\ \E k \in DOMAIN Append(l, q) : Append(l, q)[k] = q
<1> DEFINE n == Len(l)
           s == Append(l, q)
<1>1. n \in Nat /\ DOMAIN l = 1 .. n /\ (l = <<>> <=> n = 0)
  OBVIOUS
<1>2. /\ s \in Seq(S) /\ DOMAIN s = 1 .. n + 1 /\ s[n + 1] = q
      /\ \A k \in 1 .. n : s[k] = l[k]
  OBVIOUS
<1>3. s # <<>> /\ n + 1 \in DOMAIN s
  BY <1>1, <1>2
<1> HIDE DEF n, s
<1>4. s[1] = IF l = <<>> THEN q ELSE l[1]
  BY <1>1, <1>2
<1>5. \A k \in DOMAIN l : k \in DOMAIN s /\ s[k] = l[k]
  BY <1>1, <1>2
<1> QED BY <1>2, <1>3, <1>4, <1>5 DEF s

\* A single name that is not missing is found.
SingleName(q, reg, missing) ==
  q \notin Batch => missing \subseteq {Path[q][1]} /\ (missing = {} => Path[q][1] \in NamesIn(reg))

\* _resolve_lora_path from the head of its loop.
LEMMA ReloadInv ==
  ASSUME NEW q \in Requests, NEW l, NEW reg, NEW cnt, NEW missing,
         BaseInv(q, l, reg), SingleName(q, reg, missing),
         ReloadOrAcquire(q, l, reg, cnt, missing), UNCHANGED <<scenario, loaded>>
  PROVE  Inv'
<1>0. /\ q \in Tasks /\ DOMAIN pc = Tasks /\ DOMAIN op = Tasks /\ DOMAIN todo = Requests
      /\ scenario \in Scenarios /\ next_id \in Nat \ {0}
      /\ l \in Seq(Tasks) /\ reg \in Seq(loaded) /\ IsInjective(reg)
  BY DEF BaseInv, Shape, LoadedInv, LockInv, RegistryInv, Tasks
<1>1. \A t \in Tasks \ {q} : /\ pc[t] \in Active => l # <<>> /\ l[1] = t
                             /\ pc[t] = "lock" => \E k \in DOMAIN l : l[k] = t
  BY Zenon DEF BaseInv, LockInv
<1>3. CASE missing = {}
  <2>1. Acquire(q, reg, cnt) /\ lora_update_lock' = l /\ UNCHANGED <<op, next_id, todo>>
    BY <1>3, Zenon DEF ReloadOrAcquire
  <2>2. /\ \E names : registry' \in LookedUp(reg, names)
        /\ \E p \in {"gone", "gather", "acquired"} :
             /\ pc' = [pc EXCEPT ![q] = p]
             /\ p = "gone" => \E k \in DOMAIN Path[q] : Path[q][k] \notin NamesIn(reg)
    BY <2>1 DEF Acquire
  <2>3. PICK p \in {"gone", "gather", "acquired"} :
          /\ pc' = [pc EXCEPT ![q] = p]
          /\ p = "gone" => \E k \in DOMAIN Path[q] : Path[q][k] \notin NamesIn(reg)
    BY <2>2, Zenon
  <2>4. /\ registry' \in Seq(loaded) /\ IsInjective(registry') /\ Len(registry') = Len(reg)
        /\ Range(registry') = Range(reg)
    BY <1>0, <2>2, LookedUpFacts
  <2>5. q \notin Batch => p # "gone"
    <3> SUFFICES ASSUME q \notin Batch, NEW k \in DOMAIN Path[q], Path[q][k] \notin NamesIn(reg)
                 PROVE  FALSE
      BY <2>3
    <3>1. Path[q] \in Seq(Range(Path[q])) /\ Len(Path[q]) = 1
      BY <1>0, LoRAAssumption DEF Path, Batch
    <3>2. k = 1
      BY <3>1
    <3> QED BY <1>3, <3>2 DEF SingleName
  <2> QED BY <1>0, <2>1, <2>3, <2>4, <2>5, LeaveInv, Zenon
<1>4. CASE missing # {}
  <2>1. PICK n \in missing :
          /\ registry' = reg /\ todo' = [todo EXCEPT ![q] = missing \ {n}]
          /\ \/ LoadCall(q, n, l)
             \/ /\ pc' = [pc EXCEPT ![q] = "refused"]
                /\ lora_update_lock' = l /\ UNCHANGED <<op, next_id>>
    BY <1>4, Zenon DEF ReloadOrAcquire
  <2>2. q \notin Batch => todo'[q] = {} /\ n = Path[q][1]
    BY <1>0, <2>1 DEF SingleName
  <2>3. CASE pc' = [pc EXCEPT ![q] = "refused"] /\ lora_update_lock' = l /\ UNCHANGED <<op, next_id>>
    BY <1>0, <2>1, <2>3, LeaveInv, Zenon
  <2>4. CASE LoadCall(q, n, l) /\ l = <<>>
    <3>1. /\ lora_update_lock' = Append(l, q) /\ pc' = [pc EXCEPT ![q] = "loading"]
          /\ op' = [op EXCEPT ![q] = [name |-> n, id |-> next_id, res |-> ""]]
          /\ next_id' = next_id + 1
      BY <2>4, Zenon DEF LoadCall, BeginLoad
    <3>2. OthersKept(q)
      <4>1. next_id + 1 \in Nat /\ next_id <= next_id + 1
        BY <1>0
      <4> QED BY <1>0, <2>1, <3>1, <4>1, Zenon DEF OthersKept
    <3>3. LockInv(Tasks, lora_update_lock)'
      <4>0. Len(l) = 0 /\ DOMAIN l = {}
        BY <2>4
      <4>1. \A t \in Tasks \ {q} : pc'[t] \notin Active /\ pc'[t] # "lock"
        <5>1. \A t \in Tasks \ {q} : pc'[t] = pc[t]
          BY <1>0, <3>1, Zenon
        <5> QED BY <1>1, <2>4, <4>0, <5>1, Zenon
      <4>2. lora_update_lock' \in Seq(Tasks) /\ lora_update_lock' # <<>> /\ lora_update_lock'[1] = q
        <5>1. /\ Append(l, q) \in Seq(Tasks) /\ Append(l, q) # <<>>
              /\ Append(l, q)[1] = IF l = <<>> THEN q ELSE l[1]
          BY <1>0, QueueUp
        <5> QED BY <2>4, <3>1, <5>1, Zenon
      <4>3. pc'[q] # "lock"
        BY <1>0, <3>1, Zenon
      <4> QED BY <4>1, <4>2, <4>3 DEF LockInv, Tasks
    <3>4. next_id \in (1 .. next_id' - 1) \ IdsIn(loaded)
      <4>1. \A ref \in loaded : ref.id \in 1 .. next_id - 1
        BY DEF BaseInv, LoadedInv
      <4>2. next_id \in 1 .. (next_id + 1) - 1 /\ next_id \notin 1 .. next_id - 1
        BY <1>0
      <4> QED BY <3>1, <4>1, <4>2, Zenon DEF IdsIn
    <3>5. ~Owes(q)' /\ pc'[q] = "loading" /\ op'[q].id = next_id /\ op'[q].name = n
      BY <1>0, <3>1, Zenon DEF Owes
    <3>6. OpInv({q}, registry)'
      BY <2>2, <3>4, <3>5 DEF OpInv, Batch, Path, IdsIn
    <3> QED BY <1>0, <2>1, <3>2, <3>3, <3>5, <3>6, CompleteInv
  <2>5. CASE LoadCall(q, n, l) /\ l # <<>>
    <3>1. /\ lora_update_lock' = Append(l, q) /\ pc' = [pc EXCEPT ![q] = "lock"]
          /\ op' = [op EXCEPT ![q] = [NoOp EXCEPT !.name = n]] /\ next_id' = next_id
      BY <2>5 DEF LoadCall
    <3>2. OthersKept(q)
      BY <1>0, <2>1, <3>1 DEF OthersKept
    <3>3. LockInv(Tasks, lora_update_lock)'
      <4>1. /\ \A t \in Tasks \ {q} : pc'[t] = pc[t]
            /\ pc'[q] = "lock"
        BY <1>0, <3>1
      <4>2. /\ lora_update_lock' \in Seq(Tasks) /\ lora_update_lock' # <<>>
            /\ lora_update_lock'[1] = l[1]
            /\ \A k \in DOMAIN l : k \in DOMAIN lora_update_lock' /\ lora_update_lock'[k] = l[k]
            /\ \E k \in DOMAIN lora_update_lock' : lora_update_lock'[k] = q
        BY <1>0, <2>5, <3>1, QueueUp
      <4>3. "lock" \notin Active
        BY DEF Active
      <4>4. Tasks' = Tasks
        BY DEF Tasks
      <4>5. \A t \in Tasks : /\ pc'[t] \in Active => lora_update_lock' # <<>> /\ lora_update_lock'[1] = t
                             /\ pc'[t] = "lock" => \E k \in DOMAIN lora_update_lock' : lora_update_lock'[k] = t
        <5>1. pc'[q] \notin Active
          BY <4>1, <4>3
        <5>2. ASSUME NEW t \in Tasks \ {q}
              PROVE  /\ pc'[t] \in Active => lora_update_lock' # <<>> /\ lora_update_lock'[1] = t
                     /\ pc'[t] = "lock" => \E k \in DOMAIN lora_update_lock' : lora_update_lock'[k] = t
          BY <1>1, <4>1, <4>2, Zenon
        <5> QED BY <4>2, <5>1, <5>2, Zenon
      <4> QED BY <4>2, <4>4, <4>5, Zenon DEF LockInv
    <3>4. ~Owes(q)' /\ pc'[q] = "lock" /\ op'[q].name = n
      BY <1>0, <3>1, Zenon DEF Owes, NoOp
    <3>5. OpInv({q}, registry)'
      BY <2>2, <3>4 DEF OpInv, Batch, Path
    <3> QED BY <1>0, <2>1, <3>2, <3>3, <3>4, <3>5, CompleteInv
  <2> QED BY <2>1, <2>3, <2>4, <2>5
<1> QED BY <1>3, <1>4

\* The task that runs a load or an unload heads the queue and is the only one.
LEMMA Holder ==
  ASSUME Inv, NEW t \in Tasks, pc[t] \in Active
  PROVE  /\ lora_update_lock \in Seq(Tasks) /\ lora_update_lock # <<>> /\ lora_update_lock[1] = t
         /\ \A u \in Tasks \ {t} : pc[u] \notin Active /\ ~Owes(u)
         /\ LockInv(Tasks \ {t}, Tail(lora_update_lock))
<1> DEFINE l == lora_update_lock
<1>1. l \in Seq(Tasks) /\ l # <<>> /\ l[1] = t /\ \A u \in Tasks \ {t} : pc[u] \notin Active
  BY DEF Inv, LockInv
<1>2. \A u \in Tasks \ {t} : ~Owes(u)
  BY <1>1 DEF Owes, Active
<1>3. Tail(l) \in Seq(Tasks) /\ \A k \in DOMAIN l : k # 1 => k - 1 \in DOMAIN Tail(l) /\ Tail(l)[k - 1] = l[k]
  BY <1>1
<1>4. ASSUME NEW u \in Tasks \ {t}, pc[u] = "lock" PROVE \E k \in DOMAIN Tail(l) : Tail(l)[k] = u
  <2>1. PICK k \in DOMAIN l : l[k] = u
    BY <1>4 DEF Inv, LockInv
  <2> HIDE DEF l
  <2> QED BY <1>1, <1>3, <2>1, Zenon
<1> QED BY <1>1, <1>2, <1>3, <1>4, Zenon DEF LockInv

\* With that task in the middle of its step, and a registry that has what the
\* scheduler has, everybody else is in order.
LEMMA HolderBase ==
  ASSUME Inv, NEW t \in Tasks, pc[t] \in Active, NEW reg \in Seq(loaded), IsInjective(reg),
         Len(reg) <= MaxLoaded, Range(reg) = loaded
  PROVE  BaseInv(t, Tail(lora_update_lock), reg)
<1>1. /\ \A u \in Tasks \ {t} : pc[u] \notin Active /\ ~Owes(u)
      /\ LockInv(Tasks \ {t}, Tail(lora_update_lock))
  BY Holder, Zenon
<1>2. RegistryInv(Tasks \ {t}, reg)
  BY <1>1, Zenon DEF RegistryInv
<1>3. OpInv(Tasks \ {t}, reg)
  <2>1. \A u \in Tasks \ {t} : pc[u] \notin {"loading", "answered", "draining", "unloading", "unloaded"}
    BY <1>1 DEF Active
  <2> QED BY <2>1 DEF Inv, OpInv
<1> QED BY <1>1, <1>2, <1>3 DEF Inv, BaseInv

\* The end of a load or an unload.
LEMMA ReturnInv ==
  ASSUME NEW t \in Tasks, NEW reg, NEW cnt, NEW res, BaseInv(t, Tail(lora_update_lock), reg),
         t \in Requests \ Batch /\ res # "error" => todo[t] = {} /\ Path[t][1] \in NamesIn(reg),
         Return(t, reg, cnt, res), UNCHANGED <<scenario, loaded>>
  PROVE  Inv'
<1>1. CASE t \in Requests /\ res # "error"
  <2>1. ReloadOrAcquire(t, Tail(lora_update_lock), reg, cnt, todo[t])
    BY <1>1, Zenon DEF Return
  <2>2. SingleName(t, reg, todo[t])
    BY <1>1 DEF SingleName
  <2> QED BY <1>1, <2>1, <2>2, ReloadInv, Zenon
<1>2. CASE ~(t \in Requests /\ res # "error")
  <2>1. /\ lora_update_lock' = Tail(lora_update_lock) /\ registry' = reg
        /\ pc' = [pc EXCEPT ![t] = IF t \in Requests THEN "refused" ELSE "done"]
        /\ UNCHANGED <<op, next_id, todo>>
    BY <1>2, Zenon DEF Return
  <2>2. PICK p \in {"refused", "done"} : pc' = [pc EXCEPT ![t] = p]
    BY <2>1, Zenon
  <2>3. DOMAIN todo = Requests /\ reg \in Seq(loaded) /\ IsInjective(reg)
    BY DEF BaseInv, Shape, RegistryInv
  <2> QED BY <2>1, <2>2, <2>3, LeaveInv, Zenon
<1> QED BY <1>1, <1>2

\* unregister: the scheduler is left with one adapter more.
LEMMA UnregisterInv ==
  ASSUME NEW t \in Tasks, Shape, LoadedInv, OpInv(Tasks \ {t}, registry),
         \A u \in Tasks \ {t} : pc[u] \notin Active,
         NEW reg \in Seq(loaded), IsInjective(reg), Len(reg) <= MaxLoaded + 1, Range(reg) = loaded,
         NEW cnt, NEW n, NEW res, Unregister(t, reg, cnt, n, res),
         UNCHANGED <<scenario, loaded, next_id, todo>>,
         LockInv(Tasks \ {t}, lora_update_lock'), lora_update_lock' # <<>>, lora_update_lock'[1] = t,
         KindOf(t) = "load" => op[t].name \in NamesIn(reg) \ {n},
         t \in Requests \ Batch => todo[t] = {} /\ op[t].name = Path[t][1]
  PROVE  Inv'
<1>1. PICK k \in DOMAIN reg :
        /\ reg[k].name = n /\ registry' = RemoveAt(reg, k)
        /\ op' = [op EXCEPT ![t] = [name |-> @.name, id |-> reg[k].id, res |-> res]]
        /\ Drain(t, cnt, reg[k].id)
  BY Zenon DEF Unregister
<1>2. PICK p \in {"draining", "unloading"} : pc' = [pc EXCEPT ![t] = p]
  BY <1>1 DEF Drain
<1>3. DOMAIN pc = Tasks /\ DOMAIN op = Tasks
  BY DEF Shape
<1>4. /\ DOMAIN pc' = Tasks /\ DOMAIN op' = Tasks /\ pc'[t] \in {"draining", "unloading"}
      /\ op'[t].id = reg[k].id /\ op'[t].name = op[t].name
      /\ \A u \in Tasks \ {t} : pc'[u] = pc[u] /\ op'[u] = op[u]
  BY <1>1, <1>2, <1>3
<1>5. /\ registry' \in Seq(loaded) /\ Len(registry') = Len(reg) - 1 /\ IsInjective(registry')
      /\ Range(registry') = Range(reg) \ {reg[k]}
  BY <1>1, RemoveAtFacts
<1>6. Len(registry') <= MaxLoaded
  BY <1>5, LengthFacts, AboveLimit, Zenon
<1>7. Tasks' = Tasks
  BY Zenon DEF Tasks
<1>8. reg[k] \in loaded
  BY DEF Range
<1>9. \A u \in Tasks \ {t} : ~Owes(u)'
  BY <1>4 DEF Owes, Active
<1>10. RegistryInv(Tasks, registry)'
  <2>1. Owes(t)'
    BY <1>4 DEF Owes
  <2>2. /\ reg[k] \in loaded \ Range(registry') /\ loaded = Range(registry') \cup {reg[k]}
        /\ pc'[t] # "answered"
    BY <1>4, <1>5, <1>8
  <2>3. \A u \in Tasks : Owes(u)' =>
          \E ref \in loaded \ Range(registry') :
            /\ ref.id = op'[u].id /\ loaded = Range(registry') \cup {ref}
            /\ pc'[u] = "answered" => ref = [name |-> op'[u].name, id |-> op'[u].id]
    BY <1>4, <1>9, <2>2, Zenon
  <2>4. Range(registry)' = Range(registry') /\ IsInjective(registry)' = IsInjective(registry') /\ loaded' = loaded
    BY DEF Range, IsInjective
  <2> QED BY <1>5, <1>6, <1>7, <2>1, <2>3, <2>4, Zenon DEF RegistryInv
<1>11. OpInv(Tasks, registry)'
  <2>1. KindOf(t) = "load" => op'[t].name \in NamesIn(registry)'
    <3> SUFFICES ASSUME KindOf(t) = "load" PROVE op'[t].name \in NamesIn(registry')
      BY Zenon DEF NamesIn, Range
    <3>1. PICK ref \in Range(reg) : ref.name = op[t].name
      BY DEF NamesIn
    <3>2. ref \in Range(registry')
      BY <1>1, <1>5, <3>1
    <3> QED BY <1>4, <3>1, <3>2, Zenon DEF NamesIn
  <2>2. \A u \in Tasks \ {t} : pc'[u] \notin {"loading", "answered", "draining", "unloading", "unloaded"}
    BY <1>4 DEF Active
  <2>3. Batch' = Batch /\ Path' = Path
    BY DEF Batch, Path
  <2>4. \A u \in Tasks \ {t} :
          /\ u \in Requests \ Batch /\ (pc[u] \in Active \/ pc[u] = "lock") =>
               todo[u] = {} /\ op[u].name = Path[u][1]
          /\ u \in Requests \ Batch => pc[u] # "gone"
    BY Zenon DEF OpInv
  <2>5. OpInv({t}, registry)'
    <3>1. /\ pc'[t] # "loading" /\ pc'[t] # "answered" /\ pc'[t] # "gone"
          /\ KindOf(t)' = KindOf(t)
      BY <1>4 DEF KindOf
    <3>2. t \in Requests \ Batch => todo'[t] = {} /\ op'[t].name = Path[t][1]
      BY <1>4
    <3> QED BY <2>1, <2>3, <3>1, <3>2, Zenon DEF OpInv
  <2>6. OpInv(Tasks \ {t}, registry)'
    <3>1. \A u \in Tasks \ {t} : /\ pc'[u] # "loading" /\ pc'[u] # "answered"
                                /\ pc'[u] \notin {"draining", "unloading", "unloaded"}
      BY <2>2
    <3>2. \A u \in Tasks \ {t} :
            /\ u \in Requests \ Batch /\ (pc'[u] \in Active \/ pc'[u] = "lock") =>
                 todo'[u] = {} /\ op'[u].name = Path[u][1]
            /\ u \in Requests \ Batch => pc'[u] # "gone"
      BY <1>4, <2>4, Zenon
    <3> QED BY <1>7, <2>3, <3>1, <3>2, Zenon DEF OpInv, Active
  <2> QED BY <1>7, <2>5, <2>6, Zenon DEF OpInv
<1>12. LockInv(Tasks, lora_update_lock)'
  <2>1. pc'[t] # "lock"
    BY <1>4, Zenon
  <2>2. /\ lora_update_lock' \in Seq(Tasks)
        /\ \A u \in Tasks \ {t} : pc[u] = "lock" => \E k1 \in DOMAIN lora_update_lock' : lora_update_lock'[k1] = u
    BY Zenon DEF LockInv
  <2>3. \A u \in Tasks : /\ pc'[u] \in Active => lora_update_lock' # <<>> /\ lora_update_lock'[1] = u
                         /\ pc'[u] = "lock" => \E k1 \in DOMAIN lora_update_lock' : lora_update_lock'[k1] = u
    BY <1>4, <2>1, <2>2, Zenon
  <2> QED BY <1>7, <2>2, <2>3, Zenon DEF LockInv
<1>13. Shape' /\ LoadedInv'
  BY <1>4, <1>7 DEF Shape, LoadedInv
<1> QED BY <1>10, <1>11, <1>12, <1>13 DEF Inv

\* A task that owes nothing can start a step with everybody else in order, whatever
\* the order of the registry.
LEMMA StepBase ==
  ASSUME Inv, NEW t \in Tasks, ~Owes(t), NEW l, LockInv(Tasks \ {t}, l),
         NEW reg \in Seq(loaded), IsInjective(reg), Len(reg) = Len(registry), Range(reg) = Range(registry)
  PROVE  BaseInv(t, l, reg)
<1>1. RegistryInv(Tasks \ {t}, reg)
  <2>1. (\A u \in Tasks \ {t} : ~Owes(u)) => Range(reg) = loaded
    BY Zenon DEF Inv, RegistryInv
  <2>2. \A u \in Tasks \ {t} : Owes(u) =>
          \E ref \in loaded \ Range(reg) :
            /\ ref.id = op[u].id /\ loaded = Range(reg) \cup {ref}
            /\ pc[u] = "answered" => ref = [name |-> op[u].name, id |-> op[u].id]
    BY Zenon DEF Inv, RegistryInv
  <2>3. Len(reg) <= MaxLoaded
    BY DEF Inv, RegistryInv
  <2> QED BY <2>1, <2>2, <2>3, Zenon DEF RegistryInv
<1>2. OpInv(Tasks \ {t}, reg)
  <2>1. NamesIn(reg) = NamesIn(registry)
    BY Zenon DEF NamesIn
  <2> QED BY <2>1, Zenon DEF Inv, OpInv
<1> QED BY <1>1, <1>2, Zenon DEF Inv, BaseInv

\* The head of the queue leaves it.
LEMMA TailLock ==
  ASSUME NEW t \in Tasks, NEW l, l # <<>>, l[1] = t, LockInv(Tasks \ {t}, l),
         \A u \in Tasks \ {t} : pc[u] \notin Active
  PROVE  LockInv(Tasks \ {t}, Tail(l))
<1>1. l \in Seq(Tasks)
  BY DEF LockInv
<1>2. Tail(l) \in Seq(Tasks) /\ \A k \in DOMAIN l : k # 1 => k - 1 \in DOMAIN Tail(l) /\ Tail(l)[k - 1] = l[k]
  BY <1>1
<1>3. ASSUME NEW u \in Tasks \ {t}, pc[u] = "lock" PROVE \E k \in DOMAIN Tail(l) : Tail(l)[k] = u
  <2>1. PICK k \in DOMAIN l : l[k] = u
    BY <1>3 DEF LockInv
  <2> QED BY <1>2, <2>1, Zenon
<1> QED BY <1>2, <1>3, Zenon DEF LockInv

\* A load or an unload once its task has the lock, with l as its queue.
LEMMA BeginUpdateInv ==
  ASSUME Inv, NEW t \in Tasks, pc[t] \notin Active, NEW n, NEW l, l # <<>>, l[1] = t,
         LockInv(Tasks \ {t}, l), \A u \in Tasks \ {t} : pc[u] \notin Active,
         BeginUpdate(t, n, l), UNCHANGED <<scenario, loaded, todo>>,
         t \in Requests \ Batch => todo[t] = {} /\ n = Path[t][1]
  PROVE  Inv'
<1>0. /\ DOMAIN pc = Tasks /\ DOMAIN op = Tasks /\ DOMAIN todo = Requests /\ next_id \in Nat \ {0}
      /\ registry \in Seq(loaded) /\ IsInjective(registry) /\ Len(registry) <= MaxLoaded
      /\ l \in Seq(Tasks) /\ Shape /\ LoadedInv
  BY DEF Inv, Shape, LoadedInv, RegistryInv, LockInv
<1>1. ~Owes(t) /\ \A u \in Tasks : ~Owes(u)
  BY DEF Owes, Active
<1>2. Range(registry) = loaded
  BY <1>1, Zenon DEF Inv, RegistryInv
<1>3. CASE KindOf(t) = "load"
  <2>1. /\ pc' = [pc EXCEPT ![t] = "loading"] /\ next_id' = next_id + 1
        /\ op' = [op EXCEPT ![t] = [name |-> n, id |-> next_id, res |-> ""]]
        /\ lora_update_lock' = l /\ registry' = registry
    BY <1>3, Zenon DEF BeginUpdate, BeginLoad
  <2>2. BaseInv(t, l, registry)
    BY <1>0, <1>1, StepBase
  <2>3. /\ DOMAIN pc' = Tasks /\ DOMAIN op' = Tasks /\ pc'[t] = "loading" /\ op'[t].id = next_id
        /\ op'[t].name = n /\ op'[t].res = ""
        /\ \A u \in Tasks \ {t} : pc'[u] = pc[u] /\ op'[u] = op[u]
    BY <1>0, <2>1, Zenon
  <2>4. OthersKept(t)
    <3>1. next_id + 1 \in Nat /\ next_id <= next_id + 1
      BY <1>0
    <3> QED BY <1>0, <2>1, <2>3, <3>1, Zenon DEF OthersKept
  <2>5. LockInv(Tasks, lora_update_lock)'
    <3>1. Tasks' = Tasks
      BY DEF Tasks
    <3>2. \A u \in Tasks : /\ pc'[u] \in Active => l # <<>> /\ l[1] = u
                           /\ pc'[u] = "lock" => \E k \in DOMAIN l : l[k] = u
      <4>1. \A u \in Tasks \ {t} : pc[u] = "lock" => \E k \in DOMAIN l : l[k] = u
        BY Zenon DEF LockInv
      <4>2. pc'[t] # "lock"
        BY <2>3, Zenon
      <4> QED BY <2>3, <4>1, <4>2, Zenon
    <3> QED BY <1>0, <2>1, <3>1, <3>2, Zenon DEF LockInv
  <2>6. next_id \in (1 .. next_id' - 1) \ IdsIn(loaded)
    <3>1. \A ref \in loaded : ref.id \in 1 .. next_id - 1
      BY DEF Inv, LoadedInv
    <3>2. next_id \in 1 .. (next_id + 1) - 1 /\ next_id \notin 1 .. next_id - 1
      BY <1>0
    <3> QED BY <2>1, <3>1, <3>2, Zenon DEF IdsIn
  <2>7. ~Owes(t)'
    BY <2>3, Zenon DEF Owes
  <2>8. OpInv({t}, registry)'
    BY <2>3, <2>6, Zenon DEF OpInv, Batch, Path, IdsIn
  <2> QED BY <1>0, <2>1, <2>2, <2>4, <2>5, <2>7, <2>8, CompleteInv, Zenon
<1>4. CASE KindOf(t) # "load" /\ n \in NamesIn(registry)
  <2>1. /\ Unregister(t, registry, counters, n, "") /\ lora_update_lock' = l /\ UNCHANGED next_id
    BY <1>4, Zenon DEF BeginUpdate
  <2>2. t \notin Requests
    BY <1>4 DEF KindOf
  <2>3. OpInv(Tasks \ {t}, registry)
    BY Zenon DEF Inv, OpInv
  <2>4. Len(registry) <= MaxLoaded + 1
    BY <1>0, Limits
  <2> QED BY <1>0, <1>2, <1>4, <2>1, <2>2, <2>3, <2>4, UnregisterInv, Zenon
<1>5. CASE KindOf(t) # "load" /\ n \notin NamesIn(registry)
  <2>1. /\ pc' = [pc EXCEPT ![t] = "done"] /\ lora_update_lock' = Tail(l)
        /\ UNCHANGED <<registry, op, next_id>>
    BY <1>5, Zenon DEF BeginUpdate
  <2>2. BaseInv(t, Tail(l), registry)
    BY <1>0, <1>1, TailLock, StepBase, Zenon
  <2> QED BY <1>0, <2>1, <2>2, LeaveInv, Zenon
<1> QED BY <1>3, <1>4, <1>5

-----------------------------------------------------------------------------
(* one lemma for each step                                                 *)

LEMMA ResolveInv == ASSUME Inv, NEW q \in Requests, Resolve(q) PROVE Inv'
<1>0. /\ q \in Tasks /\ DOMAIN todo = Requests /\ scenario \in Scenarios
      /\ registry \in Seq(loaded) /\ IsInjective(registry)
  BY DEF Inv, Shape, RegistryInv, Tasks
<1>1. ~Owes(q) /\ LockInv(Tasks \ {q}, lora_update_lock)
  <2>1. ~Owes(q)
    BY DEF Resolve, Owes
  <2> QED BY <2>1, Zenon DEF Inv, LockInv
<1>2. CASE /\ pc' = [pc EXCEPT ![q] = "refused"]
           /\ UNCHANGED <<registry, lora_update_lock, next_id, op, todo>>
  <2>1. BaseInv(q, lora_update_lock, registry)
    BY <1>0, <1>1, StepBase
  <2>2. UNCHANGED <<scenario, loaded>>
    BY Zenon DEF Resolve
  <2> QED BY <1>0, <1>2, <2>1, <2>2, LeaveInv, Zenon
<1>3. CASE \E found \in {Range(Path[q]) \cap NamesIn(registry)} : \E order :
           \E reg \in LookedUp(registry, order) :
             ReloadOrAcquire(q, lora_update_lock, reg, counters, Range(Path[q]) \ found)
  <2> DEFINE missing == Range(Path[q]) \ (Range(Path[q]) \cap NamesIn(registry))
  <2>1. PICK order : \E reg \in LookedUp(registry, order) :
          ReloadOrAcquire(q, lora_update_lock, reg, counters, missing)
    BY <1>3
  <2>1a. PICK reg \in LookedUp(registry, order) :
          ReloadOrAcquire(q, lora_update_lock, reg, counters, missing)
    BY <2>1
  <2>2. /\ reg \in Seq(loaded) /\ IsInjective(reg) /\ Len(reg) = Len(registry)
        /\ Range(reg) = Range(registry)
    BY <1>0, LookedUpFacts
  <2>3. BaseInv(q, lora_update_lock, reg)
    BY <1>0, <1>1, <2>2, StepBase
  <2>4. SingleName(q, reg, missing)
    <3> SUFFICES ASSUME q \notin Batch
                 PROVE  missing \subseteq {Path[q][1]} /\ (missing = {} => Path[q][1] \in NamesIn(reg))
      BY DEF SingleName
    <3>1. Path[q] \in Seq(Range(Path[q])) /\ Len(Path[q]) = 1
      BY <1>0, LoRAAssumption DEF Path, Batch
    <3>2. DOMAIN Path[q] = {1}
      BY <3>1
    <3>3. Range(Path[q]) = {Path[q][1]}
      BY <3>2 DEF Range
    <3>4. NamesIn(reg) = NamesIn(registry)
      BY <2>2, Zenon DEF NamesIn
    <3> QED BY <3>3, <3>4
  <2>5. UNCHANGED <<scenario, loaded>>
    BY Zenon DEF Resolve
  <2> HIDE DEF missing
  <2> QED BY <2>1a, <2>3, <2>4, <2>5, ReloadInv
<1> QED BY <1>2, <1>3, Zenon DEF Resolve

LEMMA UpdateCallInv == ASSUME Inv, NEW u \in Updates, UpdateCall(u) PROVE Inv'
<1> DEFINE l == lora_update_lock
<1>0. /\ u \in Tasks /\ u \notin Requests /\ DOMAIN pc = Tasks /\ DOMAIN op = Tasks
      /\ DOMAIN todo = Requests /\ next_id \in Nat /\ next_id <= next_id
      /\ registry \in Seq(loaded) /\ IsInjective(registry) /\ l \in Seq(Tasks)
  BY LoRAAssumption DEF Inv, Shape, LoadedInv, LockInv, RegistryInv, Tasks
<1>1. pc[u] = "idle" /\ pc[u] \notin Active /\ ~Owes(u) /\ UNCHANGED <<scenario, loaded, todo>>
  BY DEF UpdateCall, Active, Owes
<1>2. LockInv(Tasks \ {u}, l)
  BY Zenon DEF Inv, LockInv
<1>3. CASE l = <<>> /\ BeginUpdate(u, Target[u], <<u>>)
  <2>1. DOMAIN l = {}
    BY <1>3
  <2>2. \A t \in Tasks : pc[t] \notin Active /\ pc[t] # "lock"
    BY <1>3, <2>1, Zenon DEF Inv, LockInv
  <2>3. <<u>> \in Seq(Tasks) /\ <<u>> # <<>> /\ <<u>>[1] = u
    BY <1>0
  <2>4. LockInv(Tasks \ {u}, <<u>>)
    BY <2>2, <2>3, Zenon DEF LockInv
  <2> QED BY <1>0, <1>1, <1>3, <2>2, <2>3, <2>4, BeginUpdateInv
<1>4. CASE /\ l # <<>> /\ lora_update_lock' = Append(l, u) /\ pc' = [pc EXCEPT ![u] = "lock"]
           /\ op' = [op EXCEPT ![u] = [NoOp EXCEPT !.name = Target[u]]]
           /\ UNCHANGED <<registry, next_id>>
  <2>1. /\ DOMAIN pc' = Tasks /\ DOMAIN op' = Tasks /\ pc'[u] = "lock"
        /\ \A t \in Tasks \ {u} : pc'[t] = pc[t] /\ op'[t] = op[t]
    BY <1>0, <1>4
  <2>2. OthersKept(u)
    BY <1>0, <1>1, <1>4, <2>1, Zenon DEF OthersKept
  <2>3. /\ Append(l, u) \in Seq(Tasks) /\ Append(l, u) # <<>>
        /\ Append(l, u)[1] = IF l = <<>> THEN u ELSE l[1]
        /\ \A k \in DOMAIN l : k \in DOMAIN Append(l, u) /\ Append(l, u)[k] = l[k]
        /\ \E k \in DOMAIN Append(l, u) : Append(l, u)[k] = u
    BY <1>0, QueueUp
  <2>4. LockInv(Tasks, lora_update_lock)'
    <3>1. Tasks' = Tasks /\ "lock" \notin Active
      BY DEF Tasks, Active
    <3>2. \A t \in Tasks \ {u} : /\ pc[t] \in Active => l[1] = t
                                 /\ pc[t] = "lock" => \E k \in DOMAIN l : l[k] = t
      BY <1>2, Zenon DEF LockInv
    <3> HIDE DEF l
    <3>3. \A t \in Tasks \ {u} :
            /\ pc'[t] \in Active => Append(l, u)[1] = t
            /\ pc'[t] = "lock" => \E k \in DOMAIN Append(l, u) : Append(l, u)[k] = t
      BY <1>4, <2>1, <2>3, <3>2, SMTT(30)
    <3> QED BY <1>4, <2>1, <2>3, <3>1, <3>3, Zenon DEF LockInv
  <2>5. ~Owes(u)'
    BY <2>1 DEF Owes
  <2>6. OpInv({u}, registry)'
    BY <1>0, <2>1 DEF OpInv
  <2>7. BaseInv(u, l, registry)
    BY <1>0, <1>1, <1>2, StepBase
  <2> QED BY <1>0, <1>4, <2>2, <2>4, <2>5, <2>6, <2>7, CompleteInv
<1> QED BY <1>3, <1>4, Zenon DEF UpdateCall

LEMMA LockGrantedInv == ASSUME Inv, NEW t \in Tasks, LockGranted(t) PROVE Inv'
<1> DEFINE l == lora_update_lock
<1>1. /\ pc[t] = "lock" /\ Head(l) = t /\ BeginUpdate(t, op[t].name, l)
      /\ UNCHANGED <<scenario, loaded, todo>>
  BY Zenon DEF LockGranted
<1>2. /\ l \in Seq(Tasks) /\ \E k \in DOMAIN l : l[k] = t
      /\ \A u \in Tasks : pc[u] \in Active => l[1] = u
  BY <1>1, Zenon DEF Inv, LockInv
<1>3. l # <<>> /\ l[1] = t
  BY <1>1, <1>2
<1>4. pc[t] \notin Active
  BY <1>1 DEF Active
<1>5. \A u \in Tasks \ {t} : pc[u] \notin Active
  BY <1>2, <1>3, Zenon
<1>6. LockInv(Tasks \ {t}, l)
  BY Zenon DEF Inv, LockInv
<1>7. t \in Requests \ Batch => todo[t] = {} /\ op[t].name = Path[t][1]
  BY <1>1, Zenon DEF Inv, OpInv
<1> QED BY <1>1, <1>3, <1>4, <1>5, <1>6, <1>7, BeginUpdateInv

\* The scheduler loads an adapter, finds its name taken, or refuses it.
LEMMA BackendLoadInv == ASSUME Inv, NEW t \in Tasks, BackendLoad(t) PROVE Inv'
<1> DEFINE n == op[t].name
           new == [name |-> n, id |-> op[t].id]
<1>0. /\ pc[t] = "loading" /\ DOMAIN pc = Tasks /\ DOMAIN op = Tasks /\ Shape /\ LoadedInv
      /\ registry \in Seq(loaded) /\ next_id \in Nat \ {0}
  BY DEF BackendLoad, Inv, Shape, LoadedInv, RegistryInv
<1>1. /\ pc' = [pc EXCEPT ![t] = "answered"]
      /\ UNCHANGED <<scenario, registry, lora_update_lock, next_id, todo>>
  BY Zenon DEF BackendLoad
<1>2. PICK res \in {"ok", "already", "error"} :
        /\ op' = [op EXCEPT ![t] = [name |-> n, id |-> @.id, res |-> res]]
        /\ loaded' = IF res = "ok" THEN loaded \cup {new} ELSE loaded
        /\ res = "already" => n \in {ref.name : ref \in loaded}
        /\ res = "ok" => /\ n \notin {ref.name : ref \in loaded}
                         /\ ~(n \in Pinned /\ Cardinality({ref \in loaded : ref.name \in Pinned}) >= MaxPinned)
  BY Zenon DEF BackendLoad
<1>3. pc[t] \in Active /\ ~Owes(t)
  BY <1>0 DEF Active, Owes
<1>4. /\ \A u \in Tasks \ {t} : pc[u] \notin Active /\ ~Owes(u)
      /\ LockInv(Tasks, lora_update_lock)
  BY <1>3, Holder, Zenon DEF Inv
<1>5. Range(registry) = loaded
  BY <1>3, <1>4, Zenon DEF Inv, RegistryInv
<1>6. op[t].id \in (1 .. next_id - 1) \ IdsIn(loaded)
  BY <1>0, Zenon DEF Inv, OpInv
<1>7. /\ DOMAIN pc' = Tasks /\ DOMAIN op' = Tasks /\ pc'[t] = "answered"
      /\ op'[t].name = n /\ op'[t].id = op[t].id /\ op'[t].res = res
      /\ \A u \in Tasks \ {t} : pc'[u] = pc[u] /\ op'[u] = op[u]
  BY <1>0, <1>1, <1>2
<1>8. Tasks' = Tasks /\ Batch' = Batch /\ Path' = Path
  BY <1>1 DEF Tasks, Batch, Path
<1>9. \A u \in Tasks \ {t} : ~Owes(u)'
  BY <1>4, <1>7, Zenon DEF Owes
<1>10. Owes(t)' <=> res = "ok"
  BY <1>7 DEF Owes
<1>11. Shape'
  BY <1>0, <1>1, <1>7, <1>8, Zenon DEF Shape
<1>12. LoadedInv'
  <2>1. CASE res # "ok"
    BY <1>1, <1>2, <2>1 DEF Inv, LoadedInv
  <2>2. CASE res = "ok"
    <3> DEFINE P == {ref \in loaded : ref.name \in Pinned}
    <3>1. loaded' = loaded \cup {new} /\ \A ref \in loaded : ref.name # new.name /\ ref.id # new.id
      BY <1>2, <1>6, <2>2 DEF IdsIn
    <3>2. IsFiniteSet(loaded') /\ next_id' \in Nat \ {0}
      BY <1>0, <1>1, <3>1, FS_AddElement, Zenon DEF LoadedInv
    <3>3. \A ref \in loaded' : ref.id \in 1 .. next_id' - 1
      <4>1. \A ref \in loaded : ref.id \in 1 .. next_id - 1
        BY Zenon DEF Inv, LoadedInv
      <4>2. new.id \in 1 .. next_id - 1 /\ next_id' = next_id
        BY <1>1, <1>6
      <4> HIDE DEF new
      <4> QED BY <3>1, <4>1, <4>2, Zenon
    <3>4. \A r1, r2 \in loaded' : r1.name = r2.name \/ r1.id = r2.id => r1 = r2
      <4>1. \A r1, r2 \in loaded : r1.name = r2.name \/ r1.id = r2.id => r1 = r2
        BY Zenon DEF Inv, LoadedInv
      <4> HIDE DEF new
      <4> QED BY <3>1, <4>1, Zenon
    <3>5. IsFiniteSet(P) /\ Cardinality(P) \in Nat /\ Cardinality(P) <= MaxPinned
      <4>1. IsFiniteSet(P)
        BY FS_Subset DEF Inv, LoadedInv
      <4> QED BY <4>1, FS_CardinalityType DEF Inv, LoadedInv
    <3>6. CASE n \in Pinned
      <4>1. {ref \in loaded' : ref.name \in Pinned} = P \cup {new}
        BY <3>1, <3>6
      <4>2. new \notin P
        BY <3>1
      <4>3. Cardinality(P) < MaxPinned
        BY <1>2, <2>2, <3>5, <3>6, Limits
      <4> HIDE DEF P, new
      <4>4. Cardinality(P \cup {new}) = Cardinality(P) + 1
        BY <3>5, <4>2, FS_AddElement, Zenon
      <4>5. Cardinality(P \cup {new}) <= MaxPinned
        BY <3>5, <4>3, <4>4, Limits
      <4>6. Cardinality({ref \in loaded' : ref.name \in Pinned}) <= MaxPinned
        BY <4>1, <4>5, Zenon
      <4> QED BY <3>2, <3>3, <3>4, <4>6 DEF LoadedInv
    <3>7. CASE n \notin Pinned
      <4>1. {ref \in loaded' : ref.name \in Pinned} = P
        BY <3>1, <3>7
      <4> QED BY <3>2, <3>3, <3>4, <3>5, <4>1, Zenon DEF LoadedInv
    <3> QED BY <3>6, <3>7
  <2> QED BY <2>1, <2>2
<1>13. LockInv(Tasks, lora_update_lock)'
  <2>1. \A u \in Tasks : /\ pc'[u] \in Active => lora_update_lock # <<>> /\ lora_update_lock[1] = u
                         /\ pc'[u] = "lock" => \E k \in DOMAIN lora_update_lock : lora_update_lock[k] = u
    <3>1. pc'[t] # "lock"
      BY <1>7
    <3> QED BY <1>3, <1>4, <1>7, <3>1, Zenon DEF LockInv
  <2> QED BY <1>1, <1>4, <1>8, <2>1, Zenon DEF LockInv
<1>14. RegistryInv(Tasks, registry)'
  <2>1. /\ registry' \in Seq(loaded') /\ IsInjective(registry') /\ Len(registry') <= MaxLoaded
    BY <1>1, <1>2 DEF Inv, RegistryInv, IsInjective
  <2>2. (\A u \in Tasks : ~Owes(u)') => Range(registry') = loaded'
    BY <1>1, <1>2, <1>5, <1>10, Zenon
  <2>3. \A u \in Tasks : Owes(u)' =>
          \E ref \in loaded' \ Range(registry') :
            /\ ref.id = op'[u].id /\ loaded' = Range(registry') \cup {ref}
            /\ pc'[u] = "answered" => ref = [name |-> op'[u].name, id |-> op'[u].id]
    <3> SUFFICES ASSUME res = "ok"
                 PROVE  \E ref \in loaded' \ Range(registry') :
                          /\ ref.id = op'[t].id /\ loaded' = Range(registry') \cup {ref}
                          /\ pc'[t] = "answered" => ref = [name |-> op'[t].name, id |-> op'[t].id]
      BY <1>9, <1>10, Zenon
    <3>1. loaded' = loaded \cup {new} /\ new \notin loaded /\ new.id = op[t].id
      BY <1>2, <1>6 DEF IdsIn
    <3> HIDE DEF new
    <3> QED BY <1>1, <1>5, <1>7, <3>1 DEF new
  <2>4. Range(registry)' = Range(registry') /\ IsInjective(registry)' = IsInjective(registry')
    BY DEF Range, IsInjective
  <2> QED BY <1>8, <2>1, <2>2, <2>3, <2>4, Zenon DEF RegistryInv
<1>15. OpInv(Tasks, registry)'
  <2>1. NamesIn(registry)' = NamesIn(registry) /\ NamesIn(registry) = {ref.name : ref \in loaded}
    BY <1>1, <1>5 DEF NamesIn, Range
  <2>2. OpInv({t}, registry)'
    <3>1. t \in Requests \ Batch => todo[t] = {} /\ op[t].name = Path[t][1]
      BY <1>3, Zenon DEF Inv, OpInv
    <3> QED BY <1>1, <1>2, <1>7, <1>8, <2>1, <3>1 DEF OpInv
  <2>3. OpInv(Tasks \ {t}, registry)'
    <3>1. \A u \in Tasks \ {t} : pc'[u] \notin {"loading", "answered", "draining", "unloading", "unloaded"}
      BY <1>4, <1>7 DEF Active
    <3>2. \A u \in Tasks \ {t} :
            /\ u \in Requests \ Batch /\ (pc[u] \in Active \/ pc[u] = "lock") =>
                 todo[u] = {} /\ op[u].name = Path[u][1]
            /\ u \in Requests \ Batch => pc[u] # "gone"
      BY Zenon DEF Inv, OpInv
    <3>3. \A u \in Tasks \ {t} : /\ pc'[u] # "loading" /\ pc'[u] # "answered"
                                /\ pc'[u] \notin {"draining", "unloading", "unloaded"}
      BY <3>1
    <3>4. \A u \in Tasks \ {t} :
            /\ u \in Requests \ Batch /\ (pc'[u] \in Active \/ pc'[u] = "lock") =>
                 todo'[u] = {} /\ op'[u].name = Path[u][1]
            /\ u \in Requests \ Batch => pc'[u] # "gone"
      <4>1. todo' = todo
        BY <1>1
      <4> QED BY <1>7, <3>2, <4>1, Zenon
    <3> QED BY <1>8, <3>3, <3>4, Zenon DEF OpInv, Active
  <2> QED BY <1>8, <2>2, <2>3, Zenon DEF OpInv
<1> QED BY <1>11, <1>12, <1>13, <1>14, <1>15 DEF Inv

\* The eviction loop: it returns, or it unregisters another adapter than the new one.
LEMMA EvictInv ==
  ASSUME Inv, NEW t \in Tasks, pc[t] \in Active,
         NEW reg \in Seq(loaded), IsInjective(reg), Len(reg) <= MaxLoaded + 1, Range(reg) = loaded,
         NEW cnt, NEW res, EvictOrReturn(t, reg, cnt, res), UNCHANGED <<scenario, loaded>>,
         res # "error" => op[t].name \in NamesIn(reg),
         Len(reg) > MaxLoaded => reg[Len(reg)].name = op[t].name
  PROVE  Inv'
<1>1. t \in Requests \ Batch => todo[t] = {} /\ op[t].name = Path[t][1]
  BY Zenon DEF Inv, OpInv
<1>2. CASE Len(reg) <= MaxLoaded
  <2>1. Return(t, reg, cnt, res)
    BY <1>2, Zenon DEF EvictOrReturn
  <2>2. BaseInv(t, Tail(lora_update_lock), reg)
    BY <1>2, HolderBase
  <2>3. t \in Requests \ Batch /\ res # "error" => todo[t] = {} /\ Path[t][1] \in NamesIn(reg)
    BY <1>1, Zenon
  <2> QED BY <2>1, <2>2, <2>3, ReturnInv
<1>3. CASE ~(Len(reg) <= MaxLoaded)
  <2>0. Len(reg) > MaxLoaded /\ Len(reg) \in DOMAIN reg
    BY <1>3, LengthFacts, AboveLimit, Zenon
  <2>1. Len(reg) > MaxLoaded /\ LoadedInv /\ Shape /\ OpInv(Tasks \ {t}, registry)
    BY <2>0, Zenon DEF Inv, OpInv
  <2>2. /\ LruName(reg) # {} /\ LruName(reg) \subseteq NamesIn(reg)
        /\ op[t].name \notin LruName(reg) /\ op[t].name \in NamesIn(reg)
    <3>1. op[t].name \in NamesIn(reg)
      BY <2>0, Zenon DEF NamesIn, Range
    <3> QED BY <2>1, <3>1, EvictFacts
  <2>3. PICK n \in LruName(reg) : Unregister(t, reg, cnt, n, res)
    BY <1>3, <2>2, Zenon DEF EvictOrReturn
  <2>4. UNCHANGED <<lora_update_lock, next_id, todo>>
    BY <1>3, <2>2, Zenon DEF EvictOrReturn
  <2>5. /\ LockInv(Tasks \ {t}, lora_update_lock) /\ lora_update_lock # <<>> /\ lora_update_lock[1] = t
        /\ \A u \in Tasks \ {t} : pc[u] \notin Active
    BY Holder, Zenon DEF Inv, LockInv
  <2>6. op[t].name \in NamesIn(reg) \ {n}
    BY <2>2, Zenon
  <2>7. LockInv(Tasks \ {t}, lora_update_lock') /\ lora_update_lock' # <<>> /\ lora_update_lock'[1] = t
    BY <2>4, <2>5, Zenon
  <2> QED BY <1>1, <2>1, <2>3, <2>4, <2>5, <2>6, <2>7, UnregisterInv, Zenon
<1> QED BY <1>2, <1>3

\* The answer to a load arrives: the adapter is registered, others are evicted.
LEMMA LoadAnsweredInv == ASSUME Inv, NEW t \in Tasks, LoadAnswered(t) PROVE Inv'
<1> DEFINE n == op[t].name
           ref == [name |-> n, id |-> op[t].id]
<1>0. /\ pc[t] = "answered" /\ pc[t] \in Active /\ UNCHANGED <<scenario, loaded>>
      /\ registry \in Seq(loaded) /\ IsInjective(registry) /\ Len(registry) <= MaxLoaded
  BY DEF LoadAnswered, Active, Inv, RegistryInv
<1>1. \A u \in Tasks \ {t} : ~Owes(u)
  BY <1>0, Holder, Zenon
<1>3. CASE op[t].res # "ok"
  <2>1. EvictOrReturn(t, registry, counters, op[t].res)
    BY <1>3, Zenon DEF LoadAnswered
  <2>2. ~Owes(t)
    BY <1>0, <1>3 DEF Owes
  <2>3. Range(registry) = loaded
    BY <1>1, <2>2, Zenon DEF Inv, RegistryInv
  <2>4. /\ op[t].res # "error" => op[t].name \in NamesIn(registry)
        /\ op[t].res \in {"ok", "already", "error"}
    BY <1>0, <1>3, Zenon DEF Inv, OpInv
  <2>5. ~(Len(registry) > MaxLoaded) /\ Len(registry) <= MaxLoaded + 1
    BY <1>0, Limits
  <2> QED BY <1>0, <2>1, <2>3, <2>4, <2>5, EvictInv
<1>4. CASE op[t].res = "ok"
  <2> DEFINE reg == Append(registry, ref)
             cnt == [k \in DOMAIN counters \cup {op[t].id} |-> IF k = op[t].id THEN 0 ELSE counters[k]]
  <2>1. Owes(t)
    BY <1>0, <1>4 DEF Owes
  <2>2. ref \in loaded \ Range(registry) /\ loaded = Range(registry) \cup {ref}
    BY <1>0, <2>1, Zenon DEF Inv, RegistryInv
  <2>3. n \notin NamesIn(registry)
    <3>1. \A r \in Range(registry) : r \in loaded /\ r # ref
      BY <2>2, Zenon
    <3> HIDE DEF ref
    <3>2. \A r \in Range(registry) : r.name # ref.name
      BY <2>2, <3>1, Zenon DEF Inv, LoadedInv
    <3> QED BY <3>2 DEF NamesIn, ref
  <2>4. EvictOrReturn(t, reg, cnt, "ok")
    BY <1>4, <2>3, Zenon DEF LoadAnswered
  <2>5. /\ reg \in Seq(loaded) /\ Len(reg) = Len(registry) + 1 /\ Range(reg) = loaded
        /\ IsInjective(reg) /\ reg[Len(reg)] = ref
    <3> HIDE DEF ref
    <3> QED BY <1>0, <2>2, AppendFacts
  <2>6. n \in NamesIn(reg) /\ reg[Len(reg)].name = n
    BY <2>2, <2>5 DEF NamesIn
  <2>7. Len(reg) <= MaxLoaded + 1
    BY <1>0, <2>5, Limits
  <2> HIDE DEF reg, cnt
  <2> QED BY <1>0, <2>4, <2>5, <2>6, <2>7, EvictInv
<1> QED BY <1>3, <1>4

\* The scheduler's unload is answered.
LEMMA UnloadAnsweredInv == ASSUME Inv, NEW t \in Tasks, UnloadAnswered(t) PROVE Inv'
<1>0. /\ pc[t] = "unloaded" /\ pc[t] \in Active /\ UNCHANGED <<scenario, loaded>>
      /\ registry \in Seq(loaded) /\ IsInjective(registry) /\ Len(registry) <= MaxLoaded
  BY Zenon DEF UnloadAnswered, Active, Inv, RegistryInv
<1>1. \A u \in Tasks : ~Owes(u)
  <2>1. ~Owes(t)
    BY <1>0 DEF Owes
  <2> QED BY <1>0, <2>1, Holder, Zenon
<1>2. Range(registry) = loaded
  BY <1>1, Zenon DEF Inv, RegistryInv
<1>3. CASE KindOf(t) = "load"
  <2>1. EvictOrReturn(t, registry, counters, op[t].res)
    BY <1>3, Zenon DEF UnloadAnswered
  <2>2. op[t].name \in NamesIn(registry)
    BY <1>0, <1>3 DEF Inv, OpInv
  <2>3. ~(Len(registry) > MaxLoaded) /\ Len(registry) <= MaxLoaded + 1
    BY <1>0, Limits
  <2> QED BY <1>0, <1>2, <2>1, <2>2, <2>3, EvictInv, Zenon
<1>4. CASE KindOf(t) # "load"
  <2>1. Return(t, registry, counters, "ok")
    BY <1>4, Zenon DEF UnloadAnswered
  <2>2. BaseInv(t, Tail(lora_update_lock), registry)
    BY <1>0, <1>2, HolderBase
  <2>3. t \notin Requests
    BY <1>4 DEF KindOf
  <2> QED BY <1>0, <2>1, <2>2, <2>3, ReturnInv
<1> QED BY <1>3, <1>4

\* Steps that the invariant does not see: the end of a wait for an adapter's requests,
\* and those of running requests.
Aside(u) == \/ pc'[u] = pc[u]
            \/ pc[u] = "draining" /\ pc'[u] = "unloading"
            \/ pc[u] \notin Active \cup {"lock"} /\ pc'[u] \in {"gather", "acquired", "waiting", "raised"}

\* A step that changes nothing that the invariant speaks of.
LEMMA MoveInv ==
  ASSUME Inv, DOMAIN pc' = DOMAIN pc, \A u \in Tasks : Aside(u),
         UNCHANGED <<scenario, registry, lora_update_lock, loaded, next_id, op, todo>>
  PROVE  Inv'
<1>0. /\ DOMAIN pc' = Tasks /\ Tasks' = Tasks /\ Batch' = Batch /\ Path' = Path
  BY DEF Inv, Shape, Tasks, Batch, Path
<1>2. /\ \A u \in Tasks : pc'[u] \in Active => pc[u] \in Active
      /\ \A u \in Tasks : pc'[u] = "lock" => pc[u] = "lock"
  BY DEF Active, Aside
<1>3. \A u \in Tasks : Owes(u)' <=> Owes(u)
  BY DEF Owes, Active, Aside
<1>4. Shape' /\ LoadedInv'
  BY <1>0 DEF Inv, Shape, LoadedInv
<1>5. LockInv(Tasks, lora_update_lock)'
  <2>1. /\ lora_update_lock \in Seq(Tasks)
        /\ \A u \in Tasks : /\ pc[u] \in Active => lora_update_lock # <<>> /\ lora_update_lock[1] = u
                            /\ pc[u] = "lock" => \E k \in DOMAIN lora_update_lock : lora_update_lock[k] = u
    BY Zenon DEF Inv, LockInv
  <2> QED BY <1>0, <1>2, <2>1, Zenon DEF LockInv
<1>6. RegistryInv(Tasks, registry)'
  <2>1. \A u \in Tasks : pc'[u] = "answered" => pc[u] = "answered"
    BY DEF Aside
  <2>2. /\ registry' = registry /\ loaded' = loaded /\ op' = op
        /\ Range(registry)' = Range(registry) /\ IsInjective(registry)' = IsInjective(registry)
    BY DEF Range, IsInjective
  <2>3. /\ registry \in Seq(loaded) /\ IsInjective(registry) /\ Len(registry) <= MaxLoaded
        /\ (\A u \in Tasks : ~Owes(u)) => Range(registry) = loaded
        /\ \A u \in Tasks : Owes(u) =>
             \E ref \in loaded \ Range(registry) :
               /\ ref.id = op[u].id /\ loaded = Range(registry) \cup {ref}
               /\ pc[u] = "answered" => ref = [name |-> op[u].name, id |-> op[u].id]
    BY Zenon DEF Inv, RegistryInv
  <2>4. (\A u \in Tasks : ~Owes(u)') => Range(registry) = loaded
    BY <1>3, <2>3, Zenon
  <2>5. \A u \in Tasks : Owes(u)' =>
          \E ref \in loaded \ Range(registry) :
            /\ ref.id = op[u].id /\ loaded = Range(registry) \cup {ref}
            /\ pc'[u] = "answered" => ref = [name |-> op[u].name, id |-> op[u].id]
    BY <1>3, <2>1, <2>3, Zenon
  <2>6. registry' \in Seq(loaded') /\ IsInjective(registry)' /\ Len(registry') <= MaxLoaded
    BY <2>2, <2>3
  <2>7. (\A u \in Tasks : ~Owes(u)') => Range(registry)' = loaded'
    BY <2>2, <2>4, Zenon
  <2>8. \A u \in Tasks : Owes(u)' =>
          \E ref \in loaded' \ Range(registry)' :
            /\ ref.id = op'[u].id /\ loaded' = Range(registry)' \cup {ref}
            /\ pc'[u] = "answered" => ref = [name |-> op'[u].name, id |-> op'[u].id]
    BY <2>2, <2>5, Zenon
  <2> QED BY <1>0, <2>6, <2>7, <2>8, Zenon DEF RegistryInv
<1>7. OpInv(Tasks, registry)'
  <2>1. NamesIn(registry)' = NamesIn(registry) /\ IdsIn(loaded)' = IdsIn(loaded)
    BY DEF NamesIn, Range, IdsIn
  <2>2. /\ \A u \in Tasks : pc'[u] = "loading" => pc[u] = "loading"
        /\ \A u \in Tasks : pc'[u] = "answered" => pc[u] = "answered"
        /\ \A u \in Tasks : pc'[u] \in {"draining", "unloading", "unloaded"} =>
             pc[u] \in {"draining", "unloading", "unloaded"}
        /\ \A u \in Tasks : pc'[u] = "gone" => pc[u] = "gone"
    BY DEF Aside
  <2>3. \A u \in Tasks : KindOf(u)' = KindOf(u)
    BY Zenon DEF KindOf
  <2> QED BY <1>0, <1>2, <2>1, <2>2, <2>3, Zenon DEF Inv, OpInv
<1> QED BY <1>4, <1>5, <1>6, <1>7, Zenon DEF Inv

\* The wait for the requests that use an adapter is over.
LEMMA DrainedInv == ASSUME Inv, NEW t \in Tasks, Drained(t) PROVE Inv'
<1>1. pc[t] = "draining" /\ pc' = [pc EXCEPT ![t] = "unloading"]
  BY DEF Drained, Drain
<1>2. UNCHANGED <<scenario, registry, lora_update_lock, loaded, next_id, op, todo>>
  BY Zenon DEF Drained
<1>3. DOMAIN pc' = DOMAIN pc /\ \A u \in Tasks : Aside(u)
  BY <1>1 DEF Aside, Inv, Shape
<1> QED BY <1>2, <1>3, MoveInv

\* The scheduler drops the adapter that was unregistered.
LEMMA BackendUnloadInv == ASSUME Inv, NEW t \in Tasks, BackendUnload(t) PROVE Inv'
<1>0. /\ pc[t] = "unloading" /\ DOMAIN pc = Tasks
      /\ Tasks' = Tasks /\ Batch' = Batch /\ Path' = Path
  BY Zenon DEF BackendUnload, Inv, Shape, Tasks, Batch, Path
<1>1. /\ pc' = [pc EXCEPT ![t] = "unloaded"] /\ loaded' = {ref \in loaded : ref.id # op[t].id}
      /\ UNCHANGED <<scenario, registry, lora_update_lock, next_id, op, todo>>
  BY Zenon DEF BackendUnload
<1>2. DOMAIN pc' = Tasks /\ pc'[t] = "unloaded" /\ \A u \in Tasks \ {t} : pc'[u] = pc[u]
  BY <1>0, <1>1
<1>3. /\ Owes(t) /\ pc[t] \in Active
      /\ \A u \in Tasks \ {t} : pc[u] \notin Active /\ ~Owes(u)
      /\ LockInv(Tasks, lora_update_lock)
  <2>1. Owes(t) /\ pc[t] \in Active
    BY <1>0 DEF Owes, Active
  <2> QED BY <2>1, Holder, Zenon DEF Inv
<1>4. \A u \in Tasks : ~Owes(u)'
  <2>1. ~Owes(t)'
    BY <1>2 DEF Owes
  <2>2. \A u \in Tasks \ {t} : Owes(u)' => Owes(u)
    BY <1>1, <1>2, Zenon DEF Owes
  <2> QED BY <1>3, <2>1, <2>2, Zenon
<1>5. loaded' = Range(registry)
  <2>1. PICK ref \in loaded \ Range(registry) :
          ref.id = op[t].id /\ loaded = Range(registry) \cup {ref}
    BY <1>3, Zenon DEF Inv, RegistryInv
  <2>2. \A r \in Range(registry) : r.id # ref.id
    BY <2>1, Zenon DEF Inv, LoadedInv
  <2> QED BY <1>1, <2>1, <2>2
<1>6. loaded' \subseteq loaded
  BY <1>1
<1>7. Shape'
  BY <1>0, <1>1, <1>2 DEF Inv, Shape
<1>8. LoadedInv'
  <2> DEFINE P == {ref \in loaded : ref.name \in Pinned}
             Q == {ref \in loaded' : ref.name \in Pinned}
  <2>1. IsFiniteSet(loaded) /\ IsFiniteSet(loaded') /\ IsFiniteSet(P) /\ Q \subseteq P
    BY <1>6, FS_Subset DEF Inv, LoadedInv
  <2>2. Cardinality(P) \in Nat /\ Cardinality(P) <= MaxPinned
    BY <2>1, FS_CardinalityType DEF Inv, LoadedInv
  <2>3. Cardinality(Q) <= MaxPinned
    <3> HIDE DEF P, Q
    <3>1. IsFiniteSet(Q) /\ Cardinality(Q) <= Cardinality(P) /\ Cardinality(Q) \in Nat
      BY <2>1, FS_Subset, FS_CardinalityType
    <3> QED BY <2>2, <3>1, Limits
  <2> QED BY <1>1, <1>6, <2>1, <2>3, Zenon DEF Inv, LoadedInv
<1>9. LockInv(Tasks, lora_update_lock)'
  <2>1. \A u \in Tasks : (pc'[u] \in Active => pc[u] \in Active) /\ (pc'[u] = "lock" => pc[u] = "lock")
    BY <1>2, <1>3
  <2> QED BY <1>0, <1>1, <1>3, <2>1, Zenon DEF LockInv
<1>10. RegistryInv(Tasks, registry)'
  <2>1. Range(registry)' = Range(registry) /\ IsInjective(registry)' = IsInjective(registry)
    BY <1>1 DEF Range, IsInjective
  <2>2. registry \in Seq(loaded') /\ IsInjective(registry) /\ Len(registry) <= MaxLoaded
    <3>1. registry \in Seq(loaded) /\ IsInjective(registry) /\ Len(registry) <= MaxLoaded
      BY Zenon DEF Inv, RegistryInv
    <3> QED BY <1>5, <3>1 DEF Range
  <2> QED BY <1>0, <1>1, <1>4, <1>5, <2>1, <2>2, Zenon DEF RegistryInv
<1>11. OpInv(Tasks, registry)'
  <2>1. NamesIn(registry)' = NamesIn(registry)
    BY <1>1 DEF NamesIn, Range
  <2>2. \A u \in Tasks : KindOf(u)' = KindOf(u)
    BY DEF KindOf
  <2>3. /\ \A u \in Tasks : pc'[u] # "loading" /\ pc'[u] # "answered"
        /\ \A u \in Tasks : pc'[u] \in {"draining", "unloading", "unloaded"} =>
             pc[u] \in {"draining", "unloading", "unloaded"}
        /\ \A u \in Tasks : pc'[u] \in Active => pc[u] \in Active
        /\ \A u \in Tasks : pc'[u] = "lock" => pc[u] = "lock"
        /\ \A u \in Tasks : pc'[u] = "gone" => pc[u] = "gone"
    <3>1. \A u \in Tasks \ {t} : pc'[u] = pc[u] /\ pc[u] \notin Active
      BY <1>2, <1>3, Zenon
    <3>2. pc'[t] = "unloaded" /\ pc[t] = "unloading" /\ pc[t] \in Active
      BY <1>0, <1>2, <1>3
    <3> QED BY <3>1, <3>2 DEF Active
  <2>4. OpInv(Tasks, registry)
    BY Zenon DEF Inv
  <2> QED BY <1>0, <1>1, <2>1, <2>2, <2>3, <2>4, Zenon DEF OpInv
<1> QED BY <1>7, <1>8, <1>9, <1>10, <1>11, Zenon DEF Inv

\* A request that has its adapters moves on.
Running == {"gather", "acquired", "waiting", "raised"}
MovesOn(q) == pc[q] \in Running /\ \E p \in Running : pc' = [pc EXCEPT ![q] = p]

RequestStep ==
  \/ \E q \in Requests : TokenizeError(q) \/ Disconnect(q)
  \/ \E s \in Subs : \/ GatheredIncrement(s) \/ Send(s) \/ Finish(s)
                     \/ RunningAbort(s) \/ QueueTimeout(s) \/ QueueAbort(s)
                     \/ AbortSeen(s) \/ OrphanEnds(s) \/ Release(s)

\* The steps of running requests leave registry, scheduler and updates alone.
LEMMA RequestMoves ==
  ASSUME RequestStep
  PROVE  /\ RequestOnly
         /\ UNCHANGED pc \/ \E q \in Requests : MovesOn(q)
<1>1. CASE \E q \in Requests : TokenizeError(q)
  <2>1. PICK q \in Requests : TokenizeError(q)
    BY <1>1
  <2>2. pc[q] = "acquired" /\ pc' = [pc EXCEPT ![q] = "raised"] /\ RequestOnly
    BY <2>1, Zenon DEF TokenizeError
  <2> QED BY <2>2, Zenon DEF MovesOn, Running
<1>2. CASE \E q \in Requests : Disconnect(q)
  <2>1. PICK q \in Requests : Disconnect(q)
    BY <1>2
  <2>2. pc[q] = "waiting" /\ pc' = [pc EXCEPT ![q] = "raised"] /\ RequestOnly
    BY <2>1, Zenon DEF Disconnect
  <2> QED BY <2>2, Zenon DEF MovesOn, Running
<1>3. ASSUME NEW s \in Subs, GatheredIncrement(s)
      PROVE  RequestOnly /\ \E q \in Requests : MovesOn(q)
  <2>1. s[1] \in Requests
    BY DEF Subs
  <2>2. pc[s[1]] = "gather" /\ RequestOnly
    BY <1>3, Zenon DEF GatheredIncrement, RequestOnly
  <2>3. \E p \in {"gather", "acquired"} : pc' = [pc EXCEPT ![s[1]] = p]
    <3>1. pc' = [pc EXCEPT ![s[1]] = IF \E r \in SubsOf(s[1]) \ {s} : sub[r] = "looked"
                                     THEN pc[s[1]] ELSE "acquired"]
      BY <1>3 DEF GatheredIncrement
    <3> QED BY <2>2, <3>1, Zenon
  <2> QED BY <2>1, <2>2, <2>3, Zenon DEF MovesOn, Running
<1>4. ASSUME NEW s \in Subs, Send(s)
      PROVE  RequestOnly /\ \E q \in Requests : MovesOn(q)
  <2>1. s[1] \in Requests
    BY DEF Subs
  <2>2. pc[s[1]] = "acquired" /\ RequestOnly
    BY <1>4, Zenon DEF Send
  <2>3. \E p \in {"waiting", "acquired"} : pc' = [pc EXCEPT ![s[1]] = p]
    <3>1. pc' = [pc EXCEPT ![s[1]] = IF s[2] = Len(Path[s[1]]) THEN "waiting" ELSE pc[s[1]]]
      BY <1>4 DEF Send
    <3> QED BY <2>2, <3>1, Zenon
  <2> QED BY <2>1, <2>2, <2>3, Zenon DEF MovesOn, Running
<1>5. ASSUME NEW s \in Subs, AbortSeen(s)
      PROVE  RequestOnly /\ (UNCHANGED pc \/ \E q \in Requests : MovesOn(q))
  <2>1. s[1] \in Requests
    BY DEF Subs
  <2>2. pc[s[1]] \in {"waiting", "raised"} /\ RequestOnly
    BY <1>5, Zenon DEF AbortSeen
  <2>3. UNCHANGED pc \/ pc' = [pc EXCEPT ![s[1]] = "raised"]
    BY <1>5, Zenon DEF AbortSeen
  <2> QED BY <2>1, <2>2, <2>3 DEF MovesOn, Running
<1>6. ASSUME NEW s \in Subs,
             \/ Finish(s) \/ RunningAbort(s) \/ QueueTimeout(s) \/ QueueAbort(s)
             \/ OrphanEnds(s) \/ Release(s)
      PROVE  RequestOnly /\ UNCHANGED pc
  BY <1>6, Zenon DEF Finish, RunningAbort, QueueTimeout, QueueAbort, OrphanEnds, Release
<1> QED BY <1>1, <1>2, <1>3, <1>4, <1>5, <1>6, Zenon DEF RequestStep

LEMMA RequestInv == ASSUME Inv, RequestStep PROVE Inv'
<1>1. UNCHANGED <<scenario, registry, lora_update_lock, loaded, next_id, op, todo>>
  BY RequestMoves, Zenon DEF RequestOnly
<1>2. DOMAIN pc' = DOMAIN pc /\ \A u \in Tasks : Aside(u)
  <2>1. CASE UNCHANGED pc
    BY <2>1 DEF Aside
  <2>2. CASE \E q \in Requests : MovesOn(q)
    <3>1. PICK q \in Requests, p \in Running : pc[q] \in Running /\ pc' = [pc EXCEPT ![q] = p]
      BY <2>2, Zenon DEF MovesOn
    <3> QED BY <3>1 DEF Aside, Running, Active, Inv, Shape
  <2> QED BY <2>1, <2>2, RequestMoves, Zenon
<1> QED BY <1>1, <1>2, MoveInv

LEMMA InitInv == Init => Inv
<1> SUFFICES ASSUME Init PROVE Inv
  OBVIOUS
<1> DEFINE n == Len(Initial)
<1>1. n \in Nat /\ DOMAIN Initial = 1 .. n /\ \A i, j \in 1 .. n : Initial[i] = Initial[j] => i = j
  BY LoRAAssumption DEF IsInjective
<1>2. /\ registry = [k \in 1 .. n |-> [name |-> Initial[k], id |-> k]]
      /\ loaded = Range(registry) /\ next_id = n + 1 /\ lora_update_lock = <<>>
  BY <1>1 DEF Init
<1>3. \A t \in Tasks : pc[t] = "idle"
  BY DEF Init
<1>4. Shape
  BY DEF Init, Shape
<1>5. /\ DOMAIN registry = 1 .. n
      /\ \A k \in 1 .. n : registry[k] = [name |-> Initial[k], id |-> k]
      /\ loaded = {registry[k] : k \in 1 .. n}
  BY <1>2 DEF Range
<1>10. registry \in [1 .. n -> loaded]
  BY <1>2, <1>5
<1>6. LoadedInv
  <2> DEFINE P == {ref \in loaded : ref.name \in Pinned}
             Q == Pinned \cap Range(Initial)
             f == [ref \in P |-> ref.name]
  <2>1. IsFiniteSet(loaded)
    <3>1. IsFiniteSet(1 .. n)
      BY <1>1, FS_Interval
    <3>2. registry \in Surjection(1 .. n, loaded)
      BY <1>5, <1>10 DEF Surjection
    <3> QED BY <3>1, <3>2, FS_Surjection
  <2>2. \A ref \in loaded : ref.id \in 1 .. next_id - 1
    BY <1>1, <1>2, <1>5
  <2>3. \A r1, r2 \in loaded : r1.name = r2.name \/ r1.id = r2.id => r1 = r2
    BY <1>1, <1>5
  <2>4. IsFiniteSet(P) /\ IsFiniteSet(Q)
    <3>1. Initial \in Surjection(1 .. n, Range(Initial))
      BY <1>1, LoRAAssumption DEF Surjection, Range
    <3>2. IsFiniteSet(Range(Initial))
      BY <1>1, <3>1, FS_Interval, FS_Surjection
    <3> QED BY <2>1, <3>2, FS_Subset
  <2>5. f \in Injection(P, Q)
    <3>1. \A ref \in P : ref.name \in Q
      BY <1>1, <1>5 DEF Range
    <3> QED BY <2>3, <3>1 DEF Injection, IsInjective
  <2>6. Cardinality(P) <= Cardinality(Q)
    <3> HIDE DEF P, Q, f
    <3> QED BY <2>4, <2>5, FS_Injection
  <2>7. Cardinality(P) <= MaxPinned
    <3> HIDE DEF P
    <3>1. Cardinality(P) \in Nat /\ Cardinality(Q) \in Nat
      BY <2>4, FS_CardinalityType, Zenon
    <3>2. Cardinality(Q) <= MaxPinned
      BY LoRAAssumption, Zenon
    <3> HIDE DEF Q
    <3> QED BY <2>6, <3>1, <3>2, Limits
  <2>8. next_id \in Nat \ {0}
    BY <1>1, <1>2
  <2> QED BY <2>1, <2>2, <2>3, <2>7, <2>8 DEF LoadedInv
<1>7. LockInv(Tasks, lora_update_lock)
  BY <1>2, <1>3 DEF LockInv, Active
<1>8. RegistryInv(Tasks, registry)
  <2>1. registry \in Seq(loaded) /\ Len(registry) = n
    BY <1>1, <1>10
  <2>2. IsInjective(registry)
    BY <1>1, <1>5 DEF IsInjective
  <2>3. \A t \in Tasks : ~Owes(t)
    BY <1>3 DEF Owes
  <2> QED BY <1>2, <2>1, <2>2, <2>3, LoRAAssumption DEF RegistryInv
<1>9. OpInv(Tasks, registry)
  BY <1>3 DEF OpInv, Active
<1> QED BY <1>4, <1>6, <1>7, <1>8, <1>9 DEF Inv

LEMMA StepInv == ASSUME Inv, [Next]_vars PROVE Inv'
<1>1. CASE UNCHANGED vars
  <2>1. \A u \in Tasks : Aside(u)
    BY <1>1 DEF vars, Aside
  <2> QED BY <1>1, <2>1, MoveInv DEF vars
<1>2. ASSUME NEW q \in Requests, Resolve(q) PROVE Inv'
  BY <1>2, ResolveInv
<1>3. ASSUME NEW u \in Updates, UpdateCall(u) PROVE Inv'
  BY <1>3, UpdateCallInv
<1>4. ASSUME NEW t \in Tasks, \/ LockGranted(t) \/ BackendLoad(t) \/ LoadAnswered(t)
                              \/ Drained(t) \/ BackendUnload(t) \/ UnloadAnswered(t)
      PROVE  Inv'
  BY <1>4, LockGrantedInv, BackendLoadInv, LoadAnsweredInv, DrainedInv, BackendUnloadInv, UnloadAnsweredInv
<1>5. ASSUME RequestStep PROVE Inv'
  BY <1>5, RequestInv
<1> QED BY <1>1, <1>2, <1>3, <1>4, <1>5, Zenon DEF Next, Begin, Internal, RequestStep

LEMMA InvHolds == Spec => []Inv
<1>1. Inv /\ [Next]_vars => Inv'
  BY StepInv
<1> QED BY <1>1, InitInv, PTL DEF Spec

-----------------------------------------------------------------------------
\* Two-phase update: what the registry offers is loaded in the scheduler, and the two agree
\* when no load or unload is under way, whatever the calls and their answers.
THEOREM RegistryAgrees == Spec => []RegistryMatchesBackend
<1>1. Inv => RegistryMatchesBackend
  <2> SUFFICES ASSUME Inv PROVE RegistryMatchesBackend
    OBVIOUS
  <2>1. Range(registry) \subseteq loaded
    BY DEF Inv, RegistryInv, Range
  <2>2. lora_update_lock = <<>> => Range(registry) = loaded
    <3>1. lora_update_lock = <<>> => \A t \in Tasks : ~Owes(t)
      BY DEF Inv, LockInv, Active, Owes
    <3> QED BY <3>1, Zenon DEF Inv, RegistryInv
  <2>3. \A r1, r2 \in loaded : r1.name = r2.name => r1 = r2
    BY DEF Inv, LoadedInv
  <2> QED BY <2>1, <2>2, <2>3 DEF RegistryMatchesBackend
<1> QED BY <1>1, InvHolds, PTL

\* max_loaded_loras: no sequence of loads makes the registry exceed the limit, and the
\* scheduler never holds more than one adapter above it.
THEOREM CapacityHolds == Spec => []CapacityKept
<1>1. Inv => CapacityKept
  <2> SUFFICES ASSUME Inv PROVE CapacityKept
    OBVIOUS
  <2>1. registry \in Seq(loaded) /\ Len(registry) <= MaxLoaded /\ Len(registry) \in Nat
    BY DEF Inv, RegistryInv
  <2>2. IsFiniteSet(Range(registry)) /\ Cardinality(Range(registry)) <= Len(registry)
        /\ Cardinality(Range(registry)) \in Nat
    <3>1. registry \in Surjection(1 .. Len(registry), Range(registry))
      BY <2>1 DEF Surjection, Range
    <3>2. IsFiniteSet(1 .. Len(registry)) /\ Cardinality(1 .. Len(registry)) = Len(registry)
      BY <2>1, FS_Interval, SMTT(30)
    <3>3. IsFiniteSet(Range(registry)) /\ Cardinality(Range(registry)) <= Cardinality(1 .. Len(registry))
      BY <3>1, <3>2, FS_Surjection
    <3> QED BY <3>2, <3>3, FS_CardinalityType
  <2>3. Cardinality(loaded) <= MaxLoaded + 1
    <3>1. CASE loaded = Range(registry)
      BY <2>1, <2>2, <3>1, Limits
    <3>2. CASE loaded # Range(registry)
      <4>1. PICK ref \in loaded : loaded = Range(registry) \cup {ref}
        BY <3>2, Zenon DEF Inv, RegistryInv
      <4>2. Cardinality(Range(registry) \cup {ref}) <= Cardinality(Range(registry)) + 1
            /\ Cardinality(Range(registry) \cup {ref}) \in Nat
        BY <2>2, FS_AddElement, FS_CardinalityType
      <4> QED BY <2>1, <2>2, <4>1, <4>2, Limits
    <3> QED BY <3>1, <3>2
  <2> QED BY <2>1, <2>3 DEF CapacityKept
<1> QED BY <1>1, InvHolds, PTL

\* _resolve_lora_path: a request for one adapter that was evicted finds it again, whatever
\* other requests and updates do while it waits for the lock and the load.
THEOREM ReloadFinds == Spec => []ReloadedIsFound
<1>1. Inv => ReloadedIsFound
  BY Zenon DEF Inv, OpInv, ReloadedIsFound, Tasks
<1> QED BY <1>1, InvHolds, PTL

=============================================================================
