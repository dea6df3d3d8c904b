---------------------------- MODULE RWLockProofs ----------------------------
(***************************************************************************)
(* Proofs about the reader/writer lock for every finite set of tasks, any  *)
(* number of calls and cancellations, and both behaviours of               *)
(* asyncio.Condition on cancellation.                                      *)
(***************************************************************************)
EXTENDS RWLock, FiniteSetTheorems, TLAPS

(* The tasks that stand at s, as a set: its cardinality is Count. *)
At(f, s) == {t \in Tasks : f[t] = s}

(* When one task moves from one place to another, the places it leaves and   *)
(* enters change by one and every other place keeps its count.               *)
LEMMA MoveCounts ==
    ASSUME pc \in [Tasks -> States], NEW t \in Tasks, NEW s \in States, pc[t] # s,
           pc' = [pc EXCEPT ![t] = s]
    PROVE  \A r \in States :
              Count(pc', r) = IF r = s THEN Count(pc, r) + 1
                              ELSE IF r = pc[t] THEN Count(pc, r) - 1
                              ELSE Count(pc, r)
<1> SUFFICES ASSUME NEW r \in States
             PROVE  Count(pc', r) = IF r = s THEN Count(pc, r) + 1
                                    ELSE IF r = pc[t] THEN Count(pc, r) - 1
                                    ELSE Count(pc, r)
    BY Zenon
<1>1. \A u \in Tasks : pc'[u] = IF u = t THEN s ELSE pc[u]
    OBVIOUS
<1>2. /\ IsFiniteSet(At(pc, r)) /\ Count(pc, r) = Cardinality(At(pc, r))
      /\ IsFiniteSet(At(pc', r)) /\ Count(pc', r) = Cardinality(At(pc', r))
    BY TasksAssumption, FS_Subset DEF At, Count
<1>3. CASE r = s
    <2>1. At(pc', r) = At(pc, r) \cup {t} /\ t \notin At(pc, r)
        BY <1>1, <1>3 DEF At
    <2>2. Cardinality(At(pc, r) \cup {t}) = Cardinality(At(pc, r)) + 1
        BY <2>1, <1>2, FS_AddElement
    <2> QED BY <2>1, <2>2, <1>2, <1>3, Zenon
<1>4. CASE r = pc[t]
    <2>1. At(pc', r) = At(pc, r) \ {t} /\ t \in At(pc, r)
        BY <1>1, <1>4 DEF At
    <2>2. Cardinality(At(pc, r) \ {t}) = Cardinality(At(pc, r)) - 1
        BY <2>1, <1>2, FS_RemoveElement, Zenon
    <2>3. r # s
        BY <1>4
    <2> QED BY <2>1, <2>2, <2>3, <1>2, <1>4, Zenon
<1>5. CASE r # s /\ r # pc[t]
    <2>1. At(pc', r) = At(pc, r)
        BY <1>1, <1>5 DEF At
    <2> QED BY <2>1, <1>2, <1>5
<1> QED BY <1>3, <1>4, <1>5

(* A place is empty exactly when its count is zero. *)
LEMMA CountZero ==
    ASSUME NEW f, NEW s
    PROVE  /\ Count(f, s) \in Nat
           /\ Count(f, s) = 0 <=> \A t \in Tasks : f[t] # s
<1>1. IsFiniteSet(At(f, s)) /\ Count(f, s) = Cardinality(At(f, s))
    BY TasksAssumption, FS_Subset DEF At, Count
<1>2. Count(f, s) \in Nat /\ (Count(f, s) = 0 <=> At(f, s) = {})
    BY <1>1, FS_CardinalityType, FS_EmptySet
<1> QED BY <1>2 DEF At

(* The inductive invariant: the counters are exact, so the conditions the    *)
(* code tests on counters are conditions on tasks.                           *)
IInv == TypeOK /\ CountersExact /\ Exclusion /\ NoLostWakeup

LEMMA InitIInv == Init => IInv
<1> SUFFICES ASSUME Init PROVE IInv
    OBVIOUS
<1>1. TypeOK
    BY Zenon DEF Init, TypeOK, Waiting, States
<1>2. CountersExact
    BY CountZero DEF Init, CountersExact
<1>3. Exclusion /\ NoLostWakeup
    BY DEF Init, Exclusion, NoLostWakeup, Waiting
<1> QED BY <1>1, <1>2, <1>3 DEF IInv

(* Under the invariant, what the counters say about the other tasks. *)
LEMMA CountersMean ==
    ASSUME IInv
    PROVE  /\ readers > 0 <=> \E t \in Tasks : pc[t] = "reading"
           /\ waiting_writers > 0 <=> \E t \in Tasks : pc[t] = "wwait"
           /\ writer_active <=> \E t \in Tasks : pc[t] = "writing"
<1>1. /\ readers = Count(pc, "reading") /\ waiting_writers = Count(pc, "wwait")
      /\ writer_active <=> \E t \in Tasks : pc[t] = "writing"
    BY DEF IInv, CountersExact
<1>2. \A s : Count(pc, s) \in Nat
             /\ (Count(pc, s) = 0 <=> \A t \in Tasks : pc[t] # s)
    BY CountZero
<1> QED BY <1>1, <1>2

LEMMA TryReadInv ==
    ASSUME IInv, NEW t \in Tasks, pc[t] \in {"idle", "rwait"}, TryRead(t),
           \/ Call(t) /\ pc[t] = "idle"
           \/ Resume(t) /\ pc[t] = "rwait"
    PROVE  IInv'
<1>1. TypeOK'
    BY DEF IInv, TypeOK, TryRead, Call, Resume, Waiting, States
<1>2. CASE ReaderMustWait
    <2>1. pc' = [pc EXCEPT ![t] = "rwait"] /\ UNCHANGED <<readers, writer_active, waiting_writers>>
        BY <1>2 DEF TryRead
    <2>2. CASE pc[t] = "rwait"
        <3>1. pc' = pc
            BY <2>1, <2>2 DEF IInv, TypeOK
        <3>2. notified' = notified \ {t} /\ cancels' = cancels
            BY <2>2 DEF Call, Resume
        <3> QED BY <3>1, <3>2, <2>1, <1>1, <1>2, Zenon
              DEF IInv, CountersExact, Exclusion, NoLostWakeup, Waiting,
                  ReaderMustWait, WriterMustWait
    <2>3. CASE pc[t] = "idle"
        <3>1. CountersExact'
            <4>1. Count(pc', "reading") = Count(pc, "reading") /\ Count(pc', "wwait") = Count(pc, "wwait")
                BY <2>1, <2>3, MoveCounts, Zenon DEF IInv, TypeOK, States
            <4> QED BY <4>1, <2>1, <2>3 DEF IInv, TypeOK, CountersExact
        <3>2. Exclusion'
            BY <2>1, <2>3 DEF IInv, TypeOK, Exclusion
        <3>3. NoLostWakeup'
            <4>1. notified' = notified /\ cancels' = cancels
                BY <2>3 DEF Call, Resume
            <4> QED BY <4>1, <2>1, <2>3, <1>2
                  DEF IInv, TypeOK, NoLostWakeup, Waiting, ReaderMustWait, WriterMustWait
        <3> QED BY <3>1, <3>2, <3>3, <1>1 DEF IInv
    <2> QED BY <2>2, <2>3
<1>3. CASE ~ReaderMustWait
    <2>1. /\ pc' = [pc EXCEPT ![t] = "reading"] /\ readers' = readers + 1
          /\ UNCHANGED <<writer_active, waiting_writers>>
        BY <1>3 DEF TryRead
    <2>2. CountersExact'
        <3>1. /\ Count(pc', "reading") = Count(pc, "reading") + 1
              /\ Count(pc', "wwait") = Count(pc, "wwait")
            BY <2>1, MoveCounts, Zenon DEF IInv, TypeOK, States
        <3>2. writer_active' <=> \E u \in Tasks : pc'[u] = "writing"
            BY <2>1 DEF IInv, TypeOK, CountersExact
        <3> QED BY <3>1, <3>2, <2>1 DEF IInv, TypeOK, CountersExact
    <2>3. Exclusion'
        <3>1. \A u \in Tasks : pc[u] # "writing"
            BY <1>3, CountersMean DEF ReaderMustWait
        <3> QED BY <3>1, <2>1 DEF IInv, TypeOK, Exclusion
    <2>4. NoLostWakeup'
        <3>1. readers' > 0
            BY <2>1 DEF IInv, TypeOK
        <3>2. cancels' = cancels /\ notified \ {t} \subseteq notified'
            BY DEF Call, Resume
        <3>3. \A u \in Tasks : pc'[u] = "rwait" /\ u \notin notified' => pc[u] = "rwait" /\ u \notin notified
            BY <2>1, <3>2 DEF IInv, TypeOK
        <3> QED BY <3>1, <3>2, <3>3, <2>1
              DEF IInv, NoLostWakeup, Waiting, ReaderMustWait, WriterMustWait
    <2> QED BY <2>2, <2>3, <2>4, <1>1 DEF IInv
<1> QED BY <1>2, <1>3

LEMMA TryWriteInv ==
    ASSUME IInv, NEW t \in Tasks, NEW counted \in {0, 1}, TryWrite(t, counted),
           \/ Call(t) /\ pc[t] = "idle" /\ counted = 0
           \/ Resume(t) /\ pc[t] = "wwait" /\ counted = 1
    PROVE  IInv'
<1>0. /\ cancels' = cancels /\ notified \ {t} \subseteq notified' /\ notified' \subseteq notified
      /\ acquires' \in Nat
      /\ pc[t] = "wwait" => notified' = notified \ {t}
      /\ pc[t] = "wwait" => waiting_writers > 0
      /\ pc[t] = "idle" => t \notin notified
    BY CountersMean DEF Call, Resume, IInv, TypeOK, Waiting
<1>1. CASE WriterMustWait
    <2>1. /\ pc' = [pc EXCEPT ![t] = "wwait"]
          /\ waiting_writers' = waiting_writers + (1 - counted)
          /\ UNCHANGED <<readers, writer_active>>
        BY <1>1 DEF TryWrite
    <2>2. TypeOK'
        BY <2>1, <1>0 DEF IInv, TypeOK, Waiting, States
    <2>3. CountersExact'
        <3>1. CASE pc[t] = "wwait"
            <4>1. pc' = pc /\ waiting_writers' = waiting_writers
                BY <2>1, <3>1 DEF IInv, TypeOK
            <4> QED BY <4>1, <2>1, Zenon DEF IInv, CountersExact
        <3>2. CASE pc[t] = "idle"
            <4>1. /\ Count(pc', "reading") = Count(pc, "reading")
                  /\ Count(pc', "wwait") = Count(pc, "wwait") + 1
                BY <2>1, <3>2, MoveCounts, Zenon DEF IInv, TypeOK, States
            <4>2. counted = 0
                BY <3>2
            <4>3. writer_active' <=> \E u \in Tasks : pc'[u] = "writing"
                BY <2>1, <3>2 DEF IInv, TypeOK, CountersExact
            <4> QED BY <4>1, <4>2, <4>3, <2>1 DEF IInv, TypeOK, CountersExact
        <3> QED BY <3>1, <3>2
    <2>4. Exclusion'
        BY <2>1 DEF IInv, TypeOK, Exclusion
    <2>5. NoLostWakeup'
        <3>1. WriterMustWait'
            BY <1>1, <2>1 DEF WriterMustWait
        <3>2. ReaderMustWait => ReaderMustWait'
            BY <2>1 DEF ReaderMustWait, IInv, TypeOK
        <3>3. \A u \in Tasks : pc'[u] = "rwait" /\ u \notin notified' => pc[u] = "rwait" /\ u \notin notified
            BY <2>1, <1>0 DEF IInv, TypeOK
        <3> QED BY <3>1, <3>2, <3>3, <1>0 DEF IInv, NoLostWakeup, Waiting
    <2> QED BY <2>2, <2>3, <2>4, <2>5 DEF IInv
<1>2. CASE ~WriterMustWait
    <2>1. /\ pc' = [pc EXCEPT ![t] = "writing"] /\ writer_active' = TRUE
          /\ waiting_writers' = waiting_writers - counted /\ readers' = readers
        BY <1>2 DEF TryWrite
    <2>2. TypeOK'
        BY <2>1, <1>0 DEF IInv, TypeOK, Waiting, States
    <2>3. CountersExact'
        <3>1. /\ Count(pc', "reading") = Count(pc, "reading")
              /\ Count(pc', "wwait") = Count(pc, "wwait") - counted
            <4>1. /\ Count(pc', "reading") = Count(pc, "reading")
                  /\ Count(pc', "wwait") = IF pc[t] = "wwait" THEN Count(pc, "wwait") - 1
                                           ELSE Count(pc, "wwait")
                BY <2>1, MoveCounts, Zenon DEF IInv, TypeOK, States
            <4>2. (pc[t] = "wwait" /\ counted = 1) \/ (pc[t] = "idle" /\ counted = 0)
                OBVIOUS
            <4>3. Count(pc, "wwait") \in Nat
                BY CountZero
            <4> QED BY <4>1, <4>2, <4>3
        <3>2. \E u \in Tasks : pc'[u] = "writing"
            BY <2>1 DEF IInv, TypeOK
        <3> QED BY <3>1, <3>2, <2>1 DEF IInv, TypeOK, CountersExact
    <2>4. Exclusion'
        <3>1. \A u \in Tasks : pc[u] \notin {"reading", "writing"}
            BY <1>2, CountersMean DEF WriterMustWait
        <3> QED BY <3>1, <2>1 DEF IInv, TypeOK, Exclusion
    <2>5. NoLostWakeup'
        BY <2>1 DEF NoLostWakeup, ReaderMustWait, WriterMustWait
    <2> QED BY <2>2, <2>3, <2>4, <2>5 DEF IInv
<1> QED BY <1>1, <1>2

LEMMA ReleaseInv ==
    ASSUME IInv, NEW t \in Tasks, ReleaseReader(t) \/ ReleaseWriter(t)
    PROVE  IInv'
<1>0. pc' = [pc EXCEPT ![t] = "idle"] /\ UNCHANGED <<waiting_writers, acquires, cancels>>
    BY DEF ReleaseReader, ReleaseWriter
<1>1. CASE ReleaseReader(t)
    <2>1. /\ readers > 0 /\ readers' = readers - 1 /\ pc[t] = "reading"
          /\ UNCHANGED writer_active
          /\ notified' = IF readers' = 0 THEN Waiting ELSE notified
        BY <1>1, CountersMean DEF ReleaseReader, NotifyAll
    <2>2. TypeOK'
        BY <1>0, <2>1 DEF IInv, TypeOK, Waiting, States
    <2>3. CountersExact'
        <3>1. /\ Count(pc', "reading") = Count(pc, "reading") - 1
              /\ Count(pc', "wwait") = Count(pc, "wwait")
            BY <1>0, <2>1, MoveCounts, Zenon DEF IInv, TypeOK, States
        <3>2. writer_active' <=> \E u \in Tasks : pc'[u] = "writing"
            BY <1>0, <2>1 DEF IInv, TypeOK, CountersExact
        <3> QED BY <3>1, <3>2, <1>0, <2>1 DEF IInv, TypeOK, CountersExact
    <2>4. NoLostWakeup'
        <3>1. Waiting' = Waiting /\ \A u \in Waiting : pc'[u] = pc[u]
            BY <1>0, <2>1 DEF IInv, TypeOK, Waiting
        <3>2. CASE readers' = 0
            BY <3>1, <3>2, <2>1, Zenon DEF NoLostWakeup
        <3>3. CASE readers' # 0
            <4>1. WriterMustWait' /\ (ReaderMustWait => ReaderMustWait')
                BY <3>3, <1>0, <2>1 DEF WriterMustWait, ReaderMustWait, IInv, TypeOK
            <4> QED BY <4>1, <3>1, <3>3, <1>0, <2>1 DEF IInv, NoLostWakeup
        <3> QED BY <3>2, <3>3
    <2> QED BY <2>2, <2>3, <2>4, <1>0 DEF IInv, TypeOK, Exclusion
<1>2. CASE ReleaseWriter(t)
    <2>1. /\ writer_active' = FALSE /\ pc[t] = "writing" /\ UNCHANGED readers
          /\ notified' = Waiting
        BY <1>2 DEF ReleaseWriter, NotifyAll
    <2>2. TypeOK'
        BY <1>0, <2>1, Zenon DEF IInv, TypeOK, Waiting, States
    <2>3. CountersExact'
        <3>1. /\ Count(pc', "reading") = Count(pc, "reading")
              /\ Count(pc', "wwait") = Count(pc, "wwait")
            BY <1>0, <2>1, MoveCounts, Zenon DEF IInv, TypeOK, States
        <3>2. ~ \E u \in Tasks : pc'[u] = "writing"
            BY <1>0, <2>1 DEF IInv, TypeOK, Exclusion
        <3> QED BY <3>1, <3>2, <1>0, <2>1 DEF IInv, TypeOK, CountersExact
    <2>4. NoLostWakeup'
        BY <1>0, <2>1 DEF IInv, TypeOK, NoLostWakeup, Waiting
    <2> QED BY <2>2, <2>3, <2>4, <1>0 DEF IInv, TypeOK, Exclusion
<1> QED BY <1>1, <1>2

LEMMA CancelInv ==
    ASSUME IInv, NEW t \in Tasks, CancelReader(t) \/ CancelWriter(t)
    PROVE  IInv'
<1>1. /\ pc[t] \in {"rwait", "wwait"} /\ pc' = [pc EXCEPT ![t] = "idle"]
      /\ UNCHANGED <<readers, writer_active, acquires>> /\ cancels' = cancels + 1
      /\ notified \ {t} \subseteq notified' /\ notified' \subseteq Waiting \ {t}
      /\ pc[t] = "wwait" => waiting_writers' = waiting_writers - 1 /\ waiting_writers > 0
      /\ pc[t] = "rwait" => waiting_writers' = waiting_writers
    BY CountersMean DEF CancelReader, CancelWriter, Cancel, IInv, TypeOK
<1>2. TypeOK'
    BY <1>1 DEF IInv, TypeOK, Waiting, States
<1>3. CountersExact'
    <2>1. /\ Count(pc', "reading") = Count(pc, "reading")
          /\ Count(pc', "wwait") = IF pc[t] = "wwait" THEN Count(pc, "wwait") - 1
                                   ELSE Count(pc, "wwait")
        BY <1>1, MoveCounts, Zenon DEF IInv, TypeOK, States
    <2>2. writer_active' <=> \E u \in Tasks : pc'[u] = "writing"
        BY <1>1 DEF IInv, TypeOK, CountersExact
    <2> QED BY <2>1, <2>2, <1>1 DEF IInv, CountersExact
<1>4. Exclusion'
    BY <1>1 DEF IInv, TypeOK, Exclusion
<1>5. NoLostWakeup'
    <2>1. cancels' # 0 /\ WriterMustWait' = WriterMustWait
        BY <1>1 DEF IInv, TypeOK, WriterMustWait
    <2>2. \A u \in Waiting' \ notified' : u \in Waiting \ notified /\ pc'[u] = pc[u]
        BY <1>1 DEF IInv, TypeOK, Waiting
    <2> QED BY <2>1, <2>2 DEF IInv, NoLostWakeup
<1> QED BY <1>2, <1>3, <1>4, <1>5 DEF IInv

LEMMA NextIInv == IInv /\ [Next]_vars => IInv'
<1> SUFFICES ASSUME IInv, [Next]_vars PROVE IInv'
    OBVIOUS
<1>1. CASE UNCHANGED vars
    BY <1>1 DEF vars, IInv, TypeOK, CountersExact, Exclusion, NoLostWakeup, Waiting,
                ReaderMustWait, WriterMustWait, Count
<1>2. ASSUME NEW t \in Tasks, AcquireReader(t) PROVE IInv'
    BY <1>2, TryReadInv DEF AcquireReader, Call
<1>3. ASSUME NEW t \in Tasks, ResumeReader(t) PROVE IInv'
    BY <1>3, TryReadInv DEF ResumeReader
<1>4. ASSUME NEW t \in Tasks, AcquireWriter(t) PROVE IInv'
    BY <1>4, TryWriteInv DEF AcquireWriter, Call
<1>5. ASSUME NEW t \in Tasks, ResumeWriter(t) PROVE IInv'
    BY <1>5, TryWriteInv DEF ResumeWriter
<1>6. ASSUME NEW t \in Tasks, ReleaseReader(t) \/ ReleaseWriter(t) PROVE IInv'
    BY <1>6, ReleaseInv
<1>7. ASSUME NEW t \in Tasks, CancelReader(t) \/ CancelWriter(t) PROVE IInv'
    BY <1>7, CancelInv
<1> QED BY <1>1, <1>2, <1>3, <1>4, <1>5, <1>6, <1>7 DEF Next

(* IInv holds in every reachable state. *)
THEOREM LockInvariant == Spec => []IInv
BY InitIInv, NextIInv, PTL DEF Spec

(* The lock excludes, whatever the number of tasks and cancellations: a task *)
(* between acquire_writer and release_writer is alone.                       *)
THEOREM LockExclusion == Spec => []Exclusion
<1>1. IInv => Exclusion
    BY DEF IInv
<1> QED BY <1>1, LockInvariant, PTL

(* _readers, _waiting_writers and _writer_active never drift from the tasks  *)
(* they count, on the cancellation paths included.                           *)
THEOREM LockCountersExact == Spec => []CountersExact
<1>1. IInv => CountersExact
    BY DEF IInv
<1> QED BY <1>1, LockInvariant, PTL

(* No writer waits un-notified on a free lock, and without cancellation no   *)
(* reader waits un-notified either once writers are gone.                    *)
THEOREM LockNoLostWakeup == Spec => []NoLostWakeup
<1>1. IInv => NoLostWakeup
    BY DEF IInv
<1> QED BY <1>1, LockInvariant, PTL

(* The counters of the lock stay natural numbers, and only waiting tasks are *)
(* ever notified, on the cancellation paths included.                        *)
THEOREM LockTypeOK == Spec => []TypeOK
<1>1. IInv => TypeOK
    BY DEF IInv
<1> QED BY <1>1, LockInvariant, PTL

(* No step of the lock admits a reader past a waiting or active writer. *)
THEOREM LockWriterPreference == Spec => WriterPreference
<1>1. IInv /\ [Next]_vars =>
        [\A t \in Tasks :
            pc[t] # "reading" /\ pc'[t] = "reading" =>
               \A u \in Tasks : pc[u] \notin {"wwait", "writing"}]_vars
    <2> SUFFICES ASSUME IInv, Next, NEW t \in Tasks, pc[t] # "reading", pc'[t] = "reading"
                 PROVE  \A u \in Tasks : pc[u] \notin {"wwait", "writing"}
        OBVIOUS
    <2>1. ~ReaderMustWait
        BY DEF IInv, TypeOK, Next, AcquireReader, ResumeReader, TryRead, ReleaseReader,
               AcquireWriter, ResumeWriter, TryWrite, ReleaseWriter,
               CancelReader, CancelWriter, Cancel
    <2> QED BY <2>1, CountersMean DEF ReaderMustWait
<1> QED BY <1>1, LockInvariant, PTL DEF Spec, WriterPreference
=============================================================================
