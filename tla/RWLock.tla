------------------------------- MODULE RWLock -------------------------------
(***************************************************************************)
(* The asyncio reader/writer lock of python/sglang/srt/utils/aio_rwlock.py.*)
(*                                                                         *)
(* Every method body runs under the internal asyncio.Lock `_lock`, and the *)
(* only suspension point inside it is `await self._cond.wait()`, which     *)
(* gives `_lock` back.  No task is ever suspended while it holds `_lock`,  *)
(* so acquiring `_lock` never suspends either and each stretch of code     *)
(* between two waits is one atomic step of the event loop.                 *)
(*                                                                         *)
(* asyncio.Condition is external: a waiter is a future that notify_all     *)
(* sets; a task whose future is set runs at some later turn of the loop.   *)
(***************************************************************************)
EXTENDS Integers, FiniteSets

CONSTANTS
    Tasks,        \* asyncio tasks that share the lock
    MaxAcquires,  \* bound on the number of acquire_* calls
    MaxCancels,   \* bound on the number of task cancellations
    Renotify      \* TRUE: Condition.wait passes a notification on when it is
                  \* cancelled (CPython 3.13); FALSE: it does not (3.10 - 3.12)

ASSUME TasksAssumption == IsFiniteSet(Tasks)
ASSUME BoundsAssumption == MaxAcquires \in Nat /\ MaxCancels \in Nat
ASSUME RenotifyAssumption == Renotify \in BOOLEAN

VARIABLES
    readers,          \* _readers
    writer_active,    \* _writer_active
    waiting_writers,  \* _waiting_writers
    pc,               \* where each task stands
    notified,         \* tasks whose _cond waiter is set and that have not run yet
    acquires,         \* acquire_* calls so far (bound only)
    cancels           \* cancellations so far (bound only)

vars == <<readers, writer_active, waiting_writers, pc, notified, acquires, cancels>>
lockVars == <<readers, writer_active, waiting_writers>>

States == {"idle", "rwait", "reading", "wwait", "writing"}
Waiting == {t \in Tasks : pc[t] \in {"rwait", "wwait"}}

Init ==
    /\ readers = 0
    /\ writer_active = FALSE
    /\ waiting_writers = 0
    /\ pc = [t \in Tasks |-> "idle"]
    /\ notified = {}
    /\ acquires = 0
    /\ cancels = 0

-----------------------------------------------------------------------------
(* The loop conditions of acquire_reader and acquire_writer. *)

ReaderMustWait_IgnoreQueue == writer_active
WriterMustWait_IgnoreReaders == writer_active

ReaderMustWait == writer_active \/ waiting_writers > 0
WriterMustWait == writer_active \/ readers > 0

(* _cond.notify_all() *)
NotifyAll == notified' = Waiting

(* A new call of acquire_reader or acquire_writer. *)
Call(t) ==
    /\ pc[t] = "idle"
    /\ acquires < MaxAcquires
    /\ acquires' = acquires + 1
    /\ UNCHANGED <<notified, cancels>>

(* _cond.wait() returns in a task that was notified. *)
Resume(t) ==
    /\ t \in notified
    /\ notified' = notified \ {t}
    /\ UNCHANGED <<acquires, cancels>>

(* One pass of acquire_reader's loop: wait (again), or take the lock. *)
TryRead(t) ==
    /\ \/ /\ ReaderMustWait
          /\ pc' = [pc EXCEPT ![t] = "rwait"]
          /\ UNCHANGED readers
       \/ /\ ~ReaderMustWait
          /\ pc' = [pc EXCEPT ![t] = "reading"]
          /\ readers' = readers + 1
    /\ UNCHANGED <<writer_active, waiting_writers>>

AcquireReader(t) == Call(t) /\ TryRead(t)

ResumeReader(t) == pc[t] = "rwait" /\ Resume(t) /\ TryRead(t)

ReleaseReader_NoNotify(t) ==
    /\ pc[t] = "reading"
    /\ pc' = [pc EXCEPT ![t] = "idle"]
    /\ readers' = readers - 1
    /\ UNCHANGED <<writer_active, waiting_writers, notified, acquires, cancels>>

ReleaseReader(t) ==
    /\ pc[t] = "reading"
    /\ pc' = [pc EXCEPT ![t] = "idle"]
    /\ readers' = readers - 1
    /\ IF readers' = 0 THEN NotifyAll ELSE UNCHANGED notified
    /\ UNCHANGED <<writer_active, waiting_writers, acquires, cancels>>

(* One pass of acquire_writer's loop.  A task counts in waiting_writers from *)
(* its call until its finally clause, so `counted` says whether it already   *)
(* does: a writer that never waits leaves the count as it was.               *)
TryWrite(t, counted) ==
    /\ \/ /\ WriterMustWait
          /\ pc' = [pc EXCEPT ![t] = "wwait"]
          /\ waiting_writers' = waiting_writers + (1 - counted)
          /\ UNCHANGED writer_active
       \/ /\ ~WriterMustWait
          /\ pc' = [pc EXCEPT ![t] = "writing"]
          /\ writer_active' = TRUE
          /\ waiting_writers' = waiting_writers - counted
    /\ UNCHANGED readers

AcquireWriter(t) == Call(t) /\ TryWrite(t, 0)

ResumeWriter(t) == pc[t] = "wwait" /\ Resume(t) /\ TryWrite(t, 1)

ReleaseWriter(t) ==
    /\ pc[t] = "writing"
    /\ pc' = [pc EXCEPT ![t] = "idle"]
    /\ writer_active' = FALSE
    /\ NotifyAll
    /\ UNCHANGED <<readers, waiting_writers, acquires, cancels>>

(* Cancellation is thrown into a task suspended in _cond.wait(), which takes *)
(* `_lock` back and re-raises.  acquire_reader has nothing to undo;          *)
(* acquire_writer's finally takes the task out of waiting_writers without    *)
(* notifying anyone.  With Renotify, wait() itself first wakes one waiter.   *)
Cancel(t) ==
    /\ cancels < MaxCancels
    /\ cancels' = cancels + 1
    /\ pc[t] \in {"rwait", "wwait"}
    /\ pc' = [pc EXCEPT ![t] = "idle"]
    /\ \/ /\ Renotify
          /\ \E u \in Waiting \ (notified \cup {t}) :
                notified' = (notified \ {t}) \cup {u}
       \/ /\ ~Renotify \/ Waiting \subseteq notified \cup {t}
          /\ notified' = notified \ {t}
    /\ UNCHANGED <<readers, writer_active, acquires>>

CancelWriter_NoFinally(t) == pc[t] = "wwait" /\ Cancel(t) /\ UNCHANGED waiting_writers

CancelReader(t) == pc[t] = "rwait" /\ Cancel(t) /\ UNCHANGED waiting_writers

CancelWriter(t) ==
    pc[t] = "wwait" /\ Cancel(t) /\ waiting_writers' = waiting_writers - 1

Next ==
    \E t \in Tasks :
        \/ AcquireReader(t) \/ ResumeReader(t) \/ ReleaseReader(t)
        \/ AcquireWriter(t) \/ ResumeWriter(t) \/ ReleaseWriter(t)
        \/ CancelReader(t) \/ CancelWriter(t)

Spec == Init /\ [][Next]_vars

-----------------------------------------------------------------------------
(* The state of the lock is well formed. *)
TypeOK ==
    /\ readers \in Nat
    /\ writer_active \in BOOLEAN
    /\ waiting_writers \in Nat
    /\ pc \in [Tasks -> States]
    /\ notified \subseteq Waiting
    /\ acquires \in Nat
    /\ cancels \in Nat

(* A task inside writer_lock excludes every reader and every other writer.   *)
Exclusion ==
    \A t, u \in Tasks :
        pc[t] = "writing" /\ t # u => pc[u] \notin {"reading", "writing"}

Count(f, s) == Cardinality({t \in Tasks : f[t] = s})

(* The three counters are exactly the tasks they stand for after any history *)
(* of waits, retries and cancellations: a count that drifts up would block   *)
(* every later caller, one that drifts down would admit a second holder.     *)
CountersExact ==
    /\ readers = Count(pc, "reading")
    /\ waiting_writers = Count(pc, "wwait")
    /\ writer_active <=> \E t \in Tasks : pc[t] = "writing"

(* A waiter that no notify_all has reached has a task to wait for: a writer  *)
(* waits only while somebody holds the lock, and a reader (as long as no     *)
(* task was cancelled) only while a writer holds it or queues for it.        *)
NoLostWakeup ==
    \A t \in Waiting \ notified :
        /\ pc[t] = "wwait" => WriterMustWait
        /\ pc[t] = "rwait" /\ cancels = 0 => ReaderMustWait

(* acquire_reader gives way to writers: no step admits a reader while some   *)
(* task is inside acquire_writer's wait or holds the lock for writing.       *)
WriterPreference ==
    [][\A t \in Tasks :
          pc[t] # "reading" /\ pc'[t] = "reading" =>
             \A u \in Tasks : pc[u] \notin {"wwait", "writing"}]_vars
=============================================================================
