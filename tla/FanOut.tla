-------------------------------- MODULE FanOut --------------------------------
(***************************************************************************)
(* FanOutCommunicator (managers/communicator.py): coroutines of the        *)
(* tokenizer process send one request to FanOutSize schedulers and wait    *)
(* for an answer from each of them.                                        *)
(*                                                                         *)
(* A round is one pair of _result_event and _result_values: the two are    *)
(* created together and dropped together, so current, the round they       *)
(* belong to, stands for both.  A coroutine keeps the round it waits for   *)
(* in its local variables (mine).  The code between two awaits is one      *)
(* step; an Event that is set only makes its waiters runnable, and they    *)
(* run in any order with the other coroutines.                             *)
(***************************************************************************)
EXTENDS Naturals, Sequences, FiniteSets

CONSTANTS
  Callers,     \* coroutines that call the communicator
  FanOutSize,  \* _fan_out, the number of recipients
  Modes,       \* the modes to look at, of "queueing" and "watching"
  MaxCalls,    \* bound on the number of calls
  None

ASSUME FanOutAssumption ==
  /\ IsFiniteSet(Callers)
  /\ FanOutSize \in Nat \ {0} /\ MaxCalls \in Nat
  /\ Modes \subseteq {"queueing", "watching"}
  /\ None \notin Nat

VARIABLES
  mode,         \* _mode
  current,      \* the round of _result_event and _result_values, or None
  values,       \* [round -> the requests its answers belong to, in order]
  fired,        \* the rounds whose event is set
  ready_queue,  \* _ready_queue, by the caller that waits
  woken,        \* the callers whose ready_event is set
  inbox,        \* [recipient -> requests it has to answer], first in first out
  pc,           \* [caller -> where it is]
  mine,         \* [caller -> the round it waits for or last waited for]
  result,       \* [caller -> what its last call returned], None before
  sent, calls,  \* how many requests were sent, how many calls were made
  broken        \* handle_recv met _result_values = None

vars == <<mode, current, values, fired, ready_queue, woken, inbox, pc, mine, result,
          sent, calls, broken>>

Rounds == 1 .. MaxCalls
Recipients == 1 .. FanOutSize

Init ==
  /\ mode \in Modes
  /\ current = None /\ values = [k \in Rounds |-> <<>>] /\ fired = {}
  /\ ready_queue = <<>> /\ woken = {}
  /\ inbox = [i \in Recipients |-> <<>>]
  /\ pc = [c \in Callers |-> "idle"]
  /\ mine = [c \in Callers |-> None]
  /\ result = [c \in Callers |-> None]
  /\ sent = 0 /\ calls = 0 /\ broken = FALSE

\* A new round: send the request, make the event and the list, wait.
Start(c) ==
  /\ sent' = sent + 1
  /\ inbox' = [i \in Recipients |-> Append(inbox[i], sent + 1)]
  /\ current' = sent + 1
  /\ mine' = [mine EXCEPT ![c] = sent + 1]
  /\ pc' = [pc EXCEPT ![c] = "waiting"]

-----------------------------------------------------------------------------
(* queueing mode                                                           *)

\* queueing_call up to its first await
QueueingCall(c) ==
  IF current # None \/ ready_queue # <<>>
    THEN /\ ready_queue' = Append(ready_queue, c)
         /\ pc' = [pc EXCEPT ![c] = "queued"]
         /\ UNCHANGED <<woken, current, inbox, mine, sent, result>>
    ELSE Start(c) /\ UNCHANGED <<ready_queue, woken, result>>

\* The ready event is set: two assertions, then a round of its own.
QueueingResume(c) ==
  /\ pc[c] = "queued" /\ c \in woken
  /\ woken' = woken \ {c}
  /\ IF current = None
       THEN Start(c)
       ELSE /\ pc' = [pc EXCEPT ![c] = "failed"]
            /\ UNCHANGED <<current, inbox, mine, sent>>
  /\ UNCHANGED <<mode, values, fired, ready_queue, result, calls, broken>>

\* Mutant: the next caller is not woken.
QueueingReturn_NoWake(c) ==
  /\ result' = [result EXCEPT ![c] = IF current = None THEN <<>> ELSE values[current]]
  /\ current' = None
  /\ UNCHANGED <<ready_queue, woken>>

\* The result event is set: take the values, wake the next caller.
QueueingReturn(c) ==
  /\ result' = [result EXCEPT ![c] = IF current = None THEN <<>> ELSE values[current]]
  /\ current' = None
  /\ IF ready_queue = <<>>
       THEN UNCHANGED <<ready_queue, woken>>
       ELSE /\ ready_queue' = Tail(ready_queue)
            /\ woken' = woken \cup {Head(ready_queue)}

-----------------------------------------------------------------------------
(* watching mode                                                           *)

\* Mutant: a call does not join the round in flight.
WatchingCall_NoJoin(c) == Start(c) /\ UNCHANGED <<ready_queue, woken, result>>

\* watching_call up to its await: start a round or join the one in flight.
\* When its event is set and no waiter has run yet, the await does not
\* suspend: the call returns the values and clears the shared state itself.
WatchingCall(c) ==
  /\ \/ current = None /\ Start(c) /\ UNCHANGED result
     \/ /\ current # None /\ current \notin fired
        /\ mine' = [mine EXCEPT ![c] = current]
        /\ pc' = [pc EXCEPT ![c] = "waiting"]
        /\ UNCHANGED <<current, inbox, sent, result>>
     \/ /\ current # None /\ current \in fired
        /\ mine' = [mine EXCEPT ![c] = current]
        /\ result' = [result EXCEPT ![c] = values[current]]
        /\ current' = None
        /\ UNCHANGED <<inbox, sent, pc>>
  /\ UNCHANGED <<ready_queue, woken>>

\* Mutants: the shared list is read after the await, or the shared state is
\* cleared by every waiter.
WatchingReturn_SharedValues(c) ==
  /\ result' = [result EXCEPT ![c] = IF current = None THEN <<>> ELSE values[current]]
  /\ current' = IF current = mine[c] THEN None ELSE current
  /\ UNCHANGED <<ready_queue, woken>>

WatchingReturn_AlwaysClear(c) ==
  /\ result' = [result EXCEPT ![c] = values[mine[c]]]
  /\ current' = None
  /\ UNCHANGED <<ready_queue, woken>>

\* The event is set: copy the list; the first waiter clears the shared state.
WatchingReturn(c) ==
  /\ result' = [result EXCEPT ![c] = values[mine[c]]]
  /\ current' = IF current = mine[c] THEN None ELSE current
  /\ UNCHANGED <<ready_queue, woken>>

-----------------------------------------------------------------------------
\* __call__
Call(c) ==
  /\ pc[c] = "idle" /\ calls < MaxCalls
  /\ IF mode = "queueing" THEN QueueingCall(c) ELSE WatchingCall(c)
  /\ calls' = calls + 1
  /\ UNCHANGED <<mode, values, fired, broken>>

Return(c) ==
  /\ pc[c] = "waiting" /\ mine[c] \in fired
  /\ IF mode = "queueing" THEN QueueingReturn(c) ELSE WatchingReturn(c)
  /\ pc' = [pc EXCEPT ![c] = "idle"]
  /\ UNCHANGED <<mode, values, fired, inbox, mine, sent, calls, broken>>

\* Recipient i answers its oldest request; handle_recv files the answer under
\* the round in flight and sets the event with the last one.
HandleRecv(i) ==
  /\ inbox[i] # <<>>
  /\ inbox' = [inbox EXCEPT ![i] = Tail(@)]
  /\ broken' = (broken \/ current = None)
  /\ IF current = None
       THEN UNCHANGED <<values, fired>>
       ELSE /\ values' = [values EXCEPT ![current] = Append(@, Head(inbox[i]))]
            /\ fired' = IF Len(values[current]) + 1 = FanOutSize
                          THEN fired \cup {current} ELSE fired
  /\ UNCHANGED <<mode, current, ready_queue, woken, pc, mine, result, sent, calls>>

Step(c) == QueueingResume(c) \/ Return(c)

Next ==
  \/ \E c \in Callers : Call(c) \/ Step(c)
  \/ \E i \in Recipients : HandleRecv(i)

Spec == Init /\ [][Next]_vars

\* The event loop runs every runnable coroutine, and every recipient answers.
FairSpec ==
  /\ Spec
  /\ \A c \in Callers : WF_vars(Step(c))
  /\ \A i \in Recipients : WF_vars(HandleRecv(i))

-----------------------------------------------------------------------------
(* Properties                                                              *)

\* Every variable has its type, and no round collects more answers than it
\* has recipients.
TypeOK ==
  /\ mode \in Modes
  /\ current \in Rounds \cup {None}
  /\ values \in [Rounds -> Seq(Rounds)]
  /\ \A k \in Rounds : Len(values[k]) <= FanOutSize
  /\ fired \subseteq Rounds
  /\ ready_queue \in Seq(Callers) /\ woken \subseteq Callers
  /\ inbox \in [Recipients -> Seq(Rounds)]
  /\ pc \in [Callers -> {"idle", "queued", "waiting", "failed"}]
  /\ mine \in [Callers -> Rounds \cup {None}]
  /\ sent \in 0 .. MaxCalls /\ calls \in 0 .. MaxCalls
  /\ broken \in BOOLEAN

\* "Only one request is in-flight at any time in either mode": the recipients
\* never have two different requests to answer.
OneInFlight ==
  Cardinality(UNION {{inbox[i][j] : j \in DOMAIN inbox[i]} : i \in Recipients}) <= 1

\* A call returns one answer of every recipient to the very request it sent,
\* or, watching, to the one it joined: no answer of an earlier or a later
\* round is mixed in.
ResultIsOwn ==
  \A c \in Callers :
    pc[c] = "idle" /\ result[c] # None => result[c] = [i \in Recipients |-> mine[c]]

\* handle_recv always finds a list to append to: no answer arrives when no
\* round is open.
AnswerExpected == ~broken

\* The assertions of queueing_call hold: a caller that is woken finds the
\* communicator free ("requests are serialized; concurrent callers wait in a
\* FIFO queue").
WokenFindsItFree == \A c \in Callers : pc[c] # "failed"

\* Every call ends: nobody stays in the queue or waits for an event that is
\* never set.
EveryCallEnds ==
  \A c \in Callers : (pc[c] \in {"queued", "waiting"}) ~> (pc[c] \in {"idle", "failed"})
=============================================================================
