-------------------------- MODULE WeightUpdateProofs --------------------------
(***************************************************************************)
(* The requests and updates of the tokenizer manager use the lock as       *)
(* RWLock's specification says, so what is proved of the lock holds of     *)
(* them, for any number of requests and clients and any calls.             *)
(***************************************************************************)
EXTENDS WeightUpdate, RWLockProofs

\* A request's step is one step of the lock, or leaves the lock alone: generate_request
\* takes the reader lock once and gives it back on every way out.
LEMMA RequestUsesLock ==
  ASSUME NEW r \in Requests,
         \/ Generate(r) \/ GenerateGranted(r) \/ ReaderGranted(r) \/ SendOne(r) \/ Answer(r)
         \/ TokenizeError(r) \/ Disconnect(r) \/ CancelRequest(r)
  PROVE  [Next]_vars
<1>1. r \in Tasks
  BY WeightAssumption
<1>2. CASE Generate(r)
  BY <1>1, <1>2 DEF Generate, PauseCheck, Next
<1>3. CASE GenerateGranted(r)
  BY <1>1, <1>3 DEF GenerateGranted, PauseCheck, Next
<1>4. CASE ReaderGranted(r) \/ Answer(r) \/ TokenizeError(r) \/ Disconnect(r) \/ CancelRequest(r)
  BY <1>1, <1>4, Zenon DEF ReaderGranted, Answer, TokenizeError, Disconnect, CancelRequest, Next
<1>5. CASE SendOne(r)
  BY <1>5 DEF SendOne
<1> QED BY <1>2, <1>3, <1>4, <1>5

\* So is a client's: an update takes the writer lock only while it is not paused, and
\* gives it back when it is answered.
LEMMA ClientUsesLock ==
  ASSUME NEW c \in Clients,
         \/ ClientCall(c) \/ ClientGranted(c) \/ DrainAgain(c) \/ WriterGranted(c)
         \/ CommunicatorGranted(c) \/ UpdateAnswered(c) \/ CancelUpdate(c)
  PROVE  [Next]_vars
<1>1. c \in Tasks
  BY WeightAssumption
<1>2. ASSUME NEW waiters, NEW box, Perform(c, waiters, box)
      PROVE  [Next]_vars
  BY <1>1, <1>2 DEF Perform, Pause, Continue, UpdateFromDisk, UpdateThroughCommunicator,
                    UpdateUnderLock, Next
<1>3. CASE ClientCall(c)
  BY <1>2, <1>3 DEF ClientCall
<1>4. CASE ClientGranted(c)
  BY <1>2, <1>4 DEF ClientGranted
<1>5. CASE DrainAgain(c) \/ CommunicatorGranted(c)
  BY <1>5 DEF DrainAgain, CommunicatorGranted
<1>6. CASE WriterGranted(c) \/ UpdateAnswered(c) \/ CancelUpdate(c)
  BY <1>1, <1>6, Zenon DEF WriterGranted, UpdateAnswered, CancelUpdate, Next
<1> QED BY <1>3, <1>4, <1>5, <1>6

\* The composition implements the specification of the lock: generate_request,
\* pause_generation and the update_weights_from_* methods never touch the lock other
\* than by its operations, one at a time.
THEOREM UsersKeepTheLock == WSpec => Spec
<1>1. WInit => Init
  BY Zenon DEF WInit
<1>2. [WNext]_allVars => [Next]_vars
  <2> SUFFICES ASSUME [WNext]_allVars PROVE [Next]_vars
    OBVIOUS
  <2>1. CASE \E r \in Requests :
               \/ Generate(r) \/ GenerateGranted(r) \/ ReaderGranted(r) \/ SendOne(r) \/ Answer(r)
               \/ TokenizeError(r) \/ Disconnect(r) \/ CancelRequest(r)
    BY <2>1, RequestUsesLock
  <2>2. CASE \E c \in Clients :
               \/ ClientCall(c) \/ ClientGranted(c) \/ DrainAgain(c) \/ WriterGranted(c)
               \/ CommunicatorGranted(c) \/ UpdateAnswered(c) \/ CancelUpdate(c)
    BY <2>2, ClientUsesLock
  <2>3. CASE HandleDiskOutput \/ SchedRecv \/ SchedBatch
    BY <2>3, Zenon DEF HandleDiskOutput, SchedRecv, SchedBatch
  <2>4. CASE UNCHANGED allVars
    BY <2>4 DEF allVars
  <2> QED BY <2>1, <2>2, <2>3, <2>4 DEF WNext
<1> QED BY <1>1, <1>2, PTL DEF WSpec, Spec

\* An update that holds the writer lock has every request that reads, and every other
\* such update, shut out, whatever is paused, aborted or cancelled meanwhile.
THEOREM UpdateExcludesRequests == WSpec => []Exclusion
  BY UsersKeepTheLock, LockExclusion, PTL

\* No request gets the reader lock while an update waits for the writer lock or has it,
\* so a stream of requests cannot keep an update out.
THEOREM UpdatesComeFirst == WSpec => WriterPreference
  BY UsersKeepTheLock, LockWriterPreference, PTL
-----------------------------------------------------------------------------
(***************************************************************************)
(* OneVersionPerAnswer.  Without calls that keep requests or KV, every     *)
(* update the scheduler gets flushes: it finds the scheduler idle, and     *)
(* then no request and no cache entry is left with KV of the old weights,  *)
(* or the failed flush ends the scheduler.  So whatever is in a batch or   *)
(* in the cache was computed with the current weights.                     *)
(***************************************************************************)

\* Where a coroutine is, and where it is before it has sent its request.
Stages == {"new", "woken", "sleep", "cond", "lock", "tokenizing", "sent", "over", "gone",
           "ready", "drain", "queued", "awaiting"}
Unsent == {"new", "woken", "sleep", "cond", "lock", "tokenizing"}

\* The updates that clients make, and the messages to the scheduler while no client
\* pauses in a mode that keeps requests.
Updates ==
  {o \in UNION {{scenario.script[c][i] : i \in DOMAIN scenario.script[c]} : c \in Clients} :
     o.op = "update"}
Messages ==
  [type : {"generate", "abort"}, whom : SUBSET Requests] \cup [type : {"continue"}]
    \cup [type : {"update"}, from : Clients, obj : Updates]

\* Message i of the queue q starts the request r.
Starts(q, i, r) == q[i].type = "generate" /\ r \in q[i].whom

\* A client between the start and the end of a call makes one of its script, and one
\* that waits for the writer lock or for the communicator makes an update.
CallsInScript ==
  \A c \in Clients :
    /\ at[c] # "ready" => step[c] \in DOMAIN scenario.script[c]
    /\ at[c] \in {"lock", "queued"} => Op(c).op = "update"

\* A request is sent once, and until the scheduler has its message it has nothing of it.
SentOnce ==
  \A r \in Requests :
    /\ at[r] \in Unsent => place[r] = "none" /\ \A i \in DOMAIN inbox : ~Starts(inbox, i, r)
    /\ \A i, j \in DOMAIN inbox : Starts(inbox, i, r) /\ Starts(inbox, j, r) => i = j
    /\ \A i \in DOMAIN inbox : Starts(inbox, i, r) => place[r] = "none"
    /\ place[r] = "none" => seen[r] = {} /\ reply[r] # "stop"

\* Until the scheduler ends, the KV in its batches and in its cache is of the
\* current weights.
CurrentKV ==
  ~crashed => /\ cache \subseteq {version}
              /\ \A r \in Requests : place[r] \in {"waiting", "running"} => seen[r] \subseteq {version}

\* A completed answer belongs to a request that no batch contains any more.
CompleteAnswers ==
  \A r \in Requests : reply[r] = "stop" =>
    place[r] \in {"finished", "gone"} /\ Cardinality(seen[r]) = 1

VTypeOK ==
  /\ scenario \in Scenarios
  /\ at \in [Tasks -> Stages]
  /\ step \in [Clients -> Nat \ {0}]
  /\ inbox \in Seq(Messages)
  /\ place \in [Requests -> {"none", "waiting", "running", "finished", "gone"}]
  /\ DOMAIN reply = Tasks /\ DOMAIN seen = Requests
  /\ version \in Nat

VInv == VTypeOK /\ CallsInScript /\ SentOnce /\ CurrentKV /\ CompleteAnswers

VersionInv == KeepsRequests \/ VInv

LEMMA InitVInv == WInit => VInv
<1> SUFFICES ASSUME WInit PROVE VInv
  OBVIOUS
<1>0. /\ scenario \in Scenarios /\ inbox = <<>> /\ version = 0 /\ cache = {}
      /\ at = [t \in Tasks |-> IF t \in Requests THEN "new" ELSE "ready"]
      /\ step = [c \in Clients |-> 1] /\ reply = [t \in Tasks |-> ""]
      /\ place = [r \in Requests |-> "none"] /\ seen = [r \in Requests |-> {}]
  BY Zenon DEF WInit
<1>1. VTypeOK
  <2>1. inbox \in Seq(Messages)
    <3>1. <<>> \in Seq(Messages)
      OBVIOUS
    <3> QED BY <1>0, <3>1, Zenon
  <2>2. at \in [Tasks -> Stages]
    BY <1>0, Zenon DEF Stages
  <2>3. step \in [Clients -> Nat \ {0}]
    <3>1. 1 \in Nat \ {0}
      OBVIOUS
    <3> QED BY <1>0, <3>1, Zenon
  <2>4. place \in [Requests -> {"none", "waiting", "running", "finished", "gone"}]
    BY <1>0, Zenon
  <2> QED BY <1>0, <2>1, <2>2, <2>3, <2>4, Zenon DEF VTypeOK
<1>2. CallsInScript
  BY <1>0, WeightAssumption, Zenon DEF CallsInScript
<1>3. SentOnce
  <2>1. DOMAIN inbox = {}
    <3>1. DOMAIN <<>> = {}
      OBVIOUS
    <3> QED BY <1>0, <3>1, Zenon
  <2>2. \A r \in Requests : reply[r] # "stop" /\ seen[r] = {} /\ place[r] = "none"
    BY <1>0, WeightAssumption, Zenon
  <2> QED BY <2>1, <2>2, Zenon DEF SentOnce
<1>4. CurrentKV
  BY <1>0, Zenon DEF CurrentKV
<1>5. CompleteAnswers
  BY <1>0, WeightAssumption, Zenon DEF CompleteAnswers
<1> QED BY <1>1, <1>2, <1>3, <1>4, <1>5 DEF VInv

\* The queue q2 starts no request that q does not start, at the same place.
Quiet(q, q2) ==
  /\ q2 \in Seq(Messages)
  /\ \A r \in Requests : \A i \in DOMAIN q2 : Starts(q2, i, r) => i \in DOMAIN q /\ Starts(q, i, r)

LEMMA PostQuiet ==
  ASSUME NEW q \in Seq(Messages), NEW m \in Messages, m.type # "generate"
  PROVE  /\ Quiet(q, q) /\ Quiet(q, Append(q, m)) /\ Quiet(q, Post(q, m))
<1>1. /\ Append(q, m) \in Seq(Messages) /\ DOMAIN Append(q, m) = 1 .. (Len(q) + 1)
      /\ DOMAIN q = 1 .. Len(q) /\ Append(q, m)[Len(q) + 1] = m
      /\ \A i \in 1 .. Len(q) : Append(q, m)[i] = q[i]
  OBVIOUS
<1>2. Quiet(q, Append(q, m))
  BY <1>1 DEF Quiet, Starts
<1>3. Quiet(q, q)
  BY DEF Quiet
<1> QED BY <1>2, <1>3 DEF Post

LEMMA QuietTrans ==
  ASSUME NEW q, NEW q1, NEW q2, Quiet(q, q1), Quiet(q1, q2)
  PROVE  Quiet(q, q2)
BY DEF Quiet

\* A step that the scheduler does not make and that starts no request keeps what the
\* invariant says of requests.
LEMMA QuietStep ==
  ASSUME VInv, Quiet(inbox, inbox'), UNCHANGED <<place, version, seen, cache>>,
         crashed => crashed',
         \A r \in Requests : /\ at'[r] \in Unsent => at[r] \in Unsent
                             /\ reply'[r] = "stop" => reply[r] = "stop"
  PROVE  SentOnce' /\ CurrentKV' /\ CompleteAnswers'
<1>1. SentOnce'
  BY DEF VInv, SentOnce, Quiet, Starts
<1>2. CurrentKV'
  BY DEF VInv, CurrentKV
<1>3. CompleteAnswers'
  BY DEF VInv, CompleteAnswers
<1> QED BY <1>1, <1>2, <1>3

\* What an update sends is an update of the client's script, and what else a client
\* sends is no request.
LEMMA MessageTypes ==
  ASSUME ~KeepsRequests
  PROVE  /\ AbortAll \in Messages /\ AbortAll.type # "generate"
         /\ [type |-> "continue"] \in Messages /\ [type |-> "continue"].type # "generate"
         /\ \A o \in Updates : o.flush_cache
         /\ \A c \in Clients : step[c] \in DOMAIN scenario.script[c] =>
              /\ Op(c).op = "update" =>
                   /\ Op(c) \in Updates
                   /\ [type |-> "update", from |-> c, obj |-> Op(c)] \in Messages
                   /\ [type |-> "update", from |-> c, obj |-> Op(c)].type # "generate"
              /\ Op(c).op = "pause" => Op(c).mode = "abort"
<1>1. AbortAll \in Messages /\ AbortAll.type # "generate"
  BY DEF AbortAll, Messages
<1>2. [type |-> "continue"] \in Messages /\ [type |-> "continue"].type # "generate"
  BY DEF Messages
<1>3. \A o \in Updates : o.flush_cache
  BY DEF Updates, KeepsRequests
<1>4. ASSUME NEW c \in Clients, step[c] \in DOMAIN scenario.script[c]
      PROVE  /\ Op(c).op = "update" => Op(c) \in Updates
             /\ Op(c).op = "pause" => Op(c).mode = "abort"
  <2> DEFINE o == scenario.script[c][step[c]]
  <2>1. /\ ~(o.op = "pause" /\ o.mode # "abort")
    BY <1>4, Zenon DEF KeepsRequests
  <2>2. o.op = "update" => o \in Updates
    <3> DEFINE Script(d) == {scenario.script[d][i] : i \in DOMAIN scenario.script[d]}
    <3>1. o \in Script(c)
      BY <1>4, Zenon
    <3>2. o \in UNION {Script(d) : d \in Clients}
      BY <3>1, Zenon
    <3> HIDE DEF o
    <3> QED BY <3>2, Zenon DEF Updates
  <2> QED BY <2>1, <2>2, Zenon DEF Op
<1>5. \A c \in Clients, o \in Updates :
        /\ [type |-> "update", from |-> c, obj |-> o] \in Messages
        /\ [type |-> "update", from |-> c, obj |-> o].type # "generate"
  BY DEF Messages
<1> QED BY <1>1, <1>2, <1>3, <1>4, <1>5, Zenon

\* What a client's step leaves of the requests and of the scheduler.
ClientEffect ==
  /\ UNCHANGED <<scenario, schedVars>>
  /\ Quiet(inbox, inbox')
  /\ at' \in [Tasks -> Stages] /\ step' \in [Clients -> Nat \ {0}]
  /\ \A r \in Requests : at'[r] \in Unsent => at[r] \in Unsent
  /\ CallsInScript'

\* SendUpdate, from wherever it is called.
LEMMA SendUpdateEffect ==
  ASSUME VInv, ~KeepsRequests, NEW c \in Clients, NEW box, Quiet(inbox, box),
         step[c] \in DOMAIN scenario.script[c], Op(c).op = "update", SendUpdate(c, box)
  PROVE  /\ Quiet(inbox, inbox')
         /\ \E s \in {"queued", "awaiting"} : at' = [at EXCEPT ![c] = s]
<1>1. CASE inbox' = box /\ at' = [at EXCEPT ![c] = "queued"]
  BY <1>1
<1>2. CASE /\ inbox' = Append(box, [type |-> "update", from |-> c, obj |-> Op(c)])
           /\ at' = [at EXCEPT ![c] = "awaiting"]
  <2>1. Quiet(box, inbox')
    BY <1>2, MessageTypes, PostQuiet DEF Quiet
  <2> QED BY <1>2, <2>1, QuietTrans
<1> QED BY <1>1, <1>2 DEF SendUpdate

\* The end of a call, and the moves of a client inside one.
LEMMA ClientMoves ==
  ASSUME VInv, NEW c \in Clients, UNCHANGED scenario
  PROVE  /\ Done(c) => /\ at' \in [Tasks -> Stages] /\ step' \in [Clients -> Nat \ {0}]
                       /\ \A r \in Requests : at'[r] = at[r]
                       /\ CallsInScript'
         /\ \A s \in {"cond", "drain", "queued", "awaiting", "lock"} :
              /\ at' = [at EXCEPT ![c] = s] /\ UNCHANGED step
              /\ step[c] \in DOMAIN scenario.script[c]
              /\ s \in {"lock", "queued"} => Op(c).op = "update"
              => /\ at' \in [Tasks -> Stages] /\ step' \in [Clients -> Nat \ {0}]
                 /\ \A r \in Requests : at'[r] = at[r]
                 /\ CallsInScript'
<1>1. c \in Tasks /\ c \notin Requests /\ Requests \subseteq Tasks /\ Clients \subseteq Tasks
  BY WeightAssumption
<1>2. /\ at \in [Tasks -> Stages] /\ step \in [Clients -> Nat \ {0}] /\ CallsInScript
  BY DEF VInv, VTypeOK
<1>3. ASSUME Done(c)
      PROVE  /\ at' \in [Tasks -> Stages] /\ step' \in [Clients -> Nat \ {0}]
             /\ \A r \in Requests : at'[r] = at[r]
             /\ CallsInScript'
  <2>1. /\ at' \in [Tasks -> Stages] /\ step' \in [Clients -> Nat \ {0}]
        /\ \A r \in Requests : at'[r] = at[r]
    BY <1>1, <1>2, <1>3 DEF Done, Stages
  <2>2. /\ at'[c] = "ready"
        /\ \A d \in Clients \ {c} : at'[d] = at[d] /\ step'[d] = step[d]
    BY <1>1, <1>2, <1>3 DEF Done
  <2>3. CallsInScript'
    BY <1>2, <2>2 DEF CallsInScript, Op
  <2> QED BY <2>1, <2>3
<1>4. ASSUME NEW s \in {"cond", "drain", "queued", "awaiting", "lock"},
             at' = [at EXCEPT ![c] = s], UNCHANGED step,
             step[c] \in DOMAIN scenario.script[c],
             s \in {"lock", "queued"} => Op(c).op = "update"
      PROVE  /\ at' \in [Tasks -> Stages] /\ step' \in [Clients -> Nat \ {0}]
             /\ \A r \in Requests : at'[r] = at[r]
             /\ CallsInScript'
  <2>1. /\ at' \in [Tasks -> Stages] /\ step' \in [Clients -> Nat \ {0}]
        /\ \A r \in Requests : at'[r] = at[r]
    BY <1>1, <1>2, <1>4 DEF Stages
  <2>2. at'[c] = s /\ \A d \in Clients \ {c} : at'[d] = at[d]
    BY <1>1, <1>2, <1>4
  <2>3. CallsInScript'
    BY <1>2, <1>4, <2>2 DEF CallsInScript, Op
  <2> QED BY <2>1, <2>3
<1> QED BY <1>3, <1>4

\* What a message can be depends on the clients' calls alone.
LEMMA MessagesKept == ASSUME UNCHANGED scenario PROVE Messages' = Messages
BY DEF Messages, Updates

\* A step of a client or a request leaves the scheduler's state with its types.
LEMMA ControlTypes ==
  ASSUME VTypeOK, UNCHANGED <<scenario, schedVars>>, at' \in [Tasks -> Stages],
         step' \in [Clients -> Nat \ {0}], inbox' \in Seq(Messages), DOMAIN reply' = Tasks
  PROVE  VTypeOK'
<1>1. UNCHANGED <<scenario, place, seen, version>>
  BY Zenon DEF schedVars
<1> QED BY <1>1, MessagesKept, Zenon DEF VTypeOK

LEMMA DrainEffect ==
  ASSUME VInv, ~KeepsRequests, NEW c \in Clients, NEW waiters, NEW box, Quiet(inbox, box),
         step[c] \in DOMAIN scenario.script[c], Drain(c, waiters, box),
         UNCHANGED <<scenario, schedVars>>
  PROVE  ClientEffect
<1>1. Quiet(inbox, inbox')
  <2>1. Quiet(box, Post(box, AbortAll))
    BY MessageTypes, PostQuiet DEF Quiet
  <2> QED BY <2>1, QuietTrans DEF Drain
<1>2. CASE at' = [at EXCEPT ![c] = "drain"] /\ UNCHANGED step
  BY <1>1, <1>2, ClientMoves, Zenon DEF ClientEffect
<1>3. CASE Done(c)
  BY <1>1, <1>3, ClientMoves DEF ClientEffect
<1> QED BY <1>2, <1>3 DEF Drain

\* The three kinds of call, from the moment the client has is_pause_cond.
LEMMA PerformEffect ==
  ASSUME VInv, ~KeepsRequests, NEW c \in Clients, NEW waiters, NEW box, Quiet(inbox, box),
         step[c] \in DOMAIN scenario.script[c], Perform(c, waiters, box),
         UNCHANGED <<scenario, schedVars>>
  PROVE  ClientEffect
<1>1. CASE Pause(c, waiters, box)
  <2>1. Drain(c, waiters, box)
    BY <1>1, MessageTypes, Zenon DEF Pause
  <2> QED BY <2>1, DrainEffect
<1>2. CASE Continue(c, waiters, box)
  <2>1. Quiet(inbox, inbox')
    <3>1. Quiet(box, Post(box, [type |-> "continue"]))
      BY MessageTypes, PostQuiet DEF Quiet
    <3> QED BY <1>2, <3>1, QuietTrans, Zenon DEF Continue
  <2>2. c \in Tasks /\ c \notin Requests /\ Requests \subseteq Tasks /\ Clients \subseteq Tasks
    BY WeightAssumption
  <2>3. /\ at \in [Tasks -> Stages] /\ step \in [Clients -> Nat \ {0}] /\ CallsInScript
    BY DEF VInv, VTypeOK
  <2>4. /\ at' = [t \in Tasks |-> IF t = c THEN "ready"
                                  ELSE IF at[t] = "sleep" THEN "woken" ELSE at[t]]
        /\ step' = [step EXCEPT ![c] = @ + 1]
    BY <1>2, Zenon DEF Continue
  <2>5. at' \in [Tasks -> Stages] /\ step' \in [Clients -> Nat \ {0}]
    BY <2>2, <2>3, <2>4 DEF Stages
  <2>6. \A r \in Requests : at'[r] \in Unsent => at[r] \in Unsent
    BY <2>2, <2>4 DEF Unsent
  <2>7. CallsInScript'
    <3>1. /\ at'[c] = "ready"
          /\ \A d \in Clients \ {c} : /\ at'[d] = at[d] \/ (at[d] = "sleep" /\ at'[d] = "woken")
                                      /\ step'[d] = step[d]
      BY <2>2, <2>3, <2>4
    <3> QED BY <3>1, <2>3 DEF CallsInScript, Op
  <2> QED BY <2>1, <2>5, <2>6, <2>7 DEF ClientEffect
<1>3. ASSUME UpdateFromDisk(c, waiters, box) \/ UpdateThroughCommunicator(c, waiters, box)
      PROVE  ClientEffect
  <2>1. Op(c).op = "update" /\ UNCHANGED step
    BY <1>3 DEF UpdateFromDisk, UpdateThroughCommunicator
  <2>2. CASE SendUpdate(c, box)
    <3>1. /\ Quiet(inbox, inbox')
          /\ \E s \in {"queued", "awaiting"} : at' = [at EXCEPT ![c] = s]
      BY <2>1, <2>2, SendUpdateEffect
    <3> QED BY <2>1, <3>1, ClientMoves, Zenon DEF ClientEffect
  <2>3. CASE at' = [at EXCEPT ![c] = "lock"] /\ inbox' = box
    BY <2>1, <2>3, ClientMoves, Zenon DEF ClientEffect
  <2> QED BY <1>3, <2>2, <2>3 DEF UpdateFromDisk, UpdateThroughCommunicator, UpdateUnderLock
<1> QED BY <1>1, <1>2, <1>3, Zenon DEF Perform

\* A client's step changes nothing that the scheduler has.
LEMMA ClientInv ==
  ASSUME VInv, ~KeepsRequests, NEW c \in Clients,
         \/ ClientCall(c) \/ ClientGranted(c) \/ DrainAgain(c) \/ WriterGranted(c)
         \/ CommunicatorGranted(c) \/ UpdateAnswered(c) \/ CancelUpdate(c)
  PROVE  VInv'
<1>1. c \in Tasks /\ c \notin Requests
  BY WeightAssumption
<1>2. /\ at \in [Tasks -> Stages] /\ step \in [Clients -> Nat \ {0}] /\ CallsInScript
      /\ inbox \in Seq(Messages) /\ scenario \in Scenarios
  BY DEF VInv, VTypeOK
<1>3. at[c] # "ready" => step[c] \in DOMAIN scenario.script[c]
  BY <1>2 DEF CallsInScript
<1>4. Quiet(inbox, inbox) /\ Quiet(inbox, Post(inbox, AbortAll))
  BY <1>2, MessageTypes, PostQuiet
<1>5. ClientEffect
  <2>1. CASE ClientCall(c)
    <3>1. step[c] \in DOMAIN scenario.script[c]
      <4>1. step[c] <= Len(scenario.script[c]) /\ step[c] \in Nat \ {0}
        BY <1>2, <2>1, Zenon DEF ClientCall
      <4>2. /\ Len(scenario.script[c]) \in Nat
            /\ DOMAIN scenario.script[c] = 1 .. Len(scenario.script[c])
        BY <1>2, ScriptAssumption, Zenon
      <4> QED BY <4>1, <4>2
    <3>2. PICK box : /\ Quiet(inbox, box)
                     /\ \/ Perform(c, <<>>, box)
                        \/ at' = [at EXCEPT ![c] = "cond"] /\ inbox' = box /\ UNCHANGED step
      BY <1>4, <2>1, Zenon DEF ClientCall
    <3>3. UNCHANGED <<scenario, schedVars>>
      BY <2>1, Zenon DEF ClientCall
    <3>4. CASE Perform(c, <<>>, box)
      BY <3>1, <3>2, <3>3, <3>4, PerformEffect
    <3>5. CASE at' = [at EXCEPT ![c] = "cond"] /\ inbox' = box /\ UNCHANGED step
      BY <3>1, <3>2, <3>3, <3>5, ClientMoves, Zenon DEF ClientEffect
    <3> QED BY <3>2, <3>4, <3>5
  <2>2. CASE ClientGranted(c)
    BY <1>3, <1>4, <2>2, PerformEffect DEF ClientGranted
  <2>3. CASE DrainAgain(c)
    BY <1>3, <1>4, <2>3, DrainEffect DEF DrainAgain
  <2>4. CASE WriterGranted(c) \/ CommunicatorGranted(c)
    <3>1. /\ Op(c).op = "update" /\ step[c] \in DOMAIN scenario.script[c]
          /\ UNCHANGED <<scenario, schedVars, step>>
      BY <1>2, <1>3, <2>4 DEF WriterGranted, CommunicatorGranted, CallsInScript
    <3>2. CASE SendUpdate(c, inbox)
      <4>1. /\ Quiet(inbox, inbox')
            /\ \E s \in {"queued", "awaiting"} : at' = [at EXCEPT ![c] = s]
        BY <1>4, <3>1, <3>2, SendUpdateEffect
      <4> QED BY <3>1, <4>1, ClientMoves, Zenon DEF ClientEffect
    <3>3. CASE UNCHANGED <<at, inbox>>
      BY <1>2, <1>4, <3>1, <3>3 DEF ClientEffect, CallsInScript, Op
    <3> QED BY <2>4, <3>2, <3>3 DEF WriterGranted, CommunicatorGranted
  <2>5. CASE UpdateAnswered(c) \/ CancelUpdate(c)
    <3>1. Done(c) /\ UNCHANGED <<scenario, schedVars, inbox>>
      BY <2>5, Zenon DEF UpdateAnswered, CancelUpdate
    <3> QED BY <3>1, <1>4, ClientMoves DEF ClientEffect
  <2> QED BY <2>1, <2>2, <2>3, <2>4, <2>5
<1>6. DOMAIN reply' = Tasks /\ \A r \in Requests : reply'[r] = reply[r]
  <2>1. reply' = reply \/ reply' = [reply EXCEPT ![c] = ""]
    BY Zenon DEF ClientCall, ClientGranted, DrainAgain, WriterGranted, CommunicatorGranted,
                 UpdateAnswered, CancelUpdate
  <2> QED BY <1>1, <2>1, WeightAssumption, Zenon DEF VInv, VTypeOK
<1>7. VTypeOK'
  <2>1. /\ UNCHANGED <<scenario, schedVars>> /\ at' \in [Tasks -> Stages]
        /\ step' \in [Clients -> Nat \ {0}] /\ inbox' \in Seq(Messages)
    BY <1>5, Zenon DEF ClientEffect, Quiet
  <2> QED BY <1>6, <2>1, ControlTypes, Zenon DEF VInv
<1>8. SentOnce' /\ CurrentKV' /\ CompleteAnswers'
  BY <1>5, <1>6, QuietStep, Zenon DEF ClientEffect, schedVars
<1> QED BY <1>5, <1>7, <1>8 DEF VInv, ClientEffect

\* A request's step either starts nothing, or is _send_one_request, which starts the
\* request that was not started before.
LEMMA RequestInv ==
  ASSUME VInv, NEW r \in Requests,
         \/ Generate(r) \/ GenerateGranted(r) \/ ReaderGranted(r) \/ SendOne(r) \/ Answer(r)
         \/ TokenizeError(r) \/ Disconnect(r) \/ CancelRequest(r)
  PROVE  VInv'
<1>1. r \in Tasks /\ r \notin Clients /\ Requests \subseteq Tasks /\ Clients \subseteq Tasks
  BY WeightAssumption
<1>2. /\ at \in [Tasks -> Stages] /\ inbox \in Seq(Messages) /\ CallsInScript
      /\ DOMAIN inbox = 1 .. Len(inbox) /\ Len(inbox) \in Nat
  BY DEF VInv, VTypeOK
<1>3. UNCHANGED <<scenario, step, reply, schedVars>>
  BY Zenon DEF Generate, GenerateGranted, ReaderGranted, SendOne, Answer, TokenizeError,
               Disconnect, CancelRequest, controlVars
<1>4. \E s \in Stages : /\ at' = [at EXCEPT ![r] = s]
                        /\ s \in Unsent => at[r] \in Unsent
  BY Zenon DEF Generate, GenerateGranted, PauseCheck, ReaderGranted, SendOne, Answer, TokenizeError,
         Disconnect, CancelRequest, Stages, Unsent
<1>5. /\ at' \in [Tasks -> Stages]
      /\ \A q \in Requests : at'[q] \in Unsent => at[q] \in Unsent
      /\ \A c \in Clients : at'[c] = at[c]
  BY <1>1, <1>2, <1>4
<1>6. CallsInScript'
  BY <1>2, <1>3, <1>5, Zenon DEF CallsInScript, Op
<1>7. \A i \in 1 .. (Len(inbox) + 1) : i \in 1 .. Len(inbox) \/ i = Len(inbox) + 1
  BY <1>2
<1>7a. /\ VTypeOK /\ UNCHANGED <<scenario, schedVars>>
       /\ step' \in [Clients -> Nat \ {0}] /\ DOMAIN reply' = Tasks
  BY <1>3, Zenon DEF VInv, VTypeOK
<1>8. CASE inbox' = inbox
  <2>1. Quiet(inbox, inbox')
    BY <1>2, <1>8 DEF Quiet
  <2>2. SentOnce' /\ CurrentKV' /\ CompleteAnswers'
    BY <1>3, <1>5, <2>1, QuietStep, Zenon DEF schedVars
  <2> QED BY <1>2, <1>5, <1>6, <1>8, <1>7a, <2>2, ControlTypes, Zenon DEF VInv
<1>9. CASE Disconnect(r)
  <2> DEFINE m == [type |-> "abort", whom |-> {r}]
  <2>1. m \in Messages /\ m.type # "generate"
    BY Zenon DEF Messages
  <2>2. Quiet(inbox, inbox')
    BY <1>2, <1>9, <2>1, PostQuiet, Zenon DEF Disconnect
  <2>3. SentOnce' /\ CurrentKV' /\ CompleteAnswers'
    BY <1>3, <1>5, <2>2, QuietStep, Zenon DEF schedVars
  <2>4. inbox' \in Seq(Messages)
    BY <2>2, Zenon DEF Quiet
  <2> QED BY <1>5, <1>6, <1>7a, <2>3, <2>4, ControlTypes, Zenon DEF VInv
<1>10. CASE SendOne(r)
  <2> DEFINE m == [type |-> "generate", whom |-> {r}]
  <2>1. m \in Messages
    BY DEF Messages
  <2>2. /\ inbox' = Append(inbox, m) /\ at' = [at EXCEPT ![r] = "sent"] /\ at[r] = "tokenizing"
    BY <1>10, Zenon DEF SendOne
  <2>3. /\ inbox' \in Seq(Messages) /\ DOMAIN inbox' = 1 .. (Len(inbox) + 1)
        /\ inbox'[Len(inbox) + 1] = m
        /\ \A i \in 1 .. Len(inbox) : inbox'[i] = inbox[i]
    BY <1>2, <2>1, <2>2
  <2>4. /\ place[r] = "none" /\ \A i \in DOMAIN inbox : ~Starts(inbox, i, r)
    BY <2>2 DEF VInv, SentOnce, Unsent
  <2>5. /\ \A q \in Requests : Starts(inbox', Len(inbox) + 1, q) <=> q = r
        /\ \A i \in DOMAIN inbox : \A q \in Requests : Starts(inbox', i, q) <=> Starts(inbox, i, q)
    <3>1. \A q \in Requests : Starts(inbox', Len(inbox) + 1, q) <=> q = r
      <4>1. m.type = "generate" /\ m.whom = {r}
        OBVIOUS
      <4> QED BY <2>3, <4>1 DEF Starts
    <3>2. \A i \in DOMAIN inbox : \A q \in Requests : Starts(inbox', i, q) <=> Starts(inbox, i, q)
      BY <1>2, <2>3, Zenon DEF Starts
    <3> QED BY <3>1, <3>2
  <2>6. /\ at'[r] = "sent" /\ \A q \in Requests \ {r} : at'[q] = at[q]
    BY <1>1, <1>2, <2>2
  <2> HIDE DEF m
  <2>7. SentOnce'
    <3> SUFFICES ASSUME NEW q \in Requests
                 PROVE  /\ at'[q] \in Unsent => place'[q] = "none" /\ \A i \in DOMAIN inbox' : ~Starts(inbox', i, q)
                        /\ \A i, j \in DOMAIN inbox' : Starts(inbox', i, q) /\ Starts(inbox', j, q) => i = j
                        /\ \A i \in DOMAIN inbox' : Starts(inbox', i, q) => place'[q] = "none"
                        /\ place'[q] = "none" => seen'[q] = {} /\ reply'[q] # "stop"
      BY Zenon DEF SentOnce, Starts
    <3>1. UNCHANGED <<place, seen, reply>>
      BY <1>3 DEF schedVars
    <3>2. /\ at[q] \in Unsent => place[q] = "none" /\ \A i \in DOMAIN inbox : ~Starts(inbox, i, q)
          /\ \A i, j \in DOMAIN inbox : Starts(inbox, i, q) /\ Starts(inbox, j, q) => i = j
          /\ \A i \in DOMAIN inbox : Starts(inbox, i, q) => place[q] = "none"
          /\ place[q] = "none" => seen[q] = {} /\ reply[q] # "stop"
      BY Zenon DEF VInv, SentOnce
    <3>3. "sent" \notin Unsent
      BY DEF Unsent
    <3>4. at'[q] \in Unsent => place'[q] = "none" /\ \A i \in DOMAIN inbox' : ~Starts(inbox', i, q)
      BY <1>2, <1>7, <2>3, <2>5, <2>6, <3>1, <3>2, <3>3, Zenon
    <3>5. \A i, j \in DOMAIN inbox' : Starts(inbox', i, q) /\ Starts(inbox', j, q) => i = j
      <4>1. \A i \in DOMAIN inbox' : i \in DOMAIN inbox \/ i = Len(inbox) + 1
        BY <1>2, <1>7, <2>3, Zenon
      <4>2. CASE q = r
        BY <2>4, <2>5, <4>1, <4>2, Zenon
      <4>3. CASE q # r
        BY <2>5, <3>2, <4>1, <4>3, Zenon
      <4> QED BY <4>2, <4>3
    <3>6. \A i \in DOMAIN inbox' : Starts(inbox', i, q) => place'[q] = "none"
      BY <1>2, <1>7, <2>3, <2>4, <2>5, <3>1, <3>2, Zenon
    <3> QED BY <3>1, <3>2, <3>4, <3>5, <3>6, Zenon
  <2>8. CurrentKV' /\ CompleteAnswers'
    BY <1>3 DEF schedVars, VInv, CurrentKV, CompleteAnswers
  <2> QED BY <1>5, <1>6, <1>7a, <2>3, <2>7, <2>8, ControlTypes, Zenon DEF VInv
<1>11. inbox' = inbox \/ Disconnect(r) \/ SendOne(r)
  BY Zenon DEF Generate, GenerateGranted, ReaderGranted, Answer, TokenizeError, CancelRequest
<1> QED BY <1>8, <1>9, <1>10, <1>11

\* A message to the scheduler: each request it concerns was started once.
LEMMA SchedRecvInv ==
  ASSUME VInv, ~KeepsRequests, SchedRecv
  PROVE  VInv'
<1> DEFINE m == Head(inbox)
<1>1. Requests \subseteq Tasks
  BY WeightAssumption
<1>2. /\ inbox \in Seq(Messages) /\ inbox # <<>> /\ inbox' = Tail(inbox) /\ ~crashed
      /\ UNCHANGED <<vars, scenario, controlVars, at, out, seen>>
      /\ place \in [Requests -> {"none", "waiting", "running", "finished", "gone"}]
      /\ DOMAIN reply = Tasks /\ version \in Nat
  BY Zenon DEF SchedRecv, VInv, VTypeOK
<1>3. /\ m \in Messages /\ m = inbox[1] /\ 1 \in DOMAIN inbox /\ inbox' \in Seq(Messages)
      /\ \A i \in DOMAIN inbox' : i + 1 \in DOMAIN inbox /\ inbox'[i] = inbox[i + 1] /\ i + 1 # 1
      /\ \A i, j \in DOMAIN inbox' : i + 1 = j + 1 => i = j
  BY <1>2
<1>4. \A r \in Requests :
        /\ \A i \in DOMAIN inbox' : Starts(inbox', i, r) => i + 1 \in DOMAIN inbox /\ Starts(inbox, i + 1, r)
        /\ Starts(inbox, 1, r) <=> m.type = "generate" /\ r \in m.whom
  BY <1>3, Zenon DEF Starts
<1>5. \/ RecvGenerate(m) \/ RecvAbort(m) \/ RecvPause(m) \/ RecvContinue(m) \/ RecvUpdate(m)
  BY Zenon DEF SchedRecv
<1> HIDE DEF m
<1>6. CallsInScript'
  BY <1>2 DEF VInv, CallsInScript, Op, controlVars
<1>7. m.type # "pause"
  BY <1>3 DEF Messages
<1>8. \A r \in Requests :
        /\ at[r] \in Unsent => place[r] = "none" /\ \A i \in DOMAIN inbox : ~Starts(inbox, i, r)
        /\ \A i, j \in DOMAIN inbox : Starts(inbox, i, r) /\ Starts(inbox, j, r) => i = j
        /\ \A i \in DOMAIN inbox : Starts(inbox, i, r) => place[r] = "none"
        /\ place[r] = "none" => seen[r] = {} /\ reply[r] # "stop"
  BY Zenon DEF VInv, SentOnce
<1>9. /\ cache \subseteq {version}
      /\ \A r \in Requests : place[r] \in {"waiting", "running"} => seen[r] \subseteq {version}
  BY <1>2 DEF VInv, CurrentKV
\* A message that starts nothing: requests keep their place, or leave the queue.
<1>10. ASSUME \A r \in Requests : Starts(inbox, 1, r) => FALSE,
              \A r \in Requests :
                \/ place'[r] = place[r] /\ reply'[r] = reply[r]
                \/ place[r] = "waiting" /\ place'[r] = "gone" /\ reply'[r] \in {reply[r], "abort"}
       PROVE  SentOnce' /\ CompleteAnswers'
  <2>1. SentOnce'
    <3> SUFFICES ASSUME NEW r \in Requests
                 PROVE  /\ at'[r] \in Unsent => place'[r] = "none" /\ \A i \in DOMAIN inbox' : ~Starts(inbox', i, r)
                        /\ \A i, j \in DOMAIN inbox' : Starts(inbox', i, r) /\ Starts(inbox', j, r) => i = j
                        /\ \A i \in DOMAIN inbox' : Starts(inbox', i, r) => place'[r] = "none"
                        /\ place'[r] = "none" => seen'[r] = {} /\ reply'[r] # "stop"
      BY Zenon DEF SentOnce, Starts
    <3> QED BY <1>2, <1>3, <1>4, <1>8, <1>10
  <2>2. CompleteAnswers'
    BY <1>2, <1>10 DEF VInv, CompleteAnswers
  <2> QED BY <2>1, <2>2
<1>11. CASE RecvGenerate(m)
  <2>1. /\ m.type = "generate" /\ place' = Moved(m.whom, "waiting")
        /\ UNCHANGED <<version, cache, crashed, reply>>
    BY <1>11, Zenon DEF RecvGenerate
  <2>2. \A r \in Requests : place'[r] = IF r \in m.whom THEN "waiting" ELSE place[r]
    BY <2>1 DEF Moved
  <2>3. \A r \in Requests : r \in m.whom =>
          /\ place[r] = "none" /\ at[r] \notin Unsent /\ reply[r] # "stop" /\ seen[r] = {}
          /\ \A i \in DOMAIN inbox' : ~Starts(inbox', i, r)
    BY <1>3, <1>4, <1>8, <2>1
  <2>4. SentOnce'
    <3> SUFFICES ASSUME NEW r \in Requests
                 PROVE  /\ at'[r] \in Unsent => place'[r] = "none" /\ \A i \in DOMAIN inbox' : ~Starts(inbox', i, r)
                        /\ \A i, j \in DOMAIN inbox' : Starts(inbox', i, r) /\ Starts(inbox', j, r) => i = j
                        /\ \A i \in DOMAIN inbox' : Starts(inbox', i, r) => place'[r] = "none"
                        /\ place'[r] = "none" => seen'[r] = {} /\ reply'[r] # "stop"
      BY Zenon DEF SentOnce, Starts
    <3>1. CASE r \in m.whom
      BY <1>2, <1>3, <1>4, <1>8, <2>2, <2>3, <3>1
    <3>2. CASE r \notin m.whom
      BY <1>2, <1>3, <1>4, <1>8, <2>1, <2>2, <3>2
    <3> QED BY <3>1, <3>2
  <2>5. CompleteAnswers'
    BY <1>2, <2>1, <2>2, <2>3 DEF VInv, CompleteAnswers
  <2>6. CurrentKV'
    BY <1>2, <1>9, <2>1, <2>2, <2>3 DEF CurrentKV
  <2>7. VTypeOK'
    <3>1. place' \in [Requests -> {"none", "waiting", "running", "finished", "gone"}]
      BY <1>2, <2>1 DEF Moved
    <3> QED BY <1>2, <1>3, <2>1, <3>1, MessagesKept, Zenon DEF VInv, VTypeOK, controlVars
  <2> QED BY <1>6, <2>4, <2>5, <2>6, <2>7 DEF VInv
<1>12. CASE RecvAbort(m)
  <2>1. /\ m.type = "abort" /\ place' = Moved(m.whom \cap Placed("waiting"), "gone")
        /\ reply' = Answered(m.whom \cap Placed("waiting"), [r \in Requests |-> "abort"])
        /\ UNCHANGED <<version, cache, crashed>>
    BY <1>12, Zenon DEF RecvAbort
  <2>2. \A r \in Requests :
                \/ place'[r] = place[r] /\ reply'[r] = reply[r]
                \/ place[r] = "waiting" /\ place'[r] = "gone" /\ reply'[r] \in {reply[r], "abort"}
    BY <1>1, <2>1 DEF Moved, Placed, Answered
  <2>3. SentOnce' /\ CompleteAnswers'
    BY <1>4, <1>10, <2>1, <2>2, Zenon
  <2>4. CurrentKV'
    BY <1>2, <1>9, <2>1, <2>2, Zenon DEF CurrentKV
  <2>5. VTypeOK'
    <3>1. /\ place' \in [Requests -> {"none", "waiting", "running", "finished", "gone"}]
          /\ DOMAIN reply' = Tasks
      BY <1>2, <2>1 DEF Moved, Answered
    <3>2. UNCHANGED <<scenario, at, step, version, seen>>
      BY <1>2, <2>1 DEF controlVars
    <3>3. inbox' \in Seq(Messages')
      BY <1>3, <3>2 DEF Messages, Updates
    <3> QED BY <3>1, <3>2, <3>3 DEF VInv, VTypeOK
  <2> QED BY <1>6, <2>3, <2>4, <2>5 DEF VInv
<1>13. CASE RecvContinue(m)
  <2>1. m.type = "continue" /\ UNCHANGED <<place, reply, version, cache, crashed>>
    BY <1>13, Zenon DEF RecvContinue
  <2>2. SentOnce' /\ CompleteAnswers'
    BY <1>4, <1>10, <2>1
  <2>3. CurrentKV'
    BY <1>2, <1>9, <2>1 DEF CurrentKV
  <2>4. VTypeOK'
    BY <1>2, <1>3, <2>1, MessagesKept, Zenon DEF VInv, VTypeOK, controlVars
  <2> QED BY <1>6, <2>2, <2>3, <2>4 DEF VInv
<1>14. CASE RecvUpdate(m)
  <2>1. /\ m.type = "update" /\ UNCHANGED place
        /\ \/ version' = version + 1 /\ FlushCache(m.obj)
           \/ UNCHANGED <<version, cache, crashed>>
        /\ reply' = reply \/ reply' = [reply EXCEPT ![m.from] = "done"]
    BY <1>14, Zenon DEF RecvUpdate
  <2>2. m.from \in Clients /\ m.obj \in Updates
    BY <1>3, <2>1 DEF Messages
  <2>3. m.obj.flush_cache
    BY <2>2, MessageTypes
  <2>4. DOMAIN reply' = Tasks /\ \A r \in Requests : reply'[r] = reply[r]
    BY <1>1, <1>2, <2>1, <2>2, WeightAssumption
  <2>5. SentOnce' /\ CompleteAnswers'
    BY <1>4, <1>10, <2>1, <2>4
  <2>6. CurrentKV'
    <3>1. CASE UNCHANGED <<version, cache, crashed>>
      BY <1>2, <1>9, <2>1, <3>1 DEF CurrentKV
    <3>2. CASE FlushCache(m.obj) /\ ~IsFullyIdle
      BY <2>3, <3>2, Zenon DEF FlushCache, CurrentKV
    <3>3. CASE FlushCache(m.obj) /\ IsFullyIdle
      BY <2>1, <2>3, <3>3 DEF FlushCache, CurrentKV, IsFullyIdle
    <3> QED BY <2>1, <3>1, <3>2, <3>3
  <2>7. VTypeOK'
    <3>1. version' \in Nat
      BY <1>2, <2>1
    <3>2. UNCHANGED <<scenario, at, step, place, seen>>
      BY <1>2, <2>1 DEF controlVars
    <3>3. inbox' \in Seq(Messages')
      BY <1>3, <3>2 DEF Messages, Updates
    <3> QED BY <2>4, <3>1, <3>2, <3>3 DEF VInv, VTypeOK
  <2> QED BY <1>6, <2>5, <2>6, <2>7 DEF VInv
<1> QED BY <1>5, <1>7, <1>11, <1>12, <1>13, <1>14 DEF RecvPause

\* A batch: every request in it ends up with KV of the current weights and of no
\* other, so its answer is complete with one version.
LEMMA SchedBatchInv ==
  ASSUME VInv, SchedBatch
  PROVE  VInv'
<1>1. Requests \subseteq Tasks
  BY WeightAssumption
<1>2. /\ place \in [Requests -> {"none", "waiting", "running", "finished", "gone"}]
      /\ DOMAIN reply = Tasks /\ version \in Nat /\ ~crashed
      /\ UNCHANGED <<scenario, controlVars, at, inbox, version, crashed>>
  BY Zenon DEF VInv, VTypeOK, SchedBatch
<1>3. PICK B, extend : /\ B = Placed("waiting") \/ B = Placed("running")
                       /\ RunBatch(B, extend)
  BY Zenon DEF SchedBatch
<1>4. B \subseteq Requests /\ \A r \in B : place[r] \in {"waiting", "running"}
  BY <1>3 DEF Placed
<1> DEFINE kv == [r \in Requests |-> IF r \in B
                      THEN seen[r] \cup {version} \cup (IF extend THEN cache ELSE {})
                      ELSE seen[r]]
           After(k, F) ==
             /\ cache' = cache \cup UNION {k[r] : r \in IF extend THEN B ELSE F}
             /\ reply' = Answered(F, [r \in Requests |-> IF r \in to_finish THEN "abort" ELSE "stop"])
             /\ place' = PlacedAfter(B, F)
<1>5. PICK tokens : \E k \in {kv} : \E F \in {{r \in B : r \in to_finish \/ tokens[r] = MaxNew}} :
        /\ out' = tokens /\ seen' = k
        /\ cache' = cache \cup UNION {k[r] : r \in IF extend THEN B ELSE F}
        /\ reply' = Answered(F, [r \in Requests |-> IF r \in to_finish THEN "abort" ELSE "stop"])
        /\ to_finish' = to_finish \ F
        /\ place' = PlacedAfter(B, F)
  <2>1. RunBatch(B, extend)
    BY <1>3
  <2> QED BY <2>1, Zenon DEF RunBatch
<1>6. PICK k \in {kv}, F \in SUBSET B : seen' = k /\ After(k, F)
  <2>1. PICK k \in {kv} : \E F \in {{r \in B : r \in to_finish \/ tokens[r] = MaxNew}} :
          seen' = k /\ After(k, F)
    <3> HIDE DEF kv
    <3> QED BY <1>5, Zenon
  <2>2. {r \in B : r \in to_finish \/ tokens[r] = MaxNew} \in SUBSET B
    OBVIOUS
  <2> HIDE DEF After, kv
  <2> QED BY <2>1, <2>2, Zenon
<1>7. /\ cache \subseteq {version}
      /\ \A r \in Requests : place[r] \in {"waiting", "running"} => seen[r] \subseteq {version}
  BY <1>2 DEF VInv, CurrentKV
<1>8. /\ \A r \in B : seen'[r] = {version}
      /\ \A r \in Requests \ B : seen'[r] = seen[r]
  BY <1>4, <1>6, <1>7
<1>9. \A r \in Requests :
        /\ r \in F => place'[r] = "finished"
        /\ r \in B \ F => place'[r] = "running"
        /\ r \notin B => place'[r] = IF place[r] = "finished" THEN "gone" ELSE place[r]
  BY <1>6 DEF PlacedAfter
<1>10. \A r \in Requests : r \notin F => reply'[r] = reply[r]
  BY <1>1, <1>6 DEF Answered
<1>11. /\ DOMAIN reply' = Tasks /\ DOMAIN seen' = Requests
       /\ place' \in [Requests -> {"none", "waiting", "running", "finished", "gone"}]
  <2>1. DOMAIN reply' = Tasks /\ DOMAIN seen' = Requests
    BY <1>6 DEF Answered
  <2> QED BY <1>2, <1>6, <1>9, <2>1 DEF PlacedAfter
<1>12. VTypeOK'
  BY <1>2, <1>11, MessagesKept, Zenon DEF VInv, VTypeOK, controlVars
<1>13. CallsInScript'
  BY <1>2 DEF VInv, CallsInScript, Op, controlVars
<1>14. SentOnce'
  <2>1. \A r \in Requests : \/ place[r] = "none" /\ place'[r] = "none" /\ seen'[r] = seen[r] /\ reply'[r] = reply[r]
                            \/ place[r] # "none" /\ place'[r] # "none"
    BY <1>4, <1>8, <1>9, <1>10
  <2> QED BY <1>2, <2>1 DEF VInv, SentOnce, Starts
<1>15. CurrentKV'
  <2>1. cache' \subseteq {version}
    BY <1>4, <1>6, <1>7, <1>8
  <2>2. \A r \in Requests : place'[r] \in {"waiting", "running"} => seen'[r] \subseteq {version}
    BY <1>7, <1>8, <1>9
  <2> QED BY <1>2, <2>1, <2>2 DEF CurrentKV
<1>16. CompleteAnswers'
  <2> SUFFICES ASSUME NEW r \in Requests, reply'[r] = "stop"
               PROVE  place'[r] \in {"finished", "gone"} /\ Cardinality(seen'[r]) = 1
    BY Zenon DEF CompleteAnswers
  <2>1. CASE r \in F
    BY <1>8, <1>9, <2>1, FS_Singleton, Zenon
  <2>2. CASE r \notin F
    <3>1. place[r] \in {"finished", "gone"} /\ Cardinality(seen[r]) = 1
      BY <1>10, <2>2 DEF VInv, CompleteAnswers
    <3>2. r \notin B
      BY <1>4, <3>1
    <3> QED BY <1>8, <1>9, <3>1, <3>2
  <2> QED BY <2>1, <2>2
<1> QED BY <1>12, <1>13, <1>14, <1>15, <1>16 DEF VInv

LEMMA HandleDiskOutputInv ==
  ASSUME VInv, HandleDiskOutput
  PROVE  VInv'
<1>1. /\ UNCHANGED <<scenario, at, step, inbox, place, version, seen, cache>> /\ ~crashed
      /\ reply' = [t \in Tasks |-> IF t = future THEN "done" ELSE reply[t]]
  BY Zenon DEF HandleDiskOutput
<1>2. DOMAIN reply' = Tasks /\ \A r \in Requests : reply'[r] = "stop" => reply[r] = "stop"
  BY <1>1, WeightAssumption
<1>3. VTypeOK'
  BY <1>1, <1>2, MessagesKept, Zenon DEF VInv, VTypeOK
<1>4. CallsInScript'
  BY <1>1 DEF VInv, CallsInScript, Op
<1>5. Quiet(inbox, inbox')
  BY <1>1 DEF VInv, VTypeOK, Quiet, Starts
<1>6. SentOnce' /\ CurrentKV' /\ CompleteAnswers'
  BY <1>1, <1>2, <1>5, QuietStep
<1> QED BY <1>3, <1>4, <1>6 DEF VInv

\* A completed answer and all the KV it was computed from come from one version of the
\* weights, for any number of requests and clients and any calls that neither keep
\* requests across a pause nor keep the cache across an update: the flush in
\* flush_cache_after_weight_update succeeds only on an idle scheduler.
THEOREM OneVersion == WSpec => []OneVersionPerAnswer
<1>1. WInit => VersionInv
  BY InitVInv DEF VersionInv
<1>2. VersionInv /\ [WNext]_allVars => VersionInv'
  <2> SUFFICES ASSUME VersionInv, [WNext]_allVars PROVE VersionInv'
    OBVIOUS
  <2>1. UNCHANGED scenario
    BY Zenon DEF WNext, allVars, Generate, GenerateGranted, ReaderGranted, SendOne, Answer,
                 TokenizeError, Disconnect, CancelRequest, ClientCall, ClientGranted, DrainAgain,
                 WriterGranted, CommunicatorGranted, UpdateAnswered, CancelUpdate,
                 HandleDiskOutput, SchedRecv, SchedBatch
  <2>2. CASE KeepsRequests
    BY <2>1, <2>2 DEF VersionInv, KeepsRequests
  <2>3. ASSUME ~KeepsRequests, VInv PROVE VInv'
    <3>1. CASE WNext
      BY <2>3, <3>1, RequestInv, ClientInv, SchedRecvInv, SchedBatchInv, HandleDiskOutputInv DEF WNext
    <3>2. CASE UNCHANGED allVars
      <4>1. UNCHANGED <<scenario, schedVars, at, step, inbox, reply>>
        BY <3>2, Zenon DEF allVars, controlVars
      <4>2. VTypeOK'
        BY <2>3, <4>1, ControlTypes, Zenon DEF VInv, VTypeOK
      <4>3. CallsInScript' /\ SentOnce'
        BY <2>3, <4>1 DEF VInv, schedVars, CallsInScript, Op, SentOnce, Starts
      <4>4. CurrentKV' /\ CompleteAnswers'
        BY <2>3, <4>1, Zenon DEF VInv, schedVars, CurrentKV, CompleteAnswers
      <4> QED BY <4>2, <4>3, <4>4 DEF VInv
    <3> QED BY <3>1, <3>2
  <2> QED BY <2>2, <2>3 DEF VersionInv
<1>3. VersionInv => OneVersionPerAnswer
  BY DEF VersionInv, VInv, CompleteAnswers, OneVersionPerAnswer
<1> QED BY <1>1, <1>2, <1>3, PTL DEF WSpec

=============================================================================
