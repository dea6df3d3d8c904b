----------------------------- MODULE WeightUpdate -----------------------------
(***************************************************************************)
(* Weight updates, pauses and generation requests: the coroutines of the   *)
(* tokenizer manager that share model_update_lock (RWLock) and             *)
(* is_pause_cond, and what the scheduler does with their messages.         *)
(*                                                                         *)
(* A request holds the reader lock from before it is tokenized until it is *)
(* answered.  An update holds the writer lock, or, while generation is     *)
(* paused, is_pause_cond (updates through a FanOutCommunicator) or nothing *)
(* (updates from disk).  A step is the code of one coroutine between two   *)
(* points where it suspends, or one message or one iteration of the        *)
(* scheduler's loop (event_loop_normal, memory for every request, prompts  *)
(* that share a prefix).  The sockets keep the order of messages.          *)
(***************************************************************************)
EXTENDS RWLock, Sequences

CONSTANTS
  Requests,   \* calls of generate_request
  Clients,    \* clients of the control endpoints, each making its calls in turn
  Scenarios,  \* possible [script: [Clients -> the calls it makes],
              \* outcomes: what may happen to a request besides its answer]
  MaxNew,     \* max_new_tokens of every request
  None

ASSUME WeightAssumption ==
  /\ Tasks = Requests \cup Clients /\ Requests \cap Clients = {}
  /\ MaxNew \in Nat \ {0} /\ None \notin Clients

\* What a client calls is a list.
ASSUME ScriptAssumption ==
  \A s \in Scenarios : \A c \in Clients :
    Len(s.script[c]) \in Nat /\ DOMAIN s.script[c] = 1 .. Len(s.script[c])

VARIABLES
  scenario,       \* the calls of this behaviour
  is_pause,       \* TokenizerManager.is_pause
  cond,           \* is_pause_cond's lock: its holder and, behind it, who waits
  at,             \* [task -> where it is]
  step,           \* [client -> the number of its current call]
  future,         \* the client that model_update_result belongs to
  reply,          \* [task -> the answer that is there for it, or ""]
  inbox,          \* messages on their way to the scheduler
  outbox,         \* answers to updates from disk on their way back
  engine_paused,  \* Scheduler._engine_paused
  place,          \* [request -> where the scheduler has it]
  to_finish,      \* requests with to_finish = FINISH_ABORT
  out,            \* [request -> output tokens]
  version,        \* how many times the weights were replaced
  seen,           \* [request -> versions its KV and its tokens come from]
  cache,          \* versions the KV of the prefix cache comes from
  crashed         \* an exception ended the scheduler or the handle loop: no more answers

controlVars == <<is_pause, cond, step, future>>
schedVars == <<engine_paused, place, to_finish, out, version, seen, cache, crashed>>
allVars == <<vars, scenario, controlVars, at, reply, inbox, outbox, schedVars>>

WInit ==
  /\ Init
  /\ scenario \in Scenarios
  /\ is_pause = FALSE /\ cond = <<>> /\ future = None
  /\ at = [t \in Tasks |-> IF t \in Requests THEN "new" ELSE "ready"]
  /\ step = [c \in Clients |-> 1]
  /\ reply = [t \in Tasks |-> ""]
  /\ inbox = <<>> /\ outbox = 0 /\ engine_paused = FALSE /\ crashed = FALSE
  /\ place = [r \in Requests |-> "none"]
  /\ to_finish = {} /\ out = [r \in Requests |-> 0]
  /\ version = 0 /\ seen = [r \in Requests |-> {}] /\ cache = {}

\* Messages to the scheduler.  A second abort of all requests right behind the
\* first finds nothing left to do and is not kept.
AbortAll == [type |-> "abort", whom |-> Requests]
Post(q, msg) == IF q # <<>> /\ q[Len(q)] = msg THEN q ELSE Append(q, msg)

\* RWLock.is_locked
IsLocked == writer_active \/ readers > 0

-----------------------------------------------------------------------------
(* generate_request                                                        *)

\* The request has is_pause_cond, q waits behind it: it sleeps while generation
\* is paused, and otherwise asks for the reader lock without suspending.
PauseCheck(r, q) ==
  /\ cond' = q
  /\ \/ /\ is_pause
        /\ at' = [at EXCEPT ![r] = "sleep"] /\ UNCHANGED vars
     \/ /\ ~is_pause
        /\ AcquireReader(r)
        /\ at' = [at EXCEPT ![r] = IF pc'[r] = "reading" THEN "tokenizing" ELSE "lock"]

\* A new request, or one that continue_generation woke, takes is_pause_cond.
Generate(r) ==
  /\ at[r] \in {"new", "woken"}
  /\ \/ cond = <<>> /\ PauseCheck(r, <<>>)
     \/ /\ cond # <<>>
        /\ cond' = Append(cond, r)
        /\ at' = [at EXCEPT ![r] = "cond"] /\ UNCHANGED vars
  /\ UNCHANGED <<scenario, is_pause, step, future, reply, inbox, outbox, schedVars>>

GenerateGranted(r) ==
  /\ at[r] = "cond" /\ Head(cond) = r
  /\ PauseCheck(r, Tail(cond))
  /\ UNCHANGED <<scenario, is_pause, step, future, reply, inbox, outbox, schedVars>>

ReaderGranted(r) ==
  /\ at[r] = "lock"
  /\ ResumeReader(r)
  /\ at' = [at EXCEPT ![r] = IF pc'[r] = "reading" THEN "tokenizing" ELSE "lock"]
  /\ UNCHANGED <<scenario, controlVars, reply, inbox, outbox, schedVars>>

\* _send_one_request
SendOne(r) ==
  /\ at[r] = "tokenizing"
  /\ at' = [at EXCEPT ![r] = "sent"]
  /\ inbox' = Append(inbox, [type |-> "generate", whom |-> {r}])
  /\ UNCHANGED <<vars, scenario, controlVars, reply, outbox, schedVars>>

\* Tokenization or validation raises inside the reader lock.
TokenizeError(r) ==
  /\ "tokenize_error" \in scenario.outcomes /\ at[r] = "tokenizing"
  /\ ReleaseReader(r)
  /\ at' = [at EXCEPT ![r] = "gone"]
  /\ UNCHANGED <<scenario, controlVars, reply, inbox, outbox, schedVars>>

\* _wait_one_response returns the last output, and the lock is released.
Answer(r) ==
  /\ at[r] = "sent" /\ reply[r] # ""
  /\ ReleaseReader(r)
  /\ at' = [at EXCEPT ![r] = "over"]
  /\ UNCHANGED <<scenario, controlVars, reply, inbox, outbox, schedVars>>

\* The client of a waiting request is gone: abort it and leave.
Disconnect(r) ==
  /\ "disconnect" \in scenario.outcomes /\ at[r] = "sent" /\ reply[r] = ""
  /\ ReleaseReader(r)
  /\ at' = [at EXCEPT ![r] = "gone"]
  /\ inbox' = Append(inbox, [type |-> "abort", whom |-> {r}])
  /\ UNCHANGED <<scenario, controlVars, reply, outbox, schedVars>>

\* The task of the request is cancelled while it waits for the reader lock.
CancelRequest(r) ==
  /\ at[r] = "lock"
  /\ CancelReader(r)
  /\ at' = [at EXCEPT ![r] = "gone"]
  /\ UNCHANGED <<scenario, controlVars, reply, inbox, outbox, schedVars>>

-----------------------------------------------------------------------------
(* pause_generation, continue_generation and the update_weights_from_*     *)

Op(c) == scenario.script[c][step[c]]

Done(c) ==
  /\ at' = [at EXCEPT ![c] = "ready"]
  /\ step' = [step EXCEPT ![c] = @ + 1]

\* Some update through the communicator has been sent and not been answered.
CommunicatorBusy == \E c \in Clients : at[c] = "awaiting" /\ Op(c).via = "communicator"

\* Send the update and await its answer: _wait_for_model_update_from_disk replaces
\* model_update_result, a communicator queues behind the update it is busy with.
SendUpdate(c, box) ==
  \/ /\ Op(c).via = "communicator" /\ CommunicatorBusy
     /\ at' = [at EXCEPT ![c] = "queued"]
     /\ inbox' = box /\ UNCHANGED future
  \/ /\ Op(c).via = "disk" \/ ~CommunicatorBusy
     /\ at' = [at EXCEPT ![c] = "awaiting"]
     /\ inbox' = Append(box, [type |-> "update", from |-> c, obj |-> Op(c)])
     /\ future' = IF Op(c).via = "disk" THEN c ELSE future

Drain_Once(c, waiters, box) ==
  /\ inbox' = Post(box, AbortAll)
  /\ Done(c) /\ cond' = waiters

\* One pass of the loop of pause_generation's abort mode, is_pause_cond held.
Drain(c, waiters, box) ==
  /\ inbox' = Post(box, AbortAll)
  /\ \/ /\ IsLocked
        /\ at' = [at EXCEPT ![c] = "drain"]
        /\ cond' = <<c>> \o waiters /\ UNCHANGED step
     \/ /\ ~IsLocked
        /\ Done(c) /\ cond' = waiters

\* The three kinds of call from the moment they have is_pause_cond.  box holds
\* what has been sent so far, waiters are the tasks behind the call.
Pause(c, waiters, box) ==
  /\ Op(c).op = "pause"
  /\ is_pause' = TRUE
  /\ \/ /\ Op(c).mode # "abort"
        /\ inbox' = Post(box, [type |-> "pause", mode |-> Op(c).mode])
        /\ Done(c) /\ cond' = waiters
     \/ Op(c).mode = "abort" /\ Drain(c, waiters, box)
  /\ UNCHANGED <<vars, future>>

Continue_NoNotify(c, waiters, box) ==
  /\ Op(c).op = "continue"
  /\ is_pause' = FALSE
  /\ inbox' = Post(box, [type |-> "continue"])
  /\ Done(c) /\ cond' = waiters
  /\ UNCHANGED <<vars, future>>

Continue(c, waiters, box) ==
  /\ Op(c).op = "continue"
  /\ is_pause' = FALSE
  /\ inbox' = Post(box, [type |-> "continue"])
  /\ at' = [t \in Tasks |-> IF t = c THEN "ready"
                           ELSE IF at[t] = "sleep" THEN "woken" ELSE at[t]]
  /\ step' = [step EXCEPT ![c] = @ + 1]
  /\ cond' = waiters
  /\ UNCHANGED <<vars, future>>

\* An update while generation is not paused: under the writer lock.
UpdateUnderLock(c, waiters, box) ==
  /\ ~is_pause
  /\ cond' = waiters
  /\ AcquireWriter(c)
  /\ \/ pc'[c] = "writing" /\ SendUpdate(c, box)
     \/ /\ pc'[c] = "wwait"
        /\ at' = [at EXCEPT ![c] = "lock"]
        /\ inbox' = box /\ UNCHANGED future

UpdateFromDisk(c, waiters, box) ==
  /\ Op(c).op = "update" /\ Op(c).via = "disk"
  /\ \/ UpdateUnderLock(c, waiters, box)
     \/ is_pause /\ cond' = waiters /\ SendUpdate(c, box) /\ UNCHANGED vars
  /\ UNCHANGED <<is_pause, step>>

\* update_weights_from_distributed, _tensor and _ipc keep is_pause_cond meanwhile.
UpdateThroughCommunicator(c, waiters, box) ==
  /\ Op(c).op = "update" /\ Op(c).via = "communicator"
  /\ \/ UpdateUnderLock(c, waiters, box)
     \/ is_pause /\ cond' = <<c>> \o waiters /\ SendUpdate(c, box) /\ UNCHANGED vars
  /\ UNCHANGED <<is_pause, step>>

Perform(c, waiters, box) ==
  \/ Pause(c, waiters, box) \/ Continue(c, waiters, box)
  \/ UpdateFromDisk(c, waiters, box) \/ UpdateThroughCommunicator(c, waiters, box)

\* The client makes its next call, which first aborts all requests if an update
\* asks for that, and then takes is_pause_cond.
ClientCall(c) ==
  /\ at[c] = "ready" /\ step[c] <= Len(scenario.script[c])
  /\ \E box \in {IF Op(c).op = "update" /\ Op(c).abort_all_requests
                  THEN Post(inbox, AbortAll) ELSE inbox} :
       \/ cond = <<>> /\ Perform(c, <<>>, box)
       \/ /\ cond # <<>>
          /\ cond' = Append(cond, c)
          /\ at' = [at EXCEPT ![c] = "cond"]
          /\ inbox' = box
          /\ UNCHANGED <<vars, is_pause, step, future>>
  /\ UNCHANGED <<scenario, reply, outbox, schedVars>>

ClientGranted(c) ==
  /\ at[c] = "cond" /\ Head(cond) = c
  /\ Perform(c, Tail(cond), inbox)
  /\ UNCHANGED <<scenario, reply, outbox, schedVars>>

\* The sleep of pause_generation's loop is over.
DrainAgain(c) ==
  /\ at[c] = "drain"
  /\ Drain(c, Tail(cond), inbox)
  /\ UNCHANGED <<vars, scenario, is_pause, future, reply, outbox, schedVars>>

WriterGranted(c) ==
  /\ at[c] = "lock"
  /\ ResumeWriter(c)
  /\ \/ pc'[c] = "writing" /\ SendUpdate(c, inbox)
     \/ pc'[c] = "wwait" /\ UNCHANGED <<at, inbox, future>>
  /\ UNCHANGED <<scenario, is_pause, cond, step, reply, outbox, schedVars>>

\* The communicator is free for an update that queued in it.
CommunicatorGranted(c) ==
  /\ at[c] = "queued" /\ ~CommunicatorBusy
  /\ SendUpdate(c, inbox)
  /\ UNCHANGED <<vars, scenario, is_pause, cond, step, reply, outbox, schedVars>>

\* The update returns and gives back the lock it holds, if any.
UpdateAnswered(c) ==
  /\ at[c] = "awaiting" /\ reply[c] # ""
  /\ Done(c)
  /\ reply' = [reply EXCEPT ![c] = ""]
  /\ cond' = IF cond # <<>> /\ Head(cond) = c THEN Tail(cond) ELSE cond
  /\ \/ pc[c] = "writing" /\ ReleaseWriter(c)
     \/ pc[c] # "writing" /\ UNCHANGED vars
  /\ UNCHANGED <<scenario, is_pause, future, inbox, outbox, schedVars>>

CancelUpdate(c) ==
  /\ at[c] = "lock"
  /\ CancelWriter(c)
  /\ Done(c)
  /\ UNCHANGED <<scenario, is_pause, cond, future, reply, inbox, outbox, schedVars>>

\* _handle_update_weights_from_disk_req_output: the answer goes to the caller whose
\* future is current; set_result raises on a future that already has a result.
HandleDiskOutput ==
  /\ ~crashed /\ outbox > 0
  /\ outbox' = outbox - 1
  /\ future' = None
  /\ crashed' = (future = None)
  /\ reply' = [t \in Tasks |-> IF t = future THEN "done" ELSE reply[t]]
  /\ UNCHANGED <<vars, scenario, is_pause, cond, at, step, inbox, engine_paused, place,
                 to_finish, out, version, seen, cache>>

-----------------------------------------------------------------------------
(* The scheduler                                                           *)

Placed(where) == {r \in Requests : place[r] = where}
Moved(from, to) == [r \in Requests |-> IF r \in from THEN to ELSE place[r]]

\* is_fully_idle: finished requests leave the batch at the next iteration.
IsFullyIdle == \A r \in Requests : place[r] \in {"none", "gone"}

\* Answers of the requests whose callers are still there.
Answered(rs, kind) ==
  [t \in Tasks |-> IF t \in rs /\ at[t] = "sent" THEN kind[t] ELSE reply[t]]

RecvGenerate(msg) ==
  /\ msg.type = "generate"
  /\ place' = Moved(msg.whom, "waiting")
  /\ UNCHANGED <<engine_paused, to_finish, version, cache, crashed, reply, outbox>>

\* A waiting request is dropped and answered; one in a batch finishes with the next
\* forward pass.
RecvAbort(msg) ==
  /\ msg.type = "abort"
  /\ place' = Moved(msg.whom \cap Placed("waiting"), "gone")
  /\ reply' = Answered(msg.whom \cap Placed("waiting"), [r \in Requests |-> "abort"])
  /\ to_finish' = to_finish \cup (msg.whom \cap Placed("running"))
  /\ UNCHANGED <<engine_paused, version, cache, crashed, outbox>>

RecvPause(msg) ==
  /\ msg.type = "pause"
  /\ engine_paused' = TRUE
  /\ \/ msg.mode = "in_place" /\ UNCHANGED place
     \/ /\ msg.mode = "retract"
        /\ place' = [r \in Requests |-> CASE place[r] = "running" -> "waiting"
                                         [] place[r] = "finished" -> "gone"
                                         [] OTHER -> place[r]]
  /\ UNCHANGED <<to_finish, version, cache, crashed, reply, outbox>>

RecvContinue(msg) ==
  /\ msg.type = "continue"
  /\ engine_paused' = FALSE
  /\ UNCHANGED <<place, to_finish, version, cache, crashed, reply, outbox>>

FlushCache_KeepTree(obj) ==
  /\ cache' = cache
  /\ crashed' = (obj.flush_cache /\ ~IsFullyIdle)

\* flush_cache_after_weight_update
FlushCache(obj) ==
  /\ cache' = IF obj.flush_cache /\ IsFullyIdle THEN {} ELSE cache
  /\ crashed' = (obj.flush_cache /\ ~IsFullyIdle)

\* The weights are replaced, or the load fails and nothing is flushed.
RecvUpdate(msg) ==
  /\ msg.type = "update"
  /\ \/ version' = version + 1 /\ FlushCache(msg.obj)
     \/ "load_error" \in scenario.outcomes /\ UNCHANGED <<version, cache, crashed>>
  /\ \/ msg.obj.via = "disk" /\ outbox' = outbox + 1 /\ UNCHANGED reply
     \/ /\ msg.obj.via = "communicator"
        /\ reply' = [reply EXCEPT ![msg.from] = "done"] /\ UNCHANGED outbox
  /\ UNCHANGED <<engine_paused, place, to_finish>>

\* process_input_requests, one message.
SchedRecv ==
  /\ ~crashed /\ inbox # <<>>
  /\ inbox' = Tail(inbox)
  /\ \E msg \in {Head(inbox)} :
       \/ RecvGenerate(msg) \/ RecvAbort(msg) \/ RecvPause(msg)
       \/ RecvContinue(msg) \/ RecvUpdate(msg)
  /\ UNCHANGED <<vars, scenario, controlVars, at, out, seen>>

\* Of the batch B the requests F have finished; those that finished before leave.
PlacedAfter(B, F) ==
  [r \in Requests |-> CASE r \in F -> "finished"
                      [] r \in B \ F -> "running"
                      [] r \notin B /\ place[r] = "finished" -> "gone"
                      [] OTHER -> place[r]]

\* The batch B runs one forward pass; extend says that it is a prefill, which reads
\* the prefix cache and whose KV is cached at once.
RunBatch(B, extend) ==
  \E tokens \in {[r \in Requests |-> IF r \in B THEN out[r] + 1 ELSE out[r]]} :
  \E kv \in {[r \in Requests |-> IF r \in B
                  THEN seen[r] \cup {version} \cup (IF extend THEN cache ELSE {})
                  ELSE seen[r]]} :
  \E F \in {{r \in B : r \in to_finish \/ tokens[r] = MaxNew}} :
    /\ out' = tokens /\ seen' = kv
    /\ cache' = cache \cup UNION {kv[r] : r \in IF extend THEN B ELSE F}
    /\ reply' = Answered(F, [r \in Requests |-> IF r \in to_finish THEN "abort" ELSE "stop"])
    /\ to_finish' = to_finish \ F
    /\ place' = PlacedAfter(B, F)

\* One iteration of event_loop_normal behind process_input_requests: a prefill of
\* what waits, else a decode of what runs.
SchedBatch ==
  /\ ~crashed /\ ~engine_paused
  /\ Placed("waiting") \cup Placed("running") \cup Placed("finished") # {}
  /\ \/ Placed("waiting") # {} /\ RunBatch(Placed("waiting"), TRUE)
     \/ Placed("waiting") = {} /\ RunBatch(Placed("running"), FALSE)
  /\ UNCHANGED <<vars, scenario, controlVars, at, inbox, outbox, engine_paused, version,
                 crashed>>

-----------------------------------------------------------------------------

\* What the event loop goes on with once a request has arrived, a client has a call.
RequestStep(r) ==
  \/ at[r] = "woken" /\ Generate(r)
  \/ GenerateGranted(r) \/ ReaderGranted(r) \/ SendOne(r) \/ Answer(r)

ClientStep(c) ==
  \/ ClientCall(c) \/ ClientGranted(c) \/ DrainAgain(c) \/ WriterGranted(c)
  \/ CommunicatorGranted(c) \/ UpdateAnswered(c)

WNext ==
  \/ \E r \in Requests :
       \/ Generate(r) \/ GenerateGranted(r) \/ ReaderGranted(r) \/ SendOne(r) \/ Answer(r)
       \/ TokenizeError(r) \/ Disconnect(r) \/ CancelRequest(r)
  \/ \E c \in Clients :
       \/ ClientCall(c) \/ ClientGranted(c) \/ DrainAgain(c) \/ WriterGranted(c)
       \/ CommunicatorGranted(c) \/ UpdateAnswered(c) \/ CancelUpdate(c)
  \/ HandleDiskOutput \/ SchedRecv \/ SchedBatch

WSpec == WInit /\ [][WNext]_allVars

\* The event loop runs every ready coroutine, a client goes on to its next call, and
\* the scheduler goes round its loop.  Nobody has to send a request, to disconnect or
\* to be cancelled.
FairWSpec ==
  /\ WSpec
  /\ \A r \in Requests : WF_allVars(RequestStep(r))
  /\ \A c \in Clients : WF_allVars(ClientStep(c))
  /\ WF_allVars(HandleDiskOutput)
  /\ WF_allVars(SchedRecv) /\ WF_allVars(SchedBatch)

-----------------------------------------------------------------------------

\* Weights are not replaced under a request that somebody waits for, unless the
\* engine was paused with its requests kept: the writer lock excludes the requests,
\* and pause_generation's abort mode returns only when none of them is left.  This is
\* about clients that make their updates before they continue: an update of one
\* client within the abort pause of another takes no lock and may meet new requests.
UpdateAtRest ==
  [][version' # version /\ ~engine_paused => \A r \in Requests : pc[r] # "reading"]_allVars

KeepsRequests ==
  \E c \in Clients : \E i \in DOMAIN scenario.script[c] :
    LET o == scenario.script[c][i] IN
    \/ o.op = "pause" /\ o.mode # "abort"
    \/ o.op = "update" /\ ~o.flush_cache

\* A completed answer comes from one version of the weights, its KV included: the
\* flush after an update leaves no KV of the old weights to a request that follows.
\* Pauses that keep requests and updates that keep the cache give that up by design.
OneVersionPerAnswer ==
  KeepsRequests \/ \A r \in Requests : reply[r] = "stop" => Cardinality(seen[r]) = 1

\* A reader that sleeps in acquire_reader though nobody holds the lock or queues for it
\* and no notification is on its way: a writer it waited for was cancelled.
Stranded(r) == pc[r] = "rwait" /\ r \notin notified /\ ~ReaderMustWait

\* Every call ends: requests are answered or leave, pauses and updates return, whoever
\* waits for the lock, for is_pause_cond, for an answer or for continue_generation,
\* where every pause is followed by a continue and none by a second pause.  There are
\* two exceptions.  With the Condition of CPython 3.10 - 3.12 (Renotify = FALSE) a
\* cancelled update may leave a request Stranded until another update comes.  And when
\* the scheduler has died of the assertion of flush_cache_after_weight_update, nothing
\* is answered any more.  Requests and calls are finitely many, so this says that from
\* some time on no other is under way.
CallsReturn ==
  <>[](crashed \/ /\ \A r \in Requests : at[r] \in {"new", "over", "gone"} \/ Stranded(r)
                  /\ \A c \in Clients : at[c] = "ready")
=============================================================================
