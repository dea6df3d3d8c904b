----------------------------- MODULE KVTransfer -----------------------------
(***************************************************************************)
(* The KV connection between a prefill and a decode instance               *)
(* (disaggregation/common/conn.py, disaggregation/mooncake/conn.py): the   *)
(* request_status tables of the two KV managers, the messages between      *)
(* them, and the threads that move the KV.  The schedulers that use the    *)
(* connection are in modules DisaggPrefill and DisaggDecode, the whole     *)
(* system in module Disagg.                                                *)
(*                                                                         *)
(* A room is a request.  The unit of KV is the page; page i of request r   *)
(* holds <<r, i>> once the forward pass or the transfer has written it,    *)
(* and a metadata buffer holds the room it was written for.  There is one  *)
(* rank on either side, hence one transfer queue: add_transfer_request     *)
(* sends everything for one session to the same queue.                     *)
(***************************************************************************)
EXTENDS Integers, Sequences, FiniteSets, FiniteSetsExt, SequencesExt

CONSTANTS
  Reqs,          \* requests, each with its bootstrap_room: 1 .. n
  NumPages,      \* [Reqs -> pages of the prompt]
  PrefillPages,  \* pages of the KV pool of the prefill instance: 1 .. n
  DecodePages,   \* pages of the KV pool of the decode instance: 1 .. n
  PrefillBufs,   \* metadata buffers of the prefill instance: 1 .. n
  DecodeBufs,    \* metadata buffers of the decode instance: 1 .. n
  Scenarios,     \* possible [faults: a set of faults, budget: how many of
                 \*           them, info: prefill_info_table has the instance,
                 \*           order: Reqs as they arrive at the decode instance]
  None

VARIABLES
  p,           \* the prefill process: scheduler, KV manager, pools
  d,           \* the decode process
  to_prefill,  \* messages to bootstrap_thread, in order
  to_decode,   \* messages to decode_thread, in order
  scenario,
  faults       \* faults so far

vars == <<p, d, to_prefill, to_decode, scenario, faults>>

\* KVPoll
Failed == 0
Bootstrapping == 1
WaitingForInput == 2
Success == 4
\* The room is not in request_status.
NoEntry == -1

\* What update_status makes of an entry: Failed overrides any status of a room
\* that is known and is ignored for one that is not, otherwise the status only
\* grows, from Failed too.
NewStatus(old, status) ==
  CASE status = Failed -> IF old = NoEntry THEN NoEntry ELSE Failed
    [] OTHER           -> Max({old, status})

UpdateStatus(s, r, status) == [s EXCEPT !.req[r].status = NewStatus(@, status)]

\* clear(): the room leaves request_status.
Clear(s, r) == [s EXCEPT !.req[r].status = NoEntry]

\* abort() of sender and receiver: poll reports Failed from now on.
Conclude(s, r) == [UpdateStatus(s, r, Failed) EXCEPT !.req[r].conclude = Failed]

\* failure_exception(): poll keeps reporting what it reported, the room is
\* forgotten.
FailureException(s, r) ==
  [Clear(s, r) EXCEPT !.req[r].conclude = IF @ = None THEN Failed ELSE @]

\* poll(): the cached conclusion, else the status, unless the timer of the
\* state it is in (timed) has run out.  A missing entry is a KeyError.
PollUntimed(s, r, timed) ==  \* mutant: no timeout
  IF s.req[r].conclude # None THEN s.req[r].conclude ELSE s.req[r].status

Poll(s, r, timed) ==
  CASE s.req[r].conclude # None                         -> s.req[r].conclude
    [] s.req[r].status = timed /\ s.req[r].expired      -> Failed
    [] OTHER                                            -> s.req[r].status

\* The terminal answer of the process to the client.
Answer(s, r, how) ==
  [s EXCEPT !.req[r].answer = how, !.req[r].answers = @ + 1]

New == "new"
Live == "live"
Done == "done"
Aborted == "aborted"

\* A scan of a queue: the handler of each entry in turn.  (The singleton sets
\* have TLC compute every intermediate record once.)
ForEach(Handler(_, _), s, queue) ==
  FoldLeft(LAMBDA x, r : CHOOSE y \in {Handler(z, r) : z \in {x}} : TRUE, s, queue)

\* A fault of the given kind may still happen.
MayFail(kind) == kind \in scenario.faults /\ faults < scenario.budget

-----------------------------------------------------------------------------
\* add_transfer_request: pages first .. last of r go to the transfer queue,
\* unless the room has failed or the decode instance has not registered it.
AddTransferRequest(s, r, first, last) ==
  IF s.req[r].status \in {NoEntry, Failed} \/ s.req[r].info = None THEN s
  ELSE [s EXCEPT !.chunks = Append(@,
         [room |-> r, first |-> first, pages |-> SubSeq(s.req[r].row, first, last),
          last |-> last = NumPages[r], buf |-> s.req[r].midx])]

\* bootstrap_thread: the decode instance registers the pages and the buffer it
\* reserved for a room, or gives the room up.
BootstrapThreadDeaf ==  \* mutant: an ABORT message is ignored
  /\ p.alive /\ to_prefill # <<>>
  /\ LET m == Head(to_prefill)
     IN  p' = IF m.kind = "abort" THEN p
              ELSE [UpdateStatus(p, m.room, WaitingForInput) EXCEPT !.req[m.room].info = m.info]
  /\ to_prefill' = Tail(to_prefill)
  /\ UNCHANGED <<d, to_decode, scenario, faults>>

BootstrapThread ==
  /\ p.alive /\ to_prefill # <<>>
  /\ LET m == Head(to_prefill)
     IN  \/ /\ m.kind = "metadata"
            /\ p' = [UpdateStatus(p, m.room, WaitingForInput) EXCEPT !.req[m.room].info = m.info]
         \/ /\ m.kind = "abort"
            /\ p' = IF p.req[m.room].status = Success THEN p ELSE UpdateStatus(p, m.room, Failed)
  /\ to_prefill' = Tail(to_prefill)
  /\ UNCHANGED <<d, to_decode, scenario, faults>>

\* transfer_worker takes a chunk: it drops the chunk of a room that failed or
\* was cleared, and fails a room whose session is dead.
WorkerTakes ==
  /\ p.alive /\ p.worker = None /\ p.chunks # <<>>
  /\ LET c == Head(p.chunks)
         s == [p EXCEPT !.chunks = Tail(@)]
         room == p.req[c.room]
     IN  \/ /\ room.status \in {NoEntry, Failed} \/ room.info = None
            /\ p' = s /\ UNCHANGED to_decode
         \/ /\ room.status \notin {NoEntry, Failed} /\ room.info # None /\ p.failed_session
            /\ p' = UpdateStatus(s, c.room, Failed)
            /\ to_decode' = Append(to_decode, [room |-> c.room, status |-> Failed])
         \/ /\ room.status \notin {NoEntry, Failed} /\ room.info # None /\ ~p.failed_session
            /\ p' = [s EXCEPT !.worker = [chunk |-> c, info |-> room.info, stage |-> "kv"]]
            /\ UNCHANGED to_decode
  /\ UNCHANGED <<d, to_prefill, scenario, faults>>

\* The worker is done with a chunk of r: once the room is cleared or complete
\* its registration goes.
WorkerIdle(s, r) ==
  [s EXCEPT !.worker = None,
            !.req[r].info = IF s.req[r].status \in {NoEntry, Success} THEN None ELSE @]

\* send_kvcache: the pages of the chunk are written into the pages the decode
\* instance named, whoever owns either by now.
WorkerSendsKV ==
  /\ p.alive /\ p.worker # None
  /\ p.worker.stage = "kv"
  /\ LET c == p.worker.chunk
         dst == p.worker.info.pages
     IN  /\ d' = [d EXCEPT !.mem = [q \in DecodePages |->
                    IF \E i \in DOMAIN c.pages : q = dst[c.first + i - 1]
                    THEN LET i == CHOOSE i \in DOMAIN c.pages : q = dst[c.first + i - 1]
                         IN  p.mem[c.pages[i]]
                    ELSE d.mem[q]]]
         /\ p' = IF c.last THEN [p EXCEPT !.worker.stage = "aux"] ELSE WorkerIdle(p, c.room)
  /\ UNCHANGED <<to_prefill, to_decode, scenario, faults>>

\* The transfer engine reports an error: the room has failed, and if it was
\* the KV the session is dead until a probe or a new registration says
\* otherwise.
WorkerSendFails ==
  /\ p.alive /\ p.worker # None /\ MayFail("send")
  /\ LET r == p.worker.chunk.room
         s == [p EXCEPT !.failed_session = @ \/ p.worker.stage = "kv"]
     IN  /\ p' = WorkerIdle(UpdateStatus(s, r, Failed), r)
         /\ to_decode' = Append(to_decode, [room |-> r, status |-> Failed])
  /\ faults' = faults + 1
  /\ UNCHANGED <<d, to_prefill, scenario>>

\* send_aux after the last chunk, then the room is reported complete.
WorkerSendsAux ==
  /\ p.alive /\ p.worker # None
  /\ p.worker.stage = "aux"
  /\ LET c == p.worker.chunk
     IN  /\ d' = [d EXCEPT !.buf[p.worker.info.buf] = p.buf[c.buf]]
         /\ p' = WorkerIdle(UpdateStatus(p, c.room, Success), c.room)
         /\ to_decode' = Append(to_decode, [room |-> c.room, status |-> Success])
  /\ UNCHANGED <<to_prefill, scenario, faults>>

\* The prefill instance probes a dead session and finds it alive again.
ProbeSession ==
  /\ p.alive /\ p.failed_session
  /\ p' = [p EXCEPT !.failed_session = FALSE]
  /\ UNCHANGED <<d, to_prefill, to_decode, scenario, faults>>

\* decode_thread: what the prefill instance says of a room; success of a room
\* that is no longer known is ignored.
DecodeThread ==
  /\ to_decode # <<>>
  /\ LET m == Head(to_decode)
     IN  d' = IF d.req[m.room].status = NoEntry THEN d ELSE UpdateStatus(d, m.room, m.status)
  /\ to_decode' = Tail(to_decode)
  /\ UNCHANGED <<p, to_prefill, scenario, faults>>

-----------------------------------------------------------------------------
\* Timeouts are long: one runs out while something is under way only as one of
\* the scenario's faults.
Quiet ==
  /\ to_prefill \o to_decode \o p.chunks = <<>> /\ p.worker = None
  /\ p.waiting \o p.last \o p.inflight = <<>> /\ d.running = {}
TimePasses ==
  \/ (Quiet \/ ~p.alive) /\ UNCHANGED faults
  \/ ~Quiet /\ MayFail("timeout") /\ faults' = faults + 1

\* SGLANG_DISAGGREGATION_BOOTSTRAP_TIMEOUT on the prefill side, from the
\* creation of the sender ...
BootstrapTimer(r) ==
  /\ p.alive
  /\ p.req[r].status = Bootstrapping /\ ~p.req[r].expired
  /\ p' = [p EXCEPT !.req[r].expired = TRUE]
  /\ TimePasses
  /\ UNCHANGED <<d, to_prefill, to_decode, scenario>>

\* ... and SGLANG_DISAGGREGATION_WAITING_TIMEOUT on the decode side, from
\* send_metadata.
WaitingTimer(r) ==
  /\ d.req[r].status = WaitingForInput /\ d.req[r].midx # None /\ ~d.req[r].expired
  /\ d' = [d EXCEPT !.req[r].expired = TRUE]
  /\ TimePasses
  /\ UNCHANGED <<p, to_prefill, to_decode, scenario>>

\* _handle_node_failure, when the heartbeat to a known prefill instance fails
\* too often: every room of it that is not complete has failed, and what is
\* known of it is forgotten.
NodeFailure ==
  /\ ~p.alive /\ d.info
  /\ d' = [d EXCEPT !.info = FALSE, !.connected = FALSE,
                    !.req = [r \in Reqs |->
                      IF d.req[r].status = Success THEN d.req[r]
                      ELSE [d.req[r] EXCEPT !.status = NewStatus(@, Failed)]]]
  /\ UNCHANGED <<p, to_prefill, to_decode, scenario, faults>>
=============================================================================
