---------------------------- MODULE DisaggDecode ----------------------------
(***************************************************************************)
(* The scheduler of a decode instance as the prefill instance sees it      *)
(* (disaggregation/decode.py): a request waits in pending_reqs until the   *)
(* prefill instance is known, shakes hands, reserves pages and a metadata  *)
(* buffer and sends both to the prefill instance, and waits in the         *)
(* transfer queue until the KV has arrived.  How much memory is reserved   *)
(* and what the running batch does with it is module DecodeQueue.          *)
(***************************************************************************)
EXTENDS KVTransfer

CONSTANT MaxEnsure  \* _max_ensure_retries

\* A DecodeRequest with its receiver.  receiver: kv_receiver is not None;
\* known: bootstrap_infos is set; notified: an ABORT has been sent; midx:
\* metadata_buffer_index; mismatch: the metadata was another room's.
DecodeReq ==
  [receiver |-> TRUE, known |-> FALSE, notified |-> FALSE, waiting |-> FALSE, midx |-> None,
   row |-> <<>>, conclude |-> None, status |-> NoEntry, expired |-> FALSE,
   mismatch |-> FALSE, answer |-> New, answers |-> 0]

\* What may end the process.
NoReceiver == "AttributeError: kv_receiver is None"
UnexpectedPoll == "ValueError: unexpected poll case"

\* queue, pending, transfer: the prealloc queue, pending_reqs and the transfer
\* queue; running: requests past the transfer queue; info, connected:
\* prefill_info_table and the connection pool know the prefill instance;
\* ensured, recent: _ensure_retry_count, and the last attempt to fetch its info
\* failed less than _ensure_retry_interval ago; error: the exception that ended
\* the process; the rest as in InitPrefill.
InitDecode(info) ==
  [error |-> None, req |-> [r \in Reqs |-> DecodeReq],
   queue |-> <<>>, pending |-> <<>>, transfer |-> <<>>, running |-> {},
   info |-> info, connected |-> FALSE, ensured |-> 0, recent |-> FALSE,
   free |-> DecodePages, bufs |-> SetToSeq(DecodeBufs),
   mem |-> [q \in DecodePages |-> None], buf |-> [b \in DecodeBufs |-> None]]

\* poll() of the receiver; only waiting for input times out, and only once
\* send_metadata has started the timer.
ReceiverPoll(s, r) == Poll(s, r, WaitingForInput)

\* _send_abort_notification: once, and only if the prefill ranks are known.
Notifies(s, r) == s.req[r].known /\ ~s.req[r].notified
AbortMsg(r) == [kind |-> "abort", room |-> r]

ReceiverAbort(s, r) ==
  IF ~s.req[r].receiver THEN [s EXCEPT !.error = NoReceiver]
  ELSE [Conclude(s, r) EXCEPT !.req[r].notified = @ \/ s.req[r].known]

\* kv_receiver.init: the rank info comes from the prefill instance unless a
\* connection to it is cached.  A receiver aborted before stays aborted.
ReceiverInit(s, r) ==
  LET found == [s EXCEPT !.req[r].known = TRUE, !.connected = TRUE]
  IN  CASE ~s.req[r].receiver -> [s EXCEPT !.error = NoReceiver]
        [] s.req[r].receiver /\ ~(s.info /\ (s.connected \/ p.alive)) -> Conclude(s, r)
        [] OTHER -> IF s.req[r].conclude = Failed THEN found
                    ELSE UpdateStatus(found, r, WaitingForInput)

\* release_kv_cache and the end of a transfer: the buffer is reset before it
\* is given back.
ReleasePages(s, r) == [s EXCEPT !.free = @ \cup Range(s.req[r].row), !.req[r].row = <<>>]
ReleaseBuffer(s, r) ==
  [s EXCEPT !.buf[s.req[r].midx] = None, !.bufs = Append(@, s.req[r].midx), !.req[r].midx = None]
DropReceiver(s, r) == [Clear(s, r) EXCEPT !.req[r].receiver = FALSE]

-----------------------------------------------------------------------------
\* _resolve_pending_reqs; fetched: the prefill instance answers.  A failed
\* attempt is repeated after an interval, and after the last one the requests
\* are given up.
ResolvePending(s, fetched) ==
  LET ready == s.info \/ fetched
      Each(t, Op(_, _)) ==
        ForEach(LAMBDA x, r : Op(x, r), [t EXCEPT !.pending = <<>>, !.ensured = 0], s.pending)
  IN  CASE s.pending = <<>> \/ s.recent -> s
        [] s.pending # <<>> /\ ~s.recent /\ ready ->
             Each([s EXCEPT !.info = TRUE], LAMBDA x, r : ReceiverInit(x, r))
        [] s.pending # <<>> /\ ~s.recent /\ ~ready /\ s.ensured + 1 >= MaxEnsure ->
             Each(s, LAMBDA x, r : ReceiverAbort(x, r))
        [] OTHER -> [s EXCEPT !.ensured = @ + 1, !.recent = TRUE]

\* _update_handshake_waiters for one request, when some request has to be
\* polled, and the scan of pop_preallocated that drops what failed.
Handshake(s, r) ==
  LET poll == ReceiverPoll(s, r)
      Keep(t) == [t EXCEPT !.queue = Append(@, r)]
  IN  CASE poll = Failed -> Answer(DropReceiver(FailureException(s, r), r), r, Aborted)
        [] poll = WaitingForInput -> Keep([s EXCEPT !.req[r].waiting = TRUE])
        [] poll = Bootstrapping -> Keep(s)
        [] OTHER -> [s EXCEPT !.error = UnexpectedPoll]

Handshakes(s) ==
  IF /\ \A r \in Range(s.queue) : s.req[r].waiting
     /\ \A r \in Range(s.queue) : s.req[r].conclude # Failed
  THEN s
  ELSE ForEach(LAMBDA x, r : Handshake(x, r), [s EXCEPT !.queue = <<>>], s.queue)

\* The preallocation loop: the first requests that shook hands and for which
\* there are pages and a buffer, in order.
Preallocated(s) ==
  LET ready == SelectSeq(s.queue, LAMBDA r : s.req[r].waiting)
      Pages(k) == MapThenSumSet(LAMBDA i : NumPages[ready[i]], 1 .. k)
      n == Max({k \in 0 .. Len(ready) : Pages(k) <= Cardinality(s.free) /\ k <= Len(s.bufs)})
  IN  SubSeq(ready, 1, n)

\* _pre_alloc and the buffer for one request, which moves to the transfer queue.
Preallocate(s, r) ==
  LET pages == SubSeq(SetToSortSeq(s.free, <), 1, NumPages[r])
  IN  [s EXCEPT !.free = @ \ Range(pages), !.req[r].row = pages,
                !.req[r].midx = Head(s.bufs), !.bufs = Tail(@),
                !.queue = SelectSeq(@, LAMBDA x : x # r), !.transfer = Append(@, r)]

\* send_metadata; a request that shook hands knows the prefill ranks.
MetadataMsg(s, r) ==
  [kind |-> "metadata", room |-> r, info |-> [pages |-> s.req[r].row, buf |-> s.req[r].midx]]

\* pop_transferred for one request.  A success counts only once the metadata
\* is there (_apply_metadata_gate), and only if it is this room's
\* (_commit_transfer_to_req).
PopTransferred(s, r) ==
  LET poll == ReceiverPoll(s, r)
      room == s.buf[s.req[r].midx]
      Drop(t) == ReleaseBuffer(ReleasePages(Answer(DropReceiver(t, r), r, Aborted), r), r)
  IN  CASE poll = Failed -> Drop(FailureException(s, r))
        [] poll = Success /\ room = r ->
             ReleaseBuffer(DropReceiver([s EXCEPT !.running = @ \cup {r}], r), r)
        [] poll = Success /\ room \notin {r, None} -> Drop([s EXCEPT !.req[r].mismatch = TRUE])
        [] poll = NoEntry -> [s EXCEPT !.error = UnexpectedPoll]
        [] OTHER -> [s EXCEPT !.transfer = Append(@, r),
                              !.req[r].conclude = IF poll = Success THEN Success ELSE @]

-----------------------------------------------------------------------------
DecodeStep(s, msgs) ==
  /\ d.error = None
  /\ d' = s
  /\ to_prefill' = to_prefill \o msgs
  /\ UNCHANGED <<p, to_decode, scenario, faults>>

\* DecodePreallocQueue.add: initialized at once if the prefill instance is
\* known, else pending.  Requests arrive in the scenario's order.
DecodeAdd(r) ==
  /\ d.req[r].answer = New
  /\ r = scenario.order[1 + Cardinality({q \in Reqs : d.req[q].answer # New})]
  /\ LET s == [UpdateStatus(d, r, Bootstrapping) EXCEPT !.req[r].answer = Live,
                                                        !.queue = Append(@, r)]
     IN  DecodeStep(IF s.info THEN ReceiverInit(s, r) ELSE [s EXCEPT !.pending = Append(@, r)], <<>>)

\* abort_request: the receiver of a request in either queue is aborted, a
\* running request ends.
DecodeAbort(r) ==
  /\ MayFail("abort_decode") /\ d.error = None
  /\ r \in Range(d.queue \o d.transfer)
  /\ d' = ReceiverAbort(d, r)
  /\ to_prefill' = IF Notifies(d, r) THEN Append(to_prefill, AbortMsg(r)) ELSE to_prefill
  /\ faults' = faults + 1
  /\ UNCHANGED <<p, to_decode, scenario>>

\* process_decode_queue: pop_preallocated, then pop_transferred.  The prefill
\* instance is asked for its info if there are pending requests; a receiver
\* that is aborted or whose timer ran out tells the prefill instance.
DecodeNext(fetched) ==
  LET resolved == ResolvePending(d, fetched)
      shaken == Handshakes(resolved)
      new == Preallocated(shaken)
      s == ForEach(LAMBDA x, r : Preallocate(x, r), shaken, new)
      aborted == SelectSeq(d.pending, LAMBDA r : resolved.req[r].notified /\ ~d.req[r].notified)
      late == SelectSeq(s.transfer, LAMBDA r : s.req[r].conclude = None /\ Notifies(s, r)
                 /\ s.req[r].status = WaitingForInput /\ s.req[r].expired)
  IN  IF resolved.error # None THEN [s |-> resolved, msgs |-> <<>>]
      ELSE [s |-> ForEach(LAMBDA x, r : PopTransferred(x, r), [s EXCEPT !.transfer = <<>>],
                          s.transfer),
            msgs |-> [i \in DOMAIN aborted |-> AbortMsg(aborted[i])] \o
                     [i \in DOMAIN new |-> MetadataMsg(s, new[i])] \o
                     [i \in DOMAIN late |-> AbortMsg(late[i])]]

ProcessDecodeQueue == \E next \in {DecodeNext(p.alive)} : DecodeStep(next.s, next.msgs)

\* The same when the attempt to fetch the info of a live prefill instance fails;
\* MaxEnsure bounds how often.
FetchFails ==
  /\ "fetch" \in scenario.faults
  /\ p.alive /\ d.pending # <<>> /\ ~d.info /\ ~d.recent
  /\ \E next \in {DecodeNext(FALSE)} : DecodeStep(next.s, next.msgs)

\* _ensure_retry_interval is over.
RetryInterval ==
  /\ d.recent
  /\ DecodeStep([d EXCEPT !.recent = FALSE], <<>>)

\* A request that runs is answered in the end and gives its pages back.
DecodeFinish(r) ==
  /\ r \in d.running
  /\ DecodeStep(Answer(ReleasePages([d EXCEPT !.running = @ \ {r}], r), r, Done), <<>>)
=============================================================================
