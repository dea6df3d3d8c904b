--------------------------- MODULE DisaggPrefill ---------------------------
(***************************************************************************)
(* The scheduler of a prefill instance (disaggregation/prefill.py and      *)
(* abort_request of managers/scheduler.py), event_loop_overlap: requests   *)
(* go through the bootstrap queue, the waiting queue, a batch (in chunks)  *)
(* and the inflight queue; with optimistic prefill a request may run       *)
(* before the decode instance has registered it.  The result of a batch is *)
(* processed after the next one has been launched.                         *)
(*                                                                         *)
(* The prefix cache is off (disable_radix_cache): module Scheduler has it. *)
(* The operators map the process record p to the one the call leaves.      *)
(***************************************************************************)
EXTENDS KVTransfer

CONSTANTS
  ChunkPages,  \* pages computed per batch (chunked_prefill_size)
  Retries      \* optimistic_prefill_retries

\* A Req with its sender.  row: the request's row of req_to_token by page;
\* computed: extend_range.end; sent: start_send_idx and the sender's
\* curr_idx; tmp_end: tmp_end_idx; middle: inflight_middle_chunks; info:
\* transfer_infos of the room; answer and answers: what the client was told
\* last, and how often.
PrefillReq ==
  [pending |-> FALSE, midx |-> None, retries |-> 0, row |-> <<>>,
   computed |-> 0, sent |-> 0, tmp_end |-> 0, middle |-> 0, to_finish |-> FALSE,
   conclude |-> None, status |-> NoEntry, info |-> None, expired |-> FALSE,
   answer |-> New, answers |-> 0]

\* bootstrap, waiting, inflight: the queues; last: the batch whose result is
\* pending; chunked and chunked_abort:
\* chunked_req and the request of pending_chunked_abort; free and bufs: free
\* pages and free metadata buffers; mem and buf: what pages and buffers hold;
\* chunks, worker, failed_session: the transfer queue, its thread and
\* failed_sessions; error: an exception ended the scheduler.
InitPrefill ==
  [alive |-> TRUE, error |-> FALSE, req |-> [r \in Reqs |-> PrefillReq],
   bootstrap |-> <<>>, waiting |-> <<>>, inflight |-> <<>>, last |-> <<>>,
   chunked |-> None, chunked_abort |-> None,
   free |-> PrefillPages, bufs |-> SetToSeq(PrefillBufs),
   mem |-> [q \in PrefillPages |-> None], buf |-> [b \in PrefillBufs |-> None],
   chunks |-> <<>>, worker |-> None, failed_session |-> FALSE]

Raise(s) == [s EXCEPT !.error = TRUE]

\* is_aborted
IsAbortedNever(s, r) == FALSE  \* mutant

IsAborted(s, r) == s.req[r].to_finish \/ s.req[r].answer = Aborted

\* poll() of the sender; only bootstrapping times out.
SenderPoll(s, r) == Poll(s, r, Bootstrapping)

\* clear() of the sender drops the registration too.
SenderClear(s, r) == [Clear(s, r) EXCEPT !.req[r].info = None]
SenderFailure(s, r) == [FailureException(s, r) EXCEPT !.req[r].info = None]

\* release_kv_cache; there must be something to release.
ReleaseKV(s, r) ==
  [s EXCEPT !.free = @ \cup Range(s.req[r].row), !.req[r].row = <<>>,
            !.error = @ \/ s.req[r].row = <<>>]

\* maybe_release_metadata_buffer and ensure_metadata_buffer.
ReleaseBuf(s, r) ==
  IF s.req[r].midx = None THEN s
  ELSE [s EXCEPT !.bufs = Append(@, s.req[r].midx), !.req[r].midx = None]

HasBuf(s, r) == s.req[r].midx # None \/ s.bufs # <<>>

EnsureBuf(s, r) ==
  IF s.req[r].midx # None THEN s
  ELSE [s EXCEPT !.req[r].midx = Head(s.bufs), !.bufs = Tail(@)]

\* finalize_bootstrap, which needs a buffer and asserts that it runs once.
FinalizeBootstrap(s, r) ==
  IF ~s.req[r].pending THEN Raise(s)
  ELSE [EnsureBuf(s, r) EXCEPT !.req[r].pending = FALSE, !.req[r].sent = 0]

\* handle_bootstrap_failure
BootstrapFailureLeak(s, r) ==  \* mutant: the metadata buffer is kept
  LET failed == SenderFailure(s, r)
      released == IF s.req[r].row = <<>> THEN failed ELSE ReleaseKV(failed, r)
  IN  Answer([released EXCEPT !.req[r].pending = FALSE], r, Aborted)

BootstrapFailure(s, r) ==
  LET failed == SenderFailure(s, r)
      released == IF s.req[r].row = <<>> THEN failed ELSE ReleaseKV(failed, r)
  IN  Answer([ReleaseBuf(released, r) EXCEPT !.req[r].pending = FALSE], r, Aborted)

\* optimistic_release_and_requeue: the KV goes, the metadata buffer stays.
OptimisticRequeue(s, r) ==
  LET reset == [ReleaseKV(s, r) EXCEPT
                  !.req[r].computed = 0, !.req[r].sent = 0, !.req[r].tmp_end = 0,
                  !.req[r].middle = 0, !.req[r].pending = TRUE]
  IN  IF s.req[r].retries >= Retries
      THEN [reset EXCEPT !.bootstrap = Append(@, r)]
      ELSE [reset EXCEPT !.req[r].retries = @ + 1, !.waiting = <<r>> \o @]

-----------------------------------------------------------------------------
\* pop_bootstrapped for one request of the bootstrap queue.
PopBootstrapped(s, r) ==
  LET poll == SenderPoll(s, r)
      Keep == [s EXCEPT !.bootstrap = Append(@, r)]
  IN  CASE poll = Failed -> BootstrapFailure(s, r)
        [] poll = Bootstrapping ->
             IF s.req[r].retries < Retries /\ HasBuf(s, r)
             THEN [EnsureBuf(s, r) EXCEPT !.waiting = Append(@, r)] ELSE Keep
        [] poll = WaitingForInput ->
             IF HasBuf(s, r) THEN [FinalizeBootstrap(s, r) EXCEPT !.waiting = Append(@, r)]
             ELSE Keep
        [] OTHER -> Raise(s)

\* process_pending_chunked_abort
PendingChunkedAbort(s) ==
  LET r == s.chunked_abort
      aborted == ReleaseBuf(Conclude(s, r), r)
      released == IF s.req[r].row = <<>> THEN aborted ELSE ReleaseKV(aborted, r)
  IN  CASE r = None -> s
        [] r # None /\ s.chunked = r ->
             Answer([released EXCEPT !.req[r].pending = FALSE, !.req[r].to_finish = FALSE,
                                     !.chunked = None, !.chunked_abort = None], r, Aborted)
        [] OTHER -> IF s.req[r].answer # Live \/ s.req[r].row = <<>>
                    THEN [s EXCEPT !.chunked_abort = None] ELSE s

\* process_prefill_chunk with check_bootstrap: a chunked request that is still
\* bootstrapping stops here, its KV is released with the result of the chunk.
PrefillChunk(s) ==
  LET r == s.chunked
      poll == SenderPoll(s, r)
      Go(t) == [t EXCEPT !.req[r].tmp_end = t.req[r].computed]
  IN  CASE r = None -> s
        [] r # None /\ ~s.req[r].pending -> Go(s)
        [] r # None /\ s.req[r].pending /\ poll = Failed ->
             [BootstrapFailure(s, r) EXCEPT !.chunked = None]
        [] r # None /\ s.req[r].pending /\ poll = Bootstrapping -> [s EXCEPT !.chunked = None]
        [] r # None /\ s.req[r].pending /\ poll = WaitingForInput ->
             IF HasBuf(s, r) THEN Go(FinalizeBootstrap(s, r)) ELSE Raise(s)
        [] OTHER -> Raise(s)

\* resolve_waiting_queue_bootstrap for one request.
ResolveWaiting(s, r) ==
  LET poll == SenderPoll(s, r)
      Keep(t) == [t EXCEPT !.waiting = Append(@, r)]
  IN  CASE IsAborted(s, r) -> Keep(s)
        [] ~IsAborted(s, r) /\ poll = Failed -> BootstrapFailure(s, r)
        [] ~IsAborted(s, r) /\ poll = WaitingForInput /\ s.req[r].pending /\ HasBuf(s, r) ->
             Keep(FinalizeBootstrap(s, r))
        [] ~IsAborted(s, r) /\ poll = NoEntry -> Raise(s)
        [] OTHER -> Keep(s)

\* The next chunk of r joins the batch b.batch: the lowest free pages are
\* allocated and the forward pass fills them.  b.left pages may still be
\* computed.
AddToBatch(b, r) ==
  LET s == b.s
      start == s.req[r].computed
      n == Min({b.left, NumPages[r] - start})
      pages == SubSeq(SetToSortSeq(s.free, <), 1, n)
      whole == start + n = NumPages[r]
  IN  [left |-> b.left - n, batch |-> Append(b.batch, r), stop |-> b.stop,
       s |-> [s EXCEPT !.free = @ \ Range(pages), !.req[r].row = @ \o pages,
                       !.req[r].computed = start + n,
                       !.req[r].middle = IF whole THEN @ ELSE @ + 1,
                       !.chunked = IF whole THEN (IF @ = r THEN None ELSE @) ELSE r,
                       !.mem = [q \in PrefillPages |->
                         IF q \in Range(pages)
                         THEN <<r, start + CHOOSE i \in DOMAIN pages : pages[i] = q>> ELSE @[q]]]]

\* get_new_batch_prefill: the chunked request first, then waiting requests in
\* order until one does not fit or has to be cut into chunks.
NewBatch(s) ==
  LET empty == [left |-> ChunkPages, batch |-> <<>>, stop |-> FALSE, s |-> s]
      begun == IF s.chunked = None THEN empty ELSE AddToBatch(empty, s.chunked)
      Admit(b, r) ==
        IF b.stop \/ b.left = 0 \/ b.s.chunked # None \/ NumPages[r] > Cardinality(b.s.free)
        THEN [b EXCEPT !.stop = TRUE] ELSE AddToBatch(b, r)
      b == ForEach(LAMBDA x, r : Admit(x, r), begun, s.waiting)
  IN  [batch |-> b.batch,
       s |-> [b.s EXCEPT !.waiting = SelectSeq(@, LAMBDA r : r \notin Range(b.batch))]]

\* send_kv_chunk: pages up to end that were not sent yet; with the last chunk
\* goes the metadata, which set_buf writes even when there is no page to send.
SendKVChunk(s, r, end, last) ==
  LET written == IF last THEN [s EXCEPT !.buf[s.req[r].midx] = r] ELSE s
      first == s.req[r].sent + 1
  IN  IF end < first /\ ~last THEN s
      ELSE [AddTransferRequest(written, r, first, end) EXCEPT !.req[r].sent = end]

\* process_batch_result_disagg_prefill for one request of the batch.
BatchResult(s, r) ==
  LET poll == SenderPoll(s, r)
      Finish(t) == SendKVChunk([t EXCEPT !.inflight = Append(@, r)], r, NumPages[r], TRUE)
      less == [s EXCEPT !.req[r].middle = @ - 1]
  IN  IF s.req[r].middle <= 0
      THEN CASE ~s.req[r].pending -> Finish(s)
             [] s.req[r].pending /\ poll = Failed -> BootstrapFailure(s, r)
             [] s.req[r].pending /\ poll = Bootstrapping -> OptimisticRequeue(s, r)
             [] s.req[r].pending /\ poll = WaitingForInput /\ HasBuf(s, r) ->
                  Finish(FinalizeBootstrap(s, r))
             [] OTHER -> Raise(s)
      ELSE CASE s.req[r].pending -> OptimisticRequeue(less, r)
             [] ~s.req[r].pending /\ IsAborted(s, r) -> less
             [] OTHER -> IF s.req[r].midx = None THEN Raise(s)
                         ELSE SendKVChunk(less, r, s.req[r].tmp_end, FALSE)

\* process_disagg_prefill_inflight_queue for one request.
InflightResult(s, r) ==
  LET poll == SenderPoll(s, r)
  IN  CASE poll = Success ->
             ReleaseBuf(Answer(SenderClear(ReleaseKV(s, r), r), r, Done), r)
        [] poll = Failed ->
             ReleaseBuf(Answer(ReleaseKV(SenderFailure(s, r), r), r, Aborted), r)
        [] poll = NoEntry -> Raise(s)
        [] OTHER -> [s EXCEPT !.inflight = Append(@, r)]

-----------------------------------------------------------------------------
PrefillStep(s) ==
  /\ p.alive /\ ~p.error
  /\ p' = s
  /\ UNCHANGED <<d, to_prefill, to_decode, scenario, faults>>

\* PrefillBootstrapQueue.add: the sender announces its room.  Requests
\* arrive in the order of their numbers.
PrefillAdd(r) ==
  /\ p.req[r].answer = New /\ \A q \in Reqs : q < r => p.req[q].answer # New
  /\ PrefillStep(
       [UpdateStatus(p, r, Bootstrapping) EXCEPT !.req[r].pending = TRUE,
          !.req[r].answer = Live, !.bootstrap = Append(@, r)])

\* abort_request, for wherever r is.
PrefillAbort(r) ==
  /\ MayFail("abort_prefill") /\ p.alive /\ ~p.error
  /\ p.req[r].answer = Live
  /\ LET waits == r \in Range(p.waiting)
         marked == [p EXCEPT !.chunked_abort = IF p.chunked = r THEN r ELSE @,
                             !.req[r].to_finish = @ \/ r \in Range(p.last)]
         dropped == Answer(ReleaseBuf([marked EXCEPT !.waiting = SelectSeq(@, LAMBDA x : x # r)],
                                      r), r, Aborted)
         stopped == IF waits THEN dropped ELSE marked
     IN  p' = IF (waits /\ p.req[r].pending) \/ r \in Range(p.bootstrap \o p.inflight)
              THEN Conclude(stopped, r) ELSE stopped
  /\ faults' = faults + 1
  /\ UNCHANGED <<d, to_prefill, to_decode, scenario>>

\* One iteration of event_loop_overlap_disagg_prefill: the next batch is formed
\* and launched, the previous one is processed while it runs, then the inflight
\* queue.  An iteration is one step: what the other threads do meanwhile comes
\* before or after it, so that a request polled twice in it (in the bootstrap
\* and the waiting queue, or with its batch and in the inflight queue) has the
\* same status both times.  A change between the two polls takes effect with
\* the poll of the next iteration.
PrefillNext ==
  LET popped == ForEach(LAMBDA x, r : PopBootstrapped(x, r), [p EXCEPT !.bootstrap = <<>>],
                        p.bootstrap)
      checked == PrefillChunk(PendingChunkedAbort(popped))
      batch == NewBatch(ForEach(LAMBDA x, r : ResolveWaiting(x, r),
                                [checked EXCEPT !.waiting = <<>>], checked.waiting))
      done == ForEach(LAMBDA x, r : BatchResult(x, r), batch.s, p.last)
  IN  [ForEach(LAMBDA x, r : InflightResult(x, r), [done EXCEPT !.inflight = <<>>], done.inflight)
       EXCEPT !.last = batch.batch]

PrefillIteration == PrefillStep(PrefillNext)
=============================================================================
