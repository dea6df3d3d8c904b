----------------------------- MODULE DecodeQueue -----------------------------
(***************************************************************************)
(* KV memory of a decode instance in prefill/decode disaggregation         *)
(* (disaggregation/decode.py): DecodePreallocQueue reserves the pages of a *)
(* prompt before its KV arrives, DecodeTransferQueue holds the request     *)
(* while it arrives, the running batch grows one token per request and     *)
(* step and is retracted to the CPU when the pool is full, and a retracted *)
(* request is resumed before anything new is admitted.                     *)
(*                                                                         *)
(* The unit is the token and the loop is event_loop_normal_disagg_decode.  *)
(* How the KV travels is the subject of module Disagg: here a receiver     *)
(* only reports bootstrapping, waiting (for input), success or failed, and *)
(* changes its mind at any moment.  The decode-side radix cache, SWA,      *)
(* HiCache and HiSparse are off, as they are by default.                   *)
(***************************************************************************)
EXTENDS Integers, Sequences, FiniteSets, FiniteSetsExt, SequencesExt

CONSTANTS
  Reqs,         \* requests
  Workloads,    \* possible [input: [Reqs -> len(origin_input_ids)],
                \*           max_new: [Reqs -> max_new_tokens], pool: tokens,
                \*           page_size, reserved: num_reserved_decode_tokens,
                \*           meta_buffers: rows of the metadata buffers]
  Clip,         \* CLIP_MAX_NEW_TOKEN
  Slots,        \* req_to_token_pool.size
  MaxRunning,   \* max_running_requests
  MaxAborts     \* bound on client aborts

ASSUME DecodeQueueAssumption ==
  /\ Clip \in Nat /\ Slots \in Nat \ {0}
  /\ MaxRunning \in Nat \ {0} /\ MaxAborts \in Nat
  /\ \A w \in Workloads :
       /\ w.page_size \in Nat \ {0} /\ w.reserved \in Nat /\ w.meta_buffers \in Nat \ {0}
       /\ w.pool % w.page_size = 0
       /\ \A r \in Reqs : w.max_new[r] >= 1 /\ w.input[r] + w.max_new[r] < w.pool

VARIABLES
  work,       \* the workload: lengths, and the sizes the server was started with
  queue,      \* DecodePreallocQueue.queue
  transfer,   \* DecodeTransferQueue.queue
  retracted,  \* DecodePreallocQueue.retracted_queue
  waiting,    \* Scheduler.waiting_queue
  running,    \* running_batch.reqs; a finished request stays until filter_batch
  out,        \* len(output_ids)
  poll,       \* what kv_receiver.poll() reports
  status,     \* "new", "live", or how the request was answered
  to_finish,  \* requests with to_finish = FINISH_ABORT
  aborts,     \* client aborts so far
  failure,    \* TRUE once _pre_alloc's assertion failed
  pc

vars == <<work, queue, transfer, retracted, waiting, running, out, poll, status,
          to_finish, aborts, failure, pc>>

Answered == {"finished", "aborted", "out_of_memory"}
Live(r) == status[r] = "live"

\* The running requests that have not finished.
RunningLive == SelectSeq(running, Live)

PageSize == work.page_size
Reserved == work.reserved
MetaBuffers == work.meta_buffers

CeilPage(n) == ((n + PageSize - 1) \div PageSize) * PageSize

\* kv_allocated_len: the last output token has no KV yet.
FillLen(r) == work.input[r] + Max({out[r] - 1, 0})

\* Tokens of the pool that the requests of S occupy, and that are left when
\* those of S are the ones with a row.
Held(S) == MapThenSumSet(LAMBDA r : CeilPage(FillLen(r)), S)
Available(S) == work.pool - Held(S)

\* The requests with a row of req_to_token_pool.
Owners == Range(transfer) \cup Range(waiting) \cup {r \in Range(running) : Live(r)}

\* What resuming a retracted request takes (_prealloc_required_tokens).
RequiredTokens(r) == FillLen(r) + Reserved

MaxNew(r) == Min({work.max_new[r], Clip})

\* Tokens that retracting the running batch would give back; the batch still
\* lists requests that finished in the step before.
RetractableTokens == MapThenSumSet(LAMBDA i : work.input[running[i]] + out[running[i]],
                                   DOMAIN running)

NeedSpaceForSingleReq ==
  IF running = <<>> THEN 0
  ELSE Max({MaxNew(r) + work.input[r] - RetractableTokens : r \in Range(running)})

\* _allocatable_token_budgets when the requests of owners have a row, active
\* requests run, wait or are being transferred, and single is the space to
\* keep for one request.
AllocatableTokensNoReserve(owners, active, single) ==  \* mutant
  Available(owners) - single

AllocatableTokens(owners, active, single) ==
  Available(owners) - Max({Reserved * active, single})

Prefix(s, k) == SubSeq(s, 1, k)

\* How far a loop over s gets that stops at the first item that does not fit.
LoopLength(s, Fits(_)) == Max({k \in 0 .. Len(s) : \A j \in 1 .. k : Fits(j)})

-----------------------------------------------------------------------------
\* resume_retracted_reqs: oldest first, as long as each fits with another
\* Reserved decode steps on top.
Resumable ==
  LET budget == AllocatableTokens(Owners, Len(running) + Len(transfer) + Len(waiting), 0)
  IN  Prefix(retracted, LoopLength(retracted, LAMBDA j :
        /\ Cardinality(Owners) + j <= Slots
        /\ MapThenSumSet(LAMBDA i : RequiredTokens(retracted[i]), 1 .. j) <= budget))

\* The preallocation loop of pop_preallocated over the requests that shook
\* hands, first come first served; the requests of resumed have just moved to
\* the waiting queue.
PreallocatableStale(ready, resumed) ==  \* mutant: the budget is not reduced in the loop
  LET active == Len(running) + Len(transfer) + Len(waiting) + Len(resumed)
  IN  Prefix(ready, LoopLength(ready, LAMBDA j :
        /\ Cardinality(Owners) < Slots
        /\ Len(transfer) + j - 1 < MetaBuffers
        /\ Max({work.input[ready[j]] + Reserved,
                work.input[ready[j]] + MaxNew(ready[j]) - RetractableTokens})
             <= AllocatableTokens(Owners, active, NeedSpaceForSingleReq)))

Preallocatable(ready, resumed) ==
  LET active == Len(running) + Len(transfer) + Len(waiting) + Len(resumed)
      Before(j) == Owners \cup Range(resumed \o Prefix(ready, j - 1))
  IN  Prefix(ready, LoopLength(ready, LAMBDA j :
        /\ Cardinality(Before(j)) < Slots
        /\ Len(transfer) + j - 1 < MetaBuffers
        /\ Max({work.input[ready[j]] + Reserved,
                work.input[ready[j]] + MaxNew(ready[j]) - RetractableTokens})
             <= AllocatableTokens(Before(j), active + j - 1, NeedSpaceForSingleReq)))

\* process_decode_queue when some retracted request does not fit: those that
\* fit come back, and nothing else is looked at.
ResumeRetracted(resumed) ==
  /\ Len(resumed) < Len(retracted)
  /\ retracted' = SubSeq(retracted, Len(resumed) + 1, Len(retracted))
  /\ waiting' = waiting \o resumed
  /\ failure' = (failure \/ Available(Owners \cup Range(resumed)) < 0)
  /\ UNCHANGED <<queue, transfer, out, status>>

\* process_decode_queue when every retracted request is resumed:
\* pop_preallocated drops the requests that failed and admits what fits, then
\* pop_transferred collects the transfers that ended.
PopQueuesLosing(resumed) ==  \* mutant: a failed transfer is dropped without an answer
  /\ resumed = retracted
  /\ retracted' = <<>>
  /\ \E kept \in {SelectSeq(queue, LAMBDA r : poll[r] # "failed")} :
     \E admitted \in {Preallocatable(SelectSeq(kept, LAMBDA r : poll[r] = "waiting"), resumed)} :
     \E moved \in {transfer \o admitted} :
       /\ queue' = SelectSeq(kept, LAMBDA r : r \notin Range(admitted))
       /\ transfer' = SelectSeq(moved, LAMBDA r : poll[r] \notin {"success", "failed"})
       /\ waiting' = waiting \o resumed \o SelectSeq(moved, LAMBDA r : poll[r] = "success")
       /\ out' = [r \in Reqs |-> IF r \in Range(moved) /\ poll[r] = "success" THEN 1 ELSE out[r]]
       /\ status' = [r \in Reqs |->
            IF r \in Range(queue) /\ poll[r] = "failed" THEN "aborted" ELSE status[r]]
       /\ failure' = (failure \/ Available(Owners \cup Range(resumed \o admitted)) < 0)

PopQueues(resumed) ==
  /\ resumed = retracted
  /\ retracted' = <<>>
  /\ \E kept \in {SelectSeq(queue, LAMBDA r : poll[r] # "failed")} :
     \E admitted \in {Preallocatable(SelectSeq(kept, LAMBDA r : poll[r] = "waiting"), resumed)} :
     \E moved \in {transfer \o admitted} :
       /\ queue' = SelectSeq(kept, LAMBDA r : r \notin Range(admitted))
       /\ transfer' = SelectSeq(moved, LAMBDA r : poll[r] \notin {"success", "failed"})
       /\ waiting' = waiting \o resumed \o SelectSeq(moved, LAMBDA r : poll[r] = "success")
       /\ out' = [r \in Reqs |-> IF r \in Range(moved) /\ poll[r] = "success" THEN 1 ELSE out[r]]
       /\ status' = [r \in Reqs |->
            IF r \in Range(queue \o moved) /\ poll[r] = "failed" THEN "aborted" ELSE status[r]]
       /\ failure' = (failure \/ Available(Owners \cup Range(resumed \o admitted)) < 0)

ProcessDecodeQueue ==
  /\ pc = "recv"
  /\ \E resumed \in {Resumable} : ResumeRetracted(resumed) \/ PopQueues(resumed)
  /\ pc' = "batch"
  /\ UNCHANGED <<work, running, poll, to_finish, aborts>>

-----------------------------------------------------------------------------
\* update_finish_state: the client aborted it, or it has all its tokens.
MustFinish(r, n) == r \in to_finish \/ n >= work.max_new[r]

\* Tokens the next decode step takes (new_tokens_required_next_decode).
NewTokensRequired(reqs) ==
  PageSize * Cardinality({r \in reqs : FillLen(r) % PageSize = 0})

\* retract_decode's order: the one with the fewest output tokens goes first,
\* of those the one with the longest prompt, of those the last of the batch.
RetractOrder(batch) ==
  LET Keep(i, j) ==
        \/ out[batch[i]] > out[batch[j]]
        \/ /\ out[batch[i]] = out[batch[j]]
           /\ \/ work.input[batch[i]] < work.input[batch[j]]
              \/ work.input[batch[i]] = work.input[batch[j]] /\ i < j
  IN  SetToSortSeq(DOMAIN batch, LAMBDA i, j : Keep(i, j))

\* How many requests of the order retract_decode keeps when avail tokens are
\* free: all if they fit, else it takes at least one away and stops at enough
\* memory or at the last request.
KeepCount(batch, order, avail) ==
  LET Rest(k) == Range([i \in 1 .. k |-> batch[order[i]]])
      Enough(k) == NewTokensRequired(Rest(k)) + Held(Rest(k)) <= avail + Held(Range(batch))
  IN  IF Enough(Len(batch)) \/ Len(batch) <= 1 THEN Len(batch)
      ELSE Max({k \in 1 .. Len(batch) - 1 : k = 1 \/ Enough(k)})

\* get_next_disagg_decode_batch_to_run, run_batch and process_batch_result:
\* waiting requests join the batch (get_new_prebuilt_batch) unless they are
\* complete with the token that came with their KV (process_batch_result_prebuilt;
\* those of first have the stop token there), finished ones leave it, what does
\* not fit is retracted (update_running_batch), and every request left produces
\* a token; those of eos produce their last one.
RunBatch ==
  /\ pc = "batch"
  /\ \E fresh \in {Prefix(waiting, Min({Len(waiting), Max({MaxRunning - Len(running), 0})}))} :
     \E first \in SUBSET {r \in Range(fresh) : out[r] = 1} :
     \E done \in {{r \in Range(fresh) : r \in first \/ MustFinish(r, out[r])}} :
     \E batch \in {RunningLive \o SelectSeq(fresh, LAMBDA r : r \notin done)} :
     \E order \in {RetractOrder(batch)} :
     \E avail \in {Available(Owners \ done)} :
     \E keep \in {KeepCount(batch, order, avail)} :
     \E victims \in {[i \in 1 .. Len(batch) - keep |-> batch[order[Len(batch) + 1 - i]]]} :
     \E kept \in {SelectSeq(batch, LAMBDA r : r \notin Range(victims))} :
     \E oom \in {{r \in Range(kept) : Len(kept) = 1 /\
                     NewTokensRequired({r}) > avail + Held(Range(victims))}} :
     \E ran \in {SelectSeq(kept, LAMBDA r : r \notin oom)} :
     \E eos \in SUBSET Range(ran) :
       /\ waiting' = SubSeq(waiting, Len(fresh) + 1, Len(waiting))
       /\ running' = ran
       /\ retracted' = retracted \o victims
       /\ out' = [r \in Reqs |-> IF r \in Range(ran) THEN out[r] + 1 ELSE out[r]]
       /\ status' = [r \in Reqs |->
            CASE r \in oom -> "out_of_memory"
              [] r \in done \/ (r \in Range(ran) /\ (r \in eos \/ MustFinish(r, out[r] + 1))) ->
                   IF r \in to_finish THEN "aborted" ELSE "finished"
              [] OTHER -> status[r]]
  /\ pc' = "recv"
  /\ UNCHANGED <<work, queue, transfer, poll, to_finish, aborts, failure>>

-----------------------------------------------------------------------------
\* DecodePreallocQueue.add of a new request.
Add(r) ==
  /\ pc = "recv" /\ status[r] = "new"
  /\ queue' = Append(queue, r)
  /\ status' = [status EXCEPT ![r] = "live"]
  /\ UNCHANGED <<work, transfer, retracted, waiting, running, out, poll, to_finish,
                 aborts, failure, pc>>

\* abort_request: a receiver is told to fail, a waiting or retracted request is
\* dropped, a running one ends with its next token.
AbortRequest(r) ==
  /\ pc = "recv" /\ Live(r) /\ aborts < MaxAborts
  /\ aborts' = aborts + 1
  /\ poll' = IF r \in Range(queue \o transfer) THEN [poll EXCEPT ![r] = "failed"] ELSE poll
  /\ waiting' = SelectSeq(waiting, LAMBDA x : x # r)
  /\ retracted' = SelectSeq(retracted, LAMBDA x : x # r)
  /\ status' = IF r \in Range(waiting \o retracted)
               THEN [status EXCEPT ![r] = "aborted"] ELSE status
  /\ to_finish' = IF r \in Range(running) THEN to_finish \cup {r} ELSE to_finish
  /\ UNCHANGED <<work, queue, transfer, running, out, failure, pc>>

\* kv_receiver.init learns the ranks of the prefill instance, or gives up.  add
\* calls it at once or leaves it to a later pop_preallocated, and which of the
\* two is open here.
Handshake(r) ==
  /\ r \in Range(queue) /\ poll[r] = "bootstrapping"
  /\ \E s \in {"waiting", "failed"} : poll' = [poll EXCEPT ![r] = s]
  /\ UNCHANGED <<work, queue, transfer, retracted, waiting, running, out, status, to_finish,
                 aborts, failure, pc>>

\* The transfer ends, at the latest with the timeout of poll().
TransferEnds(r) ==
  /\ r \in Range(transfer) /\ poll[r] = "waiting"
  /\ \E s \in {"success", "failed"} : poll' = [poll EXCEPT ![r] = s]
  /\ UNCHANGED <<work, queue, transfer, retracted, waiting, running, out, status, to_finish,
                 aborts, failure, pc>>

Init ==
  /\ work \in Workloads
  /\ queue = <<>> /\ transfer = <<>> /\ retracted = <<>> /\ waiting = <<>> /\ running = <<>>
  /\ out = [r \in Reqs |-> 0]
  /\ poll = [r \in Reqs |-> "bootstrapping"]
  /\ status = [r \in Reqs |-> "new"]
  /\ to_finish = {} /\ aborts = 0 /\ failure = FALSE /\ pc = "recv"

Next ==
  \/ ProcessDecodeQueue
  \/ RunBatch
  \/ \E r \in Reqs : Add(r) \/ AbortRequest(r) \/ Handshake(r) \/ TransferEnds(r)

Spec == Init /\ [][Next]_vars

\* The event loop goes round, the attempts to reach the prefill instance are
\* bounded, and the transfer threads and timeouts end every transfer.
FairSpec ==
  /\ Spec
  /\ WF_vars(ProcessDecodeQueue) /\ WF_vars(RunBatch)
  /\ \A r \in Reqs : WF_vars(Handshake(r)) /\ WF_vars(TransferEnds(r))

-----------------------------------------------------------------------------
\* Types; every request that is not answered is in one queue at most.
TypeOK ==
  /\ work \in Workloads
  /\ out \in [Reqs -> Nat] /\ aborts \in 0 .. MaxAborts /\ failure \in BOOLEAN
  /\ status \in [Reqs -> {"new", "live"} \cup Answered]
  /\ poll \in [Reqs -> {"bootstrapping", "waiting", "success", "failed"}]
  /\ to_finish \subseteq Reqs /\ pc \in {"recv", "batch"}
  /\ IsInjective(queue \o transfer \o retracted \o waiting \o running)

\* The estimate of pop_preallocated and resume_retracted_reqs is never too
\* optimistic: _pre_alloc finds the pages it asks for (its assertion "KV cache
\* is full! Bug in memory estimation" holds) and a live request keeps its row.
\* resume_retracted_reqs adds up tokens while each request takes whole pages,
\* so this needs a reserve that covers the rounding of a page.
AdmissionFits ==
  Reserved >= PageSize - 1 =>
    /\ ~failure
    /\ Available(Owners) >= 0 /\ Cardinality(Owners) <= Slots
    /\ \A r \in Reqs : Live(r) =>
         r \in Range(queue \o transfer \o retracted \o waiting \o running)

\* What the reservation of num_reserved_decode_tokens per request buys: if it
\* is a multiple of the page size and no answer is longer than it, no request
\* is ever retracted.  With a reserve of one page and a half the requests grow
\* by two pages each and this is not so (workload OddReserve).
NoRetractionWithinReserve ==
  Reserved % PageSize = 0 /\ (\A r \in Reqs : work.max_new[r] <= Reserved) => retracted = <<>>

\* No running request is aborted for lack of memory: "We need to make sure
\* that the sum of inflight tokens and allocatable tokens is greater than
\* maximum input+output length of each inflight request.  Otherwise it is
\* possible for one request running decode out of memory, while all other
\* requests are in the transfer queue that cannot be retracted."
\* (pop_preallocated)
NeverOutOfMemory == \A r \in Reqs : status[r] # "out_of_memory"

\* The oldest retracted request does not fit although nothing runs or waits to
\* run: process_decode_queue returns before it looks at the transfers, which
\* hold the pages, and nothing but an abort by the client changes this.
Blocked ==
  retracted # <<>> /\ Resumable = <<>> /\ waiting = <<>> /\ running = <<>>

\* The request stands at or behind one whose prompt and reserve exceed the pool,
\* which pop_preallocated never admits and never skips.
BehindTooLarge(r) ==
  \E i, j \in DOMAIN queue :
    i <= j /\ queue[j] = r /\ work.input[queue[i]] + Reserved > work.pool

\* Every request the instance accepts is answered, with two exceptions that the
\* workloads contain: the instance comes to be Blocked (workload Stuck), or the
\* request is at or behind one that is too large (workload TooLarge).  Apart
\* from these no request waits for ever for a reservation, for its turn behind
\* retracted requests, or for a transfer that has ended to be noticed.  Requests
\* are finitely many, so this says that from some time on no other is live.
EventuallyAnswered == <>[]\A r \in Reqs : Live(r) => Blocked \/ BehindTooLarge(r)
=============================================================================
