------------------------------ MODULE Scheduler ------------------------------
(***************************************************************************)
(* The event loop of one scheduler process (managers/scheduler.py) with    *)
(* its admission control (PrefillAdder, managers/schedule_policy.py) and   *)
(* the processing of batch results                                         *)
(* (scheduler_components/batch_result_processor.py).                       *)
(*                                                                         *)
(* The process has one thread.  pc says where in an iteration of the loop  *)
(* it is; only at "recv" do messages from the tokenizer arrive.  An        *)
(* iteration is cut into steps, one per pass of its inner loops:           *)
(*                                                                         *)
(*   recv     process_input_requests                                       *)
(*   top      get_next_batch_to_run up to the call of get_new_batch_prefill*)
(*   prefill  _get_new_batch_prefill_raw up to the loop over the queue     *)
(*   admit    one pass of that loop (preempt: one victim of it; add:       *)
(*            add_one_req of it after a preemption)                        *)
(*   build    the rest of _get_new_batch_prefill_raw                       *)
(*   decode   update_running_batch (retract: one pass of the loop of       *)
(*            retract_decode; prepare: prepare_for_decode)                 *)
(*   result   process_batch_result, one request of the batch at a time     *)
(*                                                                         *)
(* With Overlap the loop is event_loop_overlap: the result processed in an *)
(* iteration is that of the batch launched in the iteration before.        *)
(***************************************************************************)
EXTENDS SchedulerKV

CONSTANTS
  Priority,           \* [Reqs -> priority], larger values first
  PreemptThreshold,   \* priority_scheduling_preemption_threshold
  MaxPrefillTokens,   \* max_prefill_tokens
  MaxRunning,         \* pp_max_micro_batch_size, the size of ReqToTokenPool
  InputMargin,        \* the 5 of TpModelWorker.get_worker_info
  Ratios              \* values of new_token_ratio

ASSUME SchedulerAssumption ==
  /\ \A c \in Configs :
       /\ c.overlap \in BOOLEAN /\ c.preemption \in BOOLEAN /\ c.abort \in BOOLEAN
       /\ c.chunk = None \/ c.chunk \in Nat \ {0}
  /\ MaxRunning \in Nat \ {0} /\ MaxPrefillTokens \in Nat /\ InputMargin \in Nat
  /\ Ratios # {} /\ Ratios \subseteq Nat

VARIABLES
  mem,             \* the KV memory, see SchedulerKV
  waiting_queue,   \* sequence of requests
  running,         \* running_batch.reqs
  batch_is_full,   \* running_batch.batch_is_full
  chunked_req,     \* a request or None
  pending_abort,   \* _pending_chunked_abort_req
  last_batch,      \* a batch or None
  cur_batch,       \* a batch or None
  result_queue,    \* sequence of launched batches
  adder,           \* the PrefillAdder of the pass in progress
  todo,            \* requests the inner loop in progress still has to visit
  pc

vars == <<config, mem, waiting_queue, running, batch_is_full, chunked_req, pending_abort,
          last_batch, cur_batch, result_queue, adder, todo, pc>>

MaxNewTokens == config.max_new         \* max_new_tokens asked for
Overlap == config.overlap              \* enable_overlap
EnablePreemption == config.preemption  \* enable_priority_preemption (and scheduling)
ChunkSize == config.chunk              \* chunked_prefill_size, or None
EnableAbort == config.abort            \* clients abort requests

MaxTotalNumTokens == NumPages * PageSize

\* TpModelWorker: max_req_len and max_req_input_len
MaxReqLen == MaxTotalNumTokens - 1
MaxReqInputLen == MaxReqLen - InputMargin

\* init_req_max_new_tokens
MaxNew(r) ==
  LET paged == PageSize * CeilPages(PromptLen[r])
  IN  Max({0, Min({MaxNewTokens[r], MaxReqLen - PromptLen[r] - 1,
                   MaxTotalNumTokens - paged - PageSize - 1})})

NoAdder == [off |-> 0, cur |-> 0, input |-> 0, chunk |-> None, ratio |-> 0,
            can_run |-> <<>>, preempted |-> <<>>, new_chunked |-> None, next |-> 1]

Init ==
  /\ config \in Configs
  /\ mem = [tree    |-> EmptyTree,
            free    |-> [p \in Pages |-> 1],
            req     |-> [r \in Reqs |-> NewReq],
            content |-> [p \in Pages |-> <<>>],
            error   |-> None]
  /\ waiting_queue = <<>> /\ running = <<>> /\ batch_is_full = FALSE
  /\ chunked_req = None /\ pending_abort = None
  /\ last_batch = None /\ cur_batch = None /\ result_queue = <<>>
  /\ adder = NoAdder /\ todo = <<>>
  /\ pc = "recv"

Without(s, S) == SelectSeq(s, LAMBDA x : x \notin S)

\* A step that ends the process leaves pc there.
Goto(m, next) == pc' = IF m.error = None THEN next ELSE "dead"

-----------------------------------------------------------------------------
(* recv: messages                                                          *)

\* handle_generate_request with validate_input_length, init_req_max_new_tokens
\* and _add_request_to_queue.  A prompt that is too long is answered with an
\* error at once and is not part of the model.
Arrive(r) ==
  /\ pc = "recv"
  /\ mem.req[r].status = "new"
  /\ PromptLen[r] < MaxReqInputLen
  /\ mem' = [mem EXCEPT !.req[r].status = "active"]
  /\ waiting_queue' = Append(waiting_queue, r)
  /\ UNCHANGED <<config, running, batch_is_full, chunked_req, pending_abort, last_batch,
                 cur_batch, result_queue, adder, todo, pc>>

\* abort_request for one request id.
AbortRequest(r) ==
  LET queued  == r \in Range(waiting_queue)
      batched == r \in Range(running) \cup (IF cur_batch = None THEN {} ELSE Range(cur_batch.reqs))
  IN  /\ pc = "recv" /\ EnableAbort
      /\ mem.req[r].status = "active" /\ ~mem.req[r].to_finish
      /\ queued \/ batched \/ r = chunked_req
      /\ pending_abort' = IF r = chunked_req THEN r ELSE pending_abort
      /\ waiting_queue' = Without(waiting_queue, {r})
      /\ mem' = [mem EXCEPT !.req[r].status = IF queued THEN "aborted" ELSE @,
                            !.req[r].to_finish = batched]
      /\ UNCHANGED <<config, running, batch_is_full, chunked_req, last_batch, cur_batch,
                     result_queue, adder, todo, pc>>

\* The loop goes on to schedule.  With nothing to do an iteration changes
\* nothing (on_idle only checks).
BeginIteration ==
  /\ pc = "recv"
  /\ waiting_queue # <<>> \/ running # <<>> \/ last_batch # None \/ chunked_req # None
  /\ pc' = "top"
  /\ UNCHANGED <<config, mem, waiting_queue, running, batch_is_full, chunked_req, pending_abort,
                 last_batch, cur_batch, result_queue, adder, todo>>

-----------------------------------------------------------------------------
(* top: get_next_batch_to_run                                              *)

\* process_pending_chunked_abort
ProcessPendingChunkedAbort ==
  IF pending_abort = None \/ chunked_req # pending_abort
    THEN [mem     |-> mem,
          chunked |-> chunked_req,
          pending |-> IF pending_abort # None
                           /\ (Finished(mem, pending_abort) \/ ~mem.req[pending_abort].held)
                        THEN None ELSE pending_abort]
    ELSE LET r == pending_abort
             m == IF mem.req[r].held /\ ~mem.req[r].freed
                    THEN ReleaseKvCache(mem, r, FALSE) ELSE mem
         IN  [mem     |-> [m EXCEPT !.req[r].status = "finished", !.req[r].to_finish = FALSE],
              chunked |-> None,
              pending |-> None]

\* Stash the KV of the chunk that was launched last.
StashChunkedRequest(m, r) ==
  IF r # None /\ m.req[r].ext > m.req[r].plen THEN CacheUnfinishedReq(m, r) ELSE m

\* Mutant: the request that is still being chunked is merged too.
MergeLastBatch_WithChunked(m, chunked) ==
  LET keep == SelectSeq(last_batch.reqs, LAMBDA r : ~Finished(m, r))
  IN  IF last_batch # None /\ last_batch.mode = "extend"
        THEN /\ running' = running \o keep
             /\ batch_is_full' = FALSE
        ELSE UNCHANGED <<running, batch_is_full>>

\* The last prefill batch is filtered and merged into the running batch; a
\* running_batch that was empty is replaced, with a fresh batch_is_full.
MergeLastBatch(m, chunked) ==
  LET keep  == SelectSeq(last_batch.reqs, LAMBDA r :
                 ~Finished(m, r) /\ r # chunked /\ r # last_batch.chunked)
      fewer == Len(keep) < Len(last_batch.reqs)
  IN  IF last_batch # None /\ last_batch.mode = "extend"
        THEN /\ running' = running \o keep
             /\ batch_is_full' = (batch_is_full /\ ~fewer /\ ~(running = <<>> /\ keep # <<>>))
        ELSE UNCHANGED <<running, batch_is_full>>

GetNextBatchToRun ==
  /\ pc = "top"
  /\ \E pca \in {ProcessPendingChunkedAbort} :
       /\ chunked_req' = pca.chunked
       /\ pending_abort' = pca.pending
       /\ \E m \in {StashChunkedRequest(pca.mem, pca.chunked)} :
            /\ mem' = m
            /\ MergeLastBatch(m, pca.chunked)
            /\ Goto(m, "prefill")
  /\ UNCHANGED <<config, waiting_queue, last_batch, cur_batch, result_queue, adder, todo>>

-----------------------------------------------------------------------------
(* prefill: the admission budget (PrefillAdder)                            *)

\* get_num_allocatable_reqs
NumAllocatableReqs ==
  Min({MaxRunning - Len(running),
       MaxRunning - Cardinality({r \in Reqs : mem.req[r].held})})

\* The elements of s by decreasing Key, equal ones in their order in s.
StableSort(s, Key(_)) ==
  LET Before(i) == {j \in DOMAIN s : Key(s[j]) > Key(s[i]) \/ (Key(s[j]) = Key(s[i]) /\ j < i)}
  IN  [k \in DOMAIN s |-> s[CHOOSE i \in DOMAIN s : Cardinality(Before(i)) = k - 1]]

\* calc_priority under FCFS; the queue is in order of wait_queue_entry_time.
CalcPriority(q) == IF EnablePreemption THEN StableSort(q, LAMBDA r : Priority[r]) ELSE q

\* _get_running_request_total_token_offset
TokenOffset(ratio, r) == ratio * (MaxNew(r) - mem.req[r].out)

\* rem_total_tokens and cur_rem_tokens
RemTotalTokens(m, a) == AvailableSize(m) + m.tree.evictable - a.off
CurRemTokens(m, a)   == AvailableSize(m) + m.tree.evictable - a.cur

\* PrefillAdder.__init__
NewAdder(ratio) ==
  [NoAdder EXCEPT !.off   = SumOver(LAMBDA r : TokenOffset(ratio, r), running),
                  !.input = MaxPrefillTokens,
                  !.chunk = ChunkSize,
                  !.ratio = ratio]

\* _update_prefill_budget
UpdatePrefillBudget(a, extend, max_new) ==
  LET paged == PageSize * CeilPages(extend)
  IN  [a EXCEPT !.off   = @ + paged + max_new + PageSize,
                !.cur   = @ + paged + PageSize,
                !.input = @ - paged,
                !.chunk = IF @ = None THEN None ELSE @ - paged]

\* budget_state
BudgetState(m, a) ==
  CASE RemTotalTokens(m, a) <= 0 \/ CurRemTokens(m, a) <= 0 -> "NO_TOKEN"
    [] a.input <= 0                                         -> "OTHER"
    [] a.chunk # None /\ a.chunk <= 0                       -> "OTHER"
    [] OTHER                                                -> "CONTINUE"

\* add_chunked_req: the next chunk of r always runs, whatever the budget.
AddChunkedReq(m, a, r) ==
  LET q         == m.req[r]
      budget    == Min({a.chunk, RemTotalTokens(m, a)})
      rem       == IF budget <= 0 THEN a.chunk ELSE budget
      extend    == q.flen - q.plen
      truncated == extend > rem
      len       == Min({extend, rem})
  IN  [mem     |-> [m EXCEPT !.req[r].ext = q.plen + len],
       adder   |-> [UpdatePrefillBudget(a, len, IF truncated THEN 0 ELSE MaxNew(r))
                      EXCEPT !.can_run = Append(@, r)],
       chunked |-> IF truncated THEN r ELSE None]

\* The early returns of _get_new_batch_prefill_raw.
NoPrefill ==
  LET full == batch_is_full /\ ~EnablePreemption
      none == (full \/ waiting_queue = <<>>) /\ chunked_req = None
      slot == NumAllocatableReqs <= 0 /\ chunked_req = None /\ ~EnablePreemption
  IN  /\ pc = "prefill"
      /\ none \/ slot
      /\ batch_is_full' = IF none THEN full ELSE TRUE
      /\ pc' = "decode"
      /\ UNCHANGED <<config, mem, waiting_queue, running, chunked_req, pending_abort,
                     last_batch, cur_batch, result_queue, adder, todo>>

\* Sort the queue, make the adder, continue the chunked request.
StartPrefill ==
  LET full == batch_is_full /\ ~EnablePreemption
  IN  /\ pc = "prefill"
      /\ \/ chunked_req # None
         \/ ~full /\ waiting_queue # <<>> /\ (EnablePreemption \/ NumAllocatableReqs > 0)
      /\ batch_is_full' = full
      /\ waiting_queue' = CalcPriority(waiting_queue)
      /\ \E ratio \in Ratios :
           IF chunked_req = None
             THEN /\ adder' = NewAdder(ratio)
                  /\ UNCHANGED <<mem, chunked_req>>
             ELSE \E add \in {AddChunkedReq(mem, NewAdder(ratio), chunked_req)} :
                    adder' = add.adder /\ mem' = add.mem /\ chunked_req' = add.chunked
      /\ pc' = "admit"
      /\ UNCHANGED <<config, running, pending_abort, last_batch, cur_batch, result_queue, todo>>

-----------------------------------------------------------------------------
(* admit: the loop over the waiting queue                                  *)

Candidate == waiting_queue[adder.next]

\* running_batch.batch_is_full as the loop updates it for the candidate.
FullNow == batch_is_full \/ Len(adder.can_run) >= NumAllocatableReqs

\* preempt_to_schedule up to its commit: the victims for r, or {}.  The
\* candidates are taken from the lowest priority up, among equals the one
\* that entered the queue last first, until they make up for min_tokens.
Victims(r) ==
  LET valid  == SelectSeq(running, LAMBDA v : v \notin Range(adder.preempted) /\ ~Finished(mem, v))
      order  == StableSort(Reverse(valid), LAMBDA v : -Priority[v])
      enough == {k \in DOMAIN order :
                   /\ \A i \in 1 .. k : Priority[r] - Priority[order[i]] > PreemptThreshold
                   /\ mem.req[r].flen - mem.req[r].plen + MaxNew(r) - RemTotalTokens(mem, adder)
                        <= SumOver(LAMBDA v : TokenOffset(adder.ratio, v), SubSeq(order, 1, k))}
  IN  IF enough = {} THEN {} ELSE Range(SubSeq(order, 1, Min(enough)))

\* The loop ends: the queue is exhausted, or the batch is full and nothing
\* can be preempted.
StopAdmission ==
  LET done == adder.next > Len(waiting_queue)
  IN  /\ pc = "admit"
      /\ done \/ (~done /\ FullNow /\ (EnablePreemption => Victims(Candidate) = {}))
      /\ batch_is_full' = IF done THEN batch_is_full ELSE TRUE
      /\ pc' = "build"
      /\ UNCHANGED <<config, mem, waiting_queue, running, chunked_req, pending_abort, last_batch,
                     cur_batch, result_queue, adder, todo>>

\* preempt_to_schedule commits: the victims, in the order of the running batch.
StartPreemption ==
  /\ pc = "admit" /\ EnablePreemption
  /\ adder.next <= Len(waiting_queue) /\ FullNow
  /\ Victims(Candidate) # {}
  /\ todo' = SelectSeq(running, LAMBDA v : v \in Victims(Candidate))
  /\ batch_is_full' = TRUE
  /\ pc' = "preempt"
  /\ UNCHANGED <<config, mem, waiting_queue, running, chunked_req, pending_abort, last_batch,
                 cur_batch, result_queue, adder>>

\* One victim of preempt_to_schedule; the last one also filters the batch.
PreemptOne ==
  LET v        == Head(todo)
      last     == Len(todo) = 1
      released == Cardinality(Range(adder.preempted) \cap Range(running)) + 1
  IN  /\ pc = "preempt"
      /\ \E m \in ReleaseReq(mem, v, Len(running) - released) :
           /\ mem' = m
           /\ Goto(m, IF last THEN "add" ELSE "preempt")
      /\ adder' = [adder EXCEPT !.off = @ - TokenOffset(adder.ratio, v),
                                !.preempted = Append(@, v)]
      /\ todo' = Tail(todo)
      /\ running' = IF last THEN Without(running, Range(adder.preempted) \cup {v}) ELSE running
      /\ UNCHANGED <<config, waiting_queue, batch_is_full, chunked_req, pending_abort, last_batch,
                     cur_batch, result_queue>>

\* add_one_req after init_next_round_input: what it leaves and its result.
\* A rejected request keeps only the lengths preempt_to_schedule reads; the
\* lock taken for the second test of the budget is released again.
AddOneReq(m, a, r) ==
  LET q       == m.req[r]
      extend  == q.flen - q.plen
      total   == extend + Max({MaxNew(r) - q.out, 0}) + PageSize
      input   == PageSize * CeilPages(extend)
      locked  == [m EXCEPT !.tree = IncLockRef(@, q.node)]
      whole   == a.chunk = None \/ input <= a.chunk
      trunc   == PageSize * (((a.chunk \div PageSize) * PageSize + q.plen) \div PageSize) - q.plen
      len     == IF whole THEN extend ELSE trunc
      paid    == IF whole THEN UpdatePrefillBudget(a, input, MaxNew(r))
                          ELSE UpdatePrefillBudget(a, trunc, 0)
      added   == [locked EXCEPT !.req[r].ext = q.plen + len]
      after   == [paid EXCEPT !.can_run = Append(@, r),
                              !.new_chunked = IF whole THEN @ ELSE r]
      Reject(res) == [mem   |-> [m EXCEPT !.req[r].row = <<>>, !.req[r].prot = 0,
                                          !.req[r].node = Root],
                      adder |-> a, res |-> res]
  IN  CASE total >= RemTotalTokens(m, a)                          -> Reject("NO_TOKEN")
        [] a.chunk = None /\ a.can_run # <<>> /\ input >= a.input -> Reject("OTHER")
        [] total >= RemTotalTokens(locked, a)                     -> Reject("NO_TOKEN")
        [] ~whole /\ trunc <= 0                                   -> Reject("OTHER")
        [] OTHER -> [mem |-> added, adder |-> after, res |-> BudgetState(added, after)]

\* The body of the loop for a candidate there is room for.
AdmitOne ==
  /\ \/ pc = "admit" /\ adder.next <= Len(waiting_queue) /\ ~FullNow
     \/ pc = "add"
  /\ \E add \in {AddOneReq(InitNextRoundInput(mem, Candidate), adder, Candidate)} :
       /\ mem' = add.mem
       /\ adder' = [add.adder EXCEPT !.next = @ + 1]
       /\ batch_is_full' = (batch_is_full \/ add.res = "NO_TOKEN")
       /\ pc' = IF add.res = "CONTINUE" THEN "admit" ELSE "build"
  /\ UNCHANGED <<config, waiting_queue, running, chunked_req, pending_abort, last_batch,
                 cur_batch, result_queue, todo>>

-----------------------------------------------------------------------------
(* build: the new prefill batch                                            *)

\* run_batch, and the batch whose result this iteration processes: the one
\* launched now, or with Overlap the one launched an iteration ago.
Launch(batch) ==
  LET queue  == IF batch = None THEN result_queue ELSE Append(result_queue, batch)
      result == IF Overlap THEN last_batch # None ELSE batch # None
  IN  /\ cur_batch' = batch
      /\ result_queue' = queue
      /\ todo' = IF result THEN Head(queue).reqs ELSE <<>>

\* Nothing was admitted: _get_new_batch_prefill_raw returns None.
BuildNothing ==
  /\ pc = "build" /\ adder.can_run = <<>>
  /\ adder' = NoAdder
  /\ pc' = "decode"
  /\ UNCHANGED <<config, mem, waiting_queue, running, batch_is_full, chunked_req, pending_abort,
                 last_batch, cur_batch, result_queue, todo>>

\* Update the queue, requeue the preempted, set chunked_req, allocate, launch.
BuildBatch ==
  LET rs      == adder.can_run
      chunked == IF adder.new_chunked # None THEN adder.new_chunked ELSE chunked_req
      clash   == adder.new_chunked # None /\ chunked_req # None
      counted == IF chunked = None THEN mem ELSE [mem EXCEPT !.req[chunked].inflight = @ + 1]
  IN  /\ pc = "build" /\ rs # <<>>
      /\ waiting_queue' = Without(waiting_queue, Range(rs)) \o adder.preempted
      /\ chunked_req' = chunked
      /\ \E m \in IF clash THEN {Fail(mem, "two chunked requests")}
                           ELSE AllocForExtend(counted, rs, MaxRunning) :
           mem' = m /\ Goto(m, "result")
      /\ Launch([mode |-> "extend", reqs |-> rs, chunked |-> chunked])
      /\ adder' = NoAdder
      /\ UNCHANGED <<config, running, batch_is_full, pending_abort, last_batch>>

-----------------------------------------------------------------------------
(* decode: update_running_batch                                            *)

\* The sort key of retract_decode, largest first: most output, then the
\* shortest prompt.
RetractKey(r) == mem.req[r].out * MaxTotalNumTokens - PromptLen[r]

\* The memory after the loop's check_decode_mem of the requests in todo.
CheckedMem(first) ==
  IF first THEN {mem} ELSE EvictFromTreeCache(mem, NewTokensRequiredNextDecode(mem, todo))

\* Filter the finished requests and check the memory of the next step.
UpdateRunningBatch ==
  LET rs == SelectSeq(running, LAMBDA r : ~Finished(mem, r))
  IN  /\ pc = "decode"
      /\ running' = rs
      /\ batch_is_full' = (batch_is_full /\ Len(rs) = Len(running))
      /\ IF rs = <<>>
           THEN /\ Launch(None)
                /\ pc' = "result"
                /\ UNCHANGED mem
           ELSE \E m \in EvictFromTreeCache(mem, NewTokensRequiredNextDecode(mem, rs)) :
                  /\ mem' = m
                  /\ IF CheckDecodeMem(m, rs)
                       THEN pc' = "prepare" /\ UNCHANGED <<cur_batch, result_queue, todo>>
                       ELSE /\ pc' = "retract"
                            /\ todo' = StableSort(rs, RetractKey)
                            /\ UNCHANGED <<cur_batch, result_queue>>
      /\ UNCHANGED <<config, waiting_queue, chunked_req, pending_abort, last_batch, adder>>

\* Mutant: a retracted request leaves the batch at once and is not put back.
RetractOne_Drop ==
  /\ pc = "retract" /\ Len(todo) > 1
  /\ \E m \in ReleaseReq(mem, Last(todo), Len(todo) - 1) : mem' = m /\ Goto(m, "retract")
  /\ todo' = Front(todo)
  /\ running' = Without(running, {Last(todo)})
  /\ UNCHANGED <<config, waiting_queue, batch_is_full, chunked_req, pending_abort,
                 last_batch, cur_batch, result_queue, adder>>

\* One pass of the loop of retract_decode: check again, except the first
\* time, and retract the last request of the sorted list.
RetractOne ==
  LET first == Len(todo) = Len(running)
  IN  /\ pc = "retract" /\ Len(todo) > 1
      /\ \E e \in CheckedMem(first) :
           /\ first \/ ~CheckDecodeMem(e, todo)
           /\ \E m \in ReleaseReq(e, Last(todo), Len(todo) - 1) :
                mem' = m /\ Goto(m, "retract")
      /\ todo' = Front(todo)
      /\ UNCHANGED <<config, waiting_queue, running, batch_is_full, chunked_req, pending_abort,
                     last_batch, cur_batch, result_queue, adder>>

\* The loop ends; a request that does not fit even alone is aborted.  The
\* retracted requests go back to the queue.
RetractDone ==
  LET first     == Len(todo) = Len(running)
      alone     == Len(todo) = 1
      retracted == Reverse(SubSeq(StableSort(running, RetractKey), Len(todo) + 1, Len(running)))
      Kept(m, keep) ==
        /\ mem' = m
        /\ running' = keep
        /\ batch_is_full' = (batch_is_full /\ Len(keep) = Len(running))
        /\ IF keep = <<>> THEN Goto(m, "result") /\ Launch(None)
                          ELSE Goto(m, "prepare") /\ todo' = <<>> /\ UNCHANGED <<cur_batch, result_queue>>
      Aborted(m, r) == [m EXCEPT !.req[r].status = "aborted", !.req[r].to_finish = TRUE]
  IN  /\ pc = "retract"
      /\ \E e \in CheckedMem(first) :
           \/ /\ ~alone /\ ~first /\ CheckDecodeMem(e, todo)
              /\ Kept(e, todo)
           \/ /\ alone
              /\ \E e2 \in EvictFromTreeCache(e, NewTokensRequiredNextDecode(e, todo)) :
                   IF CheckDecodeMem(e2, todo)
                     THEN Kept(e2, todo)
                     ELSE \E m \in ReleaseReq(e2, todo[1], 0) : Kept(Aborted(m, todo[1]), <<>>)
      /\ waiting_queue' = waiting_queue \o retracted
      /\ UNCHANGED <<config, chunked_req, pending_abort, last_batch, adder>>

\* prepare_for_decode
PrepareForDecode ==
  /\ pc = "prepare"
  /\ \E m \in AllocForDecode(mem, running) : mem' = m /\ Goto(m, "result")
  /\ Launch([mode |-> "decode", reqs |-> running, chunked |-> None])
  /\ UNCHANGED <<config, waiting_queue, running, batch_is_full, chunked_req, pending_abort,
                 last_batch, adder>>

-----------------------------------------------------------------------------
(* result: process_batch_result                                            *)

\* One more output token and update_finish_state; eos: a stop token.
AppendToken(m, r, eos) ==
  LET q   == m.req[r]
      fin == q.to_finish \/ q.out + 1 >= MaxNew(r) \/ eos
  IN  [m EXCEPT !.req[r].out = @ + 1,
                !.req[r].status = IF fin THEN "finished" ELSE @,
                !.req[r].to_finish = @ /\ ~fin]

\* A request that is finished now is released; another one is cached after
\* its prefill (maybe_cache_unfinished_req) and left alone after a decode.
AfterPrefillToken(m, r) ==
  IF Finished(m, r) THEN ReleaseKvCache(m, r, TRUE) ELSE CacheUnfinishedReq(m, r)

AfterDecodeToken(m, r) == IF Finished(m, r) THEN ReleaseKvCache(m, r, TRUE) ELSE m

\* One request of process_batch_result_prefill.
PrefillResult(m, r, eos) ==
  CASE (Finished(m, r) /\ m.req[r].inflight <= 0) \/ m.req[r].is_retracted -> m
    [] m.req[r].inflight > 0 -> [m EXCEPT !.req[r].inflight = @ - 1]
    [] OTHER -> AfterPrefillToken(AppendToken(m, r, eos), r)

\* Mutant: the result of a batch in flight is used for a request that was
\* answered since.
DecodeResult_IgnoreFinished(m, r, eos) ==
  IF Overlap /\ m.req[r].is_retracted THEN m
  ELSE AfterDecodeToken(AppendToken(m, r, eos), r)

\* One request of process_batch_result_decode.
DecodeResult(m, r, eos) ==
  IF Overlap /\ (Finished(m, r) \/ m.req[r].is_retracted) THEN m
  ELSE AfterDecodeToken(AppendToken(m, r, eos), r)

ProcessResult ==
  /\ pc = "result" /\ todo # <<>>
  /\ \E eos \in BOOLEAN :
       \E m \in {IF Head(result_queue).mode = "extend"
                   THEN PrefillResult(mem, Head(todo), eos)
                   ELSE DecodeResult(mem, Head(todo), eos)} :
         mem' = m /\ Goto(m, "result")
  /\ todo' = Tail(todo)
  /\ UNCHANGED <<config, waiting_queue, running, batch_is_full, chunked_req, pending_abort,
                 last_batch, cur_batch, result_queue, adder>>

\* The end of an iteration of event_loop_normal or event_loop_overlap.
EndIteration ==
  LET result == IF Overlap THEN last_batch # None ELSE cur_batch # None
  IN  /\ pc = "result" /\ todo = <<>>
      /\ result_queue' = IF result THEN Tail(result_queue) ELSE result_queue
      /\ last_batch' = cur_batch
      /\ pc' = "recv"
      /\ UNCHANGED <<config, mem, waiting_queue, running, batch_is_full, chunked_req, pending_abort,
                     cur_batch, adder, todo>>

-----------------------------------------------------------------------------
Schedule ==
  \/ BeginIteration \/ GetNextBatchToRun
  \/ NoPrefill \/ StartPrefill
  \/ StopAdmission \/ StartPreemption \/ PreemptOne \/ AdmitOne
  \/ BuildNothing \/ BuildBatch
  \/ UpdateRunningBatch \/ RetractOne \/ RetractDone \/ PrepareForDecode
  \/ ProcessResult \/ EndIteration

Next == Schedule \/ \E r \in Reqs : Arrive(r) \/ AbortRequest(r)

Spec == Init /\ [][Next]_vars

\* The loop never stops: with work to do it begins an iteration, and inside
\* an iteration it goes on.  Every step of Schedule changes loop and no
\* message does.
loop == <<pc, todo, adder>>

FairSpec ==
  /\ Spec
  /\ WF_vars(BeginIteration)
  /\ []<>(pc \in {"recv", "dead"}) \/ []<><<TRUE>>_loop

-----------------------------------------------------------------------------
(* Properties                                                              *)

Batches == [mode : {"extend", "decode"}, reqs : Seq(Reqs), chunked : Reqs \cup {None}]

\* The variables hold what the code can store in them; a page is counted in
\* the free list, a request is in one of its four states, a node of the tree
\* is a sequence of pages' tokens.
TypeOK ==
  /\ DOMAIN mem.tree.value = DOMAIN mem.tree.lock
  /\ mem.tree.lock \in [Nodes(mem.tree) -> Nat]
  /\ mem.tree.leaves \subseteq Nodes(mem.tree)
  /\ mem.free \in [Pages -> Nat]
  /\ \A r \in Reqs :
       /\ mem.req[r].status \in {"new", "active", "finished", "aborted"}
       /\ mem.req[r].row \in Seq(Pages)
       /\ mem.req[r].out \in 0 .. Max({MaxNew(r), 1})
       /\ mem.req[r].kv \in 0 .. MaxTotalNumTokens
       /\ mem.req[r].inflight \in Nat
  /\ waiting_queue \in Seq(Reqs) /\ running \in Seq(Reqs) /\ todo \in Seq(Reqs)
  /\ batch_is_full \in BOOLEAN
  /\ chunked_req \in Reqs \cup {None} /\ pending_abort \in Reqs \cup {None}
  /\ last_batch \in Batches \cup {None} /\ cur_batch \in Batches \cup {None}
  /\ result_queue \in Seq(Batches)
  /\ pc \in {"recv", "top", "prefill", "admit", "preempt", "add", "build", "decode",
             "retract", "prepare", "result", "dead"}

Held(r) == mem.req[r].held

\* The requests whose last_node is locked.
Lockers == {r \in Reqs : Held(r) \/ r \in Range(adder.can_run)}

\* No sequence of calls makes the scheduler raise: the admission budget never
\* lets an allocation fail (alloc_req_slots: "an alloc failure here means the
\* admission budget (PrefillAdder) was wrong"), no KV is released twice, and
\* the assertions of cache_unfinished_req and _get_new_batch_prefill_raw hold.
NoFailure == mem.error = None

\* Every page is in exactly one place: the free list, one node of the tree,
\* or the unshared part of one request's row.  No page leaks, none is freed
\* twice, none has two owners (the balance _check_pool_invariant computes,
\* page by page).
PagesConserved ==
  \A p \in Pages :
    LET nodes == {n \in Nodes(mem.tree) : p \in Range(mem.tree.value[n])}
        rows  == {r \in Reqs : Held(r) /\ p \in Range(SubSeq(mem.req[r].row, mem.req[r].prot + 1,
                                                             Len(mem.req[r].row)))}
    IN  mem.free[p] + Cardinality(nodes) + Cardinality(rows) = 1

\* A request attends to its own KV: every page of its row holds the KV of
\* exactly its own tokens up to that place, whoever computed it, whatever was
\* evicted, deduplicated or retracted since.
RowHoldsOwnTokens ==
  \A r \in Reqs : Held(r) =>
    /\ Len(mem.req[r].row) = CeilPages(mem.req[r].kv)
    /\ \A i \in DOMAIN mem.req[r].row :
         mem.content[mem.req[r].row[i]] =
           SubSeq(Tokens[r], 1, Min({i * PageSize, mem.req[r].kv}))

\* What the cache serves is right: the pages of a node hold the KV of the
\* tokens on the path to it.
CacheHoldsPath ==
  \A n \in Nodes(mem.tree) :
    LET start == Len(n) - Len(mem.tree.value[n])
    IN  \A i \in DOMAIN mem.tree.value[n] :
          mem.content[mem.tree.value[n][i]] = FlattenSeq(SubSeq(n, 1, start + i))

\* lock_ref counts exactly the live requests whose path runs through the
\* node, and the node of a live request is in the tree: eviction never takes
\* a prefix in use, and nothing stays pinned after its users are gone.
LocksExact ==
  /\ \A r \in Lockers : mem.req[r].node \in Nodes(mem.tree)
  /\ \A n \in Nodes(mem.tree) \ {Root} :
       mem.tree.lock[n] = Cardinality({r \in Lockers : IsPrefix(n, mem.req[r].node)})

\* The incrementally maintained evictable_size_, protected_size_ and
\* evictable_leaves are what a walk over the tree would compute.
SizesExact ==
  LET below == Nodes(mem.tree) \ {Root}
      idle  == {n \in below : mem.tree.lock[n] = 0}
  IN  /\ mem.tree.evictable = SumKeyLen(mem.tree, idle)
      /\ mem.tree.protected = SumKeyLen(mem.tree, below \ idle)
      /\ mem.tree.leaves = {n \in idle : Children(mem.tree, n) = {}}

\* The tree stays a radix tree: two nodes branch at a node, and a node holds
\* one page for every page of its key.
TreeIsRadix ==
  /\ \A p, q \in Nodes(mem.tree) : SubSeq(p, 1, CommonLen(p, q)) \in Nodes(mem.tree)
  /\ \A p \in Nodes(mem.tree) \ {Root} :
       Len(mem.tree.value[p]) * PageSize = KeyLen(mem.tree, p)

\* Where a request that is not answered yet is when the loop waits for messages.
Places(r) ==
  {x \in {"queue", "running", "prefilled", "chunked"} :
     CASE x = "queue"     -> r \in Range(waiting_queue)
       [] x = "running"   -> r \in Range(running)
       [] x = "chunked"   -> r = chunked_req
       [] x = "prefilled" -> /\ last_batch # None /\ last_batch.mode = "extend"
                             /\ r \in Range(last_batch.reqs) /\ r # last_batch.chunked}

\* Between two iterations a request that was accepted and not answered is in
\* exactly one place: nothing is dropped and nothing is scheduled twice.  With
\* priority preemption only the second half holds, see NoPreemptedRequestLost.
NoRequestLost ==
  pc = "recv" => \A r \in Reqs : mem.req[r].status = "active" =>
    /\ Cardinality(Places(r)) <= 1
    /\ Places(r) # {} \/ EnablePreemption

\* The same with preemption: a request that preempt_to_schedule takes out of the
\* running batch is put back into the queue.
NoPreemptedRequestLost ==
  pc = "recv" => \A r \in Reqs : mem.req[r].status = "active" => Places(r) # {}

\* A request that has been answered is left alone: no late result of a batch
\* in flight, no chunk and no retraction changes its answer or gives it KV.
AnswerIsFinal ==
  [][\A r \in Reqs : mem.req[r].status \in {"finished", "aborted"} =>
       /\ mem'.req[r].status = mem.req[r].status
       /\ mem'.req[r].out = mem.req[r].out
       /\ ~mem'.req[r].held]_vars

\* While no client aborts, nothing is aborted, not even for lack of memory:
\* init_req_max_new_tokens cuts an answer to what the whole pool can hold, so
\* the last request that retract_decode keeps always fits.
NeverAbortedForMemory ==
  \A r \in Reqs : ~(mem.req[r].status = "aborted" /\ mem.req[r].to_finish)

\* The bound that init_req_max_new_tokens means to keep for every request: "Otherwise
\* a request can be accepted into the waiting queue but can never be scheduled".  The
\* cut of max_new_tokens stops at 0, so the bound fails for a prompt that leaves less
\* than a page, which validate_input_length accepts when a page exceeds InputMargin.
Schedulable(r) ==
  PageSize * CeilPages(PromptLen[r]) + MaxNew(r) + PageSize < MaxTotalNumTokens

\* Every accepted request is answered, retracted or not, with two exceptions: it stays
\* for ever in the queue with a request that is not Schedulable (or is that request),
\* which happens in the configuration BlockedConfig; and where preemption is enabled
\* it can be lost (NoPreemptedRequestLost).  Requests are finitely many, so this says
\* that from some time on no other is unanswered.
EventuallyAnswered ==
  <>[]\A r \in Reqs : mem.req[r].status = "active" =>
        \/ EnablePreemption
        \/ r \in Range(waiting_queue) /\ \E q \in Range(waiting_queue) : ~Schedulable(q)
=============================================================================
