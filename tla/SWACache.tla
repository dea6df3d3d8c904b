------------------------------ MODULE SWACache ------------------------------
(***************************************************************************)
(* The KV cache of models with sliding-window attention (SWA) layers when  *)
(* no prefix cache is used: SWATokenToKVPoolAllocator, which pairs every   *)
(* token index of the full-attention pool with one of the smaller SWA      *)
(* pool, PureSWATokenToKVPoolAllocator for models with SWA layers only,    *)
(* SWAChunkCache and PureSWAChunkCache, the eviction of indices that left  *)
(* the window (ScheduleBatch.maybe_evict_swa), and the tail-only           *)
(* allocation of a decode node that receives its prompts from a prefill    *)
(* node.                                                                   *)
(*                                                                         *)
(* The scheduler is reduced to what decides when these run: it prepares a  *)
(* batch, which evicts and allocates, launches it, and processes its       *)
(* result, which frees.  With overlap it prepares the next batch while the *)
(* last one still runs.  A batch reads the SWA indices of its window when  *)
(* it runs, so none of them may be unmapped or freed before its result is  *)
(* processed.                                                              *)
(***************************************************************************)
EXTENDS FreeList, FiniteSets, FiniteSetsExt, SequencesExt

CONSTANTS
    Reqs,       \* requests, 1..n
    Scenarios   \* [kind, overlap, page_size, window, chunk, prompt, max_new, aware,
                \* full, swa]: kind is "hybrid", "pure" or "disagg" (decode node);
                \* aware is model_runner.prefill_aware_swa; full and swa are the
                \* pages of the two pools

VARIABLES
    scenario,  \* the configuration and the requests of this behaviour
    mem,       \* [full, swa : allocators, map : full_to_swa_index_mapping, error]
    req,       \* the requests
    flight     \* batches launched whose result is not processed, oldest first

vars == <<scenario, mem, req, flight>>

page_size == scenario.page_size
window == scenario.window
IsPure == scenario.kind = "pure"

(* The members of a set of numbers in increasing order. *)
Increasing(S) ==
    [k \in 1..Cardinality(S) |-> CHOOSE x \in S : Cardinality({y \in S : y < x}) = k - 1]

PagesOf(index) == [i \in DOMAIN index |-> index[i] \div page_size]

Init ==
    /\ scenario \in Scenarios
    /\ mem = [full |-> NewAllocator(scenario.full, page_size, scenario.kind = "disagg"),
              swa |-> NewAllocator(scenario.swa, page_size, scenario.kind = "disagg"),
              map |-> [i \in 0..((scenario.full + 1) * page_size - 1) |-> 0],
              error |-> FALSE]
    /\ req = [r \in Reqs |-> [state |-> "waiting", row |-> <<>>, out |-> 0,
                              swa_evicted_seqlen |-> 0, swa_evict_floor |-> 0,
                              extend_batch_idx |-> 0, decode_batch_idx |-> 0]]
    /\ flight = <<>>

-----------------------------------------------------------------------------
(* The allocator. *)

Translate(m, loc) == IF IsPure \/ loc = -1 THEN loc ELSE m.map[loc]

SetMapping(map, full_indices, swa_indices) ==
    [i \in DOMAIN map |-> IF i \in Range(full_indices)
                          THEN swa_indices[CHOOSE k \in DOMAIN full_indices : full_indices[k] = i]
                          ELSE map[i]]

(* free_swa: the SWA indices of whole pages go back and lose their mapping;  *)
(* without a mapping the indices themselves go back.                         *)
FreeSwa(m, index) ==
    LET pages == Range(PagesOf(index))
        mapping_indices == IF page_size = 1 THEN index
                           ELSE Increasing({i \in DOMAIN m.map : i \div page_size \in pages})
        mapped == [k \in DOMAIN mapping_indices |-> m.map[mapping_indices[k]]]
        swa_indices == SelectSeq(mapped, LAMBDA i : i > 0)
    IN  IF index = <<>> THEN m
        ELSE IF IsPure THEN [m EXCEPT !.swa = Free(@, PagesOf(index))]
        ELSE [m EXCEPT !.swa = Free(@, PagesOf(swa_indices)),
                       !.map = [i \in DOMAIN @ |-> IF i \in Range(mapping_indices) THEN 0
                                                   ELSE @[i]]]

FreeIndices(m, index) ==
    IF IsPure THEN FreeSwa(m, index)
    ELSE FreeSwa([m EXCEPT !.full = Free(@, PagesOf(index))], index)

Available(m) ==
    IF IsPure THEN AvailablePages(m.swa)
    ELSE Min({AvailablePages(m.full), AvailablePages(m.swa)})

(* alloc and alloc_extend for one request: refused unless both pools have    *)
(* the pages, so that neither is changed alone.                              *)
Estimate(tokens) == IF page_size = 1 THEN tokens ELSE tokens \div page_size + 2

AllocExtend(m, pre, seq, last_loc) ==
    LET n == CeilPages(page_size, seq) - CeilPages(page_size, pre)
        full == Ready(m.full, Estimate(seq - pre))
        swa == Ready(m.swa, Estimate(seq - pre))
        full_indices == ExtendKernel(full.free_pages, page_size, pre, seq, last_loc, 0)
        swa_indices == ExtendKernel(swa.free_pages, page_size, pre, seq,
                                    Translate(m, last_loc), 0)
    IN  IF n > Available(m) THEN [m |-> [m EXCEPT !.error = TRUE], out |-> <<>>]
        ELSE IF IsPure THEN [m |-> [m EXCEPT !.swa = Take(swa, n)], out |-> swa_indices]
        ELSE [m |-> [m EXCEPT !.full = Take(full, n), !.swa = Take(swa, n),
                              !.map = SetMapping(@, full_indices, swa_indices)],
              out |-> full_indices]

(* _swa_tail_len and alloc_extend_swa_tail: a received prompt has SWA        *)
(* indices only for the pages of its last window.                            *)
TailLen(seq) == seq - FloorAlign(page_size, Max({0, seq - window}))

AllocExtendSwaTail(m, seq) ==
    LET tail == TailLen(seq)
        n == CeilPages(page_size, seq)
        s == CeilPages(page_size, tail)
        full == Ready(m.full, Estimate(seq))
        swa == Ready(m.swa, Estimate(tail))
        full_indices == ExtendKernel(full.free_pages, page_size, 0, seq, -1, 0)
        swa_indices == ExtendKernel(swa.free_pages, page_size, 0, tail, -1, 0)
        head == SubSeq(full_indices, 1, seq - tail)
        rest == SubSeq(full_indices, seq - tail + 1, seq)
    IN  IF n > AvailablePages(m.full) \/ s > AvailablePages(m.swa)
        THEN [m |-> [m EXCEPT !.error = TRUE], out |-> <<>>]
        ELSE [m |-> [m EXCEPT !.full = Take(full, n), !.swa = Take(swa, s),
                              !.map = SetMapping(SetMapping(@, rest, swa_indices), head,
                                                 [k \in DOMAIN head |-> 0])],
              out |-> full_indices]

(* alloc_decode (alloc when pages hold one token) for the requests of b; the *)
(* caller raises when one of the pools refuses.                              *)
AllocDecode(m, b) ==
    LET Pre(r) == Len(req[r].row)
        NewPage(r) == Pre(r) % page_size = 0
        n == Cardinality({r \in Range(b) : NewPage(r)})
        StartLoc(r) == Cardinality({q \in Range(b) : NewPage(q) /\ q < r})
        full == Ready(m.full, Len(b))
        swa == Ready(m.swa, Len(b))
        full_indices == [k \in DOMAIN b |->
            DecodeKernel(full.free_pages, page_size, Pre(b[k]), Last(req[b[k]].row),
                         StartLoc(b[k]))]
        swa_indices == [k \in DOMAIN b |->
            DecodeKernel(swa.free_pages, page_size, Pre(b[k]),
                         Translate(m, Last(req[b[k]].row)), StartLoc(b[k]))]
    IN  IF ~Grants(swa, n) \/ (~IsPure /\ ~Grants(full, n))
        THEN [m |-> [m EXCEPT !.error = TRUE], out |-> <<>>]
        ELSE IF IsPure THEN [m |-> [m EXCEPT !.swa = Take(swa, n)], out |-> swa_indices]
        ELSE [m |-> [m EXCEPT !.full = Take(full, n), !.swa = Take(swa, n),
                              !.map = SetMapping(@, full_indices, swa_indices)],
              out |-> full_indices]

-----------------------------------------------------------------------------
(* free_swa_out_of_window_slots with a chunk cache, for a request q whose    *)
(* tokens before pre_len - window are not read any more.                     *)
EvictFloor(q) == CeilPages(page_size, q.swa_evict_floor) * page_size

EvictSwa(m, q, pre_len) ==
    LET from == Max({q.swa_evicted_seqlen, EvictFloor(q)})
        to == FloorAlign(page_size, Max({from, pre_len - window}))
    IN  IF to > from
        THEN [m |-> FreeSwa(m, SubSeq(q.row, from + 1, to)),
              q |-> [q EXCEPT !.swa_evicted_seqlen = to]]
        ELSE [m |-> m, q |-> [q EXCEPT !.swa_evicted_seqlen = from]]

(* maybe_evict_swa for an extend batch and for a decode batch; seqlen counts *)
(* the tokens whose results are processed.                                   *)
EvictForExtendNoMargin(m, q) ==  \* mutant: the running chunk is forgotten
    EvictSwa(m, q, Len(q.row))

EvictForExtend(m, q) ==
    LET pre_len == Len(q.row)
    IN  IF ~scenario.overlap THEN EvictSwa(m, q, pre_len)
        ELSE IF q.extend_batch_idx < 2 THEN [m |-> m, q |-> q]
        ELSE EvictSwa(m, q, pre_len - scenario.chunk)

Seqlen(r) == scenario.prompt[r] + req[r].out

EvictForDecode(m, r) ==
    IF req[r].decode_batch_idx >= 1 THEN EvictSwa(m, req[r], Seqlen(r) - 1)
    ELSE [m |-> m, q |-> req[r]]

(* The loop of maybe_evict_swa over the requests of a decode batch. *)
EvictAll(m, b) ==
    FoldLeft(LAMBDA acc, r : LET e == EvictForDecode(acc.m, r)
                             IN  [m |-> e.m, q |-> [acc.q EXCEPT ![r] = e.q]],
             [m |-> m, q |-> req], b)

(* cache_finished_req: the indices a request that ends gives back. Without a *)
(* mapping, what was evicted must be left out.                               *)
CommittedIndicesAll(q) == q.row  \* mutant: evicted indices are freed again

CommittedIndices(q) ==
    IF IsPure /\ q.swa_evicted_seqlen > q.swa_evict_floor
    THEN SubSeq(q.row, 1, q.swa_evict_floor)
             \o SubSeq(q.row, q.swa_evicted_seqlen + 1, Len(q.row))
    ELSE q.row

(* reset_for_retract; swa_evict_floor is left alone. *)
Reset(q) ==
    [q EXCEPT !.state = "waiting", !.row = <<>>, !.swa_evicted_seqlen = 0,
              !.extend_batch_idx = 0, !.decode_batch_idx = 0]

-----------------------------------------------------------------------------
(* With overlap one batch may still run while the next one is prepared. *)
MayPrepare == ~mem.error /\ Len(flight) < (IF scenario.overlap THEN 2 ELSE 1)

Launch(batch) == flight' = Append(flight, batch)

(* An extend batch with the next n tokens of request r. Its length is what   *)
(* the chunk budget leaves to r; a chunk that is not the last is made of     *)
(* whole pages, and no other request starts while one is between chunks.     *)
(* The admission policy is not modelled: only extends that fit are prepared. *)
Extend(r, n) ==
    LET pre == Len(req[r].row)
        fill == Seqlen(r)
        e == EvictForExtend(mem, req[r])
        a == AllocExtend(e.m, pre, pre + n, IF pre = 0 THEN -1 ELSE Last(req[r].row))
    IN  /\ MayPrepare /\ scenario.kind # "disagg"
        /\ req[r].state \in {"waiting", "chunked"}
        /\ \A q \in Reqs \ {r} : req[q].state # "chunked"
        /\ n <= scenario.chunk
        /\ pre + n = fill \/ (pre + n < fill /\ n % page_size = 0)
        /\ CeilPages(page_size, pre + n) - CeilPages(page_size, pre) <= Available(mem)
        /\ mem' = a.m
        /\ req' = [req EXCEPT ![r] =
               [e.q EXCEPT !.state = IF pre + n = fill THEN "running" ELSE "chunked",
                           !.row = @ \o a.out,
                           !.swa_evict_floor = IF scenario.aware THEN pre + n ELSE @,
                           !.extend_batch_idx = @ + 1]]
        /\ Launch([final |-> pre + n = fill, reads |-> {[r |-> r, from |-> pre, to |-> pre + n]}])
        /\ UNCHANGED scenario

(* _pre_alloc on a decode node, for a new or a retracted request: the KV of  *)
(* all its tokens but the last is received, and the request decodes next.    *)
PreAlloc(r) ==
    LET fill == scenario.prompt[r] + Max({req[r].out - 1, 0})
        a == IF page_size > 1 THEN AllocExtendSwaTail(mem, fill)
             ELSE AllocExtend(mem, 0, fill, -1)
    IN  /\ MayPrepare /\ scenario.kind = "disagg" /\ req[r].state = "waiting"
        /\ ~a.m.error
        /\ mem' = a.m
        /\ req' = [req EXCEPT ![r] =
               [@ EXCEPT !.state = "running", !.row = a.out, !.out = Max({@, 1}),
                         !.swa_evicted_seqlen = IF page_size > 1 THEN fill - TailLen(fill) ELSE @]]
        /\ UNCHANGED <<scenario, flight>>

(* update_running_batch: requests are retracted from the end of the order    *)
(* until the others can decode once more; the last one is aborted when even  *)
(* it cannot.  Then the batch evicts, in one of every                        *)
(* SGLANG_SWA_EVICTION_INTERVAL iterations (maintenance), and allocates. A   *)
(* batch left empty is not run: it stands for the loop's processing of the   *)
(* last result.                                                              *)
CheckDecodeMem(m, S) ==
    Cardinality({r \in S : Len(req[r].row) % page_size = 0}) <= Available(m)

RetractOrder(S) ==
    SetToSortSeq(S, LAMBDA r, q :
        \/ req[r].out > req[q].out
        \/ req[r].out = req[q].out /\ scenario.prompt[r] < scenario.prompt[q]
        \/ req[r].out = req[q].out /\ scenario.prompt[r] = scenario.prompt[q] /\ r < q)

Released(m, S) ==
    FoldLeft(LAMBDA acc, r : FreeIndices(acc, CommittedIndices(req[r])), m,
             Reverse(RetractOrder(S)))

Kept(S) ==
    LET order == RetractOrder(S)
        First(k) == {order[i] : i \in 1..k}
        Fits(k) == CheckDecodeMem(Released(mem, S \ First(k)), First(k))
        k == Max({0} \cup {i \in 1..Len(order) : Fits(i)})
    IN  First(k)

Decode(maintenance) ==
    LET running == {r \in Reqs : req[r].state = "running"}
        kept == Kept(running)
        b == Increasing(kept)
        released == Released(mem, running \ kept)
        e == IF maintenance THEN EvictAll(released, b) ELSE [m |-> released, q |-> req]
        a == AllocDecode(e.m, b)
        Index(r) == a.out[CHOOSE k \in DOMAIN b : b[k] = r]
    IN  /\ MayPrepare /\ running # {}
        /\ mem' = IF kept = {} THEN e.m ELSE a.m
        /\ req' = [r \in Reqs |->
               IF r \in kept /\ ~a.m.error
               THEN [e.q[r] EXCEPT !.row = Append(@, Index(r)), !.decode_batch_idx = @ + 1]
               ELSE IF r \in running \ kept
               THEN (IF kept = {} /\ r = RetractOrder(running)[1]
                     THEN [Reset(req[r]) EXCEPT !.state = "done"] ELSE Reset(req[r]))
               ELSE req[r]]
        /\ Launch([final |-> TRUE,
                   reads |-> {[r |-> r, from |-> Len(req[r].row), to |-> Len(req[r].row) + 1] :
                                 r \in kept}])
        /\ UNCHANGED scenario

(* The result of the oldest batch: requests that were retracted or finished  *)
(* meanwhile are skipped, the others get a token unless this was a middle    *)
(* chunk; those that finish are released, all at the end of the free group.  *)
ProcessResult(finished) ==
    LET batch == Head(flight)
        got == {r \in {x.r : x \in batch.reads} : req[r].state = "running" /\ batch.final}
        Indices == FoldLeft(LAMBDA acc, r : acc \o CommittedIndices(req[r]), <<>>,
                            Increasing(finished))
    IN  /\ flight # <<>>
        /\ finished \subseteq got
        /\ \A r \in got : req[r].out + 1 >= scenario.max_new => r \in finished
        /\ mem' = FreeIndices(mem, Indices)
        /\ req' = [r \in Reqs |->
               IF r \in finished
               THEN [req[r] EXCEPT !.state = "done", !.row = <<>>, !.out = @ + 1]
               ELSE IF r \in got THEN [req[r] EXCEPT !.out = @ + 1] ELSE req[r]]
        /\ flight' = Tail(flight)
        /\ UNCHANGED scenario

Next ==
    \/ \E r \in Reqs : \E n \in 1..scenario.chunk : Extend(r, n)
    \/ \E r \in Reqs : PreAlloc(r)
    \/ \E maintenance \in BOOLEAN : Decode(maintenance)
    \/ \E finished \in SUBSET Reqs : ProcessResult(finished)

Spec == Init /\ [][Next]_vars

-----------------------------------------------------------------------------
SwaIndex(i) == Translate(mem, i)

(* Every batch that still runs can read its window: the tokens from          *)
(* sliding_window_size before its first query on are mapped to SWA indices   *)
(* that are allocated, at the same offset of their page, and to which no     *)
(* other token is mapped.  Eviction for the next batch and frees for earlier *)
(* results leave them alone.                                                 *)
WindowReadable ==
    \A k \in DOMAIN flight : \A x \in flight[k].reads :
        req[x.r].state \in {"running", "chunked"} =>
            \A i \in (Max({0, x.from - window}) + 1)..x.to :
                LET s == SwaIndex(req[x.r].row[i])
                IN  /\ s > 0 /\ s \div page_size \notin Range(mem.swa.free_pages)
                                                      \cup Range(mem.swa.release_pages)
                    /\ s % page_size = (i - 1) % page_size
                    /\ \A r \in Reqs : \A j \in DOMAIN req[r].row :
                          j > req[r].swa_evicted_seqlen /\ SwaIndex(req[r].row[j]) = s
                              => r = x.r /\ j = i

(* Both pools account for every page: a page is free, once, or belongs to    *)
(* exactly one row, and an SWA page to exactly one full page; nothing is     *)
(* freed twice, by eviction and again at the end, or never; and no batch     *)
(* that check_decode_mem let through fails to allocate.                      *)
FreeOf(a) == a.free_pages \o a.release_pages

PagesHeld(r) == Range(PagesOf(IF IsPure THEN CommittedIndices(req[r]) ELSE req[r].row))
SwaPagesHeld(r) ==
    IF IsPure THEN PagesHeld(r)
    ELSE {SwaIndex(i) \div page_size : i \in {j \in Range(req[r].row) : SwaIndex(j) > 0}}

Partition(a, HeldBy(_)) ==
    /\ IsInjective(FreeOf(a))
    /\ Range(FreeOf(a)) \cup UNION {HeldBy(r) : r \in Reqs} = 1..a.num_pages
    /\ \A r \in Reqs : HeldBy(r) \cap Range(FreeOf(a)) = {}
    /\ \A r, q \in Reqs : r # q => HeldBy(r) \cap HeldBy(q) = {}

PoolsExact ==
    /\ ~mem.error
    /\ IsPure \/ Partition(mem.full, LAMBDA r : PagesHeld(r))
    /\ Partition(mem.swa, LAMBDA r : SwaPagesHeld(r))
    /\ IsPure \/ \A i \in DOMAIN mem.map : mem.map[i] > 0 =>
            \E r \in Reqs : i \div page_size \in PagesHeld(r)
=============================================================================
