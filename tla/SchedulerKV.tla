----------------------------- MODULE SchedulerKV -----------------------------
(***************************************************************************)
(* KV memory of one scheduler: what Req, ReqToTokenPool, the page          *)
(* allocator and RadixCache do to each other when a request is matched,    *)
(* admitted, extended, cached, released and retracted                      *)
(* (managers/schedule_batch.py, mem_cache/common.py,                       *)
(* mem_cache/radix_cache.py).  The event loop that calls these operators   *)
(* is in module Scheduler.                                                 *)
(*                                                                         *)
(* The operators map a memory record m to the one the call leaves behind:  *)
(*   tree     the radix tree (module RadixTree)                            *)
(*   free     how often each page is in the allocator's free list; a page  *)
(*            that is freed twice counts 2                                 *)
(*   req      the memory fields of every request, see NewReq               *)
(*   content  the tokens whose KV a page holds, with everything before     *)
(*            them: KV depends on the whole prefix.  Not a variable of the *)
(*            code: it is what the forward pass writes.                    *)
(*   error    the exception or assertion that ended the scheduler process, *)
(*            or None                                                      *)
(* Tokens[r] is the prompt of r followed by what the model answers to it:  *)
(* sampling is taken to be deterministic, so a retracted request continues *)
(* the same text.                                                          *)
(***************************************************************************)
EXTENDS RadixTree

CONSTANTS
  Reqs,          \* requests
  Tokens,        \* [Reqs -> sequence of tokens]
  Configs,       \* possible configurations and workloads: [prompt, max_new :
                 \* [Reqs -> Nat], pages, overlap, preemption, chunk, abort]
  RetractSteps,  \* SGLANG_RETRACT_DECODE_STEPS
  None

ASSUME PoolAssumption ==
  /\ RetractSteps \in Nat
  /\ \A c \in Configs :
       /\ c.pages \in Nat \ {0}
       /\ \A r \in Reqs : c.prompt[r] \in 1 .. Len(Tokens[r])

VARIABLE config  \* the configuration of this behaviour

PromptLen == config.prompt  \* len(origin_input_ids)
NumPages == config.pages    \* pages of the KV pool
Pages == 1 .. NumPages

\* Pages that n tokens occupy (ceil_paged_tokens divided by the page size).
CeilPages(n) == (n + PageSize - 1) \div PageSize

\* The fields of Req that the memory code reads and writes; prot
\* (cache_protected_len) is counted in pages, ext is extend_range.end, plen
\* is len(prefix_indices), flen is len(full_untruncated_fill_ids), and row
\* is the request's row of req_to_token by page: prefix_indices until the
\* request has a pool slot (held, req_pool_idx), the row of that slot after.
\* kv is kv_committed_len and kv_allocated_len, which only speculative
\* decoding makes different.
NewReq ==
  [status |-> "new", to_finish |-> FALSE, is_retracted |-> FALSE, inflight |-> 0,
   out |-> 0, held |-> FALSE, freed |-> FALSE, row |-> <<>>, kv |-> 0,
   prot |-> 0, plen |-> 0, flen |-> 0, ext |-> 0, node |-> Root]

Finished(m, r) == m.req[r].status = "finished"

Fail(m, what) == [m EXCEPT !.error = what]

-----------------------------------------------------------------------------
(* The allocator (external to these operators only in its free-list order, *)
(* which nothing here depends on: the smallest free page is taken first).  *)

FreeSet(m) == {p \in Pages : m.free[p] > 0}

\* available_size()
AvailableSize(m) == PageSize * FoldFunction(+, 0, m.free)

\* allocator.free of one slice of pages
FreePages(m, pages) ==
  [m EXCEPT !.free    = [p \in Pages |-> @[p] + IF p \in Range(pages) THEN 1 ELSE 0],
            !.content = [p \in Pages |-> IF p \in Range(pages) THEN <<>> ELSE @[p]]]

\* alloc_extend / alloc_decode: the request at position i of rs gets
\* need[i] pages appended to its row; the caller has checked that they fit.
TakePages(m, rs, need) ==
  LET list   == [k \in 1 .. Cardinality(FreeSet(m)) |->
                   CHOOSE p \in FreeSet(m) : Cardinality({q \in FreeSet(m) : q < p}) = k - 1]
      off[i \in 0 .. Len(rs)] == IF i = 0 THEN 0 ELSE off[i - 1] + need[i]
      taken  == {list[k] : k \in 1 .. off[Len(rs)]}
      Got(i) == SubSeq(list, off[i - 1] + 1, off[i])
  IN  [m EXCEPT
        !.free = [p \in Pages |-> @[p] - IF p \in taken THEN 1 ELSE 0],
        !.req  = [r \in Reqs |->
                    IF r \in Range(rs)
                      THEN [@[r] EXCEPT !.row = @ \o Got(CHOOSE i \in 1 .. Len(rs) : rs[i] = r)]
                      ELSE @[r]]]

-----------------------------------------------------------------------------
(* Eviction                                                                *)

\* RadixCache.evict: the memories it may leave behind.
Evict(m, num_tokens) ==
  {LET freed(p) == Cardinality({x \in D : p \in Range(m.tree.value[x])})
   IN  [m EXCEPT !.tree    = DeleteLeaves(m.tree, D),
                 !.free    = [p \in Pages |-> @[p] + freed(p)],
                 !.content = [p \in Pages |-> IF freed(p) > 0 THEN <<>> ELSE @[p]]]
   : D \in Evictions(m.tree, num_tokens)}

\* Mutant: the call of evict is missing.
EvictFromTreeCache_Never(m, num_tokens) == {m}

EvictFromTreeCache(m, num_tokens) ==
  IF AvailableSize(m) < num_tokens THEN Evict(m, num_tokens) ELSE {m}

-----------------------------------------------------------------------------
(* A request enters the cache                                              *)

\* Req.init_next_round_input with a tree: at most all but the last token
\* may be matched.
SetPrefix(m, r, len, hit) ==
  [m EXCEPT !.tree = hit.tree,
            !.req[r].flen = len,
            !.req[r].row  = hit.pages,
            !.req[r].plen = PageSize * Len(hit.pages),
            !.req[r].prot = Len(hit.pages),
            !.req[r].node = hit.node]

InitNextRoundInput(m, r) ==
  LET len == PromptLen[r] + m.req[r].out
  IN  SetPrefix(m, r, len, MatchPrefix(m.tree, PageAligned(SubSeq(Tokens[r], 1, len - 1))))

\* Mutant: the row keeps the request's own pages.
UseCachedPages_KeepRow(m, r, key, hit) ==
  IF Len(hit.pages) # Len(key)
    THEN Fail(m, "cache_unfinished_req: match shorter than the inserted key")
    ELSE [m EXCEPT !.tree = IncLockRef(DecLockRef(hit.tree, m.req[r].node), hit.node),
                   !.req[r].prot = Len(key),
                   !.req[r].plen = m.req[r].ext,
                   !.req[r].node = hit.node]

UseCachedPages(m, r, key, hit) ==
  LET q   == m.req[r]
      row == SubSeq(q.row, 1, q.prot) \o SubSeq(hit.pages, q.prot + 1, Len(hit.pages))
               \o SubSeq(q.row, Len(key) + 1, Len(q.row))
  IN  IF Len(hit.pages) # Len(key)
        THEN Fail(m, "cache_unfinished_req: match shorter than the inserted key")
        ELSE [m EXCEPT !.tree = IncLockRef(DecLockRef(hit.tree, q.node), hit.node),
                       !.req[r].row  = row,
                       !.req[r].prot = Len(key),
                       !.req[r].plen = q.ext,
                       !.req[r].node = hit.node]

\* Mutant: the duplicates are not freed.
UnfinishedInserted_KeepDuplicates(m, r, key, ins) ==
  UseCachedPages(m, r, key, MatchPrefix(ins.tree, key))

UnfinishedInserted(m, r, key, ins) ==
  UseCachedPages(FreePages(m, SubSeq(m.req[r].row, m.req[r].prot + 1, ins.prefix)),
                 r, key, MatchPrefix(ins.tree, key))

\* RadixCache.cache_unfinished_req: insert what is computed, free the
\* duplicates of what was cached before, match again, point the row to the
\* cached pages and move the lock.
CacheUnfinishedReq(m, r) ==
  LET key == PageAligned(SubSeq(Tokens[r], 1, m.req[r].ext))
  IN  UnfinishedInserted(m, r, key, InsertKey(m.tree, key, m.req[r].row))

-----------------------------------------------------------------------------
(* A request leaves the cache                                              *)

\* Mutant: the lock of a released request stays.
ReleaseRow_KeepLock(m, r, key, n, cached) ==
  LET q    == m.req[r]
      dups == FreePages(m, SubSeq(q.row, q.prot + 1, cached.prefix))
      tail == FreePages(dups, SubSeq(q.row, Len(key) + 1, CeilPages(n)))
  IN  [tail EXCEPT !.tree = cached.tree,
                   !.req[r].held  = FALSE,
                   !.req[r].freed = TRUE,
                   !.req[r].row   = <<>>,
                   !.req[r].kv    = 0,
                   !.req[r].prot  = 0,
                   !.req[r].ext   = 0,
                   !.req[r].node  = Root]

\* cache_finished_req after the insertion: cached is the tree and how many
\* of the key's pages are the tree's own or, without insertion, to be freed.
ReleaseRow(m, r, key, n, cached) ==
  LET q    == m.req[r]
      dups == FreePages(m, SubSeq(q.row, q.prot + 1, cached.prefix))
      tail == FreePages(dups, SubSeq(q.row, Len(key) + 1, CeilPages(n)))
  IN  [tail EXCEPT !.tree = DecLockRef(cached.tree, q.node),
                   !.req[r].held  = FALSE,
                   !.req[r].freed = TRUE,
                   !.req[r].row   = <<>>,
                   !.req[r].kv    = 0,
                   !.req[r].prot  = 0,
                   !.req[r].ext   = 0,
                   !.req[r].node  = Root]

\* release_kv_cache with RadixCache.cache_finished_req, pop_committed_kv_cache
\* and ReqToTokenPool.free.  What nothing reads of a released request is reset.
ReleaseKvCache(m, r, is_insert) ==
  LET q   == m.req[r]
      n   == Min({q.kv, PromptLen[r] + q.out})
      key == PageAligned(SubSeq(Tokens[r], 1, n))
  IN  CASE ~q.held -> Fail(m, "release_kv_cache: freeing before alloc")
        [] q.freed -> Fail(m, "pop_committed_kv_cache: already freed")
        [] OTHER   -> ReleaseRow(m, r, key, n,
                        IF is_insert THEN InsertKey(m.tree, key, q.row)
                                     ELSE [tree |-> m.tree, prefix |-> Len(key)])

\* Req.reset_for_retract
ResetForRetract(m, r) ==
  [m EXCEPT !.req[r].row = <<>>, !.req[r].plen = 0, !.req[r].node = Root,
            !.req[r].prot = 0, !.req[r].ext = 0, !.req[r].is_retracted = TRUE,
            !.req[r].inflight = 0, !.req[r].kv = 0, !.req[r].freed = FALSE]

\* release_req: nothing is inserted, and what the release made evictable is
\* evicted at once when the remaining requests are short of memory.
ReleaseReq(m, r, remaining) ==
  {ResetForRetract(e, r) :
     e \in EvictFromTreeCache(ReleaseKvCache(m, r, FALSE), remaining * RetractSteps)}

-----------------------------------------------------------------------------
(* Allocation for a batch                                                  *)

SumOver(Op(_), rs) == FoldSeq(LAMBDA r, s : Op(r) + s, 0, rs)

\* The forward pass writes the KV of tokens first .. last of r's row.
Written(m, r, first, last) ==
  [p \in Pages |->
     IF \E i \in CeilPages(first) .. CeilPages(last) : m.req[r].row[i] = p
       THEN LET i == CHOOSE j \in CeilPages(first) .. CeilPages(last) : m.req[r].row[j] = p
            IN  SubSeq(Tokens[r], 1, Min({i * PageSize, last}))
       ELSE m.content[p]]

WriteAll(m, rs, From(_), To(_)) ==
  FoldSeq(LAMBDA r, c : [c EXCEPT !.content = Written(c, r, From(r), To(r))], m, rs)

\* alloc_for_extend (alloc_req_slots, then the token or the paged allocator)
\* and the bookkeeping of prepare_for_extend; size is the size of
\* ReqToTokenPool.
AllocForExtend(m, rs, size) ==
  LET Extend(r)  == m.req[r].ext - m.req[r].plen
      NewPages(r) == CeilPages(m.req[r].ext) - CeilPages(m.req[r].plen)
      total      == SumOver(Extend, rs)
      wanted     == IF PageSize = 1 THEN total ELSE total + Len(rs) * PageSize
      slots      == Cardinality({r \in Reqs : m.req[r].held \/ r \in Range(rs)})
      Commit(e)  ==
        LET a == TakePages(e, rs, [i \in 1 .. Len(rs) |-> NewPages(rs[i])])
            w == WriteAll(a, rs, LAMBDA r : m.req[r].plen + 1, LAMBDA r : m.req[r].ext)
        IN  [w EXCEPT !.req = [r \in Reqs |->
               IF r \in Range(rs)
                 THEN [@[r] EXCEPT !.held = TRUE, !.kv = m.req[r].ext, !.is_retracted = FALSE]
                 ELSE @[r]]]
  IN  IF slots > size
        THEN {Fail(m, "alloc_req_slots runs out of memory")}
        ELSE {IF AvailableSize(e) < PageSize * SumOver(NewPages, rs)
                THEN Fail(e, "Prefill out of memory") ELSE Commit(e)
              : e \in EvictFromTreeCache(m, wanted)}

\* alloc_for_decode and the bookkeeping of prepare_for_decode.
AllocForDecode(m, rs) ==
  LET NewPage(r) == IF m.req[r].kv % PageSize = 0 THEN 1 ELSE 0
      Commit(e)  ==
        LET a == TakePages(e, rs, [i \in 1 .. Len(rs) |-> NewPage(rs[i])])
            w == WriteAll(a, rs, LAMBDA r : m.req[r].kv + 1, LAMBDA r : m.req[r].kv + 1)
        IN  [w EXCEPT !.req = [r \in Reqs |->
               IF r \in Range(rs) THEN [@[r] EXCEPT !.kv = @ + 1] ELSE @[r]]]
  IN  {IF AvailableSize(e) < PageSize * SumOver(NewPage, rs)
         THEN Fail(e, "Decode out of memory") ELSE Commit(e)
       : e \in EvictFromTreeCache(m, Len(rs) * PageSize)}

\* check_decode_mem: the memories after its eviction; the second operator is
\* its answer.
NewTokensRequiredNextDecode(m, rs) ==
  PageSize * Len(SelectSeq(rs, LAMBDA r : m.req[r].kv % PageSize = 0))

CheckDecodeMem(m, rs) == AvailableSize(m) >= NewTokensRequiredNextDecode(m, rs)
=============================================================================
