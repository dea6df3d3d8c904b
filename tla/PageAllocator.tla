--------------------------- MODULE PageAllocator ----------------------------
(***************************************************************************)
(* TokenToKVPoolAllocator and PagedTokenToKVPoolAllocator with the token   *)
(* indices they give out: alloc, alloc_extend, alloc_decode with their     *)
(* Triton kernels, free, the free groups of the batch result processor and *)
(* clear.  A token index is page * page_size + offset, and a request's row *)
(* of req_to_token is the sequence of the indices of its tokens.           *)
(***************************************************************************)
EXTENDS PageList, SequencesExt

CONSTANTS
    Reqs,    \* requests, as numbers
    MaxLen   \* bound: no row grows longer than this

VARIABLE row  \* req_to_token, one row per request

vars == <<alloc, used, last, row>>

page_size == alloc.page_size

SumOver(S, f(_)) == FoldFunctionOnSet(LAMBDA x, y : x + y, 0, [x \in S |-> f(x)], S)

Pre(r) == Len(row[r])
LastLoc(r) == IF row[r] = <<>> THEN -1 ELSE Last(row[r])

-----------------------------------------------------------------------------
(* The kernels run one program per request of the batch b; a program finds   *)
(* its place in the free list from the lengths of those before it.           *)
Before(b, r) == {q \in Range(b) : q < r}
NewPages(seq, r) == CeilPages(page_size, seq[r]) - CeilPages(page_size, Pre(r))
StartLoc_IgnoreEarlier(b, seq, r) == 0
StartLoc(b, seq, r) == SumOver(Before(b, r), LAMBDA q : NewPages(seq, q))

(* get_num_new_pages, for an extend and for a decode batch *)
NumNewPages(b, seq) == SumOver(Range(b), LAMBDA r : NewPages(seq, r))
NumNewPagesDecode(b) ==
    SumOver(Range(b), LAMBDA r : IF (Pre(r) + 1) % page_size = 1 THEN 1 ELSE 0)

Appended(b, out) == [r \in Reqs |-> IF r \in Range(b) THEN row[r] \o out[r] ELSE row[r]]

(* What the caller does with the answer: the indices are written to the rows *)
(* unless it is None.                                                        *)
Write(a, n, b, out) == row' = IF Grants(a, n) THEN Appended(b, out) ELSE row

-----------------------------------------------------------------------------
Init == ListInit /\ row = [r \in Reqs |-> <<>>]

(* Between the begin and the end of a free group there are only frees. *)
Open == alloc.is_not_in_free_group

(* alloc of the token allocator: consecutive stretches of the answer go to   *)
(* the requests of the batch.                                                *)
Alloc(b, seq) ==
    LET need_size == SumOver(Range(b), LAMBDA r : seq[r] - Pre(r))
        a == Ready(alloc, need_size)
    IN  /\ Open /\ page_size = 1
        /\ Obtain(need_size, need_size)
        /\ Write(a, need_size, b,
                 [r \in Range(b) |-> ExtendKernel(a.free_pages, 1, Pre(r), seq[r], LastLoc(r),
                                                  StartLoc(b, seq, r))])

(* alloc_extend of the paged allocator; the estimate that decides on merging *)
(* is not the number of pages that leave the list.                           *)
AllocExtend(b, seq) ==
    LET extend_num_tokens == SumOver(Range(b), LAMBDA r : seq[r] - Pre(r))
        estimate == extend_num_tokens \div page_size + Len(b) + 1
        a == Ready(alloc, estimate)
        n == NumNewPages(b, seq)
    IN  /\ Open /\ page_size > 1
        /\ Obtain(n, estimate)
        /\ Write(a, n, b,
                 [r \in Range(b) |-> ExtendKernel(a.free_pages, page_size, Pre(r), seq[r],
                                                  LastLoc(r), StartLoc(b, seq, r))])

AllocDecode(b) ==
    LET seq == [r \in Range(b) |-> Pre(r) + 1]
        a == Ready(alloc, Len(b))
        n == NumNewPagesDecode(b)
    IN  /\ Open /\ page_size > 1
        /\ Obtain(n, Len(b))
        /\ Write(a, n, b,
                 [r \in Range(b) |-> <<DecodeKernel(a.free_pages, page_size, Pre(r), LastLoc(r),
                                                    StartLoc(b, seq, r))>>])

(* free of the row from token k on, in a group or not: a finished or         *)
(* retracted request gives all of it back, a page-aligned tail is what       *)
(* over-allocation and the prefix caches give back.                          *)
FreeTail(r, k) ==
    /\ k % page_size = 0 /\ k < Pre(r)
    /\ Release([i \in 1..(Pre(r) - k) |-> row[r][k + i] \div page_size])
    /\ row' = [row EXCEPT ![r] = SubSeq(@, 1, k)]

Begin == GroupBegin /\ UNCHANGED row
End == GroupEnd /\ UNCHANGED row

(* clear, when the cache is flushed *)
ClearPool == Open /\ ClearAll /\ row' = [r \in Reqs |-> <<>>]

Batches == {SetToSortSeq(S, <) : S \in SUBSET Reqs \ {{}}}

Extend ==
    \E b \in Batches : \E seq \in [Range(b) -> 1..MaxLen] :
        /\ \A r \in Range(b) : seq[r] > Pre(r)
        /\ Alloc(b, seq) \/ AllocExtend(b, seq)

Decode == \E b \in Batches :
    /\ \A r \in Range(b) : Pre(r) \in 1..(MaxLen - 1)
    /\ AllocDecode(b)

Next ==
    \/ Extend
    \/ Decode
    \/ \E r \in Reqs, k \in 0..MaxLen : FreeTail(r, k)
    \/ Begin
    \/ End
    \/ ClearPool

Spec == Init /\ [][Next]_vars

-----------------------------------------------------------------------------
(* The kernels, the estimates and the free list agree: token i of a row sits *)
(* at offset i of its page, all tokens of a page of the row share one page   *)
(* of the pool, no page serves two places of the same or of different rows,  *)
(* and the pages in use are exactly those of the rows.                       *)
RowPage(r, j) == row[r][(j - 1) * page_size + 1] \div page_size
RowsPaged ==
    /\ \A r \in Reqs : \A i \in 1..Pre(r) :
          row[r][i] = RowPage(r, (i - 1) \div page_size + 1) * page_size + ((i - 1) % page_size)
    /\ \A r, q \in Reqs : \A i \in 1..CeilPages(page_size, Pre(r)), j \in 1..CeilPages(page_size, Pre(q)) :
          RowPage(r, i) = RowPage(q, j) => r = q /\ i = j
    /\ used = UNION {{RowPage(r, i) : i \in 1..CeilPages(page_size, Pre(r))} : r \in Reqs}
=============================================================================
