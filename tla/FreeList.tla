------------------------------ MODULE FreeList ------------------------------
(***************************************************************************)
(* The free list that the KV-cache allocators of                           *)
(* python/sglang/srt/mem_cache/allocator share: the fields of              *)
(* BaseTokenToKVPoolAllocator and what its methods, and those of its token *)
(* and paged subclasses, do to them.  An allocator is a record of these    *)
(* fields; a method is an operator from the allocator before the call to   *)
(* the allocator after it.  Pages are numbered from 1: page 0 takes the    *)
(* writes of padded tokens and is never handed out.                        *)
(*                                                                         *)
(* torch.sort and torch.unique are external: both return the increasing    *)
(* enumeration of a set of pages, here the constant function Sort.         *)
(***************************************************************************)
EXTENDS Integers, Sequences, Functions

CONSTANTS
    MaxPages,  \* the largest pool has this many pages
    Sort       \* Sort[S]: the pages of S in increasing order

Pages == 1..MaxPages

IsEnumeration(q, S) ==
    /\ q \in Seq(S)
    /\ Range(q) = S
    /\ \A i, j \in DOMAIN q : i < j => q[i] < q[j]

ASSUME PagesAssumption == MaxPages \in Nat
ASSUME SortAssumption == \A S \in SUBSET Pages : IsEnumeration(Sort[S], S)

-----------------------------------------------------------------------------
(* __init__ and clear: pages 1..num_pages are free, in order. *)
Clear(a) ==
    [a EXCEPT !.free_pages = [i \in 1..a.num_pages |-> i], !.release_pages = <<>>,
              !.free_group = <<>>, !.is_not_in_free_group = TRUE]

NewAllocator(num_pages, page_size, need_sort) ==
    Clear([num_pages |-> num_pages, page_size |-> page_size, need_sort |-> need_sort,
           free_pages |-> <<>>, release_pages |-> <<>>,
           free_group |-> <<>>, is_not_in_free_group |-> TRUE])

(* available_size, in pages *)
AvailablePages(a) == Len(a.free_pages) + Len(a.release_pages)

MergeAndSortFree(a) ==
    IF a.release_pages = <<>> THEN a
    ELSE [a EXCEPT !.free_pages = Sort[Range(a.free_pages) \cup Range(a.release_pages)],
                   !.release_pages = <<>>]

(* The test at the top of every alloc*: the released pages are merged only   *)
(* when the free list may be too short for an estimate of what is wanted.    *)
Ready_WhenEmpty(a, estimate) ==
    IF a.need_sort /\ a.free_pages = <<>> THEN MergeAndSortFree(a) ELSE a
Ready(a, estimate) ==
    IF a.need_sort /\ estimate > Len(a.free_pages) THEN MergeAndSortFree(a) ELSE a

(* The end of every alloc*: None, or the first n pages leave the list. *)
Grants(a, n) == n <= Len(a.free_pages)
FirstPages(a, n) == SubSeq(a.free_pages, 1, n)
Take(a, n) ==
    IF Grants(a, n) THEN [a EXCEPT !.free_pages = SubSeq(@, n + 1, Len(@))] ELSE a

(* free, of a sequence of pages (the code divides token indices by the page  *)
(* size): the paged allocator drops duplicates and puts the pages in front,  *)
(* the token allocator appends the indices as they are.                      *)
Add_Duplicates(a, list, index) ==
    IF a.page_size = 1 THEN list \o index ELSE index \o list
Add(a, list, index) ==
    IF a.page_size = 1 THEN list \o index ELSE Sort[Range(index)] \o list

Free(a, index) ==
    IF index = <<>> THEN a
    ELSE IF ~a.is_not_in_free_group THEN [a EXCEPT !.free_group = @ \o index]
    ELSE IF a.need_sort
    THEN [a EXCEPT !.release_pages = Add(a, a.release_pages, index)]
    ELSE [a EXCEPT !.free_pages = Add(a, a.free_pages, index)]

FreeGroupBegin(a) == [a EXCEPT !.is_not_in_free_group = FALSE, !.free_group = <<>>]

(* free_group_end frees what was deferred and leaves the old list in place;  *)
(* the next free_group_begin drops it.  Here it is dropped at once.          *)
FreeGroupEnd(a) ==
    [Free([a EXCEPT !.is_not_in_free_group = TRUE], a.free_group) EXCEPT !.free_group = <<>>]

-----------------------------------------------------------------------------
(* The token indices of granted pages.  A token index is                     *)
(* page * page_size + offset.                                                *)
CeilPages(page_size, n) == (n + page_size - 1) \div page_size
FloorAlign(page_size, n) == (n \div page_size) * page_size

(* alloc_extend_kernel, the program of one request that grows from pre to    *)
(* seq tokens, whose last index is last_loc and whose new pages start after  *)
(* `start` pages of the free list: first the rest of the page the row ends   *)
(* in, then new full pages, then the part of a new page.  With pages of one  *)
(* token this is the stretch of the answer of alloc that the request gets.   *)
ExtendKernel(free_pages, page_size, pre, seq, last_loc, start) ==
    LET aligned == CeilPages(page_size, pre) * page_size
        part1 == (IF seq < aligned THEN seq ELSE aligned) - pre
        part2 == FloorAlign(page_size, seq) - aligned
        own == CeilPages(page_size, seq) - CeilPages(page_size, pre)
        Index(k) ==
            IF k < part1 THEN last_loc + 1 + k
            ELSE IF k - part1 < part2
            THEN free_pages[start + (k - part1) \div page_size + 1] * page_size
                     + ((k - part1) % page_size)
            ELSE free_pages[start + own] * page_size + (k - part1 - part2)
    IN  [k \in 1..(seq - pre) |-> Index(k - 1)]

(* alloc_decode_kernel: the next index of the page, or the first of a new one. *)
DecodeKernel(free_pages, page_size, pre, last_loc, start) ==
    IF CeilPages(page_size, pre + 1) = CeilPages(page_size, pre) THEN last_loc + 1
    ELSE free_pages[start + 1] * page_size
=============================================================================
