-------------------------- MODULE MCPageAllocator ---------------------------
(* Instance of PageAllocator for TLC: the token allocator and the paged one  *)
(* with pages of two tokens, each with and without lazy sorting.             *)
EXTENDS PageAllocator

SortPages == [S \in SUBSET Pages |-> SetToSortSeq(S, <)]

Kinds == [page_size : {1, 2}, need_sort : BOOLEAN]
=============================================================================
