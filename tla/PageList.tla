------------------------------ MODULE PageList ------------------------------
(***************************************************************************)
(* One KV-cache allocator in the hands of callers that free what they were *)
(* given, once: the state machine of the free list, and the refinement     *)
(* mapping under which it implements PagePool.  PageAllocator adds the     *)
(* token indices that the callers see.                                     *)
(***************************************************************************)
EXTENDS FreeList, FiniteSets

CONSTANT Allocators  \* [page_size, need_sort] of the allocators considered

ASSUME AllocatorsAssumption ==
    Allocators \subseteq [page_size : Nat \ {0}, need_sort : BOOLEAN]

VARIABLES
    alloc,  \* the allocator
    used,   \* pages the callers hold
    last    \* the last call for pages and its outcome

listVars == <<alloc, used, last>>

ListInit ==
    /\ \E c \in Allocators : alloc = NewAllocator(MaxPages, c.page_size, c.need_sort)
    /\ used = {}
    /\ last = [n |-> 0, ok |-> TRUE]

(* A call for n pages that merges on an estimate of n. *)
Obtain(n, estimate) ==
    LET a == Ready(alloc, estimate)
    IN  /\ last' = [n |-> n, ok |-> Grants(a, n)]
        /\ alloc' = Take(a, n)
        /\ used' = IF Grants(a, n) THEN used \cup Range(FirstPages(a, n)) ELSE used

(* A caller returns pages it holds. The token allocator is given every index *)
(* once; the paged one once per token of the page.                           *)
Release(index) ==
    /\ Range(index) \subseteq used
    /\ alloc.page_size = 1 => IsInjective(index)
    /\ alloc' = Free(alloc, index)
    /\ used' = used \ Range(index)
    /\ UNCHANGED last

GroupBegin ==
    /\ alloc.is_not_in_free_group
    /\ alloc' = FreeGroupBegin(alloc)
    /\ UNCHANGED <<used, last>>

GroupEnd ==
    /\ ~alloc.is_not_in_free_group
    /\ alloc' = FreeGroupEnd(alloc)
    /\ UNCHANGED <<used, last>>

ClearAll ==
    /\ alloc' = Clear(alloc)
    /\ used' = {}
    /\ UNCHANGED last

ListNext ==
    \/ \E n, estimate \in Nat : n <= estimate /\ Obtain(n, estimate)
    \/ \E index \in Seq(used) : Release(index)
    \/ GroupBegin
    \/ GroupEnd
    \/ ClearAll

ListSpec == ListInit /\ [][ListNext]_listVars

-----------------------------------------------------------------------------
(* What the free list, the released pages and the open group hold. *)
FreeSet == Range(alloc.free_pages) \cup Range(alloc.release_pages)
Pending == Range(alloc.free_group)

Pool == INSTANCE PagePool WITH All <- Pages, free <- FreeSet, pending <- Pending

(* The allocator implements PagePool: whatever the order of its lists and    *)
(* however late released pages are merged, a call is refused only when the   *)
(* pages really are not there, and a granted page is held by nobody else.    *)
PoolSpec == Pool!Spec

(* Every page of the pool is in exactly one place, exactly once: the lists   *)
(* hold no page twice, and free list, released pages, open group and callers *)
(* are disjoint and together are the pool (no leak, no double free).         *)
ListExact ==
    /\ IsInjective(alloc.free_pages) /\ IsInjective(alloc.release_pages)
    /\ Range(alloc.free_pages) \cap Range(alloc.release_pages) = {}
    /\ FreeSet \cap used = {} /\ FreeSet \cap Pending = {} /\ used \cap Pending = {}
    /\ FreeSet \cup used \cup Pending = Pages
=============================================================================
