------------------------------ MODULE PagePool ------------------------------
(***************************************************************************)
(* What a KV-cache allocator promises its callers, without lists, order,   *)
(* lazy merging or estimates: a set of pages, each free, in use, or freed  *)
(* inside a group that has not ended.  A call for n pages is refused only  *)
(* when fewer than n pages are free, and gets pages nobody else has.       *)
(***************************************************************************)
EXTENDS Integers, FiniteSets

CONSTANT All      \* the pages of the pool

VARIABLES
    free,     \* pages that can be handed out
    used,     \* pages the callers hold
    pending,  \* pages freed inside the open group
    last      \* the last call for pages: [n |-> how many, ok |-> granted]

vars == <<free, used, pending, last>>

Init ==
    /\ free = All
    /\ used = {}
    /\ pending = {}
    /\ last = [n |-> 0, ok |-> TRUE]

Alloc ==
    /\ last' \in [n : Nat, ok : {TRUE}]
    /\ \E S \in SUBSET free :
          /\ Cardinality(S) = last'.n
          /\ free' = free \ S
          /\ used' = used \cup S
    /\ UNCHANGED pending

Refuse ==
    /\ last' \in [n : Nat, ok : {FALSE}]
    /\ last'.n > Cardinality(free)
    /\ UNCHANGED <<free, used, pending>>

Free ==
    /\ \E S \in SUBSET used :
          /\ used' = used \ S
          /\ free' = free \cup S
    /\ UNCHANGED <<pending, last>>

Defer ==
    /\ \E S \in SUBSET used :
          /\ used' = used \ S
          /\ pending' = pending \cup S
    /\ UNCHANGED <<free, last>>

EndGroup ==
    /\ free' = free \cup pending
    /\ pending' = {}
    /\ UNCHANGED <<used, last>>

Clear ==
    /\ free' = All
    /\ used' = {}
    /\ pending' = {}
    /\ UNCHANGED last

Next == Alloc \/ Refuse \/ Free \/ Defer \/ EndGroup \/ Clear

Spec == Init /\ [][Next]_vars
=============================================================================
