------------------------------ MODULE RadixTree ------------------------------
(***************************************************************************)
(* The data structure of RadixCache (mem_cache/radix_cache.py) as          *)
(* operators on a record.                                                  *)
(*                                                                         *)
(* A node is named by its path: the concatenated keys from the root down   *)
(* to it, counted in whole pages, because every key the cache compares,    *)
(* splits or stores is page aligned.  A page key is the tuple of its       *)
(* PageSize tokens.  The namespace tag (extra_key) of a request is part of *)
(* its tokens: two requests of different namespaces have no token in       *)
(* common.                                                                 *)
(*                                                                         *)
(*   lock       lock_ref of every node; its domain is the set of nodes     *)
(*   value      the KV pages of the node's own segment of the path         *)
(*   leaves     evictable_leaves, as the incremental updates left it       *)
(*   evictable  evictable_size_, in tokens                                 *)
(*   protected  protected_size_, in tokens                                 *)
(*                                                                         *)
(* Access times, hit counts, priorities and hashes only choose among the   *)
(* evictable leaves; evict leaves that choice open.                        *)
(***************************************************************************)
EXTENDS Integers, Sequences, FiniteSets, SequencesExt

CONSTANT PageSize

ASSUME PageSizeAssumption == PageSize \in Nat \ {0}

Root == <<>>

\* RadixCache.reset
EmptyTree ==
  [lock      |-> [p \in {Root} |-> 1],
   value     |-> [p \in {Root} |-> <<>>],
   leaves    |-> {},
   evictable |-> 0,
   protected |-> 0]

Nodes(t) == DOMAIN t.lock

\* RadixKey.page_aligned: the whole pages of a token sequence.
PageAligned(tokens) ==
  [i \in 1 .. (Len(tokens) \div PageSize) |->
     SubSeq(tokens, (i - 1) * PageSize + 1, i * PageSize)]

Ancestors(t, p) == {q \in Nodes(t) : IsStrictPrefix(q, p)}

Parent(t, p) ==
  CHOOSE q \in Ancestors(t, p) : \A a \in Ancestors(t, p) : Len(a) <= Len(q)

Children(t, p) == {c \in Nodes(t) : c # Root /\ Parent(t, c) = p}

\* The nodes a lock on p holds: p and its ancestors below the root.
LockPath(t, p) == {q \in Nodes(t) : q # Root /\ IsPrefix(q, p)}

\* len(node.key), in tokens.
KeyLen(t, p) == PageSize * (Len(p) - Len(Parent(t, p)))

SumKeyLen(t, S) == MapThenSumSet(LAMBDA p : KeyLen(t, p), S)

\* _update_leaf_status for every node of S.
UpdateLeafStatus(t, S) ==
  LET IsLeaf(p) == t.lock[p] = 0 /\ Children(t, p) = {}
  IN  [t EXCEPT !.leaves = (t.leaves \ S) \cup {p \in S : IsLeaf(p)}]

-----------------------------------------------------------------------------
(* Looking up and splitting                                                *)

\* The number of leading pages p and key agree on.
CommonLen(p, key) ==
  Max({n \in 0 .. Min({Len(p), Len(key)}) : SubSeq(p, 1, n) = SubSeq(key, 1, n)})

\* How far the walk of _match_prefix_helper and _insert_helper follows key.
MatchLen(t, key) == Max({CommonLen(p, key) : p \in Nodes(t)})

\* The part of key the tree holds.
LongestMatch(t, key) == SubSeq(key, 1, MatchLen(t, key))

\* The node whose segment the path s ends in.
NodeBelow(t, s) ==
  CHOOSE c \in Nodes(t) : IsStrictPrefix(s, c) /\
    \A d \in Nodes(t) : IsStrictPrefix(s, d) => Len(c) <= Len(d)

\* Mutant: the upper half of a split node starts unlocked.
SplitNode_Unlocked(t, s, child, n) ==
  LET nodes == Nodes(t) \cup {s}
      v     == t.value[child]
  IN  [t EXCEPT
        !.lock  = [p \in nodes |-> IF p = s THEN 0 ELSE t.lock[p]],
        !.value = [p \in nodes |->
                     CASE p = s     -> SubSeq(v, 1, n)
                       [] p = child -> SubSeq(v, n + 1, Len(v))
                       [] OTHER     -> t.value[p]]]

\* Mutant: the lower half of a split node keeps the whole value.
SplitNode_WholeValue(t, s, child, n) ==
  LET nodes == Nodes(t) \cup {s}
      v     == t.value[child]
  IN  [t EXCEPT
        !.lock  = [p \in nodes |-> IF p = s THEN t.lock[child] ELSE t.lock[p]],
        !.value = [p \in nodes |-> IF p = s THEN SubSeq(v, 1, n) ELSE t.value[p]]]

\* _split_node: s becomes a node between child and its parent, n pages below
\* the parent; it takes the lock count of the child it is cut from.  The
\* evictable leaves do not change.
SplitNode(t, s, child, n) ==
  LET nodes == Nodes(t) \cup {s}
      v     == t.value[child]
  IN  [t EXCEPT
        !.lock  = [p \in nodes |-> IF p = s THEN t.lock[child] ELSE t.lock[p]],
        !.value = [p \in nodes |->
                     CASE p = s     -> SubSeq(v, 1, n)
                       [] p = child -> SubSeq(v, n + 1, Len(v))
                       [] OTHER     -> t.value[p]]]

\* The walk down the tree to s: a match that ends inside a segment splits it.
Walk(t, s) ==
  IF s \in Nodes(t) THEN t
  ELSE SplitNode(t, s, NodeBelow(t, s), Len(s) - Len(Parent(t, s)))

\* The pages on the path from the root to p, in order.
PathPages(t, p) ==
  FlattenSeq([i \in 1 .. Len(p) |->
    LET q == SubSeq(p, 1, i) IN IF q \in Nodes(t) THEN t.value[q] ELSE <<>>])

\* match_prefix: the tree after the lookup, the last node, its pages.
MatchResult(t, node) == [tree |-> t, node |-> node, pages |-> PathPages(t, node)]

MatchPrefix(t, key) ==
  LET s == LongestMatch(t, key) IN MatchResult(Walk(t, s), s)

\* Mutant: the new node stores the first pages of the row.
AddLeaf_FirstPages(t, parent, key, pages) ==
  LET nodes == Nodes(t) \cup {key}
  IN  UpdateLeafStatus(
        [t EXCEPT
          !.lock      = [p \in nodes |-> IF p = key THEN 0 ELSE @[p]],
          !.value     = [p \in nodes |-> IF p = key THEN SubSeq(pages, 1, Len(key) - Len(parent))
                                                    ELSE @[p]],
          !.evictable = @ + PageSize * (Len(key) - Len(parent))], {parent, key})

\* _insert_helper: the rest of key becomes a new node below parent, with its
\* part of pages, the KV pages of the whole key.
AddLeaf(t, parent, key, pages) ==
  LET nodes == Nodes(t) \cup {key}
  IN  UpdateLeafStatus(
        [t EXCEPT
          !.lock      = [p \in nodes |-> IF p = key THEN 0 ELSE @[p]],
          !.value     = [p \in nodes |-> IF p = key THEN SubSeq(pages, Len(parent) + 1, Len(key))
                                                    ELSE @[p]],
          !.evictable = @ + PageSize * (Len(key) - Len(parent))], {parent, key})

\* insert: the tree and how many pages of key it held before.  The pages
\* of that part are not stored.
InsertKey(t, key, pages) ==
  LET s == LongestMatch(t, key)
  IN  [tree   |-> IF s = key THEN Walk(t, s) ELSE AddLeaf(Walk(t, s), s, key, pages),
       prefix |-> Len(s)]

-----------------------------------------------------------------------------
(* Locking                                                                 *)

IncLockRef(t, node) ==
  LET path == LockPath(t, node)
      size == SumKeyLen(t, {p \in path : t.lock[p] = 0})
  IN  UpdateLeafStatus(
        [t EXCEPT !.lock      = [p \in Nodes(t) |-> @[p] + IF p \in path THEN 1 ELSE 0],
                  !.evictable = @ - size,
                  !.protected = @ + size], path)

\* Mutant: the sizes move before the last lock is gone.
DecLockRef_SizesEarly(t, node) ==
  LET path == LockPath(t, node)
      size == SumKeyLen(t, path)
  IN  UpdateLeafStatus(
        [t EXCEPT !.lock      = [p \in Nodes(t) |-> @[p] - IF p \in path THEN 1 ELSE 0],
                  !.evictable = @ + size,
                  !.protected = @ - size], path)

DecLockRef(t, node) ==
  LET path == LockPath(t, node)
      size == SumKeyLen(t, {p \in path : t.lock[p] = 1})
  IN  UpdateLeafStatus(
        [t EXCEPT !.lock      = [p \in Nodes(t) |-> @[p] - IF p \in path THEN 1 ELSE 0],
                  !.evictable = @ + size,
                  !.protected = @ - size], path)

-----------------------------------------------------------------------------
(* Eviction                                                                *)

\* _delete_leaf for every node of D, children before parents.
DeleteLeaves(t, D) ==
  LET parents == {Parent(t, p) : p \in D} \ D
      nodes   == Nodes(t) \ D
      u       == [t EXCEPT !.lock      = [p \in nodes |-> @[p]],
                           !.value     = [p \in nodes |-> @[p]],
                           !.leaves    = @ \ D,
                           !.evictable = @ - SumKeyLen(t, D)]
  IN  UpdateLeafStatus(u, parents)

\* The nodes the eviction loop may have deleted when it returns.  Its heap
\* starts as evictable_leaves; a parent enters it when its last child is
\* deleted and it is not locked.  The loop ends as soon as num_tokens are
\* evicted, so the last node deleted was still needed, or with an empty heap.
Evictions(t, num_tokens) ==
  LET Poppable(p, D) ==
        \/ p \in t.leaves
        \/ p # Root /\ t.lock[p] = 0 /\ Children(t, p) # {} /\ Children(t, p) \subseteq D
      Closed(D) == \A p \in D : Poppable(p, D)
      LastIn(D) == {x \in D : Children(t, x) \subseteq D /\ Closed(D \ {x})}
  IN  {D \in SUBSET (Nodes(t) \ {Root}) :
         /\ Closed(D)
         /\ IF SumKeyLen(t, D) >= num_tokens
              THEN D # {} => \E x \in LastIn(D) : SumKeyLen(t, D \ {x}) < num_tokens
              ELSE \A p \in Nodes(t) \ (D \cup {Root}) : ~Poppable(p, D)}
=============================================================================
