--------------------------- MODULE PageListProofs ---------------------------
(***************************************************************************)
(* Proofs that the KV-cache free list keeps every page in one place and    *)
(* implements PagePool, for pools of any size, token and paged allocators, *)
(* with and without lazy sorting.                                          *)
(***************************************************************************)
EXTENDS PageList, SequenceTheorems, FunctionTheorems, FiniteSetTheorems, TLAPS

-----------------------------------------------------------------------------
(* Sequences without repetition, seen as the sets of their elements. *)

(* Concatenation is union, and keeps disjoint sequences free of repetition. *)
LEMMA ConcatRange ==
    ASSUME NEW S, NEW s \in Seq(S), NEW t \in Seq(S)
    PROVE  /\ s \o t \in Seq(S)
           /\ Range(s \o t) = Range(s) \cup Range(t)
           /\ IsInjective(s) /\ IsInjective(t) /\ Range(s) \cap Range(t) = {}
                 => IsInjective(s \o t)
<1>1. s \o t \in Seq(S) /\ Len(s \o t) = Len(s) + Len(t)
    OBVIOUS
<1>2. \A i \in 1..(Len(s) + Len(t)) :
         (s \o t)[i] = IF i <= Len(s) THEN s[i] ELSE t[i - Len(s)]
    BY ConcatProperties
<1>3. /\ DOMAIN s = 1..Len(s) /\ DOMAIN t = 1..Len(t) /\ Len(s) \in Nat /\ Len(t) \in Nat
      /\ DOMAIN (s \o t) = 1..(Len(s) + Len(t))
    BY <1>1
<1>4. Range(s \o t) \subseteq Range(s) \cup Range(t)
    BY <1>2, <1>3 DEF Range
<1>5. Range(s) \subseteq Range(s \o t)
    BY <1>2, <1>3 DEF Range
<1>6. Range(t) \subseteq Range(s \o t)
    <2> SUFFICES ASSUME NEW i \in DOMAIN t PROVE t[i] \in Range(s \o t)
        BY DEF Range
    <2>1. i + Len(s) \in DOMAIN (s \o t) /\ (s \o t)[i + Len(s)] = t[i]
        BY <1>2, <1>3
    <2> QED BY <2>1 DEF Range
<1>7. ASSUME IsInjective(s), IsInjective(t), Range(s) \cap Range(t) = {}
      PROVE  IsInjective(s \o t)
    <2> SUFFICES ASSUME NEW i \in DOMAIN (s \o t), NEW j \in DOMAIN (s \o t),
                        (s \o t)[i] = (s \o t)[j]
                 PROVE  i = j
        BY DEF IsInjective
    <2>1. CASE i <= Len(s) /\ j <= Len(s)
        BY <2>1, <1>2, <1>3, <1>7 DEF IsInjective
    <2>2. CASE i > Len(s) /\ j > Len(s)
        <3>1. i - Len(s) \in DOMAIN t /\ j - Len(s) \in DOMAIN t
            BY <2>2, <1>3
        <3>2. t[i - Len(s)] = t[j - Len(s)]
            BY <2>2, <1>2, <1>3
        <3>3. i - Len(s) = j - Len(s)
            BY <3>1, <3>2, <1>7 DEF IsInjective
        <3> QED BY <3>3, <1>3
    <2>3. ASSUME NEW x \in DOMAIN (s \o t), NEW y \in DOMAIN (s \o t),
                 x <= Len(s), y > Len(s)
          PROVE  (s \o t)[x] # (s \o t)[y]
        <3>1. x \in DOMAIN s /\ y - Len(s) \in DOMAIN t
            BY <2>3, <1>3
        <3>2. (s \o t)[x] \in Range(s) /\ (s \o t)[y] \in Range(t)
            BY <3>1, <2>3, <1>2, <1>3 DEF Range
        <3> QED BY <3>2, <1>7
    <2> QED BY <2>1, <2>2, <2>3, <1>3
<1> QED BY <1>1, <1>4, <1>5, <1>6, <1>7

(* Cutting a sequence after n elements splits its range; without repetition  *)
(* the two parts are disjoint.                                               *)
LEMMA SplitRange ==
    ASSUME NEW S, NEW s \in Seq(S), NEW n \in 0..Len(s), IsInjective(s)
    PROVE  LET h == SubSeq(s, 1, n)
               t == SubSeq(s, n + 1, Len(s))
           IN  /\ h \in Seq(S) /\ t \in Seq(S) /\ Len(h) = n
               /\ IsInjective(h) /\ IsInjective(t)
               /\ Range(s) = Range(h) \cup Range(t) /\ Range(h) \cap Range(t) = {}
<1> DEFINE h == SubSeq(s, 1, n)
           t == SubSeq(s, n + 1, Len(s))
<1>1. DOMAIN s = 1..Len(s) /\ Len(s) \in Nat /\ n \in Nat /\ n <= Len(s)
    OBVIOUS
<1>2. /\ h \in Seq(S) /\ Len(h) = n /\ DOMAIN h = 1..n
      /\ \A i \in 1..n : h[i] = s[i]
    BY <1>1
<1>3. /\ t \in Seq(S) /\ Len(t) = Len(s) - n /\ DOMAIN t = 1..(Len(s) - n)
      /\ \A i \in 1..(Len(s) - n) : t[i] = s[n + i]
    <2>1. \A i \in (n + 1)..Len(s) : s[i] \in S
        BY <1>1
    <2>2. /\ t \in Seq(S)
          /\ Len(t) = IF n + 1 <= Len(s) THEN Len(s) - (n + 1) + 1 ELSE 0
          /\ \A i \in 1..(Len(s) - (n + 1) + 1) : t[i] = s[n + 1 + i - 1]
        BY <2>1, <1>1, SubSeqProperties
    <2> HIDE DEF t
    <2>3. Len(t) = Len(s) - n
        <3>1. \A k, l \in Nat : k <= l => (IF k + 1 <= l THEN l - (k + 1) + 1 ELSE 0) = l - k
            OBVIOUS
        <3>2. Len(t) = IF n + 1 <= Len(s) THEN Len(s) - (n + 1) + 1 ELSE 0
            BY <2>2
        <3> QED BY <3>1, <3>2, <1>1, Zenon
    <2>4. ASSUME NEW i \in 1..(Len(s) - n) PROVE t[i] = s[n + i]
        <3>1. i \in 1..(Len(s) - (n + 1) + 1) /\ n + 1 + i - 1 = n + i
            BY <1>1
        <3> QED BY <3>1, <2>2
    <2>5. DOMAIN t = 1..(Len(s) - n)
        BY <2>2, <2>3
    <2> QED BY <2>2, <2>3, <2>4, <2>5
<1> HIDE DEF h, t
<1>8. ASSUME NEW i \in DOMAIN t PROVE i \in Nat /\ n + i \in DOMAIN s /\ t[i] = s[n + i]
    <2>1. \A k, l \in Nat : \A m \in 1..(l - k) : m \in Nat /\ k + m \in 1..l
        OBVIOUS
    <2>2. i \in 1..(Len(s) - n) /\ t[i] = s[n + i]
        BY <1>3, Zenon
    <2>3. i \in Nat /\ n + i \in 1..Len(s)
        BY <2>1, <2>2, <1>1, Zenon
    <2> QED BY <2>2, <2>3, <1>1, Zenon
<1>4. IsInjective(h) /\ IsInjective(t)
    <2>1. IsInjective(h)
        BY <1>1, <1>2 DEF IsInjective
    <2>2. ASSUME NEW i \in DOMAIN t, NEW j \in DOMAIN t, t[i] = t[j]
          PROVE  i = j
        <3>1. n + i \in DOMAIN s /\ n + j \in DOMAIN s /\ s[n + i] = s[n + j]
            BY <1>8, <2>2, Zenon
        <3>2. n + i = n + j
            BY <3>1, Zenon DEF IsInjective
        <3>3. i \in Nat /\ j \in Nat /\ n \in Nat
            BY <1>8, <1>1, Zenon
        <3> QED BY <3>2, <3>3
    <2> QED BY <2>1, <2>2 DEF IsInjective
<1>5. Range(h) \subseteq Range(s) /\ Range(t) \subseteq Range(s)
    <2>1. Range(h) \subseteq Range(s)
        BY <1>1, <1>2 DEF Range
    <2>2. ASSUME NEW i \in DOMAIN t PROVE t[i] \in Range(s)
        <3>1. n + i \in DOMAIN s /\ t[i] = s[n + i]
            BY <1>8, Zenon
        <3> QED BY <3>1 DEF Range
    <2> QED BY <2>1, <2>2, Zenon DEF Range
<1>6. Range(s) \subseteq Range(h) \cup Range(t)
    <2> SUFFICES ASSUME NEW i \in DOMAIN s, i > n PROVE s[i] \in Range(t)
        BY <1>1, <1>2 DEF Range
    <2>1. i - n \in 1..(Len(s) - n) /\ n + (i - n) = i
        <3>1. i \in 1..Len(s)
            BY <1>1, Zenon
        <3> QED BY <3>1, <1>1
    <2>2. i - n \in DOMAIN t /\ t[i - n] = s[n + (i - n)]
        BY <2>1, <1>3, Zenon
    <2> QED BY <2>1, <2>2 DEF Range
<1>7. Range(h) \cap Range(t) = {}
    <2> SUFFICES ASSUME NEW i \in DOMAIN h, NEW j \in DOMAIN t, h[i] = t[j] PROVE FALSE
        BY DEF Range
    <2>1. i \in DOMAIN s /\ h[i] = s[i] /\ i \in 1..n
        BY <1>1, <1>2
    <2>2. n + j \in DOMAIN s /\ s[i] = s[n + j]
        BY <2>1, <1>8, Zenon
    <2>3. i # n + j
        <3>1. j \in 1..(Len(s) - n)
            BY <1>3, Zenon
        <3> QED BY <2>1, <3>1, <1>1
    <2> QED BY <2>1, <2>2, <2>3, Zenon DEF IsInjective
<1> QED BY <1>2, <1>3, <1>4, <1>5, <1>6, <1>7 DEF h, t

(* A sequence without repetition has as many elements as its length. *)
LEMMA InjectiveLength ==
    ASSUME NEW S, NEW s \in Seq(S), IsInjective(s)
    PROVE  IsFiniteSet(Range(s)) /\ Cardinality(Range(s)) = Len(s)
<1>1. s \in Injection(1..Len(s), S) /\ Len(s) \in Nat
    BY DEF Injection
<1>2. s \in Bijection(1..Len(s), Range(s))
    BY <1>1, Fun_InjMeansBijImage
<1>3. ExistsBijection(1..Len(s), Range(s))
    BY <1>2 DEF ExistsBijection
<1>4. IsFiniteSet(1..Len(s)) /\ Cardinality(1..Len(s)) = Len(s)
    <2>1. /\ IsFiniteSet(1..Len(s))
          /\ Cardinality(1..Len(s)) = IF 1 > Len(s) THEN 0 ELSE Len(s) - 1 + 1
        <3>1. 1 \in Int /\ Len(s) \in Int
            BY <1>1
        <3> QED BY <3>1, FS_Interval
    <2> QED BY <2>1, <1>1
<1> QED BY <1>3, <1>4, FS_Bijection

(* Sort enumerates its argument once. *)
LEMMA SortProperties ==
    ASSUME NEW S \in SUBSET Pages
    PROVE  Sort[S] \in Seq(S) /\ Sort[S] \in Seq(Pages) /\ Range(Sort[S]) = S /\ IsInjective(Sort[S])
<1>1. IsEnumeration(Sort[S], S)
    BY SortAssumption
<1>2. Sort[S] \in Seq(S) /\ Range(Sort[S]) = S
    BY <1>1 DEF IsEnumeration
<1>3. Sort[S] \in Seq(Pages)
    BY <1>2, SeqMonotonic
<1>4. ASSUME NEW i \in DOMAIN Sort[S], NEW j \in DOMAIN Sort[S], i < j
      PROVE  Sort[S][i] # Sort[S][j]
    <2>1. Sort[S][i] < Sort[S][j]
        BY <1>1, <1>4 DEF IsEnumeration
    <2>2. Sort[S][i] \in Int /\ Sort[S][j] \in Int
        BY <1>3, PagesAssumption DEF Pages
    <2> QED BY <2>1, <2>2
<1>5. \A i \in DOMAIN Sort[S] : i \in Int
    BY <1>2
<1>6. IsInjective(Sort[S])
    BY <1>4, <1>5 DEF IsInjective
<1> QED BY <1>2, <1>3, <1>6

-----------------------------------------------------------------------------
(* The operators of FreeList on a well-formed allocator. *)

AllocatorType ==
    [num_pages : {MaxPages}, page_size : Nat \ {0}, need_sort : BOOLEAN,
     free_pages : Seq(Pages), release_pages : Seq(Pages), free_group : Seq(Pages),
     is_not_in_free_group : BOOLEAN]

FreeOf(a) == Range(a.free_pages) \cup Range(a.release_pages)

WellFormed(a) ==
    /\ a \in AllocatorType
    /\ IsInjective(a.free_pages) /\ IsInjective(a.release_pages)
    /\ Range(a.free_pages) \cap Range(a.release_pages) = {}
    /\ ~a.need_sort => a.release_pages = <<>>

(* The empty sequence. *)
LEMMA EmptyFacts == Range(<<>>) = {} /\ IsInjective(<<>>) /\ <<>> \in Seq(Pages)
BY DEF Range, IsInjective

LEMMA RangeType ==
    ASSUME NEW S, NEW s \in Seq(S)
    PROVE  Range(s) \subseteq S
BY DEF Range

(* merge_and_sort_free keeps the set of free pages and empties the released list. *)
LEMMA MergeFacts ==
    ASSUME NEW a, WellFormed(a)
    PROVE  LET b == MergeAndSortFree(a)
           IN  /\ WellFormed(b) /\ FreeOf(b) = FreeOf(a)
               /\ b.release_pages = <<>>
               /\ b.free_group = a.free_group
               /\ b.is_not_in_free_group = a.is_not_in_free_group
               /\ b.page_size = a.page_size
<1>1. CASE a.release_pages = <<>>
    BY <1>1 DEF MergeAndSortFree
<1>2. CASE a.release_pages # <<>>
    <2> DEFINE F == FreeOf(a)
    <2>1. F \in SUBSET Pages
        BY RangeType DEF WellFormed, AllocatorType, FreeOf
    <2>2. Sort[F] \in Seq(Pages) /\ Range(Sort[F]) = F /\ IsInjective(Sort[F])
        BY <2>1, SortProperties
    <2>3. MergeAndSortFree(a) = [a EXCEPT !.free_pages = Sort[F], !.release_pages = <<>>]
        BY <1>2 DEF MergeAndSortFree, FreeOf
    <2> HIDE DEF F
    <2> DEFINE b == MergeAndSortFree(a)
    <2>4. /\ b \in AllocatorType /\ b.free_pages = Sort[F] /\ b.release_pages = <<>>
          /\ b.free_group = a.free_group
          /\ b.is_not_in_free_group = a.is_not_in_free_group
          /\ b.page_size = a.page_size
        BY <2>2, <2>3, EmptyFacts, Zenon DEF WellFormed, AllocatorType
    <2> HIDE DEF b
    <2>5. WellFormed(b) /\ FreeOf(b) = F
        BY <2>2, <2>4, EmptyFacts DEF WellFormed, FreeOf
    <2> QED BY <2>4, <2>5 DEF b, F
<1> QED BY <1>1, <1>2

(* Merging on an estimate of n is early enough: a call for n pages that the  *)
(* list cannot serve after it could not be served from all the free pages.   *)
LEMMA ReadyFacts ==
    ASSUME NEW a, WellFormed(a), NEW n \in Nat, NEW estimate \in Nat, n <= estimate
    PROVE  LET b == Ready(a, estimate)
           IN  /\ WellFormed(b) /\ FreeOf(b) = FreeOf(a)
               /\ b.free_group = a.free_group
               /\ b.is_not_in_free_group = a.is_not_in_free_group
               /\ b.page_size = a.page_size
               /\ Grants(b, n) \/ n > Cardinality(FreeOf(a))
<1> DEFINE b == Ready(a, estimate)
<1>1. /\ WellFormed(b) /\ FreeOf(b) = FreeOf(a)
      /\ b.free_group = a.free_group
      /\ b.is_not_in_free_group = a.is_not_in_free_group
      /\ b.page_size = a.page_size
    BY MergeFacts DEF Ready
<1>2. CASE b.release_pages = <<>>
    <2>1. FreeOf(b) = Range(b.free_pages)
        BY <1>2, EmptyFacts DEF FreeOf
    <2>2. Cardinality(FreeOf(b)) = Len(b.free_pages) /\ Len(b.free_pages) \in Nat
        BY <1>1, <2>1, InjectiveLength DEF WellFormed, AllocatorType
    <2>3. n <= Len(b.free_pages) \/ n > Len(b.free_pages)
        BY <2>2
    <2> QED BY <1>1, <2>2, <2>3 DEF Grants
<1>3. CASE b.release_pages # <<>>
    <2>1. a.need_sort
        <3>1. ~a.need_sort => b = a
            BY DEF Ready
        <3> QED BY <3>1, <1>3 DEF WellFormed
    <2>2. ~(estimate > Len(a.free_pages)) /\ b = a
        BY <2>1, <1>3, MergeFacts DEF Ready
    <2>3. Len(a.free_pages) \in Nat
        BY DEF WellFormed, AllocatorType
    <2> QED BY <1>1, <2>2, <2>3 DEF Grants
<1> QED BY <1>1, <1>2, <1>3

(* A granted call takes n different pages off the free set. *)
LEMMA TakeFacts ==
    ASSUME NEW a, WellFormed(a), NEW n \in Nat, Grants(a, n)
    PROVE  LET b == Take(a, n)
               S == Range(FirstPages(a, n))
           IN  /\ WellFormed(b)
               /\ S \subseteq FreeOf(a) /\ Cardinality(S) = n
               /\ FreeOf(b) = FreeOf(a) \ S
               /\ b.free_group = a.free_group
               /\ b.is_not_in_free_group = a.is_not_in_free_group
               /\ b.page_size = a.page_size
<1> DEFINE f == a.free_pages
           h == SubSeq(f, 1, n)
           t == SubSeq(f, n + 1, Len(f))
           b == Take(a, n)
<1>1. f \in Seq(Pages) /\ IsInjective(f) /\ n \in 0..Len(f)
    BY DEF WellFormed, AllocatorType, Grants
<1>2. /\ h \in Seq(Pages) /\ t \in Seq(Pages) /\ Len(h) = n
      /\ IsInjective(h) /\ IsInjective(t)
      /\ Range(f) = Range(h) \cup Range(t) /\ Range(h) \cap Range(t) = {}
    <2> HIDE DEF f
    <2> QED BY <1>1, SplitRange
<1>3. b = [a EXCEPT !.free_pages = t] /\ FirstPages(a, n) = h
    BY DEF Take, FirstPages
<1> HIDE DEF h, t
<1>4. Cardinality(Range(h)) = n
    BY <1>2, InjectiveLength
<1>5. /\ b \in AllocatorType /\ b.free_pages = t /\ b.release_pages = a.release_pages
      /\ b.need_sort = a.need_sort /\ b.free_group = a.free_group
      /\ b.is_not_in_free_group = a.is_not_in_free_group
      /\ b.page_size = a.page_size
    BY <1>2, <1>3, Zenon DEF WellFormed, AllocatorType
<1> HIDE DEF b
<1>6. Range(t) \cap Range(a.release_pages) = {} /\ Range(h) \cap Range(a.release_pages) = {}
    BY <1>2 DEF WellFormed
<1>7. WellFormed(b)
    BY <1>2, <1>5, <1>6 DEF WellFormed
<1>8. FreeOf(b) = FreeOf(a) \ Range(h) /\ Range(h) \subseteq FreeOf(a)
    BY <1>2, <1>5, <1>6 DEF FreeOf
<1> QED BY <1>3, <1>4, <1>5, <1>7, <1>8 DEF b

(* free, outside a group, adds its pages to the free set, once each. *)
LEMMA FreeFacts ==
    ASSUME NEW a, WellFormed(a), a.is_not_in_free_group,
           NEW index \in Seq(Pages), Range(index) \cap FreeOf(a) = {},
           a.page_size = 1 => IsInjective(index)
    PROVE  LET b == Free(a, index)
           IN  /\ WellFormed(b)
               /\ FreeOf(b) = FreeOf(a) \cup Range(index)
               /\ b.free_group = a.free_group
               /\ b.is_not_in_free_group = a.is_not_in_free_group
               /\ b.page_size = a.page_size
<1>1. CASE index = <<>>
    BY <1>1, EmptyFacts, Zenon DEF Free
<1>2. CASE index # <<>>
    <2>1. ASSUME NEW list \in Seq(Pages), IsInjective(list), Range(list) \subseteq FreeOf(a)
          PROVE  /\ Add(a, list, index) \in Seq(Pages)
                 /\ IsInjective(Add(a, list, index))
                 /\ Range(Add(a, list, index)) = Range(list) \cup Range(index)
        <3>1. Range(list) \cap Range(index) = {}
            BY <2>1
        <3>2. CASE a.page_size = 1
            BY <3>1, <3>2, <2>1, ConcatRange DEF Add
        <3>3. CASE a.page_size # 1
            <4> DEFINE u == Sort[Range(index)]
            <4>1. Range(index) \in SUBSET Pages
                BY RangeType
            <4>2. u \in Seq(Pages) /\ Range(u) = Range(index) /\ IsInjective(u)
                BY <4>1, SortProperties
            <4>3. Add(a, list, index) = u \o list
                BY <3>3 DEF Add
            <4> HIDE DEF u
            <4> QED BY <4>2, <4>3, <3>1, <2>1, ConcatRange
        <3> QED BY <3>2, <3>3
    <2> DEFINE b == Free(a, index)
    <2>2. CASE a.need_sort
        <3> DEFINE l == Add(a, a.release_pages, index)
        <3>1. /\ l \in Seq(Pages) /\ IsInjective(l)
              /\ Range(l) = Range(a.release_pages) \cup Range(index)
            BY <2>1 DEF WellFormed, AllocatorType, FreeOf
        <3>2. b = [a EXCEPT !.release_pages = l]
            BY <1>2, <2>2 DEF Free
        <3> HIDE DEF l
        <3>3. /\ b \in AllocatorType /\ b.release_pages = l /\ b.free_pages = a.free_pages
              /\ b.need_sort = a.need_sort /\ b.free_group = a.free_group
              /\ b.is_not_in_free_group = a.is_not_in_free_group
              /\ b.page_size = a.page_size
            BY <3>1, <3>2, Zenon DEF WellFormed, AllocatorType
        <3> HIDE DEF b
        <3>4. Range(b.free_pages) \cap Range(l) = {}
            BY <3>1, <3>3 DEF WellFormed, FreeOf
        <3>5. WellFormed(b)
            BY <3>1, <3>3, <3>4, <2>2 DEF WellFormed
        <3>6. FreeOf(b) = FreeOf(a) \cup Range(index)
            BY <3>1, <3>3 DEF FreeOf
        <3> QED BY <3>3, <3>5, <3>6 DEF b
    <2>3. CASE ~a.need_sort
        <3> DEFINE l == Add(a, a.free_pages, index)
        <3>1. /\ l \in Seq(Pages) /\ IsInjective(l)
              /\ Range(l) = Range(a.free_pages) \cup Range(index)
            BY <2>1 DEF WellFormed, AllocatorType, FreeOf
        <3>2. b = [a EXCEPT !.free_pages = l]
            BY <1>2, <2>3 DEF Free
        <3> HIDE DEF l
        <3>3. /\ b \in AllocatorType /\ b.free_pages = l /\ b.release_pages = a.release_pages
              /\ b.need_sort = a.need_sort /\ b.free_group = a.free_group
              /\ b.is_not_in_free_group = a.is_not_in_free_group
              /\ b.page_size = a.page_size
            BY <3>1, <3>2, Zenon DEF WellFormed, AllocatorType
        <3> HIDE DEF b
        <3>4. Range(l) \cap Range(b.release_pages) = {}
            BY <3>1, <3>3 DEF WellFormed, FreeOf
        <3>5. WellFormed(b)
            BY <3>1, <3>3, <3>4 DEF WellFormed
        <3>6. FreeOf(b) = FreeOf(a) \cup Range(index)
            BY <3>1, <3>3 DEF FreeOf
        <3> QED BY <3>3, <3>5, <3>6 DEF b
    <2> QED BY <2>2, <2>3, Zenon
<1> QED BY <1>1, <1>2, Zenon

(* free_group_end frees the pages of the group. *)
LEMMA GroupEndFacts ==
    ASSUME NEW a, WellFormed(a), Range(a.free_group) \cap FreeOf(a) = {},
           a.page_size = 1 => IsInjective(a.free_group)
    PROVE  LET b == FreeGroupEnd(a)
           IN  /\ WellFormed(b)
               /\ FreeOf(b) = FreeOf(a) \cup Range(a.free_group)
               /\ b.free_group = <<>> /\ b.is_not_in_free_group
<1> DEFINE o == [a EXCEPT !.is_not_in_free_group = TRUE]
           f == Free(o, a.free_group)
           b == FreeGroupEnd(a)
<1>1. /\ WellFormed(o) /\ FreeOf(o) = FreeOf(a) /\ o.page_size = a.page_size
      /\ o.is_not_in_free_group
    BY Zenon DEF WellFormed, AllocatorType, FreeOf
<1>2. a.free_group \in Seq(Pages)
    BY DEF WellFormed, AllocatorType
<1>3. b = [f EXCEPT !.free_group = <<>>]
    BY DEF FreeGroupEnd
<1> HIDE DEF o, b
<1>4. WellFormed(f) /\ FreeOf(f) = FreeOf(a) \cup Range(a.free_group) /\ f.is_not_in_free_group
    BY <1>1, <1>2, FreeFacts
<1> HIDE DEF f
<1>5. /\ b \in AllocatorType /\ b.free_group = <<>> /\ b.is_not_in_free_group
      /\ b.free_pages = f.free_pages /\ b.release_pages = f.release_pages
      /\ b.need_sort = f.need_sort
    BY <1>3, <1>4, EmptyFacts, Zenon DEF WellFormed, AllocatorType
<1>6. WellFormed(b) /\ FreeOf(b) = FreeOf(f)
    BY <1>4, <1>5 DEF WellFormed, FreeOf
<1> QED BY <1>4, <1>5, <1>6 DEF b

(* clear makes every page of the pool free. *)
LEMMA ClearFacts ==
    ASSUME NEW a \in AllocatorType
    PROVE  LET b == Clear(a)
           IN  /\ WellFormed(b) /\ FreeOf(b) = Pages
               /\ b.free_group = <<>> /\ b.is_not_in_free_group
<1> DEFINE f == [i \in 1..MaxPages |-> i]
           b == Clear(a)
<1>1. f \in Seq(Pages) /\ Range(f) = Pages /\ IsInjective(f)
    BY PagesAssumption DEF Pages, Range, IsInjective
<1>2. b = [a EXCEPT !.free_pages = f, !.release_pages = <<>>,
                    !.free_group = <<>>, !.is_not_in_free_group = TRUE]
    BY Zenon DEF Clear, AllocatorType
<1> HIDE DEF f
<1>3. /\ b \in AllocatorType /\ b.free_pages = f /\ b.release_pages = <<>>
      /\ b.free_group = <<>> /\ b.is_not_in_free_group
    BY <1>1, <1>2, EmptyFacts, Zenon DEF AllocatorType
<1> HIDE DEF b
<1>4. WellFormed(b) /\ FreeOf(b) = Pages
    BY <1>1, <1>3, EmptyFacts DEF WellFormed, FreeOf
<1> QED BY <1>3, <1>4 DEF b

-----------------------------------------------------------------------------
(* The inductive invariant.  ListExact alone is not inductive: it does not   *)
(* say that released pages wait in release_pages only when lists are sorted  *)
(* lazily (without which a page could be free and never be found), nor that  *)
(* the group of the token allocator holds no index twice and is empty when   *)
(* no group is open.                                                         *)
IInv ==
    /\ WellFormed(alloc)
    /\ ListExact
    /\ alloc.page_size = 1 => IsInjective(alloc.free_group)
    /\ alloc.is_not_in_free_group => alloc.free_group = <<>>

(* The parts of IInv that a step has to re-establish. *)
LEMMA IInvFrom ==
    ASSUME NEW a, WellFormed(a), NEW U,
           FreeOf(a) \cap U = {}, FreeOf(a) \cap Range(a.free_group) = {},
           U \cap Range(a.free_group) = {},
           FreeOf(a) \cup U \cup Range(a.free_group) = Pages,
           a.page_size = 1 => IsInjective(a.free_group),
           a.is_not_in_free_group => a.free_group = <<>>,
           alloc' = a, used' = U
    PROVE  IInv' /\ FreeSet' = FreeOf(a) /\ Pending' = Range(a.free_group)
BY DEF IInv, ListExact, FreeSet, Pending, FreeOf, WellFormed

LEMMA IInvFacts ==
    ASSUME IInv
    PROVE  /\ WellFormed(alloc) /\ FreeSet = FreeOf(alloc) /\ Pending = Range(alloc.free_group)
           /\ FreeOf(alloc) \cap used = {} /\ FreeOf(alloc) \cap Pending = {}
           /\ used \cap Pending = {}
           /\ FreeOf(alloc) \cup used \cup Pending = Pages
BY DEF IInv, ListExact, FreeSet, Pending, FreeOf

(* PagePool counts with the same Cardinality. *)
LEMMA SameCardinality == ASSUME NEW S PROVE Pool!Cardinality(S) = Cardinality(S)
BY DEF Pool!Cardinality, Cardinality

LEMMA InitFacts ==
    ASSUME ListInit
    PROVE  IInv /\ Pool!Init
<1>1. PICK c \in Allocators : alloc = NewAllocator(MaxPages, c.page_size, c.need_sort)
    BY DEF ListInit
<1> DEFINE o == [num_pages |-> MaxPages, page_size |-> c.page_size, need_sort |-> c.need_sort,
                 free_pages |-> <<>>, release_pages |-> <<>>,
                 free_group |-> <<>>, is_not_in_free_group |-> TRUE]
<1>2. o \in AllocatorType /\ alloc = Clear(o)
    BY <1>1, AllocatorsAssumption, EmptyFacts DEF NewAllocator, AllocatorType
<1> HIDE DEF o
<1>3. /\ WellFormed(alloc) /\ FreeOf(alloc) = Pages
      /\ alloc.free_group = <<>> /\ alloc.is_not_in_free_group
    BY <1>2, ClearFacts
<1>4. used = {} /\ last = [n |-> 0, ok |-> TRUE]
    BY DEF ListInit
<1>5. IInv
    BY <1>3, <1>4, EmptyFacts DEF IInv, ListExact, FreeSet, Pending, FreeOf, WellFormed
<1>6. Pool!Init
    BY <1>3, <1>4, EmptyFacts DEF Pool!Init, FreeSet, Pending, FreeOf
<1> QED BY <1>5, <1>6

LEMMA ObtainStep ==
    ASSUME IInv, NEW n \in Nat, NEW estimate \in Nat, n <= estimate, Obtain(n, estimate)
    PROVE  IInv' /\ Pool!Next
<1> DEFINE a == Ready(alloc, estimate)
<1>0. /\ WellFormed(alloc) /\ FreeSet = FreeOf(alloc) /\ Pending = Range(alloc.free_group)
      /\ FreeOf(alloc) \cap used = {} /\ FreeOf(alloc) \cap Pending = {}
      /\ used \cap Pending = {} /\ FreeOf(alloc) \cup used \cup Pending = Pages
    BY IInvFacts
<1>1. /\ WellFormed(a) /\ FreeOf(a) = FreeOf(alloc)
      /\ a.free_group = alloc.free_group
      /\ a.is_not_in_free_group = alloc.is_not_in_free_group
      /\ a.page_size = alloc.page_size
      /\ Grants(a, n) \/ n > Cardinality(FreeOf(alloc))
    BY <1>0, ReadyFacts
<1>2. /\ last' = [n |-> n, ok |-> Grants(a, n)] /\ alloc' = Take(a, n)
      /\ used' = IF Grants(a, n) THEN used \cup Range(FirstPages(a, n)) ELSE used
    BY DEF Obtain
<1> HIDE DEF a
<1>3. CASE Grants(a, n)
    <2> DEFINE b == Take(a, n)
               S == Range(FirstPages(a, n))
    <2>1. /\ WellFormed(b) /\ S \subseteq FreeOf(a) /\ Cardinality(S) = n
          /\ FreeOf(b) = FreeOf(a) \ S
          /\ b.free_group = a.free_group
          /\ b.is_not_in_free_group = a.is_not_in_free_group
          /\ b.page_size = a.page_size
        BY <1>1, <1>3, TakeFacts
    <2>2. alloc' = b /\ used' = used \cup S /\ last' = [n |-> n, ok |-> TRUE]
        BY <1>2, <1>3
    <2> HIDE DEF b, S
    <2>3. IInv' /\ FreeSet' = FreeOf(b) /\ Pending' = Range(b.free_group)
        <3>1. b.page_size = 1 => IsInjective(b.free_group)
            BY <1>1, <2>1 DEF IInv
        <3>2. b.is_not_in_free_group => b.free_group = <<>>
            BY <1>1, <2>1 DEF IInv
        <3>3. /\ FreeOf(b) \cap (used \cup S) = {} /\ FreeOf(b) \cap Range(b.free_group) = {}
              /\ (used \cup S) \cap Range(b.free_group) = {}
              /\ FreeOf(b) \cup (used \cup S) \cup Range(b.free_group) = Pages
            BY <1>0, <1>1, <2>1
        <3> QED BY <3>1, <3>2, <3>3, <2>1, <2>2, IInvFrom, Zenon
    <2>4. S \in SUBSET FreeSet /\ FreeSet' = FreeSet \ S /\ Pending' = Pending
        BY <1>0, <1>1, <2>1, <2>3
    <2>5. last' \in [n : Nat, ok : {TRUE}] /\ last'.n = n
        BY <2>2
    <2>6. Pool!Alloc
        BY <2>1, <2>2, <2>4, <2>5, SameCardinality DEF Pool!Alloc
    <2> QED BY <2>3, <2>6 DEF Pool!Next
<1>4. CASE ~Grants(a, n)
    <2>1. alloc' = a /\ used' = used /\ last' = [n |-> n, ok |-> FALSE]
        <3>1. Grants(a, n) = FALSE
            BY <1>4 DEF Grants
        <3>2. Take(a, n) = a
            BY <3>1 DEF Take
        <3> QED BY <1>2, <3>1, <3>2, Zenon
    <2>2. IInv' /\ FreeSet' = FreeOf(a) /\ Pending' = Range(a.free_group)
        <3>1. a.page_size = 1 => IsInjective(a.free_group)
            BY <1>1 DEF IInv
        <3>2. a.is_not_in_free_group => a.free_group = <<>>
            BY <1>1 DEF IInv
        <3> QED BY <3>1, <3>2, <1>0, <1>1, <2>1, IInvFrom
    <2>3. FreeSet' = FreeSet /\ Pending' = Pending /\ n > Cardinality(FreeSet)
        BY <1>0, <1>1, <1>4, <2>2
    <2>4. last' \in [n : Nat, ok : {FALSE}] /\ last'.n = n
        BY <2>1
    <2>5. Pool!Refuse
        BY <2>1, <2>3, <2>4, SameCardinality DEF Pool!Refuse
    <2> QED BY <2>2, <2>5 DEF Pool!Next
<1> QED BY <1>3, <1>4

LEMMA ReleaseStep ==
    ASSUME IInv, NEW index \in Seq(used), Release(index)
    PROVE  IInv' /\ Pool!Next
<1> DEFINE R == Range(index)
           b == Free(alloc, index)
<1>0. /\ WellFormed(alloc) /\ FreeSet = FreeOf(alloc) /\ Pending = Range(alloc.free_group)
      /\ FreeOf(alloc) \cap used = {} /\ FreeOf(alloc) \cap Pending = {}
      /\ used \cap Pending = {} /\ FreeOf(alloc) \cup used \cup Pending = Pages
    BY IInvFacts
<1>1. /\ R \subseteq used
      /\ alloc.page_size = 1 => IsInjective(index)
      /\ alloc' = b /\ used' = used \ R /\ last' = last
    BY DEF Release
<1>2. index \in Seq(Pages)
    BY <1>0, SeqMonotonic
<1>3. R \cap FreeOf(alloc) = {} /\ R \cap Pending = {}
    BY <1>0, <1>1
<1> HIDE DEF R
<1>4. CASE alloc.is_not_in_free_group
    <2>1. /\ WellFormed(b) /\ FreeOf(b) = FreeOf(alloc) \cup R
          /\ b.free_group = alloc.free_group
          /\ b.is_not_in_free_group = alloc.is_not_in_free_group
          /\ b.page_size = alloc.page_size
        BY <1>0, <1>1, <1>2, <1>3, <1>4, FreeFacts, Zenon DEF R
    <2> HIDE DEF b
    <2>2. /\ b.page_size = 1 => IsInjective(b.free_group)
          /\ b.is_not_in_free_group => b.free_group = <<>>
        BY <2>1 DEF IInv
    <2>3. /\ FreeOf(b) \cap (used \ R) = {} /\ FreeOf(b) \cap Range(b.free_group) = {}
          /\ (used \ R) \cap Range(b.free_group) = {}
          /\ FreeOf(b) \cup (used \ R) \cup Range(b.free_group) = Pages
        BY <1>0, <1>1, <1>3, <2>1
    <2>4. IInv' /\ FreeSet' = FreeOf(b) /\ Pending' = Range(b.free_group)
        BY <1>1, <2>1, <2>2, <2>3, IInvFrom, Zenon
    <2>5. FreeSet' = FreeSet \cup R /\ Pending' = Pending
        BY <1>0, <2>1, <2>4
    <2>6. Pool!Free
        BY <1>1, <2>5, Zenon DEF Pool!Free
    <2> QED BY <2>4, <2>6 DEF Pool!Next
<1>5. CASE ~alloc.is_not_in_free_group
    <2>1. CASE index = <<>>
        <3>1. alloc' = alloc /\ R = {}
            BY <1>1, <2>1, EmptyFacts DEF Free, R
        <3>2. used' = used
            BY <1>1, <3>1
        <3>3. IInv' /\ FreeSet' = FreeSet /\ Pending' = Pending
            BY <3>1, <3>2 DEF IInv, ListExact, FreeSet, Pending
        <3>4. Pool!Free
            BY <1>1, <3>1, <3>2, <3>3, Zenon DEF Pool!Free
        <3> QED BY <3>3, <3>4 DEF Pool!Next
    <2>2. CASE index # <<>>
        <3> DEFINE g == alloc.free_group \o index
        <3>1. alloc.free_group \in Seq(Pages)
            BY <1>0 DEF WellFormed, AllocatorType
        <3>2. g \in Seq(Pages) /\ Range(g) = Pending \cup R
            BY <3>1, <1>0, <1>2, ConcatRange DEF R
        <3>3. alloc.page_size = 1 => IsInjective(g)
            BY <3>1, <1>0, <1>1, <1>2, <1>3, ConcatRange DEF R, IInv
        <3>4. b = [alloc EXCEPT !.free_group = g]
            BY <1>5, <2>2 DEF Free
        <3> HIDE DEF g
        <3>5. /\ b \in AllocatorType /\ b.free_group = g /\ b.page_size = alloc.page_size
              /\ b.free_pages = alloc.free_pages /\ b.release_pages = alloc.release_pages
              /\ b.need_sort = alloc.need_sort
              /\ b.is_not_in_free_group = alloc.is_not_in_free_group
            BY <3>2, <3>4, <1>0, Zenon DEF WellFormed, AllocatorType
        <3> HIDE DEF b
        <3>6. WellFormed(b) /\ FreeOf(b) = FreeOf(alloc)
            BY <3>5, <1>0 DEF WellFormed, FreeOf
        <3>7. /\ FreeOf(b) \cap (used \ R) = {} /\ FreeOf(b) \cap Range(b.free_group) = {}
              /\ (used \ R) \cap Range(b.free_group) = {}
              /\ FreeOf(b) \cup (used \ R) \cup Range(b.free_group) = Pages
            BY <1>0, <1>1, <1>3, <3>2, <3>5, <3>6
        <3>8. /\ b.page_size = 1 => IsInjective(b.free_group)
              /\ b.is_not_in_free_group => b.free_group = <<>>
            BY <3>3, <3>5, <1>5
        <3>9. IInv' /\ FreeSet' = FreeOf(b) /\ Pending' = Range(b.free_group)
            BY <1>1, <3>6, <3>7, <3>8, IInvFrom, Zenon
        <3>10. FreeSet' = FreeSet /\ Pending' = Pending \cup R
            BY <1>0, <3>2, <3>5, <3>6, <3>9
        <3>11. Pool!Defer
            BY <1>1, <3>10, Zenon DEF Pool!Defer
        <3> QED BY <3>9, <3>11 DEF Pool!Next
    <2> QED BY <2>1, <2>2
<1> QED BY <1>4, <1>5

LEMMA GroupBeginStep ==
    ASSUME IInv, GroupBegin
    PROVE  IInv' /\ UNCHANGED Pool!vars
<1>0. /\ WellFormed(alloc) /\ FreeSet = FreeOf(alloc) /\ Pending = Range(alloc.free_group)
      /\ FreeOf(alloc) \cap used = {} /\ FreeOf(alloc) \cap Pending = {}
      /\ used \cap Pending = {} /\ FreeOf(alloc) \cup used \cup Pending = Pages
    BY IInvFacts
<1> DEFINE b == FreeGroupBegin(alloc)
<1>1. alloc' = b /\ used' = used /\ last' = last /\ alloc.free_group = <<>>
    BY DEF GroupBegin, IInv
<1>2. /\ b \in AllocatorType /\ b.free_group = <<>> /\ b.page_size = alloc.page_size
      /\ b.free_pages = alloc.free_pages /\ b.release_pages = alloc.release_pages
      /\ b.need_sort = alloc.need_sort
    BY <1>0, EmptyFacts, Zenon DEF FreeGroupBegin, WellFormed, AllocatorType
<1> HIDE DEF b
<1>3. WellFormed(b) /\ FreeOf(b) = FreeOf(alloc) /\ IsInjective(b.free_group)
    BY <1>0, <1>2, EmptyFacts DEF WellFormed, FreeOf
<1>4. IInv' /\ FreeSet' = FreeOf(b) /\ Pending' = Range(b.free_group)
    BY <1>0, <1>1, <1>2, <1>3, IInvFrom
<1> QED BY <1>0, <1>1, <1>2, <1>3, <1>4 DEF Pool!vars

LEMMA GroupEndStep ==
    ASSUME IInv, GroupEnd
    PROVE  IInv' /\ Pool!Next
<1>0. /\ WellFormed(alloc) /\ FreeSet = FreeOf(alloc) /\ Pending = Range(alloc.free_group)
      /\ FreeOf(alloc) \cap used = {} /\ FreeOf(alloc) \cap Pending = {}
      /\ used \cap Pending = {} /\ FreeOf(alloc) \cup used \cup Pending = Pages
    BY IInvFacts
<1> DEFINE b == FreeGroupEnd(alloc)
<1>1. alloc' = b /\ used' = used /\ last' = last
    BY DEF GroupEnd
<1>2. /\ WellFormed(b) /\ FreeOf(b) = FreeOf(alloc) \cup Pending
      /\ b.free_group = <<>> /\ b.is_not_in_free_group
    BY <1>0, GroupEndFacts DEF IInv
<1> HIDE DEF b
<1>3. Range(b.free_group) = {} /\ IsInjective(b.free_group)
    BY <1>2, EmptyFacts
<1>4. IInv' /\ FreeSet' = FreeOf(b) /\ Pending' = Range(b.free_group)
    <2>1. /\ FreeOf(b) \cap used = {} /\ FreeOf(b) \cap Range(b.free_group) = {}
          /\ used \cap Range(b.free_group) = {}
          /\ FreeOf(b) \cup used \cup Range(b.free_group) = Pages
        BY <1>0, <1>2, <1>3
    <2> QED BY <1>1, <1>2, <1>3, <2>1, IInvFrom
<1>5. Pool!EndGroup
    BY <1>0, <1>1, <1>2, <1>3, <1>4 DEF Pool!EndGroup
<1> QED BY <1>4, <1>5 DEF Pool!Next

LEMMA ClearStep ==
    ASSUME IInv, ClearAll
    PROVE  IInv' /\ Pool!Next
<1> DEFINE b == Clear(alloc)
<1>1. alloc' = b /\ used' = {} /\ last' = last /\ alloc \in AllocatorType
    BY DEF ClearAll, IInv, WellFormed
<1>2. /\ WellFormed(b) /\ FreeOf(b) = Pages
      /\ b.free_group = <<>> /\ b.is_not_in_free_group
    BY <1>1, ClearFacts
<1> HIDE DEF b
<1>3. Range(b.free_group) = {} /\ IsInjective(b.free_group)
    BY <1>2, EmptyFacts
<1>4. IInv' /\ FreeSet' = FreeOf(b) /\ Pending' = Range(b.free_group)
    BY <1>1, <1>2, <1>3, IInvFrom
<1>5. Pool!Clear
    BY <1>1, <1>2, <1>3, <1>4 DEF Pool!Clear
<1> QED BY <1>4, <1>5 DEF Pool!Next

(* Every step keeps the invariant and is a step of PagePool or a stutter. *)
LEMMA ListStep ==
    ASSUME IInv, [ListNext]_listVars
    PROVE  IInv' /\ [Pool!Next]_(Pool!vars)
<1>1. CASE UNCHANGED listVars
    BY <1>1 DEF listVars, IInv, ListExact, FreeSet, Pending, Pool!vars
<1>2. CASE \E n, estimate \in Nat : n <= estimate /\ Obtain(n, estimate)
    BY <1>2, ObtainStep
<1>3. CASE \E index \in Seq(used) : Release(index)
    BY <1>3, ReleaseStep
<1>4. CASE GroupBegin
    BY <1>4, GroupBeginStep
<1>5. CASE GroupEnd
    BY <1>5, GroupEndStep
<1>6. CASE ClearAll
    BY <1>6, ClearStep
<1> QED BY <1>1, <1>2, <1>3, <1>4, <1>5, <1>6 DEF ListNext

-----------------------------------------------------------------------------
(* Whatever allocations, frees, groups of frees and clears happen, each page *)
(* of the KV pool is in exactly one place: the lists of token.py and         *)
(* paged.py lose no page and hold none twice.                                *)
THEOREM ListStaysExact == ListSpec => []ListExact
<1>1. ListInit => IInv
    BY InitFacts
<1>2. IInv /\ [ListNext]_listVars => IInv'
    BY ListStep
<1>3. IInv => ListExact
    BY DEF IInv
<1> QED BY <1>1, <1>2, <1>3, PTL DEF ListSpec

(* The lazily merged free list implements the pool of pages: alloc,          *)
(* alloc_extend and alloc_decode return None only when fewer pages are free  *)
(* than they need, and hand out pages that nobody holds.                     *)
THEOREM ListImplementsPool == ListSpec => PoolSpec
<1>1. ListInit => IInv /\ Pool!Init
    BY InitFacts
<1>2. IInv /\ [ListNext]_listVars => IInv' /\ [Pool!Next]_(Pool!vars)
    BY ListStep
<1> QED BY <1>1, <1>2, PTL DEF ListSpec, PoolSpec, Pool!Spec
=============================================================================
