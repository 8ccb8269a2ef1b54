------------------------ MODULE PageAllocatorProofs ------------------------
(***************************************************************************)
(* Proofs about the page allocator with arbitrary callers: no page is lost  *)
(* or handed out twice, the list of freed extents stays sorted and joined,  *)
(* the count is right, and a free is taken exactly when its pages are with  *)
(* callers.                                                                 *)
(***************************************************************************)
EXTENDS PageAllocator, FiniteSetTheorems, TLAPS

-----------------------------------------------------------------------------
(* Lists of extents *)

\* The pages of a list of extents.
Cover(s) == {p \in Nat : \E i \in 1 .. Len(s) : s[i].start <= p /\ p < End(s[i])}

\* What the list is at every step: extents of at least one page, in order, no
\* two touching.
Sorted(s) ==
  /\ s \in Seq(Extents)
  /\ \A i \in 1 .. Len(s) : s[i].page_count > 0
  /\ \A i, j \in 1 .. Len(s) : i < j => End(s[i]) < s[j].start

Owned(regions) ==
  {p \in Nat : \E i \in 1 .. Len(regions) :
                 /\ regions[i].start <= p
                 /\ p < regions[i].start + regions[i].next_page}

\* The inductive invariant, of an allocator and the pages that are with callers:
\* those are exactly what the cursors have passed and no extent has back.
PI(a, pages) ==
  /\ a = [regions |-> a.regions, free_extents |-> a.free_extents,
          allocated_pages |-> a.allocated_pages]
  /\ a.regions \in Seq(Regions)
  /\ \A i \in 1 .. Len(a.regions) : a.regions[i].next_page <= a.regions[i].page_count
  /\ Disjoint(a.regions)
  /\ Sorted(a.free_extents)
  /\ pages \subseteq Nat
  /\ IsFiniteSet(pages)
  /\ a.allocated_pages = Cardinality(pages)
  /\ pages \cup Cover(a.free_extents) = Owned(a.regions)
  /\ pages \cap Cover(a.free_extents) = {}

PInv == PI(pa, live)

\* The first of a set of positions is one of them (Iterator::position).
LEMMA FirstIsLeast ==
  ASSUME NEW m \in Nat, NEW S \in SUBSET (1 .. m), S # {}
  PROVE  First(S) \in S /\ \A j \in S : First(S) <= j
<1>1. S \subseteq Nat
  OBVIOUS
<1>2. \E x \in S : \A y \in S : ~(<<y, x>> \in OpToRel(<, Nat))
  BY <1>1, NatLessThanWellFounded, WFMin, Zenon
<1>3. PICK x \in S : \A y \in S : ~(<<y, x>> \in OpToRel(<, Nat))
  BY <1>2, Zenon
<1>4. ASSUME NEW y \in S PROVE x <= y
  <2>1. <<y, x>> \in Nat \X Nat /\ ~(<<y, x>> \in OpToRel(<, Nat))
    BY <1>1, <1>3, Zenon
  <2>2. ~(y < x)
    BY <2>1 DEF OpToRel
  <2> QED
    BY <1>1, <2>2
<1> QED
  BY <1>4 DEF First

\* An extent of a sorted list is a pair of numbers, and its end their sum.
LEMMA ExtentOf ==
  ASSUME NEW s, Sorted(s), NEW i \in 1 .. Len(s)
  PROVE  /\ s[i] \in Extents
         /\ s[i].start \in Nat /\ s[i].page_count \in Nat /\ s[i].page_count > 0
         /\ End(s[i]) = s[i].start + s[i].page_count
         /\ End(s[i]) \in Nat
<1>1. s[i] \in Extents /\ s[i].page_count > 0
  BY DEF Sorted
<1>2. s[i].start \in Nat /\ s[i].page_count \in Nat
  BY <1>1 DEF Extents
<1>3. End(s[i]) = s[i].start + s[i].page_count
  BY DEF End
<1>4. End(s[i]) \in Nat
  BY <1>2, <1>3
<1> QED
  BY <1>1, <1>2, <1>3, <1>4

\* A page of one extent lies outside every other.
LEMMA PageOfOne ==
  ASSUME NEW s, Sorted(s), NEW i \in 1 .. Len(s), NEW k \in 1 .. Len(s), k # i,
         NEW p \in Nat, s[k].start <= p, p < End(s[k])
  PROVE  p < s[i].start \/ End(s[i]) <= p
<1>1. PICK a, b, c, d : a = s[i].start /\ b = End(s[i]) /\ c = s[k].start /\ d = End(s[k])
  OBVIOUS
<1>2. a \in Nat /\ b \in Nat /\ c \in Nat /\ d \in Nat
  BY <1>1, ExtentOf
<1>3. c <= p /\ p < d
  BY <1>1
<1>4. CASE k < i
  <2>1. d < a
    BY <1>1, <1>4 DEF Sorted
  <2>2. p < a
    BY <1>2, <1>3, <2>1
  <2> QED BY <1>1, <2>2
<1>5. CASE i < k
  <2>1. b < c
    BY <1>1, <1>5 DEF Sorted
  <2>2. b <= p
    BY <1>2, <1>3, <2>1
  <2> QED BY <1>1, <2>2
<1>6. k < i \/ i < k
  BY DEF Sorted
<1> QED
  BY <1>4, <1>5, <1>6

\* remove_free_extent takes exactly the pages of that extent out of the list.
LEMMA RemovedIsSorted ==
  ASSUME NEW s, Sorted(s), NEW i \in 1 .. Len(s)
  PROVE  /\ Sorted(Removed(s, i))
         /\ Cover(Removed(s, i)) = Cover(s) \ Span(s[i].start, s[i].page_count)
<1> DEFINE t == Removed(s, i)
<1>0. Len(s) \in Nat /\ s \in Seq(Extents)
  BY DEF Sorted
<1>1. /\ t \in Seq(Extents)
      /\ Len(t) = Len(s) - 1
      /\ \A k \in 1 .. Len(t) : t[k] = IF k < i THEN s[k] ELSE s[k + 1]
  BY <1>0 DEF Removed
<1> HIDE DEF t
<1>2. Sorted(t)
  <2>1. ASSUME NEW k \in 1 .. Len(t) PROVE t[k].page_count > 0
    <3>1. PICK k1 : k1 = IF k < i THEN k ELSE k + 1
      OBVIOUS
    <3>2. k1 \in 1 .. Len(s) /\ t[k] = s[k1]
      BY <1>0, <1>1, <3>1
    <3> QED BY <3>2 DEF Sorted
  <2>2. ASSUME NEW k \in 1 .. Len(t), NEW l \in 1 .. Len(t), k < l
        PROVE  End(t[k]) < t[l].start
    <3>1. PICK k1 : k1 = IF k < i THEN k ELSE k + 1
      OBVIOUS
    <3>2. PICK l1 : l1 = IF l < i THEN l ELSE l + 1
      OBVIOUS
    <3>3. k1 \in 1 .. Len(s) /\ l1 \in 1 .. Len(s) /\ k1 < l1
      BY <1>0, <1>1, <2>2, <3>1, <3>2
    <3>4. t[k] = s[k1] /\ t[l] = s[l1]
      BY <1>1, <3>1, <3>2
    <3> QED
      BY <3>3, <3>4 DEF Sorted
  <2> QED
    BY <1>1, <2>1, <2>2 DEF Sorted
<1>3. ASSUME NEW p \in Nat, p \in Cover(t)
      PROVE  p \in Cover(s) /\ p \notin Span(s[i].start, s[i].page_count)
  <2>1. PICK k \in 1 .. Len(t) : t[k].start <= p /\ p < End(t[k])
    BY <1>3 DEF Cover
  <2>2. PICK k1 \in 1 .. Len(s) : t[k] = s[k1] /\ k1 # i
    <3>1. PICK j : j = IF k < i THEN k ELSE k + 1
      OBVIOUS
    <3>2. j \in 1 .. Len(s) /\ j # i /\ t[k] = s[j]
      BY <1>0, <1>1, <3>1
    <3> QED BY <3>2
  <2>5. p \in Cover(s)
    BY <2>1, <2>2 DEF Cover
  <2>6. /\ s[i].start \in Nat /\ s[i].page_count \in Nat
        /\ End(s[i]) = s[i].start + s[i].page_count
    BY ExtentOf
  <2>8. s[k1].start <= p /\ p < End(s[k1])
    BY <2>1, <2>2
  <2>9. p < s[i].start \/ End(s[i]) <= p
    BY <2>2, <2>8, PageOfOne
  <2> QED
    BY <2>5, <2>6, <2>9 DEF Span
<1>4. ASSUME NEW p \in Nat, p \in Cover(s), p \notin Span(s[i].start, s[i].page_count)
      PROVE  p \in Cover(t)
  <2>1. PICK k \in 1 .. Len(s) : s[k].start <= p /\ p < End(s[k])
    BY <1>4 DEF Cover
  <2>2. k # i
    BY <1>4, <2>1, ExtentOf DEF Span
  <2>3. PICK k1 \in 1 .. Len(t) : t[k1] = s[k]
    <3>1. CASE k < i
      BY <3>1, <1>0, <1>1
    <3>2. CASE k > i
      <4>1. k - 1 \in 1 .. Len(t) /\ t[k - 1] = s[k]
        BY <3>2, <1>0, <1>1
      <4> QED BY <4>1
    <3> QED BY <2>2, <3>1, <3>2, <1>0
  <2> QED
    BY <2>1, <2>3 DEF Cover
<1> QED
  BY <1>2, <1>3, <1>4 DEF t, Cover

\* An extent that is replaced by one that stays clear of its neighbours.
LEMMA ReplacedIsSorted ==
  ASSUME NEW s, Sorted(s), NEW i \in 1 .. Len(s), NEW e \in Extents,
         e.page_count > 0,
         i > 1 => End(s[i - 1]) < e.start,
         i < Len(s) => End(e) < s[i + 1].start
  PROVE  /\ Sorted([s EXCEPT ![i] = e])
         /\ Cover([s EXCEPT ![i] = e])
              = (Cover(s) \ Span(s[i].start, s[i].page_count)) \cup Span(e.start, e.page_count)
<1> DEFINE t == [s EXCEPT ![i] = e]
<1>0. Len(s) \in Nat /\ s \in Seq(Extents) /\ e.start \in Nat /\ e.page_count \in Nat
      /\ End(e) = e.start + e.page_count
  BY DEF Sorted, Extents, End
<1>1. /\ t \in Seq(Extents)
      /\ Len(t) = Len(s)
      /\ t[i] = e
      /\ \A k \in 1 .. Len(t) : k # i => t[k] = s[k]
  BY <1>0
<1> HIDE DEF t
<1>2. ASSUME NEW k \in 1 .. Len(s), k < i PROVE End(s[k]) < e.start
  <2>1. i - 1 \in 1 .. Len(s) /\ End(s[i - 1]) < e.start
    BY <1>0, <1>2
  <2>2. CASE k = i - 1
    BY <2>1, <2>2
  <2>3. CASE k < i - 1
    <3>1. End(s[k]) < s[i - 1].start
      BY <2>1, <2>3 DEF Sorted
    <3>2. PICK j : j = i - 1
      OBVIOUS
    <3>3. /\ s[j].start \in Nat /\ s[j].page_count \in Nat
          /\ End(s[j]) = s[j].start + s[j].page_count
      BY <2>1, <3>2, ExtentOf
    <3>4. End(s[k]) \in Nat
      BY ExtentOf
    <3>5. s[j].start <= End(s[j])
      BY <3>3
    <3>6. End(s[k]) < s[j].start /\ End(s[j]) < e.start /\ End(s[j]) \in Nat
      BY <2>1, <3>1, <3>2, <3>3
    <3>7. PICK w, x, y, z : w = End(s[k]) /\ x = s[j].start /\ y = End(s[j]) /\ z = e.start
      OBVIOUS
    <3>8. w \in Nat /\ x \in Nat /\ y \in Nat /\ z \in Nat /\ w < x /\ x <= y /\ y < z
      BY <3>3, <3>4, <3>5, <3>6, <3>7, <1>0
    <3>9. w < z
      BY <3>8
    <3> QED
      BY <3>7, <3>9
  <2> QED BY <1>2, <2>2, <2>3, <1>0
<1>3. ASSUME NEW k \in 1 .. Len(s), i < k PROVE End(e) < s[k].start
  <2>1. i + 1 \in 1 .. Len(s) /\ End(e) < s[i + 1].start
    BY <1>0, <1>3
  <2>2. CASE k = i + 1
    BY <2>1, <2>2
  <2>3. CASE i + 1 < k
    <3>1. End(s[i + 1]) < s[k].start
      BY <2>1, <2>3 DEF Sorted
    <3>2. PICK j : j = i + 1
      OBVIOUS
    <3>3. /\ s[j].start \in Nat /\ s[j].page_count \in Nat
          /\ End(s[j]) = s[j].start + s[j].page_count
      BY <2>1, <3>2, ExtentOf
    <3>4. s[k].start \in Nat /\ End(e) \in Nat
      BY <1>0, ExtentOf
    <3>5. s[j].start <= End(s[j])
      BY <3>3
    <3>6. End(s[j]) < s[k].start /\ End(e) < s[j].start /\ End(s[j]) \in Nat
      BY <2>1, <3>1, <3>2, <3>3
    <3> QED
      BY <3>3, <3>4, <3>5, <3>6
  <2> QED BY <1>3, <2>2, <2>3, <1>0
<1>4. Sorted(t)
  <2>1. ASSUME NEW k \in 1 .. Len(t) PROVE t[k].page_count > 0
    BY <1>0, <1>1 DEF Sorted
  <2>2. ASSUME NEW k \in 1 .. Len(t), NEW l \in 1 .. Len(t), k < l
        PROVE  End(t[k]) < t[l].start
    <3>1. CASE k = i
      BY <3>1, <1>1, <1>3, <2>2, <1>0
    <3>2. CASE l = i
      BY <3>2, <1>1, <1>2, <2>2, <1>0
    <3>3. CASE k # i /\ l # i
      BY <3>3, <1>1, <2>2 DEF Sorted
    <3> QED BY <3>1, <3>2, <3>3
  <2> QED
    BY <1>1, <2>1, <2>2 DEF Sorted
<1>5. ASSUME NEW p \in Nat, p \in Cover(t)
      PROVE  \/ p \in Cover(s) /\ p \notin Span(s[i].start, s[i].page_count)
             \/ p \in Span(e.start, e.page_count)
  <2>1. PICK k \in 1 .. Len(t) : t[k].start <= p /\ p < End(t[k])
    BY <1>5 DEF Cover
  <2>2. CASE k = i
    BY <2>1, <2>2, <1>0, <1>1 DEF Span
  <2>3. CASE k # i
    <3>1. k \in 1 .. Len(s) /\ t[k] = s[k]
      BY <2>3, <1>1
    <3>2. p \in Cover(s)
      BY <2>1, <3>1 DEF Cover
    <3>5. /\ s[i].start \in Nat /\ s[i].page_count \in Nat
          /\ End(s[i]) = s[i].start + s[i].page_count
      BY ExtentOf
    <3>7. s[k].start <= p /\ p < End(s[k])
      BY <2>1, <3>1
    <3>8. p < s[i].start \/ End(s[i]) <= p
      BY <2>3, <3>1, <3>7, PageOfOne
    <3> QED
      BY <3>2, <3>5, <3>8 DEF Span
  <2> QED BY <2>2, <2>3
<1>6. ASSUME NEW p \in Nat, p \in Cover(s), p \notin Span(s[i].start, s[i].page_count)
      PROVE  p \in Cover(t)
  <2>1. PICK k \in 1 .. Len(s) : s[k].start <= p /\ p < End(s[k])
    BY <1>6 DEF Cover
  <2>2. k # i
    BY <1>6, <2>1, ExtentOf DEF Span
  <2> QED
    BY <2>1, <2>2, <1>1 DEF Cover
<1>7. ASSUME NEW p \in Span(e.start, e.page_count) PROVE p \in Cover(t)
  <2>1. p \in Nat /\ e.start <= p /\ p < End(e)
    BY <1>0, <1>7 DEF Span
  <2> QED
    BY <2>1, <1>0, <1>1 DEF Cover
<1>8. Cover(t) \subseteq Nat /\ Cover(s) \subseteq Nat
  BY DEF Cover
<1>9. Cover(t) = (Cover(s) \ Span(s[i].start, s[i].page_count)) \cup Span(e.start, e.page_count)
  BY <1>5, <1>6, <1>7, <1>8
<1> QED
  BY <1>4, <1>9 DEF t

\* A new extent between two others that it does not touch.
LEMMA InsertedIsSorted ==
  ASSUME NEW s, Sorted(s), NEW i \in 1 .. Len(s) + 1, NEW e \in Extents,
         e.page_count > 0,
         \A k \in 1 .. Len(s) : k < i => End(s[k]) < e.start,
         \A k \in 1 .. Len(s) : i <= k => End(e) < s[k].start
  PROVE  /\ Sorted(Inserted(s, i, e))
         /\ Cover(Inserted(s, i, e)) = Cover(s) \cup Span(e.start, e.page_count)
<1> DEFINE t == Inserted(s, i, e)
<1>0. Len(s) \in Nat /\ s \in Seq(Extents)
  BY DEF Sorted
<1>a. /\ e.start \in Nat /\ e.page_count \in Nat
      /\ End(e) = e.start + e.page_count
  BY DEF Extents, End
<1>1. /\ t \in Seq(Extents)
      /\ Len(t) = Len(s) + 1
      /\ \A k \in 1 .. Len(t) : t[k] = IF k < i THEN s[k] ELSE IF k = i THEN e ELSE s[k - 1]
  <2>1. \A k \in 1 .. Len(s) + 1 :
           (IF k < i THEN s[k] ELSE IF k = i THEN e ELSE s[k - 1]) \in Extents
    <3>1. TAKE k \in 1 .. Len(s) + 1
    <3>2. CASE k < i
      BY <1>0, <3>2
    <3>3. CASE k = i
      BY <3>3
    <3>4. CASE k > i
      <4>1. k - 1 \in 1 .. Len(s)
        BY <1>0, <3>4
      <4> QED BY <1>0, <3>4, <4>1
    <3> QED BY <3>2, <3>3, <3>4, <1>0
  <2> QED
    BY <1>0, <2>1 DEF Inserted
<1> HIDE DEF t
<1>2. Sorted(t)
  <2>1. ASSUME NEW k \in 1 .. Len(t) PROVE t[k].page_count > 0
    <3>1. CASE k < i
      BY <3>1, <1>0, <1>1 DEF Sorted
    <3>2. CASE k = i
      BY <3>2, <1>1
    <3>3. CASE k > i
      <4>1. k - 1 \in 1 .. Len(s) /\ t[k] = s[k - 1]
        BY <1>0, <1>1, <3>3
      <4> QED BY <4>1 DEF Sorted
    <3> QED BY <3>1, <3>2, <3>3, <1>0, <1>1
  <2>2. ASSUME NEW k \in 1 .. Len(t), NEW l \in 1 .. Len(t), k < l
        PROVE  End(t[k]) < t[l].start
    <3>1. PICK k1 : k1 = IF k < i THEN k ELSE k - 1
      OBVIOUS
    <3>2. PICK l1 : l1 = IF l < i THEN l ELSE l - 1
      OBVIOUS
    <3>3. CASE k = i
      <4>1. l1 \in 1 .. Len(s) /\ i <= l1 /\ t[k] = e /\ t[l] = s[l1]
        BY <1>0, <1>1, <2>2, <3>2, <3>3
      <4> QED BY <4>1
    <3>4. CASE l = i
      <4>1. k1 \in 1 .. Len(s) /\ k1 < i /\ t[k] = s[k1] /\ t[l] = e
        BY <1>0, <1>1, <2>2, <3>1, <3>4
      <4> QED BY <4>1
    <3>5. CASE k # i /\ l # i
      <4>1. k1 \in 1 .. Len(s) /\ l1 \in 1 .. Len(s) /\ k1 < l1
        BY <1>0, <1>1, <2>2, <3>1, <3>2, <3>5
      <4>2. t[k] = s[k1] /\ t[l] = s[l1]
        BY <1>0, <1>1, <3>1, <3>2, <3>5
      <4> QED BY <4>1, <4>2 DEF Sorted
    <3> QED BY <3>3, <3>4, <3>5
  <2> QED
    BY <1>1, <2>1, <2>2 DEF Sorted
<1>3. ASSUME NEW p \in Cover(t) PROVE p \in Cover(s) \/ p \in Span(e.start, e.page_count)
  <2>1. p \in Nat /\ \E k \in 1 .. Len(t) : t[k].start <= p /\ p < End(t[k])
    BY <1>3 DEF Cover
  <2>2. PICK k \in 1 .. Len(t) : t[k].start <= p /\ p < End(t[k])
    BY <2>1
  <2>3. CASE k = i
    <3>1. e.start <= p /\ p < e.start + e.page_count
      BY <2>2, <2>3, <1>1, <1>a
    <3> QED BY <3>1, <2>1, <1>a DEF Span
  <2>4. CASE k # i
    <3>1. PICK k1 : k1 = IF k < i THEN k ELSE k - 1
      OBVIOUS
    <3>2. k1 \in 1 .. Len(s) /\ t[k] = s[k1]
      BY <1>0, <1>1, <2>4, <3>1
    <3> QED BY <2>1, <2>2, <3>2 DEF Cover
  <2> QED BY <2>3, <2>4
<1>4. ASSUME NEW p \in Cover(s) PROVE p \in Cover(t)
  <2>1. p \in Nat /\ \E k \in 1 .. Len(s) : s[k].start <= p /\ p < End(s[k])
    BY <1>4 DEF Cover
  <2>2. PICK k \in 1 .. Len(s) : s[k].start <= p /\ p < End(s[k])
    BY <2>1
  <2>3. PICK k1 : k1 = IF k < i THEN k ELSE k + 1
    OBVIOUS
  <2>4. k1 \in 1 .. Len(t) /\ t[k1] = s[k]
    BY <1>0, <1>1, <2>3
  <2> QED BY <2>1, <2>2, <2>4 DEF Cover
<1>5. ASSUME NEW p \in Span(e.start, e.page_count) PROVE p \in Cover(t)
  <2>1. p \in Nat /\ e.start <= p /\ p < End(e)
    BY <1>a, <1>5 DEF Span
  <2>2. i \in 1 .. Len(t) /\ t[i] = e
    BY <1>0, <1>1
  <2> QED
    BY <2>1, <2>2 DEF Cover
<1>6. Cover(t) = Cover(s) \cup Span(e.start, e.page_count)
  BY <1>3, <1>4, <1>5
<1> QED
  BY <1>2, <1>6 DEF t

\* The place deallocate_contiguous_pages finds for a range that overlaps no
\* extent: everything before ends at or below it, everything after begins at or
\* above its end.
LEMMA InsertionPlace ==
  ASSUME NEW a, Sorted(a.free_extents), NEW start \in Nat, NEW n \in Nat, n > 0,
         ~overlaps_free(a, start, n)
  PROVE  LET s == a.free_extents
             k == Insertion(a, start)
         IN  /\ k \in 1 .. Len(s) + 1
             /\ \A i \in 1 .. Len(s) : i < k => End(s[i]) <= start
             /\ \A i \in 1 .. Len(s) : k <= i => start + n <= s[i].start
<1> DEFINE s == a.free_extents
           k == Insertion(a, start)
           after == {i \in 1 .. Len(s) : s[i].start > start}
<1>0. Len(s) \in Nat
  BY DEF Sorted
<1>1. /\ k \in 1 .. Len(s) + 1
      /\ \A i \in 1 .. Len(s) : i < k => i \notin after
      /\ k <= Len(s) => k \in after
  <2>1. CASE after = {}
    BY <2>1, <1>0 DEF Insertion
  <2>2. CASE after # {}
    <3>1. k = First(after)
      BY <2>2 DEF Insertion
    <3>2. after \in SUBSET (1 .. Len(s))
      OBVIOUS
    <3> HIDE DEF after, k
    <3>3. First(after) \in after /\ \A j \in after : First(after) <= j
      BY <1>0, <2>2, <3>2, FirstIsLeast
    <3>4. k \in after /\ \A j \in after : k <= j
      BY <3>1, <3>3
    <3>5. k \in 1 .. Len(s)
      BY <3>2, <3>4
    <3>6. ASSUME NEW i \in 1 .. Len(s), i < k PROVE i \notin after
      <4>1. i \in after => k <= i
        BY <3>4
      <4> QED BY <4>1, <3>5, <3>6
    <3> QED
      BY <3>4, <3>5, <3>6, <1>0
  <2> QED BY <2>1, <2>2
<1> HIDE DEF k
<1>2. ASSUME NEW i \in 1 .. Len(s)
      PROVE  start < End(s[i]) => start + n <= s[i].start
  <2>1. ~(start < End(s[i]) /\ s[i].start < start + n)
    BY DEF overlaps_free
  <2>2. s[i].start \in Nat
    BY ExtentOf
  <2> QED BY <2>1, <2>2
<1>3. ASSUME NEW i \in 1 .. Len(s), i < k PROVE End(s[i]) <= start
  <2>1. ~(s[i].start > start)
    BY <1>1, <1>3
  <2>2. s[i].start \in Nat /\ End(s[i]) \in Nat
    BY ExtentOf
  <2> QED BY <2>1, <2>2, <1>2
<1>4. ASSUME NEW i \in 1 .. Len(s), k <= i PROVE start + n <= s[i].start
  <2>1. k \in 1 .. Len(s) /\ s[k].start > start
    BY <1>0, <1>1, <1>4
  <2>2. /\ s[k].start \in Nat /\ s[k].page_count \in Nat /\ s[k].page_count > 0
        /\ End(s[k]) = s[k].start + s[k].page_count
        /\ s[i].start \in Nat /\ s[i].page_count \in Nat /\ s[i].page_count > 0
        /\ End(s[i]) = s[i].start + s[i].page_count
    BY <2>1, ExtentOf
  <2>3. k < i => End(s[k]) < s[i].start
    BY <2>1 DEF Sorted
  <2>4. start < End(s[i])
    <3>1. CASE k = i
      BY <3>1, <2>1, <2>2
    <3>2. CASE k < i
      <4>1. PICK b, c, d, e : /\ b = s[k].start /\ c = s[k].page_count
                              /\ d = s[i].start /\ e = s[i].page_count
        OBVIOUS
      <4>2. b \in Nat /\ c \in Nat /\ d \in Nat /\ e \in Nat /\ End(s[i]) = d + e
        BY <4>1, <2>2
      <4>3. start < b /\ b + c < d
        BY <3>2, <4>1, <2>1, <2>2, <2>3
      <4>4. start < d + e
        BY <4>2, <4>3
      <4> QED BY <4>2, <4>4
    <3> QED BY <3>1, <3>2, <1>4, <2>1, <1>0
  <2> QED BY <2>4, <1>2
<1> QED
  BY <1>1, <1>3, <1>4 DEF k

\* An extent's pages are pages of the list.
LEMMA ExtentInCover ==
  ASSUME NEW s, Sorted(s), NEW i \in 1 .. Len(s)
  PROVE  Span(s[i].start, s[i].page_count) \subseteq Cover(s)
<1> SUFFICES ASSUME NEW p \in Span(s[i].start, s[i].page_count) PROVE p \in Cover(s)
  OBVIOUS
<1>1. /\ s[i].start \in Nat /\ s[i].page_count \in Nat
      /\ End(s[i]) = s[i].start + s[i].page_count
  BY ExtentOf
<1>2. p \in Nat /\ s[i].start <= p /\ p < End(s[i])
  BY <1>1 DEF Span
<1> QED
  BY <1>2 DEF Cover

\* Two spans that meet are one span.
LEMMA SpansJoin ==
  ASSUME NEW a \in Nat, NEW n \in Nat, NEW b, NEW m \in Nat, NEW l,
         b = a + n, l = n + m
  PROVE  Span(a, l) = Span(a, n) \cup Span(b, m)
  BY DEF Span

\* An extent that grows by the pages from its end on.
LEMMA JoinedExtent ==
  ASSUME NEW e \in Extents, NEW n \in Nat
  PROVE  /\ Joined(e, n) \in Extents
         /\ Joined(e, n).start = e.start
         /\ Joined(e, n).page_count = e.page_count + n
         /\ End(Joined(e, n)) = End(e) + n
  BY DEF Joined, Extents, End

\* A list in which no two extents touch is left as it is by the coalescing.
LEMMA SortedIsSeparated ==
  ASSUME NEW s, Sorted(s)
  PROVE  coalesce_free_extents(s) = s
<1>1. ASSUME NEW i \in 1 .. Len(s) - 1 PROVE End(s[i]) # s[i + 1].start
  <2>1. i \in 1 .. Len(s) /\ i + 1 \in 1 .. Len(s) /\ i < i + 1
    BY DEF Sorted
  <2>2. End(s[i]) < s[i + 1].start
    BY <2>1 DEF Sorted
  <2>3. s[i + 1].start \in Nat /\ s[i].start \in Nat /\ s[i].page_count \in Nat
        /\ End(s[i]) = s[i].start + s[i].page_count
    BY <2>1, ExtentOf
  <2> QED BY <2>2, <2>3
<1>2. Separated(s)
  BY <1>1 DEF Separated
<1> QED
  BY <1>2 DEF coalesce_free_extents

\* Removing an extent and changing the one before it, in either order.
LEMMA ReplacedThenRemoved ==
  ASSUME NEW s \in Seq(Extents), NEW k \in 2 .. Len(s), NEW e
  PROVE  Removed([s EXCEPT ![k - 1] = e], k) = [Removed(s, k) EXCEPT ![k - 1] = e]
<1> DEFINE r == [s EXCEPT ![k - 1] = e]
<1>1. Len(s) \in Nat /\ k - 1 \in 1 .. Len(s) - 1 /\ k - 1 \in 1 .. Len(s) /\ k - 1 < k
  OBVIOUS
<1>2. DOMAIN r = 1 .. Len(s) /\ Len(r) = Len(s)
  BY <1>1
<1>3. \A j \in 1 .. Len(s) : r[j] = IF j = k - 1 THEN e ELSE s[j]
  BY <1>1
<1> HIDE DEF r
<1>4. ASSUME NEW j \in 1 .. Len(s) - 1
      PROVE  (IF j < k THEN r[j] ELSE r[j + 1])
               = (IF j = k - 1 THEN e ELSE IF j < k THEN s[j] ELSE s[j + 1])
  <2>1. j \in 1 .. Len(s) /\ j + 1 \in 1 .. Len(s) /\ (~(j < k) => j + 1 # k - 1)
    BY <1>1
  <2> QED BY <2>1, <1>1, <1>3
<1>5. Removed(r, k) = [j \in 1 .. Len(s) - 1 |-> IF j < k THEN r[j] ELSE r[j + 1]]
  BY <1>2 DEF Removed
<1>6. [Removed(s, k) EXCEPT ![k - 1] = e]
        = [j \in 1 .. Len(s) - 1 |->
             IF j = k - 1 THEN e ELSE IF j < k THEN s[j] ELSE s[j + 1]]
  BY <1>1 DEF Removed
<1> QED
  BY <1>4, <1>5, <1>6 DEF r

\* Putting a range back adds exactly its pages to the list and keeps it sorted
\* and joined, in each of the four ways deallocate_contiguous_pages does it.
LEMMA WithExtentIsSorted ==
  ASSUME NEW a, Sorted(a.free_extents), NEW start \in Nat, NEW n \in Nat, n > 0,
         ~overlaps_free(a, start, n)
  PROVE  /\ Sorted(with_extent(a, start, n))
         /\ Cover(with_extent(a, start, n)) = Cover(a.free_extents) \cup Span(start, n)
<1> DEFINE s == a.free_extents
           meets_previous == Insertion(a, start) > 1 /\ End(s[Insertion(a, start) - 1]) = start
           meets_next == Insertion(a, start) <= Len(s)
                           /\ start + n = s[Insertion(a, start)].start
<1>0. Len(s) \in Nat /\ s \in Seq(Extents)
  BY DEF Sorted
<1>k. PICK k : k = Insertion(a, start)
  OBVIOUS
<1>1. /\ k \in 1 .. Len(s) + 1
      /\ \A i \in 1 .. Len(s) : i < k => End(s[i]) <= start
      /\ \A i \in 1 .. Len(s) : k <= i => start + n <= s[i].start
  BY <1>k, InsertionPlace
<1>2. k > 1 => /\ k - 1 \in 1 .. Len(s)
               /\ s[k - 1] \in Extents
               /\ s[k - 1].start \in Nat /\ s[k - 1].page_count \in Nat
               /\ s[k - 1].page_count > 0
               /\ End(s[k - 1]) = s[k - 1].start + s[k - 1].page_count
               /\ End(s[k - 1]) <= start
  <2> SUFFICES ASSUME k > 1 PROVE /\ k - 1 \in 1 .. Len(s)
               /\ s[k - 1] \in Extents
               /\ s[k - 1].start \in Nat /\ s[k - 1].page_count \in Nat
               /\ s[k - 1].page_count > 0
               /\ End(s[k - 1]) = s[k - 1].start + s[k - 1].page_count
               /\ End(s[k - 1]) <= start
    OBVIOUS
  <2>1. k - 1 \in 1 .. Len(s) /\ k - 1 < k
    BY <1>0, <1>1
  <2> QED
    BY <2>1, <1>1, ExtentOf
<1>3. k <= Len(s) => /\ k \in 1 .. Len(s)
                     /\ s[k] \in Extents
                     /\ s[k].start \in Nat /\ s[k].page_count \in Nat
                     /\ s[k].page_count > 0
                     /\ End(s[k]) = s[k].start + s[k].page_count
                     /\ start + n <= s[k].start
  <2> SUFFICES ASSUME k <= Len(s) PROVE /\ k \in 1 .. Len(s)
                     /\ s[k] \in Extents
                     /\ s[k].start \in Nat /\ s[k].page_count \in Nat
                     /\ s[k].page_count > 0
                     /\ End(s[k]) = s[k].start + s[k].page_count
                     /\ start + n <= s[k].start
    OBVIOUS
  <2>1. k \in 1 .. Len(s) /\ k <= k
    BY <1>0, <1>1
  <2> QED
    BY <2>1, <1>1, ExtentOf
<1> HIDE DEF s
<1>4. CASE meets_previous /\ meets_next
  <2>m. PICK m : m = n + s[k].page_count
    OBVIOUS
  <2> DEFINE e == Joined(s[k - 1], m)
             t == Removed(s, k)
  <2>0. k > 1 /\ k <= Len(s) /\ End(s[k - 1]) = start /\ start + n = s[k].start
    BY <1>4, <1>k
  <2>1. with_extent(a, start, n) = Removed([s EXCEPT ![k - 1] = e], k)
    BY <1>4, <1>k, <2>m DEF with_extent, s
  <2>2. /\ Sorted(t)
        /\ Cover(t) = Cover(s) \ Span(s[k].start, s[k].page_count)
    BY <1>3, <2>0, RemovedIsSorted DEF s
  <2>3. /\ Len(t) = Len(s) - 1
        /\ t[k - 1] = s[k - 1]
        /\ k > 2 => t[k - 2] = s[k - 2]
        /\ k - 1 < Len(t) => t[k] = s[k + 1]
    BY <1>0, <1>1, <2>0 DEF Removed, s
  <2>5. /\ m \in Nat
        /\ e \in Extents
        /\ e.start = s[k - 1].start
        /\ e.page_count = s[k - 1].page_count + m
        /\ End(e) = End(s[k - 1]) + m
    <3>1. s[k - 1] \in Extents /\ m \in Nat
      BY <1>2, <1>3, <2>0, <2>m
    <3> QED BY <3>1, JoinedExtent
  <2> HIDE DEF e
  <2> HIDE DEF t
  <2>4. Removed([s EXCEPT ![k - 1] = e], k) = [t EXCEPT ![k - 1] = e]
    <3>1. k \in 2 .. Len(s) /\ s \in Seq(Extents)
      BY <1>0, <1>1, <2>0
    <3>2. Removed([s EXCEPT ![k - 1] = e], k) = [Removed(s, k) EXCEPT ![k - 1] = e]
      BY <3>1, ReplacedThenRemoved
    <3> QED BY <3>2 DEF t
  <2>6. k - 1 > 1 => End(t[(k - 1) - 1]) < e.start
    <3>1. ASSUME k > 2 PROVE End(s[k - 2]) < s[k - 1].start
      <4>1. k - 2 \in 1 .. Len(s) /\ k - 1 \in 1 .. Len(s) /\ k - 2 < k - 1
        BY <1>0, <1>1, <3>1
      <4> QED BY <4>1 DEF Sorted, s
    <3>2. (k - 1) - 1 = k - 2 /\ (k - 1 > 1 <=> k > 2)
      BY <1>1
    <3> QED BY <3>1, <3>2, <2>3, <2>5
  <2>7. k - 1 < Len(t) => End(e) < t[(k - 1) + 1].start
    <3>1. ASSUME k < Len(s) PROVE End(s[k]) < s[k + 1].start
      <4>1. k \in 1 .. Len(s) /\ k + 1 \in 1 .. Len(s) /\ k < k + 1
        BY <1>0, <1>1, <3>1
      <4> QED BY <4>1 DEF Sorted, s
    <3>2. (k - 1) + 1 = k /\ (k - 1 < Len(t) <=> k < Len(s))
      BY <1>0, <1>1, <2>3
    <3>3. End(e) = End(s[k])
      BY <2>0, <2>5, <2>m, <1>2, <1>3
    <3> QED BY <3>1, <3>2, <3>3, <2>3
  <2>8. e.page_count > 0 /\ k - 1 \in 1 .. Len(t)
    BY <1>0, <1>1, <1>2, <1>3, <2>0, <2>3, <2>5
  <2>9. /\ Sorted([t EXCEPT ![k - 1] = e])
        /\ Cover([t EXCEPT ![k - 1] = e])
             = (Cover(t) \ Span(t[k - 1].start, t[k - 1].page_count))
                 \cup Span(e.start, e.page_count)
    <3>i. PICK i : i = k - 1
      OBVIOUS
    <3>1. /\ e \in Extents /\ e.page_count > 0 /\ Sorted(t) /\ i \in 1 .. Len(t)
          /\ i > 1 => End(t[i - 1]) < e.start
          /\ i < Len(t) => End(e) < t[i + 1].start
      BY <3>i, <2>2, <2>5, <2>6, <2>7, <2>8
    <3>2. /\ Sorted([t EXCEPT ![i] = e])
          /\ Cover([t EXCEPT ![i] = e])
               = (Cover(t) \ Span(t[i].start, t[i].page_count)) \cup Span(e.start, e.page_count)
      BY <3>1, ReplacedIsSorted
    <3> QED BY <3>i, <3>2
  <2>10. Span(e.start, e.page_count)
           = Span(s[k - 1].start, s[k - 1].page_count) \cup Span(start, n)
               \cup Span(s[k].start, s[k].page_count)
    <3>1. /\ s[k - 1].start \in Nat /\ s[k - 1].page_count \in Nat
          /\ start = s[k - 1].start + s[k - 1].page_count
          /\ s[k].page_count \in Nat /\ s[k].start = start + n
      BY <2>0, <1>2, <1>3
    <3>2. Span(e.start, e.page_count)
            = Span(s[k - 1].start, s[k - 1].page_count) \cup Span(start, m)
      <4>1. PICK b, c : b = s[k - 1].start /\ c = s[k - 1].page_count
        OBVIOUS
      <4>2. Span(b, c + m) = Span(b, c) \cup Span(start, m)
        BY <4>1, <3>1, <2>5 DEF Span
      <4> QED BY <4>1, <4>2, <2>5
    <3>3. Span(start, m) = Span(start, n) \cup Span(s[k].start, s[k].page_count)
      <4>1. PICK b, c : b = s[k].start /\ c = s[k].page_count
        OBVIOUS
      <4>2. b = start + n /\ c \in Nat /\ m = n + c
        BY <4>1, <3>1, <2>m
      <4>3. Span(start, m) = Span(start, n) \cup Span(b, c)
        BY <4>2, SpansJoin
      <4> QED BY <4>1, <4>3
    <3> QED BY <3>2, <3>3
  <2>11. /\ Span(s[k - 1].start, s[k - 1].page_count) \subseteq Cover(s)
         /\ Span(s[k].start, s[k].page_count) \subseteq Cover(s)
    BY <1>2, <1>3, <2>0, ExtentInCover DEF s
  <2> QED
    BY <2>1, <2>2, <2>3, <2>4, <2>9, <2>10, <2>11 DEF s
<1>5. CASE meets_previous /\ ~meets_next
  <2> DEFINE e == Joined(s[k - 1], n)
  <2>0. /\ k > 1 /\ End(s[k - 1]) = start
        /\ ~(k <= Len(s) /\ start + n = s[k].start)
    BY <1>5, <1>k
  <2>1. with_extent(a, start, n) = [s EXCEPT ![k - 1] = e]
    BY <1>5, <1>k DEF with_extent, s
  <2>2. /\ e \in Extents
        /\ e.start = s[k - 1].start
        /\ e.page_count = s[k - 1].page_count + n
        /\ End(e) = End(s[k - 1]) + n
    BY <1>2, <2>0, JoinedExtent
  <2> HIDE DEF e
  <2>3. k - 1 > 1 => End(s[(k - 1) - 1]) < e.start
    <3>1. ASSUME k > 2 PROVE End(s[k - 2]) < s[k - 1].start
      <4>1. k - 2 \in 1 .. Len(s) /\ k - 1 \in 1 .. Len(s) /\ k - 2 < k - 1
        BY <1>0, <1>1, <3>1
      <4> QED BY <4>1 DEF Sorted, s
    <3>2. (k - 1) - 1 = k - 2 /\ (k - 1 > 1 <=> k > 2)
      BY <1>1
    <3> QED BY <3>1, <3>2, <2>2
  <2>4. k - 1 < Len(s) => End(e) < s[(k - 1) + 1].start
    <3>1. (k - 1) + 1 = k /\ (k - 1 < Len(s) <=> k <= Len(s))
      BY <1>0, <1>1
    <3>2. ASSUME k <= Len(s) PROVE End(e) < s[k].start
      <4>1. start + n <= s[k].start /\ start + n # s[k].start /\ s[k].start \in Nat
        BY <3>2, <1>3, <2>0
      <4>2. End(e) = start + n
        BY <2>0, <2>2
      <4> QED BY <4>1, <4>2
    <3> QED BY <3>1, <3>2
  <2>5. e.page_count > 0 /\ k - 1 \in 1 .. Len(s)
    BY <1>2, <2>0, <2>2
  <2>6. /\ Sorted([s EXCEPT ![k - 1] = e])
        /\ Cover([s EXCEPT ![k - 1] = e])
             = (Cover(s) \ Span(s[k - 1].start, s[k - 1].page_count))
                 \cup Span(e.start, e.page_count)
    <3>i. PICK i : i = k - 1
      OBVIOUS
    <3>1. /\ e \in Extents /\ e.page_count > 0 /\ Sorted(s) /\ i \in 1 .. Len(s)
          /\ i > 1 => End(s[i - 1]) < e.start
          /\ i < Len(s) => End(e) < s[i + 1].start
      BY <3>i, <2>2, <2>3, <2>4, <2>5 DEF s
    <3>2. /\ Sorted([s EXCEPT ![i] = e])
          /\ Cover([s EXCEPT ![i] = e])
               = (Cover(s) \ Span(s[i].start, s[i].page_count)) \cup Span(e.start, e.page_count)
      BY <3>1, ReplacedIsSorted
    <3> QED BY <3>i, <3>2
  <2>7. Span(e.start, e.page_count)
          = Span(s[k - 1].start, s[k - 1].page_count) \cup Span(start, n)
    <3>1. /\ s[k - 1].start \in Nat /\ s[k - 1].page_count \in Nat
          /\ start = s[k - 1].start + s[k - 1].page_count
      BY <2>0, <1>2
    <3>2. PICK b, c, l : b = s[k - 1].start /\ c = s[k - 1].page_count /\ l = e.page_count
      OBVIOUS
    <3>3. b \in Nat /\ c \in Nat /\ start = b + c /\ l = c + n
      BY <3>1, <3>2, <2>2
    <3>4. Span(b, l) = Span(b, c) \cup Span(start, n)
      BY <3>3, SpansJoin
    <3> QED BY <3>2, <3>4, <2>2
  <2>8. Span(s[k - 1].start, s[k - 1].page_count) \subseteq Cover(s)
    BY <1>2, <2>0, ExtentInCover DEF s
  <2> QED
    BY <2>1, <2>6, <2>7, <2>8 DEF s
<1>6. CASE ~meets_previous /\ meets_next
  <2> DEFINE e == [start |-> start, page_count |-> s[k].page_count + n]
  <2>0. /\ k <= Len(s) /\ start + n = s[k].start
        /\ ~(k > 1 /\ End(s[k - 1]) = start)
    BY <1>6, <1>k
  <2>1. with_extent(a, start, n) = [s EXCEPT ![k] = e]
    BY <1>6, <1>k DEF with_extent, s
  <2>2. /\ e \in Extents
        /\ e.start = start
        /\ e.page_count = n + s[k].page_count
        /\ End(e) = End(s[k])
    BY <1>3, <2>0 DEF Extents, End
  <2> HIDE DEF e
  <2>3. k > 1 => End(s[k - 1]) < e.start
    BY <1>2, <2>0, <2>2
  <2>4. k < Len(s) => End(e) < s[k + 1].start
    <3>1. ASSUME k < Len(s) PROVE End(s[k]) < s[k + 1].start
      <4>1. k \in 1 .. Len(s) /\ k + 1 \in 1 .. Len(s) /\ k < k + 1
        BY <1>0, <1>1, <3>1
      <4> QED BY <4>1 DEF Sorted, s
    <3> QED BY <3>1, <2>2
  <2>5. e.page_count > 0 /\ k \in 1 .. Len(s)
    BY <1>3, <2>0, <2>2
  <2>6. /\ Sorted([s EXCEPT ![k] = e])
        /\ Cover([s EXCEPT ![k] = e])
             = (Cover(s) \ Span(s[k].start, s[k].page_count)) \cup Span(e.start, e.page_count)
    BY <2>2, <2>3, <2>4, <2>5, ReplacedIsSorted DEF s
  <2>7. Span(e.start, e.page_count) = Span(start, n) \cup Span(s[k].start, s[k].page_count)
    <3>1. s[k].page_count \in Nat /\ s[k].start = start + n
      BY <2>0, <1>3
    <3> QED BY <3>1, <2>2, SpansJoin
  <2>8. Span(s[k].start, s[k].page_count) \subseteq Cover(s)
    BY <1>3, <2>0, ExtentInCover DEF s
  <2> QED
    BY <2>1, <2>6, <2>7, <2>8 DEF s
<1>7. CASE ~meets_previous /\ ~meets_next
  <2> DEFINE e == [start |-> start, page_count |-> n]
             t == Inserted(s, k, e)
  <2>0. /\ ~(k > 1 /\ End(s[k - 1]) = start)
        /\ ~(k <= Len(s) /\ start + n = s[k].start)
    BY <1>7, <1>k
  <2>1. with_extent(a, start, n) = coalesce_free_extents(t)
    BY <1>7, <1>k DEF with_extent, s
  <2>2. e \in Extents /\ e.start = start /\ e.page_count = n /\ End(e) = start + n
    BY DEF Extents, End
  <2> HIDE DEF e
  <2>3. ASSUME NEW i \in 1 .. Len(s), i < k PROVE End(s[i]) < start
    <3>1. k > 1 /\ End(s[k - 1]) < start
      BY <1>0, <1>1, <1>2, <2>0, <2>3
    <3>2. CASE i = k - 1
      BY <3>1, <3>2
    <3>3. CASE i < k - 1
      <4>1. End(s[i]) < s[k - 1].start
        BY <3>1, <3>3, <1>2 DEF Sorted, s
      <4>2. End(s[i]) \in Nat
        <5>1. /\ s[i].start \in Nat /\ s[i].page_count \in Nat
              /\ End(s[i]) = s[i].start + s[i].page_count
          BY <2>3, ExtentOf DEF s
        <5> QED BY <5>1
      <4> QED BY <4>1, <4>2, <3>1, <1>2
    <3> QED BY <3>2, <3>3, <2>3, <1>0, <1>1
  <2>4. ASSUME NEW i \in 1 .. Len(s), k <= i PROVE start + n < s[i].start
    <3>1. k <= Len(s) /\ start + n < s[k].start
      <4>1. k <= Len(s)
        BY <1>0, <1>1, <2>4
      <4>2. start + n <= s[k].start /\ start + n # s[k].start /\ s[k].start \in Nat
        BY <4>1, <1>3, <2>0
      <4> QED BY <4>1, <4>2
    <3>2. CASE i = k
      BY <3>1, <3>2
    <3>3. CASE k < i
      <4>1. End(s[k]) < s[i].start
        BY <3>1, <3>3, <1>3 DEF Sorted, s
      <4>2. s[i].start \in Nat
        BY <2>4, ExtentOf DEF s
      <4> QED BY <4>1, <4>2, <3>1, <1>3
    <3> QED BY <3>2, <3>3, <2>4, <1>0, <1>1
  <2>5. /\ Sorted(t)
        /\ Cover(t) = Cover(s) \cup Span(start, n)
    <3>1. /\ Sorted(s) /\ k \in 1 .. Len(s) + 1 /\ e \in Extents /\ e.page_count > 0
          /\ \A i \in 1 .. Len(s) : i < k => End(s[i]) < e.start
          /\ \A i \in 1 .. Len(s) : k <= i => End(e) < s[i].start
      BY <1>1, <2>2, <2>3, <2>4 DEF s
    <3>2. Sorted(t) /\ Cover(t) = Cover(s) \cup Span(e.start, e.page_count)
      BY <3>1, InsertedIsSorted, Zenon
    <3> QED BY <2>2, <3>2
  <2> HIDE DEF t
  <2>6. coalesce_free_extents(t) = t
    BY <2>5, SortedIsSeparated
  <2> QED
    BY <2>1, <2>5, <2>6 DEF s
<1> QED
  BY <1>4, <1>5, <1>6, <1>7

-----------------------------------------------------------------------------
(* The operations *)

\* A span of n pages has n pages.
LEMMA SpanSize ==
  ASSUME NEW a \in Nat, NEW n \in Nat
  PROVE  Span(a, n) \subseteq Nat /\ IsFiniteSet(Span(a, n)) /\ Cardinality(Span(a, n)) = n
<1>1. PICK b \in Int : b = a + n - 1
  OBVIOUS
<1>2. IsFiniteSet(a .. b) /\ Cardinality(a .. b) = IF a > b THEN 0 ELSE b - a + 1
  BY FS_Interval
<1>3. Span(a, n) = a .. b
  BY <1>1 DEF Span
<1> QED
  BY <1>1, <1>2, <1>3

\* Pages given to a caller, and pages taken back, count as many as they are.
LEMMA CountGiven ==
  ASSUME NEW L, IsFiniteSet(L), NEW a \in Nat, NEW n \in Nat, L \cap Span(a, n) = {}
  PROVE  /\ IsFiniteSet(L \cup Span(a, n))
         /\ Cardinality(L \cup Span(a, n)) = Cardinality(L) + n
<1>1. IsFiniteSet(Span(a, n)) /\ Cardinality(Span(a, n)) = n
  BY SpanSize
<1>2. Cardinality(L) \in Nat
  BY FS_CardinalityType
<1>3. Cardinality(L \cap Span(a, n)) = 0
  BY FS_EmptySet
<1>4. /\ IsFiniteSet(L \cup Span(a, n))
      /\ Cardinality(L \cup Span(a, n))
           = Cardinality(L) + Cardinality(Span(a, n)) - Cardinality(L \cap Span(a, n))
  BY <1>1, FS_Union
<1> QED
  BY <1>1, <1>2, <1>3, <1>4

LEMMA CountTaken ==
  ASSUME NEW L, IsFiniteSet(L), NEW a \in Nat, NEW n \in Nat, Span(a, n) \subseteq L
  PROVE  /\ IsFiniteSet(L \ Span(a, n))
         /\ Cardinality(L \ Span(a, n)) = Cardinality(L) - n
         /\ n <= Cardinality(L)
<1>1. IsFiniteSet(Span(a, n)) /\ Cardinality(Span(a, n)) = n
  BY SpanSize
<1>2. Cardinality(Span(a, n)) <= Cardinality(L)
  BY FS_Subset
<1>3. /\ IsFiniteSet(L \ Span(a, n))
      /\ Cardinality(L \ Span(a, n)) = Cardinality(L) - Cardinality(L \cap Span(a, n))
  BY FS_Difference
<1>4. L \cap Span(a, n) = Span(a, n)
  OBVIOUS
<1> QED
  BY <1>1, <1>2, <1>3, <1>4

LEMMA RegionOf ==
  ASSUME NEW regions \in Seq(Regions), NEW i \in 1 .. Len(regions)
  PROVE  /\ regions[i].start \in Nat /\ regions[i].page_count \in Nat
         /\ regions[i].next_page \in Nat
<1>1. regions[i] \in Regions
  OBVIOUS
<1> QED
  BY <1>1 DEF Regions

\* A page below a cursor belongs to no other region.
LEMMA OwnedInRegion ==
  ASSUME NEW regions \in Seq(Regions), Disjoint(regions),
         \A i \in 1 .. Len(regions) : regions[i].next_page <= regions[i].page_count,
         NEW i \in 1 .. Len(regions), NEW p \in RegionPages(regions[i])
  PROVE  p \in Owned(regions) <=> p < regions[i].start + regions[i].next_page
<1>0. /\ regions[i].start \in Nat /\ regions[i].page_count \in Nat
      /\ regions[i].next_page \in Nat
  BY RegionOf
<1>1. p \in Nat /\ regions[i].start <= p
  BY <1>0 DEF RegionPages, Span
<1>2. ASSUME p < regions[i].start + regions[i].next_page PROVE p \in Owned(regions)
  BY <1>1, <1>2 DEF Owned
<1>3. ASSUME p \in Owned(regions) PROVE p < regions[i].start + regions[i].next_page
  <2>1. PICK j \in 1 .. Len(regions) :
          regions[j].start <= p /\ p < regions[j].start + regions[j].next_page
    BY <1>3 DEF Owned
  <2>2. /\ regions[j].start \in Nat /\ regions[j].page_count \in Nat
        /\ regions[j].next_page \in Nat
    BY RegionOf
  <2>3. regions[j].next_page <= regions[j].page_count
    OBVIOUS
  <2>4. p \in RegionPages(regions[j])
    <3>1. PICK b, c, d : /\ b = regions[j].start /\ c = regions[j].next_page
                         /\ d = regions[j].page_count
      OBVIOUS
    <3>2. /\ b \in Nat /\ c \in Nat /\ d \in Nat /\ c <= d /\ b <= p /\ p < b + c
      BY <3>1, <2>1, <2>2, <2>3
    <3>3. p \in Span(b, d)
      BY <1>1, <3>2 DEF Span
    <3> QED BY <3>1, <3>3 DEF RegionPages
  <2>5. i = j
    BY <2>4 DEF Disjoint
  <2> QED BY <2>1, <2>5
<1> QED
  BY <1>2, <1>3

\* overlaps_free finds every page that a range shares with the list.
LEMMA OverlapIsShared ==
  ASSUME NEW a, Sorted(a.free_extents), NEW start \in Nat, NEW n \in Nat, n > 0
  PROVE  overlaps_free(a, start, n) <=> Span(start, n) \cap Cover(a.free_extents) # {}
<1> DEFINE s == a.free_extents
<1>1. ASSUME overlaps_free(a, start, n) PROVE Span(start, n) \cap Cover(s) # {}
  <2>1. PICK i \in 1 .. Len(s) : start < End(s[i]) /\ s[i].start < start + n
    BY <1>1 DEF overlaps_free
  <2>2. /\ s[i].start \in Nat /\ s[i].page_count \in Nat /\ s[i].page_count > 0
        /\ End(s[i]) = s[i].start + s[i].page_count
    BY ExtentOf
  <2>3. PICK p : p = IF start <= s[i].start THEN s[i].start ELSE start
    OBVIOUS
  <2>4. /\ p \in Nat /\ start <= p /\ p < start + n
        /\ s[i].start <= p /\ p < End(s[i])
    BY <2>1, <2>2, <2>3
  <2>5. p \in Cover(s)
    BY <2>4 DEF Cover
  <2>6. p \in Span(start, n)
    BY <2>4 DEF Span
  <2> QED BY <2>5, <2>6
<1>2. ASSUME NEW p \in Span(start, n), p \in Cover(s) PROVE overlaps_free(a, start, n)
  <2>1. PICK i \in 1 .. Len(s) : s[i].start <= p /\ p < End(s[i])
    BY <1>2 DEF Cover
  <2>2. /\ s[i].start \in Nat /\ s[i].page_count \in Nat
        /\ End(s[i]) = s[i].start + s[i].page_count
    BY ExtentOf
  <2>3. p \in Nat /\ start <= p /\ p < start + n
    BY <1>2 DEF Span
  <2>4. start < End(s[i]) /\ s[i].start < start + n
    BY <2>1, <2>2, <2>3
  <2> QED BY <2>4 DEF overlaps_free
<1> QED
  BY <1>1, <1>2

\* The allocator's tests on a range decide whether all of it is with callers.
LEMMA TestsDecide ==
  ASSUME NEW a, NEW L, PI(a, L), NEW start \in Nat, NEW n \in Nat, n > 0
  PROVE  (a.allocated_pages >= n /\ was_allocated(a, start, n) /\ ~overlaps_free(a, start, n))
           <=> /\ Span(start, n) \subseteq L
               /\ \E i \in 1 .. Len(a.regions) : Span(start, n) \subseteq RegionPages(a.regions[i])
<1>0. /\ a.regions \in Seq(Regions) /\ Sorted(a.free_extents) /\ Disjoint(a.regions)
      /\ \A i \in 1 .. Len(a.regions) : a.regions[i].next_page <= a.regions[i].page_count
      /\ IsFiniteSet(L)
      /\ L \cup Cover(a.free_extents) = Owned(a.regions)
      /\ L \cap Cover(a.free_extents) = {}
      /\ a.allocated_pages = Cardinality(L)
  BY DEF PI
<1>1. ASSUME was_allocated(a, start, n), ~overlaps_free(a, start, n)
      PROVE  /\ Span(start, n) \subseteq L
             /\ \E i \in 1 .. Len(a.regions) : Span(start, n) \subseteq RegionPages(a.regions[i])
  <2>1. PICK i \in 1 .. Len(a.regions) :
          /\ start >= a.regions[i].start
          /\ start + n <= a.regions[i].start + a.regions[i].next_page
    BY <1>1 DEF was_allocated
  <2>2. /\ a.regions[i].start \in Nat /\ a.regions[i].page_count \in Nat
        /\ a.regions[i].next_page \in Nat
        /\ a.regions[i].next_page <= a.regions[i].page_count
    BY <1>0, RegionOf
  <2>r. PICK b, c, d : /\ b = a.regions[i].start /\ c = a.regions[i].next_page
                       /\ d = a.regions[i].page_count
    OBVIOUS
  <2>n. b \in Nat /\ c \in Nat /\ d \in Nat /\ b <= start /\ start + n <= b + c /\ c <= d
    BY <2>1, <2>2, <2>r
  <2>4. ASSUME NEW p \in Span(start, n) PROVE p \in Nat /\ b <= p /\ p < b + c /\ p < b + d
    <3>1. p \in Nat /\ start <= p /\ p < start + n
      BY DEF Span
    <3> QED BY <2>n, <3>1
  <2>3. Span(start, n) \subseteq RegionPages(a.regions[i])
    <3>1. Span(start, n) \subseteq Span(b, d)
      BY <2>n, <2>4 DEF Span
    <3> QED BY <3>1, <2>r DEF RegionPages
  <2>6. Span(start, n) \subseteq Owned(a.regions)
    BY <2>4, <2>r DEF Owned
  <2>5. Span(start, n) \cap Cover(a.free_extents) = {}
    BY <1>0, <1>1, OverlapIsShared
  <2> QED
    BY <1>0, <2>3, <2>5, <2>6
<1>2. ASSUME Span(start, n) \subseteq L,
             NEW i \in 1 .. Len(a.regions), Span(start, n) \subseteq RegionPages(a.regions[i])
      PROVE  a.allocated_pages >= n /\ was_allocated(a, start, n) /\ ~overlaps_free(a, start, n)
  <2>1. a.allocated_pages >= n
    <3>1. n <= Cardinality(L) /\ Cardinality(L) \in Nat
      BY <1>0, <1>2, CountTaken, FS_CardinalityType
    <3> QED BY <3>1, <1>0
  <2>2. ~overlaps_free(a, start, n)
    <3>1. Span(start, n) \cap Cover(a.free_extents) = {}
      BY <1>0, <1>2
    <3> QED BY <3>1, <1>0, OverlapIsShared
  <2>3. start \in Span(start, n) /\ start + n - 1 \in Span(start, n)
    BY DEF Span
  <2>4. /\ a.regions[i].start \in Nat /\ a.regions[i].page_count \in Nat
        /\ a.regions[i].next_page \in Nat
    BY <1>0, RegionOf
  <2>5. start >= a.regions[i].start
    <3>1. start \in RegionPages(a.regions[i])
      BY <2>3, <1>2
    <3> QED BY <3>1, <2>4 DEF RegionPages, Span
  <2>6. PICK p : p = start + n - 1
    OBVIOUS
  <2>7. p \in RegionPages(a.regions[i]) /\ p \in Owned(a.regions)
    BY <2>3, <2>6, <1>2, <1>0
  <2>8. p < a.regions[i].start + a.regions[i].next_page
    BY <2>7, <1>0, OwnedInRegion
  <2>9. start + n <= a.regions[i].start + a.regions[i].next_page
    BY <2>4, <2>6, <2>8
  <2> QED
    BY <2>1, <2>2, <2>5, <2>9 DEF was_allocated
<1> QED
  BY <1>1, <1>2

\* The extents after an allocation from one of them: its first n pages are gone.
LEMMA ShrunkExtent ==
  ASSUME NEW s, Sorted(s), NEW i \in 1 .. Len(s), NEW n \in Nat, n > 0, s[i].page_count >= n,
         NEW t, t = IF s[i].page_count = n THEN Removed(s, i)
                    ELSE [s EXCEPT ![i] = [start |-> s[i].start + n,
                                           page_count |-> s[i].page_count - n]]
  PROVE  /\ Sorted(t)
         /\ Cover(t) = Cover(s) \ Span(s[i].start, n)
         /\ Span(s[i].start, n) \subseteq Cover(s)
<1>1. PICK b, c : b = s[i].start /\ c = s[i].page_count
  OBVIOUS
<1>2. b \in Nat /\ c \in Nat /\ c >= n /\ End(s[i]) = b + c
  BY <1>1, ExtentOf
<1>3. Span(b, c) \subseteq Cover(s)
  BY <1>1, ExtentInCover
<1>4. Span(b, n) \subseteq Span(b, c)
  BY <1>2 DEF Span
<1>5. CASE c = n
  <2>1. t = Removed(s, i)
    BY <1>1, <1>5
  <2>2. Sorted(t) /\ Cover(t) = Cover(s) \ Span(b, c)
    <3>1. /\ Sorted(Removed(s, i))
          /\ Cover(Removed(s, i)) = Cover(s) \ Span(s[i].start, s[i].page_count)
      BY RemovedIsSorted
    <3> QED BY <1>1, <2>1, <3>1
  <2> QED BY <1>1, <1>3, <1>5, <2>2
<1>6. CASE c # n
  <2> DEFINE e == [start |-> b + n, page_count |-> c - n]
  <2>1. t = [s EXCEPT ![i] = e]
    BY <1>1, <1>6
  <2>2. /\ e \in Extents /\ e.page_count > 0 /\ e.start = b + n /\ e.page_count = c - n
        /\ End(e) = b + c
    BY <1>2, <1>6 DEF Extents, End
  <2> HIDE DEF e
  <2>3. i > 1 => End(s[i - 1]) < e.start
    <3> SUFFICES ASSUME i > 1 PROVE End(s[i - 1]) < e.start
      OBVIOUS
    <3>1. i - 1 \in 1 .. Len(s) /\ i - 1 < i
      OBVIOUS
    <3>2. End(s[i - 1]) < b
      BY <3>1, <1>1 DEF Sorted
    <3>3. End(s[i - 1]) \in Nat
      <4>1. /\ s[i - 1].start \in Nat /\ s[i - 1].page_count \in Nat
            /\ End(s[i - 1]) = s[i - 1].start + s[i - 1].page_count
        BY <3>1, ExtentOf
      <4> QED BY <4>1
    <3> QED BY <3>2, <3>3, <2>2, <1>2
  <2>4. i < Len(s) => End(e) < s[i + 1].start
    <3> SUFFICES ASSUME i < Len(s) PROVE End(e) < s[i + 1].start
      OBVIOUS
    <3>1. i + 1 \in 1 .. Len(s) /\ i < i + 1
      BY DEF Sorted
    <3>2. End(s[i]) < s[i + 1].start
      BY <3>1 DEF Sorted
    <3> QED BY <3>2, <2>2, <1>2
  <2>5. /\ Sorted(t)
        /\ Cover(t) = (Cover(s) \ Span(b, c)) \cup Span(e.start, e.page_count)
    <3>0. e \in Extents /\ e.page_count > 0
      BY <2>2
    <3>1. /\ Sorted([s EXCEPT ![i] = e])
          /\ Cover([s EXCEPT ![i] = e])
               = (Cover(s) \ Span(s[i].start, s[i].page_count)) \cup Span(e.start, e.page_count)
      BY <3>0, <2>3, <2>4, ReplacedIsSorted, Zenon
    <3> QED BY <1>1, <2>1, <3>1
  <2>6. Span(e.start, e.page_count) = Span(b, c) \ Span(b, n)
    BY <1>2, <1>6, <2>2 DEF Span
  <2> QED
    BY <1>1, <1>3, <1>4, <2>5, <2>6
<1> QED
  BY <1>5, <1>6

\* An allocation from a freed extent.
LEMMA ExtentTaken ==
  ASSUME NEW a, NEW L, PI(a, L), NEW n \in Nat, n > 0,
         NEW i \in 1 .. Len(a.free_extents), a.free_extents[i].page_count >= n
  PROVE  /\ TakeFromExtent(a, n, i).page \in Nat
         /\ PI(TakeFromExtent(a, n, i).pa, L \cup Span(TakeFromExtent(a, n, i).page, n))
<1> DEFINE s == a.free_extents
           t == IF s[i].page_count = n THEN Removed(s, i)
                ELSE [s EXCEPT ![i] = [start |-> s[i].start + n,
                                       page_count |-> s[i].page_count - n]]
<1>0. /\ Sorted(s) /\ IsFiniteSet(L) /\ L \subseteq Nat
      /\ L \cup Cover(s) = Owned(a.regions)
      /\ L \cap Cover(s) = {}
      /\ a.allocated_pages = Cardinality(L)
  BY DEF PI
<1>b. PICK b : b = s[i].start
  OBVIOUS
<1>1. TakeFromExtent(a, n, i) = [page |-> b, pa |-> [regions |-> a.regions, free_extents |-> t,
                                  allocated_pages |-> a.allocated_pages + n]]
  BY <1>b DEF TakeFromExtent
<1>2. b \in Nat
  BY <1>0, <1>b, ExtentOf
<1>3. /\ Sorted(t)
      /\ Cover(t) = Cover(s) \ Span(b, n)
      /\ Span(b, n) \subseteq Cover(s)
  BY <1>0, <1>b, ShrunkExtent
<1> HIDE DEF t, s
<1>4. /\ IsFiniteSet(L \cup Span(b, n))
      /\ Cardinality(L \cup Span(b, n)) = Cardinality(L) + n
  BY <1>0, <1>2, <1>3, CountGiven
<1>5. Span(b, n) \subseteq Nat
  BY <1>2, SpanSize
<1>6. /\ (L \cup Span(b, n)) \cup Cover(t) = Owned(a.regions)
      /\ (L \cup Span(b, n)) \cap Cover(t) = {}
  BY <1>0, <1>3
<1>7. PI([regions |-> a.regions, free_extents |-> t, allocated_pages |-> a.allocated_pages + n],
         L \cup Span(b, n))
  BY <1>0, <1>3, <1>4, <1>5, <1>6 DEF PI
<1> QED
  BY <1>1, <1>2, <1>7

\* The region table after an allocation from one region: its cursor has moved,
\* over pages that no cursor had passed.
LEMMA MovedCursor ==
  ASSUME NEW regions \in Seq(Regions), Disjoint(regions),
         \A k \in 1 .. Len(regions) : regions[k].next_page <= regions[k].page_count,
         NEW i \in 1 .. Len(regions), NEW n \in Nat,
         regions[i].page_count - regions[i].next_page >= n,
         NEW moved, moved = [regions EXCEPT ![i] =
                               [start |-> regions[i].start, page_count |-> regions[i].page_count,
                                next_page |-> regions[i].next_page + n]]
  PROVE  /\ moved \in Seq(Regions)
         /\ \A k \in 1 .. Len(moved) : moved[k].next_page <= moved[k].page_count
         /\ Disjoint(moved)
         /\ Owned(moved) = Owned(regions) \cup Span(regions[i].start + regions[i].next_page, n)
         /\ Owned(regions) \cap Span(regions[i].start + regions[i].next_page, n) = {}
<1>1. PICK b, c, d : /\ b = regions[i].start /\ c = regions[i].next_page
                     /\ d = regions[i].page_count
  OBVIOUS
<1>2. b \in Nat /\ c \in Nat /\ d \in Nat /\ c + n <= d
  <2>1. b \in Nat /\ c \in Nat /\ d \in Nat
    BY <1>1, RegionOf
  <2> QED BY <2>1, <1>1
<1>r. PICK r : r = [start |-> b, page_count |-> d, next_page |-> c + n]
  OBVIOUS
<1>3. /\ r \in Regions /\ r.start = b /\ r.page_count = d /\ r.next_page = c + n
  <2>1. c + n \in Nat
    BY <1>2
  <2> QED BY <1>2, <1>r, <2>1 DEF Regions
<1>4. /\ moved \in Seq(Regions) /\ Len(moved) = Len(regions) /\ moved[i] = r
      /\ \A k \in 1 .. Len(regions) : k # i => moved[k] = regions[k]
  BY <1>1, <1>3, <1>r
<1>5. \A k \in 1 .. Len(moved) : moved[k].next_page <= moved[k].page_count
  <2>1. TAKE k \in 1 .. Len(moved)
  <2>2. CASE k = i
    BY <1>2, <1>3, <1>4, <2>2
  <2>3. CASE k # i
    BY <1>4, <2>3
  <2> QED BY <2>2, <2>3
<1>6. \A k \in 1 .. Len(moved) : RegionPages(moved[k]) = RegionPages(regions[k])
  <2>1. TAKE k \in 1 .. Len(moved)
  <2>2. CASE k = i
    BY <1>1, <1>3, <1>4, <2>2 DEF RegionPages
  <2>3. CASE k # i
    BY <1>4, <2>3
  <2> QED BY <2>2, <2>3
<1>7. Disjoint(moved)
  BY <1>4, <1>6 DEF Disjoint
<1>8. ASSUME NEW p \in Span(b + c, n) PROVE p \in Nat /\ b + c <= p /\ p < b + (c + n) /\ p \notin Owned(regions)
  <2>1. p \in Nat /\ b + c <= p /\ p < b + (c + n)
    BY <1>2 DEF Span
  <2>2. p \in RegionPages(regions[i])
    <3>1. p \in Span(b, d)
      BY <1>2, <2>1 DEF Span
    <3> QED BY <3>1, <1>1 DEF RegionPages
  <2>3. p \in Owned(regions) <=> p < b + c
    BY <1>1, <2>2, OwnedInRegion
  <2> QED BY <2>1, <2>3, <1>2
<1>9. Owned(moved) \subseteq Owned(regions) \cup Span(b + c, n)
  <2> SUFFICES ASSUME NEW p \in Owned(moved), p \notin Span(b + c, n) PROVE p \in Owned(regions)
    OBVIOUS
  <2>1. p \in Nat
    BY DEF Owned
  <2>2. PICK k \in 1 .. Len(moved) : moved[k].start <= p /\ p < moved[k].start + moved[k].next_page
    BY DEF Owned
  <2>3. CASE k = i
    <3>1. b <= p /\ p < b + (c + n)
      BY <2>2, <2>3, <1>3, <1>4
    <3>2. p < b + c
      BY <1>2, <2>1, <3>1 DEF Span
    <3> QED BY <2>1, <3>1, <3>2, <1>1 DEF Owned
  <2>4. CASE k # i
    BY <1>4, <2>1, <2>2, <2>4 DEF Owned
  <2> QED BY <2>3, <2>4
<1>10. Owned(regions) \subseteq Owned(moved)
  <2> SUFFICES ASSUME NEW p \in Owned(regions) PROVE p \in Owned(moved)
    OBVIOUS
  <2>1. p \in Nat
    BY DEF Owned
  <2>2. PICK k \in 1 .. Len(regions) :
          regions[k].start <= p /\ p < regions[k].start + regions[k].next_page
    BY DEF Owned
  <2>3. CASE k = i
    <3>1. b <= p /\ p < b + (c + n)
      <4>1. b <= p /\ p < b + c
        BY <2>2, <2>3, <1>1
      <4> QED BY <4>1, <2>1, <1>2
    <3> QED BY <2>1, <3>1, <1>3, <1>4 DEF Owned
  <2>4. CASE k # i
    BY <1>4, <2>1, <2>2, <2>4 DEF Owned
  <2> QED BY <2>3, <2>4
<1>11. Span(b + c, n) \subseteq Owned(moved)
  <2> SUFFICES ASSUME NEW p \in Span(b + c, n) PROVE p \in Owned(moved)
    OBVIOUS
  <2>1. p \in Nat /\ b <= p /\ p < b + (c + n)
    BY <1>2, <1>8
  <2> QED BY <2>1, <1>3, <1>4 DEF Owned
<1> QED
  BY <1>1, <1>4, <1>5, <1>7, <1>8, <1>9, <1>10, <1>11

\* An allocation from a region.
LEMMA RegionTaken ==
  ASSUME NEW a, NEW L, PI(a, L), NEW n \in Nat, n > 0,
         NEW i \in 1 .. Len(a.regions), a.regions[i].page_count - a.regions[i].next_page >= n
  PROVE  /\ TakeFromRegion(a, n, i).page \in Nat
         /\ PI(TakeFromRegion(a, n, i).pa, L \cup Span(TakeFromRegion(a, n, i).page, n))
<1> DEFINE moved == [a.regions EXCEPT ![i] =
                       [start |-> a.regions[i].start, page_count |-> a.regions[i].page_count,
                        next_page |-> a.regions[i].next_page + n]]
<1>0. /\ a.regions \in Seq(Regions) /\ Disjoint(a.regions)
      /\ \A k \in 1 .. Len(a.regions) : a.regions[k].next_page <= a.regions[k].page_count
      /\ Sorted(a.free_extents) /\ IsFiniteSet(L) /\ L \subseteq Nat
      /\ L \cup Cover(a.free_extents) = Owned(a.regions)
      /\ L \cap Cover(a.free_extents) = {}
      /\ a.allocated_pages = Cardinality(L)
  BY DEF PI
<1>b. PICK b : b = a.regions[i].start + a.regions[i].next_page
  OBVIOUS
<1>1. TakeFromRegion(a, n, i) = [page |-> b, pa |-> [regions |-> moved,
                                  free_extents |-> a.free_extents,
                                  allocated_pages |-> a.allocated_pages + n]]
  BY <1>b DEF TakeFromRegion
<1>2. b \in Nat
  <2>1. a.regions[i].start \in Nat /\ a.regions[i].next_page \in Nat
    BY <1>0, RegionOf
  <2> QED BY <2>1, <1>b
<1>3. /\ moved \in Seq(Regions)
      /\ \A k \in 1 .. Len(moved) : moved[k].next_page <= moved[k].page_count
      /\ Disjoint(moved)
      /\ Owned(moved) = Owned(a.regions) \cup Span(b, n)
      /\ Owned(a.regions) \cap Span(b, n) = {}
  <2>1. PICK regions : regions = a.regions
    OBVIOUS
  <2>2. PICK m : m = moved
    OBVIOUS
  <2>3. /\ m \in Seq(Regions)
        /\ \A k \in 1 .. Len(m) : m[k].next_page <= m[k].page_count
        /\ Disjoint(m)
        /\ Owned(m) = Owned(regions) \cup Span(regions[i].start + regions[i].next_page, n)
        /\ Owned(regions) \cap Span(regions[i].start + regions[i].next_page, n) = {}
    <3>1. /\ regions \in Seq(Regions) /\ Disjoint(regions) /\ i \in 1 .. Len(regions)
          /\ \A k \in 1 .. Len(regions) : regions[k].next_page <= regions[k].page_count
          /\ regions[i].page_count - regions[i].next_page >= n
          /\ m = [regions EXCEPT ![i] =
                    [start |-> regions[i].start, page_count |-> regions[i].page_count,
                     next_page |-> regions[i].next_page + n]]
      BY <1>0, <2>1, <2>2
    <3> HIDE DEF moved
    <3> QED BY <3>1, MovedCursor
  <2> QED BY <1>b, <2>1, <2>2, <2>3
<1> HIDE DEF moved
<1>4. /\ IsFiniteSet(L \cup Span(b, n))
      /\ Cardinality(L \cup Span(b, n)) = Cardinality(L) + n
  <2>1. L \cap Span(b, n) = {}
    BY <1>0, <1>3
  <2> QED BY <1>0, <1>2, <2>1, CountGiven
<1>5. Span(b, n) \subseteq Nat
  BY <1>2, SpanSize
<1>6. /\ (L \cup Span(b, n)) \cup Cover(a.free_extents) = Owned(moved)
      /\ (L \cup Span(b, n)) \cap Cover(a.free_extents) = {}
  BY <1>0, <1>3
<1>7. PI([regions |-> moved, free_extents |-> a.free_extents,
          allocated_pages |-> a.allocated_pages + n], L \cup Span(b, n))
  BY <1>0, <1>3, <1>4, <1>5, <1>6 DEF PI
<1> QED
  BY <1>1, <1>2, <1>7

\* A free that the tests let through.
LEMMA GivenBack ==
  ASSUME NEW a, NEW L, PI(a, L), NEW start \in Nat, NEW n \in Nat, n > 0,
         Span(start, n) \subseteq L, ~overlaps_free(a, start, n)
  PROVE  PI([regions |-> a.regions, free_extents |-> with_extent(a, start, n),
             allocated_pages |-> a.allocated_pages - n], L \ Span(start, n))
<1>0. /\ a.regions \in Seq(Regions) /\ Disjoint(a.regions)
      /\ \A k \in 1 .. Len(a.regions) : a.regions[k].next_page <= a.regions[k].page_count
      /\ Sorted(a.free_extents) /\ IsFiniteSet(L) /\ L \subseteq Nat
      /\ L \cup Cover(a.free_extents) = Owned(a.regions)
      /\ L \cap Cover(a.free_extents) = {}
      /\ a.allocated_pages = Cardinality(L)
  BY DEF PI
<1>1. /\ Sorted(with_extent(a, start, n))
      /\ Cover(with_extent(a, start, n)) = Cover(a.free_extents) \cup Span(start, n)
  BY <1>0, WithExtentIsSorted
<1>2. /\ IsFiniteSet(L \ Span(start, n))
      /\ Cardinality(L \ Span(start, n)) = Cardinality(L) - n
  BY <1>0, CountTaken
<1>3. /\ (L \ Span(start, n)) \cup Cover(with_extent(a, start, n)) = Owned(a.regions)
      /\ (L \ Span(start, n)) \cap Cover(with_extent(a, start, n)) = {}
  BY <1>0, <1>1
<1> QED
  BY <1>0, <1>1, <1>2, <1>3 DEF PI

\* Whether a free is taken, in terms of the pages that are with callers.
LEMMA FreeDecided ==
  ASSUME NEW a, NEW L, PI(a, L), NEW start \in Nat, NEW n \in Nat, n > 0
  PROVE  deallocate_contiguous_pages(a, start, n).ok <=>
           /\ Span(start, n) \subseteq L
           /\ \E i \in 1 .. Len(a.regions) : Span(start, n) \subseteq RegionPages(a.regions[i])
           /\ NeedsExtent(a, start, n) => Len(a.free_extents) < MAX_FREE_EXTENTS
<1>1. a.allocated_pages \in Nat /\ Len(a.free_extents) \in Nat
  BY FS_CardinalityType DEF PI, Sorted
<1> DEFINE tests == /\ a.allocated_pages >= n /\ was_allocated(a, start, n)
                    /\ ~overlaps_free(a, start, n)
           room == NeedsExtent(a, start, n) => Len(a.free_extents) < MAX_FREE_EXTENTS
<1>2. tests <=> /\ Span(start, n) \subseteq L
                /\ \E i \in 1 .. Len(a.regions) : Span(start, n) \subseteq RegionPages(a.regions[i])
  BY TestsDecide
<1>3. deallocate_contiguous_pages(a, start, n).ok <=> tests /\ room
  <2>1. /\ n # 0
        /\ a.allocated_pages < n <=> ~(a.allocated_pages >= n)
        /\ Len(a.free_extents) >= MAX_FREE_EXTENTS <=> ~(Len(a.free_extents) < MAX_FREE_EXTENTS)
    BY <1>1, CapacityAssumption
  <2>2. CASE tests /\ room
    <3>1. deallocate_contiguous_pages(a, start, n)
            = [ok |-> TRUE, pa |-> [regions |-> a.regions,
                                    free_extents |-> with_extent(a, start, n),
                                    allocated_pages |-> a.allocated_pages - n]]
      BY <2>1, <2>2, Zenon DEF deallocate_contiguous_pages
    <3> QED BY <2>2, <3>1
  <2>3. CASE ~(tests /\ room)
    <3>1. deallocate_contiguous_pages(a, start, n) = [ok |-> FALSE, pa |-> a]
      BY <2>1, <2>3, Zenon DEF deallocate_contiguous_pages
    <3> QED BY <2>3, <3>1
  <2> QED BY <2>2, <2>3
<1> QED
  BY <1>2, <1>3

-----------------------------------------------------------------------------
(* The invariant *)

LEMMA InitPI == Init => PInv
<1> SUFFICES ASSUME Init PROVE PInv
  OBVIOUS
<1>1. PICK regions \in InitialRegions : pa = memory_init(regions)
  BY DEF Init
<1>2. /\ pa = [regions |-> regions, free_extents |-> <<>>, allocated_pages |-> 0]
      /\ live = {}
  BY <1>1 DEF Init, memory_init
<1>3. /\ regions \in Seq(Regions) /\ Disjoint(regions)
      /\ \A i \in 1 .. Len(regions) : regions[i].next_page = 0
  BY InitialRegionsAssumption
<1>4. \A i \in 1 .. Len(regions) : regions[i].next_page <= regions[i].page_count
  <2>1. TAKE i \in 1 .. Len(regions)
  <2>2. regions[i].next_page = 0 /\ regions[i].page_count \in Nat
    BY <1>3, RegionOf
  <2> QED BY <2>2
<1>5. Owned(regions) = {}
  <2> SUFFICES ASSUME NEW p \in Nat, NEW i \in 1 .. Len(regions), regions[i].start <= p,
                      p < regions[i].start + regions[i].next_page
               PROVE  FALSE
    BY DEF Owned
  <2>1. regions[i].next_page = 0 /\ regions[i].start \in Nat
    BY <1>3, RegionOf
  <2> QED BY <2>1
<1>6. Sorted(<<>>) /\ Cover(<<>>) = {}
  BY DEF Sorted, Cover
<1>7. IsFiniteSet({}) /\ Cardinality({}) = 0
  BY FS_EmptySet
<1> QED
  BY <1>2, <1>3, <1>4, <1>5, <1>6, <1>7 DEF PInv, PI

LEMMA AllocateKeeps ==
  ASSUME PInv, NEW n \in Nat, Allocate(n)
  PROVE  PInv'
<1>0. PI(pa, live)
  BY DEF PInv
<1>r. PICK r : r = allocate_contiguous_pages(pa, n)
  OBVIOUS
<1>1. /\ pa' = r.pa
      /\ live' = IF r.page = None THEN live ELSE live \cup Span(r.page, n)
  BY <1>r DEF Allocate
<1>2. CASE r = [page |-> None, pa |-> pa]
  <2>1. pa' = pa /\ live' = live
    BY <1>1, <1>2
  <2> QED BY <1>0, <2>1 DEF PInv
<1>3. CASE n > 0 /\ FittingExtents(pa, n) # {}
  <2>1. PICK i : i = First(FittingExtents(pa, n))
    OBVIOUS
  <2>2. i \in 1 .. Len(pa.free_extents) /\ pa.free_extents[i].page_count >= n
    <3>1. FittingExtents(pa, n) \in SUBSET (1 .. Len(pa.free_extents))
      BY DEF FittingExtents
    <3>2. Len(pa.free_extents) \in Nat
      BY <1>0 DEF PI, Sorted
    <3>3. i \in FittingExtents(pa, n)
      BY <1>3, <2>1, <3>1, <3>2, FirstIsLeast
    <3> QED BY <3>3 DEF FittingExtents
  <2>3. r = TakeFromExtent(pa, n, i)
    BY <1>3, <1>r, <2>1 DEF allocate_contiguous_pages
  <2>4. r.page \in Nat /\ PI(r.pa, live \cup Span(r.page, n))
    BY <1>0, <1>3, <2>2, <2>3, ExtentTaken
  <2>5. r.page # None
    BY <2>4 DEF None
  <2> QED BY <1>1, <2>4, <2>5 DEF PInv
<1>4. CASE n > 0 /\ FittingExtents(pa, n) = {} /\ FittingRegions(pa, n) # {}
  <2>1. PICK i : i = First(FittingRegions(pa, n))
    OBVIOUS
  <2>2. i \in 1 .. Len(pa.regions) /\ pa.regions[i].page_count - pa.regions[i].next_page >= n
    <3>1. FittingRegions(pa, n) \in SUBSET (1 .. Len(pa.regions))
      BY DEF FittingRegions
    <3>2. Len(pa.regions) \in Nat
      BY <1>0 DEF PI
    <3>3. i \in FittingRegions(pa, n)
      BY <1>4, <2>1, <3>1, <3>2, FirstIsLeast
    <3> QED BY <3>3 DEF FittingRegions
  <2>3. r = TakeFromRegion(pa, n, i)
    BY <1>4, <1>r, <2>1 DEF allocate_contiguous_pages
  <2>4. r.page \in Nat /\ PI(r.pa, live \cup Span(r.page, n))
    BY <1>0, <1>4, <2>2, <2>3, RegionTaken
  <2>5. r.page # None
    BY <2>4 DEF None
  <2> QED BY <1>1, <2>4, <2>5 DEF PInv
<1>5. \/ r = [page |-> None, pa |-> pa]
      \/ n > 0 /\ FittingExtents(pa, n) # {}
      \/ n > 0 /\ FittingExtents(pa, n) = {} /\ FittingRegions(pa, n) # {}
  <2>1. n = 0 \/ n > 0
    OBVIOUS
  <2>2. CASE n = 0
    BY <1>r, <2>2 DEF allocate_contiguous_pages
  <2>3. CASE n > 0 /\ FittingExtents(pa, n) = {} /\ FittingRegions(pa, n) = {}
    BY <1>r, <2>3 DEF allocate_contiguous_pages
  <2> QED BY <2>1, <2>2, <2>3
<1> QED
  BY <1>2, <1>3, <1>4, <1>5

LEMMA DeallocateKeeps ==
  ASSUME PInv, NEW start \in Nat, NEW n \in Nat, Deallocate(start, n)
  PROVE  PInv'
<1>0. PI(pa, live)
  BY DEF PInv
<1>r. PICK r : r = deallocate_contiguous_pages(pa, start, n)
  OBVIOUS
<1>1. /\ pa' = r.pa
      /\ live' = IF r.ok THEN live \ Span(start, n) ELSE live
  BY <1>r DEF Deallocate
<1>2. CASE r = [ok |-> FALSE, pa |-> pa]
  <2>1. pa' = pa /\ live' = live
    BY <1>1, <1>2
  <2> QED BY <1>0, <2>1 DEF PInv
<1>3. CASE r # [ok |-> FALSE, pa |-> pa]
  <2>1. /\ n # 0 /\ ~overlaps_free(pa, start, n)
        /\ r = [ok |-> TRUE, pa |-> [regions |-> pa.regions,
                                     free_extents |-> with_extent(pa, start, n),
                                     allocated_pages |-> pa.allocated_pages - n]]
    BY <1>3, <1>r, Zenon DEF deallocate_contiguous_pages
  <2>2. n > 0 /\ r.ok
    BY <2>1
  <2>3. Span(start, n) \subseteq live
    BY <1>0, <1>r, <2>2, FreeDecided
  <2>4. PI(r.pa, live \ Span(start, n))
    BY <1>0, <2>1, <2>2, <2>3, GivenBack
  <2> QED
    BY <1>1, <2>2, <2>4 DEF PInv
<1> QED
  BY <1>2, <1>3

LEMMA NextKeeps == PInv /\ [Next]_vars => PInv'
<1> SUFFICES ASSUME PInv, [Next]_vars PROVE PInv'
  OBVIOUS
<1>1. CASE UNCHANGED vars
  BY <1>1 DEF vars, PInv
<1>2. ASSUME NEW n \in Requests, Allocate(n) PROVE PInv'
  BY <1>2, RequestsAssumption, AllocateKeeps
<1>3. ASSUME NEW start \in Pages, NEW n \in Requests, Deallocate(start, n) PROVE PInv'
  <2>1. start \in Nat
    <3>1. PICK i \in 1 .. Len(pa.regions) : start \in RegionPages(pa.regions[i])
      BY <1>3 DEF Pages
    <3>2. pa.regions[i].start \in Nat /\ pa.regions[i].page_count \in Nat
      BY RegionOf DEF PInv, PI
    <3> QED BY <3>1, <3>2 DEF RegionPages, Span
  <2> QED
    BY <1>3, <2>1, RequestsAssumption, DeallocateKeeps
<1> QED
  BY <1>1, <1>2, <1>3 DEF Next

\* The invariant holds at every step, for any regions, any capacity of the list
\* and any calls.
THEOREM PagesInvariant == Spec => []PInv
  BY InitPI, NextKeeps, PTL DEF Spec

\* The pages of the list and below the cursors, as the model states them.
LEMMA FreedIsCover ==
  ASSUME NEW a, Sorted(a.free_extents)
  PROVE  FreedOf(a) = Cover(a.free_extents)
<1> DEFINE s == a.free_extents
<1>1. ASSUME NEW i \in 1 .. Len(s), NEW p
      PROVE  p \in ExtentPages(s[i]) <=> p \in Nat /\ s[i].start <= p /\ p < End(s[i])
  <2>1. /\ s[i].start \in Nat /\ s[i].page_count \in Nat
        /\ End(s[i]) = s[i].start + s[i].page_count
    BY ExtentOf
  <2>2. PICK b, c : b = s[i].start /\ c = s[i].page_count
    OBVIOUS
  <2>3. b \in Nat /\ c \in Nat
    BY <2>1, <2>2
  <2>4. p \in Span(b, c) <=> p \in Nat /\ b <= p /\ p < b + c
    BY <2>3 DEF Span
  <2> QED BY <2>1, <2>2, <2>4 DEF ExtentPages
<1>2. \A p : p \in FreedOf(a) <=> \E i \in 1 .. Len(s) : p \in ExtentPages(s[i])
  BY DEF FreedOf
<1>3. \A p : p \in Cover(s) <=> p \in Nat /\ \E i \in 1 .. Len(s) : s[i].start <= p /\ p < End(s[i])
  BY DEF Cover
<1>4. ASSUME NEW p PROVE p \in FreedOf(a) <=> p \in Cover(s)
  BY <1>1, <1>2, <1>3
<1> QED
  BY <1>4

LEMMA TouchedIsOwned ==
  ASSUME NEW a, a.regions \in Seq(Regions)
  PROVE  TouchedOf(a) = Owned(a.regions)
<1> DEFINE s == a.regions
<1>1. ASSUME NEW i \in 1 .. Len(s), NEW p
      PROVE  p \in TouchedPages(s[i])
               <=> p \in Nat /\ s[i].start <= p /\ p < s[i].start + s[i].next_page
  <2>1. PICK b, c : b = s[i].start /\ c = s[i].next_page
    OBVIOUS
  <2>2. b \in Nat /\ c \in Nat
    BY <2>1, RegionOf
  <2>3. p \in Span(b, c) <=> p \in Nat /\ b <= p /\ p < b + c
    BY <2>2 DEF Span
  <2> QED BY <2>1, <2>3 DEF TouchedPages
<1>2. \A p : p \in TouchedOf(a) <=> \E i \in 1 .. Len(s) : p \in TouchedPages(s[i])
  BY DEF TouchedOf
<1>3. \A p : p \in Owned(s) <=> p \in Nat /\ \E i \in 1 .. Len(s) :
                                   s[i].start <= p /\ p < s[i].start + s[i].next_page
  BY DEF Owned
<1>4. ASSUME NEW p PROVE p \in TouchedOf(a) <=> p \in Owned(s)
  BY <1>1, <1>2, <1>3
<1> QED
  BY <1>4

\* No page is handed out twice and none is lost: for any regions, any requests
\* and any ranges given back.
THEOREM PagesArePartitioned == Spec => []PagesPartitioned
<1>1. PInv => PagesPartitioned
  <2> SUFFICES ASSUME PInv PROVE PagesPartitioned
    OBVIOUS
  <2> DEFINE s == pa.free_extents
  <2>0. /\ pa.regions \in Seq(Regions) /\ Disjoint(pa.regions)
        /\ \A k \in 1 .. Len(pa.regions) : pa.regions[k].next_page <= pa.regions[k].page_count
        /\ Sorted(s) /\ live \cup Cover(s) = Owned(pa.regions) /\ live \cap Cover(s) = {}
    BY DEF PInv, PI
  <2>1. TouchedOf(pa) = Owned(pa.regions) /\ FreedOf(pa) = Cover(s)
    BY <2>0, FreedIsCover, TouchedIsOwned
  <2>2. ASSUME NEW i \in 1 .. Len(s), NEW j \in 1 .. Len(s), i < j
        PROVE  ExtentPages(s[i]) \cap ExtentPages(s[j]) = {}
    <3>1. PICK b, c, d, e : /\ b = s[i].start /\ c = s[i].page_count
                            /\ d = s[j].start /\ e = s[j].page_count
      OBVIOUS
    <3>2. b \in Nat /\ c \in Nat /\ d \in Nat /\ e \in Nat /\ End(s[i]) = b + c
      BY <2>0, <3>1, ExtentOf
    <3>3. b + c < d
      BY <2>0, <2>2, <3>1, <3>2 DEF Sorted
    <3>4. Span(b, c) \cap Span(d, e) = {}
      BY <3>2, <3>3 DEF Span
    <3> QED BY <3>1, <3>4 DEF ExtentPages
  <2>3. \A i, j \in 1 .. Len(s) : i # j => ExtentPages(s[i]) \cap ExtentPages(s[j]) = {}
    <3>1. TAKE i, j \in 1 .. Len(s)
    <3>2. Len(s) \in Nat
      BY <2>0 DEF Sorted
    <3>3. i # j => i < j \/ j < i
      BY <3>2
    <3> QED BY <2>2, <3>3
  <2>4. ASSUME NEW p \in live PROVE p \notin UntouchedOf(pa)
    <3>1. SUFFICES ASSUME NEW i \in 1 .. Len(pa.regions),
                          p \in RegionPages(pa.regions[i]), p \notin TouchedPages(pa.regions[i])
                   PROVE  FALSE
      BY DEF UntouchedOf
    <3>2. PICK b, c, d : /\ b = pa.regions[i].start /\ c = pa.regions[i].next_page
                         /\ d = pa.regions[i].page_count
      OBVIOUS
    <3>3. b \in Nat /\ c \in Nat /\ d \in Nat
      BY <2>0, <3>2, RegionOf
    <3>4. p \in Owned(pa.regions)
      BY <2>0, <2>4
    <3>5. p < b + c
      BY <2>0, <3>1, <3>2, <3>4, OwnedInRegion
    <3>6. p \in Span(b, d) /\ p \notin Span(b, c)
      BY <3>1, <3>2 DEF RegionPages, TouchedPages
    <3> QED BY <3>3, <3>5, <3>6 DEF Span
  <2> QED
    BY <2>0, <2>1, <2>3, <2>4 DEF PagesPartitioned
<1> QED
  BY <1>1, PagesInvariant, PTL

\* The freed extents stay sorted and fully joined.
THEOREM ExtentsStayCoalesced == Spec => []ExtentsCoalesced
<1>1. PInv => ExtentsCoalesced
  BY DEF PInv, PI, Sorted, ExtentsCoalesced
<1> QED
  BY <1>1, PagesInvariant, PTL

\* The number of allocated pages is the number of pages with callers.
THEOREM PagesAreCounted == Spec => []CountedPages
<1>1. PInv => CountedPages
  BY DEF PInv, PI, CountedPages
<1> QED
  BY <1>1, PagesInvariant, PTL

\* The allocator's bookkeeping as a whole, for any regions, requests and ranges
\* given back: no page is handed out twice or lost, extents stay sorted and
\* joined, and the count is exact.
THEOREM PagesAreSound == Spec => []PagesSound
<1>1. PagesPartitioned /\ ExtentsCoalesced /\ CountedPages => PagesSound
  BY DEF PagesSound
<1> QED
  BY <1>1, PagesArePartitioned, ExtentsStayCoalesced, PagesAreCounted, PTL

\* A free is taken exactly when its pages are all with callers, in one region,
\* and the list has room; so nothing can be freed twice.
THEOREM FreesAreDecided == Spec => []FreeDecision
<1>1. PInv => FreeDecision
  <2> SUFFICES ASSUME PInv, NEW start \in Pages, NEW n \in Requests \ {0}
               PROVE  deallocate_contiguous_pages(pa, start, n).ok <=>
                        /\ Span(start, n) \subseteq live
                        /\ InOneRegion(start, n)
                        /\ NeedsExtent(pa, start, n) => Len(pa.free_extents) < MAX_FREE_EXTENTS
    BY DEF FreeDecision
  <2>1. start \in Nat
    <3>1. PICK i \in 1 .. Len(pa.regions) : start \in RegionPages(pa.regions[i])
      BY DEF Pages
    <3>2. pa.regions[i].start \in Nat /\ pa.regions[i].page_count \in Nat
      BY RegionOf DEF PInv, PI
    <3> QED BY <3>1, <3>2 DEF RegionPages, Span
  <2>2. n \in Nat /\ n > 0
    BY RequestsAssumption
  <2>3. PI(pa, live)
    BY DEF PInv
  <2> QED
    BY <2>1, <2>2, <2>3, FreeDecided DEF InOneRegion
<1> QED
  BY <1>1, PagesInvariant, PTL
=============================================================================
