--------------------------- MODULE PageAllocator ---------------------------
(***************************************************************************)
(* The physical page allocator (kernel/src/memory.rs): usable regions with *)
(* a cursor each, a sorted list of freed extents, first fit.               *)
(*                                                                         *)
(* It works on page numbers, because every region is rounded to whole      *)
(* pages when it is made (PageRegions).                                    *)
(* An allocator is a record, and each operation an operator from one       *)
(* allocator to the next, so that other modules can compose them.          *)
(***************************************************************************)
EXTENDS Integers, Sequences, FiniteSets

CONSTANTS
    MAX_FREE_EXTENTS,        \* capacity of the list of freed extents
    InitialRegions,          \* the region tables the allocator may start with
    Requests                 \* the sizes, in pages, that callers ask for

ASSUME CapacityAssumption == MAX_FREE_EXTENTS \in Nat

ASSUME RequestsAssumption == Requests \subseteq Nat

VARIABLES
    pa,     \* the allocator: regions, free_extents, allocated_pages
    live    \* history: the pages handed out and not given back

vars == <<pa, live>>

Regions == [start : Nat, page_count : Nat, next_page : Nat]
Extents == [start : Nat, page_count : Nat]

Span(first, count) == first .. first + count - 1
RegionPages(r) == Span(r.start, r.page_count)
TouchedPages(r) == Span(r.start, r.next_page)
ExtentPages(e) == Span(e.start, e.page_count)
End(e) == e.start + e.page_count

TouchedOf(a) == UNION {TouchedPages(a.regions[i]) : i \in 1 .. Len(a.regions)}
FreedOf(a) == UNION {ExtentPages(a.free_extents[i]) : i \in 1 .. Len(a.free_extents)}
UntouchedOf(a) ==
    UNION {RegionPages(a.regions[i]) \ TouchedPages(a.regions[i]) : i \in 1 .. Len(a.regions)}

(* What the allocator can still hand out.                                  *)
AvailableOf(a) == FreedOf(a) \cup UntouchedOf(a)

(* The firmware's memory map lists each page once, so the regions are      *)
(* disjoint; no cursor has moved yet.                                      *)
Disjoint(regions) ==
    \A i, j \in 1 .. Len(regions) :
        i # j => RegionPages(regions[i]) \cap RegionPages(regions[j]) = {}

ASSUME InitialRegionsAssumption ==
    \A regions \in InitialRegions :
        /\ regions \in Seq(Regions)
        /\ \A i \in 1 .. Len(regions) : regions[i].next_page = 0
        /\ Disjoint(regions)

memory_init(regions) == [regions |-> regions, free_extents |-> <<>>, allocated_pages |-> 0]

-----------------------------------------------------------------------------
(* Operations.                                                             *)

First(S) == CHOOSE i \in S : \A j \in S : i <= j

Removed(s, i) == [k \in 1 .. Len(s) - 1 |-> IF k < i THEN s[k] ELSE s[k + 1]]
Inserted(s, i, e) ==
    [k \in 1 .. Len(s) + 1 |-> IF k < i THEN s[k] ELSE IF k = i THEN e ELSE s[k - 1]]

None == -1

FittingExtents(a, n) == {i \in 1 .. Len(a.free_extents) : a.free_extents[i].page_count >= n}
FittingRegions(a, n) ==
    {i \in 1 .. Len(a.regions) : a.regions[i].page_count - a.regions[i].next_page >= n}

TakeFromExtent(a, n, i) ==
    LET e == a.free_extents[i]
    IN  [page |-> e.start,
         pa |-> [regions |-> a.regions,
                 free_extents |->
                     IF e.page_count = n THEN Removed(a.free_extents, i)
                     ELSE [a.free_extents EXCEPT ![i] =
                               [start |-> e.start + n, page_count |-> e.page_count - n]],
                 allocated_pages |-> a.allocated_pages + n]]

TakeFromRegion(a, n, i) ==
    LET r == a.regions[i]
    IN  [page |-> r.start + r.next_page,
         pa |-> [regions |-> [a.regions EXCEPT ![i] =
                                  [start |-> r.start, page_count |-> r.page_count,
                                   next_page |-> r.next_page + n]],
                 free_extents |-> a.free_extents,
                 allocated_pages |-> a.allocated_pages + n]]

(* First fit among the freed extents, else the first region with room.     *)
allocate_contiguous_pages(a, n) ==
    IF n = 0 THEN [page |-> None, pa |-> a]
    ELSE IF FittingExtents(a, n) # {} THEN TakeFromExtent(a, n, First(FittingExtents(a, n)))
    ELSE IF FittingRegions(a, n) # {} THEN TakeFromRegion(a, n, First(FittingRegions(a, n)))
    ELSE [page |-> None, pa |-> a]

allocate_page(a) == allocate_contiguous_pages(a, 1)

(* Mutant: a range may start below the touched part of its region.         *)
was_allocated_end_only(a, start, n) ==
    \E i \in 1 .. Len(a.regions) :
        /\ start >= a.regions[i].start
        /\ start + n <= a.regions[i].start + a.regions[i].page_count

was_allocated(a, start, n) ==
    \E i \in 1 .. Len(a.regions) :
        /\ start >= a.regions[i].start
        /\ start + n <= a.regions[i].start + a.regions[i].next_page

(* Mutant: only the first page of the range is looked for.                 *)
overlaps_free_first(a, start, n) ==
    \E i \in 1 .. Len(a.free_extents) : start \in ExtentPages(a.free_extents[i])

overlaps_free(a, start, n) ==
    \E i \in 1 .. Len(a.free_extents) :
        start < End(a.free_extents[i]) /\ a.free_extents[i].start < start + n

Separated(s) == \A i \in 1 .. Len(s) - 1 : End(s[i]) # s[i + 1].start

(* A pass that grows the last extent kept by every one that meets it.      *)
coalesce_free_extents(s) ==
    LET kept[i \in 0 .. Len(s)] ==
            LET before == kept[i - 1]
                last == Len(before)
            IN  CASE i = 0 -> <<>>
                  [] i > 0 /\ last > 0 /\ End(before[last]) = s[i].start ->
                         [before EXCEPT ![last].page_count = @ + s[i].page_count]
                  [] OTHER -> Append(before, s[i])
    IN  IF Separated(s) THEN s ELSE kept[Len(s)]

(* Where a range goes: before the first extent that starts after it.       *)
Insertion(a, start) ==
    LET after == {i \in 1 .. Len(a.free_extents) : a.free_extents[i].start > start}
    IN  IF after = {} THEN Len(a.free_extents) + 1 ELSE First(after)

Joined(e, n) == [start |-> e.start, page_count |-> e.page_count + n]

(* The list with a range put back: joined with the extent before it (and   *)
(* then with the one after), or with the one after, or an extent of its    *)
(* own.                                                                    *)
with_extent(a, start, n) ==
    LET s == a.free_extents
        k == Insertion(a, start)
        meets_previous == k > 1 /\ End(s[k - 1]) = start
        meets_next == k <= Len(s) /\ start + n = s[k].start
    IN  CASE meets_previous /\ meets_next ->
                 Removed([s EXCEPT ![k - 1] = Joined(s[k - 1], n + s[k].page_count)], k)
          [] meets_previous /\ ~ meets_next -> [s EXCEPT ![k - 1] = Joined(s[k - 1], n)]
          [] ~ meets_previous /\ meets_next ->
                 [s EXCEPT ![k] = [start |-> start, page_count |-> s[k].page_count + n]]
          [] OTHER -> coalesce_free_extents(
                          Inserted(s, k, [start |-> start, page_count |-> n]))

NeedsExtent(a, start, n) ==
    LET s == a.free_extents
        k == Insertion(a, start)
    IN  ~ (k > 1 /\ End(s[k - 1]) = start) /\ ~ (k <= Len(s) /\ start + n = s[k].start)

deallocate_contiguous_pages(a, start, n) ==
    IF \/ n = 0
       \/ a.allocated_pages < n
       \/ ~ was_allocated(a, start, n)
       \/ overlaps_free(a, start, n)
       \/ NeedsExtent(a, start, n) /\ Len(a.free_extents) >= MAX_FREE_EXTENTS
    THEN [ok |-> FALSE, pa |-> a]
    ELSE [ok |-> TRUE,
          pa |-> [regions |-> a.regions, free_extents |-> with_extent(a, start, n),
                  allocated_pages |-> a.allocated_pages - n]]

-----------------------------------------------------------------------------
(* The allocator with arbitrary callers: any size, and any range given     *)
(* back, whether it was handed out, was given back already or never was.   *)

Pages == UNION {RegionPages(pa.regions[i]) : i \in 1 .. Len(pa.regions)}

Init ==
    /\ \E regions \in InitialRegions : pa = memory_init(regions)
    /\ live = {}

Allocate(n) ==
    LET result == allocate_contiguous_pages(pa, n)
    IN  /\ pa' = result.pa
        /\ live' = IF result.page = None THEN live ELSE live \cup Span(result.page, n)

Deallocate(start, n) ==
    LET result == deallocate_contiguous_pages(pa, start, n)
    IN  /\ pa' = result.pa
        /\ live' = IF result.ok THEN live \ Span(start, n) ELSE live

Next ==
    \/ \E n \in Requests : Allocate(n)
    \/ \E start \in Pages, n \in Requests : Deallocate(start, n)

Spec == Init /\ [][Next]_vars

-----------------------------------------------------------------------------
TypeOK ==
    /\ pa \in [regions : Seq(Regions), free_extents : Seq(Extents), allocated_pages : Nat]
    /\ live \subseteq Nat

(* Every page below a region's cursor is either with a caller or in        *)
(* exactly one freed extent, and pages the cursors have not reached are    *)
(* with nobody: no page is handed out twice and none is lost, across       *)
(* splits, joins and refused frees (memory.rs:126-236).                    *)
PagesPartitioned ==
    /\ TouchedOf(pa) = live \cup FreedOf(pa)
    /\ live \cap FreedOf(pa) = {}
    /\ \A i, j \in 1 .. Len(pa.free_extents) :
           i # j => ExtentPages(pa.free_extents[i]) \cap ExtentPages(pa.free_extents[j]) = {}
    /\ live \cap UntouchedOf(pa) = {}

(* The freed extents are sorted and fully joined: no two of them touch, so *)
(* a gap between two extents holds a page some caller has                  *)
(* (memory.rs:194-259).                                                    *)
ExtentsCoalesced ==
    \A i, j \in 1 .. Len(pa.free_extents) :
        i < j => End(pa.free_extents[i]) < pa.free_extents[j].start

InOneRegion(start, n) ==
    \E i \in 1 .. Len(pa.regions) : Span(start, n) \subseteq RegionPages(pa.regions[i])

(* A free is decided as if the allocator knew every caller's pages: it is  *)
(* taken exactly when all of the range is with callers, lies in one region *)
(* and finds room in the list.  A second free of the same pages, or one    *)
(* that overlaps a free extent, is always refused, although only the       *)
(* cursors, the extents and a count are kept (memory.rs:168-203).          *)
FreeDecision ==
    \A start \in Pages, n \in Requests \ {0} :
        deallocate_contiguous_pages(pa, start, n).ok <=>
            /\ Span(start, n) \subseteq live
            /\ InOneRegion(start, n)
            /\ NeedsExtent(pa, start, n) => Len(pa.free_extents) < MAX_FREE_EXTENTS

(* The count that guards a free and that stats reports is the number of    *)
(* pages with callers (memory.rs:148, :161, :206, :261-268).               *)
CountedPages == pa.allocated_pages = Cardinality(live)

(* The allocator's bookkeeping as a whole: pages partitioned between the   *)
(* callers and the freed extents, extents sorted and joined, and counted.  *)
PagesSound == PagesPartitioned /\ ExtentsCoalesced /\ CountedPages
=============================================================================
