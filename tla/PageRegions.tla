---------------------------- MODULE PageRegions ----------------------------
(***************************************************************************)
(* The region table of the page allocator (kernel/src/memory.rs): the      *)
(* usable regions of the boot information without what is reserved, and    *)
(* back: the ranges of the table that are taken.                           *)
(*                                                                         *)
(* The boot information is in bytes, the table in pages.                   *)
(***************************************************************************)
EXTENDS Integers, Sequences, SequencesExt

CONSTANTS
    PAGE_SIZE,
    MAX_ALLOCATOR_REGIONS    \* capacity of the region table

ASSUME PageSizeAssumption == PAGE_SIZE \in Nat \ {0}

align_down(value) == (value \div PAGE_SIZE) * PAGE_SIZE
align_up(value) == align_down(value + PAGE_SIZE - 1)

(* What the firmware mode lets the kernel take over.                       *)
region_is_currently_usable(firmware_mode, kind) ==
    \/ kind \in {"Conventional", "LoaderCode", "LoaderData"}
    \/ /\ firmware_mode = "PostExitBootServices"
       /\ kind \in {"BootServicesCode", "BootServicesData", "AcpiReclaim"}

NonEmpty(span) == span.start < span.end

(* One span without one reserved range, taken to whole pages outward.      *)
cut_span(span, range) ==
    LET from == align_down(range.start)
        to == align_up(range.start + range.length)
    IN  IF range.length = 0 \/ to <= span.start \/ span.end <= from
        THEN <<span>>
        ELSE SelectSeq(<<[start |-> span.start, end |-> from],
                         [start |-> to, end |-> span.end]>>, NonEmpty)

add_region_fragments(start, end, reserved) ==
    FoldLeft(LAMBDA spans, range :
                 FlattenSeq([i \in 1 .. Len(spans) |-> cut_span(spans[i], range)]),
             <<[start |-> start, end |-> end]>>, reserved)

(* A fragment becomes a region of whole pages, rounded inward; there is    *)
(* room for MAX_ALLOCATOR_REGIONS of them and the rest is dropped.         *)
push_region(regions, span) ==
    LET start == align_up(span.start)
        end == align_down(span.end)
    IN  IF end <= start \/ Len(regions) >= MAX_ALLOCATOR_REGIONS
        THEN regions
        ELSE Append(regions, [start |-> start \div PAGE_SIZE, next_page |-> 0,
                              page_count |-> (end - start) \div PAGE_SIZE])

init_regions(boot_info) ==
    LET usable == SelectSeq(boot_info.memory_regions,
                            LAMBDA r : /\ region_is_currently_usable(boot_info.firmware_mode, r.kind)
                                       /\ r.page_count # 0)
        fragments == FlattenSeq([i \in 1 .. Len(usable) |->
                         add_region_fragments(usable[i].start,
                             usable[i].start + usable[i].page_count * PAGE_SIZE,
                             boot_info.reserved_memory)])
    IN  FoldLeft(push_region, <<>>, fragments)

(* What the loader hands on as taken: the touched part of each region.     *)
allocated_ranges(regions) ==
    LET touched == SelectSeq(regions, LAMBDA r : r.next_page # 0)
    IN  [i \in 1 .. Len(touched) |->
            [start |-> touched[i].start * PAGE_SIZE, length |-> touched[i].next_page * PAGE_SIZE]]
=============================================================================
