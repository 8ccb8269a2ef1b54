----------------------------- MODULE MCMemory -----------------------------
(* TLC instances of VirtualMemory, of the page allocator under arbitrary   *)
(* callers and of the heap: a behaviour exercises one of the three.        *)
(*                                                                         *)
(* Pages of two bytes, 32 of them; tables of 4, 2, 1 and 32 entries, so    *)
(* that the identity map, the processes, the demonstration ranges and the  *)
(* high half have a root entry each.                                       *)
EXTENDS VirtualMemory, Heap, TLC

VARIABLE subject        \* "vm", "pages" or "heap"

Bytes(start, length) == [start |-> start, length |-> length]
MemoryRegion(first, count, kind) ==
    [start |-> first * PAGE_SIZE, page_count |-> count, kind |-> kind]
KernelSegment(address, size, writable, executable) ==
    [virtual_address |-> address, memory_size |-> size,
     writable |-> writable, executable |-> executable]
UserSegment(address, data, size, writable, executable) ==
    [virtual_address |-> address, data_len |-> data, memory_size |-> size,
     writable |-> writable, executable |-> executable]

(* Text and data in pages of their own, at the address they are linked to. *)
Separate == <<KernelSegment(20, 2, FALSE, TRUE), KernelSegment(22, 1, TRUE, FALSE)>>

(* Linked in the identity window and loaded elsewhere.                     *)
Moved == <<KernelSegment(4, 1, FALSE, TRUE), KernelSegment(6, 2, TRUE, FALSE)>>

(* Text and data share a page.                                             *)
Mixed == <<KernelSegment(20, 3, FALSE, TRUE), KernelSegment(23, 1, TRUE, FALSE)>>

Machine(mode, segments, stack, sp) ==
    [mode |-> mode,
     regions |-> <<MemoryRegion(0, 4, "Conventional"), MemoryRegion(4, 2, "LoaderCode"),
                   MemoryRegion(6, 4, "LoaderData"), MemoryRegion(10, 2, "LoaderData"),
                   MemoryRegion(12, 12, "Conventional"), MemoryRegion(24, 2, stack),
                   MemoryRegion(26, 1, "RuntimeServicesData")>>,
     loader |-> Bytes(8, 3), runtime_heap |-> Bytes(12, 2), kernel_heap |-> Bytes(14, 2),
     framebuffer |-> Bytes(62, 2), memory_map |-> Bytes(17, 2),
     segments |-> segments, load_base |-> 10, sp |-> sp]

(* No region that may be used.                                             *)
Barren(f) == [f EXCEPT !.regions = <<MemoryRegion(0, 32, "Reserved")>>]

Small == [entry |-> 128, segments |-> <<UserSegment(128, 1, 1, FALSE, TRUE)>>]
Large == [entry |-> 129, segments |-> <<UserSegment(128, 2, 2, FALSE, TRUE),
                                        UserSegment(131, 1, 2, TRUE, FALSE)>>]
Writable == [entry |-> 128, segments |-> <<UserSegment(128, 1, 1, TRUE, TRUE)>>]

MCFanout == <<4, 2, 1, 32>>
MCPrograms == {Small, Large, Writable}

MCFirmwares ==
    {Machine("PostExitBootServices", Separate, "BootServicesData", 51),
     Machine("PostExitBootServices", Moved, "Reserved", 51),
     Machine("PostExitBootServices", Mixed, "Reserved", 51),
     Machine("PostExitBootServices", Separate, "Reserved", 10),
     Machine("UefiBootServices", Separate, "BootServicesData", 51),
     Barren(Machine("PostExitBootServices", Separate, "Reserved", 51))}

-----------------------------------------------------------------------------
(* For the allocator alone: two regions that touch; two around a reserved  *)
(* range that ends in the middle of a page; more regions than the table    *)
(* has room for; and pages enough for one freed extent too many.           *)
Map(entries, reserved) ==
    [firmware_mode |-> "PostExitBootServices", memory_regions |-> entries,
     reserved_memory |-> reserved]
Free(first, count) == MemoryRegion(first, count, "Conventional")

MCBootInfos ==
    {Map(<<Free(0, 3), Free(3, 3)>>, <<>>),
     Map(<<Free(0, 7)>>, <<Bytes(5, 2)>>),
     Map([i \in 1 .. 9 |-> Free(2 * i, 1)], <<>>),
     Map(<<Free(0, 9)>>, <<>>)}
MCInitialRegions == {init_regions(b) : b \in MCBootInfos}

MCLayouts == {[size |-> 0, align |-> 1], [size |-> 3, align |-> 1], [size |-> 2, align |-> 8]}

(* A base that is a multiple of the largest alignment and one that is not; *)
(* and what initialize_external refuses: an overlap with the bootstrap     *)
(* region, no address, half a word, too little room.                       *)
External(address, capacity) == [address |-> address, capacity |-> capacity]
MCExternals ==
    {External(256, 176), External(264, 88), External(160, 176), External(0, 176),
     External(260, 176), External(512, 84), External(512, 8)}

ThreadSymmetry == Permutations(Threads)

-----------------------------------------------------------------------------
vmonly == <<firmware, boot_info, phase, held, vm, mem, cr3, spaces>>

(* A machine that is not the subject stays where it starts.                *)
AtEntry ==
    /\ firmware = CHOOSE f \in Firmwares : TRUE
    /\ boot_info = BootInfo(firmware) /\ phase = "entry" /\ held = {}
    /\ vm = FreshManager /\ mem = [p \in 0 .. PhysicalPages - 1 |-> Garbage]
    /\ cr3 = None /\ spaces = {}

MemoryInit ==
    /\ HeapInit
    /\ \/ subject = "vm" /\ VmInit
       \/ subject = "pages" /\ AtEntry /\ Init
       \/ subject = "heap" /\ AtEntry /\ pa = NoPages /\ live = {}

MemoryNext ==
    \/ subject = "vm" /\ VmNext /\ UNCHANGED <<heapvars, subject>>
    \/ subject = "pages" /\ Next /\ UNCHANGED <<vmonly, heapvars, subject>>
    \/ subject = "heap" /\ HeapNext /\ UNCHANGED <<vmonly, vars, subject>>

MemorySpec == MemoryInit /\ [][MemoryNext]_<<vmonly, vars, heapvars, subject>>
=============================================================================
