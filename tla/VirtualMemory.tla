--------------------------- MODULE VirtualMemory ---------------------------
(***************************************************************************)
(* Memory from the loader to the resident kernel: the boot information the *)
(* loader collects, the page tables it builds and switches to, the kernel  *)
(* that adopts them with a page allocator of its own, and the address      *)
(* spaces the kernel makes for processes.                                  *)
(*                                                                         *)
(* Physical and virtual addresses are page numbers here; the ranges of the *)
(* boot information and the segments of programs stay in bytes.  A table   *)
(* is a partial function from indices to entries, in the manager's image   *)
(* (vm.tables, one table per prefix of indices) and in memory (mem).       *)
(***************************************************************************)
EXTENDS PageAllocator, PageRegions, TLC

LOCAL INSTANCE FiniteSetsExt

CONSTANTS
    PhysicalPages,                \* pages of the machine, from 0
    Fanout,                       \* entries of a table, per level from the root
    LOW_MEMORY_RESERVE,           \* bytes the loader keeps at address 0
    IDENTITY_BOOT_WINDOW,         \* pages mapped one to one for the handover
    STACK_WINDOW,                 \* pages around the stack pointer
    HIGH_HALF_BASE, DEMO_BASE,    \* virtual page numbers
    USER_CODE_BASE, USER_STACK_TOP,
    MAX_MEMORY_REGIONS, MAX_RESERVED, MAX_USER_OWNED_PAGES,
    Firmwares,                    \* what the loader may find
    Programs,                     \* [entry, segments] of user programs
    DemoSizes,                    \* sizes of `alloc` and `map`
    MaxSpaces                     \* bound on address spaces alive

VARIABLES
    firmware,   \* the situation this boot started in
    phase,      \* "entry", "initialized", "active", "kernel", "desktop",
                \* "halted", "unmapped", "overrun"
    boot_info,
    vm,         \* the VirtualMemoryManager of the running image
    mem,        \* what each physical page holds, read as a table
    cr3,        \* the root the processor walks
    spaces,     \* UserAddressSpace values alive
    held        \* history: pages of commands, kernel tables and drivers

vmvars == <<pa, live, firmware, phase, boot_info, vm, mem, cr3, spaces, held>>

-----------------------------------------------------------------------------
(* Entries and walks.                                                      *)

TableEntry(p) == [phys |-> p, w |-> TRUE, x |-> TRUE, u |-> FALSE]
UserTableEntry(p) == [phys |-> p, w |-> TRUE, x |-> TRUE, u |-> TRUE]
LeafEntry(p, w, x) == [phys |-> p, w |-> w, x |-> x, u |-> FALSE]

EmptyTable == <<>>
Put(table, i, e) == (i :> e) @@ table

(* What a page holds before somebody clears it: read as a table it opens   *)
(* page 0 to everybody.                                                    *)
Garbage == (1 :> UserTableEntry(0))

Frame(address) == address \div PAGE_SIZE
FrameUp(address) == Frame(address + PAGE_SIZE - 1)

VirtualPages == 0 .. Fanout[1] * Fanout[2] * Fanout[3] * Fanout[4] - 1

split_indices(v) ==
    <<v \div (Fanout[4] * Fanout[3] * Fanout[2]),
      (v \div (Fanout[4] * Fanout[3])) % Fanout[2],
      (v \div Fanout[4]) % Fanout[3],
      v % Fanout[4]>>

Unmapped == [phys |-> None, w |-> FALSE, x |-> FALSE, u |-> FALSE]

(* A walk from a root through tables that contents(p) gives: the page, and *)
(* the rights every level grants.                                          *)
WalkThrough(root, v, Contents(_)) ==
    LET Step(at, i) ==
            IF at = Unmapped \/ i \notin DOMAIN Contents(at.phys) THEN Unmapped
            ELSE LET e == Contents(at.phys)[i]
                 IN  [phys |-> e.phys, w |-> at.w /\ e.w, x |-> at.x /\ e.x, u |-> at.u /\ e.u]
    IN  FoldLeft(Step, UserTableEntry(root), split_indices(v))

(* What the processor does.                                                *)
Translate(root, v) == WalkThrough(root, v, LAMBDA p : mem[p])

(* The walk of the manager's image; a table it does not know ends it.      *)
walk(v) ==
    LET known == {k \in DOMAIN vm.tables : Len(k) \in 1 .. 3}
        Contents(p) ==
            IF p = vm.root THEN vm.tables[<<>>].entries
            ELSE LET ks == {k \in known : vm.tables[k].phys = p}
                 IN  IF ks = {} THEN EmptyTable ELSE vm.tables[CHOOSE k \in ks : TRUE].entries
    IN  WalkThrough(vm.root, v, Contents)

-----------------------------------------------------------------------------
(* What the loader collects.                                               *)

Reserved(start, length, kind) == [start |-> start, length |-> length, kind |-> kind]

push_reserved_range(ranges, r) ==
    IF r.length = 0 \/ Len(ranges) >= MAX_RESERVED THEN ranges ELSE Append(ranges, r)

(* Mutant: the kernel's image is left out.                                 *)
collect_reserved_ranges_no_image(f) ==
    FoldLeft(push_reserved_range, <<>>,
        <<Reserved(0, LOW_MEMORY_RESERVE, "LowMemory"),
          Reserved(f.loader.start, f.loader.length, "LoaderImage"),
          Reserved(f.runtime_heap.start, f.runtime_heap.length, "RuntimeHeap"),
          Reserved(f.kernel_heap.start, f.kernel_heap.length, "KernelHeap"),
          Reserved(f.framebuffer.start, f.framebuffer.length, "FrameBuffer"),
          Reserved(f.memory_map.start, f.memory_map.length, "MemoryMap")>>)

(* stage_kernel_segments gives each segment its pages; the image spans     *)
(* from the lowest to the highest of them.                                 *)
Loadable(f) == {i \in 1 .. Len(f.segments) : f.segments[i].memory_size # 0}
SegmentFirst(s) == Frame(s.virtual_address)
SegmentEnd(s) == FrameUp(s.virtual_address + s.memory_size)
ImageBase(f) == Min({SegmentFirst(f.segments[i]) : i \in Loadable(f)})
ImageEnd(f) == Max({SegmentEnd(f.segments[i]) : i \in Loadable(f)})
ImagePages(f) == IF Loadable(f) = {} THEN 0 ELSE ImageEnd(f) - ImageBase(f)

collect_reserved_ranges(f) ==
    FoldLeft(push_reserved_range, <<>>,
        <<Reserved(0, LOW_MEMORY_RESERVE, "LowMemory"),
          Reserved(f.loader.start, f.loader.length, "LoaderImage"),
          Reserved(f.runtime_heap.start, f.runtime_heap.length, "RuntimeHeap"),
          Reserved(f.kernel_heap.start, f.kernel_heap.length, "KernelHeap"),
          Reserved(f.framebuffer.start, f.framebuffer.length, "FrameBuffer"),
          Reserved(f.memory_map.start, f.memory_map.length, "MemoryMap"),
          Reserved(f.load_base * PAGE_SIZE, ImagePages(f) * PAGE_SIZE, "KernelImageLoad")>>)

(* The firmware's memory map, as far as there is room.                     *)
collect_memory_regions(f) == SubSeq(f.regions, 1, Min({Len(f.regions), MAX_MEMORY_REGIONS}))

BootInfo(f) ==
    [firmware_mode |-> f.mode, memory_regions |-> collect_memory_regions(f),
     reserved_memory |-> collect_reserved_ranges(f)]

(* BootInfo::reserve_memory: grow a range of the kind that ends where the  *)
(* new one starts, else take a free place.                                 *)
reserve_memory(info, start, length, kind) ==
    LET ranges == info.reserved_memory
        before == {i \in 1 .. Len(ranges) :
                       ranges[i].kind = kind /\ ranges[i].start + ranges[i].length = start}
    IN  IF length = 0 \/ (before = {} /\ Len(ranges) >= MAX_RESERVED)
        THEN [ok |-> FALSE, info |-> info]
        ELSE [ok |-> TRUE,
              info |-> IF before # {}
                       THEN [info EXCEPT !.reserved_memory[First(before)].length = @ + length]
                       ELSE [info EXCEPT !.reserved_memory = Append(@, Reserved(start, length, kind))]]

(* Reserve what the loader's allocator has handed out: its page tables.    *)
reserve_allocated(info, a) ==
    FoldLeft(LAMBDA acc, r :
                 IF acc.ok THEN reserve_memory(acc.info, r.start, r.length, "PageTables") ELSE acc,
             [ok |-> TRUE, info |-> info], allocated_ranges(a.regions))

-----------------------------------------------------------------------------
(* The manager.  Its operations go from one working state to the next; a   *)
(* state with an error passes through unchanged, as `?` does.              *)

Working(a, pages, manager) == [pa |-> a, live |-> pages, vm |-> manager, err |-> "none"]
Fail(s, error) == [s EXCEPT !.err = error]
Ok(s) == s.err = "none"

FreshManager ==
    [initialized |-> FALSE, committed |-> FALSE, active |-> FALSE, root |-> 0,
     tables |-> <<>>, mappings |-> {}, mapped_pages |-> 0]

ManagerWithRoot(root) ==
    [FreshManager EXCEPT !.initialized = TRUE, !.root = root,
                         !.tables = (<<>> :> [phys |-> root, entries |-> EmptyTable])]

WithTable(s, key, r) ==
    IF r.page = None THEN Fail(s, "OutOfPhysicalPages")
    ELSE [s EXCEPT !.pa = r.pa, !.live = @ \cup {r.page}, !.vm.committed = FALSE,
             !.vm.tables = (key :> [phys |-> r.page, entries |-> EmptyTable]) @@
                 [@ EXCEPT ![Front(key)].entries = Put(@, Last(key), TableEntry(r.page))]]

(* get_or_create_l3, _l2 and _l1: the key is the path of indices.          *)
get_or_create(s, key) ==
    IF ~ Ok(s) \/ key \in DOMAIN s.vm.tables THEN s
    ELSE WithTable(s, key, allocate_page(s.pa))

TablesFor(s, i) ==
    FoldLeft(get_or_create, s, <<SubSeq(i, 1, 1), SubSeq(i, 1, 2), SubSeq(i, 1, 3)>>)

(* Mutant: the tables still count as written after a new leaf.             *)
WithLeaf_committed(s, key, slot, entry) ==
    IF ~ Ok(s) THEN s
    ELSE IF slot \notin DOMAIN s.vm.tables[key].entries
    THEN [s EXCEPT !.vm.tables[key].entries = Put(@, slot, entry), !.vm.mapped_pages = @ + 1]
    ELSE IF s.vm.tables[key].entries[slot] = entry THEN s
    ELSE Fail(s, "AlreadyMapped")

WithLeaf(s, key, slot, entry) ==
    IF ~ Ok(s) THEN s
    ELSE IF slot \notin DOMAIN s.vm.tables[key].entries
    THEN [s EXCEPT !.vm.tables[key].entries = Put(@, slot, entry),
                   !.vm.mapped_pages = @ + 1, !.vm.committed = FALSE]
    ELSE IF s.vm.tables[key].entries[slot] = entry THEN s
    ELSE Fail(s, "AlreadyMapped")

ensure_leaf_mapping(s, v, p, w, x) ==
    WithLeaf(TablesFor(s, split_indices(v)), SubSeq(split_indices(v), 1, 3),
             split_indices(v)[4], LeafEntry(p, w, x))

(* sync_pages: every table of the image goes to its page.                  *)
sync_pages(manager, memory) ==
    LET pages == {manager.tables[k].phys : k \in DOMAIN manager.tables}
        Image(p) == manager.tables[CHOOSE k \in DOMAIN manager.tables :
                                       manager.tables[k].phys = p].entries
    IN  [p \in DOMAIN memory |-> IF p \in pages THEN Image(p) ELSE memory[p]]

(* The requests of prepare_boot_identity_map, page by page.                *)
Request(v, p, w, x) == [virt |-> v, phys |-> p, w |-> w, x |-> x]

RangeRequests(base, start, end, w, x) ==
    {Request(base + p, p, w, x) : p \in Frame(start) .. FrameUp(end) - 1}

KernelHoles(f) ==
    UNION {SegmentFirst(f.segments[i]) .. SegmentEnd(f.segments[i]) - 1 : i \in Loadable(f)}

IdentityRequests(f) ==
    {Request(p, p, TRUE, TRUE) : p \in (0 .. IDENTITY_BOOT_WINDOW - 1) \ KernelHoles(f)}

StackRequests(f) ==
    RangeRequests(0, Max({0, f.sp - (STACK_WINDOW \div 2) * PAGE_SIZE}),
                  f.sp + (STACK_WINDOW \div 2) * PAGE_SIZE, TRUE, FALSE)

KeptIdentity == {"LoaderImage", "LowMemory", "RuntimeHeap", "KernelHeap", "DescriptorTables"}
IdentityExecutable == {"LoaderImage", "LowMemory"}

ReservedRequests(r) ==
    (IF r.kind \in KeptIdentity
     THEN RangeRequests(0, r.start, r.start + r.length, TRUE, r.kind \in IdentityExecutable)
     ELSE {})
    \cup RangeRequests(HIGH_HALF_BASE, r.start, r.start + r.length, TRUE, FALSE)

RegionRequests(info, r) ==
    IF region_is_currently_usable(info.firmware_mode, r.kind)
    THEN RangeRequests(HIGH_HALF_BASE, r.start, r.start + r.page_count * PAGE_SIZE, TRUE, FALSE)
    ELSE {}

Elements(s) == {s[i] : i \in 1 .. Len(s)}

(* The rights of a page of the kernel's image: those of every segment that *)
(* has a part of it.                                                       *)
Covering(f, v) == {i \in Loadable(f) : SegmentFirst(f.segments[i]) <= v /\ v < SegmentEnd(f.segments[i])}
PageWritable(f, v) == \E i \in Covering(f, v) : f.segments[i].writable
PageExecutable(f, v) == \E i \in Covering(f, v) : f.segments[i].executable

kernel_page_mappings(f) ==
    {Request(v, f.load_base + v - ImageBase(f), PageWritable(f, v), PageExecutable(f, v)) :
         v \in KernelHoles(f)}

KernelWritableExecutable(f) ==
    \E v \in KernelHoles(f) : PageWritable(f, v) /\ PageExecutable(f, v)

BootRequests(f, info) ==
    IdentityRequests(f) \cup StackRequests(f)
        \cup RangeRequests(HIGH_HALF_BASE, 0, IDENTITY_BOOT_WINDOW * PAGE_SIZE, TRUE, FALSE)
        \cup UNION {ReservedRequests(r) : r \in Elements(info.reserved_memory)}
        \cup UNION {RegionRequests(info, r) : r \in Elements(info.memory_regions)}
        \cup kernel_page_mappings(f)

(* Two requests for a virtual page agree, or the later one is refused.     *)
Conflicting(requests) ==
    \E q, r \in requests : q.virt = r.virt /\ q # r

(* The paths of the tables that a set of requests needs, parents first.    *)
Paths(requests) ==
    LET paths == {SubSeq(split_indices(q.virt), 1, k) : q \in requests, k \in 1 .. 3}
    IN  SetToSortSeq(paths, LAMBDA p, q :
            LET at == {i \in 1 .. Min({Len(p), Len(q)}) : p[i] # q[i]}
            IN  IF at = {} THEN Len(p) < Len(q) ELSE p[Min(at)] < q[Min(at)])

(* The leaves that a set of requests puts in one table.                    *)
LeavesAt(requests, key) ==
    LET here == {q \in requests : SubSeq(split_indices(q.virt), 1, 3) = key}
    IN  [i \in {split_indices(q.virt)[4] : q \in here} |->
            LET q == CHOOSE r \in here : split_indices(r.virt)[4] = i
            IN  LeafEntry(q.phys, q.w, q.x)]

WithLeaves(s, requests) ==
    IF ~ Ok(s) THEN s
    ELSE IF Conflicting(requests) THEN Fail(s, "AlreadyMapped")
    ELSE [s EXCEPT !.vm.mapped_pages = Cardinality(requests),
                   !.vm.tables = [k \in DOMAIN @ |->
                       IF Len(k) < 3 THEN @[k]
                       ELSE [phys |-> @[k].phys, entries |-> LeavesAt(requests, k)]]]

(* Every table the requests need, then all their leaves.  Which request a  *)
(* refusal meets first makes no difference: each of them halts the loader. *)
MapAll(s, requests) == WithLeaves(FoldLeft(get_or_create, s, Paths(requests)), requests)

prepare_boot_identity_map(s, f, info) ==
    IF KernelWritableExecutable(f) THEN Fail(s, "KernelWritableExecutable")
    ELSE MapAll(s, BootRequests(f, info))

(* map_range: a page for each virtual page, then its leaf; an error in the *)
(* middle leaves what was done.                                            *)
MapTaken(s, v, r) ==
    IF r.page = None THEN Fail(s, "OutOfPhysicalPages")
    ELSE ensure_leaf_mapping([s EXCEPT !.pa = r.pa, !.live = @ \cup {r.page}],
                             v, r.page, TRUE, FALSE)

Recorded(s, before, pages) ==
    IF Ok(s) THEN [s EXCEPT !.vm.mappings = @ \cup pages]
    ELSE [s EXCEPT !.vm.mapped_pages = before]

map_range(s, first, n) ==
    IF n = 0 THEN Fail(s, "InvalidPageCount")
    ELSE IF Span(first, n) \cap s.vm.mappings # {} THEN Fail(s, "AlreadyMapped")
    ELSE Recorded(FoldLeft(LAMBDA t, v : IF Ok(t) THEN MapTaken(t, v, allocate_page(t.pa)) ELSE t,
                           s, [k \in 1 .. n |-> first + k - 1]),
                  s.vm.mapped_pages, Span(first, n))

next_demo_base(manager) == DEMO_BASE + manager.mapped_pages

-----------------------------------------------------------------------------
(* Address spaces of processes, built directly in memory.                  *)

(* Working state: the allocator, memory, and the pages owned so far.       *)
Building(a, pages, memory) ==
    [pa |-> a, live |-> pages, mem |-> memory, owned |-> <<>>, err |-> "none"]

Returned(s, p, back) ==
    [s EXCEPT !.pa = back.pa, !.live = IF back.ok THEN @ \ {p} ELSE @]

GiveBack(s, p) == Returned(s, p, deallocate_contiguous_pages(s.pa, p, 1))

(* Mutant: the page keeps what it held.                                    *)
OwnPage_unzeroed(s, r) ==
    IF r.page = None THEN Fail(s, "OutOfPhysicalPages")
    ELSE IF Len(s.owned) >= MAX_USER_OWNED_PAGES THEN Fail(s, "UserPageTrackingCapacity")
    ELSE [s EXCEPT !.pa = r.pa, !.live = @ \cup {r.page}, !.owned = Append(@, r.page)]

(* A page is cleared and recorded; one that cannot be recorded goes back.  *)
OwnPage(s, r) ==
    IF r.page = None THEN Fail(s, "OutOfPhysicalPages")
    ELSE IF Len(s.owned) < MAX_USER_OWNED_PAGES
    THEN [s EXCEPT !.pa = r.pa, !.live = @ \cup {r.page}, !.mem[r.page] = EmptyTable,
                   !.owned = Append(@, r.page)]
    ELSE GiveBack([s EXCEPT !.pa = r.pa, !.live = @ \cup {r.page}, !.mem[r.page] = EmptyTable,
                            !.err = "UserPageTrackingCapacity"], r.page)

allocate_owned_zeroed_page(s) == IF Ok(s) THEN OwnPage(s, allocate_page(s.pa)) ELSE s

(* One level down: the child table, made on the way if it is missing.      *)
LinkChild(s, table, i) ==
    IF Ok(s)
    THEN [s |-> [s EXCEPT !.mem[table] = Put(@, i, UserTableEntry(Last(s.owned)))],
          table |-> Last(s.owned)]
    ELSE [s |-> s, table |-> table]

DescendOrCreate(at, i) ==
    IF ~ Ok(at.s) THEN at
    ELSE IF i \notin DOMAIN at.s.mem[at.table]
    THEN LinkChild(allocate_owned_zeroed_page(at.s), at.table, i)
    ELSE IF at.s.mem[at.table][i].u
    THEN [at EXCEPT !.table = at.s.mem[at.table][i].phys]
    ELSE [at EXCEPT !.s.err = "UserRegionConflict"]

WithUserLeaf(at, slot, entry) ==
    IF ~ Ok(at.s) THEN at.s
    ELSE IF slot \in DOMAIN at.s.mem[at.table] THEN Fail(at.s, "UserMappingConflict")
    ELSE [at.s EXCEPT !.mem[at.table] = Put(@, slot, entry)]

raw_map_user_page(s, root, v, p, w, x) ==
    WithUserLeaf(FoldLeft(DescendOrCreate, [s |-> s, table |-> root],
                          SubSeq(split_indices(v), 1, 3)),
                 split_indices(v)[4], [LeafEntry(p, w, x) EXCEPT !.u = TRUE])

(* A page of a program: taken, filled, mapped.  What is written to it is   *)
(* not a table.                                                            *)
FillAndMap(s, root, q) ==
    IF ~ Ok(s) THEN s
    ELSE raw_map_user_page([s EXCEPT !.mem[Last(s.owned)] = Garbage], root, q.virt,
                           Last(s.owned), q.w, q.x)

AddUserPage(s, root, q) == FillAndMap(allocate_owned_zeroed_page(s), root, q)

StackRequest == Request(USER_STACK_TOP - 1, None, TRUE, FALSE)

SegmentRequests(segment) ==
    LET first == Frame(segment.virtual_address)
    IN  [k \in 1 .. FrameUp(segment.virtual_address + segment.memory_size) - first |->
            Request(first + k - 1, None, segment.writable, segment.executable)]

ProgramRequests(program) ==
    Append(FlattenSeq([i \in 1 .. Len(program.segments) |-> SegmentRequests(program.segments[i])]),
           StackRequest)

validate_user_program(program) ==
    LET segments == program.segments
        EndOf(s) == s.virtual_address + s.memory_size
        FramesOf(s) == Frame(s.virtual_address) .. FrameUp(EndOf(s)) - 1
    IN  /\ segments # <<>>
        /\ \A i \in 1 .. Len(segments) :
               /\ segments[i].memory_size # 0
               /\ ~ (segments[i].writable /\ segments[i].executable)
               /\ segments[i].data_len <= segments[i].memory_size
               /\ FramesOf(segments[i]) \subseteq USER_CODE_BASE .. USER_STACK_TOP - 2
               /\ \A j \in 1 .. i - 1 : FramesOf(segments[j]) \cap FramesOf(segments[i]) = {}
        /\ \E i \in 1 .. Len(segments) :
               /\ segments[i].executable
               /\ program.entry >= segments[i].virtual_address
               /\ program.entry < segments[i].virtual_address + segments[i].data_len

(* UserPageOwnership::reclaim: last page first, each cleared and given     *)
(* back; one that is refused stays out.                                    *)
reclaim(s) ==
    FoldLeft(LAMBDA t, p : GiveBack([t EXCEPT !.mem[p] = EmptyTable], p), s, Reverse(s.owned))

BuildSpace(s, program, root, kernel_root) ==
    IF ~ Ok(s) THEN s
    ELSE IF split_indices(USER_CODE_BASE)[1] \in DOMAIN s.mem[kernel_root]
    THEN Fail(s, "UserRegionConflict")
    ELSE FoldLeft(LAMBDA t, q : AddUserPage(t, root, q),
                  [s EXCEPT !.mem[root] = s.mem[kernel_root]], ProgramRequests(program))

(* The root is the first page owned: a copy of the root in use.            *)
create_user_address_space(s, program, kernel_root) ==
    LET rooted == allocate_owned_zeroed_page(s)
    IN  BuildSpace(rooted, program, rooted.owned[1], kernel_root)

-----------------------------------------------------------------------------
(* The run of the machine.                                                 *)

NoPages == [regions |-> <<>>, free_extents |-> <<>>, allocated_pages |-> 0]

VmInit ==
    /\ firmware \in Firmwares
    /\ boot_info = BootInfo(firmware)
    /\ phase = "entry"
    /\ pa = NoPages /\ live = {} /\ held = {}
    /\ vm = FreshManager
    /\ mem = [p \in 0 .. PhysicalPages - 1 |-> Garbage]
    /\ cr3 = None                       \* the firmware's tables
    /\ spaces = {}

(* The kernel's image is where it was linked.                              *)
KernelMappedIn(memory) ==
    LET Contents(p) == memory[p]
    IN  \A v \in KernelHoles(firmware) :
            WalkThrough(cr3, v, Contents).phys = firmware.load_base + v - ImageBase(firmware)

(* Where a step leads: a kernel that loses its own mappings does not run   *)
(* on.  One whose stack page was handed out for something else may do      *)
(* anything once that page is written, and is not followed further.        *)
Onward(next, memory, pages) ==
    IF Frame(firmware.sp) \in pages THEN "overrun"
    ELSE IF next = "kernel" /\ ~ KernelMappedIn(memory) THEN "unmapped" ELSE next

(* While a process runs, the kernel's loop does not.                       *)
OnKernelRoot == phase = "kernel" /\ cr3 = vm.root
Commands == phase = "desktop" \/ OnKernelRoot

(* boot_runtime::init: the allocator, then the root table, written out.    *)
RuntimeInit ==
    LET r == allocate_page(memory_init(init_regions(boot_info)))
    IN  /\ phase = "entry"
        /\ pa' = r.pa
        /\ IF r.page = None
           THEN UNCHANGED <<live, vm, mem>>
           ELSE /\ live' = {r.page}
                /\ vm' = [ManagerWithRoot(r.page) EXCEPT !.committed = TRUE]
                /\ mem' = [mem EXCEPT ![r.page] = EmptyTable]
        /\ held' = live'
        /\ phase' = Onward(IF boot_info.firmware_mode = "UefiBootServices" THEN "desktop" ELSE "initialized",
                           mem', live')
        /\ UNCHANGED <<firmware, boot_info, cr3, spaces>>

(* activate_post_ebs_vm: build the map, write it out, reserve the pages it *)
(* took, switch; an error halts the machine.                               *)
ActivateVm ==
    /\ phase = "initialized"
    /\ \E s \in {prepare_boot_identity_map(Working(pa, live, vm), firmware, boot_info)} :
       \E reserved \in {reserve_allocated(boot_info, s.pa)} :
           IF vm.initialized /\ Ok(s) /\ reserved.ok
           THEN /\ vm' = [s.vm EXCEPT !.committed = TRUE, !.active = TRUE]
                /\ mem' = sync_pages(s.vm, mem)
                /\ boot_info' = reserved.info
                /\ cr3' = s.vm.root
                /\ pa' = s.pa /\ live' = s.live /\ held' = s.live
                /\ phase' = Onward("active", mem', live')
           ELSE /\ phase' = "halted"
                /\ UNCHANGED <<vm, mem, boot_info, cr3, pa, live, held>>
    /\ UNCHANGED <<firmware, spaces>>

(* chainload_kernel and init_standalone: another image with statics of its *)
(* own, which starts an allocator from the boot information and adopts the *)
(* root it finds.                                                          *)
AdoptVm ==
    LET heaps == {r \in Elements(boot_info.reserved_memory) : r.kind = "KernelHeap"}
    IN  /\ phase = "active"
        /\ pa' = memory_init(init_regions(boot_info))
        /\ live' = {} /\ held' = {}
        /\ vm' = [ManagerWithRoot(cr3) EXCEPT !.committed = TRUE, !.active = TRUE]
        /\ phase' = IF heaps = {} THEN "halted" ELSE "kernel"
        /\ UNCHANGED <<firmware, boot_info, mem, cr3, spaces>>

(* `alloc-page`, each page of `alloc`, and the drivers' queues and buffers. *)
AllocatePages(n) ==
    /\ Commands
    /\ \E r \in {allocate_contiguous_pages(pa, n)} :
           /\ r.page # None
           /\ pa' = r.pa
           /\ live' = live \cup Span(r.page, n)
           /\ held' = held \cup Span(r.page, n)
    /\ phase' = Onward(phase, mem, live')
    /\ UNCHANGED <<firmware, boot_info, vm, mem, cr3, spaces>>

(* `vm-sync`.                                                              *)
VmSync ==
    /\ Commands /\ vm.initialized
    /\ mem' = sync_pages(vm, mem)
    /\ vm' = [vm EXCEPT !.committed = TRUE]
    /\ phase' = Onward(phase, mem', live)
    /\ UNCHANGED <<pa, live, firmware, boot_info, cr3, spaces, held>>

(* `map-test` and `map`.                                                   *)
MapDemoRange(n) ==
    /\ Commands /\ vm.initialized
    /\ Span(next_demo_base(vm), n) \subseteq VirtualPages
    /\ \E s \in {map_range(Working(pa, live, vm), next_demo_base(vm), n)} :
           /\ pa' = s.pa /\ live' = s.live
           /\ held' = held \cup (s.live \ live)
           /\ vm' = IF Ok(s) THEN [s.vm EXCEPT !.committed = TRUE] ELSE s.vm
           /\ mem' = IF Ok(s) THEN sync_pages(s.vm, mem) ELSE mem
           /\ phase' = Onward(phase, mem', live')
    /\ UNCHANGED <<firmware, boot_info, cr3, spaces>>

(* A process is made from the kernel's root; what was taken for one that   *)
(* fails is given back.                                                    *)
CreateSpace(program) ==
    /\ OnKernelRoot
    /\ Cardinality(spaces) < MaxSpaces
    /\ validate_user_program(program)
    /\ \E s \in {create_user_address_space(Building(pa, live, mem), program, cr3)} :
       \E kept \in {IF Ok(s) THEN s ELSE reclaim(s)} :
           /\ pa' = kept.pa /\ live' = kept.live /\ mem' = kept.mem
           /\ spaces' = IF Ok(s)
                        THEN spaces \cup {[root |-> s.owned[1], owned |-> s.owned, program |-> program]}
                        ELSE spaces
           /\ phase' = Onward(phase, mem', live \cup Elements(s.owned))
    /\ UNCHANGED <<firmware, boot_info, vm, cr3, held>>

DestroySpace(space) ==
    /\ phase = "kernel"
    /\ cr3 # space.root
    /\ \E s \in {reclaim([Building(pa, live, mem) EXCEPT !.owned = space.owned])} :
           pa' = s.pa /\ live' = s.live /\ mem' = s.mem
    /\ spaces' = spaces \ {space}
    /\ UNCHANGED <<firmware, phase, boot_info, vm, cr3, held>>

(* switch_root, to a process or back to the kernel's root.                 *)
SwitchRoot(root) ==
    /\ phase = "kernel" /\ cr3 # root
    /\ cr3' = root
    /\ UNCHANGED <<pa, live, firmware, phase, boot_info, vm, mem, spaces, held>>

VmNext ==
    \/ RuntimeInit \/ ActivateVm \/ AdoptVm
    \/ \E n \in DemoSizes : AllocatePages(n)
    \/ VmSync
    \/ \E n \in DemoSizes : MapDemoRange(n)
    \/ \E program \in Programs : CreateSpace(program)
    \/ \E space \in spaces : DestroySpace(space)
    \/ \E root \in {vm.root} \cup {space.root : space \in spaces} : SwitchRoot(root)

VmSpec == VmInit /\ [][VmNext]_vmvars

-----------------------------------------------------------------------------
EntryType == [phys : 0 .. PhysicalPages - 1, w : BOOLEAN, x : BOOLEAN, u : BOOLEAN]

VmTypeOK ==
    /\ TypeOK
    /\ phase \in {"entry", "initialized", "active", "kernel", "desktop", "halted",
                 "unmapped", "overrun"}
    /\ \A p \in 0 .. PhysicalPages - 1 : \A i \in DOMAIN mem[p] : mem[p][i] \in EntryType
    /\ cr3 \in {None} \cup 0 .. PhysicalPages - 1
    /\ held \subseteq live

Owned(space) == Elements(space.owned)

(* The tables the processor reaches from a root.                           *)
TablesFrom(root) ==
    LET Below(S) == UNION {{mem[p][i].phys : i \in DOMAIN mem[p]} : p \in S}
        l3 == Below({root})
        l2 == Below(l3)
    IN  {root} \cup l3 \cup l2 \cup Below(l2)

(* The pages the running system relies on besides the tables it walks: its *)
(* image, its heap, the boot information in the loader's heap, the         *)
(* framebuffer.                                                            *)
Relied ==
    LET kept(r) == Frame(r.start) .. FrameUp(r.start + r.length) - 1
    IN  kept(firmware.kernel_heap) \cup kept(firmware.runtime_heap)
        \cup kept(firmware.framebuffer) \cup kept(firmware.memory_map)
        \cup Span(firmware.load_base, ImagePages(firmware))

(* The stack is on offer where the firmware's map calls its page usable    *)
(* and no range happens to cover it: collect_reserved_ranges reserves      *)
(* nothing for the stack (uefi-loader main.rs:345-395).                    *)
StackExposed(f) ==
    LET InRange(start, length) == Frame(f.sp) \in Frame(start) .. FrameUp(start + length) - 1
    IN  /\ \E r \in Elements(f.regions) :
               /\ region_is_currently_usable(f.mode, r.kind)
               /\ InRange(r.start, r.page_count * PAGE_SIZE)
        /\ ~ \E r \in Elements(collect_reserved_ranges(f)) : InRange(r.start, r.length)

(* Neither the loader's allocator nor the kernel's, started afresh from    *)
(* the boot information, offers or has handed out a page that the system   *)
(* relies on; the tables the processor walks are never on offer, since the *)
(* loader reserved them before the jump and destroying an address space    *)
(* never frees the tables in use (boot-runtime lib.rs:98-120,              *)
(* vm.rs:1158-1167).  The stack is the exception: it is kept only where it *)
(* is not exposed.                                                         *)
InUseNotAvailable ==
    phase # "entry" =>
        /\ Relied \cap (AvailableOf(pa) \cup live) = {}
        /\ cr3 # None => TablesFrom(cr3) \cap (AvailableOf(pa) \cup Relied) = {}
        /\ Frame(firmware.sp) \in AvailableOf(pa) \cup live => StackExposed(firmware)
        /\ phase = "overrun" => StackExposed(firmware)

(* Every page the kernel may hand out or has handed out has its high half  *)
(* alias, writable and not executable, in the tables the processor walks,  *)
(* whichever root is loaded: clearing a page, building a table and the     *)
(* drivers' buffers all go through it (vm.rs:564-581, :1358-1372).         *)
DirectMapCovers ==
    phase = "kernel" =>
        \A p \in live \cup AvailableOf(pa) \cup TablesFrom(cr3) :
            Translate(cr3, HIGH_HALF_BASE + p) = [phys |-> p, w |-> TRUE, x |-> FALSE, u |-> FALSE]

(* From Ring 3 a process reaches the pages of its own program and stack,   *)
(* each with the rights its segment asks for, and nothing else; from Ring  *)
(* 0 it sees what the kernel's root maps (vm.rs:1042-1156).                *)
SpacesIsolated ==
    phase = "kernel" =>
        \A space \in spaces : \A v \in VirtualPages :
            LET t == Translate(space.root, v)
                asked == {q \in Elements(ProgramRequests(space.program)) : q.virt = v}
            IN  IF t.u THEN /\ t.phys \in Owned(space)
                            /\ \E q \in asked : q.w = t.w /\ q.x = t.x
                ELSE asked = {} /\ t = Translate(vm.root, v)

(* No page belongs to two owners, and none is lost: what is allocated is   *)
(* what commands, drivers and the tables hold and what the live address    *)
(* spaces own, also after a creation that failed halfway.                  *)
NoPageLeaked ==
    phase # "entry" =>
        /\ live = held \cup UNION {Owned(space) : space \in spaces}
        /\ \A s \in spaces : Owned(s) \cap held = {}
        /\ \A s, t \in spaces : s # t => Owned(s) \cap Owned(t) = {}

(* The manager that built its tables itself: the loader's, and the one of  *)
(* a desktop under boot services, whose tables the processor never walks.  *)
BuiltItself == phase \in {"initialized", "active", "desktop"}

(* While the manager reports its tables as written, a page that its walk   *)
(* answers is the one a walk of memory from its root arrives at, after     *)
(* maps that succeed and maps that fail halfway; the manager that built    *)
(* its tables answers for every page of them.  The kernel's manager has no *)
(* copies of the root it adopted and answers for no page of it, although   *)
(* it reports it as written (vm.rs:237-300, :671-773, :792-828).           *)
CommittedIsWritten ==
    vm.committed =>
        \A v \in VirtualPages :
            \/ walk(v) = Unmapped /\ ~ BuiltItself
            \/ walk(v) = Translate(vm.root, v)

(* No page of the kernel's image is both writable and executable where the *)
(* kernel runs (README.md:30, vm.rs:1465-1470), and each has the rights of *)
(* its segments.                                                           *)
KernelRights ==
    phase = "kernel" =>
        \A v \in KernelHoles(firmware) :
            LET t == Translate(cr3, v)
            IN  /\ t.phys = firmware.load_base + v - ImageBase(firmware)
                /\ t.w = (\E i \in Covering(firmware, v) : firmware.segments[i].writable)
                /\ t.x = (\E i \in Covering(firmware, v) : firmware.segments[i].executable)
                /\ ~ (t.w /\ t.x) /\ ~ t.u

(* The tables the processor walks keep the kernel's image mapped as long   *)
(* as the kernel runs (kernel-image main.rs:42-45).                        *)
KernelStaysMapped == phase # "unmapped"

(* Every page has one owner across the hand-over from the loader and every *)
(* address space made or given up: no page of the image, the heaps, the    *)
(* framebuffer, the boot information or the tables is offered again, the   *)
(* stack only where the firmware left it in usable memory, and no page is  *)
(* lost (boot-runtime lib.rs:98-120, vm.rs:1042-1167).                     *)
PagesOwned == VmTypeOK /\ InUseNotAvailable /\ NoPageLeaked

(* Tables in memory are what their users take them for: a page the manager *)
(* answers for while it reports its tables as written is the one memory    *)
(* has, and in the kernel the high half reaches every page it may hand     *)
(* out, whichever root is loaded.                                          *)
TablesAgree == DirectMapCovers /\ CommittedIsWritten

(* Rights follow the segments, for the kernel's image and for every        *)
(* process: no page of the image is writable and executable where it runs, *)
(* and a process reaches its own pages only.                               *)
RightsKept == SpacesIsolated /\ KernelRights
=============================================================================
