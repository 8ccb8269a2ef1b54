-------------------------------- MODULE Heap --------------------------------
(***************************************************************************)
(* The heap of the loader and of the kernel (libs/heap-allocator): a small *)
(* bootstrap region inside the image and one external region added later,  *)
(* each with a first fit free list behind a spin lock.                     *)
(*                                                                         *)
(* The unit is a word of 8 bytes: every offset the code computes is a      *)
(* multiple of it, and a size counts for the words it touches.  The linked *)
(* list of free blocks is the sequence of its blocks, the header before an *)
(* allocation an entry of `headers` at the pointer it belongs to.  The     *)
(* counters that only grow (totals, failures, peak) are left out.          *)
(***************************************************************************)
EXTENDS Integers, Sequences, FiniteSets

LOCAL INSTANCE SequencesExt
LOCAL INSTANCE FiniteSetsExt

CONSTANTS
    Threads,
    Layouts,             \* [size, align] that callers ask for, in words
    BootstrapBase, N,    \* the storage inside the image
    Externals,           \* [address, capacity] offered as external region, in bytes
    MaxGranted           \* bound on the allocations callers hold

ASSUME HeapAssumption ==
    /\ BootstrapBase \in Nat \ {0} /\ N \in Nat
    /\ Layouts \subseteq [size : Nat, align : Nat \ {0}]
    /\ Externals \subseteq [address : Nat, capacity : Nat]

VARIABLES
    heap,       \* per region: initialized, free list, used and live counters
    headers,    \* per region: the header in front of each pointer
    external,   \* external_base and external_capacity; base 0 is unset
    lock,       \* per region: the thread inside, or NoThread
    call,       \* per thread: what it is doing
    granted     \* history: [region, pointer, size, align] callers hold

heapvars == <<heap, headers, external, lock, call, granted>>

WordBytes == 8
HeaderWords == 4
FreeBlockWords == 2
HeapRegions == {"bootstrap", "external"}
NoThread == "none"
Idle == [op |-> "idle"]

Block(start, size) == [start |-> start, size |-> size]
BlockEnd(b) == b.start + b.size
BlockWords(b) == b.start .. BlockEnd(b) - 1

CapacityOf(r) == IF r = "bootstrap" THEN N ELSE external.capacity
BaseOf(r) == IF r = "bootstrap" THEN BootstrapBase ELSE external.base

AllocatorState == [initialized |-> FALSE, free |-> <<>>, used |-> 0, live |-> 0]

(* Lazily, by whoever comes first.                                         *)
initialize(state, capacity) ==
    IF state.initialized THEN state
    ELSE [state EXCEPT !.initialized = TRUE, !.free = <<Block(0, capacity)>>]

-----------------------------------------------------------------------------
(* The free list.                                                          *)

AlignTo(value, alignment) == ((value + alignment - 1) \div alignment) * alignment
Larger(a, b) == IF a >= b THEN a ELSE b

UserStart(b, layout) == AlignTo(b.start + HeaderWords, layout.align)
AllocationEnd(b, layout) == UserStart(b, layout) + Larger(layout.size, 1)
FitsIn(b, layout) == AllocationEnd(b, layout) <= BlockEnd(b)

(* The part of a block that an allocation takes: up to where the rest can  *)
(* hold a free block, else all of it.                                      *)
Taken(b, layout) ==
    IF BlockEnd(b) - AllocationEnd(b, layout) >= FreeBlockWords
    THEN Block(b.start, AllocationEnd(b, layout) - b.start)
    ELSE b

Replacement(b, taken) ==
    IF taken = b THEN <<>> ELSE <<Block(BlockEnd(taken), b.size - taken.size)>>

FirstFit(free, layout) == SelectInSeq(free, LAMBDA b : FitsIn(b, layout))

Splice(free, i, layout) ==
    SubSeq(free, 1, i - 1) \o Replacement(free[i], Taken(free[i], layout))
        \o SubSeq(free, i + 1, Len(free))

allocate_from_free_list(state, layout) ==
    LET i == FirstFit(state.free, layout)
        b == state.free[i]
    IN  IF i = 0 THEN [found |-> FALSE, state |-> state]
        ELSE [found |-> TRUE, pointer |-> UserStart(b, layout),
              header |-> Taken(b, layout),
              state |-> [state EXCEPT !.free = Splice(@, i, layout),
                                      !.used = @ + Taken(b, layout).size, !.live = @ + 1]]

(* Mutant: joined with the block after it only.                            *)
insert_free_block_forward(free, b) ==
    LET below == SelectSeq(free, LAMBDA f : f.start < b.start)
        above == SelectSeq(free, LAMBDA f : f.start >= b.start)
    IN  IF above # <<>> /\ BlockEnd(b) = Head(above).start
        THEN below \o <<Block(b.start, b.size + Head(above).size)>> \o Tail(above)
        ELSE below \o <<b>> \o above

(* In order of address, joined with the block after and the block before.  *)
insert_free_block(free, b) ==
    LET below == SelectSeq(free, LAMBDA f : f.start < b.start)
        above == SelectSeq(free, LAMBDA f : f.start >= b.start)
        meets_next == above # <<>> /\ BlockEnd(b) = Head(above).start
        grown == IF meets_next THEN Block(b.start, b.size + Head(above).size) ELSE b
        rest == IF meets_next THEN Tail(above) ELSE above
    IN  IF below # <<>> /\ BlockEnd(Last(below)) = b.start
        THEN Front(below) \o <<Block(Last(below).start, Last(below).size + grown.size)>> \o rest
        ELSE below \o <<grown>> \o rest

(* The checks on the pointer and on the header in front of it.             *)
HeaderValid(r, pointer) ==
    /\ heap[r].initialized
    /\ HeaderWords <= pointer /\ pointer <= CapacityOf(r)
    /\ pointer \in DOMAIN headers[r]
    /\ BlockEnd(headers[r][pointer]) <= CapacityOf(r)

deallocate_into_region(state, header) ==
    [state EXCEPT !.free = insert_free_block(@, header),
                  !.used = @ - header.size, !.live = @ - 1]

-----------------------------------------------------------------------------
(* Threads.  A call loads external_base before it takes a lock; the work   *)
(* between taking and leaving the lock is one step, since every access to  *)
(* a region's state is under its lock.                                     *)

HeapInit ==
    /\ heap = [r \in HeapRegions |-> AllocatorState]
    /\ headers = [r \in HeapRegions |-> <<>>]
    /\ external = [base |-> 0, capacity |-> 0]
    /\ lock = [r \in HeapRegions |-> NoThread]
    /\ call = [t \in Threads |-> Idle]
    /\ granted = {}

(* StateLock::acquire.                                                     *)
Acquire(t) ==
    /\ call[t].op # "idle" /\ ~ call[t].inside
    /\ lock[call[t].region] = NoThread
    /\ lock' = [lock EXCEPT ![call[t].region] = t]
    /\ call' = [call EXCEPT ![t].inside = TRUE]
    /\ UNCHANGED <<heap, headers, external, granted>>

Inside(t, op) == call[t].op = op /\ call[t].inside

(* StateGuard::drop, and what the thread does next.                        *)
Leave(t, next) ==
    /\ lock' = [lock EXCEPT ![call[t].region] = NoThread]
    /\ call' = [call EXCEPT ![t] = next]

Waiting(op, region, arg) == [op |-> op, region |-> region, arg |-> arg, inside |-> FALSE]

CallAlloc(t, layout) ==
    /\ call[t] = Idle
    /\ Cardinality(granted) < MaxGranted
    /\ call' = [call EXCEPT ![t] =
                   Waiting("alloc", IF external.base # 0 THEN "external" ELSE "bootstrap", layout)]
    /\ UNCHANGED <<heap, headers, external, lock, granted>>

(* The external region first; when nothing fits there, the bootstrap one,  *)
(* after its lock is left.                                                 *)
Alloc(t) ==
    LET r == call[t].region
        layout == call[t].arg
    IN  /\ Inside(t, "alloc")
        /\ \E result \in {allocate_from_free_list(initialize(heap[r], CapacityOf(r)), layout)} :
               /\ heap' = [heap EXCEPT ![r] = result.state]
               /\ IF result.found
                  THEN /\ headers' = [headers EXCEPT ![r] =
                              [p \in DOMAIN @ \cup {result.pointer} |->
                                  IF p = result.pointer THEN result.header ELSE @[p]]]
                       /\ granted' = granted \cup
                              {[region |-> r, pointer |-> result.pointer,
                                size |-> layout.size, align |-> layout.align]}
                       /\ Leave(t, Idle)
                  ELSE /\ UNCHANGED <<headers, granted>>
                       /\ Leave(t, IF r = "external" THEN Waiting("alloc", "bootstrap", layout) ELSE Idle)
        /\ UNCHANGED external

(* Which region a pointer goes back to: by its address.                    *)
Owner(g) ==
    LET address == BaseOf(g.region) + g.pointer
    IN  IF external.base # 0 /\ address >= external.base
              /\ address < external.base + external.capacity
        THEN "external" ELSE "bootstrap"

(* A caller gives back what it holds, once.                                *)
CallDealloc(t, g) ==
    /\ call[t] = Idle
    /\ granted' = granted \ {g}
    /\ call' = [call EXCEPT ![t] =
                   Waiting("dealloc", Owner(g), BaseOf(g.region) + g.pointer - BaseOf(Owner(g)))]
    /\ UNCHANGED <<heap, headers, external, lock>>

Dealloc(t) ==
    LET r == call[t].region
        p == call[t].arg
    IN  /\ Inside(t, "dealloc")
        /\ IF HeaderValid(r, p)
           THEN /\ heap' = [heap EXCEPT ![r] = deallocate_into_region(@, headers[r][p])]
                /\ headers' = [headers EXCEPT ![r] = [q \in DOMAIN @ \ {p} |-> @[q]]]
           ELSE UNCHANGED <<heap, headers>>
        /\ Leave(t, Idle)
        /\ UNCHANGED <<external, granted>>

(* initialize_external: the checks, in bytes, then under the lock a second *)
(* region or none.  Any address that is a multiple of a word will do.      *)
ValidExternal(e) ==
    /\ e.address # 0 /\ e.address % WordBytes = 0
    /\ e.capacity >= FreeBlockWords * WordBytes /\ e.capacity % WordBytes = 0
    /\ ~ (/\ e.address < (BootstrapBase + N) * WordBytes
          /\ BootstrapBase * WordBytes < e.address + e.capacity)

CallInitializeExternal(t, e) ==
    /\ call[t] = Idle
    /\ ValidExternal(e)
    /\ call' = [call EXCEPT ![t] = Waiting("initialize", "external", e)]
    /\ UNCHANGED <<heap, headers, external, lock, granted>>

InitializeExternal(t) ==
    LET e == call[t].arg
    IN  /\ Inside(t, "initialize")
        /\ IF external.base # 0 THEN UNCHANGED <<heap, external>>
           ELSE /\ external' = [base |-> e.address \div WordBytes,
                                capacity |-> e.capacity \div WordBytes]
                /\ heap' = [heap EXCEPT !["external"] = initialize(@, external'.capacity)]
        /\ Leave(t, Idle)
        /\ UNCHANGED <<headers, granted>>

(* stats: the bootstrap region, initialized if it was not, then the        *)
(* external one if there is one.                                           *)
CallStats(t) ==
    /\ call[t] = Idle
    /\ call' = [call EXCEPT ![t] = Waiting("stats", "bootstrap", 0)]
    /\ UNCHANGED <<heap, headers, external, lock, granted>>

Stats(t) ==
    LET r == call[t].region
    IN  /\ Inside(t, "stats")
        /\ heap' = [heap EXCEPT ![r] = initialize(@, CapacityOf(r))]
        /\ Leave(t, IF r = "bootstrap" /\ external.base # 0
                    THEN Waiting("stats", "external", 0) ELSE Idle)
        /\ UNCHANGED <<headers, external, granted>>

HeapNext ==
    \E t \in Threads :
        \/ \E layout \in Layouts : CallAlloc(t, layout)
        \/ \E g \in granted : CallDealloc(t, g)
        \/ \E e \in Externals : CallInitializeExternal(t, e)
        \/ CallStats(t)
        \/ Acquire(t)
        \/ Alloc(t) \/ Dealloc(t) \/ InitializeExternal(t) \/ Stats(t)

HeapSpec == HeapInit /\ [][HeapNext]_heapvars

-----------------------------------------------------------------------------
Pending(r) ==
    {call[t].arg : t \in {t \in Threads : call[t].op = "dealloc" /\ call[t].region = r}}

HeldIn(r) == {g.pointer : g \in {g \in granted : g.region = r}}

HeapTypeOK ==
    /\ \A r \in HeapRegions :
           /\ heap[r].initialized \in BOOLEAN
           /\ \A i \in 1 .. Len(heap[r].free) : heap[r].free[i].size >= FreeBlockWords
           /\ heap[r].used \in Nat /\ heap[r].live \in Nat
           /\ lock[r] \in Threads \cup {NoThread}
    /\ \A t \in Threads : call[t] = Idle \/ call[t].region \in HeapRegions
    /\ \A r \in HeapRegions, t \in Threads :
           lock[r] = t <=> (call[t].op # "idle" /\ call[t].region = r /\ call[t].inside)

(* Each region is tiled by its free blocks and by the blocks of what       *)
(* callers hold or are giving back: no word is in two blocks and none is   *)
(* lost, across splits, joins and both regions, also for pointers handed   *)
(* out before the external region existed (lib.rs:376-561, :290-306).      *)
RegionTiled ==
    \A r \in HeapRegions :
        heap[r].initialized =>
            LET held == HeldIn(r) \cup Pending(r)
                blocks == {headers[r][p] : p \in held}
                free == {heap[r].free[i] : i \in 1 .. Len(heap[r].free)}
                size(b) == b.size
            IN  /\ held = DOMAIN headers[r]
                /\ UNION {BlockWords(b) : b \in blocks \cup free} = 0 .. CapacityOf(r) - 1
                /\ MapThenSumSet(size, free) + MapThenSumSet(size, blocks) = CapacityOf(r)
                /\ Cardinality(blocks) = Cardinality(held)

(* The free list is in order of address and no two of its blocks touch, so *)
(* a region all of whose allocations came back is one free block again     *)
(* (lib.rs:500-561).                                                       *)
FreeListJoined ==
    \A r \in HeapRegions : \A i \in 1 .. Len(heap[r].free) - 1 :
        BlockEnd(heap[r].free[i]) < heap[r].free[i + 1].start

(* What a caller holds has the size asked and lies behind the header       *)
(* inside its own block.  Its offset in the region is aligned as asked, so *)
(* the pointer itself is off by what the base of the region is off: it is  *)
(* aligned exactly if the base is a multiple of the alignment, which       *)
(* initialize_external does not ask for (lib.rs:205, :390-446).            *)
PointersSound ==
    \A g \in granted :
        LET b == headers[g.region][g.pointer]
        IN  /\ (BaseOf(g.region) + g.pointer) % g.align = BaseOf(g.region) % g.align
            /\ b.start + HeaderWords <= g.pointer
            /\ g.pointer + Larger(g.size, 1) <= BlockEnd(b)

(* used_bytes and live_allocations are those of the blocks out: the totals *)
(* that stats reports add up to the capacity (lib.rs:441-444, :494-497).   *)
CountersAgree ==
    \A r \in HeapRegions :
        LET size(p) == headers[r][p].size
        IN  /\ heap[r].used = MapThenSumSet(size, DOMAIN headers[r])
            /\ heap[r].live = Cardinality(DOMAIN headers[r])

(* The heap as a whole: regions tiled by free and held blocks, free blocks *)
(* in order and joined, pointers usable and as aligned as the base of      *)
(* their region allows, totals exact, with any number of threads and while *)
(* the external region is being added.                                     *)
HeapSound == HeapTypeOK /\ RegionTiled /\ FreeListJoined /\ PointersSound /\ CountersAgree
=============================================================================
