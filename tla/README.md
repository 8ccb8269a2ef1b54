# Verification of CodexOS

TLA+ models of the parts of CodexOS whose correctness depends on the order in
which things happen: crashes between two disk writes, interrupts between two
instructions, packets that arrive twice, a completion after its timeout, an
allocator at its limit.

## 1. The system

| part | source | module | what makes it hard |
|---|---|---|---|
| CodexFS, commit and recovery | `kernel/src/fs.rs` | `CodexFs`, `FsGeometry`, `CodexFsReset`, `CodexFsReadError` | power loss and torn sectors between writes, cached writes that reach the medium in any order, failed commits retried, device growth |
| CodexFS, the tree | `kernel/src/fs.rs` | `FsTree` | a sequence of legal calls that commits what no mount accepts, a commit that fails halfway |
| kernel image | `kernel-image/src/main.rs`, `kernel/src/hardware.rs`, `kernel/src/process.rs` | `KernelImage`, `Pci`, `IsolationProbe` | power loss between two gates, a disk written by another version |
| virtio-blk driver | `kernel/src/block.rs` | `VirtioBlock`, `Virtqueue`, `BlockContract` | a completion that arrives after the timeout, indices that wrap |
| virtio-net driver, DHCP, ARP, ICMP, DNS, HTTP | `kernel/src/network.rs` | `VirtioNet`, `Virtqueue`, `NetClient` | answers lost, late, repeated and from two servers; one buffer each way |
| TCP listener | `kernel/src/network.rs` | `TcpListener` | duplicated, reordered and lost segments, a full table |
| scheduler and timer | `kernel/src/scheduler.rs`, `kernel/src/interrupts.rs` | `Scheduler` | preemption at any instruction, everybody asleep, an interrupt nobody acknowledges |
| boot loader, updater, their formats | `boot/uefi-loader/src/main.rs`, `xtask/src/main.rs`, `libs/update-format/src/lib.rs` | `BootChain` | a power loss between two writes, a damaged slot, a replaced key |
| page allocator | `kernel/src/memory.rs` | `PageRegions`, `PageAllocator` | fragmentation, a second free, a full list |
| heap | `libs/heap-allocator/src/lib.rs` | `Heap` | alignment, joining, a region added between two calls |
| virtual memory and hand-over | `kernel/src/vm.rs`, `libs/boot-runtime/src/lib.rs`, `libs/bootinfo/src/lib.rs`, `boot/uefi-loader/src/main.rs` | `VirtualMemory` | tables in memory and their copies disagree, a creation that fails halfway, pages in use that the new allocator does not know |
| input and desktop | `kernel/src/input.rs`, `kernel/src/desktop.rs` | `Console` | bytes of two devices in one port, late answers, a packet dropped in the middle of a drag |

The parts meet in few places. The loader chooses and stages a kernel, collects
the boot information and builds the page tables; the kernel adopts them and
starts an allocator of its own from that information. The kernel image then goes
through a chain of gates: it lists the PCI bus, runs the isolation probe and the
scheduler, mounts CodexFS on the virtio-blk driver, counts the boot, configures
the network, and ends in a loop that polls input and network and redraws. Any
error on the way halts it. The boot loader and the offline updater never run at
the same time: they meet through the files of the EFI System Partition and two
UEFI variables. Everything runs on one CPU, so interleavings come from
interrupts, from devices and their caches, from packets, and from the points at
which power or a process is lost.

Modules that stand for an interface are composed in three ways. `CodexFs`
assumes a block device that either carries an operation out or reports an error;
`BlockContract` states that device and `VirtioBlock` is shown to implement it.
`FsTree` takes a commit as one step with the outcomes `SnapshotStore` allows,
which `CodexFs` is shown to implement. `KernelImage` extends `FsTree`, `Pci` and
`IsolationProbe`; `NetClient` extends `VirtioNet`, which extends `Virtqueue` as
`VirtioBlock` does; `VirtualMemory` extends `PageAllocator` and `PageRegions`.

Properties are stated in the module they are about. Where a run checks several
that belong together, the conjunction has a name of its own (`HeapSound`,
`PagesOwned`, ...) and each conjunct keeps its definition and comment.

## 2. CodexFS

Modules: `FsGeometry` (arithmetic of record slots), `CodexFs` (commit and
recovery), `SnapshotStore` (what is promised), `CodexFsReset` and
`CodexFsReadError` (two harder environments), `CodexFsProofs`,
`CodexFsRoomProofs`.

**State.** `disk` is the medium, `view` the medium as reads see it through the
volatile write cache, `capacity` the size. `generation`, `files`,
`active_record_start` and `active_record_sectors` are the fields of `CodexFs`;
`pending` and `sector_offset` are the locals of `commit_files`; `pc` says how
far it is. `acked` and `tried` record the last acknowledged snapshot and the
ones attempted since. A tree of files is an opaque value with a record length.

**Actions.** `BeginCommit`, one `WriteRecordSector` per sector, `FlushRecord`,
`WriteSuperblock`, `FlushSuperblock` are `commit_files` line by line;
`CommitError` is any `?` in it. `MountExisting`, `MountFormat`, `MountRefused`,
`MountFails` are the outcomes of `mount_or_format`; `VerifyCommittedState` and
`Unmount` the functions of those names. The environment destages single sectors
in any order (`Destage`), loses power with torn sectors (`PowerLoss`) and
enlarges the device (`GrowDevice`).

**Runs.** `fs_commit`: two slots of two sectors growing to two slots of three,
records of one and of three sectors, three generations. Two slots is the least
the code accepts, and with three generations both superblocks and both slots
have been reused. It checks `Recoverable` (after a power loss at any moment the
mount returns the acknowledged snapshot or one attempted since), `VerifyAccepts`,
`CommitPossible`, and `Durable`, the refinement of `SnapshotStore`.
`fs_reset_three_slots`: with three slots an acknowledged generation survives
resets that keep the device's cache, and no older one comes back
(`AcknowledgedKept`). Three are needed: with
two (`Capacities = {6}`), a mount after a reset trusts a superblock that is still
in the cache, and the next commit overwrites the last durable record. The
repository's own 64 MiB image has fifteen. One run shows a disagreement with the
documentation:

* `fs_read_error`: one failed read of the newest record lets the mount succeed
  with an older generation, while the newest is intact.

**Proof.** `CodexFsProofs` proves, for every capacity, slot size and set of
trees: `InvariantHolds`, `TypeCorrect`, `AlwaysRecoverable`, `AlwaysVerifies`,
`ImplementsStore`. `Recoverable` is not inductive: it says nothing of the slot
being written. `IInv` adds that the acknowledged superblock and its record are
on the medium and undisturbed by anything in the cache, that everything a
commit writes lies outside the acknowledged record, and that any other superblock on the device is
either older or describes an attempt that may be recovered. The heart is
`SelectedStart`: the slot `select_record_start` returns does not overlap the
active record.

`CodexFsRoomProofs` proves `AlwaysRoom`, that a mounted filesystem finds a slot
for a smallest record. That the record area has two slots is not enough: the
active record may have been placed on a smaller device, whose slots were
shorter, and then overlaps two slots of the present layout. `PlacedInv` says of
every superblock on the device that its record is no longer than a slot is now
and starts at the first slot or at least a smallest record's length behind it;
a device that only grows keeps that. So one of the first two slots is clear of
the active record, and the attempts of the code, which begin at a slot that
depends on the generation, reach every slot.

`AcknowledgedKept` (resets) is model-checked only. It is false for two slots, so
its proof would have to reason about which of three or more slots the next
generations take.

**Left out.** `capacity_sectors` (no device shrinks), the overflow of the
generation at 2^64 and CRC collisions. Record versions are `FsTree`'s. A first
format that is torn by a power loss leaves a disk the next mount refuses
(fs.rs:554); `Recoverable` speaks of the time after the first acknowledged
commit.

## 3. Scheduler and timer

Modules: `Scheduler`, `SchedulerProofs`.

**State.** `mode` is where the CPU is: in Ring 3, in the kernel, or in the idle
loop before or after its `hlt`. `current`, `state`, `remaining`, `context` are
the process table (a deadline is kept as ticks still to come); `cr3`, `tss`,
`registers` the CPU; `irr`, `isr` the two bits of the interrupt controller;
`kernel_if` the interrupt flag. `expected` and `waited` are history.

**Actions.** One per trap: `SyscallExit`, `SyscallYield`, `SyscallSleep`,
`UserFault`, `TimerFromUser`; each is the whole handler down to the dispatch of
the next process, since traps run with interrupts off. The idle loop is the
exception, so `TimerFromIdle` and `IdleCheck` are separate. Every call in
`schedule` that can fail does so here.

**Run.** `scheduler`: three processes, the least number where round
robin can starve one in favour of two others. It checks that the idle loop is
never entered while the interrupt that would end it is held back
(`AcknowledgedWhenIdle`; the handler acknowledges the timer only after
`schedule` returns), that a process in Ring 3 has its own page tables, stack
and registers (`OwnWorld`), that a run ends in the kernel's page tables and
without a failure only if all have finished (`KernelOutcome`), and that no
runnable process is passed over by N dispatches (`BoundedBypass`).
It also checks that every runnable or sleeping process runs again
(`EveryoneRuns`).
Fairness: the timer fires for ever, a requested and open interrupt is delivered
and the instructions after `hlt` are executed. The hardware gives all three.
Processes are not fair: they may spin without a system call.

**Proof.** `SchedulerProofs` proves `InvariantHolds`, `AlwaysAcknowledged`,
`AlwaysOwnWorld`, `AlwaysKernelOutcome`, `AlwaysBoundedBypass` for any number
of processes. The invariant bounds a runnable process's waiting count by its
distance behind `current` in round-robin order; `NextIsNearest` shows that the
process chosen is the nearest runnable one, so the count grows exactly when the
distance shrinks. `TimerNeverIdles` holds because an interrupted process is
itself runnable. Liveness stays with TLC.

**Left out.** Results of system calls, the check of the log system call's
buffer, the failure of a switch to the kernel's own root (it was read from
CR3), the saturation of a wake tick (scheduler.rs:687), and the loading and
reclaiming of the processes around a run.

## 4. Boot chain

Modules: `BootChain` (loader, updater and the files between them),
`BootChainProofs`, `BootRecordsProofs`.

**State.** `file` holds what a decoder finds in each of the six files: a
kernel and a manifest per slot, and two boot-state records. `floor` and `root`
are the UEFI variables `CodexOsHighestRelease` and `CodexOsTrustRoot`. `pc`,
`stage`, `slot`, `current`, `best` are the locals of `load_kernel_image` and
`recover_from_missing_boot_state`, `image` what was booted, `release` what the
updater applies. History: `highest` version that ran, `published` version,
`exposed`, `boot_roots` (the trust roots this boot has had), `excused`.

**Actions.** `LoadBootState` picks the newest readable record; `VerifySlot`
is `load_system_slot` up to `enforce_release_version`, which raises the floor;
`AcceptSlot` is `apply_trust_root_update` and the caller's decision;
`RejectSlot`, `TrustRootFails`, `FileSystemUnavailable` are the error paths.
`PersistFallback`, `PersistFails`, `RepairFirst`, `RepairSecond`, `RepairFails`
write records. `UpdateStart`, five times `UpdaterWrite`, `UpdateCommitted` are
`apply_signed_update_to_filesystem`; `UpdaterDies` stops it anywhere.
`PowerLoss` may come at any point of a boot, `DamageSlot` damages one slot while
both are usable, `DamageRecord` any record at any time.

**Assumptions.** A version belongs to one release; releases are applied in the
order of their versions, an interrupted one possibly again; signatures and
hashes are free of collisions; `MaxGeneration` stands for the last u64.

**Runs.** `boot`: four releases, the third of which replaces the signing key,
and four generations, so that a release can be interrupted, skipped and
overtaken, and the last generation is reached. `NeverOlderRelease`: no rollback.
`OldKeyNeverBoots`: a key replaced in an earlier boot never boots anything.
`AlwaysBootable`: some slot passes the loader's checks at every moment, if every
update began on a usable active slot and the key is still the first.
`RecordsKept`: generations stay in range and a recovery that was recorded lasts.
An update that began on an active slot that does not load is outside
`AlwaysBootable` (`exposed`): the updater does not verify the active slot before
it overwrites the other one.
`BootFindsNamedSlot`: a loader that misses a usable slot met an I/O error or has
read a record older than the whole release in the slot it names; damaged
kernels, manifests and records and the scan without records never hide one. One run shows a disagreement with the documentation:

* `boot_stale_record`: the floor is raised before the release is compared with
  the record. After an interrupted update and a damaged newest record, the slot
  named by the stale record is verified, raises the floor, is refused, and the
  fallback is refused by the new floor.

Three observations have no run of their own. After a transition release boots,
both slots are signed by the old key and the next boot refuses them, while
SECURITY.md:27 says that "the next boot uses the healthy slot directly": this is
why `AlwaysBootable` and `RecoveryLasts` speak of the time before the key is
replaced. The updater synchronises the image once, at its end
(`xtask/src/main.rs:1229`); what the host's page cache makes of that in a power
loss of the host is not modelled, so `UpdaterDies` is the death of the process.
A fallback boot reports the generation it stored, one above the record it read:
two install smoke tests (`xtask/src/main.rs:2348` and `:2390`) expect that of
the record, the recovery smoke test (`:2250`) the one stored.

**Proof.** For every set of releases, keys and generations all five properties
of the run are proved, each with an inductive invariant of its own, which TLC
checked first.

* `NoRollback`. `NeverOlderRelease` alone is not inductive: `FloorInv` adds that
  the floor is at least every version that ran, and that every slot the loader
  holds in its hands (the one being accepted, the best of a scan, the one being
  recorded) has a version between the two, which survives since the files of the
  slots do not change while the loader runs.
* `ReplacedKeyStaysOut` (`OldKeyNeverBoots`). `RootsInv`: whatever slot the loader
  has verified is signed by a key that was the trust root at some time of the
  same boot. A scan may replace the key between two slots, so it need not be the
  root now.
* `StaysBootable` (`AlwaysBootable`). `UpdateInv` follows the updater's five
  writes: the active slot stays usable until the record is written, and by then
  the other slot holds the whole release. `PublishedInv` bounds the floor by what
  was published, so that the release being written passes it.
* `LoaderFindsSlot` (`BootFindsNamedSlot`). `SearchInv` states for each stage of
  the search what is still ahead of the loader. `NamedInv` adds that no record
  runs ahead of the manifest of its slot, because the updater writes the record
  after the manifest and the loader copies the version from it: a mismatch with
  a slot that verified can then only be an older record.
* `RecordsAreKept` (`RecordsKept`, in `BootRecordsProofs`). `NumberedInv`: odd and
  even generations live in different files, so the next record never replaces
  the one that was read. `AcceptedInv`: what was accepted remains acceptable to
  the next boot until the key is replaced.

**Left out.** Signature and hash arithmetic, the layout of manifests and
records, relocation arithmetic (a slot that fails any of these checks is one
that `RejectSlot` refuses). Staging and hand-over are in section 8.

## 5. TCP listener

Modules: `TcpListener`, `TcpListenerProofs`.

**State.** `connections`, `served_connections`, `closed_connections` are the
fields of `TcpListener`; an entry keeps the age of its `last_activity_tick` in
place of the tick, and `lag` is the age of the `now_tick` of the current poll.
`mode` and `budget` are the loop of `poll`. `to_server` and `to_client` are the
segments in flight, `client` the other ends. `clean` and `asked` are history.

**Actions.** `BeginPoll` reads the clock and expires; `HandleFrom` takes one
frame and goes one of the nine ways through `handle_frame_at`; a failed
transmission or reception halts the kernel, as the main loop does. The clients
are external: they connect, send one request with or without FIN, read the
response and close, retransmit, or vanish. Segments arrive in any order;
`MaxFaults` bounds losses, repetitions and vanished clients together.

**Run.** Eight sequence numbers stand for 2^32; a connection uses five of
them in each direction, so none is ambiguous, and both directions wrap.
`tcp_clients`: one client that does everything and two that stop after their
SYN share a table of two entries, with one fault. The table fills, refuses and
expires. `OneEntryPerPeer`; `PeersIsolated`; `ResponseIsAsked`, every response,
first or repeated, answers a request that was sent; and for runs without a fault,
whatever the order of delivery, `CleanRunsServed`: nobody is reset or refused for
nothing, and the totals are what the listener smoke test waits for. Several
active clients add nothing that isolation, which is proved for all instances,
does not settle. Here `Persistent` is empty: a repetition is a fault.

That entries are released is part of `bounded_waits` (section 6).
`EntriesReleased`: again and again the table has no entry of a peer, unless
segments that refresh its entry come for ever. The second half is needed: a SYN,
a request or an acknowledgement in order sets the entry's clock anew
(network.rs:606, :746), so a client that repeats one of them for ever keeps its
entry for ever. That run has one entry and one client that sends what it sent as
often as it likes (`Persistent`), or never again. Its idle timeout is two ticks,
since with one no refresh falls between the first tick and the last. Losses need
no fault there: nothing says that a segment in flight is ever delivered. The
fairness is the main loop that polls for ever, the end of each poll (32 frames)
and the PIT; nothing is assumed of client and network.

Three things met on the way. A request that carries FIN completes both
directions of the shutdown, but the entry does not remember that FIN: it waits
in `FinWait2` for the idle timeout and is logged as expired, while
docs/debugging.md:79 describes that line as being about "peers that did not
complete their handshake or shutdown". A reset to a client past its handshake
carries the server's first sequence number, which the client's TCP ignores. A
repeated SYN takes a served connection back to `Established`.

**Proof.** `TcpListenerProofs` proves `TypeCorrect`, `OneEntry`, `Isolation` and
`ResponsesAsked` for every capacity, timeout, set of peers, sequence space and
number of faults. The heart is `HandlerTouches`: a segment changes at most one
slot, which is its peer's, or a free one if the peer has none. It rests on
`FirstIn`, that `position()` returns a member of a nonempty set of slots, and so
on the well-foundedness of the naturals. For `ResponseIsAsked`, `AskedInv` adds
that every request in flight, and every one an established client still has
outstanding, is in `asked`; `TransmitAdds` and `HandlerAnswers` say what one
frame can put on the wire. `CleanRunsServed` is model-checked only: it is about
the number of segments each order of delivery needs, and holds only where the
sequence space is large enough for a connection.

**Left out.** Header and checksum tests (a segment that fails them is a lost
one), ARP and ICMP replies (in `NetClient`), the event a poll reports to the log.

## 6. Drivers and network client

Modules: `Virtqueue` (rings and indices, shared), `VirtioBlock`,
`BlockContract`, `VirtioBlockProofs`, `VirtioNet`, `NetClient`.

**Virtqueue.** Every request of both drivers starts at descriptor 0, so only the
indices tell requests apart. They count modulo `IndexModulus`, a small multiple
of the ring's size, in place of 2^16; the device takes and completes in order.

**VirtioBlock.** `discover` has all outcomes of the initialisation. A request is
`read_sector`, `write_sector` or `flush` (argument checks, header, chain), then
`Publish`, `Spin`, `Finish`, or
`TimeOut` when the spins run out; nothing is taken back from the device then,
which may complete the request later. The device fetches, carries out, fails,
never answers, and writes its cache back when it likes. History: `applied` (the
request under way was carried out) and `abandoned` (requests given up).

**VirtioNet and NetClient.** `net`, `rx`, `tx` and the two buffers are the
driver; `pc` and `conf` say where `configure()` stands and what it has learnt.
Each exchange is a frame sent and a wait that accepts, ignores or rejects what
arrives (`OnOffer`, `OnAck`, `OnArp`, ...), with the parsing decisions of the
code; `poll()` answers ARP and ICMP with a budget of frames. The hosts are
external: each may answer any frame on the wire, at any later time and any
number of times, so loss, delay, repetition and reordering need no actions of
their own. An error of the driver or a wait that runs out is the last step, as
the kernel halts on it.

**Runs.** `bounded_waits` combines the disk and a TCP listener of one entry; a
behaviour exercises one of them. Disk: two sectors, two contents, four indices
(twice round the ring with two abandoned requests), ten kinds of hardware.
`RequestsCounted`: what was published and not seen completed is the request
spun on and those given up, across wraps. `IsBlockDevice`: the driver implements
`BlockContract` until a request is given up. Afterwards it does not: the late
completion is taken for the next request's, which then reads a buffer the device
has not filled. README.md:43 promises "bounded request completion" and
"synchronous read/write/flush operations"; the kernel image halts on an error of
its filesystem, so a second request after a timeout is rare.
`BoundedWaits`: every call returns whatever the device does, and a table entry
is released unless its client refreshes it for ever (section 5). Fairness: the driver's own steps; the main
loop's polls, the end of a poll and the timer. Nothing is assumed of devices.

`net_client`: two DHCP servers, a gateway, DNS and web servers on and off the
subnet, sequence numbers modulo 16 that wrap, a poll budget of two.
`BuffersKept`: the receive buffer is always posted and what `transmit()`
acknowledged, and nothing else, is on the wire. A frame that the device takes
too late is not followed by another, as every error of a transmission halts the
kernel. `LeaseAsRequested`: the address in use is the one offered, and was
requested of the server that offered it. `PacketsRouted`: every packet goes to
the owner of the right next hop. `ResponseOfThisConnection`: the segment the
status is taken from acknowledges exactly the request that was sent, and the
final acknowledgement is one past what it carries. `WaitsEnd`: `configure()` ends and `poll()` gives
control back. Fairness: the kernel keeps executing (weak), and a wait that comes
round again and again runs out (strong, since the loop counters are bounded).

Two observations. `OnAck` does not compare the server of a DHCP acknowledgement
with the one the request named (network.rs:923-939): an acknowledgement of the
other server for the same address is accepted, with that server's mask, router
and resolver. The wait for the HTTP response compares acknowledgement numbers
but not sequence numbers (network.rs:1683): a later segment of the body that
looks like a status line is taken for the first one.

**Proof.** `VirtioBlockProofs` proves `CompletionsAreCounted` (`RequestsCounted`)
and `DriverIsBlockDevice` (`IsBlockDevice` and the contract's initial states) for
every disk, ring size, index width and number of requests given up.
The inductive invariant `BlkInv` has four parts. `BlkRecords` types the state.
`StagesInv` follows a request through its three stages (offered, with the
device, on the used ring): the distances between the four indices, taken modulo
the index width, add up to the requests given up and the one spun on. This needs
`MaxAbandoned + 2 <= IndexModulus`; in the code 65534 requests may be given up
before the count is ambiguous. `RequestInv` ties page, descriptors and device to
the call until a request is given up: the device then sees this request and no
other, and the status byte says whether it was carried out. `WritesInv` says that
the device never writes a sector from a page that was never filled. The
refinement goes action by action: `Enter` begins an operation or refuses it, the
device's completion applies it once or leaves everything as it is, `Finish`
succeeds or fails, and the other steps change nothing a caller can see.
The network client is model-checked only; its model is built on the sequence
operators of the community modules, which the provers cannot reason about in
reasonable time.

**Left out.** Header and checksum arithmetic (a frame that fails is one the wait
ignores), and frames larger than the buffer, on which the driver returns an
error and the kernel halts.

## 7. Kernel image, tree and console

Modules: `FsTree`, `Pci`, `IsolationProbe`, `KernelImage`, `Console`.

**FsTree.** `files` and `generation` are the fields of `CodexFs`, `stored` the
snapshot of the last acknowledged commit, `unsure` one that a failed commit may
have left on the disk. Each public call is an action that builds the next tree
with the pure operators of the same names (`create_dir_all`, `remove_dir`,
`write_file_inner`, ...), materialises missing parents and commits.
`encode_record` and `decode_record` are what the code accepts when it writes and
when it mounts: paths, table and record sizes, kinds, permissions, parents.
Group and other permission bits and the order of records are abstracted. Here a
mount, and the scan of `verify_committed_state`, read the newest snapshot or
fail; that a read error makes them fall back to the one before (fs.rs:543) is
the subject of the run `fs_read_error` (section 2).

**KernelImage.** `pc` is the gate `_start` is at and `why` the message it halted
with. Gates that write are several steps (count, large file, executable), so
power can go between any two; `Update` boots another version on the same disk. `Pci`
gives the inventory and the drivers' own search as operators on a machine;
`IsolationProbe` runs the probe's program step by step under the page tables a
machine may have, and the address space may fail to be destroyed after it. One
of the machines has more functions than the inventory holds, with the devices
the drivers need among those it does hold.

**Console.** `kbdq` and `auxq` are the bytes the devices still have to deliver
through one port, `tardy` answers that are late. The initialisation of the mouse
is one action per command, with its three failures; the loop is `PollKeyboard`,
`PollMouse`, `PollNothing`, `Draw`, `WaitForInterrupt`. Decoders, window
manager, terminal line and commands are operators on `decoder`, `packet` and
`app`. A command that only reports prints any number of lines of a small set
(`PrintedLines`). `held` and `track` record what was really done to the devices,
`clean` whether a byte came late, was dropped or was taken for another one.

**Run.** `kernel_image` has four kinds of behaviour, chosen at the start: a
kernel that boots three times on six kinds of disk and three machines; any
caller of the tree on three disks near the last generation, at the limits of
path, table and record; the desktop with three events of sixteen kinds; and the
initialisation of the mouse with two. `TreeKept`: what was or may have been
committed can be mounted, memory is what was committed, a removal removes one
entry. `GatesHonest`: a passed gate tells the truth about disk, devices and
probe. `ComesUpAgain`: a version that came up once is not refused later by what
boots wrote since, and the count is refused only when it has reached the last
u64. `WrittenIsKept`: a file without write permission keeps its content, and a
printed boot count is not printed again, as long as each mount reads the newest
snapshot: after the fallback of `fs_read_error` a count may come again.
`InputFollowed`: once all bytes are read, the shift flags are those of the keys
that are down, and cursor and button are where the packets lead that came whole,
provided that no byte came late, was dropped or was taken for another; and
enabling the mouse leaves the controller's other bits alone, provided that the
byte read was the configuration. `DesktopShown`: windows stay on the screen, a
drag ends with the first whole packet that reports the button up, the last frame
is current when the loop waits.
`InputHandled`: every byte is eventually taken, as the kernel runs on and the
timer wakes it.

Observations. A movement below -128 arrives as a positive one: the decoder
sign-extends eight of the nine bits (input.rs:242). A packet that overflowed is
dropped with the buttons it carries (input.rs:221): if it reports the release, the
window follows the cursor until the next packet. The read of the controller's
configuration takes the first byte at the port (input.rs:322): the code of a key
pressed just then is taken for the configuration and written back. An answer of
the mouse that comes after its wait ran out is taken for the answer of the next
command, or for the first byte of a packet (input.rs:209). The model has all
three; the last two are what `clean` excepts. Page statistics on the
screen are those of the last command (desktop.rs:458). A version whose program
differs from the installed one halts with `PersistentProgramHashMismatch` on
every boot (scheduler.rs:449), so `ComesUpAgain` speaks of versions that came up
on this disk.

## 8. Memory

Modules: `PageRegions` (the allocator's regions from the memory map),
`PageAllocator`, `PageAllocatorProofs`, `Heap`, `VirtualMemory`.

**PageAllocator.** `pa` is the `PhysicalPageAllocator`: regions with a cursor
each, freed extents, the count. `live` is history: pages with callers. Callers
are arbitrary: they may give back any range, theirs or not, once or twice.

**Heap.** `heap` holds per region the free list and the counters, `headers` the
header in front of each pointer, `lock` and `call` the spin lock and what each
thread is doing; a call is entered, waits for the lock, and is carried out under
it. Words of eight bytes, a bootstrap region of fourteen words, seven candidate
external regions of which two are acceptable, one at a multiple of the largest
alignment and one not, three layouts with an alignment above the header's.

**VirtualMemory.** `boot_info` is what the loader collects, `vm` the
`VirtualMemoryManager` of the running image (its copies of the tables), `mem`
what the pages hold when read as tables, `cr3` the root in use, `spaces` the
user address spaces alive, `held` the pages given to tables, commands and
drivers. `RuntimeInit`, `ActivateVm`, `AdoptVm` are the steps from loader to
kernel; then spaces are created, destroyed and switched to, and the desktop's
commands allocate, map and synchronise. Allocation can fail at each page, so
every partial failure of a creation or a map is a behaviour. Pages have two
bytes, tables 4, 2, 1 and 32 entries, so that each part of the address space has
a root entry of its own; six machines differ in memory map, load address,
sharing of pages by segments, and the place of the stack.

**Runs.** `memory` exercises one of the three parts in each behaviour.
`PagesSound`: no page handed out twice or lost, extents sorted and joined, count
exact. `FreeDecision`: a free is accepted exactly when all its pages are with
callers, in one region, and the list has room. `HeapSound`: regions tiled by
free and held blocks, pointers inside their block and at an aligned offset of
their region, totals exact, with two threads and while the external region is
added. `PagesOwned`: the kernel's fresh allocator never offers a page of the
image, the heaps, the framebuffer, the boot information or the tables, and the
page of the stack only where the firmware's map has it as memory the kernel may
use; no page is lost when a creation fails halfway. `TablesAgree`: a page that
the manager's walk answers while it reports its tables as written is the one in
memory, and in the kernel every page on offer has its alias. The manager that
built its tables answers for all of them; the kernel's has no copies of the root
it adopted, and answers for none although it reports it as written. `RightsKept`:
each process reaches its own pages with its own rights, and no page of the image
is writable and executable at the address it runs at; the identity windows of
the hand-over are outside of it. One run shows a defect:

* `memory_commands`: after `adopt_active_root` the manager has the live root but
  no copies of the tables; `vm-sync`, and `map` after its mapping, write the
  empty copy over the live root, and the kernel is no longer mapped.

Observations. The stack the loader and the kernel run on is not among the
reserved ranges: on a machine whose firmware put it into boot-services memory
the kernel's allocator may hand it out. Such a behaviour ends in the phase
"overrun" and is not followed further; docs/debugging.md:56 speaks of the
"identity-mapped stack window kept alive after handoff", and it is the mapping
that is kept, not the pages. `push_reserved_range` drops a range
silently when its table is full (uefi-loader main.rs:397). The heap aligns the
offset of a pointer in its region, and `initialize_external` asks of the base
only that it be a multiple of a word: a pointer is aligned as its caller asked
if the base is. Both callers pass the start of a page (kernel lib.rs:78,
uefi-loader main.rs:202).

**Proof.** `PageAllocatorProofs` proves `PagesAreSound` and `FreesAreDecided` for
any regions, request sizes, list capacity and callers. The inductive invariant
`PInv` states, with `live`, that the pages below the cursors are the disjoint
union of `live` and of the extents, that extents are sorted with a gap between
any two, and that the count is the cardinality of `live`, which needs it finite.
The proof goes along the code: `TakeFromExtent` splits, `with_extent` joins with
the neighbour before, behind, both or none, and each case keeps the cover of the
list. `FreeDecision` is about what was decided with cursors, extents and a count
only; it follows since a range that lies below a cursor and meets no extent
is in `live` page by page. The region table's construction uses
folds and is model-checked only.

**Left out.** Statistics, the peak and failure counters of the heap, 2 MiB
pages (the code has none), TLB contents (every switch reloads CR3).

## 9. Results

| run | expectation | shows |
|---|---|---|
| `fs_commit` | pass | recovery, verification, progress of commits, refinement of the snapshot store |
| `fs_reset_three_slots` | pass | resets with three slots lose nothing |
| `fs_read_error` | violation | a transient read error mounts an older generation |
| `kernel_image` | pass | tree, gates, boot counts, input and desktop |
| `scheduler` | pass | isolation, outcome, acknowledgement, bounded bypass, everyone runs |
| `boot` | pass | no rollback, replaced keys stay replaced, always bootable, lasting recovery |
| `boot_stale_record` | violation | a usable slot is not found |
| `tcp_clients` | pass | table, isolation, refusal, responses, totals |
| `bounded_waits` | pass | the block device contract; calls return, entries are released |
| `net_client` | pass | lease, routing, HTTP exchange, buffers, ends of waits |
| `memory` | pass | pages, heap, page tables, address spaces |
| `memory_commands` | violation | the desktop's mapping commands unmap the kernel |

To repeat a run: `tlc -config CodexFs_two.cfg MCCodexFs`, and so on with the
files `PROJECT.json` names; none takes more than four minutes. To repeat the
proofs: `tlapm CodexFsProofs.tla` and so on with the eight modules named
`...Proofs`; the larger ones take about seven minutes each.

Proved for every value of the constants: all properties of the runs `boot` and
`fs_commit`; all of `scheduler` but liveness; all of `tcp_clients` but
`CleanRunsServed`; of `bounded_waits` `RequestsCounted` and `IsBlockDevice`; of
`memory` `PagesSound` and `FreeDecision`.

Only model-checked: everything about liveness (`EveryoneRuns`, `BoundedWaits`,
`WaitsEnd`, `InputHandled`), which is beyond the prover; what recursive
operators and folds compute (`PageRegions`, `FsTree`, `Console`);
`AcknowledgedKept` and `CleanRunsServed`, for the reasons in sections 2 and 5;
and the invariants of the modules without a proof module (`Heap`,
`VirtualMemory`, `NetClient`, `KernelImage`, `FsTree`, `Console`).

## 10. Not modelled

* `kernel/src/user_elf.rs`: a parser of byte offsets without state. Its checks
  are comparisons of header fields that a model could only repeat; the segments
  it accepts are the inputs of `VirtualMemory`.
* `libs/gfx`, `libs/desktop-runtime`, `kernel/src/serial.rs`, and the drawing of
  `kernel/src/desktop.rs`: pixels and text that no other part reads.
* Descriptor encodings (GDT, IDT, TSS) and assembly entry code of
  `kernel/src/interrupts.rs`: what they do to the scheduler and the probe is in
  `Scheduler` and `IsolationProbe`.
* Building images, GPT, signing and QEMU smoke tests in `xtask`: host I/O and
  formatting, run once and not concurrently with anything.
* Relocation, CRC, checksum, hash and signature arithmetic: a model of bytes
  would be the program again. Decoders appear as the set of values they accept.
* UEFI protocols (file system, graphics, memory services): external; their
  outcomes are choices in `BootChain` and `VirtualMemory`.
