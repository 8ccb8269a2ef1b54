------------------------------- MODULE CodexFs -------------------------------
(***************************************************************************)
(* The commit and recovery protocol of CodexFS (kernel/src/fs.rs) on a     *)
(* block device with a volatile write cache.                               *)
(*                                                                         *)
(* A commit writes the whole tree as one multi-sector record to a slot     *)
(* that does not touch the active record, flushes, writes one of two       *)
(* alternating superblocks, flushes again, and only then moves the         *)
(* in-memory generation.  A mount takes the newest superblock whose record *)
(* checks.  The device may move any cached sector to the medium at any     *)
(* time; a power loss keeps the medium only, and may tear a sector whose   *)
(* write was outstanding.                                                  *)
(***************************************************************************)
EXTENDS FsGeometry

CONSTANTS Contents,        \* the trees a caller commits, as opaque values
          Empty,           \* the tree a format commits
          RecordSectors,   \* size of the record encode_record makes of a tree
          Capacities,      \* sector counts the device may have
          Unmounted,       \* not a tree: what is visible while unmounted
          Sectors,         \* every sector number of the largest device
          MaxGeneration    \* stands for u64::MAX, where checked_add fails

ASSUME FsAssumption ==
  /\ Empty \in Contents
  /\ RecordSectors \in [Contents -> Nat]
  /\ \A c \in Contents : RecordSectors[c] >= RECORD_SECTORS
  /\ Capacities \subseteq Nat
  /\ \A n \in Capacities : 0 .. n - 1 \subseteq Sectors
  /\ Sectors \subseteq Nat
  /\ {0, 1} \subseteq Sectors
  /\ MaxGeneration \in Nat

VARIABLES disk,            \* the medium, what a power loss leaves
          view,            \* what the device answers to a read
          capacity,        \* device.sector_count()
          pc,              \* where the one filesystem thread is
          generation, files, active_record_start, active_record_sectors,
          pending,         \* the superblock commit_files is working towards
          sector_offset,   \* loop counter of the record write
          acked,           \* history: last acknowledged or recovered superblock
          tried            \* history: trees whose commit began since

devvars == <<disk, view, capacity>>
fsvars == <<generation, files, active_record_start, active_record_sectors>>
commitvars == <<pending, sector_offset>>
history == <<acked, tried>>
vars == <<devvars, pc, fsvars, commitvars, history>>

SUPERBLOCK_A_SECTOR == 0
SUPERBLOCK_B_SECTOR == 1

-----------------------------------------------------------------------------
(* Sector contents.  The tree stands for the record's CRC: both CRCs cover *)
(* generation and tree and are taken to be collision free.                 *)

Zero == [kind |-> "zero"]
Torn == [kind |-> "torn"]

Superblock ==
  [kind : {"super"}, generation : Nat, record_start : Nat,
   record_sectors : Nat, files : Contents]

RecordSector ==
  [kind : {"record"}, generation : Nat, files : Contents, offset : Nat]

SectorContent == {Zero, Torn} \cup Superblock \cup RecordSector

\* The superblock fields of a CodexFs value that has no snapshot yet.
NoSnapshot ==
  [kind |-> "super", generation |-> 0, record_start |-> 0,
   record_sectors |-> 0, files |-> Empty]

\* Sector number `offset` of the record that encode_record makes for sb.
encode_record(sb, offset) ==
  [kind |-> "record", generation |-> sb.generation, files |-> sb.files,
   offset |-> offset]

super_sector(gen) ==
  IF gen % 2 = 0 THEN SUPERBLOCK_A_SECTOR ELSE SUPERBLOCK_B_SECTOR

\* decode_superblock accepts the sector.  The stored capacity_sectors is left
\* out: no device of the model shrinks.
decode_superblock(sector) ==
  /\ sector.kind = "super"
  /\ sector.record_sectors \in 1 .. MAX_RECORD_SECTORS
  /\ sector.generation # 0
  /\ sector.record_start >= RECORD_AREA_START
  /\ sector.record_start + sector.record_sectors <= capacity

\* read_record accepts the record sb points to on device image d.
read_record(d, sb) ==
  \A offset \in 0 .. sb.record_sectors - 1 :
    d[sb.record_start + offset] = encode_record(sb, offset)

\* The superblocks load_latest_snapshot can choose from on device image d.
candidates(d) ==
  {sb \in {d[SUPERBLOCK_A_SECTOR], d[SUPERBLOCK_B_SECTOR]} :
     decode_superblock(sb) /\ read_record(d, sb)}

\* Mutant: the comparison of generations is the wrong way round.
load_latest_snapshot_oldest(d, sb) ==
  /\ sb \in candidates(d)
  /\ \A other \in candidates(d) : other.generation >= sb.generation

\* load_latest_snapshot returns Some(sb) on device image d.
load_latest_snapshot(d, sb) ==
  /\ sb \in candidates(d)
  /\ \A other \in candidates(d) : other.generation <= sb.generation

saw_nonzero(d) ==
  d[SUPERBLOCK_A_SECTOR] # Zero \/ d[SUPERBLOCK_B_SECTOR] # Zero
-----------------------------------------------------------------------------
\* The device starts blank, or with foreign data where superblock A belongs.
Init ==
  /\ disk \in {[s \in Sectors |-> Zero],
               [s \in Sectors |-> IF s = 0 THEN Torn ELSE Zero]}
  /\ view = disk
  /\ capacity \in Capacities
  /\ pc = "down"
  /\ generation = 0
  /\ files = Empty
  /\ active_record_start = 0
  /\ active_record_sectors = 0
  /\ pending = NoSnapshot
  /\ sector_offset = 0
  /\ acked = NoSnapshot
  /\ tried = {}

\* The CodexFs value is dropped; a later mount starts from nothing.
Drop(where) ==
  /\ pc' = where
  /\ generation' = 0
  /\ files' = Empty
  /\ active_record_start' = 0
  /\ active_record_sectors' = 0
  /\ pending' = NoSnapshot
  /\ sector_offset' = 0

-----------------------------------------------------------------------------
(* commit_files *)

\* The checks of commit_files up to the first write all pass for tree c.
CommitAllowed(c, start) ==
  /\ generation < MaxGeneration
  /\ RecordSectors[c] <= record_slot_span(capacity)
  /\ select_record_start(start, generation + 1, RecordSectors[c], capacity,
                         active_record_start, active_record_sectors)

StartCommit(c, start) ==
  /\ pc' = "record"
  /\ pending' = [kind |-> "super", generation |-> generation + 1,
                 record_start |-> start, record_sectors |-> RecordSectors[c],
                 files |-> c]
  /\ sector_offset' = 0
  /\ tried' = tried \cup {c}
  /\ UNCHANGED <<devvars, fsvars, acked>>

\* A caller commits a new tree on a mounted filesystem.
BeginCommit(c) ==
  /\ pc = "idle"
  /\ \E start \in Sectors : CommitAllowed(c, start) /\ StartCommit(c, start)

WriteRecordSector ==
  /\ pc = "record"
  /\ sector_offset < pending.record_sectors
  /\ view' = [view EXCEPT ![pending.record_start + sector_offset] =
                            encode_record(pending, sector_offset)]
  /\ sector_offset' = sector_offset + 1
  /\ UNCHANGED <<disk, capacity, pc, fsvars, pending, history>>

FlushRecord ==
  /\ pc = "record"
  /\ sector_offset = pending.record_sectors
  /\ disk' = view
  /\ pc' = "superblock"
  /\ UNCHANGED <<view, capacity, fsvars, commitvars, history>>

\* Mutant: memory moves to the new generation before the second flush.
WriteSuperblock_early ==
  /\ pc = "superblock"
  /\ view' = [view EXCEPT ![super_sector(pending.generation)] = pending]
  /\ generation' = pending.generation
  /\ files' = pending.files
  /\ pc' = "flush_superblock"
  /\ UNCHANGED <<disk, capacity, active_record_start, active_record_sectors,
                 commitvars, history>>

WriteSuperblock ==
  /\ pc = "superblock"
  /\ view' = [view EXCEPT ![super_sector(pending.generation)] = pending]
  /\ pc' = "flush_superblock"
  /\ UNCHANGED <<disk, capacity, fsvars, commitvars, history>>

\* Mutant: commit_files returns Ok without the second flush.
FlushSuperblock_unflushed ==
  /\ pc = "flush_superblock"
  /\ pc' = "idle"
  /\ generation' = pending.generation
  /\ files' = pending.files
  /\ active_record_start' = pending.record_start
  /\ active_record_sectors' = pending.record_sectors
  /\ pending' = NoSnapshot
  /\ sector_offset' = 0
  /\ acked' = pending
  /\ tried' = {}
  /\ UNCHANGED <<disk, view, capacity>>

\* The second flush succeeds and commit_files returns Ok.
FlushSuperblock ==
  /\ pc = "flush_superblock"
  /\ disk' = view
  /\ pc' = "idle"
  /\ generation' = pending.generation
  /\ files' = pending.files
  /\ active_record_start' = pending.record_start
  /\ active_record_sectors' = pending.record_sectors
  /\ pending' = NoSnapshot
  /\ sector_offset' = 0
  /\ acked' = pending
  /\ tried' = {}
  /\ UNCHANGED <<view, capacity>>

InCommit == pc \in {"record", "superblock", "flush_superblock"}

\* A write or a flush returns an error: the caller keeps the old tree in
\* memory; a format drops filesystem and device, and the kernel halts.
CommitError ==
  /\ InCommit
  /\ \/ /\ generation = 0
        /\ Drop("halted")
     \/ /\ generation # 0
        /\ pc' = "idle"
        /\ pending' = NoSnapshot
        /\ sector_offset' = 0
        /\ UNCHANGED fsvars
  /\ UNCHANGED <<devvars, history>>

-----------------------------------------------------------------------------
(* mount_or_format, verify_committed_state, unmount *)

MountExisting ==
  /\ pc = "down"
  /\ device_large_enough(capacity)
  /\ \E sb \in candidates(view) :
       /\ load_latest_snapshot(view, sb)
       /\ generation' = sb.generation
       /\ files' = sb.files
       /\ active_record_start' = sb.record_start
       /\ active_record_sectors' = sb.record_sectors
       /\ acked' = sb
  /\ tried' = {}
  /\ pc' = "idle"
  /\ UNCHANGED <<devvars, commitvars>>

\* A blank device: mount_or_format commits the empty tree as generation 1.
MountFormat ==
  /\ pc = "down"
  /\ device_large_enough(capacity)
  /\ candidates(view) = {}
  /\ ~saw_nonzero(view)
  /\ \E start \in Sectors : CommitAllowed(Empty, start) /\ StartCommit(Empty, start)

\* DeviceTooSmall, or CorruptSuperblocks: nothing is written.
MountRefused ==
  /\ pc = "down"
  /\ \/ ~device_large_enough(capacity)
     \/ candidates(view) = {} /\ saw_nonzero(view)
  /\ Drop("halted")
  /\ UNCHANGED <<devvars, history>>

\* The device has no flush, or a superblock cannot be read: nothing is written.
MountFails ==
  /\ pc = "down"
  /\ Drop("halted")
  /\ UNCHANGED <<devvars, history>>

\* verify_committed_state rereads the device and adopts the record it finds.
VerifyCommittedState ==
  /\ pc = "idle"
  /\ \E sb \in candidates(view) :
       /\ load_latest_snapshot(view, sb)
       /\ sb.generation = generation
       /\ sb.files = files
       /\ active_record_start' = sb.record_start
       /\ active_record_sectors' = sb.record_sectors
  /\ UNCHANGED <<devvars, pc, generation, files, commitvars, history>>

\* unmount flushes and gives the device back; if the flush fails, the device
\* is dropped with the filesystem.
Unmount ==
  /\ pc = "idle"
  /\ \/ disk' = view /\ Drop("down")
     \/ disk' = disk /\ Drop("halted")
  /\ UNCHANGED <<view, capacity, history>>
-----------------------------------------------------------------------------
(* The device and its environment *)

\* The write cache moves one sector to the medium on its own.
Destage(s) ==
  /\ disk[s] # view[s]
  /\ disk' = [disk EXCEPT ![s] = view[s]]
  /\ UNCHANGED <<view, capacity, pc, fsvars, commitvars, history>>

\* Power fails: the cache is lost and any sector still in it may be torn.
PowerLoss ==
  /\ \E torn \in SUBSET {s \in Sectors : disk[s] # view[s]} :
       disk' = [s \in Sectors |-> IF s \in torn THEN Torn ELSE disk[s]]
  /\ view' = disk'
  /\ Drop("down")
  /\ UNCHANGED <<capacity, history>>

\* The device is enlarged while no filesystem is mounted on it.
GrowDevice ==
  /\ pc = "down"
  /\ capacity' \in {n \in Capacities : n > capacity}
  /\ UNCHANGED <<disk, view, pc, fsvars, commitvars, history>>

Next ==
  \/ \E c \in Contents : BeginCommit(c)
  \/ WriteRecordSector
  \/ FlushRecord
  \/ WriteSuperblock
  \/ FlushSuperblock
  \/ CommitError
  \/ MountExisting
  \/ MountFormat
  \/ MountRefused
  \/ MountFails
  \/ VerifyCommittedState
  \/ Unmount
  \/ \E s \in Sectors : Destage(s)
  \/ PowerLoss
  \/ GrowDevice

Spec == Init /\ [][Next]_vars

-----------------------------------------------------------------------------
(* Properties *)

Phases == {"down", "halted", "idle", "record", "superblock", "flush_superblock"}

\* Every variable keeps its type: sectors hold superblocks, record sectors or
\* damage, and the counters of CodexFs and of commit_files are naturals.
TypeOK ==
  /\ disk \in [Sectors -> SectorContent]
  /\ view \in [Sectors -> SectorContent]
  /\ capacity \in Capacities
  /\ pc \in Phases
  /\ generation \in Nat
  /\ files \in Contents
  /\ active_record_start \in Nat
  /\ active_record_sectors \in Nat
  /\ pending \in Superblock
  /\ sector_offset \in Nat
  /\ acked \in Superblock
  /\ tried \subseteq Contents

\* Whatever the medium holds right now, a mount after a power loss finds the
\* acknowledged snapshot, or the one a commit was replacing it with: no
\* interleaving of cached writes, torn sectors, failed and retried commits
\* and device growth makes load_latest_snapshot return anything else, or
\* nothing.
Recoverable ==
  acked.generation > 0 =>
    \E sb \in candidates(disk) :
      /\ load_latest_snapshot(disk, sb)
      /\ \/ sb = acked
         \/ sb.generation = acked.generation + 1 /\ sb.files \in tried

\* verify_committed_state succeeds on a mounted filesystem with no failed
\* commit behind it, also when it was mounted from a half-finished commit.
VerifyAccepts ==
  pc = "idle" /\ tried = {} =>
    \E sb \in candidates(view) :
      /\ load_latest_snapshot(view, sb)
      /\ sb.generation = generation
      /\ sb.files = files

\* On a mounted filesystem select_record_start finds room for a smallest
\* record, also when the device has grown under an old slot layout.
CommitPossible ==
  pc = "idle" =>
    \E start \in Sectors :
      select_record_start(start, generation + 1, RECORD_SECTORS, capacity,
                          active_record_start, active_record_sectors)

Store == INSTANCE SnapshotStore
  WITH stable <- acked.files,
       maybe <- tried,
       visible <- IF generation > 0 THEN files ELSE Unmounted

\* CodexFS implements the store of whole snapshots.
Durable == Store!Spec

-----------------------------------------------------------------------------
(* Why it works: the parts of the inductive invariant behind Recoverable   *)
(* and Durable.  The protected snapshot is acked; the other superblock     *)
(* sector holds what a commit may leave there.                             *)

Mounted == pc \notin {"down", "halted"}

\* A record lies in the record area of the device.
Located(sb) ==
  /\ sb.generation >= 1
  /\ sb.record_start >= RECORD_AREA_START
  /\ sb.record_sectors \in 1 .. MAX_RECORD_SECTORS
  /\ sb.record_start + sb.record_sectors <= capacity

\* One sector of sb's record is wrong on the medium and in the cache, so no
\* destaging or loss of the cache makes the record whole again.
Broken(sb) ==
  \E offset \in 0 .. sb.record_sectors - 1 :
    /\ disk[sb.record_start + offset] # encode_record(sb, offset)
    /\ view[sb.record_start + offset] # encode_record(sb, offset)

\* The protected superblock and its record are whole on medium and in cache.
AckedWhole ==
  /\ acked.generation = 0 => acked = NoSnapshot
  /\ acked.generation > 0 =>
       /\ Located(acked)
       /\ disk[super_sector(acked.generation)] = acked
       /\ view[super_sector(acked.generation)] = acked
  /\ read_record(disk, acked)
  /\ read_record(view, acked)

\* What image d may hold in the superblock sector that is next to be written.
OtherHarmless(d) ==
  LET sb == d[super_sector(acked.generation + 1)]
  IN  sb.kind = "super" =>
        /\ Located(sb)
        /\ \/ sb.generation < acked.generation
           \/ /\ sb.generation = acked.generation + 1
              /\ sb.files \in tried \/ Broken(sb)

\* Before the first snapshot, superblock A holds none.
NoneBefore(d) ==
  acked.generation = 0 => d[SUPERBLOCK_A_SECTOR].kind # "super"

\* The filesystem value in memory describes the protected snapshot.
MemoryAgrees ==
  IF Mounted
  THEN /\ generation = acked.generation
       /\ files = acked.files
       /\ active_record_start = acked.record_start
       /\ active_record_sectors = acked.record_sectors
       /\ pc = "idle" => generation > 0
       /\ device_large_enough(capacity)
  ELSE /\ generation = 0
       /\ files = Empty
       /\ active_record_start = 0
       /\ active_record_sectors = 0

\* A commit in progress: where its record goes and how far it has got.
CommitSound ==
  InCommit =>
    /\ pending.generation = acked.generation + 1
    /\ pending.files \in tried
    /\ Located(pending)
    /\ acked.record_sectors = 0
       \/ ~ranges_overlap(pending.record_start, pending.record_sectors,
                          acked.record_start, acked.record_sectors)
    /\ pc = "record" =>
         /\ sector_offset <= pending.record_sectors
         /\ \A offset \in 0 .. sector_offset - 1 :
              view[pending.record_start + offset] = encode_record(pending, offset)
    /\ pc # "record" => read_record(disk, pending) /\ read_record(view, pending)
    /\ pc = "flush_superblock" => view[super_sector(pending.generation)] = pending

\* What medium and cache hold together.
DeviceSound ==
  /\ AckedWhole
  /\ OtherHarmless(disk)
  /\ OtherHarmless(view)
  /\ NoneBefore(disk)
  /\ NoneBefore(view)

\* The inductive invariant: every mount, commit step, failure, destaging and
\* power loss keeps the protected snapshot whole and the rest harmless.
IInv ==
  /\ TypeOK
  /\ DeviceSound
  /\ MemoryAgrees
  /\ CommitSound
  /\ pc = "down" => view = disk

-----------------------------------------------------------------------------
(* Why there is always room.                                               *)

\* A record was put in a slot of this device, or of the smaller one it was:
\* it is no longer than a slot, and starts at the first slot or far enough
\* behind it to leave a smallest record's room.
Placed(sb) ==
  /\ sb.record_sectors <= record_slot_span(capacity)
  /\ \/ sb.record_start = RECORD_AREA_START
     \/ sb.record_start >= RECORD_AREA_START + RECORD_SECTORS

\* Every superblock on medium and in cache, the one being committed and the
\* protected one locate a record so placed.
PlacedInv ==
  /\ \A d \in {disk, view} : \A s \in {SUPERBLOCK_A_SECTOR, SUPERBLOCK_B_SECTOR} :
       d[s].kind = "super" => Placed(d[s])
  /\ InCommit => Placed(pending)
  /\ acked.generation > 0 => Placed(acked)
=============================================================================
