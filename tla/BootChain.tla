------------------------------ MODULE BootChain ------------------------------
(***************************************************************************)
(* The boot chain: the UEFI loader that selects, verifies and repairs A/B  *)
(* system slots (boot/uefi-loader/src/main.rs), the offline updater that   *)
(* writes them (xtask/src/main.rs) and the formats they share              *)
(* (libs/update-format/src/lib.rs).                                        *)
(*                                                                         *)
(* A file holds what its decoder finds in it.  A kernel is the version of  *)
(* the release it belongs to, a manifest the release it describes, and 0   *)
(* stands for contents that match nothing.  Signatures and hashes are      *)
(* taken to be unforgeable and free of collisions.                         *)
(***************************************************************************)
EXTENDS Integers, FiniteSets

CONSTANTS Releases,        \* the signed releases: version, signing key, next
          BootstrapKey,    \* the key embedded in the loader
          NoKey,           \* a manifest without next_trust_public_key
          MaxGeneration    \* stands for u64::MAX, the last generation

ASSUME BootChainAssumption ==
  /\ \A r \in Releases : r.version \in Nat \ {0} /\ r.key # NoKey
  /\ \A r, s \in Releases : r.version = s.version => r = s
  /\ BootstrapKey # NoKey
  /\ MaxGeneration \in Nat /\ MaxGeneration >= 2

Slots == {"A", "B"}

\* Mutant: the other slot is the slot itself.
other_same(s) == s

other(s) == IF s = "A" THEN "B" ELSE "A"

NoRelease == [version |-> 0, key |-> NoKey, next |-> NoKey]
NoState == [generation |-> 0, slot |-> "A", version |-> 0]
NoImage == [slot |-> "A", version |-> 0, generation |-> 0, recovery |-> FALSE]

Records == {"BOOTSTA0", "BOOTSTA1"}

BootStates == [generation : Nat, slot : Slots, version : Nat]

Files == [type : {"kernel", "manifest"}, of : Slots] \cup [type : {"state"}, of : Records]
Kernel(s) == [type |-> "kernel", of |-> s]
Manifest(s) == [type |-> "manifest", of |-> s]
State(i) == [type |-> "state", of |-> i]

Damaged(f) == CASE f.type = "kernel" -> 0
                [] f.type = "manifest" -> NoRelease
                [] f.type = "state" -> NoState

VARIABLES file,        \* contents of the files of the EFI System Partition
          floor,       \* UEFI variable CodexOsHighestRelease, 0 if not set
          root,        \* key of CodexOsTrustRoot, or the embedded one
          pc,          \* what the machine or the updater does next
          stage,       \* loader: "active", "fallback" or "scan"
          slot,        \* loader: the slot being loaded; updater: inactive slot
          current,     \* boot state read by the loader or the updater
          best,        \* loader: highest release of the scan so far, or none
          image,       \* what was booted: slot, version, generation, recovery
          release,     \* updater: the release being applied
          highest,     \* history: highest version that ever ran
          published,   \* history: highest version in the image or of an update begun
          exposed,     \* history: an update began with its active slot unusable
          boot_roots,  \* history: the trust roots of this boot
          excused      \* history: this boot began without a usable slot, or
                       \* met an I/O error

nv == <<floor, root>>
loader == <<stage, best, image>>
history == <<highest, published, exposed>>
vars == <<file, nv, pc, loader, slot, current, release, history, boot_roots, excused>>

-----------------------------------------------------------------------------
(* The formats and the checks on them *)

\* The records among is that decode: BootState::decode refuses generation 0.
Decodable(is) == {i \in is : file[State(i)].generation # 0}

\* load_boot_state and latest_boot_state: the newest record that decodes.
Newest(is, st) ==
  \E i \in Decodable(is) :
    /\ st = file[State(i)]
    /\ \A j \in Decodable(is) :
         \/ file[State(j)].generation < st.generation
         \/ file[State(j)].generation = st.generation /\ (i = "BOOTSTA0" \/ i = j)

\* Mutant: the key identifier of the manifest is not compared.
Loadable_any_key(s) ==
  LET m == file[Manifest(s)]
  IN  /\ m.version # 0
      /\ file[Kernel(s)] = m.version
      /\ m.version >= floor

\* verify_kernel_release and the check of enforce_release_version.
Loadable(s) ==
  LET m == file[Manifest(s)]
  IN  /\ m.version # 0
      /\ file[Kernel(s)] = m.version
      /\ m.key = root
      /\ m.version >= floor

state_file(generation) == State(IF generation % 2 = 1 THEN "BOOTSTA0" ELSE "BOOTSTA1")

\* What a write that did not complete can leave behind.
Interrupted(f, new) ==
  \E content \in {file[f], new, Damaged(f)} : file' = [file EXCEPT ![f] = content]
-----------------------------------------------------------------------------
(* The loader: load_kernel_image *)

SomeSlotLoadable == \E s \in Slots : Loadable(s)

\* load_boot_state.  A record that cannot be read is passed over.
LoadBootState ==
  /\ pc = "off"
  /\ \E readable \in SUBSET Records :
       /\ excused' = (~SomeSlotLoadable \/ readable # Records)
       /\ \/ \E st \in {file[State(i)] : i \in readable} :
               /\ Newest(readable, st)
               /\ current' = st
               /\ stage' = "active"
               /\ slot' = st.slot
          \/ /\ Decodable(readable) = {}
             /\ stage' = "scan"
             /\ slot' = "A"
             /\ current' = NoState
  /\ pc' = "verify"
  /\ best' = "none"
  /\ boot_roots' = {root}
  /\ UNCHANGED <<file, nv, image, release, history>>

\* get_image_file_system fails: nothing can be loaded.
FileSystemUnavailable ==
  /\ pc = "off"
  /\ pc' = "halted"
  /\ excused' = TRUE
  /\ boot_roots' = {root}
  /\ UNCHANGED <<file, nv, loader, slot, current, release, history>>

\* The kernel starts.
Start(s, version, generation, recovery) ==
  /\ pc' = "running"
  /\ image' = [slot |-> s, version |-> version, generation |-> generation,
               recovery |-> recovery]
  /\ highest' = IF version > highest THEN version ELSE highest
  /\ UNCHANGED <<published, exposed>>

\* load_kernel_image and recover_from_missing_boot_state after a slot: on to
\* the next one or to the end, with scanned as the best of the scan so far.
Continue(scanned) ==
  /\ best' = scanned
  /\ \/ /\ stage = "active"
        /\ stage' = "fallback" /\ slot' = other(slot) /\ pc' = "verify"
     \/ /\ stage = "scan" /\ slot = "A"
        /\ stage' = "scan" /\ slot' = "B" /\ pc' = "verify"
     \/ /\ stage = "scan" /\ slot = "B" /\ scanned # "none"
        /\ stage' = "scan" /\ slot' = scanned /\ pc' = "repair_first"
     \/ /\ \/ stage = "fallback"
           \/ stage = "scan" /\ slot = "B" /\ scanned = "none"
        /\ stage' = stage /\ slot' = slot /\ pc' = "halted"
  /\ UNCHANGED <<image, history>>

\* Mutant: the floor is checked but not raised.
VerifySlot_floor_kept ==
  /\ pc = "verify"
  /\ Loadable(slot)
  /\ pc' = "root"
  /\ UNCHANGED <<file, floor, root, loader, slot, current, release, history, boot_roots, excused>>

\* load_system_slot up to enforce_release_version, which raises the floor.
VerifySlot ==
  /\ pc = "verify"
  /\ Loadable(slot)
  /\ floor' = file[Manifest(slot)].version
  /\ pc' = "root"
  /\ UNCHANGED <<file, root, loader, slot, current, release, history, boot_roots, excused>>

\* load_system_slot fails, on the slot's contents or on an I/O error, before
\* the floor is raised.
RejectSlot ==
  /\ pc = "verify"
  /\ excused' = (excused \/ Loadable(slot))
  /\ Continue(best)
  /\ UNCHANGED <<file, nv, current, release, boot_roots>>

NextRoot == LET next == file[Manifest(slot)].next IN IF next = NoKey THEN root ELSE next

\* apply_trust_root_update, and the slot is accepted; an active slot must
\* still hold the release that the boot state names.
AcceptSlot ==
  LET version == file[Manifest(slot)].version
  IN  /\ pc = "root"
      /\ root' = NextRoot
      /\ boot_roots' = boot_roots \cup {root'}
      /\ \/ /\ stage = "active" /\ version = current.version
            /\ Start(slot, version, current.generation, FALSE)
            /\ UNCHANGED <<stage, slot, best>>
         \/ /\ stage = "active" /\ version # current.version
            /\ Continue(best)
         \/ /\ stage = "fallback"
            /\ pc' = "persist"
            /\ UNCHANGED <<stage, slot, best, image, history>>
         \/ /\ stage = "scan"
            /\ Continue(IF best = "none" \/ version > file[Manifest(best)].version
                        THEN slot ELSE best)
      /\ UNCHANGED <<file, floor, current, release, excused>>

\* apply_trust_root_update fails: the variable may have been written.
TrustRootFails ==
  /\ pc = "root"
  /\ NextRoot # root
  /\ root' \in {root, NextRoot}
  /\ boot_roots' = boot_roots \cup {root'}
  /\ excused' = TRUE
  /\ Continue(best)
  /\ UNCHANGED <<file, floor, current, release>>

\* Mutant: the repaired state goes on naming the slot that was rejected.
Repaired_old_slot(generation) ==
  [generation |-> generation, slot |-> current.slot, version |-> file[Manifest(slot)].version]

Repaired(generation) ==
  [generation |-> generation, slot |-> slot, version |-> file[Manifest(slot)].version]

\* The record the loader writes next, in persist_fallback_boot_state and
\* repair_boot_state.
LoaderWrites ==
  CASE pc = "persist" -> Repaired(current.generation + 1)
    [] pc = "repair_first" -> Repaired(1)
    [] pc = "repair_second" -> Repaired(2)

\* persist_fallback_boot_state: write and reread.
PersistFallback ==
  /\ pc = "persist"
  /\ current.generation < MaxGeneration
  /\ file' = [file EXCEPT ![state_file(LoaderWrites.generation)] = LoaderWrites]
  /\ Start(slot, LoaderWrites.version, LoaderWrites.generation, TRUE)
  /\ UNCHANGED <<nv, stage, best, slot, current, release, boot_roots, excused>>

\* The fallback boots even if its state cannot be stored.
PersistFails ==
  /\ pc = "persist"
  /\ \/ current.generation = MaxGeneration /\ file' = file
     \/ /\ current.generation < MaxGeneration
        /\ Interrupted(state_file(LoaderWrites.generation), LoaderWrites)
  /\ Start(slot, LoaderWrites.version, current.generation, TRUE)
  /\ UNCHANGED <<nv, stage, best, slot, current, release, boot_roots, excused>>

\* repair_boot_state, its first and its second record.
RepairFirst ==
  /\ pc = "repair_first"
  /\ file' = [file EXCEPT ![State("BOOTSTA0")] = LoaderWrites]
  /\ pc' = "repair_second"
  /\ UNCHANGED <<nv, loader, slot, current, release, history, boot_roots, excused>>

RepairSecond ==
  /\ pc = "repair_second"
  /\ file' = [file EXCEPT ![State("BOOTSTA1")] = LoaderWrites]
  /\ Start(slot, LoaderWrites.version, 2, TRUE)
  /\ UNCHANGED <<nv, stage, best, slot, current, release, boot_roots, excused>>

RepairFails ==
  /\ pc \in {"repair_first", "repair_second"}
  /\ Interrupted(state_file(LoaderWrites.generation), LoaderWrites)
  /\ Start(slot, LoaderWrites.version, 0, TRUE)
  /\ UNCHANGED <<nv, stage, best, slot, current, release, boot_roots, excused>>

\* The machine is off, and neither the loader nor the updater runs.
SwitchedOff ==
  /\ pc' = "off"
  /\ stage' = "active" /\ slot' = "A" /\ best' = "none"
  /\ current' = NoState /\ image' = NoImage /\ release' = NoRelease
  /\ boot_roots' = {} /\ excused' = FALSE

LoaderPcs == {"verify", "root", "persist", "repair_first", "repair_second"}

\* Power off, reset or loss of power while the loader or the kernel runs.
PowerLoss ==
  /\ pc \in LoaderPcs \cup {"running", "halted"}
  /\ IF pc \in {"persist", "repair_first", "repair_second"}
        /\ LoaderWrites.generation <= MaxGeneration
     THEN Interrupted(state_file(LoaderWrites.generation), LoaderWrites)
     ELSE file' = file
  /\ SwitchedOff
  /\ UNCHANGED <<nv, history>>
-----------------------------------------------------------------------------
(* The offline updater: apply_signed_update_to_filesystem *)

\* Mutant: the update goes to the active slot first.
UpdateStart_active_slot(r) ==
  /\ pc = "off"
  /\ \E st \in {file[State(i)] : i \in Records} :
       /\ Newest(Records, st)
       /\ r.version > st.version
       /\ current' = st
       /\ slot' = st.slot
       /\ exposed' = (exposed \/ ~Loadable(st.slot))
  /\ release' = r
  /\ published' = r.version
  /\ pc' = "write_kernel"
  /\ UNCHANGED <<file, nv, loader, highest, boot_roots, excused>>

\* The update is higher than what the newest record calls active.
UpdateStart(r) ==
  /\ pc = "off"
  /\ \E st \in {file[State(i)] : i \in Records} :
       /\ Newest(Records, st)
       /\ r.version > st.version
       /\ current' = st
       /\ slot' = other(st.slot)
       /\ exposed' = (exposed \/ ~Loadable(st.slot))
  /\ release' = r
  /\ published' = r.version
  /\ pc' = "write_kernel"
  /\ UNCHANGED <<file, nv, loader, highest, boot_roots, excused>>

UpdaterPcs ==
  {"write_kernel", "write_manifest", "write_state", "copy_kernel", "copy_manifest", "unmount"}

NextState ==
  [generation |-> current.generation + 1, slot |-> slot, version |-> release.version]

\* The file that the updater writes next, and what it writes.
UpdaterFile ==
  CASE pc = "write_kernel" -> Kernel(slot)
    [] pc = "write_manifest" -> Manifest(slot)
    [] pc = "write_state" -> state_file(NextState.generation)
    [] pc = "copy_kernel" -> Kernel(other(slot))
    [] pc = "copy_manifest" -> Manifest(other(slot))

UpdaterContent ==
  CASE UpdaterFile.type = "kernel" -> release.version
    [] UpdaterFile.type = "manifest" -> release
    [] UpdaterFile.type = "state" -> NextState

AfterWrite ==
  CASE pc = "write_kernel" -> "write_manifest"
    [] pc = "write_manifest" -> "write_state"
    [] pc = "write_state" -> "copy_kernel"
    [] pc = "copy_kernel" -> "copy_manifest"
    [] pc = "copy_manifest" -> "unmount"

\* One write_fat_file with the readback that follows it.
UpdaterWrite ==
  /\ pc \in UpdaterPcs \ {"unmount"}
  /\ pc = "write_state" => current.generation < MaxGeneration
  /\ file' = [file EXCEPT ![UpdaterFile] = UpdaterContent]
  /\ pc' = AfterWrite
  /\ UNCHANGED <<nv, loader, slot, current, release, history, boot_roots, excused>>

\* unmount and sync_all; the update is reported as committed.
UpdateCommitted ==
  /\ pc = "unmount"
  /\ SwitchedOff
  /\ UNCHANGED <<file, nv, history>>

\* The updater gives up on an error (of the last generation, before it writes
\* the state) or is killed: what it wrote stays.
UpdaterDies ==
  /\ pc \in UpdaterPcs
  /\ IF pc = "unmount" \/ (pc = "write_state" /\ current.generation = MaxGeneration)
     THEN file' = file
     ELSE Interrupted(UpdaterFile, UpdaterContent)
  /\ SwitchedOff
  /\ UNCHANGED <<nv, history>>

-----------------------------------------------------------------------------
(* Faults of the medium *)

\* A file of one slot is damaged while both are usable.
DamageSlot ==
  /\ pc = "off"
  /\ \A s \in Slots : Loadable(s)
  /\ \E s \in Slots : \E f \in {Kernel(s), Manifest(s)} :
       file' = [file EXCEPT ![f] = Damaged(f)]
  /\ UNCHANGED <<nv, pc, loader, slot, current, release, history, boot_roots, excused>>

\* A boot-state record is damaged, at any time and both if need be.
DamageRecord ==
  /\ pc = "off"
  /\ \E i \in Records : file' = [file EXCEPT ![State(i)] = NoState]
  /\ UNCHANGED <<nv, pc, loader, slot, current, release, history, boot_roots, excused>>

-----------------------------------------------------------------------------

\* make_image: the lowest release in both slots, selected by two records.
Init ==
  /\ \E r \in Releases :
       /\ \A s \in Releases : r.version <= s.version
       /\ r.key = BootstrapKey
       /\ file = [f \in Files |->
                    CASE f.type = "kernel" -> r.version
                      [] f.type = "manifest" -> r
                      [] f.type = "state" ->
                           [generation |-> IF f.of = "BOOTSTA0" THEN 1 ELSE 2,
                            slot |-> "A", version |-> r.version]]
       /\ published = r.version
  /\ floor = 0
  /\ root = BootstrapKey
  /\ pc = "off"
  /\ stage = "active" /\ slot = "A" /\ best = "none"
  /\ current = NoState /\ image = NoImage /\ release = NoRelease
  /\ highest = 0
  /\ exposed = FALSE
  /\ boot_roots = {}
  /\ excused = FALSE

LoaderNext ==
  \/ FileSystemUnavailable
  \/ LoadBootState
  \/ VerifySlot
  \/ RejectSlot
  \/ AcceptSlot
  \/ TrustRootFails
  \/ PersistFallback
  \/ PersistFails
  \/ RepairFirst
  \/ RepairSecond
  \/ RepairFails
  \/ PowerLoss

\* Releases are applied in the order of their versions; an update that failed
\* may be applied again.
UpdaterNext ==
  \/ \E r \in Releases : r.version >= published /\ UpdateStart(r)
  \/ UpdaterWrite
  \/ UpdateCommitted
  \/ UpdaterDies

Next == LoaderNext \/ UpdaterNext \/ DamageSlot \/ DamageRecord

Spec == Init /\ [][Next]_vars
-----------------------------------------------------------------------------
(* Properties *)

\* Every variable keeps its type.
TypeOK ==
  /\ \A s \in Slots : /\ file[Kernel(s)] \in {r.version : r \in Releases} \cup {0}
                      /\ file[Manifest(s)] \in Releases \cup {NoRelease}
  /\ \A i \in Records :
       file[State(i)] \in BootStates /\ file[State(i)].generation <= MaxGeneration
  /\ floor \in Nat
  /\ root \in {BootstrapKey} \cup {r.next : r \in Releases}
  /\ pc \in {"off", "running", "halted"} \cup LoaderPcs \cup UpdaterPcs
  /\ stage \in {"active", "fallback", "scan"}
  /\ slot \in Slots
  /\ best \in Slots \cup {"none"}

\* A kernel older than one that already ran never runs, whatever is damaged,
\* interrupted or repaired in between.
NeverOlderRelease ==
  [][pc' = "running" /\ pc # "running" => image'.version >= highest]_vars

\* A release runs only under a trust root of this very boot: the one it began
\* with or one that the manifests it verified lead to, never one replaced in an
\* earlier boot.
OldKeyNeverBoots ==
  [][pc' = "running" /\ pc # "running" =>
       file[Manifest(image'.slot)].key \in boot_roots']_vars

\* No release published so far replaces the signing key.  The transition
\* release itself is signed by the old key: booting it replaces the trust
\* root, and both slots are refused until an update of the new key is applied.
OneKeySoFar ==
  \A r \in Releases : r.version <= published => r.key = BootstrapKey /\ r.next = NoKey

\* As long as every update began on a usable active slot, some slot passes
\* the loader's checks at every moment until the key is replaced: no crash of
\* loader or updater, no repair and no single damaged slot leaves the machine
\* without a system.
AlwaysBootable == OneKeySoFar /\ ~exposed => SomeSlotLoadable

\* The loader finds that slot: a boot without I/O errors that begins with a
\* usable slot does not end with BothSystemSlotsUnavailable.
BootFindsSlot == pc = "halted" => excused

\* The loader read a record, and the slot it names holds a whole release that
\* is newer than the record says.
StaleRecord ==
  LET m == file[Manifest(current.slot)]
  IN  /\ current.generation # 0
      /\ m.version # 0 /\ file[Kernel(current.slot)] = m.version
      /\ current.version < m.version

\* The loader misses a usable slot only if it read a stale record: neither a
\* damaged kernel, manifest or record nor the scan without records hides one.
BootFindsNamedSlot == pc = "halted" => excused \/ StaleRecord

\* After a fallback whose state was stored the newest record names the slot
\* that runs, and that slot passes the checks of the next boot, until the key
\* is replaced.
RecoveryLasts ==
  OneKeySoFar /\ pc = "running" /\ image.recovery /\ image.generation > current.generation =>
    /\ Newest(Records, [generation |-> image.generation, slot |-> image.slot,
                        version |-> image.version])
    /\ Loadable(image.slot)

\* The records as a whole: their generation never passes the last one, at which
\* a fallback boots without being recorded, and a recovery they report lasts.
RecordsKept == TypeOK /\ RecoveryLasts

\* A release the loader has verified in this boot: at least as new as all that
\* ran before, and covered by the floor.
Covered(s) ==
  highest <= file[Manifest(s)].version /\ file[Manifest(s)].version <= floor

\* The files are well formed.
FilesOK ==
  /\ file = [f \in Files |-> file[f]]
  /\ \A s \in Slots : file[Manifest(s)] \in Releases \cup {NoRelease}
  /\ \A i \in Records : file[State(i)].slot \in Slots

\* The floor in NVRAM covers every version that ever ran, and a slot that
\* load_system_slot returned stays between the two until it boots: nothing
\* the loader does in between (fallback, scan, repair) reads another floor.
\* This is the inductive invariant behind NeverOlderRelease.
FloorInv ==
  /\ FilesOK
  /\ floor \in Nat /\ highest \in Nat /\ highest <= floor
  /\ slot \in Slots
  /\ best \in Slots \cup {"none"}
  /\ pc \in {"root", "persist", "repair_first", "repair_second"} => Covered(slot)
  /\ best # "none" => pc \notin {"off"} \cup UpdaterPcs
  /\ best # "none" /\ pc \in {"verify", "root"} => Covered(best)
  /\ pc \in UpdaterPcs => release \in Releases

\* The trust root that counts now and the keys of the slots this boot verified
\* are trust roots of this boot: the invariant behind OldKeyNeverBoots.
RootsInv ==
  /\ pc \in LoaderPcs => root \in boot_roots
  /\ pc \in {"root", "persist", "repair_first", "repair_second"}
       => file[Manifest(slot)].key \in boot_roots
  /\ best # "none" /\ pc \in {"verify", "root"} => file[Manifest(best)].key \in boot_roots

\* Nothing in the machine is newer than what was published.
PublishedInv ==
  /\ published \in Nat /\ floor <= published
  /\ \A s \in Slots : file[Manifest(s)].version <= published
  /\ pc \in UpdaterPcs => release.version = published

\* The updater leaves the active slot usable until the record names the other
\* one, which by then holds the whole release.
UpdateInv ==
  /\ SomeSlotLoadable
  /\ pc \in {"write_kernel", "write_manifest", "write_state"} => Loadable(other(slot))
  /\ pc \in UpdaterPcs \ {"write_kernel"} => file[Kernel(slot)] = release.version
  /\ pc \in UpdaterPcs \ {"write_kernel", "write_manifest"} => file[Manifest(slot)] = release

\* The inductive invariant behind AlwaysBootable.
BootableInv ==
  /\ PublishedInv
  /\ OneKeySoFar => root = BootstrapKey
  /\ OneKeySoFar /\ ~exposed => UpdateInv

\* What a record says of a slot: the manifest there is damaged, or is not older
\* than the record.
NotAhead(st) ==
  /\ st.version \in Nat /\ st.version <= published
  /\ LET m == file[Manifest(st.slot)] IN m.version = 0 \/ st.version <= m.version

\* No record runs ahead of its slot, since the updater writes the record after
\* the manifest and the loader copies the version from the manifest.
NamedInv ==
  /\ \A i \in Records : NotAhead(file[State(i)])
  /\ pc \in UpdaterPcs \ {"write_kernel", "write_manifest"} => file[Manifest(slot)] = release
  /\ pc \in {"verify", "root"} /\ stage = "active" => current.generation # 0 /\ NotAhead(current)
  /\ pc = "root" =>
       LET m == file[Manifest(slot)] IN m.version # 0 /\ file[Kernel(slot)] = m.version

\* What the loader still has to find while it looks for a slot, unless it read
\* a stale record: the invariant behind BootFindsNamedSlot.
SearchInv ==
  /\ pc \in {"verify", "root"} /\ stage = "active" => slot = current.slot
  /\ pc = "verify" /\ ~excused =>
       \/ stage = "active" /\ SomeSlotLoadable
       \/ stage = "fallback" /\ (Loadable(slot) \/ StaleRecord)
       \/ stage = "scan" /\ slot = "A" /\ SomeSlotLoadable
       \/ stage = "scan" /\ slot = "B" /\ (best # "none" \/ Loadable(slot))
  /\ BootFindsNamedSlot

\* The loader keeps the record that it read, if it read one.
ReadInv ==
  /\ pc \in LoaderPcs =>
       IF stage = "scan" THEN current = NoState
       ELSE current.generation # 0 /\ \E i \in Records : file[State(i)] = current
  /\ pc \in LoaderPcs /\ stage # "scan" => best = "none"
  /\ pc = "persist" => stage = "fallback"
  /\ pc \in {"repair_first", "repair_second"} => stage = "scan"
  /\ pc = "repair_second" => file[State("BOOTSTA0")] = Repaired(1)

\* One record holds the odd generations and the other the even ones, so that
\* the next generation never replaces the record that was read.
NumberedInv ==
  /\ \A i \in Records : LET g == file[State(i)].generation IN g # 0 => state_file(g) = State(i)
  /\ current \in BootStates /\ current.generation <= MaxGeneration
  /\ ReadInv

\* Until the key is replaced, what the loader has accepted stays acceptable.
AcceptedInv ==
  /\ pc \in {"root", "persist", "repair_first", "repair_second"} => Loadable(slot)
  /\ best # "none" /\ pc = "verify" => Loadable(best)
  /\ best # "none" /\ pc = "root" =>
       LET m == file[Manifest(best)]
       IN  m.version # 0 /\ file[Kernel(best)] = m.version /\ m.key = root

\* The inductive invariant behind RecordsKept.
RecordsInv ==
  /\ TypeOK
  /\ NumberedInv
  /\ OneKeySoFar => AcceptedInv
  /\ RecoveryLasts
=============================================================================
