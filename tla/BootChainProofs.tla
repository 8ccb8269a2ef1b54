--------------------------- MODULE BootChainProofs ---------------------------
(***************************************************************************)
(* The boot chain, for every set of releases and keys: no rollback, a slot *)
(* that can always be booted, keys that stay replaced, and a search that   *)
(* finds the slot.                                                         *)
(***************************************************************************)
EXTENDS BootChain, TLAPS

-----------------------------------------------------------------------------
(* Files *)

\* The files of a slot and the boot-state records are different files.
LEMMA FileNames ==
  /\ \A s \in Slots : Manifest(s) \in Files /\ Kernel(s) \in Files
  /\ \A i \in Records : State(i) \in Files
  /\ \A s, t \in Slots : s # t => Manifest(s) # Manifest(t)
  /\ \A s, t \in Slots : Manifest(s) # Kernel(t)
  /\ \A s \in Slots, i \in Records : Manifest(s) # State(i)
  /\ \A i, j \in Records : i # j => State(i) # State(j)
  /\ \A g : \E i \in Records : state_file(g) = State(i)
<1>1. \A s \in Slots : Manifest(s) \in Files /\ Kernel(s) \in Files
  BY DEF Manifest, Kernel, Files
<1>2. \A i \in Records : State(i) \in Files
  BY DEF State, Files
<1>3. \A s, t \in Slots : s # t => Manifest(s) # Manifest(t)
  BY DEF Manifest
<1>4. \A s, t \in Slots : Manifest(s) # Kernel(t)
  BY DEF Manifest, Kernel
<1>5. /\ \A s \in Slots, i \in Records : Manifest(s) # State(i)
      /\ \A i, j \in Records : i # j => State(i) # State(j)
  BY DEF Manifest, State
<1>6. \A g : \E i \in Records : state_file(g) = State(i)
  BY DEF state_file, Records
<1> QED
  BY <1>1, <1>2, <1>3, <1>4, <1>5, <1>6

\* Contents that fit a file.
Fits(f, content) ==
  /\ f.type = "manifest" => content \in Releases \cup {NoRelease}
  /\ f.type = "state" => content.slot \in Slots

\* Writing a file with contents of its kind, whole, in part or not at all.
LEMMA AnyWrite ==
  ASSUME FilesOK, NEW f \in Files, NEW content, Fits(f, content),
         file' = [file EXCEPT ![f] = content]
  PROVE  FilesOK' /\ \A g \in Files : g # f => file'[g] = file[g]
<1>1. \A g \in Files : file'[g] = IF g = f THEN content ELSE file[g]
  BY DEF FilesOK
<1>2. file' = [g \in Files |-> file'[g]]
  BY DEF FilesOK
<1>3. \A s \in Slots : Manifest(s).type = "manifest"
  BY DEF Manifest
<1>4. \A i \in Records : State(i).type = "state"
  BY DEF State
<1>5. \A s \in Slots : file'[Manifest(s)] \in Releases \cup {NoRelease}
  BY <1>1, <1>3, FileNames DEF FilesOK, Fits
<1>6. \A i \in Records : file'[State(i)].slot \in Slots
  BY <1>1, <1>4, FileNames DEF FilesOK, Fits
<1> QED
  BY <1>1, <1>2, <1>5, <1>6 DEF FilesOK

LEMMA AnyInterrupted ==
  ASSUME FilesOK, NEW f \in Files, NEW new, Fits(f, new), Interrupted(f, new)
  PROVE  FilesOK' /\ \A g \in Files : g # f => file'[g] = file[g]
<1>1. PICK content \in {file[f], new, Damaged(f)} : file' = [file EXCEPT ![f] = content]
  BY Zenon DEF Interrupted
<1>2. Fits(f, Damaged(f))
  BY DEF Fits, Damaged, NoState, Slots
<1>3. Fits(f, file[f])
  <2>1. CASE f.type = "manifest"
    <3>1. PICK s \in Slots : f = Manifest(s)
      BY <2>1 DEF Files, Manifest
    <3> QED
      BY <2>1, <3>1 DEF FilesOK, Fits
  <2>2. CASE f.type = "state"
    <3>1. PICK i \in Records : f = State(i)
      BY <2>2 DEF Files, State
    <3> QED
      BY <2>2, <3>1 DEF FilesOK, Fits
  <2> QED
    BY <2>1, <2>2 DEF Fits
<1> QED
  BY <1>1, <1>2, <1>3, AnyWrite, Zenon

\* Writing a boot-state record leaves the manifests alone.
LEMMA RecordWrite ==
  ASSUME FilesOK, NEW g, NEW new, new.slot \in Slots,
         \/ file' = [file EXCEPT ![state_file(g)] = new]
         \/ Interrupted(state_file(g), new)
  PROVE  FilesOK' /\ \A s \in Slots : file'[Manifest(s)] = file[Manifest(s)]
<1>1. PICK i \in Records : state_file(g) = State(i)
  BY FileNames
<1>2. State(i) \in Files /\ Fits(State(i), new)
  BY FileNames DEF Fits, State
<1>3. FilesOK' /\ \A f \in Files : f # State(i) => file'[f] = file[f]
  BY <1>1, <1>2, AnyWrite, AnyInterrupted
<1> QED
  BY <1>3, FileNames

\* Versions are numbers.
LEMMA VersionsNat == \A r \in Releases \cup {NoRelease} : r.version \in Nat
  BY BootChainAssumption DEF NoRelease

-----------------------------------------------------------------------------
(* The invariant *)

LEMMA InitFloorInv == Init => FloorInv
<1> SUFFICES ASSUME Init PROVE FloorInv
  OBVIOUS
<1> DEFINE Content(r, f) == CASE f.type = "kernel" -> r.version
                              [] f.type = "manifest" -> r
                              [] f.type = "state" ->
                                   [generation |-> IF f.of = "BOOTSTA0" THEN 1 ELSE 2,
                                    slot |-> "A", version |-> r.version]
<1>1. PICK r \in Releases : file = [f \in Files |-> Content(r, f)]
  BY Zenon DEF Init
<1>2. ASSUME NEW s \in Slots PROVE Content(r, Manifest(s)) = r
  <2>1. Manifest(s).type = "manifest"
    BY DEF Manifest
  <2> QED
    BY <2>1
<1> HIDE DEF Content
<1>3. file = [f \in Files |-> file[f]] /\ \A s \in Slots : file[Manifest(s)] = r
  BY <1>1, <1>2, FileNames
<1>5. \A i \in Records : file[State(i)].slot = "A"
  <2> SUFFICES ASSUME NEW i \in Records PROVE Content(r, State(i)).slot = "A"
    BY <1>1, FileNames
  <2>1. State(i).type = "state"
    BY DEF State
  <2> QED
    BY <2>1 DEF Content
<1>4. floor = 0 /\ highest = 0 /\ pc = "off" /\ slot = "A" /\ best = "none"
  BY Zenon DEF Init
<1> QED
  BY <1>3, <1>4, <1>5 DEF FloorInv, FilesOK, Slots, UpdaterPcs

\* A step of the loader that starts no kernel and raises no floor.
LEMMA QuietStep ==
  ASSUME FloorInv, FilesOK', \A s \in Slots : file'[Manifest(s)] = file[Manifest(s)],
         floor' = floor, highest' = highest, slot' \in Slots,
         best' \in Slots \cup {"none"},
         best' # "none" => pc' # "off",
         best' # "none" /\ pc' \in {"verify", "root"} => Covered(best'),
         pc' \in {"root", "persist", "repair_first", "repair_second"} => Covered(slot'),
         pc' \notin UpdaterPcs
  PROVE  FloorInv'
<1>1. floor' \in Nat /\ highest' \in Nat /\ highest' <= floor'
  BY DEF FloorInv
<1>2. ASSUME NEW s \in Slots, Covered(s)
      PROVE  highest' <= file'[Manifest(s)].version /\ file'[Manifest(s)].version <= floor'
  BY <1>2 DEF Covered
<1> QED
  BY <1>1, <1>2 DEF FloorInv, FilesOK, Covered

\* The kernel starts from a slot the loader verified.
LEMMA StartStep ==
  ASSUME FloorInv, FilesOK', \A s \in Slots : file'[Manifest(s)] = file[Manifest(s)],
         NEW generation, NEW recovery, Covered(slot),
         Start(slot, file[Manifest(slot)].version, generation, recovery),
         floor' = floor, slot' = slot, best' = best
  PROVE  FloorInv' /\ image'.version >= highest
<1> DEFINE v == file[Manifest(slot)].version
<1>1. v \in Nat /\ highest \in Nat /\ floor \in Nat /\ highest <= v /\ v <= floor
  BY VersionsNat DEF FloorInv, FilesOK, Covered
<1>2. highest' = v /\ pc' = "running" /\ image'.version = v
  BY <1>1 DEF Start
<1> QED
  BY <1>1, <1>2 DEF FloorInv, UpdaterPcs

\* The machine is switched off or the updater ends, whatever was written.
LEMMA OffStep ==
  ASSUME FloorInv, FilesOK', SwitchedOff, floor' = floor, highest' = highest
  PROVE  FloorInv' /\ pc' # "running"
BY DEF FloorInv, SwitchedOff, Slots, UpdaterPcs

\* What the updater writes fits its file.
LEMMA UpdaterFits ==
  ASSUME FloorInv, pc \in UpdaterPcs \ {"unmount"}
  PROVE  UpdaterFile \in Files /\ Fits(UpdaterFile, UpdaterContent)
<1>1. slot \in Slots /\ other(slot) \in Slots /\ release \in Releases
  BY DEF FloorInv, other, Slots
<1>2. PICK i \in Records : state_file(NextState.generation) = State(i)
  BY FileNames
<1>3. UpdaterFile \in {Kernel(slot), Manifest(slot), State(i), Kernel(other(slot)),
                       Manifest(other(slot))}
  BY <1>2 DEF UpdaterFile, UpdaterPcs
<1>4. UpdaterFile \in Files
  BY <1>1, <1>3, FileNames DEF Files, Kernel
<1>5. UpdaterFile.type = "manifest" => UpdaterContent = release
  BY DEF UpdaterContent
<1>6. UpdaterFile.type = "state" => UpdaterContent = NextState
  BY DEF UpdaterContent
<1>7. NextState.slot = slot
  BY DEF NextState
<1> QED
  BY <1>1, <1>4, <1>5, <1>6, <1>7 DEF Fits

\* Going on with another slot after one that was accepted or rejected.
LEMMA ContinueStep ==
  ASSUME FloorInv, pc \in {"verify", "root"}, NEW scanned \in Slots \cup {"none"},
         scanned # "none" => Covered(scanned),
         Continue(scanned), file' = file, floor' = floor
  PROVE  FloorInv'
<1>1. FilesOK' /\ \A s \in Slots : file'[Manifest(s)] = file[Manifest(s)]
  BY DEF FloorInv, FilesOK
<1>2. slot' \in Slots
  BY DEF Continue, FloorInv, other, Slots
<1>3. highest' = highest /\ best' = scanned
  BY DEF Continue, history
<1>4. pc' \in {"verify", "repair_first", "halted"}
      /\ (pc' = "repair_first" => slot' = scanned /\ scanned # "none")
  BY DEF Continue
<1> QED
  BY <1>1, <1>2, <1>3, <1>4, QuietStep DEF UpdaterPcs

LEMMA FloorStep ==
  FloorInv /\ [Next]_vars
    => /\ FloorInv'
       /\ pc' = "running" /\ pc # "running" => image'.version >= highest
<1> SUFFICES ASSUME FloorInv, [Next]_vars
             PROVE  /\ FloorInv'
                    /\ pc' = "running" /\ pc # "running" => image'.version >= highest
  OBVIOUS
<1> USE VersionsNat
<1>1. FilesOK /\ slot \in Slots /\ best \in Slots \cup {"none"} /\ UpdaterPcs \cap LoaderPcs = {}
      /\ floor \in Nat /\ highest \in Nat /\ highest <= floor
  BY DEF FloorInv, FilesOK, UpdaterPcs, LoaderPcs
<1>2. CASE LoadBootState
  <2>1. pc' = "verify" /\ best' = "none" /\ file' = file /\ floor' = floor /\ highest' = highest
    BY <1>2 DEF LoadBootState, nv, history
  <2>2. FilesOK' /\ \A s \in Slots : file'[Manifest(s)] = file[Manifest(s)]
    BY <1>1, <2>1 DEF FilesOK
  <2>3. slot' \in Slots
    BY <1>1, <1>2 DEF LoadBootState, FilesOK, Slots
  <2> QED
    BY <2>1, <2>2, <2>3, QuietStep DEF UpdaterPcs
<1>3. CASE VerifySlot
  <2> DEFINE v == file[Manifest(slot)].version
  <2>1. v \in Nat /\ v >= floor /\ floor' = v
    BY <1>1, <1>3 DEF VerifySlot, Loadable, FilesOK
  <2>2. /\ file' = file /\ highest' = highest /\ slot' = slot /\ best' = best
        /\ pc = "verify" /\ pc' = "root"
    BY <1>3 DEF VerifySlot, history, loader
  <2>3. best # "none" => Covered(best)
    BY <2>2 DEF FloorInv
  <2>4. best # "none" => file[Manifest(best)].version \in Nat
    BY <1>1 DEF FilesOK
  <2>5. Covered(slot)'
    BY <1>1, <2>1, <2>2 DEF Covered
  <2>6. best # "none" => Covered(best)'
    BY <1>1, <2>1, <2>2, <2>3, <2>4 DEF Covered
  <2>7. FilesOK' /\ floor' \in Nat /\ highest' <= floor'
    BY <1>1, <2>1, <2>2 DEF FilesOK
  <2> QED
    BY <1>1, <2>2, <2>5, <2>6, <2>7 DEF FloorInv, UpdaterPcs
<1>4. CASE RejectSlot
  <2>1. pc = "verify" /\ Continue(best) /\ file' = file /\ floor' = floor
    BY <1>4 DEF RejectSlot, nv
  <2>2. pc' # "running"
    BY <2>1 DEF Continue
  <2> QED
    BY <1>1, <2>1, <2>2, ContinueStep DEF FloorInv
<1>5. CASE AcceptSlot
  <2> DEFINE version == file[Manifest(slot)].version
             scanned == IF best = "none" \/ version > file[Manifest(best)].version
                        THEN slot ELSE best
  <2>1. pc = "root" /\ file' = file /\ floor' = floor /\ Covered(slot)
    BY <1>5 DEF AcceptSlot, FloorInv
  <2>2. FilesOK' /\ \A s \in Slots : file'[Manifest(s)] = file[Manifest(s)]
    BY <1>1, <2>1 DEF FilesOK
  <2>3. CASE /\ Start(slot, version, current.generation, FALSE)
             /\ UNCHANGED <<stage, slot, best>>
    BY <1>1, <2>1, <2>2, <2>3, StartStep, Zenon
  <2>4. CASE Continue(best)
    <3>1. pc' # "running"
      BY <2>4 DEF Continue
    <3> QED
      BY <1>1, <2>1, <2>4, <3>1, ContinueStep DEF FloorInv
  <2>5. CASE pc' = "persist" /\ UNCHANGED <<stage, slot, best, image, history>>
    BY <1>1, <2>1, <2>2, <2>5, QuietStep DEF history, UpdaterPcs, FloorInv
  <2>6. CASE Continue(scanned)
    <3>1. pc' # "running"
      BY <2>6 DEF Continue
    <3>2. scanned \in Slots \cup {"none"} /\ (scanned # "none" => Covered(scanned))
      BY <1>1, <2>1 DEF FloorInv
    <3> QED
      BY <2>1, <2>6, <3>1, <3>2, ContinueStep
  <2> QED
    BY <1>5, <2>3, <2>4, <2>5, <2>6, Zenon DEF AcceptSlot
<1>6. CASE TrustRootFails
  <2>1. pc = "root" /\ Continue(best) /\ file' = file /\ floor' = floor
    BY <1>6 DEF TrustRootFails
  <2>2. pc' # "running"
    BY <2>1 DEF Continue
  <2> QED
    BY <1>1, <2>1, <2>2, ContinueStep DEF FloorInv
<1>7. ASSUME NEW generation
      PROVE  Repaired(generation).slot \in Slots
               /\ Repaired(generation).version = file[Manifest(slot)].version
  BY <1>1 DEF Repaired
<1>8. CASE PersistFallback
  <2>1. pc = "persist" /\ Covered(slot) /\ LoaderWrites = Repaired(current.generation + 1)
    BY <1>8 DEF PersistFallback, FloorInv, LoaderWrites
  <2>2. FilesOK' /\ \A s \in Slots : file'[Manifest(s)] = file[Manifest(s)]
    BY <1>1, <1>7, <1>8, <2>1, RecordWrite, Zenon DEF PersistFallback
  <2>3. Start(slot, file[Manifest(slot)].version, LoaderWrites.generation, TRUE)
    BY <1>7, <1>8, <2>1, Zenon DEF PersistFallback
  <2> QED
    BY <1>8, <2>1, <2>2, <2>3, StartStep, Zenon DEF PersistFallback, nv
<1>9. CASE PersistFails
  <2>1. pc = "persist" /\ Covered(slot) /\ LoaderWrites = Repaired(current.generation + 1)
    BY <1>9 DEF PersistFails, FloorInv, LoaderWrites
  <2>2. FilesOK' /\ \A s \in Slots : file'[Manifest(s)] = file[Manifest(s)]
    <3>1. CASE file' = file
      BY <1>1, <3>1 DEF FilesOK
    <3>2. CASE Interrupted(state_file(LoaderWrites.generation), LoaderWrites)
      BY <1>1, <1>7, <2>1, <3>2, RecordWrite
    <3> QED
      BY <1>9, <3>1, <3>2 DEF PersistFails
  <2>3. Start(slot, file[Manifest(slot)].version, current.generation, TRUE)
    BY <1>7, <1>9, <2>1, Zenon DEF PersistFails
  <2> QED
    BY <1>9, <2>1, <2>2, <2>3, StartStep, Zenon DEF PersistFails, nv
<1>10. CASE RepairFirst
  <2>1. pc = "repair_first" /\ Covered(slot) /\ LoaderWrites = Repaired(1)
    BY <1>10 DEF RepairFirst, FloorInv, LoaderWrites
  <2>2. state_file(1) = State("BOOTSTA0")
    BY DEF state_file
  <2>3. FilesOK' /\ \A s \in Slots : file'[Manifest(s)] = file[Manifest(s)]
    BY <1>1, <1>7, <1>10, <2>1, <2>2, RecordWrite, Zenon DEF RepairFirst
  <2> QED
    BY <1>1, <1>10, <2>1, <2>3, QuietStep DEF RepairFirst, nv, loader, history, UpdaterPcs
<1>11. CASE RepairSecond
  <2>1. pc = "repair_second" /\ Covered(slot) /\ LoaderWrites = Repaired(2)
    BY <1>11 DEF RepairSecond, FloorInv, LoaderWrites
  <2>2. state_file(2) = State("BOOTSTA1")
    BY DEF state_file
  <2>3. FilesOK' /\ \A s \in Slots : file'[Manifest(s)] = file[Manifest(s)]
    BY <1>1, <1>7, <1>11, <2>1, <2>2, RecordWrite, Zenon DEF RepairSecond
  <2>4. Start(slot, file[Manifest(slot)].version, 2, TRUE)
    BY <1>7, <1>11, <2>1, Zenon DEF RepairSecond
  <2> QED
    BY <1>11, <2>1, <2>3, <2>4, StartStep, Zenon DEF RepairSecond, nv
<1>12. CASE RepairFails
  <2>1. Covered(slot) /\ \E g \in {1, 2} : LoaderWrites = Repaired(g)
    BY <1>12 DEF RepairFails, FloorInv, LoaderWrites
  <2>2. FilesOK' /\ \A s \in Slots : file'[Manifest(s)] = file[Manifest(s)]
    BY <1>1, <1>7, <1>12, <2>1, RecordWrite DEF RepairFails
  <2>3. Start(slot, file[Manifest(slot)].version, 0, TRUE)
    BY <1>7, <1>12, <2>1, Zenon DEF RepairFails
  <2> QED
    BY <1>12, <2>1, <2>2, <2>3, StartStep, Zenon DEF RepairFails, nv
<1>13. CASE PowerLoss
  <2>1. FilesOK'
    <3>1. CASE file' = file
      BY <1>1, <3>1 DEF FilesOK
    <3>2. CASE /\ pc \in {"persist", "repair_first", "repair_second"}
               /\ Interrupted(state_file(LoaderWrites.generation), LoaderWrites)
      <4>1. \E g : LoaderWrites = Repaired(g)
        BY <3>2 DEF LoaderWrites
      <4> QED
        BY <1>1, <1>7, <3>2, <4>1, RecordWrite
    <3> QED
      BY <1>13, <3>1, <3>2 DEF PowerLoss
  <2> QED
    BY <1>13, <2>1, OffStep DEF PowerLoss, nv, history
<1>14. CASE \E r \in Releases : UpdateStart(r)
  <2>1. PICK r \in Releases : UpdateStart(r)
    BY <1>14
  <2>2. /\ pc = "off" /\ pc' = "write_kernel" /\ release' = r /\ best' = best
        /\ file' = file /\ floor' = floor /\ highest' = highest
    BY <2>1 DEF UpdateStart, nv, loader
  <2>3. best = "none"
    BY <2>2 DEF FloorInv
  <2>4. slot' \in Slots
    BY <1>1, <2>1 DEF UpdateStart, FilesOK, other, Slots
  <2>5. FilesOK'
    BY <1>1, <2>2 DEF FilesOK
  <2> QED
    BY <1>1, <2>2, <2>3, <2>4, <2>5 DEF FloorInv
<1>15. CASE UpdaterWrite
  <2>1. FilesOK'
    BY <1>1, <1>15, UpdaterFits, AnyWrite, Zenon DEF UpdaterWrite
  <2>2. pc \in UpdaterPcs /\ pc' \in UpdaterPcs
    BY <1>15 DEF UpdaterWrite, AfterWrite, UpdaterPcs
  <2>3. /\ floor' = floor /\ highest' = highest /\ slot' = slot /\ best' = best
        /\ release' = release
    BY <1>15 DEF UpdaterWrite, nv, loader, history
  <2>4. best = "none" /\ release \in Releases
    BY <1>1, <2>2 DEF FloorInv
  <2>5. pc' \notin LoaderPcs /\ pc' # "running"
    BY <2>2 DEF UpdaterPcs, LoaderPcs
  <2> QED
    BY <1>1, <2>1, <2>2, <2>3, <2>4, <2>5 DEF FloorInv, LoaderPcs
<1>16. CASE UpdateCommitted
  <2>1. FilesOK'
    BY <1>1, <1>16 DEF UpdateCommitted, FilesOK
  <2> QED
    BY <1>16, <2>1, OffStep DEF UpdateCommitted, nv, history
<1>17. CASE UpdaterDies
  <2>1. FilesOK'
    <3>1. CASE file' = file
      BY <1>1, <3>1 DEF FilesOK
    <3>2. CASE pc \in UpdaterPcs \ {"unmount"} /\ Interrupted(UpdaterFile, UpdaterContent)
      BY <1>1, <3>2, UpdaterFits, AnyInterrupted
    <3> QED
      BY <1>17, <3>1, <3>2 DEF UpdaterDies
  <2> QED
    BY <1>17, <2>1, OffStep DEF UpdaterDies, nv, history
<1>18. CASE DamageSlot \/ DamageRecord
  <2>1. pc = "off" /\ UNCHANGED <<nv, pc, loader, slot, release, history>>
    BY <1>18 DEF DamageSlot, DamageRecord
  <2>2. PICK f \in Files : \E content : /\ Fits(f, content)
                                        /\ file' = [file EXCEPT ![f] = content]
    <3>1. CASE DamageSlot
      <4>1. PICK s \in Slots : \E f \in {Kernel(s), Manifest(s)} :
                                 file' = [file EXCEPT ![f] = Damaged(f)]
        BY <3>1, Zenon DEF DamageSlot
      <4>2. PICK f \in {Kernel(s), Manifest(s)} : file' = [file EXCEPT ![f] = Damaged(f)]
        BY <4>1, Zenon
      <4>3. f \in Files
        BY <4>2 DEF Files, Kernel, Manifest
      <4>4. Fits(f, Damaged(f))
        BY <4>2 DEF Fits, Damaged, Kernel, Manifest
      <4> QED
        BY <4>2, <4>3, <4>4, Zenon
    <3>2. CASE DamageRecord
      <4>1. PICK i \in Records : file' = [file EXCEPT ![State(i)] = NoState]
        BY <3>2, Zenon DEF DamageRecord
      <4>2. State(i) \in Files /\ Fits(State(i), NoState)
        BY FileNames DEF Fits, State, NoState, Slots
      <4> QED
        BY <4>1, <4>2, Zenon
    <3> QED
      BY <1>18, <3>1, <3>2
  <2>3. FilesOK'
    BY <1>1, <2>2, AnyWrite, Zenon
  <2> QED
    BY <2>1, <2>3 DEF FloorInv, nv, loader, history, UpdaterPcs
<1>19. CASE FileSystemUnavailable
  <2>1. /\ UNCHANGED <<file, floor, highest, slot, best>>
        /\ pc = "off" /\ pc' = "halted"
    BY <1>19 DEF FileSystemUnavailable, nv, loader, history
  <2>2. FilesOK' /\ \A s \in Slots : file'[Manifest(s)] = file[Manifest(s)]
    BY <1>1, <2>1 DEF FilesOK
  <2> QED
    BY <1>1, <2>1, <2>2, QuietStep DEF UpdaterPcs
<1>20. CASE UNCHANGED vars
  <2>1. UNCHANGED <<file, floor, highest, slot, best, pc, release>>
    BY <1>20 DEF vars, nv, loader, history
  <2>2. FilesOK' /\ \A s \in Slots : Covered(s) => Covered(s)'
    BY <1>1, <2>1 DEF FilesOK, Covered
  <2> QED
    BY <1>1, <2>1, <2>2 DEF FloorInv, Covered
<1> QED
  BY <1>2, <1>3, <1>4, <1>5, <1>6, <1>8, <1>9, <1>10, <1>11, <1>12, <1>13, <1>14, <1>15,
     <1>16, <1>17, <1>18, <1>19, <1>20 DEF Next, LoaderNext, UpdaterNext

-----------------------------------------------------------------------------
(* The theorems *)

\* The floor variable covers every version that ever ran, and every slot the
\* loader has verified in this boot lies between the two: enforce_release_version
\* raises CodexOsHighestRelease before anything else can happen to the slot.
THEOREM FloorInvHolds == Spec => []FloorInv
<1>1. FloorInv /\ [Next]_vars => FloorInv'
  BY FloorStep
<1> QED
  BY <1>1, InitFloorInv, PTL DEF Spec

\* No boot runs a release older than one that ran before, for every set of
\* releases and keys and every number of damages, crashes and repairs.
THEOREM NoRollback == Spec => NeverOlderRelease
<1>1. FloorInv /\ [Next]_vars
        => [pc' = "running" /\ pc # "running" => image'.version >= highest]_vars
  BY FloorStep
<1> QED
  BY <1>1, FloorInvHolds, PTL DEF Spec, NeverOlderRelease

-----------------------------------------------------------------------------
(* What a write leaves alone *)

\* The kernels are files of their own.
LEMMA KernelNames ==
  /\ \A s, t \in Slots : s # t => Kernel(s) # Kernel(t)
  /\ \A s \in Slots, i \in Records : Kernel(s) # State(i)
BY DEF Kernel, State

\* The files of a slot, and of both, are as before.
SlotKept(s) == file'[Manifest(s)] = file[Manifest(s)] /\ file'[Kernel(s)] = file[Kernel(s)]
SlotsKept == \A s \in Slots : SlotKept(s)

\* A write, complete or not, touches one file.
LEMMA OneFile ==
  ASSUME FilesOK, NEW f \in Files, NEW new,
         \/ file' = [file EXCEPT ![f] = new]
         \/ Interrupted(f, new)
  PROVE  /\ \A g \in Files : g # f => file'[g] = file[g]
         /\ file'[f] \in {file[f], new, Damaged(f)}
<1>1. PICK content \in {file[f], new, Damaged(f)} : file' = [file EXCEPT ![f] = content]
  BY DEF Interrupted
<1>2. \A g \in Files : file'[g] = IF g = f THEN content ELSE file[g]
  BY <1>1 DEF FilesOK
<1> QED
  BY <1>1, <1>2

\* Writing a boot-state record touches no slot.
LEMMA RecordsAside ==
  ASSUME FilesOK, NEW g, NEW new,
         \/ file' = [file EXCEPT ![state_file(g)] = new]
         \/ Interrupted(state_file(g), new)
  PROVE  SlotsKept
<1>1. PICK i \in Records : state_file(g) = State(i)
  BY FileNames
<1>2. \A h \in Files : h # State(i) => file'[h] = file[h]
  BY <1>1, FileNames, OneFile
<1> QED
  BY <1>2, FileNames, KernelNames DEF SlotsKept, SlotKept

\* A slot whose files, floor and trust root stay is loadable as before.
LEMMA StaysLoadable ==
  ASSUME NEW s \in Slots, Loadable(s), floor' = floor, root' = root, SlotKept(s)
  PROVE  Loadable(s)'
BY DEF Loadable, SlotKept

-----------------------------------------------------------------------------
(* The steps *)

\* A step that writes no slot, raises no floor and publishes nothing.
LEMMA AsideStep ==
  ASSUME BootableInv, SlotsKept, floor' = floor, OneKeySoFar => root' = root,
         published' = published, exposed' = exposed, pc' \notin UpdaterPcs
  PROVE  BootableInv'
<1>1. PublishedInv'
  BY DEF BootableInv, PublishedInv, SlotsKept, SlotKept
<1>2. OneKeySoFar' <=> OneKeySoFar
  BY DEF OneKeySoFar
<1>3. OneKeySoFar' => root' = BootstrapKey
  BY <1>2 DEF BootableInv
<1>4. ASSUME OneKeySoFar', ~exposed' PROVE UpdateInv'
  <2>1. PICK s \in Slots : Loadable(s)
    BY <1>2, <1>4 DEF BootableInv, UpdateInv, SomeSlotLoadable
  <2>2. Loadable(s)'
    BY <1>2, <1>4, <2>1, StaysLoadable DEF SlotsKept
  <2> QED
    BY <2>2 DEF UpdateInv, SomeSlotLoadable, UpdaterPcs
<1> QED
  BY <1>1, <1>3, <1>4 DEF BootableInv

\* Until the key is replaced no manifest names another one.
LEMMA RootStays ==
  ASSUME FloorInv, BootableInv, OneKeySoFar
  PROVE  NextRoot = root
<1>1. /\ file[Manifest(slot)] \in Releases \cup {NoRelease}
      /\ file[Manifest(slot)].version <= published
  BY DEF FloorInv, FilesOK, BootableInv, PublishedInv
<1>2. file[Manifest(slot)].next = NoKey
  BY <1>1 DEF OneKeySoFar, NoRelease
<1> QED
  BY <1>2 DEF NextRoot

\* The release is usable once its manifest is written.
LEMMA ReleaseLoadable ==
  ASSUME FloorInv, BootableInv, OneKeySoFar, ~exposed,
         pc \in UpdaterPcs \ {"write_kernel", "write_manifest"}
  PROVE  Loadable(slot)
<1>1. /\ file[Kernel(slot)] = release.version /\ file[Manifest(slot)] = release
      /\ release \in Releases /\ release.version = published /\ root = BootstrapKey
      /\ floor \in Nat /\ floor <= published /\ published \in Nat
  BY DEF FloorInv, BootableInv, PublishedInv, UpdateInv
<1>2. release.version # 0 /\ release.key = BootstrapKey
  BY <1>1, BootChainAssumption DEF OneKeySoFar
<1> QED
  BY <1>1, <1>2 DEF Loadable

\* The slot that the updater needs while it writes the other one.
Spared == IF pc \in {"copy_kernel", "copy_manifest"} THEN slot ELSE other(slot)

LEMMA SparedLoadable ==
  ASSUME FloorInv, BootableInv, OneKeySoFar, ~exposed, pc \in UpdaterPcs \ {"unmount"}
  PROVE  Spared \in Slots /\ Loadable(Spared)
<1>1. slot \in Slots /\ other(slot) \in Slots
  BY DEF FloorInv, other, Slots
<1>2. CASE pc \in {"copy_kernel", "copy_manifest"}
  BY <1>1, <1>2, ReleaseLoadable DEF Spared, UpdaterPcs
<1>3. CASE pc \in {"write_kernel", "write_manifest", "write_state"}
  BY <1>1, <1>3 DEF Spared, BootableInv, UpdateInv
<1> QED
  BY <1>2, <1>3 DEF UpdaterPcs

\* What the updater writes next belongs to the slot that is not needed.
LEMMA UpdaterSpares ==
  ASSUME FloorInv, pc \in UpdaterPcs \ {"unmount"},
         \/ file' = [file EXCEPT ![UpdaterFile] = UpdaterContent]
         \/ Interrupted(UpdaterFile, UpdaterContent)
  PROVE  /\ SlotKept(Spared)
         /\ \A s \in Slots : file'[Manifest(s)] \in {file[Manifest(s)], release, NoRelease}
         /\ pc # "write_kernel" => file'[Kernel(slot)] = file[Kernel(slot)]
         /\ pc \notin {"write_kernel", "write_manifest"}
              => file'[Manifest(slot)] = file[Manifest(slot)]
<1>1. slot \in Slots /\ other(slot) \in Slots /\ slot # other(slot)
  BY DEF FloorInv, other, Slots
<1>2. UpdaterFile \in Files
  BY UpdaterFits
<1>3. /\ \A g \in Files : g # UpdaterFile => file'[g] = file[g]
      /\ file'[UpdaterFile] \in {file[UpdaterFile], UpdaterContent, Damaged(UpdaterFile)}
  BY <1>2, OneFile DEF FloorInv
<1>4. PICK i \in Records : state_file(NextState.generation) = State(i)
  BY FileNames
<1>5. /\ pc = "write_kernel" => UpdaterFile = Kernel(slot)
      /\ pc = "write_manifest" => UpdaterFile = Manifest(slot)
      /\ pc = "write_state" => UpdaterFile = State(i)
      /\ pc = "copy_kernel" => UpdaterFile = Kernel(other(slot))
      /\ pc = "copy_manifest" => UpdaterFile = Manifest(other(slot))
  BY <1>4 DEF UpdaterFile
<1>6. pc \in {"write_kernel", "write_manifest", "write_state", "copy_kernel", "copy_manifest"}
  BY DEF UpdaterPcs
<1>7. Manifest(Spared) # UpdaterFile /\ Kernel(Spared) # UpdaterFile
  BY <1>1, <1>5, <1>6, FileNames, KernelNames DEF Spared
<1>8. SlotKept(Spared)
  BY <1>1, <1>3, <1>7, FileNames DEF SlotKept, Spared
<1>9. ASSUME NEW s \in Slots
      PROVE  file'[Manifest(s)] \in {file[Manifest(s)], release, NoRelease}
  <2>1. CASE Manifest(s) = UpdaterFile
    <3>1. UpdaterFile.type = "manifest"
      BY <2>1 DEF Manifest
    <3>2. UpdaterContent = release /\ Damaged(UpdaterFile) = NoRelease
      BY <3>1 DEF UpdaterContent, Damaged
    <3> QED
      BY <1>3, <2>1, <3>2
  <2> QED
    BY <1>3, <2>1, FileNames
<1>10. /\ pc # "write_kernel" => Kernel(slot) # UpdaterFile
       /\ pc \notin {"write_kernel", "write_manifest"} => Manifest(slot) # UpdaterFile
  BY <1>1, <1>5, <1>6, FileNames, KernelNames
<1> QED
  BY <1>1, <1>3, <1>8, <1>9, <1>10, FileNames

\* Whatever the updater was writing, a slot stays usable.
LEMMA UpdaterKeeps ==
  ASSUME FloorInv, BootableInv, pc \in UpdaterPcs \ {"unmount"},
         floor' = floor, root' = root, published' = published, exposed' = exposed,
         \/ file' = [file EXCEPT ![UpdaterFile] = UpdaterContent]
         \/ Interrupted(UpdaterFile, UpdaterContent)
  PROVE  /\ published' \in Nat /\ floor' <= published'
         /\ \A s \in Slots : file'[Manifest(s)].version <= published'
         /\ OneKeySoFar' => OneKeySoFar /\ root' = BootstrapKey
         /\ OneKeySoFar' /\ ~exposed' =>
              \E s \in Slots : s = Spared /\ Loadable(s)'
<1>1. published \in Nat /\ floor <= published /\ release.version = published
      /\ \A s \in Slots : file[Manifest(s)].version <= published
  BY DEF BootableInv, PublishedInv
<1>2. ASSUME NEW s \in Slots PROVE file'[Manifest(s)].version <= published'
  BY <1>1, UpdaterSpares DEF NoRelease
<1>3. OneKeySoFar' => OneKeySoFar /\ root' = BootstrapKey
  BY DEF OneKeySoFar, BootableInv
<1>4. ASSUME OneKeySoFar', ~exposed' PROVE \E s \in Slots : s = Spared /\ Loadable(s)'
  <2>1. PICK s \in Slots : s = Spared /\ Loadable(s)
    BY <1>3, <1>4, SparedLoadable
  <2>2. SlotKept(s)
    BY <2>1, UpdaterSpares
  <2> QED
    BY <2>1, <2>2, StaysLoadable
<1> QED
  BY <1>1, <1>2, <1>3, <1>4

LEMMA InitBootable == Init => BootableInv
<1> SUFFICES ASSUME Init PROVE BootableInv
  OBVIOUS
<1> DEFINE Content(r, f) == CASE f.type = "kernel" -> r.version
                              [] f.type = "manifest" -> r
                              [] f.type = "state" ->
                                   [generation |-> IF f.of = "BOOTSTA0" THEN 1 ELSE 2,
                                    slot |-> "A", version |-> r.version]
<1>1. PICK r \in Releases : /\ file = [f \in Files |-> Content(r, f)]
                            /\ published = r.version /\ r.key = BootstrapKey
  BY ZenonT(30) DEF Init
<1>2. ASSUME NEW s \in Slots
      PROVE  Content(r, Manifest(s)) = r /\ Content(r, Kernel(s)) = r.version
  <2>1. Manifest(s).type = "manifest" /\ Kernel(s).type = "kernel"
    BY DEF Manifest, Kernel
  <2> QED
    BY <2>1
<1> HIDE DEF Content
<1>3. \A s \in Slots : file[Manifest(s)] = r /\ file[Kernel(s)] = r.version
  BY <1>1, <1>2, FileNames
<1>4. floor = 0 /\ root = BootstrapKey /\ pc = "off"
  BY Zenon DEF Init
<1>5. r.version \in Nat \ {0}
  BY BootChainAssumption
<1>6. Loadable("A")
  BY <1>1, <1>3, <1>4, <1>5 DEF Loadable, Slots
<1> QED
  BY <1>1, <1>3, <1>4, <1>5, <1>6
  DEF BootableInv, PublishedInv, UpdateInv, SomeSlotLoadable, Slots, UpdaterPcs

LEMMA BootableStep == FloorInv /\ BootableInv /\ [Next]_vars => BootableInv'
<1> SUFFICES ASSUME FloorInv, BootableInv, [Next]_vars PROVE BootableInv'
  OBVIOUS
<1>1. FilesOK /\ slot \in Slots /\ floor \in Nat
  BY DEF FloorInv
<1>2. file' = file => SlotsKept
  BY DEF SlotsKept, SlotKept
<1>3. CASE LoadBootState \/ FileSystemUnavailable \/ RejectSlot
  <2>1. UNCHANGED <<file, floor, root, published, exposed>>
    BY <1>3 DEF LoadBootState, FileSystemUnavailable, RejectSlot, Continue, nv, history
  <2>2. pc' \in {"verify", "repair_first", "halted"}
    BY <1>3 DEF LoadBootState, FileSystemUnavailable, RejectSlot, Continue
  <2> QED
    BY <1>2, <2>1, <2>2, AsideStep DEF UpdaterPcs
<1>4. CASE VerifySlot
  <2> DEFINE v == file[Manifest(slot)].version
  <2>1. /\ Loadable(slot) /\ floor' = v /\ pc' = "root"
        /\ UNCHANGED <<file, root, published, exposed>>
    BY <1>4 DEF VerifySlot, history
  <2>2. v \in Nat /\ v <= published
    BY <1>1, VersionsNat DEF FilesOK, BootableInv, PublishedInv
  <2>3. PublishedInv'
    BY <2>1, <2>2 DEF BootableInv, PublishedInv, UpdaterPcs
  <2>4. OneKeySoFar' => root' = BootstrapKey
    BY <2>1 DEF OneKeySoFar, BootableInv
  <2>5. \E s \in Slots : Loadable(s)'
    BY <1>1, <2>1, <2>2 DEF Loadable
  <2> QED
    BY <2>1, <2>3, <2>4, <2>5 DEF BootableInv, UpdateInv, SomeSlotLoadable, UpdaterPcs
<1>5. CASE AcceptSlot \/ TrustRootFails
  <2>1. UNCHANGED <<file, floor, published, exposed>> /\ root' \in {root, NextRoot}
    BY <1>5, SMTT(20) DEF AcceptSlot, TrustRootFails, Continue, Start, history
  <2>2. pc' \in {"running", "persist", "verify", "repair_first", "halted"}
    BY <1>5 DEF AcceptSlot, TrustRootFails, Continue, Start
  <2> QED
    BY <1>2, <2>1, <2>2, RootStays, AsideStep, SMTT(20) DEF UpdaterPcs
<1>6. CASE PersistFallback \/ PersistFails \/ RepairSecond \/ RepairFails \/ RepairFirst
  <2>1. UNCHANGED <<floor, root, published, exposed>> /\ pc' \in {"running", "repair_second"}
    BY <1>6 DEF PersistFallback, PersistFails, RepairFirst, RepairSecond, RepairFails, Start,
                nv, history
  <2>2. SlotsKept
    <3>1. state_file(1) = State("BOOTSTA0") /\ state_file(2) = State("BOOTSTA1")
      BY DEF state_file
    <3>2. \/ file' = file
          \/ \E g, new : \/ file' = [file EXCEPT ![state_file(g)] = new]
                         \/ Interrupted(state_file(g), new)
      BY <1>6, <3>1, Zenon
     DEF PersistFallback, PersistFails, RepairFirst, RepairSecond, RepairFails
    <3> QED
      BY <1>1, <1>2, <3>2, RecordsAside
  <2> QED
    BY <2>1, <2>2, AsideStep DEF UpdaterPcs
<1>7. CASE PowerLoss
  <2>1. UNCHANGED <<floor, root, published, exposed>> /\ pc' = "off"
    BY <1>7 DEF PowerLoss, SwitchedOff, nv, history
  <2>2. SlotsKept
    BY <1>1, <1>2, <1>7, RecordsAside DEF PowerLoss
  <2> QED
    BY <2>1, <2>2, AsideStep DEF UpdaterPcs
<1>8. CASE \E r \in Releases : r.version >= published /\ UpdateStart(r)
  <2>1. PICK r \in Releases : r.version >= published /\ UpdateStart(r)
    BY <1>8
  <2>2. PICK i \in Records : /\ slot' = other(file[State(i)].slot)
                             /\ exposed' = (exposed \/ ~Loadable(file[State(i)].slot))
    BY <2>1 DEF UpdateStart
  <2>3. /\ UNCHANGED <<file, floor, root>> /\ release' = r /\ published' = r.version
        /\ pc' = "write_kernel"
    BY <2>1 DEF UpdateStart, nv
  <2>4. r.version \in Nat /\ published \in Nat
        /\ \A s \in Slots : file[Manifest(s)].version \in Nat
    BY <1>1, VersionsNat DEF FilesOK, BootableInv, PublishedInv
  <2>5. PublishedInv'
    BY <1>1, <2>1, <2>3, <2>4 DEF BootableInv, PublishedInv
  <2>6. OneKeySoFar' => OneKeySoFar /\ root' = BootstrapKey
    BY <2>1, <2>3, <2>4, BootChainAssumption DEF OneKeySoFar, BootableInv
  <2>7. ASSUME OneKeySoFar', ~exposed' PROVE UpdateInv'
    <3> DEFINE active == file[State(i)].slot
    <3>1. active \in Slots /\ other(slot') = active
      BY <1>1, <2>2 DEF FilesOK, other, Slots
    <3>2. Loadable(active)
      BY <2>2, <2>7, Zenon
    <3>3. Loadable(active)'
      BY <2>3, <3>2 DEF Loadable
    <3> QED
      BY <2>3, <3>1, <3>3 DEF UpdateInv, SomeSlotLoadable
  <2> QED
    BY <2>5, <2>6, <2>7 DEF BootableInv
<1>9. CASE UpdaterWrite
  <2>1. /\ UNCHANGED <<floor, root, published, exposed, slot, release>>
        /\ pc \in UpdaterPcs \ {"unmount"} /\ pc' = AfterWrite
        /\ file' = [file EXCEPT ![UpdaterFile] = UpdaterContent]
    BY <1>9 DEF UpdaterWrite, nv, history
  <2>2. PublishedInv' /\ (OneKeySoFar' => OneKeySoFar /\ root' = BootstrapKey)
    BY <2>1, UpdaterKeeps DEF PublishedInv, BootableInv
  <2>3. ASSUME OneKeySoFar', ~exposed' PROVE UpdateInv'
    <3>1. UpdateInv
      BY <2>1, <2>2, <2>3 DEF BootableInv
    <3>2. PICK s \in Slots : s = Spared /\ Loadable(s)'
      BY <2>1, <2>3, UpdaterKeeps
    <3>3. pc' \in {"write_manifest", "write_state"} => Loadable(other(slot))'
      BY <2>1, <3>2 DEF AfterWrite, UpdaterPcs, Spared
    <3>4. UpdaterFile \in Files /\ file'[UpdaterFile] = UpdaterContent
      BY <1>1, <2>1, UpdaterFits DEF FilesOK
    <3>5. file'[Kernel(slot)] = release.version
      <4>1. CASE pc = "write_kernel"
        <5>1. UpdaterFile = Kernel(slot) /\ UpdaterFile.type = "kernel"
          BY <4>1 DEF UpdaterFile, Kernel
        <5> QED
          BY <3>4, <5>1 DEF UpdaterContent
      <4>2. CASE pc # "write_kernel"
        BY <2>1, <3>1, <4>2, UpdaterSpares DEF UpdateInv
      <4> QED
        BY <4>1, <4>2
    <3>6. pc # "write_kernel" => file'[Manifest(slot)] = release
      <4>1. CASE pc = "write_manifest"
        <5>1. UpdaterFile = Manifest(slot) /\ UpdaterFile.type = "manifest"
          BY <4>1 DEF UpdaterFile, Manifest
        <5> QED
          BY <3>4, <5>1 DEF UpdaterContent
      <4>2. CASE pc \notin {"write_kernel", "write_manifest"}
        BY <2>1, <3>1, <4>2, UpdaterSpares DEF UpdateInv
      <4> QED
        BY <4>1, <4>2
    <3>7. pc' # "write_kernel" /\ (pc = "write_kernel" => pc' = "write_manifest")
      BY <2>1 DEF AfterWrite, UpdaterPcs
    <3> QED
      BY <2>1, <3>2, <3>3, <3>5, <3>6, <3>7 DEF UpdateInv, SomeSlotLoadable
  <2> QED
    BY <2>2, <2>3 DEF BootableInv
<1>10. CASE UpdateCommitted
  <2>1. UNCHANGED <<file, floor, root, published, exposed>> /\ pc' = "off"
    BY <1>10 DEF UpdateCommitted, SwitchedOff, nv, history
  <2> QED
    BY <1>2, <2>1, AsideStep DEF UpdaterPcs
<1>11. CASE UpdaterDies
  <2>1. UNCHANGED <<floor, root, published, exposed>> /\ pc' = "off" /\ pc \in UpdaterPcs
    BY <1>11 DEF UpdaterDies, SwitchedOff, nv, history
  <2>2. CASE file' = file
    BY <1>2, <2>1, <2>2, AsideStep DEF UpdaterPcs
  <2>3. CASE pc # "unmount" /\ Interrupted(UpdaterFile, UpdaterContent)
    <3>1. /\ PublishedInv' /\ (OneKeySoFar' => root' = BootstrapKey)
          /\ OneKeySoFar' /\ ~exposed' => \E s \in Slots : Loadable(s)'
      BY <2>1, <2>3, UpdaterKeeps DEF PublishedInv, UpdaterPcs
    <3> QED
      BY <2>1, <3>1 DEF BootableInv, UpdateInv, SomeSlotLoadable, UpdaterPcs
  <2> QED
    BY <1>11, <2>2, <2>3 DEF UpdaterDies
<1>12. CASE DamageSlot
  <2>1. UNCHANGED <<floor, root, published, exposed, pc>> /\ pc = "off"
        /\ \A s \in Slots : Loadable(s)
    BY <1>12 DEF DamageSlot, nv, history
  <2>2. PICK s \in Slots : \E f \in {Kernel(s), Manifest(s)} :
                             file' = [file EXCEPT ![f] = Damaged(f)]
    BY <1>12, Zenon DEF DamageSlot
  <2>3. PICK f \in {Kernel(s), Manifest(s)} : file' = [file EXCEPT ![f] = Damaged(f)]
    BY <2>2, Zenon
  <2>4. /\ \A g \in Files : g # f => file'[g] = file[g]
        /\ file'[f] \in {file[f], Damaged(f)} /\ f \in Files
    BY <1>1, <2>3, FileNames, OneFile
  <2>5. ASSUME NEW t \in Slots PROVE file'[Manifest(t)] \in {file[Manifest(t)], NoRelease}
    <3>1. Manifest(t).type = "manifest"
      BY DEF Manifest
    <3> QED
      BY <2>4, <3>1, FileNames DEF Damaged
  <2>6. other(s) \in Slots /\ other(s) # s
    BY DEF other, Slots
  <2>7. SlotKept(other(s))
    BY <2>3, <2>4, <2>6, FileNames, KernelNames, SMTT(20) DEF SlotKept
  <2>8. Loadable(other(s))'
    BY <2>1, <2>6, <2>7 DEF Loadable, SlotKept
  <2>9. PublishedInv'
    BY <2>1, <2>5 DEF BootableInv, PublishedInv, NoRelease, UpdaterPcs
  <2>10. OneKeySoFar' => root' = BootstrapKey
    BY <2>1 DEF OneKeySoFar, BootableInv
  <2> QED
    BY <2>1, <2>6, <2>8, <2>9, <2>10 DEF BootableInv, UpdateInv, SomeSlotLoadable, UpdaterPcs
<1>13. CASE DamageRecord
  <2>1. UNCHANGED <<floor, root, published, exposed, pc>> /\ pc = "off"
    BY <1>13 DEF DamageRecord, nv, history
  <2>2. PICK i \in Records : file' = [file EXCEPT ![State(i)] = NoState]
    BY <1>13, ZenonT(30) DEF DamageRecord
  <2>3. \A h \in Files : h # State(i) => file'[h] = file[h]
    BY <1>1, <2>2, FileNames, OneFile
  <2>4. SlotsKept
    BY <2>3, FileNames, KernelNames, SMTT(20) DEF SlotsKept, SlotKept
  <2> QED
    BY <2>1, <2>4, AsideStep DEF UpdaterPcs
<1>14. CASE UNCHANGED vars
  <2>1. UNCHANGED <<file, floor, root, published, exposed, pc, slot, release>>
    BY <1>14 DEF vars, nv, history
  <2> QED
    BY <2>1 DEF BootableInv, PublishedInv, UpdateInv, OneKeySoFar, SomeSlotLoadable, Loadable
<1> QED
  BY <1>3, <1>4, <1>5, <1>6, <1>7, <1>8, <1>9, <1>10, <1>11, <1>12, <1>13, <1>14
  DEF Next, LoaderNext, UpdaterNext

\* Until the key is replaced, and as long as every update began on a usable
\* active slot, some slot passes the loader's checks at every moment: for every
\* set of releases, however often the loader and the updater are cut short.
THEOREM StaysBootable == Spec => []AlwaysBootable
<1>1. BootableInv => AlwaysBootable
  BY DEF BootableInv, UpdateInv, AlwaysBootable
<1> QED
  BY <1>1, InitBootable, BootableStep, FloorInvHolds, PTL DEF Spec

-----------------------------------------------------------------------------
(* Trust roots *)

\* A step that ends the boot, or is not one of the loader.
LEMMA RootsAway ==
  ASSUME pc' \notin LoaderPcs
  PROVE  RootsInv'
BY DEF RootsInv, LoaderPcs

\* A step that keeps the roots and the slot at hand.
LEMMA RootsKept ==
  ASSUME RootsInv, pc \in {"root", "persist", "repair_first", "repair_second"},
         pc' \notin {"verify", "root"},
         root' = root, boot_roots' = boot_roots, slot' = slot,
         file'[Manifest(slot)] = file[Manifest(slot)]
  PROVE  RootsInv'
BY DEF RootsInv, LoaderPcs

\* Going on with another slot.
LEMMA RootsContinue ==
  ASSUME RootsInv, pc \in {"verify", "root"}, NEW scanned \in Slots \cup {"none"},
         scanned # "none" => file[Manifest(scanned)].key \in boot_roots,
         Continue(scanned), file' = file, root' \in boot_roots',
         boot_roots \subseteq boot_roots'
  PROVE  RootsInv' /\ pc' # "running"
<1>1. /\ best' = scanned /\ pc' \in {"verify", "repair_first", "halted"}
      /\ pc' = "repair_first" => slot' = scanned /\ scanned # "none"
  BY DEF Continue
<1> QED
  BY <1>1 DEF RootsInv

LEMMA RootsStep ==
  FloorInv /\ RootsInv /\ [Next]_vars
    => /\ RootsInv'
       /\ pc' = "running" /\ pc # "running"
            => file[Manifest(image'.slot)].key \in boot_roots'
<1> SUFFICES ASSUME FloorInv, RootsInv, [Next]_vars
             PROVE  /\ RootsInv'
                    /\ pc' = "running" /\ pc # "running"
                         => file[Manifest(image'.slot)].key \in boot_roots'
  OBVIOUS
<1>1. FilesOK /\ slot \in Slots /\ best \in Slots \cup {"none"}
  BY DEF FloorInv
<1>2. CASE LoadBootState
  BY <1>2 DEF LoadBootState, RootsInv, nv
<1>3. CASE VerifySlot
  BY <1>3 DEF VerifySlot, RootsInv, Loadable, loader, LoaderPcs
<1>4. CASE RejectSlot
  <2>1. /\ Continue(best) /\ pc = "verify" /\ file' = file /\ root' = root
        /\ boot_roots' = boot_roots
    BY <1>4 DEF RejectSlot, nv
  <2>2. root \in boot_roots /\ (best # "none" => file[Manifest(best)].key \in boot_roots)
    BY <2>1, SMTT(20) DEF RootsInv, LoaderPcs
  <2> QED
    BY <1>1, <2>1, <2>2, RootsContinue
<1>5. CASE AcceptSlot
  <2> DEFINE version == file[Manifest(slot)].version
             scanned == IF best = "none" \/ version > file[Manifest(best)].version
                        THEN slot ELSE best
  <2>1. pc = "root" /\ file' = file /\ boot_roots' = boot_roots \cup {root'}
    BY <1>5 DEF AcceptSlot
  <2>2. /\ file[Manifest(slot)].key \in boot_roots
        /\ best # "none" => file[Manifest(best)].key \in boot_roots
    BY <2>1 DEF RootsInv
  <2>3. CASE Start(slot, version, current.generation, FALSE)
    <3>1. pc' = "running" /\ image'.slot = slot
      BY <2>3 DEF Start
    <3> QED
      BY <2>1, <2>2, <3>1, RootsAway DEF LoaderPcs
  <2>4. CASE Continue(best)
    BY <1>1, <2>1, <2>2, <2>4, RootsContinue
  <2>5. CASE pc' = "persist" /\ slot' = slot
    BY <2>1, <2>2, <2>5 DEF RootsInv
  <2>6. CASE Continue(scanned)
    <3>1. scanned \in Slots \cup {"none"}
          /\ (scanned # "none" => file[Manifest(scanned)].key \in boot_roots)
      BY <1>1, <2>2
    <3> QED
      BY <2>1, <2>6, <3>1, RootsContinue
  <2>7. \/ Start(slot, version, current.generation, FALSE)
        \/ Continue(best)
        \/ pc' = "persist" /\ slot' = slot
        \/ Continue(scanned)
    BY <1>5, Zenon DEF AcceptSlot
  <2> QED
    BY <2>3, <2>4, <2>5, <2>6, <2>7, ZenonT(30)
<1>6. CASE TrustRootFails
  <2>1. /\ Continue(best) /\ pc = "root" /\ file' = file
        /\ boot_roots' = boot_roots \cup {root'}
    BY <1>6 DEF TrustRootFails
  <2>2. best # "none" => file[Manifest(best)].key \in boot_roots
    BY <2>1 DEF RootsInv
  <2> QED
    BY <1>1, <2>1, <2>2, RootsContinue
<1>7. CASE PersistFallback \/ PersistFails \/ RepairSecond \/ RepairFails
  <2>1. /\ pc' = "running" /\ image'.slot = slot /\ boot_roots' = boot_roots
        /\ pc \in {"persist", "repair_first", "repair_second"}
    BY <1>7 DEF PersistFallback, PersistFails, RepairSecond, RepairFails, Start
  <2>2. file[Manifest(slot)].key \in boot_roots
    BY <2>1 DEF RootsInv
  <2> QED
    BY <2>1, <2>2, RootsAway, SMTT(20) DEF LoaderPcs
<1>8. CASE RepairFirst
  <2>1. /\ pc = "repair_first" /\ pc' = "repair_second"
        /\ UNCHANGED <<root, boot_roots, slot>>
        /\ file' = [file EXCEPT ![State("BOOTSTA0")] = LoaderWrites]
    BY <1>8 DEF RepairFirst, nv
  <2>2. State("BOOTSTA0") \in Files /\ Manifest(slot) # State("BOOTSTA0")
    BY <1>1, FileNames DEF Records
  <2>3. file'[Manifest(slot)] = file[Manifest(slot)]
    BY <1>1, <2>1, <2>2, FileNames, OneFile
  <2> QED
    BY <2>1, <2>3, RootsKept
<1>9. CASE \/ FileSystemUnavailable \/ PowerLoss \/ UpdateCommitted \/ UpdaterDies
           \/ DamageSlot \/ DamageRecord
  <2>1. pc' \in {"off", "halted"}
    BY <1>9 DEF FileSystemUnavailable, PowerLoss, UpdateCommitted, UpdaterDies, DamageSlot,
                DamageRecord, SwitchedOff
  <2> QED
    BY <2>1, RootsAway DEF LoaderPcs
<1>10. CASE UpdaterWrite \/ \E r \in Releases : UpdateStart(r)
  <2>1. pc' \in UpdaterPcs
    BY <1>10 DEF UpdaterWrite, AfterWrite, UpdateStart, UpdaterPcs
  <2> QED
    BY <2>1, RootsAway DEF UpdaterPcs, LoaderPcs
<1>11. CASE UNCHANGED vars
  BY <1>11 DEF vars, nv, loader, RootsInv
<1> QED
  BY <1>2, <1>3, <1>4, <1>5, <1>6, <1>7, <1>8, <1>9, <1>10, <1>11
  DEF Next, LoaderNext, UpdaterNext

\* A kernel runs only from a manifest signed by a trust root of its own boot:
\* no key replaced in an earlier boot is accepted again, for every sequence of
\* keys and every failure between the write of the variable and the start.
THEOREM ReplacedKeyStaysOut == Spec => OldKeyNeverBoots
<1>1. Init => RootsInv
  <2> SUFFICES ASSUME Init PROVE RootsInv
    OBVIOUS
  <2>1. pc = "off" /\ best = "none"
    BY Zenon DEF Init
  <2> QED
    BY <2>1 DEF RootsInv, LoaderPcs
<1>2. FloorInv /\ RootsInv /\ [Next]_vars => RootsInv'
  BY RootsStep
<1>3. FloorInv /\ RootsInv /\ [Next]_vars
        => [pc' = "running" /\ pc # "running"
              => file[Manifest(image'.slot)].key \in boot_roots']_vars
  BY RootsStep
<1> QED
  BY <1>1, <1>2, <1>3, FloorInvHolds, PTL DEF Spec, OldKeyNeverBoots

-----------------------------------------------------------------------------
(* Records and the slots they name *)

\* NotAhead of a given record after a step.
StaysBehind(st) ==
  /\ st.version \in Nat /\ st.version <= published'
  /\ LET m == file'[Manifest(st.slot)] IN m.version = 0 \/ st.version <= m.version

\* A step leaves manifests, damages them or writes the release last published.
ManifestsFollow ==
  \A s \in Slots : \/ file'[Manifest(s)] \in {file[Manifest(s)], NoRelease}
                   \/ file'[Manifest(s)].version = published'

\* A step leaves records, damages them or writes one that is not ahead.
RecordsFollow ==
  \A i \in Records : \/ file'[State(i)] \in {file[State(i)], NoState}
                     \/ StaysBehind(file'[State(i)])

\* Such a step keeps all records behind the manifests.
LEMMA RecordsStay ==
  ASSUME FilesOK, FilesOK', published' \in Nat, published \in Nat, published <= published',
         \A i \in Records : NotAhead(file[State(i)]), ManifestsFollow, RecordsFollow
  PROVE  (\A i \in Records : NotAhead(file[State(i)]))'
<1> SUFFICES ASSUME NEW i \in Records PROVE StaysBehind(file'[State(i)])
  BY DEF NotAhead, StaysBehind
<1>1. CASE file'[State(i)] = file[State(i)]
  <2> DEFINE st == file[State(i)]
  <2>1. st.slot \in Slots /\ NotAhead(st)
    BY DEF FilesOK
  <2>2. file[Manifest(st.slot)].version \in Nat
    BY <2>1, VersionsNat, SMTT(20) DEF FilesOK
  <2>3. /\ st.version \in Nat /\ st.version <= published
        /\ file[Manifest(st.slot)].version = 0 \/ st.version <= file[Manifest(st.slot)].version
    BY <2>1 DEF NotAhead
  <2>4. \/ file'[Manifest(st.slot)] = file[Manifest(st.slot)]
        \/ file'[Manifest(st.slot)] = NoRelease
        \/ file'[Manifest(st.slot)].version = published'
    BY <2>1 DEF ManifestsFollow
  <2> HIDE DEF st
  <2>5. NoRelease.version = 0
    BY DEF NoRelease
  <2>6. file'[Manifest(st.slot)].version = 0 \/ st.version <= file'[Manifest(st.slot)].version
    BY <2>2, <2>3, <2>4, <2>5
  <2>7. st.version <= published'
    BY <2>3, SMTT(20)
  <2>8. StaysBehind(st)
    BY <2>3, <2>6, <2>7 DEF StaysBehind
  <2> QED
    BY <1>1, <2>8 DEF st
<1>2. CASE file'[State(i)] = NoState
  <2>1. file'[Manifest("A")].version \in Nat
    BY VersionsNat DEF FilesOK, Slots
  <2> QED
    BY <1>2, <2>1 DEF StaysBehind, NoState
<1> QED
  BY <1>1, <1>2, SMTT(20) DEF RecordsFollow

\* Writing a boot-state record, whole, in part or not at all.
LEMMA RecordWritten ==
  ASSUME FilesOK, NEW g, NEW new,
         \/ file' = [file EXCEPT ![state_file(g)] = new]
         \/ Interrupted(state_file(g), new)
  PROVE  \A i \in Records : file'[State(i)] \in {file[State(i)], NoState, new}
<1>1. PICK i \in Records : state_file(g) = State(i)
  BY FileNames
<1>2. /\ \A h \in Files : h # State(i) => file'[h] = file[h]
      /\ file'[State(i)] \in {file[State(i)], new, Damaged(State(i))}
  BY <1>1, FileNames, OneFile
<1>3. Damaged(State(i)) = NoState
  BY DEF Damaged, State
<1> QED
  BY <1>2, <1>3, FileNames

\* The loader records the version of the slot that it accepted.
LEMMA LoaderKeepsBehind ==
  ASSUME FloorInv, BootableInv, NamedInv, FilesOK', published' = published,
         pc \in {"persist", "repair_first", "repair_second"},
         NEW g, \/ file' = [file EXCEPT ![state_file(g)] = LoaderWrites]
                \/ Interrupted(state_file(g), LoaderWrites)
  PROVE  (\A i \in Records : NotAhead(file[State(i)]))'
<1>1. FilesOK /\ slot \in Slots /\ published \in Nat
  BY DEF FloorInv, BootableInv, PublishedInv
<1>2. LoaderWrites.slot = slot /\ LoaderWrites.version = file[Manifest(slot)].version
  BY DEF LoaderWrites, Repaired
<1>3. file[Manifest(slot)].version \in Nat /\ file[Manifest(slot)].version <= published
  BY <1>1, VersionsNat DEF FilesOK, BootableInv, PublishedInv
<1>4. SlotsKept
  BY <1>1, RecordsAside
<1>5. StaysBehind(LoaderWrites)
  BY <1>1, <1>2, <1>3, <1>4 DEF StaysBehind, SlotsKept, SlotKept
<1>6. \A i \in Records : file'[State(i)] \in {file[State(i)], NoState, LoaderWrites}
  BY <1>1, RecordWritten
<1>7. ManifestsFollow
  BY <1>4 DEF ManifestsFollow, SlotsKept, SlotKept
<1>8. RecordsFollow
  BY <1>5, <1>6 DEF RecordsFollow
<1> QED
  BY <1>1, <1>7, <1>8, RecordsStay DEF NamedInv

\* The updater records the release after its manifest.
LEMMA UpdaterKeepsBehind ==
  ASSUME FloorInv, BootableInv, NamedInv, FilesOK', published' = published,
         pc \in UpdaterPcs \ {"unmount"},
         \/ file' = [file EXCEPT ![UpdaterFile] = UpdaterContent]
         \/ Interrupted(UpdaterFile, UpdaterContent)
  PROVE  (\A i \in Records : NotAhead(file[State(i)]))'
<1>1. FilesOK /\ slot \in Slots /\ other(slot) \in Slots /\ published \in Nat
      /\ release.version = published
  BY DEF FloorInv, BootableInv, PublishedInv, other, Slots
<1>2. \A s \in Slots : file'[Manifest(s)] \in {file[Manifest(s)], release, NoRelease}
  BY UpdaterSpares
<1>3. ManifestsFollow
  BY <1>1, <1>2 DEF ManifestsFollow
<1>4. CASE pc = "write_state"
  <2>1. /\ UpdaterFile = state_file(NextState.generation) /\ UpdaterContent = NextState
    <3>1. UpdaterFile = state_file(NextState.generation)
      BY <1>4 DEF UpdaterFile
    <3> QED
      BY <3>1 DEF UpdaterContent, state_file, State
  <2>2. \A i \in Records : file'[State(i)] \in {file[State(i)], NoState, NextState}
    BY <1>1, <2>1, RecordWritten
  <2>3. file'[Manifest(slot)].version = published
    BY <1>1, <1>4, UpdaterSpares DEF NamedInv, UpdaterPcs
  <2>4. StaysBehind(NextState)
    BY <1>1, <2>3 DEF StaysBehind, NextState
  <2>5. RecordsFollow
    BY <2>2, <2>4 DEF RecordsFollow
  <2> QED
    BY <1>1, <1>3, <2>5, RecordsStay DEF NamedInv
<1>5. CASE pc # "write_state"
  <2>1. UpdaterFile \in {Kernel(slot), Manifest(slot), Kernel(other(slot)), Manifest(other(slot))}
    BY <1>5 DEF UpdaterFile, UpdaterPcs
  <2>2. \A i \in Records : file'[State(i)] = file[State(i)]
    BY <1>1, <2>1, UpdaterFits, OneFile, FileNames, KernelNames
  <2>3. RecordsFollow
    BY <2>2 DEF RecordsFollow
  <2> QED
    BY <1>1, <1>3, <2>3, RecordsStay DEF NamedInv
<1> QED
  BY <1>4, <1>5

LEMMA InitNamed == Init => NamedInv
<1> SUFFICES ASSUME Init PROVE NamedInv
  OBVIOUS
<1> DEFINE Content(r, f) == CASE f.type = "kernel" -> r.version
                              [] f.type = "manifest" -> r
                              [] f.type = "state" ->
                                   [generation |-> IF f.of = "BOOTSTA0" THEN 1 ELSE 2,
                                    slot |-> "A", version |-> r.version]
<1>1. PICK r \in Releases : file = [f \in Files |-> Content(r, f)] /\ published = r.version
  BY Zenon DEF Init
<1>2. ASSUME NEW i \in Records
      PROVE  Content(r, State(i)).slot = "A" /\ Content(r, State(i)).version = r.version
  <2>1. State(i).type = "state"
    BY DEF State
  <2> QED
    BY <2>1
<1>3. Content(r, Manifest("A")) = r
  <2>1. Manifest("A").type = "manifest"
    BY DEF Manifest
  <2> QED
    BY <2>1
<1> HIDE DEF Content
<1>4. /\ file[Manifest("A")] = r
      /\ \A i \in Records : file[State(i)].slot = "A" /\ file[State(i)].version = r.version
  BY <1>1, <1>2, <1>3, FileNames DEF Slots
<1>5. pc = "off"
  BY Zenon DEF Init
<1>6. r.version \in Nat
  BY VersionsNat
<1> QED
  BY <1>1, <1>4, <1>5, <1>6 DEF NamedInv, NotAhead, UpdaterPcs

LEMMA NamedStep ==
  FloorInv /\ FloorInv' /\ BootableInv /\ BootableInv' /\ NamedInv /\ [Next]_vars => NamedInv'
<1> SUFFICES ASSUME FloorInv, FloorInv', BootableInv, BootableInv', NamedInv, [Next]_vars
             PROVE  NamedInv'
  OBVIOUS
<1>1. /\ FilesOK /\ FilesOK' /\ slot \in Slots
      /\ published \in Nat /\ published' \in Nat
  BY DEF FloorInv, BootableInv, PublishedInv
<1>2. file' = file /\ published <= published' => (\A i \in Records : NotAhead(file[State(i)]))'
  <2>1. file' = file => ManifestsFollow /\ RecordsFollow
    BY SMTT(20) DEF ManifestsFollow, RecordsFollow
  <2> QED
    BY <1>1, <2>1, RecordsStay DEF NamedInv
<1>3. (\A i \in Records : NotAhead(file[State(i)]))' /\ pc' \notin UpdaterPcs \cup {"verify", "root"}
        => NamedInv'
  BY SMTT(20) DEF NamedInv
<1>4. CASE LoadBootState
  <2>1. pc' = "verify" /\ file' = file /\ published' = published
    BY <1>4 DEF LoadBootState, history
  <2>2. stage' = "active" => \E i \in Records : current' = file[State(i)] /\ current'.generation # 0
    BY <1>4 DEF LoadBootState, Newest, Decodable
  <2>3. stage' = "active" => current'.generation # 0 /\ NotAhead(current)'
    BY <2>1, <2>2, SMTT(20) DEF NamedInv, NotAhead
  <2> QED
    BY <1>1, <1>2, <2>1, <2>3, SMTT(20) DEF NamedInv, UpdaterPcs
<1>5. CASE VerifySlot
  <2>1. /\ Loadable(slot) /\ pc = "verify" /\ pc' = "root"
        /\ UNCHANGED <<file, published, stage, slot, current>>
    BY <1>5, SMTT(20) DEF VerifySlot, loader, history
  <2>2. stage' = "active" => current'.generation # 0 /\ NotAhead(current)'
    BY <2>1, ZenonT(30) DEF NamedInv, NotAhead
  <2>3. file'[Manifest(slot')].version # 0 /\ file'[Kernel(slot')] = file'[Manifest(slot')].version
    BY <2>1, SMTT(20) DEF Loadable
  <2> QED
    BY <1>1, <1>2, <2>1, <2>2, <2>3 DEF NamedInv, UpdaterPcs
<1>6. CASE FileSystemUnavailable \/ RejectSlot \/ AcceptSlot \/ TrustRootFails
  <2>1. file' = file /\ published' = published
    BY <1>6, ZenonT(30)
      DEF FileSystemUnavailable, RejectSlot, AcceptSlot, TrustRootFails, Continue, Start,
                history
  <2>2. /\ pc' \in {"running", "persist", "verify", "repair_first", "halted"}
        /\ pc' = "verify" => stage' # "active"
    BY <1>6, Zenon
      DEF FileSystemUnavailable, RejectSlot, AcceptSlot, TrustRootFails, Continue, Start
  <2> QED
    BY <1>1, <1>2, <2>1, <2>2, SMTT(20) DEF NamedInv, UpdaterPcs
<1>7. CASE PersistFallback \/ PersistFails \/ RepairFirst \/ RepairSecond \/ RepairFails
  <2>1. published' = published /\ pc' \in {"running", "repair_second"}
    BY <1>7, Zenon DEF PersistFallback, PersistFails, RepairFirst, RepairSecond, RepairFails, Start,
                history
  <2>2. state_file(1) = State("BOOTSTA0") /\ state_file(2) = State("BOOTSTA1")
    BY SMTT(20) DEF state_file
  <2>3. pc \in {"persist", "repair_first", "repair_second"}
    BY <1>7, Zenon DEF PersistFallback, PersistFails, RepairFirst, RepairSecond, RepairFails
  <2>4. \/ file' = file
        \/ \E g : \/ file' = [file EXCEPT ![state_file(g)] = LoaderWrites]
                  \/ Interrupted(state_file(g), LoaderWrites)
    BY <1>7, <2>2, Zenon DEF PersistFallback, PersistFails, RepairFirst, RepairSecond, RepairFails
  <2>5. (\A i \in Records : NotAhead(file[State(i)]))'
    <3>1. CASE file' = file
      BY <1>1, <1>2, <2>1, <3>1
    <3>2. CASE \E g : \/ file' = [file EXCEPT ![state_file(g)] = LoaderWrites]
                     \/ Interrupted(state_file(g), LoaderWrites)
      BY <1>1, <2>1, <2>3, <3>2, LoaderKeepsBehind
    <3> QED
      BY <2>4, <3>1, <3>2
  <2> QED
    BY <1>3, <2>1, <2>5, SMTT(20) DEF UpdaterPcs
<1>8. CASE PowerLoss
  <2>1. published' = published /\ pc' = "off"
    BY <1>8 DEF PowerLoss, SwitchedOff, history
  <2>2. \/ file' = file
        \/ /\ pc \in {"persist", "repair_first", "repair_second"}
           /\ Interrupted(state_file(LoaderWrites.generation), LoaderWrites)
    BY <1>8 DEF PowerLoss
  <2>3. (\A i \in Records : NotAhead(file[State(i)]))'
    BY <1>1, <1>2, <2>1, <2>2, LoaderKeepsBehind, SMTT(20)
  <2> QED
    BY <1>3, <2>1, <2>3 DEF UpdaterPcs
<1>9. CASE \E r \in Releases : r.version >= published /\ UpdateStart(r)
  <2>1. file' = file /\ published <= published' /\ pc' = "write_kernel"
    BY <1>1, <1>9 DEF UpdateStart
  <2> QED
    BY <1>1, <1>2, <2>1 DEF NamedInv
<1>10. CASE UpdaterWrite
  <2>1. /\ published' = published /\ slot' = slot /\ release' = release
        /\ pc \in UpdaterPcs \ {"unmount"} /\ pc' = AfterWrite
        /\ file' = [file EXCEPT ![UpdaterFile] = UpdaterContent]
    BY <1>10 DEF UpdaterWrite, history
  <2>2. (\A i \in Records : NotAhead(file[State(i)]))'
    BY <1>1, <2>1, UpdaterKeepsBehind
  <2>3. pc # "write_kernel" => file'[Manifest(slot)] = release
    <3>1. CASE pc = "write_manifest"
      <4>1. UpdaterFile = Manifest(slot) /\ UpdaterFile.type = "manifest"
        BY <3>1 DEF UpdaterFile, Manifest
      <4>2. file'[UpdaterFile] = UpdaterContent
        BY <1>1, <2>1, UpdaterFits DEF FilesOK
      <4> QED
        BY <4>1, <4>2 DEF UpdaterContent
    <3>2. CASE pc \notin {"write_kernel", "write_manifest"}
      BY <2>1, <3>2, UpdaterSpares DEF NamedInv
    <3> QED
      BY <3>1, <3>2
  <2>4. /\ pc = "write_kernel" => pc' = "write_manifest"
        /\ pc' \notin {"verify", "root"}
    BY <2>1 DEF AfterWrite, UpdaterPcs
  <2> QED
    BY <2>1, <2>2, <2>3, <2>4 DEF NamedInv
<1>11. CASE UpdateCommitted \/ UpdaterDies
  <2>1. published' = published /\ pc' = "off" /\ pc \in UpdaterPcs
    BY <1>11 DEF UpdateCommitted, UpdaterDies, SwitchedOff, history, UpdaterPcs
  <2>2. file' = file \/ (pc # "unmount" /\ Interrupted(UpdaterFile, UpdaterContent))
    BY <1>11 DEF UpdateCommitted, UpdaterDies
  <2>3. (\A i \in Records : NotAhead(file[State(i)]))'
    BY <1>1, <1>2, <2>1, <2>2, UpdaterKeepsBehind
  <2> QED
    BY <1>3, <2>1, <2>3 DEF UpdaterPcs
<1>12. CASE DamageSlot
  <2>1. published' = published /\ pc' = "off"
    BY <1>12 DEF DamageSlot, history
  <2>2. PICK s \in Slots : \E f \in {Kernel(s), Manifest(s)} :
                             file' = [file EXCEPT ![f] = Damaged(f)]
    BY <1>12, Zenon DEF DamageSlot
  <2>3. PICK f \in {Kernel(s), Manifest(s)} : file' = [file EXCEPT ![f] = Damaged(f)]
    BY <2>2, Zenon
  <2>4. /\ \A g \in Files : g # f => file'[g] = file[g]
        /\ file'[f] \in {file[f], Damaged(f)} /\ f \in Files
    BY <1>1, <2>3, FileNames, OneFile
  <2>5. ASSUME NEW t \in Slots PROVE file'[Manifest(t)] \in {file[Manifest(t)], NoRelease}
    <3>1. Manifest(t).type = "manifest"
      BY DEF Manifest
    <3> QED
      BY <2>4, <3>1, FileNames DEF Damaged
  <2>6. \A i \in Records : file'[State(i)] = file[State(i)]
    BY <2>3, <2>4, FileNames, KernelNames, SMTT(20)
  <2>7. ManifestsFollow /\ RecordsFollow
    BY <2>5, <2>6 DEF ManifestsFollow, RecordsFollow
  <2>8. (\A i \in Records : NotAhead(file[State(i)]))'
    BY <1>1, <2>1, <2>7, RecordsStay DEF NamedInv
  <2> QED
    BY <1>3, <2>1, <2>8 DEF UpdaterPcs
<1>13. CASE DamageRecord
  <2>1. published' = published /\ pc' = "off"
    BY <1>13 DEF DamageRecord, history
  <2>2. PICK i \in Records : file' = [file EXCEPT ![State(i)] = NoState]
    BY <1>13, ZenonT(30) DEF DamageRecord
  <2>3. /\ \A h \in Files : h # State(i) => file'[h] = file[h]
        /\ file'[State(i)] = NoState
    BY <1>1, <2>2, FileNames, SMTT(20) DEF FilesOK
  <2>4. \A s \in Slots : file'[Manifest(s)] = file[Manifest(s)]
    BY <2>3, FileNames
  <2>5. \A j \in Records : file'[State(j)] \in {file[State(j)], NoState}
    BY <2>3, FileNames, SMTT(20)
  <2>6. ManifestsFollow /\ RecordsFollow
    BY <2>4, <2>5 DEF ManifestsFollow, RecordsFollow
  <2>7. (\A j \in Records : NotAhead(file[State(j)]))'
    BY <1>1, <2>1, <2>6, RecordsStay, SMTT(20) DEF NamedInv
  <2> QED
    BY <1>3, <2>1, <2>7 DEF UpdaterPcs
<1>14. CASE UNCHANGED vars
  <2>1. UNCHANGED <<file, published, pc, slot, release, stage, current>>
    BY <1>14 DEF vars, history, loader
  <2> QED
    BY <2>1, Zenon DEF NamedInv, NotAhead
<1> QED
  BY <1>4, <1>5, <1>6, <1>7, <1>8, <1>9, <1>10, <1>11, <1>12, <1>13, <1>14
  DEF Next, LoaderNext, UpdaterNext

-----------------------------------------------------------------------------
(* The search for a slot *)

\* A step that ends the search, or begins none.
LEMMA SearchOver ==
  ASSUME pc' \notin {"verify", "root", "halted"}
  PROVE  SearchInv'
BY DEF SearchInv, BootFindsNamedSlot

\* Going on with another slot: what is left to find is in it.
LEMMA SearchContinue ==
  ASSUME SearchInv, slot \in Slots, best \in Slots \cup {"none"}, pc \in {"verify", "root"},
         NEW scanned \in Slots \cup {"none"}, Continue(scanned),
         file' = file, floor' = floor, current' = current,
         \/ excused'
         \/ stage = "active" /\ StaleRecord
         \/ stage = "scan" /\ scanned # "none"
         \/ /\ root' = root /\ pc = "verify" /\ ~excused /\ ~excused' /\ scanned = best
            /\ ~Loadable(slot)
  PROVE  SearchInv'
<1>1. StaleRecord' <=> StaleRecord
  BY DEF StaleRecord
<1>2. \/ stage = "active" /\ stage' = "fallback" /\ slot' = other(slot) /\ pc' = "verify"
      \/ stage = "scan" /\ slot = "A" /\ stage' = "scan" /\ slot' = "B" /\ pc' = "verify"
      \/ pc' = "repair_first"
      \/ stage = "fallback" /\ pc' = "halted"
      \/ stage = "scan" /\ slot = "B" /\ scanned = "none" /\ pc' = "halted"
  BY DEF Continue
<1>3. best' = scanned
  BY DEF Continue
<1>4. CASE excused'
  BY <1>2, <1>4 DEF SearchInv, BootFindsNamedSlot
<1>5. CASE stage = "active" /\ StaleRecord
  BY <1>1, <1>2, <1>5 DEF SearchInv, BootFindsNamedSlot
<1>6. CASE stage = "scan" /\ scanned # "none"
  BY <1>2, <1>3, <1>6 DEF SearchInv, BootFindsNamedSlot
<1>7. CASE /\ root' = root /\ pc = "verify" /\ ~excused /\ ~excused' /\ scanned = best
           /\ ~Loadable(slot)
  <2>1. \A s \in Slots : Loadable(s)' <=> Loadable(s)
    BY <1>7 DEF Loadable
  <2>2. other(slot) \in Slots /\ \A s \in Slots : s = slot \/ s = other(slot)
    BY DEF other, Slots
  <2>3. SomeSlotLoadable => Loadable(other(slot))
    BY <1>7, <2>2 DEF SomeSlotLoadable
  <2>4. CASE stage = "active"
    <3>1. Loadable(other(slot))
      BY <1>7, <2>3, <2>4 DEF SearchInv
    <3>2. slot' = other(slot) /\ stage' = "fallback" /\ pc' = "verify"
      BY <1>2, <2>4 DEF Continue
    <3>3. Loadable(slot)'
      BY <1>7, <3>1, <3>2 DEF Loadable
    <3> QED
      BY <3>2, <3>3 DEF SearchInv, BootFindsNamedSlot
  <2>5. CASE stage = "fallback"
    BY <1>1, <1>2, <1>7, <2>5 DEF SearchInv, BootFindsNamedSlot
  <2>6. CASE stage = "scan" /\ slot = "A"
    <3>1. Loadable("B")
      BY <1>7, <2>3, <2>6 DEF SearchInv, other
    <3>2. slot' = "B" /\ stage' = "scan" /\ pc' = "verify"
      BY <1>2, <2>6, SMTT(20) DEF Continue
    <3>3. Loadable(slot)'
      BY <1>7, <3>1, <3>2 DEF Loadable
    <3> QED
      BY <3>2, <3>3 DEF SearchInv, BootFindsNamedSlot
  <2>7. CASE stage = "scan" /\ slot = "B"
    <3>1. scanned # "none"
      BY <1>7, <2>7 DEF SearchInv
    <3> QED
      BY <1>2, <2>7, <3>1 DEF SearchInv, BootFindsNamedSlot
  <2>8. CASE pc' = "repair_first"
    BY <2>8, SearchOver
  <2> QED
    BY <1>2, <2>4, <2>5, <2>6, <2>7, <2>8
<1> QED
  BY <1>4, <1>5, <1>6, <1>7, SMTT(20)

LEMMA SearchStep == FloorInv /\ NamedInv /\ SearchInv /\ [Next]_vars => SearchInv'
<1> SUFFICES ASSUME FloorInv, NamedInv, SearchInv, [Next]_vars PROVE SearchInv'
  OBVIOUS
<1>1. FilesOK /\ slot \in Slots /\ best \in Slots \cup {"none"}
  BY DEF FloorInv
<1>2. CASE LoadBootState
  <2>1. /\ pc' = "verify" /\ UNCHANGED <<file, floor, root>>
        /\ ~excused' => SomeSlotLoadable
        /\ \/ stage' = "active" /\ slot' = current'.slot
           \/ stage' = "scan" /\ slot' = "A"
    BY <1>2, ZenonT(30) DEF LoadBootState, nv
  <2>2. SomeSlotLoadable => SomeSlotLoadable'
    BY <2>1 DEF SomeSlotLoadable, Loadable
  <2> QED
    BY <2>1, <2>2, SMTT(20) DEF SearchInv, BootFindsNamedSlot
<1>3. CASE VerifySlot
  BY <1>3 DEF VerifySlot, loader, SearchInv, BootFindsNamedSlot
<1>4. CASE RejectSlot
  <2>1. /\ pc = "verify" /\ Continue(best) /\ UNCHANGED <<file, floor, root, current>>
        /\ excused' = (excused \/ Loadable(slot))
    BY <1>4 DEF RejectSlot, nv
  <2>2. CASE excused \/ Loadable(slot)
    BY <1>1, <2>1, <2>2, SearchContinue, Zenon
  <2>3. CASE ~excused /\ ~Loadable(slot)
    <3>1. CASE excused'
      BY <1>1, <2>1, <3>1, SearchContinue
    <3>2. CASE ~excused'
      <4>1. root' = root /\ pc = "verify" /\ best = best /\ ~Loadable(slot)
        BY <2>1, <2>3
      <4> QED
        BY <1>1, <2>1, <2>3, <3>2, <4>1, SearchContinue
    <3> QED
      BY <3>1, <3>2
  <2> QED
    BY <2>2, <2>3
<1>5. CASE AcceptSlot
  <2> DEFINE version == file[Manifest(slot)].version
             scanned == IF best = "none" \/ version > file[Manifest(best)].version
                        THEN slot ELSE best
  <2>1. pc = "root" /\ UNCHANGED <<file, floor, current>>
    BY <1>5 DEF AcceptSlot
  <2>2. \/ Start(slot, version, current.generation, FALSE)
        \/ stage = "active" /\ version # current.version /\ Continue(best)
        \/ pc' = "persist"
        \/ stage = "scan" /\ Continue(scanned)
    BY <1>5, Zenon DEF AcceptSlot
  <2>3. CASE Start(slot, version, current.generation, FALSE) \/ pc' = "persist"
    BY <2>3, SearchOver DEF Start
  <2>4. CASE stage = "active" /\ version # current.version /\ Continue(best)
    <3>1. slot = current.slot /\ current.generation # 0 /\ NotAhead(current)
      BY <2>1, <2>4 DEF SearchInv, NamedInv
    <3>2. version # 0 /\ file[Kernel(slot)] = version /\ version \in Nat
      BY <1>1, <2>1, VersionsNat, SMTT(20) DEF NamedInv, FilesOK
    <3>3. StaleRecord
      BY <2>4, <3>1, <3>2, SMTT(20) DEF NotAhead, StaleRecord
    <3> QED
      BY <1>1, <2>1, <2>4, <3>3, SearchContinue, SMTT(20)
  <2>5. CASE stage = "scan" /\ Continue(scanned)
    <3>1. scanned \in Slots \cup {"none"} /\ scanned # "none"
      BY <1>1 DEF Slots
    <3> QED
      BY <1>1, <2>1, <2>5, <3>1, SearchContinue
  <2> QED
    BY <2>2, <2>3, <2>4, <2>5, ZenonT(30)
<1>6. CASE TrustRootFails
  <2>1. pc = "root" /\ Continue(best) /\ UNCHANGED <<file, floor, current>> /\ excused'
    BY <1>6 DEF TrustRootFails
  <2> QED
    BY <1>1, <2>1, SearchContinue
<1>7. CASE FileSystemUnavailable
  BY <1>7 DEF FileSystemUnavailable, SearchInv, BootFindsNamedSlot
<1>8. CASE \/ PersistFallback \/ PersistFails \/ RepairFirst \/ RepairSecond \/ RepairFails
           \/ PowerLoss \/ UpdateCommitted \/ UpdaterDies \/ DamageSlot \/ DamageRecord
  <2>1. pc' \in {"running", "repair_second", "off"}
    BY <1>8, Zenon DEF PersistFallback, PersistFails, RepairFirst, RepairSecond, RepairFails,
                PowerLoss, UpdateCommitted, UpdaterDies, DamageSlot, DamageRecord, Start,
                SwitchedOff
  <2> QED
    BY <2>1, SearchOver, SMTT(20)
<1>9. CASE UpdaterWrite \/ \E r \in Releases : UpdateStart(r)
  <2>1. pc' \in UpdaterPcs
    BY <1>9, SMTT(20) DEF UpdaterWrite, AfterWrite, UpdateStart, UpdaterPcs
  <2> QED
    BY <2>1, SearchOver DEF UpdaterPcs
<1>10. CASE UNCHANGED vars
  BY <1>10, Zenon
    DEF vars, nv, loader, SearchInv, BootFindsNamedSlot, StaleRecord, SomeSlotLoadable,
               Loadable
<1> QED
  BY <1>2, <1>3, <1>4, <1>5, <1>6, <1>7, <1>8, <1>9, <1>10
  DEF Next, LoaderNext, UpdaterNext

\* load_kernel_image gives up on a usable slot only after an I/O error or on a
\* record older than the whole release in the slot it names, never on damaged
\* kernels, manifests or records: for every set of releases, keys replaced while
\* the loader looks included.
THEOREM LoaderFindsSlot == Spec => []BootFindsNamedSlot
<1>1. Init => SearchInv
  <2> SUFFICES ASSUME Init PROVE SearchInv
    OBVIOUS
  <2>1. pc = "off"
    BY Zenon DEF Init
  <2> QED
    BY <2>1 DEF SearchInv, BootFindsNamedSlot
<1>2. SearchInv => BootFindsNamedSlot
  BY DEF SearchInv
<1> QED
  BY <1>1, <1>2, SearchStep, FloorInvHolds, InitNamed, NamedStep, InitBootable, BootableStep,
     PTL DEF Spec
=============================================================================
