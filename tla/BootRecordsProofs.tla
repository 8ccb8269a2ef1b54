------------------------- MODULE BootRecordsProofs ---------------------------
(***************************************************************************)
(* The boot-state records: their types, their numbering, and a recovery    *)
(* that lasts.                                                             *)
(***************************************************************************)
EXTENDS BootChainProofs

-----------------------------------------------------------------------------
(* Typed contents *)

\* What may stand in a file.
Typed(f, content) ==
  /\ f.type = "kernel" => content \in {r.version : r \in Releases} \cup {0}
  /\ f.type = "manifest" => content \in Releases \cup {NoRelease}
  /\ f.type = "state" =>
       /\ content \in BootStates /\ content.generation <= MaxGeneration
       /\ content.generation # 0 => state_file(content.generation) = f

FilesTyped == \A f \in Files : Typed(f, file[f])

\* Consecutive generations are kept in different records.
LEMMA StateFiles ==
  /\ state_file(1) = State("BOOTSTA0") /\ state_file(2) = State("BOOTSTA1")
  /\ \A g \in Nat : state_file(g) # state_file(g + 1)
<1>1. state_file(1) = State("BOOTSTA0") /\ state_file(2) = State("BOOTSTA1")
  BY DEF state_file
<1>2. ASSUME NEW g \in Nat PROVE state_file(g) # state_file(g + 1)
  <2>1. g % 2 = 1 <=> (g + 1) % 2 # 1
    BY SMT
  <2> QED
    BY <2>1 DEF state_file, State
<1> QED
  BY <1>1, <1>2

LEMMA FileTypes ==
  /\ \A s \in Slots : Kernel(s).type = "kernel" /\ Manifest(s).type = "manifest"
  /\ \A i \in Records : State(i).type = "state"
  /\ \A f \in Files : \/ \E s \in Slots : f = Kernel(s) \/ f = Manifest(s)
                      \/ \E i \in Records : f = State(i)
<1>1. \A s \in Slots : Kernel(s).type = "kernel" /\ Manifest(s).type = "manifest"
  BY DEF Kernel, Manifest
<1>2. \A i \in Records : State(i).type = "state"
  BY DEF State
<1>3. \A f \in Files : \/ \E s \in Slots : f = Kernel(s) \/ f = Manifest(s)
                       \/ \E i \in Records : f = State(i)
  BY DEF Files, Kernel, Manifest, State
<1> QED
  BY <1>1, <1>2, <1>3

\* The parts of TypeOK and NumberedInv about files say that they are typed.
LEMMA TypedFiles ==
  FilesTyped <=>
    /\ \A s \in Slots : /\ file[Kernel(s)] \in {r.version : r \in Releases} \cup {0}
                        /\ file[Manifest(s)] \in Releases \cup {NoRelease}
    /\ \A i \in Records :
         file[State(i)] \in BootStates /\ file[State(i)].generation <= MaxGeneration
    /\ \A i \in Records :
         LET g == file[State(i)].generation IN g # 0 => state_file(g) = State(i)
<1>1. \A s \in Slots :
        /\ Typed(Kernel(s), file[Kernel(s)])
             <=> file[Kernel(s)] \in {r.version : r \in Releases} \cup {0}
        /\ Typed(Manifest(s), file[Manifest(s)])
             <=> file[Manifest(s)] \in Releases \cup {NoRelease}
  BY FileTypes DEF Typed
<1>2. \A i \in Records :
        Typed(State(i), file[State(i)]) <=>
          /\ file[State(i)] \in BootStates /\ file[State(i)].generation <= MaxGeneration
          /\ file[State(i)].generation # 0 => state_file(file[State(i)].generation) = State(i)
  BY FileTypes DEF Typed
<1>3. FilesTyped <=> /\ \A s \in Slots : /\ Typed(Kernel(s), file[Kernel(s)])
                                         /\ Typed(Manifest(s), file[Manifest(s)])
                     /\ \A i \in Records : Typed(State(i), file[State(i)])
  BY FileTypes, FileNames DEF FilesTyped
<1> QED
  BY <1>1, <1>2, <1>3

\* Writing typed contents, completely or not.
LEMMA TypedWrite ==
  ASSUME FilesOK, FilesTyped, NEW f \in Files, NEW new, Typed(f, new),
         \/ file' = [file EXCEPT ![f] = new]
         \/ Interrupted(f, new)
  PROVE  FilesTyped'
<1>1. /\ \A g \in Files : g # f => file'[g] = file[g]
      /\ file'[f] \in {file[f], new, Damaged(f)}
  BY OneFile
<1>2. Typed(f, Damaged(f))
  <2>1. CASE f.type = "kernel"
    <3>1. Damaged(f) = 0
      BY <2>1 DEF Damaged
    <3> QED
      BY <2>1, <3>1 DEF Typed
  <2>2. CASE f.type = "manifest"
    <3>1. Damaged(f) = NoRelease
      BY <2>2 DEF Damaged
    <3> QED
      BY <2>2, <3>1 DEF Typed
  <2>3. CASE f.type = "state"
    <3>1. Damaged(f) = NoState
      BY <2>3 DEF Damaged
    <3>2. NoState \in BootStates /\ NoState.generation = 0
      BY DEF NoState, BootStates, Slots
    <3> QED
      BY <2>3, <3>1, <3>2, BootChainAssumption DEF Typed
  <2> QED
    BY <2>1, <2>2, <2>3, FileTypes
<1>3. \A g \in Files : Typed(g, file'[g])
  BY <1>1, <1>2 DEF FilesTyped
<1> QED
  BY <1>3 DEF FilesTyped, Typed

\* A numbered record fits the file of its generation.
LEMMA TypedRecord ==
  ASSUME NEW st \in BootStates, st.generation <= MaxGeneration
  PROVE  state_file(st.generation) \in Files /\ Typed(state_file(st.generation), st)
<1>1. PICK i \in Records : state_file(st.generation) = State(i)
  BY FileNames
<1> QED
  BY <1>1, FileTypes, FileNames DEF Typed

-----------------------------------------------------------------------------
(* Types and numbering *)

\* The rest of TypeOK.
ScalarsOK ==
  /\ floor \in Nat
  /\ root \in {BootstrapKey} \cup {r.next : r \in Releases}
  /\ pc \in {"off", "running", "halted"} \cup LoaderPcs \cup UpdaterPcs
  /\ stage \in {"active", "fallback", "scan"}
  /\ slot \in Slots
  /\ best \in Slots \cup {"none"}

\* Current is a boot state.
CurrentOK == current \in BootStates /\ current.generation <= MaxGeneration

NumberedFiles ==
  \A i \in Records : LET g == file[State(i)].generation IN g # 0 => state_file(g) = State(i)

LEMMA TypeParts ==
  /\ TypeOK /\ NumberedInv => FilesTyped /\ ScalarsOK /\ CurrentOK /\ ReadInv
  /\ FilesTyped /\ ScalarsOK => TypeOK
  /\ FilesTyped => NumberedFiles
<1>1. TypeOK /\ NumberedInv => FilesTyped
  BY TypedFiles DEF TypeOK, NumberedInv
<1>2. TypeOK /\ NumberedInv => ScalarsOK /\ CurrentOK /\ ReadInv
  BY DEF TypeOK, NumberedInv, ScalarsOK, CurrentOK
<1>3. FilesTyped /\ ScalarsOK => TypeOK
  BY TypedFiles DEF TypeOK, ScalarsOK
<1>4. FilesTyped => NumberedFiles
  BY TypedFiles DEF NumberedFiles
<1> QED
  BY <1>1, <1>2, <1>3, <1>4

\* The invariant after a step from its parts.
LEMMA TypesTogether ==
  ASSUME FilesTyped', ScalarsOK', CurrentOK', ReadInv'
  PROVE  TypeOK' /\ NumberedInv'
<1>1. TypeOK' /\ NumberedFiles'
  BY TypeParts, PTL
<1> QED
  BY <1>1 DEF NumberedInv, NumberedFiles, CurrentOK

\* Outside the loader nothing has been read.
LEMMA ReadOver ==
  ASSUME pc' \notin LoaderPcs
  PROVE  ReadInv'
BY DEF ReadInv, LoaderPcs

\* Going on with another slot keeps what was read.
LEMMA ReadContinue ==
  ASSUME ReadInv, pc \in {"verify", "root"}, NEW scanned, Continue(scanned),
         file' = file, current' = current, stage # "scan" => scanned = best
  PROVE  ReadInv'
<1>1. /\ best' = scanned /\ pc' \in {"verify", "repair_first", "halted"}
      /\ stage' = "scan" <=> stage = "scan"
      /\ pc' = "repair_first" => stage' = "scan"
  BY DEF Continue
<1> QED
  BY <1>1 DEF ReadInv, LoaderPcs

\* The records that the loader writes fit their files.
LEMMA LoaderRecords ==
  ASSUME FloorInv, FilesTyped, CurrentOK, NEW g \in Nat, g <= MaxGeneration
  PROVE  Repaired(g) \in BootStates /\ Repaired(g).generation = g
<1>1. file[Manifest(slot)].version \in Nat /\ slot \in Slots
  BY VersionsNat DEF FloorInv, FilesOK
<1> QED
  BY <1>1 DEF Repaired, BootStates

LEMMA RecordTyped ==
  ASSUME FloorInv, FilesTyped, CurrentOK, NEW g \in Nat, g <= MaxGeneration,
         \/ file' = [file EXCEPT ![state_file(g)] = Repaired(g)]
         \/ Interrupted(state_file(g), Repaired(g))
  PROVE  FilesTyped'
<1>1. state_file(g) \in Files /\ Typed(state_file(g), Repaired(g))
  BY LoaderRecords, TypedRecord
<1> QED
  BY <1>1, TypedWrite DEF FloorInv

\* What the updater writes fits its file.
LEMMA UpdaterTyped ==
  ASSUME FloorInv, FilesTyped, CurrentOK, pc \in UpdaterPcs \ {"unmount"},
         pc = "write_state" => current.generation < MaxGeneration
  PROVE  UpdaterFile \in Files /\ Typed(UpdaterFile, UpdaterContent)
<1>1. slot \in Slots /\ other(slot) \in Slots /\ release \in Releases
  BY DEF FloorInv, other, Slots
<1>2. /\ pc = "write_kernel" => UpdaterFile = Kernel(slot)
      /\ pc = "write_manifest" => UpdaterFile = Manifest(slot)
      /\ pc = "write_state" => UpdaterFile = state_file(NextState.generation)
      /\ pc = "copy_kernel" => UpdaterFile = Kernel(other(slot))
      /\ pc = "copy_manifest" => UpdaterFile = Manifest(other(slot))
  BY DEF UpdaterFile
<1>3. CASE pc = "write_state"
  <2>1. NextState \in BootStates /\ NextState.generation <= MaxGeneration
    <3>1. /\ current.generation \in Nat /\ current.generation < MaxGeneration
          /\ release.version \in Nat
      BY <1>1, <1>3, BootChainAssumption DEF CurrentOK, BootStates
    <3> QED
      BY <1>1, <3>1, BootChainAssumption DEF NextState, BootStates
  <2>2. UpdaterFile.type = "state"
    BY <1>2, <1>3, FileTypes, FileNames
  <2>3. UpdaterContent = NextState
    BY <2>2 DEF UpdaterContent
  <2> QED
    BY <1>2, <1>3, <2>1, <2>3, TypedRecord
<1>4. CASE pc \in {"write_kernel", "copy_kernel"}
  <2>1. UpdaterFile \in Files /\ UpdaterFile.type = "kernel"
    BY <1>1, <1>2, <1>4, FileTypes, FileNames
  <2>2. UpdaterContent = release.version
    BY <2>1 DEF UpdaterContent
  <2> QED
    BY <1>1, <2>1, <2>2 DEF Typed
<1>5. CASE pc \in {"write_manifest", "copy_manifest"}
  <2>1. UpdaterFile \in Files /\ UpdaterFile.type = "manifest"
    BY <1>1, <1>2, <1>5, FileTypes, FileNames
  <2>2. UpdaterContent = release
    BY <2>1 DEF UpdaterContent
  <2> QED
    BY <1>1, <2>1, <2>2 DEF Typed
<1> QED
  BY <1>3, <1>4, <1>5 DEF UpdaterPcs

\* No trust root but the embedded one and those that releases name.
LEMMA RootTyped ==
  ASSUME FloorInv, ScalarsOK
  PROVE  NextRoot \in {BootstrapKey} \cup {r.next : r \in Releases}
<1>1. file[Manifest(slot)] \in Releases \cup {NoRelease}
  BY DEF FloorInv, FilesOK
<1> QED
  BY <1>1 DEF NextRoot, NoRelease, ScalarsOK

LEMMA InitTypes == Init => TypeOK /\ NumberedInv
<1> SUFFICES ASSUME Init PROVE TypeOK /\ NumberedInv
  OBVIOUS
<1> DEFINE Content(r, f) == CASE f.type = "kernel" -> r.version
                              [] f.type = "manifest" -> r
                              [] f.type = "state" ->
                                   [generation |-> IF f.of = "BOOTSTA0" THEN 1 ELSE 2,
                                    slot |-> "A", version |-> r.version]
<1>1. PICK r \in Releases : file = [f \in Files |-> Content(r, f)]
  BY DEF Init
<1>2. ASSUME NEW f \in Files PROVE Typed(f, Content(r, f))
  <2>1. CASE f.type = "kernel"
    <3>1. Content(r, f) = r.version
      BY <2>1
    <3> QED
      BY <2>1, <3>1 DEF Typed
  <2>2. CASE f.type = "manifest"
    <3>1. Content(r, f) = r
      BY <2>2
    <3> QED
      BY <2>2, <3>1 DEF Typed
  <2>3. CASE f.type = "state"
    <3> DEFINE g == IF f.of = "BOOTSTA0" THEN 1 ELSE 2
               st == [generation |-> g, slot |-> "A", version |-> r.version]
    <3>1. Content(r, f) = st
      BY <2>3
    <3>2. PICK i \in Records : f = State(i)
      BY <2>3, FileTypes
    <3>3. f.of = i
      BY <3>2 DEF State
    <3>4. state_file(g) = f
      BY <3>2, <3>3, StateFiles DEF Records
    <3>5. st \in BootStates /\ st.generation = g /\ g <= MaxGeneration
      BY BootChainAssumption DEF BootStates, Slots
    <3> QED
      BY <2>3, <3>1, <3>4, <3>5 DEF Typed
  <2> QED
    BY <2>1, <2>2, <2>3, FileTypes
<1> HIDE DEF Content
<1>3. FilesTyped
  BY <1>1, <1>2 DEF FilesTyped
<1>4. /\ floor = 0 /\ root = BootstrapKey /\ pc = "off" /\ stage = "active" /\ slot = "A"
      /\ best = "none" /\ current = NoState
  BY Zenon DEF Init
<1>5. ScalarsOK
  BY <1>4 DEF ScalarsOK, Slots
<1>6. current \in BootStates /\ current.generation <= MaxGeneration
  BY <1>4, BootChainAssumption DEF NoState, BootStates, Slots
<1>7. ReadInv
  BY <1>4 DEF ReadInv, LoaderPcs
<1> QED
  BY <1>3, <1>5, <1>6, <1>7, TypeParts DEF NumberedInv, NumberedFiles
\* A step that writes no file and stays with what was read or leaves the loader.
LEMMA QuietTypes ==
  ASSUME FilesTyped, file' = file
  PROVE  FilesTyped'
BY DEF FilesTyped, Typed

\* The machine is switched off or the updater ends.
LEMMA OffTypes ==
  ASSUME ScalarsOK, SwitchedOff, floor' = floor, root' = root, FilesTyped'
  PROVE  TypeOK' /\ NumberedInv'
<1>1. ScalarsOK'
  BY DEF SwitchedOff, ScalarsOK, Slots
<1>2. CurrentOK'
  BY BootChainAssumption DEF SwitchedOff, CurrentOK, NoState, BootStates, Slots
<1>3. ReadInv'
  BY ReadOver DEF SwitchedOff, LoaderPcs
<1> QED
  BY <1>1, <1>2, <1>3, TypesTogether

LEMMA TypesStep ==
  FloorInv /\ TypeOK /\ NumberedInv /\ [Next]_vars => TypeOK' /\ NumberedInv'
<1> SUFFICES ASSUME FloorInv, TypeOK, NumberedInv, [Next]_vars
             PROVE  TypeOK' /\ NumberedInv'
  OBVIOUS
<1>1. FilesTyped /\ ScalarsOK /\ CurrentOK /\ ReadInv
  BY TypeParts
<1>2. FilesOK /\ slot \in Slots /\ best \in Slots \cup {"none"} /\ other(slot) \in Slots
  BY DEF FloorInv, other, Slots
<1>3. \A i \in Records : file[State(i)] \in BootStates
                         /\ file[State(i)].generation <= MaxGeneration
  BY DEF TypeOK
<1>4. /\ current.generation \in Nat /\ current.generation <= MaxGeneration
      /\ MaxGeneration \in Nat /\ MaxGeneration >= 2
  BY <1>1, BootChainAssumption DEF CurrentOK, BootStates
<1>5. CASE LoadBootState
  <2>1. /\ UNCHANGED <<file, floor, root>> /\ pc' = "verify" /\ best' = "none"
        /\ \/ /\ stage' = "active" /\ slot' = current'.slot
              /\ \E i \in Records : current' = file[State(i)] /\ file[State(i)].generation # 0
           \/ stage' = "scan" /\ slot' = "A" /\ current' = NoState
    BY <1>5 DEF LoadBootState, nv, Newest, Decodable
  <2>2. CurrentOK'
    <3>1. NoState \in BootStates /\ NoState.generation <= MaxGeneration
      BY <1>4 DEF NoState, BootStates, Slots
    <3> QED
      BY <1>3, <2>1, <3>1 DEF CurrentOK
  <2>3. ScalarsOK'
    BY <1>1, <2>1, <2>2 DEF ScalarsOK, CurrentOK, BootStates, Slots, LoaderPcs
  <2>4. ReadInv'
    BY <2>1 DEF ReadInv, LoaderPcs
  <2> QED
    BY <1>1, <2>1, <2>2, <2>3, <2>4, QuietTypes, TypesTogether
<1>6. CASE FileSystemUnavailable
  <2>1. UNCHANGED <<file, floor, root, stage, best, slot, current>> /\ pc' = "halted"
    BY <1>6 DEF FileSystemUnavailable, nv, loader
  <2>2. ScalarsOK' /\ CurrentOK' /\ ReadInv'
    BY <1>1, <2>1, ReadOver DEF ScalarsOK, CurrentOK, LoaderPcs
  <2> QED
    BY <1>1, <2>1, <2>2, QuietTypes, TypesTogether
<1>7. CASE VerifySlot
  <2>1. /\ UNCHANGED <<file, root, stage, best, slot, current>> /\ pc = "verify" /\ pc' = "root"
        /\ floor' = file[Manifest(slot)].version
    BY <1>7 DEF VerifySlot, loader
  <2>2. floor' \in Nat
    BY <1>2, <2>1, VersionsNat DEF FilesOK
  <2>3. ScalarsOK' /\ CurrentOK'
    BY <1>1, <2>1, <2>2 DEF ScalarsOK, CurrentOK, LoaderPcs
  <2>4. ReadInv'
    BY <1>1, <2>1 DEF ReadInv, LoaderPcs
  <2> QED
    BY <1>1, <2>1, <2>3, <2>4, QuietTypes, TypesTogether
<1>8. ASSUME NEW scanned \in Slots \cup {"none"}, Continue(scanned), pc \in {"verify", "root"},
             UNCHANGED <<file, floor, current>>, root' \in {root, NextRoot},
             stage # "scan" => scanned = best
      PROVE  TypeOK' /\ NumberedInv'
  <2>1. /\ best' = scanned /\ pc' \in {"verify", "repair_first", "halted"}
        /\ stage' \in {stage, "fallback", "scan"} /\ slot' \in Slots
    BY <1>2, <1>8 DEF Continue, Slots
  <2>2. ScalarsOK' /\ CurrentOK'
    BY <1>1, <1>8, <2>1, RootTyped DEF ScalarsOK, CurrentOK, LoaderPcs
  <2>3. ReadInv'
    BY <1>1, <1>8, ReadContinue
  <2> QED
    BY <1>1, <1>8, <2>2, <2>3, QuietTypes, TypesTogether
<1>9. CASE RejectSlot
  BY <1>2, <1>8, <1>9 DEF RejectSlot, nv
<1>10. CASE TrustRootFails
  BY <1>2, <1>8, <1>10 DEF TrustRootFails
<1>11. CASE AcceptSlot
  <2> DEFINE version == file[Manifest(slot)].version
             scanned == IF best = "none" \/ version > file[Manifest(best)].version
                        THEN slot ELSE best
  <2>1. pc = "root" /\ UNCHANGED <<file, floor, current>> /\ root' = NextRoot
    BY <1>11 DEF AcceptSlot
  <2>2. \/ /\ Start(slot, version, current.generation, FALSE)
           /\ UNCHANGED <<stage, slot, best>>
        \/ Continue(best)
        \/ stage = "fallback" /\ pc' = "persist" /\ UNCHANGED <<stage, slot, best>>
        \/ stage = "scan" /\ Continue(scanned)
    BY <1>11, Zenon DEF AcceptSlot
  <2>3. CASE \/ /\ Start(slot, version, current.generation, FALSE)
                /\ UNCHANGED <<stage, slot, best>>
             \/ stage = "fallback" /\ pc' = "persist" /\ UNCHANGED <<stage, slot, best>>
    <3>1. /\ UNCHANGED <<stage, slot, best>>
          /\ pc' = "running" \/ (pc' = "persist" /\ stage = "fallback")
      BY <2>3 DEF Start
    <3>2. ScalarsOK' /\ CurrentOK'
      BY <1>1, <2>1, <3>1, RootTyped DEF ScalarsOK, CurrentOK, LoaderPcs
    <3>3. ReadInv'
      BY <1>1, <2>1, <3>1 DEF ReadInv, LoaderPcs
    <3> QED
      BY <1>1, <2>1, <3>2, <3>3, QuietTypes, TypesTogether
  <2>4. CASE Continue(best)
    BY <1>2, <1>8, <2>1, <2>4
  <2>5. CASE stage = "scan" /\ Continue(scanned)
    <3>1. scanned \in Slots \cup {"none"}
      BY <1>2
    <3> QED
      BY <1>8, <2>1, <2>5, <3>1
  <2> QED
    BY <2>2, <2>3, <2>4, <2>5
<1>12. CASE PersistFallback \/ PersistFails \/ RepairSecond \/ RepairFails
  <2>1. /\ UNCHANGED <<floor, root, stage, best, slot, current>> /\ pc' = "running"
    BY <1>12 DEF PersistFallback, PersistFails, RepairSecond, RepairFails, Start, nv
  <2>2. /\ pc = "persist" => LoaderWrites = Repaired(current.generation + 1)
        /\ pc = "repair_first" => LoaderWrites = Repaired(1)
        /\ pc = "repair_second" => LoaderWrites = Repaired(2)
    BY DEF LoaderWrites
  <2>3. \/ file' = file
        \/ \E g \in Nat : /\ g <= MaxGeneration
                          /\ \/ file' = [file EXCEPT ![state_file(g)] = Repaired(g)]
                             \/ Interrupted(state_file(g), Repaired(g))
    <3>1. \A g : Repaired(g).generation = g
      BY DEF Repaired
    <3>2. CASE PersistFallback \/ PersistFails
      <4>1. pc = "persist" /\ LoaderWrites = Repaired(current.generation + 1)
            /\ LoaderWrites.generation = current.generation + 1
        BY <2>2, <3>1, <3>2 DEF PersistFallback, PersistFails
      <4>2. CASE current.generation < MaxGeneration
        <5>1. current.generation + 1 \in Nat /\ current.generation + 1 <= MaxGeneration
          BY <1>4, <4>2
        <5>2. \/ file' = [file EXCEPT ![state_file(LoaderWrites.generation)] = LoaderWrites]
              \/ Interrupted(state_file(LoaderWrites.generation), LoaderWrites)
              \/ file' = file
          BY <3>2 DEF PersistFallback, PersistFails
        <5> QED
          BY <4>1, <5>1, <5>2
      <4> QED
        BY <1>4, <3>2, <4>2 DEF PersistFallback, PersistFails
    <3>3. CASE RepairSecond
      <4>1. file' = [file EXCEPT ![state_file(2)] = Repaired(2)]
        BY <2>2, <3>3, StateFiles DEF RepairSecond
      <4> QED
        BY <1>4, <4>1
    <3>4. CASE RepairFails
      <4>1. \E g \in {1, 2} : Interrupted(state_file(g), Repaired(g))
        BY <2>2, <3>1, <3>4 DEF RepairFails
      <4> QED
        BY <1>4, <4>1
    <3> QED
      BY <1>12, <3>2, <3>3, <3>4
  <2>4. FilesTyped'
    BY <1>1, <2>3, QuietTypes, RecordTyped
  <2>5. ScalarsOK' /\ CurrentOK' /\ ReadInv'
    BY <1>1, <2>1, ReadOver DEF ScalarsOK, CurrentOK, LoaderPcs
  <2> QED
    BY <2>4, <2>5, TypesTogether
<1>13. CASE RepairFirst
  <2>1. /\ UNCHANGED <<floor, root, stage, best, slot, current>>
        /\ pc = "repair_first" /\ pc' = "repair_second"
        /\ file' = [file EXCEPT ![state_file(1)] = Repaired(1)]
    BY <1>13, StateFiles DEF RepairFirst, LoaderWrites, nv, loader
  <2>2. FilesTyped'
    <3>1. PICK g \in Nat : g = 1
      OBVIOUS
    <3>2. g <= MaxGeneration
      BY <1>4, <3>1
    <3>3. file' = [file EXCEPT ![state_file(g)] = Repaired(g)]
      BY <2>1, <3>1
    <3> QED
      BY <1>1, <3>2, <3>3, RecordTyped
  <2>3. SlotsKept
    BY <1>2, <2>1, RecordsAside
  <2>4. Repaired(1)' = Repaired(1)
    BY <1>2, <2>1, <2>3 DEF Repaired, SlotsKept, SlotKept
  <2>5. file'[State("BOOTSTA0")] = Repaired(1)
    BY <1>2, <2>1, StateFiles, FileNames DEF FilesOK, Records
  <2>6. ReadInv'
    BY <1>1, <2>1, <2>4, <2>5 DEF ReadInv, LoaderPcs
  <2>7. ScalarsOK' /\ CurrentOK'
    BY <1>1, <2>1 DEF ScalarsOK, CurrentOK, LoaderPcs
  <2> QED
    BY <2>2, <2>6, <2>7, TypesTogether
<1>14. CASE PowerLoss
  <2>1. SwitchedOff /\ floor' = floor /\ root' = root
    BY <1>14 DEF PowerLoss, nv
  <2>2. FilesTyped'
    <3>1. CASE file' = file
      BY <1>1, <3>1, QuietTypes
    <3>2. CASE /\ pc \in {"persist", "repair_first", "repair_second"}
               /\ LoaderWrites.generation <= MaxGeneration
               /\ Interrupted(state_file(LoaderWrites.generation), LoaderWrites)
      <4>1. \E g \in Nat : LoaderWrites = Repaired(g)
        BY <1>4, <3>2 DEF LoaderWrites
      <4>2. PICK g \in Nat : LoaderWrites = Repaired(g)
        BY <4>1
      <4>3. LoaderWrites.generation = g
        BY <4>2 DEF Repaired
      <4> QED
        BY <1>1, <3>2, <4>2, <4>3, RecordTyped
    <3> QED
      BY <1>14, <3>1, <3>2 DEF PowerLoss
  <2> QED
    BY <1>1, <2>1, <2>2, OffTypes
<1>15. CASE \E r \in Releases : UpdateStart(r)
  <2>1. PICK i \in Records : current' = file[State(i)] /\ slot' = other(file[State(i)].slot)
    BY <1>15 DEF UpdateStart
  <2>2. UNCHANGED <<file, floor, root, stage, best>> /\ pc' = "write_kernel"
    BY <1>15 DEF UpdateStart, nv, loader
  <2>3. ScalarsOK' /\ CurrentOK' /\ ReadInv'
    BY <1>1, <1>3, <2>1, <2>2, ReadOver
    DEF ScalarsOK, CurrentOK, LoaderPcs, UpdaterPcs, other, Slots
  <2> QED
    BY <1>1, <2>2, <2>3, QuietTypes, TypesTogether
<1>16. CASE UpdaterWrite
  <2>1. /\ UNCHANGED <<floor, root, stage, best, slot, current>> /\ pc' \in UpdaterPcs
        /\ pc \in UpdaterPcs \ {"unmount"}
        /\ pc = "write_state" => current.generation < MaxGeneration
        /\ file' = [file EXCEPT ![UpdaterFile] = UpdaterContent]
    BY <1>16 DEF UpdaterWrite, AfterWrite, UpdaterPcs, nv, loader
  <2>2. FilesTyped'
    BY <1>1, <1>2, <2>1, UpdaterTyped, TypedWrite
  <2>3. ScalarsOK' /\ CurrentOK' /\ ReadInv'
    BY <1>1, <2>1, ReadOver DEF ScalarsOK, CurrentOK, LoaderPcs, UpdaterPcs
  <2> QED
    BY <2>2, <2>3, TypesTogether
<1>17. CASE UpdateCommitted \/ UpdaterDies
  <2>1. SwitchedOff /\ floor' = floor /\ root' = root
    BY <1>17 DEF UpdateCommitted, UpdaterDies, nv
  <2>2. FilesTyped'
    <3>1. CASE file' = file
      BY <1>1, <3>1, QuietTypes
    <3>2. CASE /\ pc \in UpdaterPcs \ {"unmount"} /\ Interrupted(UpdaterFile, UpdaterContent)
               /\ ~(pc = "write_state" /\ current.generation = MaxGeneration)
      BY <1>1, <1>2, <1>4, <3>2, UpdaterTyped, TypedWrite
    <3> QED
      BY <1>17, <3>1, <3>2 DEF UpdateCommitted, UpdaterDies
  <2> QED
    BY <1>1, <2>1, <2>2, OffTypes
<1>18. CASE DamageSlot \/ DamageRecord
  <2>1. UNCHANGED <<floor, root, pc, stage, best, slot, current>> /\ pc = "off"
    BY <1>18 DEF DamageSlot, DamageRecord, nv, loader
  <2>2. FilesTyped'
    <3>1. PICK f \in Files : file' = [file EXCEPT ![f] = Damaged(f)]
      <4>1. \A i \in Records : Damaged(State(i)) = NoState
        BY FileTypes DEF Damaged
      <4> QED
        BY <1>18, <4>1, FileNames DEF DamageSlot, DamageRecord
    <3>2. Interrupted(f, file[f])
      BY <3>1 DEF Interrupted
    <3> QED
      BY <1>1, <1>2, <3>2, TypedWrite DEF FilesTyped
  <2>3. ScalarsOK' /\ CurrentOK' /\ ReadInv'
    BY <1>1, <2>1, ReadOver DEF ScalarsOK, CurrentOK, LoaderPcs
  <2> QED
    BY <2>2, <2>3, TypesTogether
<1>19. CASE UNCHANGED vars
  <2>1. UNCHANGED <<file, floor, root, pc, stage, best, slot, current>>
    BY <1>19 DEF vars, nv, loader
  <2>2. ScalarsOK' /\ CurrentOK'
    BY <1>1, <2>1 DEF ScalarsOK, CurrentOK
  <2>3. ReadInv'
    BY <1>1, <2>1 DEF ReadInv, Repaired
  <2> QED
    BY <1>1, <2>1, <2>2, <2>3, QuietTypes, TypesTogether
<1> QED
  BY <1>5, <1>6, <1>7, <1>9, <1>10, <1>11, <1>12, <1>13, <1>14, <1>15, <1>16, <1>17, <1>18,
     <1>19 DEF Next, LoaderNext, UpdaterNext

-----------------------------------------------------------------------------
(* A recovery lasts *)

\* A step outside the loader accepts nothing.
LEMMA AcceptedOver ==
  ASSUME pc' \notin LoaderPcs
  PROVE  AcceptedInv'
BY DEF AcceptedInv, LoaderPcs

\* Going on with another slot.
LEMMA AcceptedContinue ==
  ASSUME NEW scanned \in Slots \cup {"none"}, Continue(scanned),
         scanned # "none" => Loadable(scanned),
         UNCHANGED <<file, floor, root>>
  PROVE  AcceptedInv'
<1>1. /\ best' = scanned /\ pc' \in {"verify", "repair_first", "halted"}
      /\ pc' = "repair_first" => slot' = scanned /\ scanned # "none"
  BY DEF Continue
<1>2. \A s \in Slots : Loadable(s) => Loadable(s)'
  BY DEF Loadable
<1>3. CASE scanned = "none"
  BY <1>1, <1>3 DEF AcceptedInv
<1>4. CASE scanned # "none"
  <2>1. Loadable(scanned)'
    BY <1>2, <1>4
  <2>2. best' # "none" /\ pc' = "verify" => Loadable(best)'
    BY <1>1, <2>1 DEF Loadable
  <2>3. pc' = "repair_first" => Loadable(slot)'
    BY <1>1, <2>1 DEF Loadable
  <2> QED
    BY <1>1, <2>2, <2>3 DEF AcceptedInv
<1> QED
  BY <1>3, <1>4

LEMMA AcceptedStep ==
  FloorInv /\ BootableInv /\ ReadInv /\ (OneKeySoFar => AcceptedInv) /\ [Next]_vars
    => (OneKeySoFar' => AcceptedInv')
<1> SUFFICES ASSUME FloorInv, BootableInv, ReadInv, OneKeySoFar => AcceptedInv, [Next]_vars,
                    OneKeySoFar'
             PROVE  AcceptedInv'
  OBVIOUS
<1>1. FilesOK /\ slot \in Slots /\ best \in Slots \cup {"none"}
  BY DEF FloorInv
<1>2. published' = published => OneKeySoFar /\ AcceptedInv
  BY DEF OneKeySoFar
<1>3. \A s \in Slots : file[Manifest(s)].version \in Nat
  BY <1>1, VersionsNat DEF FilesOK
<1>4. CASE LoadBootState
  BY <1>4 DEF LoadBootState, AcceptedInv
<1>5. CASE VerifySlot
  <2>1. /\ UNCHANGED <<file, root, best, slot, published>> /\ pc = "verify" /\ pc' = "root"
        /\ floor' = file[Manifest(slot)].version /\ Loadable(slot)
    BY <1>5 DEF VerifySlot, loader, history
  <2>2. AcceptedInv
    BY <1>2, <2>1
  <2>3. Loadable(slot)'
    BY <1>1, <1>3, <2>1 DEF Loadable
  <2>4. best # "none" => Loadable(best)
    BY <2>1, <2>2 DEF AcceptedInv
  <2> QED
    BY <2>1, <2>3, <2>4 DEF AcceptedInv, Loadable
<1>6. CASE RejectSlot
  <2>1. /\ Continue(best) /\ UNCHANGED <<file, floor, root, published>> /\ pc = "verify"
    BY <1>6 DEF RejectSlot, Continue, nv, history
  <2>2. best # "none" => Loadable(best)
    BY <1>2, <2>1 DEF AcceptedInv
  <2> QED
    BY <1>1, <2>1, <2>2, AcceptedContinue
<1>7. CASE AcceptSlot
  <2> DEFINE version == file[Manifest(slot)].version
             scanned == IF best = "none" \/ version > file[Manifest(best)].version
                        THEN slot ELSE best
  <2>1. pc = "root" /\ UNCHANGED <<file, floor, published>> /\ root' = NextRoot
    BY <1>7 DEF AcceptSlot, Start, Continue, history
  <2>2. AcceptedInv /\ root' = root
    BY <1>2, <2>1, RootStays
  <2>3. \/ Start(slot, version, current.generation, FALSE)
        \/ stage = "active" /\ Continue(best)
        \/ pc' = "persist" /\ slot' = slot
        \/ stage = "scan" /\ Continue(scanned)
    BY <1>7, Zenon DEF AcceptSlot
  <2>4. CASE Start(slot, version, current.generation, FALSE)
    BY <2>4, AcceptedOver DEF Start, LoaderPcs
  <2>5. CASE stage = "active" /\ Continue(best)
    <3>1. best = "none"
      BY <2>1, <2>5 DEF ReadInv, LoaderPcs
    <3> QED
      BY <1>1, <2>1, <2>2, <2>5, <3>1, AcceptedContinue
  <2>6. CASE pc' = "persist" /\ slot' = slot
    BY <2>1, <2>2, <2>6 DEF AcceptedInv, Loadable
  <2>7. CASE stage = "scan" /\ Continue(scanned)
    <3>1. scanned \in Slots \cup {"none"}
      BY <1>1
    <3>2. Loadable(slot)
      BY <2>1, <2>2 DEF AcceptedInv
    <3>3. floor = version /\ floor \in Nat
      BY <1>1, <1>3, <2>1, <3>2 DEF FloorInv, Covered, Loadable
    <3>4. CASE best # "none" /\ ~(version > file[Manifest(best)].version)
      <4>1. /\ file[Manifest(best)].version # 0 /\ file[Manifest(best)].key = root
            /\ file[Kernel(best)] = file[Manifest(best)].version
        BY <2>1, <2>2, <3>4 DEF AcceptedInv
      <4>2. file[Manifest(best)].version \in Nat
        BY <1>1, <1>3, <3>4
      <4>3. file[Manifest(best)].version >= floor
        BY <3>3, <3>4, <4>2
      <4>4. Loadable(best)
        BY <4>1, <4>3 DEF Loadable
      <4> QED
        BY <2>1, <2>2, <2>7, <3>1, <3>4, <4>4, AcceptedContinue
    <3>5. CASE ~(best # "none" /\ ~(version > file[Manifest(best)].version))
      <4>1. scanned = slot
        BY <3>5
      <4> QED
        BY <2>1, <2>2, <2>7, <3>1, <3>2, <4>1, AcceptedContinue
    <3> QED
      BY <3>4, <3>5
  <2> QED
    BY <2>3, <2>4, <2>5, <2>6, <2>7
<1>8. CASE TrustRootFails
  <2>1. NextRoot # root /\ published' = published
    BY <1>8 DEF TrustRootFails, Continue, history
  <2> QED
    BY <1>2, <2>1, RootStays
<1>9. CASE RepairFirst
  <2>1. /\ UNCHANGED <<floor, root, slot, published>> /\ pc = "repair_first"
        /\ pc' = "repair_second"
        /\ file' = [file EXCEPT ![state_file(1)] = LoaderWrites]
    BY <1>9, StateFiles DEF RepairFirst, nv, history
  <2>2. SlotsKept
    BY <1>1, <2>1, RecordsAside
  <2>3. Loadable(slot)
    BY <1>2, <2>1 DEF AcceptedInv
  <2>4. Loadable(slot)'
    BY <1>1, <2>1, <2>2, <2>3 DEF Loadable, SlotsKept, SlotKept
  <2> QED
    BY <2>1, <2>4 DEF AcceptedInv
<1>10. CASE \/ FileSystemUnavailable \/ PersistFallback \/ PersistFails \/ RepairSecond
            \/ RepairFails \/ PowerLoss \/ UpdateCommitted \/ UpdaterDies \/ DamageSlot
            \/ DamageRecord
  <2>1. pc' \in {"off", "halted", "running"}
    BY <1>10 DEF FileSystemUnavailable, PersistFallback, PersistFails, RepairSecond,
                 RepairFails, PowerLoss, UpdateCommitted, UpdaterDies, DamageSlot,
                 DamageRecord, Start, SwitchedOff
  <2> QED
    BY <2>1, AcceptedOver DEF LoaderPcs
<1>11. CASE UpdaterWrite \/ \E r \in Releases : UpdateStart(r)
  <2>1. pc' \in UpdaterPcs
    BY <1>11 DEF UpdaterWrite, AfterWrite, UpdateStart, UpdaterPcs
  <2> QED
    BY <2>1, AcceptedOver DEF UpdaterPcs, LoaderPcs
<1>12. CASE UNCHANGED vars
  <2>1. UNCHANGED <<file, floor, root, pc, best, slot, published>>
    BY <1>12 DEF vars, nv, loader, history
  <2> QED
    BY <1>2, <2>1 DEF AcceptedInv, Loadable
<1> QED
  BY <1>4, <1>5, <1>6, <1>7, <1>8, <1>9, <1>10, <1>11, <1>12
  DEF Next, LoaderNext, UpdaterNext

\* A recovery recorded in one file is the newest if the other record is older.
LEMMA NewestRecord ==
  ASSUME NEW st \in BootStates, st.generation # 0,
         NEW i \in Records, file'[State(i)] = st,
         \A j \in Records : j # i => /\ file'[State(j)].generation \in Nat
                                     /\ file'[State(j)].generation < st.generation
  PROVE  Newest(Records, st)'
BY DEF Newest, Decodable

\* The kernel starts as recovered, from a slot that stays loadable.
LEMMA RecoveredStart ==
  ASSUME NEW g \in Nat, Start(slot, Repaired(g).version, g, TRUE), slot \in Slots,
         slot' = slot, Newest(Records, Repaired(g))', Repaired(g)' = Repaired(g),
         OneKeySoFar' => Loadable(slot)'
  PROVE  RecoveryLasts'
<1>1. /\ image'.generation = g /\ image'.slot = slot
      /\ image'.version = Repaired(g).version
  BY DEF Start
<1>2. [generation |-> g, slot |-> slot, version |-> Repaired(g).version] = Repaired(g)
  BY DEF Repaired
<1>3. [generation |-> image'.generation, slot |-> image'.slot, version |-> image'.version]
        = Repaired(g)
  BY <1>1, <1>2
<1>4. OneKeySoFar' => Loadable(image.slot)'
  BY <1>1 DEF Loadable
<1>5. Newest(Records, [generation |-> image.generation, slot |-> image.slot,
                       version |-> image.version])'
  BY <1>3 DEF Newest
<1> QED
  BY <1>4, <1>5 DEF RecoveryLasts

\* A step that starts no kernel as recovered under a newer generation.
LEMMA NoRecovery ==
  ASSUME \/ pc' # "running"
         \/ image'.recovery = FALSE
         \/ ~(image'.generation > current'.generation)
  PROVE  RecoveryLasts'
BY DEF RecoveryLasts

LEMMA RecoveryStep ==
  FloorInv /\ RecordsInv /\ [Next]_vars => RecoveryLasts'
<1> SUFFICES ASSUME FloorInv, RecordsInv, [Next]_vars PROVE RecoveryLasts'
  OBVIOUS
<1>1. FilesOK /\ slot \in Slots /\ FilesTyped /\ CurrentOK /\ ReadInv /\ NumberedInv
  BY TypeParts DEF FloorInv, RecordsInv
<1>2. current.generation \in Nat /\ current.generation <= MaxGeneration
  BY <1>1 DEF CurrentOK, BootStates
<1>3. published' = published /\ OneKeySoFar' => AcceptedInv
  BY DEF OneKeySoFar, RecordsInv
<1>4. ASSUME NEW g, NEW new, slot' = slot, file' = [file EXCEPT ![state_file(g)] = new]
      PROVE  /\ \A h : Repaired(h)' = Repaired(h)
             /\ UNCHANGED <<floor, root>> /\ Loadable(slot) => Loadable(slot)'
  <2>1. SlotsKept
    BY <1>1, <1>4, RecordsAside
  <2>2. \A h : Repaired(h)' = Repaired(h)
    BY <1>1, <1>4, <2>1 DEF Repaired, SlotsKept, SlotKept
  <2>3. UNCHANGED <<floor, root>> /\ Loadable(slot) => Loadable(slot)'
    BY <1>1, <1>4, <2>1 DEF Loadable, SlotsKept, SlotKept
  <2> QED
    BY <2>2, <2>3
<1>5. CASE PersistFallback
  <2>1. PICK g \in Nat : g = current.generation + 1
    BY <1>2
  <2>2. pc = "persist" /\ LoaderWrites = Repaired(g) /\ Repaired(g).generation = g
    BY <1>5, <2>1 DEF PersistFallback, LoaderWrites, Repaired
  <2>3. /\ file' = [file EXCEPT ![state_file(g)] = Repaired(g)]
        /\ Start(slot, Repaired(g).version, g, TRUE)
        /\ g <= MaxGeneration
        /\ UNCHANGED <<floor, root, slot, published>>
    <3>1. /\ file' = [file EXCEPT ![state_file(g)] = Repaired(g)]
          /\ Start(slot, Repaired(g).version, g, TRUE)
      BY <1>5, <2>2 DEF PersistFallback
    <3>2. current.generation < MaxGeneration /\ UNCHANGED <<floor, root, slot>>
      BY <1>5 DEF PersistFallback, nv
    <3>3. g <= MaxGeneration
      BY <1>2, <2>1, <3>2, BootChainAssumption
    <3>4. published' = published
      BY <3>1 DEF Start
    <3> QED
      BY <3>1, <3>2, <3>3, <3>4
  <2>4. Repaired(g) \in BootStates
    BY <1>1, <2>3, LoaderRecords
  <2>5. PICK k \in Records : file[State(k)] = current /\ current.generation # 0
    BY <1>1, <2>2 DEF ReadInv, LoaderPcs
  <2>6. state_file(current.generation) = State(k)
    BY <1>1, <2>5 DEF NumberedInv
  <2>7. PICK i \in Records : state_file(g) = State(i)
    BY FileNames
  <2>8. i # k
    BY <1>2, <2>1, <2>6, <2>7, StateFiles
  <2>9. file'[State(i)] = Repaired(g) /\ file'[State(k)] = current
    BY <1>1, <2>3, <2>5, <2>7, <2>8, FileNames DEF FilesOK
  <2>10. \A j \in Records : j # i => j = k
    BY <2>8 DEF Records
  <2>11. \A j \in Records : j # i => /\ file'[State(j)].generation \in Nat
                                     /\ file'[State(j)].generation < Repaired(g).generation
    BY <1>2, <2>1, <2>2, <2>9, <2>10
  <2>12. \A h : Repaired(h)' = Repaired(h)
    BY <1>4, <2>3
  <2>13. \A st : st = Repaired(g) => Newest(Records, st)'
    <3> SUFFICES ASSUME NEW st, st = Repaired(g) PROVE Newest(Records, st)'
      OBVIOUS
    <3>1. st \in BootStates /\ st.generation # 0
      BY <1>2, <2>1, <2>2, <2>4
    <3> QED
      BY <2>9, <2>11, <3>1, NewestRecord
  <2>14. Newest(Records, Repaired(g))'
    BY <2>12, <2>13 DEF Newest
  <2>15. OneKeySoFar' => Loadable(slot)'
    BY <1>3, <1>4, <2>2, <2>3 DEF AcceptedInv
  <2> QED
    BY <1>1, <2>3, <2>12, <2>14, <2>15, RecoveredStart
<1>6. CASE RepairSecond
  <2>1. PICK g \in Nat : g = 2
    OBVIOUS
  <2>2. pc = "repair_second" /\ LoaderWrites = Repaired(g) /\ Repaired(g).generation = 2
    BY <1>6, <2>1 DEF RepairSecond, LoaderWrites, Repaired
  <2>3. /\ file' = [file EXCEPT ![state_file(g)] = Repaired(g)]
        /\ Start(slot, Repaired(g).version, g, TRUE)
        /\ UNCHANGED <<floor, root, slot, published>>
    BY <1>6, <2>1, <2>2, StateFiles DEF RepairSecond, Start, nv
  <2>4. Repaired(g) \in BootStates
    BY <1>1, <2>1, LoaderRecords, BootChainAssumption
  <2>5. file[State("BOOTSTA0")] = Repaired(1) /\ Repaired(1).generation = 1
    BY <1>1, <2>2 DEF ReadInv, Repaired
  <2>6. /\ state_file(g) = State("BOOTSTA1") /\ State("BOOTSTA0") # State("BOOTSTA1")
        /\ State("BOOTSTA0") \in Files /\ State("BOOTSTA1") \in Files
    BY <2>1, StateFiles, FileNames DEF Records
  <2>7. /\ file'[State("BOOTSTA1")] = Repaired(g)
        /\ file'[State("BOOTSTA0")].generation = 1
    BY <1>1, <2>3, <2>5, <2>6 DEF FilesOK
  <2>8. \A j \in Records : j # "BOOTSTA1" =>
          /\ file'[State(j)].generation \in Nat
          /\ file'[State(j)].generation < Repaired(g).generation
    BY <2>2, <2>7 DEF Records
  <2>9. \A h : Repaired(h)' = Repaired(h)
    BY <1>4, <2>3
  <2>10. \A st : st = Repaired(g) => Newest(Records, st)'
    <3> SUFFICES ASSUME NEW st, st = Repaired(g) PROVE Newest(Records, st)'
      OBVIOUS
    <3>1. st \in BootStates /\ st.generation # 0 /\ "BOOTSTA1" \in Records
      BY <2>2, <2>4 DEF Records
    <3> QED
      BY <2>7, <2>8, <3>1, NewestRecord
  <2>11. Newest(Records, Repaired(g))'
    BY <2>9, <2>10 DEF Newest
  <2>12. OneKeySoFar' => Loadable(slot)'
    BY <1>3, <1>4, <2>2, <2>3 DEF AcceptedInv
  <2> QED
    BY <1>1, <2>3, <2>9, <2>11, <2>12, RecoveredStart
<1>7. CASE PersistFails
  <2>1. image'.generation = current'.generation /\ current' = current
    BY <1>7 DEF PersistFails, Start
  <2>2. ~(image'.generation > current'.generation)
    BY <1>2, <2>1
  <2> QED
    BY <2>2, NoRecovery
<1>8. CASE RepairFails
  <2>1. image'.generation = 0 /\ current' = current
    BY <1>8 DEF RepairFails, Start
  <2>2. ~(image'.generation > current'.generation)
    BY <1>2, <2>1
  <2> QED
    BY <2>2, NoRecovery
<1>9. CASE AcceptSlot
  <2>1. pc' # "running" \/ image'.recovery = FALSE
    <3>1. \/ \E version : Start(slot, version, current.generation, FALSE)
          \/ \E scanned : Continue(scanned)
          \/ pc' = "persist"
      BY <1>9, Zenon DEF AcceptSlot
    <3> QED
      BY <3>1 DEF Start, Continue
  <2> QED
    BY <2>1, NoRecovery
<1>10. CASE \/ LoadBootState \/ FileSystemUnavailable \/ VerifySlot \/ RejectSlot
            \/ TrustRootFails \/ RepairFirst \/ PowerLoss \/ UpdateCommitted \/ UpdaterDies
            \/ DamageSlot \/ DamageRecord
  <2>1. pc' # "running"
    BY <1>10 DEF LoadBootState, FileSystemUnavailable, VerifySlot, RejectSlot, TrustRootFails,
                 RepairFirst, PowerLoss, UpdateCommitted, UpdaterDies, DamageSlot,
                 DamageRecord, Continue, SwitchedOff
  <2> QED
    BY <2>1, NoRecovery
<1>11. CASE UpdaterWrite \/ \E r \in Releases : UpdateStart(r)
  <2>1. pc' \in UpdaterPcs
    BY <1>11 DEF UpdaterWrite, AfterWrite, UpdateStart, UpdaterPcs
  <2> QED
    BY <2>1, NoRecovery DEF UpdaterPcs
<1>12. CASE UNCHANGED vars
  <2>1. UNCHANGED <<file, floor, root, pc, image, current, published>>
    BY <1>12 DEF vars, nv, loader, history
  <2>2. RecoveryLasts
    BY DEF RecordsInv
  <2>3. OneKeySoFar' => OneKeySoFar
    BY <2>1 DEF OneKeySoFar
  <2>4. SUFFICES ASSUME OneKeySoFar', pc' = "running", image'.recovery,
                        image'.generation > current'.generation
                 PROVE  /\ Newest(Records, [generation |-> image.generation,
                                            slot |-> image.slot, version |-> image.version])'
                        /\ Loadable(image.slot)'
    BY DEF RecoveryLasts
  <2>5. /\ Newest(Records, [generation |-> image.generation, slot |-> image.slot,
                            version |-> image.version])
        /\ Loadable(image.slot)
    BY <2>1, <2>2, <2>3, <2>4 DEF RecoveryLasts
  <2>6. Loadable(image.slot)'
    BY <2>1, <2>5 DEF Loadable
  <2>7. Newest(Records, [generation |-> image.generation, slot |-> image.slot,
                         version |-> image.version])'
    <3>1. PICK st : st = [generation |-> image.generation, slot |-> image.slot,
                          version |-> image.version]
      OBVIOUS
    <3>2. Newest(Records, st)
      BY <2>5, <3>1
    <3>3. Newest(Records, st)'
      BY <2>1, <3>2 DEF Newest, Decodable
    <3>4. st = [generation |-> image'.generation, slot |-> image'.slot,
                version |-> image'.version]
      BY <2>1, <3>1
    <3> QED
      BY <3>3, <3>4 DEF Newest
  <2> QED
    BY <2>6, <2>7
<1> QED
  BY <1>5, <1>6, <1>7, <1>8, <1>9, <1>10, <1>11, <1>12 DEF Next, LoaderNext, UpdaterNext

\* The generation of the records never passes the last one, and after a recovery
\* that was recorded the newest record names the slot that runs and the next
\* boot accepts it: for every set of releases and every last generation.
THEOREM RecordsAreKept == Spec => []RecordsKept
<1>1. Init => RecordsInv
  <2> SUFFICES ASSUME Init PROVE RecordsInv
    OBVIOUS
  <2>1. TypeOK /\ NumberedInv
    BY InitTypes
  <2>2. pc = "off" /\ best = "none"
    BY Zenon DEF Init
  <2> QED
    BY <2>1, <2>2 DEF RecordsInv, AcceptedInv, RecoveryLasts
<1>2. FloorInv /\ BootableInv /\ RecordsInv /\ [Next]_vars => RecordsInv'
  <2> SUFFICES ASSUME FloorInv, BootableInv, RecordsInv, [Next]_vars PROVE RecordsInv'
    OBVIOUS
  <2>1. TypeOK' /\ NumberedInv'
    BY TypesStep DEF RecordsInv
  <2>2. OneKeySoFar' => AcceptedInv'
    BY AcceptedStep DEF RecordsInv, NumberedInv
  <2>3. RecoveryLasts'
    BY RecoveryStep
  <2> QED
    BY <2>1, <2>2, <2>3 DEF RecordsInv
<1>3. RecordsInv => RecordsKept
  BY DEF RecordsInv, RecordsKept
<1> QED
  BY <1>1, <1>2, <1>3, FloorInvHolds, InitBootable, BootableStep, PTL DEF Spec

=============================================================================
