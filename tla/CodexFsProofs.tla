---------------------------- MODULE CodexFsProofs ----------------------------
(***************************************************************************)
(* CodexFS never loses an acknowledged snapshot, for every device size,    *)
(* slot layout, record size and set of trees.                              *)
(***************************************************************************)
EXTENDS CodexFs, TLAPS

\* The two superblock sectors alternate (commit_files picks A for an even
\* generation and B for an odd one).
LEMMA SuperSectorAlternates ==
  ASSUME NEW n \in Nat
  PROVE  /\ super_sector(n) \in {0, 1}
         /\ super_sector(n + 1) \in {0, 1}
         /\ super_sector(n) # super_sector(n + 1)
         /\ super_sector(n + 1 + 1) = super_sector(n)
         /\ super_sector(0) = SUPERBLOCK_A_SECTOR
  BY DEF super_sector, SUPERBLOCK_A_SECTOR, SUPERBLOCK_B_SECTOR

\* Arithmetic for slot_start: a slot number times the span is a natural.
LEMMA ProductNat ==
  ASSUME NEW a \in Nat, NEW b \in Nat
  PROVE  a * b \in Nat
  OBVIOUS

\* A slot that select_record_start returns lies in the record area, on the
\* device, and away from the active record.
LEMMA SelectedStart ==
  ASSUME NEW start, NEW gen \in Nat, NEW n \in Nat, NEW sc \in Nat,
         NEW as \in Nat, NEW an \in Nat,
         device_large_enough(sc),
         select_record_start(start, gen, n, sc, as, an)
  PROVE  /\ start \in Nat
         /\ start >= RECORD_AREA_START
         /\ start + n <= sc
         /\ an = 0 \/ ~ranges_overlap(start, n, as, an)
<1> DEFINE span == record_slot_span(sc)
           count == record_slot_count(sc)
<1>1. half(sc) \in Nat /\ half(sc) >= 1
  BY GeometryAssumption DEF device_large_enough, half
<1>2. span \in Nat /\ span >= 1
  BY <1>1, GeometryAssumption DEF record_slot_span
<1>3. PICK attempt \in 0 .. count - 1 :
         /\ eligible(gen, attempt, n, sc, as, an)
         /\ start = slot_start(gen, attempt, sc)
  BY DEF select_record_start
<1>4. count \in Int /\ sc - RECORD_AREA_START \in Nat
  <2>1. sc - RECORD_AREA_START \in Nat
    BY GeometryAssumption DEF device_large_enough
  <2>2. QED
    BY <2>1, <1>2 DEF record_slot_count
<1>5. attempt \in Nat /\ count >= 1
  BY <1>3, <1>4
<1>6. (gen + attempt) % count \in Nat
  BY <1>4, <1>5
<1>7. ((gen + attempt) % count) * span \in Nat
  BY <1>6, <1>2, ProductNat
<1>8. start = RECORD_AREA_START + ((gen + attempt) % count) * span
  BY <1>3 DEF slot_start
<1>9. start \in Nat /\ start >= RECORD_AREA_START
  BY <1>7, <1>8, GeometryAssumption
<1>10. start + n <= sc /\ (an = 0 \/ ~ranges_overlap(start, n, as, an))
  BY <1>3 DEF eligible
<1> QED
  BY <1>9, <1>10

\* A sector whose magic is a superblock's has a superblock's fields.
LEMMA SuperTyped ==
  ASSUME NEW sb \in SectorContent, sb.kind = "super"
  PROVE  sb \in Superblock
  BY DEF SectorContent, Superblock, RecordSector, Zero, Torn

\* A located superblock passes decode_superblock, and its record's sectors
\* are sectors of the device outside the superblock area.
LEMMA LocatedSectors ==
  ASSUME TypeOK, NEW sb \in Superblock, Located(sb)
  PROVE  /\ decode_superblock(sb)
         /\ \A offset \in 0 .. sb.record_sectors - 1 :
              /\ sb.record_start + offset \in Sectors
              /\ sb.record_start + offset >= 2
  BY GeometryAssumption, FsAssumption
     DEF TypeOK, Located, decode_superblock, Superblock

\* What encode_record makes is neither a superblock nor damage.
LEMMA EncodeTyped ==
  ASSUME NEW sb \in Superblock, NEW offset \in Nat
  PROVE  /\ encode_record(sb, offset) \in SectorContent
         /\ encode_record(sb, offset).kind = "record"
         /\ encode_record(sb, offset) # Torn
         /\ encode_record(sb, offset) # Zero
  BY DEF encode_record, SectorContent, RecordSector, Superblock, Torn, Zero

\* A blank device, or one with foreign data in superblock A, is sound.
THEOREM InitIInv == Init => IInv
<1> SUFFICES ASSUME Init PROVE IInv
  OBVIOUS
<1>1. NoSnapshot \in Superblock
  BY FsAssumption DEF NoSnapshot, Superblock
<1>2. TypeOK
  <2>1. disk \in [Sectors -> SectorContent]
    BY DEF Init, SectorContent, Zero, Torn
  <2> QED
    BY <1>1, <2>1, FsAssumption DEF Init, TypeOK, Phases
<1>3. AckedWhole
  BY DEF Init, AckedWhole, NoSnapshot, read_record
<1>4. \A s \in Sectors : disk[s].kind # "super" /\ view[s].kind # "super"
  BY DEF Init, Zero, Torn
<1>5. super_sector(1) \in Sectors /\ 0 \in Sectors
  BY SuperSectorAlternates, FsAssumption
<1>6. /\ OtherHarmless(disk) /\ OtherHarmless(view)
      /\ NoneBefore(disk) /\ NoneBefore(view)
  BY <1>4, <1>5 DEF Init, OtherHarmless, NoneBefore, NoSnapshot, SUPERBLOCK_A_SECTOR
<1>7. MemoryAgrees /\ CommitSound /\ (pc = "down" => view = disk)
  BY DEF Init, MemoryAgrees, Mounted, CommitSound, InCommit
<1> QED
  BY <1>2, <1>3, <1>6, <1>7 DEF IInv, DeviceSound

\* The protected snapshot has a record on the device, or there is none yet.
LEMMA AckedLocated ==
  ASSUME TypeOK, AckedWhole
  PROVE  /\ acked \in Superblock /\ acked.generation \in Nat
         /\ Located(acked) \/ acked.record_sectors = 0
<1>1. acked \in Superblock /\ acked.generation \in Nat
  BY DEF TypeOK, Superblock
<1>2. CASE acked.generation = 0
  BY <1>1, <1>2 DEF AckedWhole, NoSnapshot
<1>3. CASE acked.generation > 0
  BY <1>1, <1>3 DEF AckedWhole
<1> QED
  BY <1>1, <1>2, <1>3

-----------------------------------------------------------------------------
(* One lemma per action: it preserves the inductive invariant.             *)

\* Steps that leave medium, cache and protected snapshot alone.
LEMMA DeviceFrame ==
  ASSUME DeviceSound, UNCHANGED devvars, acked' = acked, tried \subseteq tried'
  PROVE  DeviceSound'
  BY DEF DeviceSound, AckedWhole, OtherHarmless, NoneBefore, devvars, Located,
         Broken, read_record

\* A step that changes nothing.
LEMMA StutterIInv ==
  ASSUME IInv, UNCHANGED vars
  PROVE  IInv'
<1>1. /\ UNCHANGED devvars /\ pc' = pc /\ UNCHANGED fsvars /\ UNCHANGED commitvars
      /\ acked' = acked /\ tried' = tried
  BY DEF vars, history
<1>2. TypeOK'
  BY <1>1 DEF IInv, TypeOK, devvars, fsvars, commitvars
<1>3. DeviceSound'
  BY <1>1, DeviceFrame DEF IInv
<1>4. MemoryAgrees'
  BY <1>1 DEF IInv, MemoryAgrees, Mounted, fsvars, devvars
<1>5. CommitSound'
  BY <1>1 DEF IInv, CommitSound, InCommit, Located, read_record, commitvars, devvars
<1> QED
  BY <1>1, <1>2, <1>3, <1>4, <1>5 DEF IInv, devvars

\* commit_files up to its first write, for a caller or for a format.
LEMMA StartCommitIInv ==
  ASSUME IInv, NEW c \in Contents, NEW start \in Sectors,
         device_large_enough(capacity),
         generation = acked.generation,
         files = acked.files,
         active_record_start = acked.record_start,
         active_record_sectors = acked.record_sectors,
         CommitAllowed(c, start), StartCommit(c, start)
  PROVE  IInv'
<1> USE DEF IInv
<1>1. /\ capacity \in Nat /\ generation + 1 \in Nat /\ RecordSectors[c] \in Nat
      /\ RecordSectors[c] >= 1
  BY FsAssumption, GeometryAssumption DEF TypeOK
<1>2. /\ start \in Nat
      /\ start >= RECORD_AREA_START
      /\ start + RecordSectors[c] <= capacity
      /\ active_record_sectors = 0
         \/ ~ranges_overlap(start, RecordSectors[c], active_record_start,
                            active_record_sectors)
  BY <1>1, SelectedStart DEF TypeOK, CommitAllowed
<1>3. RecordSectors[c] <= MAX_RECORD_SECTORS
  <2>1. half(capacity) \in Int
    BY <1>1, GeometryAssumption DEF half
  <2> QED
    BY <1>1, <2>1, GeometryAssumption DEF CommitAllowed, record_slot_span
<1>4. pending' \in Superblock
  BY <1>1, <1>2 DEF StartCommit, Superblock
<1>5. TypeOK'
  BY <1>4 DEF TypeOK, StartCommit, devvars, fsvars, Phases
<1>6. DeviceSound'
  BY DeviceFrame DEF StartCommit
<1>7. MemoryAgrees'
  BY DEF StartCommit, MemoryAgrees, Mounted, fsvars, devvars
<1>8. Located(pending)'
  BY <1>1, <1>2, <1>3 DEF StartCommit, Located, devvars, TypeOK
<1>9. CommitSound'
  BY <1>1, <1>2, <1>8 DEF StartCommit, CommitSound, InCommit, devvars, fsvars, TypeOK
<1> QED
  BY <1>5, <1>6, <1>7, <1>9 DEF StartCommit

\* A caller's commit on a mounted filesystem passes its checks.
LEMMA BeginCommitIInv ==
  ASSUME IInv, NEW c \in Contents, BeginCommit(c)
  PROVE  IInv'
  BY StartCommitIInv DEF BeginCommit, IInv, MemoryAgrees, Mounted

\* A format starts the commit of generation 1 on a blank device.
LEMMA MountFormatIInv ==
  ASSUME IInv, MountFormat
  PROVE  IInv'
<1>1. acked = NoSnapshot
  <2>1. CASE acked.generation = 0
    BY <2>1 DEF IInv, DeviceSound, AckedWhole
  <2>2. CASE acked.generation # 0
    <3>1. acked.generation \in Nat /\ acked.generation > 0
      BY <2>2 DEF IInv, TypeOK, Superblock
    <3>2. view[super_sector(acked.generation)] = acked
      BY <3>1 DEF IInv, DeviceSound, AckedWhole
    <3>3. acked # Zero
      BY DEF IInv, TypeOK, Superblock, Zero
    <3> QED
      BY <3>1, <3>2, <3>3, SuperSectorAlternates
         DEF MountFormat, saw_nonzero, SUPERBLOCK_A_SECTOR, SUPERBLOCK_B_SECTOR
  <2> QED
    BY <2>1, <2>2
<1>2. PICK start \in Sectors : CommitAllowed(Empty, start) /\ StartCommit(Empty, start)
  BY DEF MountFormat
<1> QED
  BY StartCommitIInv, <1>1, <1>2, FsAssumption
     DEF MountFormat, IInv, MemoryAgrees, Mounted, NoSnapshot

\* Writing a record sector touches neither the superblocks nor the protected
\* record, and repairs no broken record of another tree.
LEMMA WriteRecordSectorIInv ==
  ASSUME IInv, WriteRecordSector
  PROVE  IInv'
<1> USE DEF IInv
<1> DEFINE at == pending.record_start + sector_offset
           new == encode_record(pending, sector_offset)
<1>1. /\ CommitSound /\ InCommit /\ pending \in Superblock /\ acked \in Superblock
      /\ sector_offset \in 0 .. pending.record_sectors - 1
  BY DEF WriteRecordSector, InCommit, TypeOK, Superblock
<1>2. Located(pending) /\ pending.files \in tried
  BY <1>1 DEF CommitSound
<1>3. at \in Sectors /\ at >= 2 /\ at \in Nat
  BY <1>1, <1>2, LocatedSectors, FsAssumption
<1>4. new \in SectorContent /\ new.kind = "record" /\ new.files = pending.files
  BY <1>1, EncodeTyped DEF encode_record
<1>5. /\ view' = [view EXCEPT ![at] = new] /\ disk' = disk /\ capacity' = capacity
      /\ acked' = acked /\ tried' = tried /\ pending' = pending /\ pc' = pc
  BY DEF WriteRecordSector, history
<1>6. TypeOK'
  BY <1>3, <1>4, <1>5 DEF TypeOK, WriteRecordSector, fsvars
<1>7. view'[0] = view[0] /\ view'[1] = view[1]
  BY <1>3, <1>5, FsAssumption DEF TypeOK
<1>8. view'[super_sector(acked.generation)] = view[super_sector(acked.generation)]
  BY <1>1, <1>7, SuperSectorAlternates DEF Superblock
<1>9. view'[super_sector(acked.generation + 1)] = view[super_sector(acked.generation + 1)]
  BY <1>1, <1>7, SuperSectorAlternates DEF Superblock
<1>10. AckedWhole'
  <2>1. read_record(view, acked)'
    <3> SUFFICES ASSUME NEW offset \in 0 .. acked.record_sectors - 1
                 PROVE  view'[acked.record_start + offset] = encode_record(acked, offset)
      BY <1>5 DEF read_record, encode_record
    <3>1. view[acked.record_start + offset] = encode_record(acked, offset)
      BY DEF DeviceSound, AckedWhole, read_record
    <3>2. acked.record_sectors \in Nat /\ acked.record_start \in Nat
      BY <1>1 DEF Superblock
    <3>3. ~ranges_overlap(pending.record_start, pending.record_sectors,
                          acked.record_start, acked.record_sectors)
      BY <1>1, <3>2 DEF CommitSound
    <3>4. acked.record_start + offset # at
      BY <1>1, <3>2, <3>3 DEF ranges_overlap, Superblock
    <3> QED
      BY <3>1, <3>4, <1>5 DEF TypeOK
  <2> QED
    BY <2>1, <1>5, <1>8 DEF DeviceSound, AckedWhole, read_record, Located, encode_record
<1>11. ASSUME NEW sb \in Superblock, Located(sb), sb.files \notin tried, Broken(sb)
       PROVE  Broken(sb)'
  <2>1. PICK offset \in 0 .. sb.record_sectors - 1 :
          /\ disk[sb.record_start + offset] # encode_record(sb, offset)
          /\ view[sb.record_start + offset] # encode_record(sb, offset)
    BY <1>11 DEF Broken
  <2>2. new # encode_record(sb, offset)
    BY <1>2, <1>4, <1>11 DEF encode_record
  <2>3. view'[sb.record_start + offset] # encode_record(sb, offset)
    BY <2>1, <2>2, <1>5, <1>11, LocatedSectors DEF TypeOK
  <2> QED
    BY <2>1, <2>3, <1>5 DEF Broken, encode_record
<1>12. OtherHarmless(disk)' /\ OtherHarmless(view)'
  <2>1. super_sector(acked.generation + 1) \in Sectors
    BY <1>1, SuperSectorAlternates, FsAssumption DEF Superblock
  <2>2. /\ disk[super_sector(acked.generation + 1)] \in SectorContent
        /\ view[super_sector(acked.generation + 1)] \in SectorContent
    BY <2>1 DEF TypeOK
  <2>3. OtherHarmless(disk)'
    <3>1. PICK other \in SectorContent : other = disk[super_sector(acked.generation + 1)]
      BY <2>2
    <3>2. other.kind = "super" =>
            /\ other \in Superblock /\ Located(other)
            /\ \/ other.generation < acked.generation
               \/ /\ other.generation = acked.generation + 1
                  /\ other.files \in tried \/ Broken(other)
      BY <3>1, SuperTyped DEF DeviceSound, OtherHarmless
    <3>3. other.kind = "super" /\ other.files \notin tried /\ Broken(other) => Broken(other)'
      BY <3>2, <1>11
    <3> QED
      BY <3>1, <3>2, <3>3, <1>5 DEF OtherHarmless, Located
  <2>4. OtherHarmless(view)'
    <3>1. PICK other \in SectorContent : other = view[super_sector(acked.generation + 1)]
      BY <2>2
    <3>2. other.kind = "super" =>
            /\ other \in Superblock /\ Located(other)
            /\ \/ other.generation < acked.generation
               \/ /\ other.generation = acked.generation + 1
                  /\ other.files \in tried \/ Broken(other)
      BY <3>1, SuperTyped DEF DeviceSound, OtherHarmless
    <3>3. other.kind = "super" /\ other.files \notin tried /\ Broken(other) => Broken(other)'
      BY <3>2, <1>11
    <3> QED
      BY <3>1, <3>2, <3>3, <1>5, <1>9 DEF OtherHarmless, Located
  <2> QED
    BY <2>3, <2>4
<1>13. NoneBefore(disk)' /\ NoneBefore(view)'
  BY <1>5, <1>7 DEF DeviceSound, NoneBefore, SUPERBLOCK_A_SECTOR
<1>14. MemoryAgrees'
  BY <1>5 DEF MemoryAgrees, Mounted, WriteRecordSector, fsvars
<1>15. CommitSound'
  <2>1. \A offset \in 0 .. sector_offset' - 1 :
          view'[pending.record_start + offset] = encode_record(pending, offset)
    <3> SUFFICES ASSUME NEW offset \in 0 .. sector_offset' - 1
                 PROVE  view'[pending.record_start + offset] = encode_record(pending, offset)
      OBVIOUS
    <3>1. sector_offset' = sector_offset + 1
      BY DEF WriteRecordSector
    <3>2. offset \in 0 .. pending.record_sectors - 1 /\ pending.record_start + offset \in Sectors
      BY <1>1, <1>2, <3>1, LocatedSectors DEF Superblock
    <3>3. CASE offset = sector_offset
      BY <3>2, <3>3, <1>5 DEF TypeOK
    <3>4. CASE offset # sector_offset
      <4>1. offset \in 0 .. sector_offset - 1
        BY <1>1, <3>1, <3>4 DEF Superblock
      <4>2. view[pending.record_start + offset] = encode_record(pending, offset)
        BY <1>1, <4>1 DEF CommitSound, WriteRecordSector
      <4>3. pending.record_start + offset # at
        BY <1>1, <4>1 DEF Superblock
      <4> QED
        BY <3>2, <4>2, <4>3, <1>5 DEF TypeOK
    <3> QED
      BY <3>3, <3>4
  <2>2. sector_offset' <= pending.record_sectors
    BY <1>1 DEF WriteRecordSector, Superblock
  <2> QED
    BY <2>1, <2>2, <1>1, <1>5 DEF CommitSound, InCommit, WriteRecordSector, Located, encode_record
<1> QED
  BY <1>6, <1>10, <1>12, <1>13, <1>14, <1>15 DEF DeviceSound, WriteRecordSector

\* The first flush makes the new record durable before any superblock names it.
LEMMA FlushRecordIInv ==
  ASSUME IInv, FlushRecord
  PROVE  IInv'
<1> USE DEF IInv
<1>1. TypeOK'
  BY DEF TypeOK, FlushRecord, fsvars, commitvars, history, Phases
<1>2. DeviceSound'
  BY DEF FlushRecord, history, DeviceSound, AckedWhole, OtherHarmless, NoneBefore,
         Located, Broken, read_record
<1>3. MemoryAgrees'
  BY DEF MemoryAgrees, Mounted, FlushRecord, fsvars, history
<1>4. read_record(view, pending)
  BY DEF FlushRecord, CommitSound, InCommit, read_record
<1>5. CommitSound'
  BY <1>4 DEF CommitSound, InCommit, FlushRecord, fsvars, commitvars, history,
              Located, read_record
<1> QED
  BY <1>1, <1>2, <1>3, <1>5 DEF FlushRecord

\* The superblock write replaces the older of the two superblocks.
LEMMA WriteSuperblockIInv ==
  ASSUME IInv, WriteSuperblock
  PROVE  IInv'
<1> USE DEF IInv
<1> DEFINE at == super_sector(pending.generation)
<1>1. /\ InCommit /\ pending \in Superblock /\ acked \in Superblock
      /\ pending.generation = acked.generation + 1 /\ pending.files \in tried
      /\ Located(pending) /\ acked.generation \in Nat
      /\ read_record(disk, pending) /\ read_record(view, pending)
  BY DEF WriteSuperblock, InCommit, CommitSound, TypeOK, Superblock
<1>2. /\ at \in {0, 1} /\ at \in Sectors /\ at # super_sector(acked.generation)
      /\ super_sector(acked.generation) \in {0, 1}
  BY <1>1, SuperSectorAlternates, FsAssumption
<1>3. /\ view' = [view EXCEPT ![at] = pending] /\ disk' = disk /\ capacity' = capacity
      /\ acked' = acked /\ tried' = tried /\ pending' = pending
  BY DEF WriteSuperblock, history, commitvars
<1>4. pending \in SectorContent
  BY <1>1 DEF SectorContent
<1>5. TypeOK'
  BY <1>3, <1>4, <1>2 DEF TypeOK, WriteSuperblock, fsvars, commitvars, Phases
<1>6. \A s \in Sectors : s # at => view'[s] = view[s]
  BY <1>3 DEF TypeOK
<1>7. view'[at] = pending
  BY <1>2, <1>3 DEF TypeOK
<1>8. ASSUME NEW sb \in Superblock, Located(sb) \/ sb.record_sectors = 0
      PROVE  \A offset \in 0 .. sb.record_sectors - 1 :
               view'[sb.record_start + offset] = view[sb.record_start + offset]
  BY <1>8, <1>2, <1>6, LocatedSectors
<1>9. AckedWhole'
  <2>1. Located(acked) \/ acked.record_sectors = 0
    BY AckedLocated DEF DeviceSound
  <2>2. read_record(view, acked)'
    BY <1>1, <1>8, <2>1, <1>3 DEF DeviceSound, AckedWhole, read_record, encode_record
  <2>3. view'[super_sector(acked.generation)] = view[super_sector(acked.generation)]
    BY <1>2, <1>6, FsAssumption
  <2> QED
    BY <2>2, <2>3, <1>3 DEF DeviceSound, AckedWhole, read_record, Located, encode_record
<1>10. ASSUME NEW sb \in Superblock, Located(sb), Broken(sb)
       PROVE  Broken(sb)'
  BY <1>8, <1>10, <1>3 DEF Broken, encode_record
<1>11. OtherHarmless(disk)'
  <2>1. disk[at] \in SectorContent
    BY <1>2 DEF TypeOK
  <2> QED
    BY <2>1, <1>1, <1>3, <1>10, SuperTyped DEF DeviceSound, OtherHarmless, Located
<1>12. OtherHarmless(view)'
  BY <1>1, <1>3, <1>7 DEF OtherHarmless, Located
<1>13. NoneBefore(disk)' /\ NoneBefore(view)'
  <2>1. acked.generation = 0 => view'[0] = view[0]
    BY <1>1, <1>2, <1>6, SuperSectorAlternates, FsAssumption DEF SUPERBLOCK_A_SECTOR
  <2> QED
    BY <2>1, <1>3 DEF DeviceSound, NoneBefore, SUPERBLOCK_A_SECTOR
<1>14. MemoryAgrees'
  BY <1>3 DEF MemoryAgrees, Mounted, WriteSuperblock, fsvars
<1>15. CommitSound'
  <2>1. read_record(view, pending)'
    BY <1>1, <1>3, <1>8 DEF read_record, encode_record
  <2> QED
    BY <2>1, <1>1, <1>3, <1>7 DEF CommitSound, InCommit, WriteSuperblock, Located,
       read_record, encode_record
<1> QED
  BY <1>5, <1>9, <1>11, <1>12, <1>13, <1>14, <1>15 DEF DeviceSound, WriteSuperblock

\* The second flush makes the new superblock durable; only now does the new
\* snapshot become the protected one.
LEMMA FlushSuperblockIInv ==
  ASSUME IInv, FlushSuperblock
  PROVE  IInv'
<1> USE DEF IInv
<1>1. /\ InCommit /\ pending \in Superblock /\ acked \in Superblock
      /\ pending.generation = acked.generation + 1
      /\ Located(pending) /\ acked.generation \in Nat
      /\ read_record(view, pending)
      /\ view[super_sector(pending.generation)] = pending
  BY DEF FlushSuperblock, InCommit, CommitSound, TypeOK, Superblock
<1>2. /\ disk' = view /\ view' = view /\ capacity' = capacity
      /\ acked' = pending /\ tried' = {}
  BY DEF FlushSuperblock
<1>3. NoSnapshot \in Superblock
  BY FsAssumption DEF NoSnapshot, Superblock
<1>4. TypeOK'
  BY <1>1, <1>2, <1>3 DEF TypeOK, FlushSuperblock, Phases, Superblock
<1>5. AckedWhole'
  <2>1. read_record(disk, acked)' /\ read_record(view, acked)'
    BY <1>1, <1>2 DEF read_record, encode_record
  <2> QED
    BY <2>1, <1>1, <1>2 DEF AckedWhole, Located
<1>6. super_sector(pending.generation + 1) = super_sector(acked.generation)
  BY <1>1, SuperSectorAlternates
<1>7. OtherHarmless(view)'
  <2>1. CASE acked.generation = 0
    BY <2>1, <1>1, <1>2, <1>6, SuperSectorAlternates DEF OtherHarmless, DeviceSound, NoneBefore
  <2>2. CASE acked.generation # 0
    <3>1. view[super_sector(acked.generation)] = acked /\ Located(acked)
      BY <2>2, <1>1 DEF DeviceSound, AckedWhole
    <3> QED
      BY <3>1, <1>1, <1>2, <1>6 DEF OtherHarmless, Located
  <2> QED
    BY <2>1, <2>2
<1>8. OtherHarmless(disk)'
  BY <1>7, <1>2 DEF OtherHarmless
<1>9. NoneBefore(disk)' /\ NoneBefore(view)'
  BY <1>1, <1>2 DEF NoneBefore
<1>10. MemoryAgrees'
  BY <1>1, <1>2 DEF MemoryAgrees, Mounted, FlushSuperblock, InCommit
<1>11. CommitSound'
  BY DEF CommitSound, InCommit, FlushSuperblock
<1> QED
  BY <1>4, <1>5, <1>7, <1>8, <1>9, <1>10, <1>11 DEF DeviceSound, FlushSuperblock

\* Dropping the filesystem value leaves only the device to argue about.
LEMMA DropIInv ==
  ASSUME IInv, NEW where \in {"down", "halted"}, Drop(where),
         disk' \in [Sectors -> SectorContent], view' \in [Sectors -> SectorContent],
         capacity' = capacity, UNCHANGED history,
         DeviceSound', where = "down" => view' = disk'
  PROVE  IInv'
<1> USE DEF IInv
<1>1. NoSnapshot \in Superblock
  BY FsAssumption DEF NoSnapshot, Superblock
<1>2. TypeOK'
  BY <1>1, FsAssumption DEF TypeOK, Drop, Phases, history
<1>3. MemoryAgrees' /\ CommitSound'
  BY DEF Drop, MemoryAgrees, CommitSound, InCommit, Mounted
<1> QED
  BY <1>2, <1>3 DEF Drop

\* An I/O error in a commit: memory keeps the protected snapshot, the device
\* keeps whatever the commit wrote.
LEMMA CommitErrorIInv ==
  ASSUME IInv, CommitError
  PROVE  IInv'
<1> USE DEF IInv
<1>1. DeviceSound'
  BY DeviceFrame DEF CommitError, history
<1>2. CASE Drop("halted")
  BY <1>1, <1>2, DropIInv DEF CommitError, devvars, TypeOK
<1>3. CASE /\ generation # 0 /\ pc' = "idle" /\ pending' = NoSnapshot
           /\ sector_offset' = 0 /\ UNCHANGED fsvars
  <2>1. NoSnapshot \in Superblock
    BY FsAssumption DEF NoSnapshot, Superblock
  <2>2. TypeOK'
    BY <1>3, <2>1 DEF TypeOK, CommitError, devvars, fsvars, history, Phases
  <2>3. MemoryAgrees'
    BY <1>3 DEF MemoryAgrees, Mounted, CommitError, InCommit, fsvars, devvars, history, TypeOK
  <2>4. CommitSound'
    BY <1>3 DEF CommitSound, InCommit
  <2> QED
    BY <1>1, <1>3, <2>2, <2>3, <2>4
<1> QED
  BY <1>2, <1>3 DEF CommitError

\* A refused mount writes nothing.
LEMMA MountRefusedIInv ==
  ASSUME IInv, MountRefused
  PROVE  IInv'
<1>1. DeviceSound'
  BY DeviceFrame DEF MountRefused, history, IInv
<1> QED
  BY <1>1, DropIInv DEF MountRefused, devvars, IInv, TypeOK

\* Neither does a mount that fails before it has read both superblocks.
LEMMA MountFailsIInv ==
  ASSUME IInv, MountFails
  PROVE  IInv'
<1>1. DeviceSound'
  BY DeviceFrame DEF MountFails, history, IInv
<1> QED
  BY <1>1, DropIInv DEF MountFails, devvars, IInv, TypeOK

\* unmount makes medium and cache equal, or gives the device up.
LEMMA UnmountIInv ==
  ASSUME IInv, Unmount
  PROVE  IInv'
<1>1. CASE disk' = view /\ Drop("down")
  <2>1. DeviceSound'
    BY <1>1 DEF Unmount, IInv, history, DeviceSound, AckedWhole, OtherHarmless, NoneBefore,
         Located, Broken, read_record
  <2> QED
    BY <1>1, <2>1, DropIInv DEF Unmount, IInv, TypeOK
<1>2. CASE disk' = disk /\ Drop("halted")
  <2>1. DeviceSound'
    BY <1>2, DeviceFrame DEF Unmount, IInv, history, devvars
  <2> QED
    BY <1>2, <2>1, DropIInv DEF Unmount, IInv, TypeOK
<1> QED
  BY <1>1, <1>2 DEF Unmount

\* Losing power may tear sectors the medium and the cache disagree on: never
\* one of the protected snapshot.
LEMMA PowerLossIInv ==
  ASSUME IInv, PowerLoss
  PROVE  IInv'
<1> USE DEF IInv
<1>1. PICK torn \in SUBSET {s \in Sectors : disk[s] # view[s]} :
        disk' = [s \in Sectors |-> IF s \in torn THEN Torn ELSE disk[s]]
  BY DEF PowerLoss
<1>2. view' = disk' /\ capacity' = capacity /\ acked' = acked /\ tried' = tried
  BY DEF PowerLoss, history
<1>3. disk' \in [Sectors -> SectorContent]
  BY <1>1 DEF TypeOK, SectorContent
<1>4. \A s \in Sectors : disk'[s] = disk[s] \/ (disk'[s] = Torn /\ disk[s] # view[s])
  BY <1>1
<1>5. /\ acked \in Superblock /\ acked.generation \in Nat
      /\ super_sector(acked.generation) \in Sectors
      /\ super_sector(acked.generation + 1) \in Sectors
  BY SuperSectorAlternates, FsAssumption DEF TypeOK, Superblock
<1>6. AckedWhole'
  <2>1. acked.generation > 0 => disk'[super_sector(acked.generation)] = acked
    BY <1>4, <1>5 DEF DeviceSound, AckedWhole
  <2>2. read_record(disk, acked)'
    <3>1. Located(acked) \/ acked.record_sectors = 0
      BY AckedLocated DEF DeviceSound
    <3>2. \A offset \in 0 .. acked.record_sectors - 1 :
            disk'[acked.record_start + offset] = disk[acked.record_start + offset]
      <4> TAKE offset \in 0 .. acked.record_sectors - 1
      <4>1. acked.record_start + offset \in Sectors
        BY <3>1, <1>5, LocatedSectors DEF Superblock
      <4>2. disk[acked.record_start + offset] = view[acked.record_start + offset]
        BY DEF DeviceSound, AckedWhole, read_record
      <4> QED
        BY <4>1, <4>2, <1>4
    <3> QED
      BY <3>2, <1>2 DEF DeviceSound, AckedWhole, read_record, encode_record
  <2> QED
    BY <2>1, <2>2, <1>2 DEF DeviceSound, AckedWhole, read_record, Located, encode_record
<1>7. ASSUME NEW sb \in Superblock, Located(sb), Broken(sb)
      PROVE  Broken(sb)'
  <2>1. PICK offset \in 0 .. sb.record_sectors - 1 :
          disk[sb.record_start + offset] # encode_record(sb, offset)
    BY <1>7 DEF Broken
  <2>2. disk'[sb.record_start + offset] # encode_record(sb, offset)
    BY <2>1, <1>4, <1>7, LocatedSectors, EncodeTyped
  <2> QED
    BY <2>2, <1>2 DEF Broken, encode_record
<1>8. OtherHarmless(disk)'
  <2>1. PICK other \in SectorContent : other = disk[super_sector(acked.generation + 1)]
    BY <1>5 DEF TypeOK
  <2>2. other.kind = "super" =>
          /\ other \in Superblock /\ Located(other)
          /\ \/ other.generation < acked.generation
             \/ /\ other.generation = acked.generation + 1
                /\ other.files \in tried \/ Broken(other)
    BY <2>1, SuperTyped DEF DeviceSound, OtherHarmless
  <2>3. other.kind = "super" /\ Broken(other) => Broken(other)'
    BY <2>2, <1>7
  <2>4. disk'[super_sector(acked.generation + 1)] \in {other, Torn}
    BY <2>1, <1>4, <1>5
  <2> QED
    BY <2>2, <2>3, <2>4, <1>2 DEF OtherHarmless, Located, Torn
<1>9. OtherHarmless(view)'
  BY <1>2, <1>8 DEF OtherHarmless
<1>10. NoneBefore(disk)' /\ NoneBefore(view)'
  <2>1. SUPERBLOCK_A_SECTOR \in Sectors
    BY FsAssumption DEF SUPERBLOCK_A_SECTOR
  <2>2. disk'[SUPERBLOCK_A_SECTOR] \in {disk[SUPERBLOCK_A_SECTOR], Torn}
    BY <2>1, <1>4
  <2>3. Torn.kind # "super"
    BY DEF Torn
  <2> QED
    BY <2>2, <2>3, <1>2 DEF DeviceSound, NoneBefore
<1>11. DeviceSound'
  BY <1>6, <1>8, <1>9, <1>10 DEF DeviceSound
<1> QED
  BY <1>2, <1>3, <1>11, DropIInv DEF PowerLoss

\* The cache may move any sector to the medium at any time.
LEMMA DestageIInv ==
  ASSUME IInv, NEW s \in Sectors, Destage(s)
  PROVE  IInv'
<1> USE DEF IInv
<1>1. /\ disk' = [disk EXCEPT ![s] = view[s]] /\ view' = view /\ capacity' = capacity
      /\ acked' = acked /\ tried' = tried /\ pending' = pending /\ pc' = pc
      /\ sector_offset' = sector_offset /\ UNCHANGED fsvars
  BY DEF Destage, history, commitvars
<1>2. TypeOK'
  BY <1>1 DEF TypeOK, fsvars
<1>3. \A t \in Sectors : disk'[t] = disk[t] \/ disk'[t] = view[t]
  BY <1>1 DEF TypeOK
<1>4. /\ acked \in Superblock /\ pending \in Superblock /\ acked.generation \in Nat
      /\ super_sector(acked.generation) \in Sectors
      /\ super_sector(acked.generation + 1) \in Sectors
  BY SuperSectorAlternates, FsAssumption DEF TypeOK, Superblock
<1>5. ASSUME NEW sb \in Superblock, Located(sb) \/ sb.record_sectors = 0,
             read_record(disk, sb), read_record(view, sb)
      PROVE  read_record(disk', sb)
  <2>1. SUFFICES ASSUME NEW offset \in 0 .. sb.record_sectors - 1
                 PROVE  disk'[sb.record_start + offset] = encode_record(sb, offset)
    BY DEF read_record
  <2>2. sb.record_start + offset \in Sectors
    BY <1>5, LocatedSectors DEF Superblock
  <2> QED
    BY <2>2, <1>3, <1>5 DEF read_record
<1>6. AckedWhole'
  <2>1. Located(acked) \/ acked.record_sectors = 0
    BY AckedLocated DEF DeviceSound
  <2>2. read_record(disk', acked)
    BY <2>1, <1>4, <1>5 DEF DeviceSound, AckedWhole
  <2> QED
    <3>1. acked.generation > 0 => disk'[super_sector(acked.generation)] = acked
      BY <1>3, <1>4 DEF DeviceSound, AckedWhole
    <3>2. read_record(disk, acked)' /\ read_record(view, acked)'
      BY <2>2, <1>1 DEF DeviceSound, AckedWhole, read_record, encode_record
    <3> QED
      BY <3>1, <3>2, <1>1 DEF DeviceSound, AckedWhole, Located
<1>7. ASSUME NEW sb \in Superblock, Located(sb), Broken(sb)
      PROVE  Broken(sb)'
  BY <1>1, <1>3, <1>7, LocatedSectors DEF Broken, encode_record
<1>8. OtherHarmless(disk)' /\ OtherHarmless(view)'
  <2> DEFINE Harmless(sb) ==
        sb.kind = "super" =>
          /\ sb \in Superblock /\ Located(sb)
          /\ \/ sb.generation < acked.generation
             \/ /\ sb.generation = acked.generation + 1
                /\ sb.files \in tried \/ Broken(sb)'
  <2>1. PICK other \in SectorContent : other = disk[super_sector(acked.generation + 1)]
    BY <1>4 DEF TypeOK
  <2>2. PICK cached \in SectorContent : cached = view[super_sector(acked.generation + 1)]
    BY <1>4 DEF TypeOK
  <2>3. Harmless(other)
    BY <2>1, <1>7, SuperTyped DEF DeviceSound, OtherHarmless
  <2>4. Harmless(cached)
    BY <2>2, <1>7, SuperTyped DEF DeviceSound, OtherHarmless
  <2>5. disk'[super_sector(acked.generation + 1)] \in {other, cached}
    BY <2>1, <2>2, <1>3, <1>4
  <2>6. OtherHarmless(disk)'
    <3>0. acked' = acked /\ tried' = tried /\ capacity' = capacity
      BY <1>1
    <3>1. CASE disk'[super_sector(acked.generation + 1)] = other
      BY <2>3, <3>0, <3>1, Zenon DEF OtherHarmless, Located
    <3>2. CASE disk'[super_sector(acked.generation + 1)] = cached
      BY <2>4, <3>0, <3>2, Zenon DEF OtherHarmless, Located
    <3> QED
      BY <2>5, <3>1, <3>2
  <2>7. OtherHarmless(view)'
    BY <2>2, <2>4, <1>1, Zenon DEF OtherHarmless, Located
  <2> QED
    BY <2>6, <2>7
<1>9. NoneBefore(disk)' /\ NoneBefore(view)'
  <2>1. SUPERBLOCK_A_SECTOR \in Sectors
    BY FsAssumption DEF SUPERBLOCK_A_SECTOR
  <2> QED
    BY <2>1, <1>1, <1>3 DEF DeviceSound, NoneBefore
<1>10. MemoryAgrees'
  BY <1>1 DEF MemoryAgrees, Mounted, fsvars
<1>11. CommitSound'
  <2>1. InCommit /\ pc # "record" => read_record(disk', pending)
    BY <1>4, <1>5 DEF CommitSound
  <2> QED
    BY <2>1, <1>1 DEF CommitSound, InCommit, Located, read_record, encode_record
<1>12. pc # "down"
  BY DEF Destage
<1> QED
  BY <1>1, <1>2, <1>6, <1>8, <1>9, <1>10, <1>11, <1>12 DEF DeviceSound

\* Only two superblocks can be chosen from: the protected one and the other.
LEMMA CandidateSectors ==
  ASSUME IInv, NEW d \in {disk, view}, NEW sb \in candidates(d)
  PROVE  /\ sb \in Superblock
         /\ decode_superblock(sb)
         /\ read_record(d, sb)
         /\ \/ sb = acked /\ acked.generation > 0
            \/ sb = d[super_sector(acked.generation + 1)]
<1>1. acked \in Superblock /\ acked.generation \in Nat
  BY DEF IInv, TypeOK, Superblock
<1>2. /\ d \in [Sectors -> SectorContent]
      /\ {SUPERBLOCK_A_SECTOR, SUPERBLOCK_B_SECTOR} \subseteq Sectors
  BY FsAssumption DEF IInv, TypeOK, SUPERBLOCK_A_SECTOR, SUPERBLOCK_B_SECTOR
<1>3. /\ sb \in {d[SUPERBLOCK_A_SECTOR], d[SUPERBLOCK_B_SECTOR]}
      /\ decode_superblock(sb) /\ read_record(d, sb)
  BY DEF candidates
<1>4. sb \in Superblock
  BY <1>2, <1>3, SuperTyped DEF decode_superblock
<1>5. acked.generation > 0 => d[super_sector(acked.generation)] = acked
  BY DEF IInv, DeviceSound, AckedWhole
<1>6. acked.generation = 0 => d[SUPERBLOCK_A_SECTOR] # sb
  BY <1>3 DEF IInv, DeviceSound, NoneBefore, decode_superblock
<1>7. {super_sector(acked.generation), super_sector(acked.generation + 1)}
        = {SUPERBLOCK_A_SECTOR, SUPERBLOCK_B_SECTOR}
  BY <1>1 DEF super_sector
<1>8. acked.generation = 0 => super_sector(acked.generation) = SUPERBLOCK_A_SECTOR
  BY SuperSectorAlternates
<1>9. \/ sb = d[super_sector(acked.generation)]
      \/ sb = d[super_sector(acked.generation + 1)]
  BY <1>3, <1>7
<1> QED
  BY <1>1, <1>3, <1>4, <1>5, <1>6, <1>8, <1>9

\* The protected snapshot itself passes every check of load_latest_snapshot.
LEMMA AckedIsCandidate ==
  ASSUME IInv, NEW d \in {disk, view}, acked.generation > 0
  PROVE  acked \in candidates(d)
<1>1. acked.generation \in Nat /\ acked \in Superblock
  BY DEF IInv, TypeOK, Superblock
<1>2. decode_superblock(acked)
  <2>1. Located(acked)
    BY DEF IInv, DeviceSound, AckedWhole
  <2> QED
    BY <1>1, <2>1 DEF Located, decode_superblock, Superblock
<1>3. d[super_sector(acked.generation)] = acked /\ read_record(d, acked)
  BY DEF IInv, DeviceSound, AckedWhole
<1> QED
  BY <1>1, <1>2, <1>3 DEF candidates, super_sector

\* What load_latest_snapshot returns is the protected snapshot, or the next
\* generation, whose commit has begun.
LEMMA LatestIs ==
  ASSUME IInv, NEW d \in {disk, view}, NEW sb, load_latest_snapshot(d, sb)
  PROVE  /\ sb \in Superblock /\ Located(sb) /\ read_record(d, sb)
         /\ \/ sb = acked /\ acked.generation > 0
            \/ /\ sb = d[super_sector(acked.generation + 1)]
               /\ sb.generation = acked.generation + 1
               /\ sb.files \in tried
<1>1. sb \in candidates(d) /\ \A other \in candidates(d) : other.generation <= sb.generation
  BY DEF load_latest_snapshot
<1>2. /\ sb \in Superblock /\ decode_superblock(sb) /\ read_record(d, sb)
      /\ \/ sb = acked /\ acked.generation > 0
         \/ sb = d[super_sector(acked.generation + 1)]
  BY <1>1, CandidateSectors
<1>3. Located(sb)
  BY <1>2 DEF decode_superblock, Located, Superblock
<1>4. acked.generation \in Nat /\ sb.generation \in Nat /\ sb.generation # 0
  BY <1>2 DEF IInv, TypeOK, Superblock, decode_superblock
<1>5. acked.generation > 0 => acked.generation <= sb.generation
  BY <1>1, AckedIsCandidate
<1>6. CASE sb = d[super_sector(acked.generation + 1)]
  <2>1. \/ sb.generation < acked.generation
        \/ sb.generation = acked.generation + 1 /\ (sb.files \in tried \/ Broken(sb))
    BY <1>2, <1>6 DEF IInv, DeviceSound, OtherHarmless, decode_superblock
  <2>2. ~Broken(sb)
    BY <1>2 DEF Broken, read_record
  <2> QED
    <3>1. ~(sb.generation < acked.generation)
      BY <1>4, <1>5
    <3>2. sb.generation = acked.generation + 1 /\ sb.files \in tried
      BY <2>1, <2>2, <3>1
    <3> QED
      BY <3>2, <1>2, <1>3, <1>6
<1> QED
  BY <1>2, <1>3, <1>6

\* A mount protects what it found: the device is untouched and agrees with it
\* because a mount follows a power loss or a flush.
LEMMA MountExistingIInv ==
  ASSUME IInv, MountExisting
  PROVE  IInv'
<1>1. PICK sb \in candidates(view) :
        /\ load_latest_snapshot(view, sb)
        /\ generation' = sb.generation /\ files' = sb.files
        /\ active_record_start' = sb.record_start
        /\ active_record_sectors' = sb.record_sectors
        /\ acked' = sb
  BY DEF MountExisting
<1>2. /\ pc = "down" /\ pc' = "idle" /\ tried' = {} /\ view = disk
      /\ disk' = disk /\ view' = view /\ capacity' = capacity
      /\ pending' = pending /\ sector_offset' = sector_offset
      /\ device_large_enough(capacity)
  BY DEF MountExisting, devvars, commitvars, IInv
<1>3. /\ sb \in Superblock /\ Located(sb) /\ read_record(view, sb)
      /\ \/ sb = acked /\ acked.generation > 0
         \/ /\ sb = view[super_sector(acked.generation + 1)]
            /\ sb.generation = acked.generation + 1
            /\ sb.files \in tried
  BY <1>1, LatestIs
<1>4. /\ acked \in Superblock /\ acked.generation \in Nat
      /\ sb.generation \in Nat /\ sb.generation > 0
  BY <1>3 DEF IInv, TypeOK, Superblock, Located
<1>5. TypeOK'
  BY <1>1, <1>2, <1>3 DEF IInv, TypeOK, Phases, Superblock
<1>6. view[super_sector(sb.generation)] = sb
  BY <1>3, <1>4 DEF IInv, DeviceSound, AckedWhole
<1>7. AckedWhole'
  <2>1. read_record(disk, acked)' /\ read_record(view, acked)'
    BY <1>1, <1>2, <1>3 DEF read_record, encode_record
  <2> QED
    <3>1. Located(sb)'
      BY <1>2, <1>3 DEF Located
    <3>2. acked'.generation # 0
      BY <1>1, <1>4
    <3>3. /\ disk'[super_sector(acked'.generation)] = acked'
          /\ view'[super_sector(acked'.generation)] = acked'
      BY <1>1, <1>2, <1>6
    <3>4. Located(acked)'
      BY <3>1, <1>1 DEF Located
    <3> QED
      BY <2>1, <3>2, <3>3, <3>4 DEF AckedWhole
<1>8. OtherHarmless(view)'
  <2> DEFINE other == view[super_sector(sb.generation + 1)]
  <2>1. SUFFICES ASSUME other.kind = "super"
                 PROVE  /\ Located(other)
                        /\ \/ other.generation < sb.generation
                           \/ other.generation = sb.generation + 1 /\ Broken(other)
    BY <1>1, <1>2 DEF OtherHarmless, Located, Broken, encode_record
  <2>2. CASE sb = acked
    <3>1. /\ Located(other)
          /\ \/ other.generation < acked.generation
             \/ other.generation = acked.generation + 1
      BY <2>1, <2>2 DEF IInv, DeviceSound, OtherHarmless
    <3>2. CASE other.generation = acked.generation + 1
      <4>1. other \in Superblock
        <5>1. super_sector(sb.generation + 1) \in Sectors
          BY <1>4, FsAssumption, SuperSectorAlternates
        <5> QED
          BY <2>1, <5>1, SuperTyped DEF IInv, TypeOK
      <4>2. decode_superblock(other)
        BY <3>1, <4>1, LocatedSectors DEF IInv
      <4>3. other \notin candidates(view)
        BY <1>1, <1>4, <2>2, <3>2 DEF load_latest_snapshot
      <4>4. ~read_record(view, other)
        BY <4>2, <4>3 DEF candidates, super_sector
      <4> QED
        BY <4>4, <3>1, <3>2, <2>2, <1>2 DEF read_record, Broken
    <3> QED
      BY <3>1, <3>2, <2>2
  <2>3. CASE sb.generation = acked.generation + 1
    <3>1. super_sector(sb.generation + 1) = super_sector(acked.generation)
      BY <2>3, <1>4, SuperSectorAlternates
    <3>2. acked.generation # 0
      BY <2>1, <3>1, SuperSectorAlternates DEF IInv, DeviceSound, NoneBefore
    <3>3. other = acked /\ Located(acked)
      <4>1. acked.generation > 0
        BY <3>2, <1>4
      <4>2. view[super_sector(acked.generation)] = acked /\ Located(acked)
        BY <4>1 DEF IInv, DeviceSound, AckedWhole
      <4> QED
        BY <4>2, <3>1
    <3>4. acked.generation < sb.generation
      BY <2>3, <1>4
    <3> QED
      BY <3>3, <3>4
  <2> QED
    BY <2>2, <2>3, <1>3
<1>9. OtherHarmless(disk)'
  BY <1>8, <1>2 DEF OtherHarmless
<1>10. NoneBefore(disk)' /\ NoneBefore(view)'
  BY <1>1, <1>4 DEF NoneBefore
<1>11. MemoryAgrees' /\ CommitSound'
  BY <1>1, <1>2, <1>4 DEF MemoryAgrees, CommitSound, InCommit, Mounted
<1> QED
  BY <1>2, <1>5, <1>7, <1>8, <1>9, <1>10, <1>11 DEF IInv, DeviceSound

\* A successful reread finds the protected snapshot again.
LEMMA VerifyIInv ==
  ASSUME IInv, VerifyCommittedState
  PROVE  IInv'
<1>1. PICK sb \in candidates(view) :
        /\ load_latest_snapshot(view, sb) /\ sb.generation = generation
        /\ active_record_start' = sb.record_start
        /\ active_record_sectors' = sb.record_sectors
  BY DEF VerifyCommittedState
<1>2. sb = acked
  <2>1. generation = acked.generation /\ acked.generation \in Nat
    BY DEF IInv, MemoryAgrees, Mounted, VerifyCommittedState, TypeOK, Superblock
  <2> QED
    BY <1>1, <2>1, LatestIs
<1>3. UNCHANGED vars
  BY <1>1, <1>2 DEF IInv, MemoryAgrees, Mounted, VerifyCommittedState, vars, fsvars
<1> QED
  BY <1>3, StutterIInv

\* More sectors only move the end of the device.
LEMMA GrowDeviceIInv ==
  ASSUME IInv, GrowDevice
  PROVE  IInv'
<1> USE DEF IInv
<1>1. /\ capacity' \in Capacities /\ capacity' > capacity /\ pc = "down" /\ pc' = pc
      /\ disk' = disk /\ view' = view /\ acked' = acked /\ tried' = tried
      /\ pending' = pending /\ sector_offset' = sector_offset /\ UNCHANGED fsvars
  BY DEF GrowDevice, history, commitvars
<1>2. capacity \in Nat /\ capacity' \in Nat
  BY <1>1, FsAssumption DEF TypeOK
<1>3. \A sb \in Superblock : Located(sb) => Located(sb)'
  BY <1>1, <1>2 DEF Located, Superblock
<1>4. \A sb \in Superblock : Broken(sb) => Broken(sb)'
  BY <1>1 DEF Broken, encode_record
<1>5. TypeOK'
  BY <1>1 DEF TypeOK, fsvars
<1>6. AckedWhole'
  BY <1>1, <1>3 DEF DeviceSound, AckedWhole, TypeOK, read_record, encode_record
<1>7. super_sector(acked.generation + 1) \in Sectors
  BY SuperSectorAlternates, FsAssumption DEF TypeOK, Superblock
<1>8. OtherHarmless(disk)' /\ OtherHarmless(view)'
  BY <1>1, <1>3, <1>4, <1>7, SuperTyped DEF DeviceSound, OtherHarmless, TypeOK
<1>9. NoneBefore(disk)' /\ NoneBefore(view)'
  BY <1>1 DEF DeviceSound, NoneBefore
<1>10. MemoryAgrees' /\ CommitSound'
  BY <1>1 DEF MemoryAgrees, CommitSound, InCommit, Mounted, fsvars
<1> QED
  BY <1>1, <1>5, <1>6, <1>8, <1>9, <1>10 DEF DeviceSound

-----------------------------------------------------------------------------
\* Every step of CodexFS and of its device preserves the invariant.
LEMMA NextIInv == IInv /\ [Next]_vars => IInv'
<1> SUFFICES ASSUME IInv, [Next]_vars PROVE IInv'
  OBVIOUS
<1>1. CASE UNCHANGED vars
  BY <1>1, StutterIInv
<1>2. CASE Next
  BY <1>2, BeginCommitIInv, WriteRecordSectorIInv, FlushRecordIInv, WriteSuperblockIInv,
     FlushSuperblockIInv, CommitErrorIInv, MountExistingIInv, MountFormatIInv,
     MountRefusedIInv, MountFailsIInv, VerifyIInv, UnmountIInv, DestageIInv, PowerLossIInv, GrowDeviceIInv
     DEF Next
<1> QED
  BY <1>1, <1>2

\* The inductive invariant holds of every behaviour, for every device, slot
\* layout, set of trees and record sizes.
THEOREM InvariantHolds == Spec => []IInv
  BY InitIInv, NextIInv, PTL DEF Spec

\* Every variable keeps its type.
THEOREM TypeCorrect == Spec => []TypeOK
<1>1. IInv => TypeOK
  BY DEF IInv
<1> QED
  BY <1>1, InvariantHolds, PTL

\* A mount after a power loss at any moment finds the acknowledged snapshot or
\* the one being committed over it (commit_files, load_latest_snapshot).
THEOREM AlwaysRecoverable == Spec => []Recoverable
<1>1. IInv => Recoverable
  <2> SUFFICES ASSUME IInv, acked.generation > 0
               PROVE  \E sb \in candidates(disk) :
                        /\ load_latest_snapshot(disk, sb)
                        /\ \/ sb = acked
                           \/ sb.generation = acked.generation + 1 /\ sb.files \in tried
    BY DEF Recoverable
  <2> DEFINE other == disk[super_sector(acked.generation + 1)]
  <2>1. acked \in candidates(disk) /\ acked.generation \in Nat
    BY AckedIsCandidate DEF IInv, TypeOK, Superblock
  <2>2. \A sb \in candidates(disk) : sb = acked \/ sb = other
    BY CandidateSectors
  <2>3. \A sb \in candidates(disk) : sb.generation \in Nat
    BY CandidateSectors DEF Superblock
  <2>4. PICK sb \in candidates(disk) : load_latest_snapshot(disk, sb)
    <3>1. CASE other \in candidates(disk) /\ other.generation > acked.generation
      BY <2>1, <2>2, <2>3, <3>1 DEF load_latest_snapshot
    <3>2. CASE ~(other \in candidates(disk) /\ other.generation > acked.generation)
      BY <2>1, <2>2, <2>3, <3>2 DEF load_latest_snapshot
    <3> QED
      BY <3>1, <3>2
  <2> QED
    BY <2>4, LatestIs
<1> QED
  BY <1>1, InvariantHolds, PTL

\* verify_committed_state finds the committed generation and tree again on
\* every mounted filesystem with no failed commit behind it.
THEOREM AlwaysVerifies == Spec => []VerifyAccepts
<1>1. IInv => VerifyAccepts
  <2> SUFFICES ASSUME IInv, pc = "idle", tried = {}
               PROVE  \E sb \in candidates(view) :
                        /\ load_latest_snapshot(view, sb)
                        /\ sb.generation = generation
                        /\ sb.files = files
    BY DEF VerifyAccepts
  <2> DEFINE other == view[super_sector(acked.generation + 1)]
  <2>1. /\ generation = acked.generation /\ files = acked.files
        /\ acked.generation \in Nat /\ acked.generation > 0
    BY DEF IInv, MemoryAgrees, Mounted, TypeOK, Superblock
  <2>2. acked \in candidates(view)
    BY <2>1, AckedIsCandidate
  <2>3. ASSUME NEW sb \in candidates(view)
        PROVE  sb.generation <= acked.generation
    <3>1. /\ sb \in Superblock /\ decode_superblock(sb) /\ read_record(view, sb)
          /\ sb = acked \/ sb = other
      BY <2>3, CandidateSectors
    <3>2. ~Broken(sb)
      BY <3>1 DEF Broken, read_record
    <3>3. sb = other =>
            \/ sb.generation < acked.generation
            \/ sb.files \in tried \/ Broken(sb)
      BY <3>1 DEF IInv, DeviceSound, OtherHarmless, decode_superblock
    <3>4. sb.generation \in Nat
      BY <3>1 DEF Superblock
    <3> QED
      BY <2>1, <3>1, <3>2, <3>3, <3>4
  <2> QED
    BY <2>1, <2>2, <2>3 DEF load_latest_snapshot
<1> QED
  BY <1>1, InvariantHolds, PTL

\* The commit and recovery protocol implements the store of whole snapshots:
\* a begun commit is Begin, the second flush Acknowledge, a mount Recover,
\* and everything the device does in between is invisible.
THEOREM ImplementsStore == Spec => Durable
<1>1. Init => Store!Init
  BY SMTT(30) DEF Init, Store!Init, NoSnapshot
<1>2. IInv /\ IInv' /\ [Next]_vars => [Store!Next]_Store!svars
  <2> SUFFICES ASSUME IInv, IInv', [Next]_vars
               PROVE  Store!Next \/ UNCHANGED Store!svars
    OBVIOUS
  <2> USE DEF Store!Next, Store!svars
  <2>1. ASSUME NEW c \in Contents, BeginCommit(c) PROVE Store!Begin(c)
    BY <2>1 DEF BeginCommit, StartCommit, Store!Begin, fsvars
  <2>2. CASE MountFormat
    <3>1. Store!Begin(Empty)
      BY <2>2 DEF MountFormat, StartCommit, Store!Begin, fsvars
    <3> QED
      BY <3>1, FsAssumption
  <2>3. CASE FlushSuperblock
    <3>1. /\ pending.files \in Contents /\ pending.files \in tried
          /\ pending.generation > 0
      <4>1. pending \in Superblock /\ acked.generation \in Nat
        BY DEF IInv, TypeOK, Superblock
      <4>2. pending.files \in tried /\ pending.generation = acked.generation + 1
        BY <2>3 DEF FlushSuperblock, IInv, CommitSound, InCommit
      <4> QED
        BY <4>1, <4>2 DEF Superblock
    <3>2. Store!Acknowledge(pending.files)
      BY <2>3, <3>1 DEF FlushSuperblock, Store!Acknowledge
    <3> QED
      BY <3>1, <3>2
  <2>4. CASE MountExisting
    <3>1. PICK sb \in candidates(view) :
            /\ load_latest_snapshot(view, sb)
            /\ generation' = sb.generation /\ files' = sb.files /\ acked' = sb
      BY <2>4 DEF MountExisting
    <3>2. /\ sb \in Superblock /\ sb.generation > 0
          /\ sb.files \in tried \cup {acked.files}
      <4>1. sb \in Superblock /\ Located(sb) /\ (sb = acked \/ sb.files \in tried)
        BY <3>1, LatestIs
      <4> QED
        BY <4>1 DEF Located, Superblock
    <3>3. generation = 0 /\ tried' = {}
      BY <2>4 DEF MountExisting, IInv, MemoryAgrees, Mounted
    <3>4. Store!Recover(sb.files)
      BY <3>1, <3>2, <3>3 DEF Store!Recover
    <3> QED
      BY <3>2, <3>4 DEF Superblock
  <2>5. ASSUME NEW where, Drop(where), UNCHANGED history PROVE Store!Leave
    BY <2>5 DEF Drop, history, Store!Leave
  <2>6. CASE PowerLoss \/ Unmount \/ MountRefused \/ MountFails
    BY <2>5, <2>6 DEF PowerLoss, Unmount, MountRefused, MountFails
  <2>7. CASE CommitError
    BY <2>5, <2>7 DEF CommitError, fsvars, history
  <2>8. CASE WriteRecordSector \/ FlushRecord \/ WriteSuperblock \/ GrowDevice
             \/ VerifyCommittedState \/ (\E s \in Sectors : Destage(s)) \/ UNCHANGED vars
    BY <2>8 DEF WriteRecordSector, FlushRecord, WriteSuperblock, GrowDevice,
         VerifyCommittedState, Destage, fsvars, history, vars
  <2> QED
    BY <2>1, <2>2, <2>3, <2>4, <2>6, <2>7, <2>8 DEF Next
<1> QED
  BY <1>1, <1>2, InvariantHolds, PTL DEF Spec, Durable, Store!Spec
=============================================================================
