-------------------------- MODULE CodexFsRoomProofs --------------------------
(***************************************************************************)
(* A mounted CodexFS always has room for the next commit, for every device *)
(* size, however the device has grown, and for every record size.          *)
(***************************************************************************)
EXTENDS CodexFsProofs, WellFoundedInduction

\* The remainder of a number written as quotient and remainder.
LEMMA Remainder ==
  ASSUME NEW M \in Nat, M > 0, NEW q \in Int, NEW a \in 0 .. M - 1
  PROVE  (M * q + a) % M = a
<1>1. PICK x \in Int : x = M * q + a
  OBVIOUS
<1>2. PICK k \in Int, r \in Int : x = M * k + r /\ r = x % M /\ 0 <= r /\ r < M
  <2>1. PICK k \in Int : k = x \div M
    OBVIOUS
  <2>2. PICK r \in Int : r = x % M
    OBVIOUS
  <2>3. x = M * k + r /\ 0 <= r /\ r < M
    BY <2>1, <2>2
  <2> QED
    BY <2>2, <2>3
<1>3. PICK d \in Int : d = q - k
  OBVIOUS
<1>4. M * d = r - a
  BY <1>1, <1>2, <1>3
<1>5. ~(d >= 1)
  <2>1. d >= 1 => M * d >= M
    OBVIOUS
  <2> QED
    BY <1>2, <1>4, <2>1
<1>6. ~(d <= -1)
  <2>1. d <= -1 => M * d <= -M
    OBVIOUS
  <2> QED
    BY <1>2, <1>4, <2>1
<1>7. d = 0
  BY <1>5, <1>6
<1>8. r = a
  BY <1>2, <1>4, <1>7
<1> QED
  BY <1>1, <1>2, <1>8

\* The attempts of select_record_start visit every slot.
LEMMA AttemptFor ==
  ASSUME NEW count \in Nat, count > 0, NEW gen \in Nat, NEW slot \in 0 .. count - 1
  PROVE  \E attempt \in 0 .. count - 1 : (gen + attempt) % count = slot
<1>1. PICK q \in Int : q = (slot - gen) \div count
  OBVIOUS
<1>2. PICK r \in Int : r = (slot - gen) % count
  OBVIOUS
<1>3. r \in 0 .. count - 1 /\ slot - gen = count * q + r
  BY <1>1, <1>2
<1>4. PICK j \in Int : j = -q
  OBVIOUS
<1>5. gen + r = count * j + slot
  <2>1. PICK k \in Int : k = count * q
    OBVIOUS
  <2>2. count * j = -k
    BY <1>4, <2>1
  <2> QED
    BY <1>3, <2>1, <2>2
<1>6. (count * j + slot) % count = slot
  BY Remainder, Zenon
<1> QED
  BY <1>3, <1>5, <1>6, Zenon

\* The slots of a device that is large enough: at least two, each with room
\* for a smallest record.
LEMMA Slots ==
  ASSUME NEW sc \in Nat, device_large_enough(sc)
  PROVE  /\ record_slot_span(sc) \in Nat /\ record_slot_span(sc) >= RECORD_SECTORS
         /\ record_slot_count(sc) \in Nat /\ record_slot_count(sc) >= 2
         /\ RECORD_AREA_START + 2 * record_slot_span(sc) <= sc
<1>1. PICK area \in Nat : area = sc - RECORD_AREA_START
  BY GeometryAssumption DEF device_large_enough
<1>2. PICK h \in Nat : h = half(sc) /\ h >= RECORD_SECTORS /\ 2 * h <= area
  BY <1>1, GeometryAssumption DEF device_large_enough, half
<1>3. PICK span \in Nat : /\ span = record_slot_span(sc)
                          /\ span >= RECORD_SECTORS /\ span <= h
  BY <1>2, GeometryAssumption DEF record_slot_span
<1>4. span > 0 /\ 2 * span <= area
  BY <1>2, <1>3, GeometryAssumption
<1>5. PICK count \in Int : count = area \div span
  BY <1>4
<1>6. count >= 2
  <2>1. PICK r \in Int : r = area % span
    BY <1>4
  <2>2. area = span * count + r /\ r < span
    BY <1>4, <1>5, <2>1
  <2>3. count <= 1 => span * count <= span
    BY <1>4
  <2> QED
    BY <1>4, <2>2, <2>3
<1>7. count = record_slot_count(sc)
  BY <1>1, <1>3, <1>5 DEF record_slot_count
<1> QED
  BY <1>1, <1>3, <1>4, <1>6, <1>7, GeometryAssumption

\* If some attempt is eligible, select_record_start returns the first one's
\* slot.
LEMMA FirstEligible ==
  ASSUME NEW gen, NEW n, NEW sc, NEW active, NEW length, record_slot_count(sc) \in Nat,
         NEW some \in 0 .. record_slot_count(sc) - 1,
         eligible(gen, some, n, sc, active, length)
  PROVE  \E start : select_record_start(start, gen, n, sc, active, length)
<1> DEFINE S == {a \in 0 .. record_slot_count(sc) - 1 : eligible(gen, a, n, sc, active, length)}
<1>1. S \subseteq Nat /\ S # {}
  <2>1. S \subseteq 0 .. record_slot_count(sc) - 1
    BY Zenon
  <2>2. 0 .. record_slot_count(sc) - 1 \subseteq Nat
    OBVIOUS
  <2>3. some \in S
    BY Zenon
  <2> QED
    BY <2>1, <2>2, <2>3, Zenon
<1>2. PICK x \in S : \A y \in S : ~(<<y, x>> \in OpToRel(<, Nat))
  <2> HIDE DEF S
  <2>1. \E x \in S : \A y \in S : ~(<<y, x>> \in OpToRel(<, Nat))
    BY <1>1, NatLessThanWellFounded, WFMin, Zenon
  <2> QED
    BY <2>1, Zenon
<1>3. ASSUME NEW y \in 0 .. x - 1 PROVE ~eligible(gen, y, n, sc, active, length)
  <2>0. x \in 0 .. record_slot_count(sc) - 1
    BY <1>2, Zenon
  <2>1. y \in Nat /\ x \in Nat /\ y < x /\ x <= record_slot_count(sc) - 1
    BY <2>0
  <2>2. <<y, x>> \in OpToRel(<, Nat)
    BY <2>1 DEF OpToRel
  <2>3. y \notin S
    BY <1>2, <2>2, Zenon
  <2>4. y \in 0 .. record_slot_count(sc) - 1
    BY <2>1
  <2> QED
    BY <2>3, <2>4, Zenon
<1>4. x \in 0 .. record_slot_count(sc) - 1 /\ eligible(gen, x, n, sc, active, length)
  BY <1>2, Zenon
<1> QED
  BY <1>3, <1>4, Zenon DEF select_record_start

\* Two records are apart when one starts where the other has ended.
LEMMA Apart ==
  ASSUME NEW s \in Nat, NEW n \in Nat, NEW t \in Nat, NEW m \in Nat,
         s + n <= t \/ t + m <= s
  PROVE  ~ranges_overlap(s, n, t, m)
  BY DEF ranges_overlap

\* On a device that is large enough, a record no longer than a slot that
\* starts at the first slot leaves the second one free; one that starts a
\* smallest record's room further leaves the first.
LEMMA RoomForCommit ==
  ASSUME NEW sc \in Nat, device_large_enough(sc), NEW gen \in Nat,
         NEW active \in Nat, NEW length \in Nat, length <= record_slot_span(sc),
         active = RECORD_AREA_START \/ active >= RECORD_AREA_START + RECORD_SECTORS
  PROVE  \E start \in 0 .. sc - 1 :
            select_record_start(start, gen, RECORD_SECTORS, sc, active, length)
<1>1. PICK span \in Nat : span = record_slot_span(sc)
  BY Slots
<1>2. PICK count \in Nat : count = record_slot_count(sc)
  BY Slots
<1>3. /\ span >= RECORD_SECTORS /\ count >= 2 /\ RECORD_AREA_START + 2 * span <= sc
      /\ RECORD_AREA_START \in Nat /\ RECORD_SECTORS \in Nat /\ RECORD_SECTORS > 0
  BY <1>1, <1>2, Slots, GeometryAssumption
<1>4. PICK slot \in {0, 1} :
         LET start == RECORD_AREA_START + slot * span
         IN  ~ranges_overlap(start, RECORD_SECTORS, active, length)
  <2>1. CASE active = RECORD_AREA_START
    <3>1. PICK start \in Nat : start = RECORD_AREA_START + 1 * span
      BY <1>3
    <3>2. active + length <= start
      BY <1>1, <1>3, <2>1, <3>1
    <3>3. ~ranges_overlap(start, RECORD_SECTORS, active, length)
      BY <1>3, <3>2, Apart
    <3> QED
      BY <3>1, <3>3
  <2>2. CASE active >= RECORD_AREA_START + RECORD_SECTORS
    <3>1. PICK start \in Nat : start = RECORD_AREA_START + 0 * span /\ start = RECORD_AREA_START
      BY <1>3
    <3>2. start + RECORD_SECTORS <= active
      BY <1>3, <2>2, <3>1
    <3>3. ~ranges_overlap(start, RECORD_SECTORS, active, length)
      BY <1>3, <3>2, Apart
    <3> QED
      BY <3>1, <3>3
  <2> QED
    BY <2>1, <2>2
<1>5. PICK attempt \in 0 .. count - 1 : (gen + attempt) % count = slot
  <2>1. slot \in 0 .. count - 1 /\ count > 0
    BY <1>3
  <2> QED
    BY <2>1, AttemptFor
<1>6. slot_start(gen, attempt, sc) = RECORD_AREA_START + slot * span
  BY <1>1, <1>2, <1>5 DEF slot_start
<1>7. slot * span + RECORD_SECTORS <= 2 * span
  BY <1>3
<1>8. eligible(gen, attempt, RECORD_SECTORS, sc, active, length)
  <2>1. PICK start : start = slot_start(gen, attempt, sc)
    OBVIOUS
  <2>2. start + RECORD_SECTORS <= sc
    <3>1. PICK k \in Nat : k = slot * span
      BY <1>3
    <3> QED
      BY <1>3, <1>6, <1>7, <2>1, <3>1
  <2>3. ~ranges_overlap(start, RECORD_SECTORS, active, length)
    BY <1>4, <1>6, <2>1, Zenon
  <2> QED
    BY <2>1, <2>2, <2>3 DEF eligible
<1>9. PICK start : select_record_start(start, gen, RECORD_SECTORS, sc, active, length)
  <2>1. record_slot_count(sc) \in Nat /\ attempt \in 0 .. record_slot_count(sc) - 1
    BY <1>2
  <2> QED
    BY <1>8, <2>1, FirstEligible
<1>10. start \in Nat /\ start + RECORD_SECTORS <= sc
  BY <1>3, <1>9, SelectedStart
<1>11. start \in 0 .. sc - 1
  BY <1>3, <1>10
<1> QED
  BY <1>9, <1>11

\* A slot that select_record_start returns is the first, or leaves a smallest
\* record's room before it.
LEMMA SelectedPlace ==
  ASSUME NEW start, NEW gen \in Nat, NEW n \in Nat, NEW sc \in Nat,
         NEW active \in Nat, NEW length \in Nat,
         device_large_enough(sc),
         select_record_start(start, gen, n, sc, active, length)
  PROVE  start = RECORD_AREA_START \/ start >= RECORD_AREA_START + RECORD_SECTORS
<1>1. PICK span \in Nat : span = record_slot_span(sc)
  BY Slots
<1>2. PICK count \in Nat : count = record_slot_count(sc)
  BY Slots
<1>3. span >= RECORD_SECTORS /\ count >= 2
  BY <1>1, <1>2, Slots
<1>4. PICK attempt \in 0 .. count - 1 : start = slot_start(gen, attempt, sc)
  BY <1>2 DEF select_record_start
<1>5. PICK slot \in Nat : slot = (gen + attempt) % count
  BY <1>3, <1>4
<1>6. start = RECORD_AREA_START + slot * span
  BY <1>1, <1>2, <1>4, <1>5 DEF slot_start
<1>7. CASE slot = 0
  BY <1>6, <1>7, GeometryAssumption
<1>8. CASE slot >= 1
  <2>1. slot * span >= span
    BY <1>8
  <2>2. PICK k \in Nat : k = slot * span
    BY <1>5
  <2> QED
    BY <1>3, <1>6, <2>1, <2>2, GeometryAssumption
<1> QED
  BY <1>5, <1>7, <1>8

\* A slot of a larger device is at least as long.
LEMMA SpanGrows ==
  ASSUME NEW n \in Nat, NEW m \in Nat, n <= m
  PROVE  /\ record_slot_span(n) \in Int /\ record_slot_span(m) \in Int
         /\ record_slot_span(n) <= record_slot_span(m)
<1>1. PICK h \in Int, k \in Int : h = half(n) /\ k = half(m) /\ h <= k
  BY GeometryAssumption DEF half
<1> QED
  BY <1>1, GeometryAssumption DEF record_slot_span

\* A step that keeps the device and what a commit works on.
LEMMA PlacedFrame ==
  ASSUME PlacedInv, capacity' = capacity, acked' = acked,
         InCommit' => InCommit /\ pending' = pending,
         \A d \in {disk', view'} : \A s \in {SUPERBLOCK_A_SECTOR, SUPERBLOCK_B_SECTOR} :
           d[s].kind = "super" =>
             \E old \in {disk, view} : d[s] = old[s]
  PROVE  PlacedInv'
<1>1. \A sb : Placed(sb)' <=> Placed(sb)
  BY DEF Placed
<1>2. ASSUME NEW d \in {disk', view'}, NEW s \in {SUPERBLOCK_A_SECTOR, SUPERBLOCK_B_SECTOR},
             d[s].kind = "super"
      PROVE  Placed(d[s])'
  <2>1. PICK old \in {disk, view} : d[s] = old[s]
    BY <1>2
  <2> QED
    BY <1>1, <1>2, <2>1 DEF PlacedInv
<1> QED
  BY <1>1, <1>2 DEF PlacedInv

\* A commit that begins has chosen its slot.
LEMMA StartCommitPlaced ==
  ASSUME IInv, PlacedInv, NEW c \in Contents, NEW start \in Sectors,
         device_large_enough(capacity),
         CommitAllowed(c, start), StartCommit(c, start)
  PROVE  PlacedInv'
<1>1. /\ disk' = disk /\ view' = view /\ capacity' = capacity /\ acked' = acked
      /\ pending'.record_start = start /\ pending'.record_sectors = RecordSectors[c]
  BY DEF StartCommit, devvars
<1>2. /\ capacity \in Nat /\ generation + 1 \in Nat /\ RecordSectors[c] \in Nat
      /\ active_record_start \in Nat /\ active_record_sectors \in Nat
  BY FsAssumption DEF IInv, TypeOK
<1>3. start = RECORD_AREA_START \/ start >= RECORD_AREA_START + RECORD_SECTORS
  BY <1>2, SelectedPlace DEF CommitAllowed
<1>4. Placed(pending)'
  BY <1>1, <1>3 DEF Placed, CommitAllowed
<1> QED
  BY <1>1, <1>4 DEF PlacedInv, Placed

\* Every step keeps the records placed.
LEMMA PlacedStep ==
  ASSUME IInv, PlacedInv, [Next]_vars
  PROVE  PlacedInv'
<1> DEFINE Super == {SUPERBLOCK_A_SECTOR, SUPERBLOCK_B_SECTOR}
<1>1. /\ Super = {0, 1} /\ Super \subseteq Sectors
      /\ disk \in [Sectors -> SectorContent] /\ view \in [Sectors -> SectorContent]
  BY FsAssumption DEF IInv, TypeOK, SUPERBLOCK_A_SECTOR, SUPERBLOCK_B_SECTOR
<1>2. CASE UNCHANGED vars
  BY <1>2, PlacedFrame DEF vars, devvars, commitvars, history, InCommit
<1>3. ASSUME NEW c \in Contents, BeginCommit(c) PROVE PlacedInv'
  BY <1>3, StartCommitPlaced DEF BeginCommit, IInv, MemoryAgrees, Mounted
<1>4. CASE MountFormat
  BY <1>4, StartCommitPlaced, FsAssumption DEF MountFormat
<1>5. CASE WriteRecordSector
  <2>1. pending.record_start + sector_offset >= 2
    <3>1. Located(pending) /\ pending \in Superblock /\ sector_offset \in Nat
      BY <1>5 DEF WriteRecordSector, IInv, TypeOK, CommitSound, InCommit
    <3> QED
      BY <3>1, GeometryAssumption DEF Located, Superblock
  <2>2. /\ disk' = disk /\ capacity' = capacity /\ acked' = acked /\ pending' = pending
        /\ pc' = pc
        /\ view' = [view EXCEPT ![pending.record_start + sector_offset] =
                                  encode_record(pending, sector_offset)]
    BY <1>5 DEF WriteRecordSector, history
  <2>3. \A s \in Super : view'[s] = view[s]
    BY <1>1, <2>1, <2>2
  <2> QED
    BY <2>2, <2>3, PlacedFrame DEF InCommit
<1>6. CASE FlushRecord
  BY <1>6, PlacedFrame DEF FlushRecord, commitvars, history, InCommit
<1>7. CASE WriteSuperblock
  <2>1. /\ disk' = disk /\ capacity' = capacity /\ acked' = acked /\ pending' = pending
        /\ InCommit
        /\ view' = [view EXCEPT ![super_sector(pending.generation)] = pending]
    BY <1>7 DEF WriteSuperblock, commitvars, history, InCommit
  <2>2. \A s \in Super : view'[s] = view[s] \/ view'[s] = pending
    BY <1>1, <2>1
  <2>3. \A sb : Placed(sb)' <=> Placed(sb)
    BY <2>1 DEF Placed
  <2>4. ASSUME NEW d \in {disk', view'}, NEW s \in Super, d[s].kind = "super"
        PROVE  Placed(d[s])'
    <3>1. d[s] \in {disk[s], view[s], pending}
      BY <2>1, <2>2
    <3> QED
      BY <2>1, <2>3, <2>4, <3>1 DEF PlacedInv
  <2> QED
    BY <2>1, <2>3, <2>4 DEF PlacedInv
<1>8. CASE FlushSuperblock
  <2>1. /\ disk' = view /\ view' = view /\ capacity' = capacity /\ acked' = pending
        /\ InCommit /\ ~InCommit'
    BY <1>8 DEF FlushSuperblock, InCommit
  <2>2. \A sb : Placed(sb)' <=> Placed(sb)
    BY <2>1 DEF Placed
  <2> QED
    BY <2>1, <2>2 DEF PlacedInv
<1>9. CASE CommitError
  <2>1. /\ disk' = disk /\ view' = view /\ capacity' = capacity /\ acked' = acked
        /\ pc' \in {"halted", "idle"}
    BY <1>9 DEF CommitError, Drop, devvars, history
  <2> QED
    BY <2>1, PlacedFrame DEF InCommit
<1>10. CASE MountRefused \/ MountFails
  <2>1. /\ disk' = disk /\ view' = view /\ capacity' = capacity /\ acked' = acked
        /\ pc' = "halted"
    BY <1>10 DEF MountRefused, MountFails, Drop, devvars, history
  <2> QED
    BY <2>1, PlacedFrame DEF InCommit
<1>11. CASE Unmount
  <2>1. /\ disk' \in {disk, view} /\ view' = view /\ capacity' = capacity /\ acked' = acked
        /\ pc' \in {"halted", "down"}
    BY <1>11 DEF Unmount, Drop, history
  <2> QED
    BY <2>1, PlacedFrame DEF InCommit
<1>12. CASE VerifyCommittedState
  <2>1. /\ disk' = disk /\ view' = view /\ capacity' = capacity /\ acked' = acked
        /\ pc' = "idle"
    BY <1>12 DEF VerifyCommittedState, devvars, history
  <2> QED
    BY <2>1, PlacedFrame DEF InCommit
<1>13. CASE MountExisting
  <2>1. PICK sb \in candidates(view) : acked' = sb
    BY <1>13 DEF MountExisting
  <2>2. /\ disk' = disk /\ view' = view /\ capacity' = capacity /\ ~InCommit'
    BY <1>13 DEF MountExisting, devvars, InCommit
  <2>3. Placed(sb)
    BY <2>1 DEF PlacedInv, candidates, decode_superblock
  <2> QED
    BY <2>1, <2>2, <2>3 DEF PlacedInv, Placed
<1>14. ASSUME NEW s \in Sectors, Destage(s) PROVE PlacedInv'
  <2>1. /\ view' = view /\ capacity' = capacity /\ acked' = acked /\ pending' = pending
        /\ pc' = pc /\ disk' = [disk EXCEPT ![s] = view[s]]
    BY <1>14 DEF Destage, commitvars, history
  <2>2. \A t \in Super : disk'[t] = disk[t] \/ disk'[t] = view[t]
    BY <1>1, <2>1
  <2> QED
    BY <2>1, <2>2, PlacedFrame DEF InCommit
<1>15. CASE PowerLoss
  <2>1. PICK torn \in SUBSET Sectors :
           disk' = [s \in Sectors |-> IF s \in torn THEN Torn ELSE disk[s]]
    BY <1>15 DEF PowerLoss
  <2>2. view' = disk' /\ capacity' = capacity /\ acked' = acked /\ pc' = "down"
    BY <1>15 DEF PowerLoss, Drop, history
  <2>3. \A t \in Super : disk'[t].kind = "super" => disk'[t] = disk[t]
    BY <1>1, <2>1 DEF Torn
  <2> QED
    BY <2>2, <2>3, PlacedFrame DEF InCommit
<1>16. CASE GrowDevice
  <2>1. /\ disk' = disk /\ view' = view /\ acked' = acked /\ ~InCommit'
        /\ capacity \in Nat /\ capacity' \in Nat /\ capacity <= capacity'
    BY <1>16, FsAssumption DEF GrowDevice, history, IInv, TypeOK, InCommit
  <2>2. PICK old \in Int, new \in Int : /\ old = record_slot_span(capacity)
                                        /\ new = record_slot_span(capacity')
    BY <2>1, SpanGrows
  <2>3. old <= new
    BY <2>1, <2>2, SpanGrows
  <2>4. ASSUME NEW sb \in Superblock, Placed(sb) PROVE Placed(sb)'
    BY <2>2, <2>3, <2>4 DEF Placed, Superblock
  <2>5. acked \in Superblock
    BY DEF IInv, TypeOK
  <2>6. ASSUME NEW d \in {disk', view'}, NEW s \in Super, d[s].kind = "super"
        PROVE  Placed(d[s])'
    <3>1. d[s] \in Superblock /\ d \in {disk, view}
      BY <1>1, <2>1, <2>6, SuperTyped
    <3> QED
      BY <2>4, <2>6, <3>1 DEF PlacedInv
  <2> QED
    BY <2>1, <2>4, <2>5, <2>6 DEF PlacedInv
<1> QED
  BY <1>2, <1>3, <1>4, <1>5, <1>6, <1>7, <1>8, <1>9, <1>10, <1>11, <1>12, <1>13, <1>14,
     <1>15, <1>16, Zenon DEF Next

\* For every device that only grows and every set of record sizes: on a
\* mounted filesystem select_record_start finds room for a smallest record,
\* whatever slot layout the active record was placed under.
THEOREM AlwaysRoom == Spec => []CommitPossible
<1>1. Init => PlacedInv
  <2> SUFFICES ASSUME Init PROVE PlacedInv
    OBVIOUS
  <2>1. SUPERBLOCK_A_SECTOR \in Sectors /\ SUPERBLOCK_B_SECTOR \in Sectors
    BY FsAssumption DEF SUPERBLOCK_A_SECTOR, SUPERBLOCK_B_SECTOR
  <2>2. \A s \in Sectors : disk[s] \in {Zero, Torn}
    BY DEF Init
  <2>3. Zero.kind # "super" /\ Torn.kind # "super"
    BY DEF Zero, Torn
  <2>4. \A s \in {SUPERBLOCK_A_SECTOR, SUPERBLOCK_B_SECTOR} : disk[s].kind # "super"
    BY <2>1, <2>2, <2>3, Zenon
  <2>5. view = disk /\ ~InCommit /\ ~(acked.generation > 0)
    BY DEF Init, InCommit, NoSnapshot
  <2> QED
    BY <2>4, <2>5, Zenon DEF PlacedInv
<1>2. IInv /\ PlacedInv /\ [Next]_vars => PlacedInv'
  BY PlacedStep
<1>3. IInv /\ PlacedInv => CommitPossible
  <2> SUFFICES ASSUME IInv, PlacedInv, pc = "idle"
               PROVE  \E start \in Sectors :
                        select_record_start(start, generation + 1, RECORD_SECTORS, capacity,
                                            active_record_start, active_record_sectors)
    BY DEF CommitPossible
  <2>1. /\ acked.record_start = active_record_start
        /\ acked.record_sectors = active_record_sectors
        /\ device_large_enough(capacity) /\ acked.generation > 0
    BY DEF IInv, MemoryAgrees, Mounted
  <2>2. Placed(acked)
    BY <2>1 DEF PlacedInv
  <2>3. /\ capacity \in Nat /\ generation + 1 \in Nat /\ 0 .. capacity - 1 \subseteq Sectors
        /\ active_record_start \in Nat /\ active_record_sectors \in Nat
    BY FsAssumption DEF IInv, TypeOK
  <2>4. \E start \in 0 .. capacity - 1 :
           select_record_start(start, generation + 1, RECORD_SECTORS, capacity,
                               active_record_start, active_record_sectors)
    BY <2>1, <2>2, <2>3, RoomForCommit DEF Placed
  <2> QED
    BY <2>3, <2>4
<1> QED
  BY <1>1, <1>2, <1>3, InvariantHolds, PTL DEF Spec

=============================================================================
