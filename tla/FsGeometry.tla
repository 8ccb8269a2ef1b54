----------------------------- MODULE FsGeometry -----------------------------
(***************************************************************************)
(* Where CodexFS may put a snapshot record on a block device               *)
(* (kernel/src/fs.rs): the record area after the two superblocks is cut    *)
(* into equal slots whose span depends on the device's capacity, and a     *)
(* commit takes the first slot, counted from its generation, that lies on  *)
(* the device and does not touch the active record.                        *)
(***************************************************************************)
EXTENDS Integers

CONSTANTS RECORD_AREA_START,   \* first sector of the record area
          RECORD_SECTORS,      \* size of the smallest record
          MAX_RECORD_SECTORS   \* size of the largest record

ASSUME GeometryAssumption ==
  /\ RECORD_AREA_START \in Nat /\ RECORD_AREA_START >= 2
  /\ RECORD_SECTORS \in Nat \ {0}
  /\ MAX_RECORD_SECTORS \in Nat /\ MAX_RECORD_SECTORS >= RECORD_SECTORS

half(sector_count) == (sector_count - RECORD_AREA_START) \div 2

\* The device passes the DeviceTooSmall checks.
device_large_enough(sector_count) ==
  /\ sector_count >= RECORD_AREA_START
  /\ half(sector_count) >= RECORD_SECTORS

\* Mutant: the area is not halved, so one record may fill all of it.
record_slot_span_whole(sector_count) ==
  IF sector_count - RECORD_AREA_START < MAX_RECORD_SECTORS
  THEN sector_count - RECORD_AREA_START ELSE MAX_RECORD_SECTORS

record_slot_span(sector_count) ==
  IF half(sector_count) < MAX_RECORD_SECTORS
  THEN half(sector_count) ELSE MAX_RECORD_SECTORS

record_slot_count(sector_count) ==
  (sector_count - RECORD_AREA_START) \div record_slot_span(sector_count)

ranges_overlap(left_start, left_sectors, right_start, right_sectors) ==
  /\ left_start < right_start + right_sectors
  /\ right_start < left_start + left_sectors

slot_start(generation, attempt, sector_count) ==
  RECORD_AREA_START
    + ((generation + attempt) % record_slot_count(sector_count))
        * record_slot_span(sector_count)

\* Mutant: only the active record's first sector is avoided.
eligible_first_sector(generation, attempt, sectors, sector_count, active_start, active_sectors) ==
  LET start == slot_start(generation, attempt, sector_count)
  IN  /\ start + sectors <= sector_count
      /\ active_sectors = 0 \/ start # active_start

\* The slot of this attempt is not skipped by the loop of select_record_start.
eligible(generation, attempt, sectors, sector_count, active_start, active_sectors) ==
  LET start == slot_start(generation, attempt, sector_count)
  IN  /\ start + sectors <= sector_count
      /\ active_sectors = 0
         \/ ~ranges_overlap(start, sectors, active_start, active_sectors)

\* select_record_start returns Ok(start) for a record of this size.
select_record_start(start, generation, sectors, sector_count, active_start, active_sectors) ==
  \E attempt \in 0 .. record_slot_count(sector_count) - 1 :
    /\ eligible(generation, attempt, sectors, sector_count, active_start, active_sectors)
    /\ \A earlier \in 0 .. attempt - 1 :
         ~eligible(generation, earlier, sectors, sector_count, active_start, active_sectors)
    /\ start = slot_start(generation, attempt, sector_count)
=============================================================================
