--------------------------- MODULE CodexFsReadError ---------------------------
(***************************************************************************)
(* CodexFS mounted from a device on which one read of a record may fail    *)
(* (a timed-out virtio request).  load_latest_snapshot skips a superblock  *)
(* whenever read_record returns any error, a device error included.        *)
(***************************************************************************)
EXTENDS CodexFs

\* A sector of the record of one candidate cannot be read: mount_or_format
\* takes the other one.
MountUnreadable ==
  /\ pc = "down"
  /\ device_large_enough(capacity)
  /\ \E unreadable \in candidates(view) :
       \E sb \in candidates(view) \ {unreadable} :
         /\ generation' = sb.generation
         /\ files' = sb.files
         /\ active_record_start' = sb.record_start
         /\ active_record_sectors' = sb.record_sectors
         /\ acked' = sb
  /\ tried' = {}
  /\ pc' = "idle"
  /\ UNCHANGED <<devvars, commitvars>>

ReadErrorNext == Next \/ MountUnreadable

ReadErrorSpec == Init /\ [][ReadErrorNext]_vars

\* A mount that succeeds returns the newest valid generation on the device,
\* as README.md says of CodexFS.
MountsNewestValid ==
  [][pc = "down" /\ pc' = "idle" =>
       \A sb \in candidates(view) : sb.generation <= generation']_vars
=============================================================================
