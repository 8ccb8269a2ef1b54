----------------------------- MODULE CodexFsReset -----------------------------
(***************************************************************************)
(* CodexFS when the machine may also be reset without losing power.  The   *)
(* device keeps its write cache over the reset, so the next mount reads    *)
(* superblocks that are not yet on the medium, and mount_or_format takes   *)
(* them without a flush.                                                   *)
(***************************************************************************)
EXTENDS CodexFs

VARIABLE answered   \* history: newest generation whose commit returned Ok

\* The kernel is reset (or halted and reset); the device keeps its cache.
WarmReset ==
  /\ pc # "down"
  /\ Drop("down")
  /\ UNCHANGED <<devvars, history>>

CommitReturnsOk == pc = "flush_superblock" /\ generation' = pending.generation

ResetInit == Init /\ answered = 0

ResetNext ==
  /\ Next \/ WarmReset
  /\ answered' = IF CommitReturnsOk THEN pending.generation ELSE answered

ResetSpec == ResetInit /\ [][ResetNext]_<<vars, answered>>

\* Once a commit returned Ok, some generation on the medium passes
\* load_latest_snapshot: no sequence of resets and power losses makes a mount
\* end in CorruptSuperblocks.
NeverLost ==
  answered > 0 => candidates(disk) # {}

\* What a mount after a power loss returns is never older than the newest
\* generation whose commit returned Ok.
NeverOlder ==
  \A sb \in candidates(disk) :
    load_latest_snapshot(disk, sb) => sb.generation >= answered

\* Both together: a generation whose commit returned Ok survives every sequence
\* of resets and power losses, and is never replaced by an older one.
AcknowledgedKept == NeverLost /\ NeverOlder
=============================================================================
