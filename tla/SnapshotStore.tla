---------------------------- MODULE SnapshotStore ----------------------------
(***************************************************************************)
(* What CodexFS promises about whole snapshots of the tree.  A snapshot    *)
(* whose commit returned Ok is what every reader sees and what every later *)
(* mount returns, until another commit returns Ok or a mount after a crash *)
(* finds a snapshot whose commit had begun and had not been answered, or   *)
(* was answered with an error.                                             *)
(***************************************************************************)
CONSTANTS Contents,   \* the snapshots a caller may commit
          Empty,      \* the snapshot a format writes
          Unmounted   \* what readers see while nothing is mounted

VARIABLES stable,     \* the last acknowledged or recovered snapshot
          maybe,      \* snapshots attempted since, that a recovery may return
          visible     \* what readers see

svars == <<stable, maybe, visible>>

Init ==
  /\ stable = Empty
  /\ maybe = {}
  /\ visible = Unmounted

\* A commit begins; readers still see the stable snapshot.
Begin(c) ==
  /\ maybe' = maybe \cup {c}
  /\ UNCHANGED <<stable, visible>>

\* A commit is acknowledged: what was attempted before it can never return.
Acknowledge(c) ==
  /\ c \in maybe
  /\ stable' = c
  /\ maybe' = {}
  /\ visible' = c

\* The store goes away (crash, power loss, unmount or a failed mount).
Leave ==
  /\ visible' = Unmounted
  /\ UNCHANGED <<stable, maybe>>

\* A mount settles the outstanding attempts one way or the other.
Recover(c) ==
  /\ visible = Unmounted
  /\ c \in maybe \cup {stable}
  /\ stable' = c
  /\ maybe' = {}
  /\ visible' = c

Next ==
  \/ Leave
  \/ \E c \in Contents : Begin(c) \/ Acknowledge(c) \/ Recover(c)

Spec == Init /\ [][Next]_svars
=============================================================================
