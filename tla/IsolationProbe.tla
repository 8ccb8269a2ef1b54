--------------------------- MODULE IsolationProbe ---------------------------
(***************************************************************************)
(* The isolation probe of the kernel (kernel/src/process.rs): a small user   *)
(* program logs a message through a system call and then writes to the       *)
(* kernel's text.  The probe passes when that write ends in the page fault   *)
(* of a present page that ring 3 may not write.                              *)
(***************************************************************************)
EXTENDS Integers

CONSTANTS
  Layouts,             \* what the page tables may say about the three pages
  MAX_USER_LOG_BYTES,
  CodeStart, CodeEnd,  \* the user page
  Message,             \* [address, length] of the log call
  AddressMax           \* u64::MAX

VARIABLES
  layout,      \* the page tables of the user address space
  space,       \* the user address space is alive
  cr3,         \* "kernel" or "user"
  at,          \* where the user program is
  active,      \* state.active: the trap handler takes user traps
  outcome,     \* state.outcome
  logged,      \* the system call printed the message
  kernel_text  \* "intact" or "written"

probevars == <<layout, space, cr3, at, active, outcome, logged, kernel_text>>

ProbeInit ==
  /\ layout \in Layouts
  /\ space = FALSE
  /\ cr3 = "kernel"
  /\ at = "none"
  /\ active = FALSE
  /\ outcome = "NotStarted"
  /\ logged = FALSE
  /\ kernel_text = "intact"

user_buffer_within(address, length) ==
  /\ length <= MAX_USER_LOG_BYTES
  /\ address >= CodeStart
  /\ address + length <= AddressMax
  /\ address + length <= CodeEnd

\* What run_isolation_probe checks before it enters ring 3.
PermissionsVerified == ~layout.l4_user /\ layout.code_rx /\ layout.stack_rw

\* vm::create_user_address_space, and the entry to ring 3 when the checks pass;
\* the new space is destroyed when one of them fails.
ProbeEnter ==
  /\ IF PermissionsVerified
     THEN /\ space' = TRUE
          /\ cr3' = "user"
          /\ at' = "log"
          /\ active' = TRUE
          /\ outcome' = "Running"
     ELSE UNCHANGED <<space, cr3, at, active, outcome>>
  /\ UNCHANGED <<layout, logged, kernel_text>>

\* terminate_user_process; switch_root may refuse the kernel's root.
terminate_user_process(result) ==
  /\ \/ cr3' = "kernel" /\ outcome' = result
     \/ cr3' = cr3 /\ outcome' = "RootRestoreFailed"
  /\ active' = FALSE
  /\ at' = "resumed"

\* int 0x80 with LOG: the handler checks the buffer, the program goes on.
UserLog ==
  /\ at = "log"
  /\ active
  /\ logged' = user_buffer_within(Message.address, Message.length)
  /\ at' = "write"
  /\ UNCHANGED <<layout, space, cr3, active, outcome, kernel_text>>

\* The processor lets ring 3 write the probed kernel address.
WriteAllowed == layout.present /\ layout.l4_user /\ layout.leaf_user_writable

\* The page fault of the write carries present, write and user, or without
\* present when nothing is mapped there.
PageFaultOutcome == IF layout.present THEN "IsolationEnforced" ELSE "Fault"

\* The program writes, and calls EXIT when it is still there afterwards.
UserWrite ==
  /\ at = "write"
  /\ active
  /\ kernel_text' = IF WriteAllowed THEN "written" ELSE kernel_text
  /\ terminate_user_process(IF WriteAllowed THEN "Exited" ELSE PageFaultOutcome)
  /\ UNCHANGED <<layout, space, logged>>

\* Back in run_isolation_probe; a root that was not restored leaves early, and
\* destroy_user_address_space may fail.
ProbeReturn ==
  /\ at = "resumed"
  /\ at' = "none"
  /\ space' \in IF cr3 = "kernel" THEN BOOLEAN ELSE {space}
  /\ UNCHANGED <<layout, cr3, active, outcome, logged, kernel_text>>

ProbePassed == cr3 = "kernel" /\ outcome = "IsolationEnforced"

=============================================================================
