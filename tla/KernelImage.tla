---------------------------- MODULE KernelImage ----------------------------
(***************************************************************************)
(* _start of the standalone kernel (kernel-image/src/main.rs): a chain of    *)
(* gates, each of which halts the kernel when it fails, ending in the desktop *)
(* loop.  Two of them write to the filesystem: the boot counter and the large *)
(* file proof, and the persistent executable the scheduler gate installs,    *)
(* checks and runs.                                                          *)
(*                                                                           *)
(* The power may go at any step, and a kernel of another version may be      *)
(* booted afterwards: what a boot leaves on the disk, every later boot has   *)
(* to cope with.                                                             *)
(***************************************************************************)
EXTENDS FsTree, Pci, IsolationProbe

CONSTANTS
  Machines,       \* PCI machines, chosen once
  Kernels,        \* kernel versions
  ProgramOf(_),   \* bytes of the user program a version carries
  LARGE_FILE_PROOF,
  U64_MAX,
  MaxBoots        \* bound on the boots of a behaviour

VARIABLES
  pc,             \* the gate _start is at
  why,            \* the message the kernel halted with
  machine,
  kernel,         \* the version that is running, or will be
  boots,          \* boots so far
  counted,        \* `current` of this boot
  reported,       \* history: what the persistence line printed last
  executed,       \* history: the program the last persistent gate ran
  proven          \* history: versions that reached the desktop loop

bootvars == <<pc, why, machine, kernel, boots, counted, reported, executed, proven>>
kvars == <<bootvars, fsvars, probevars>>

SYSTEM == <<"system">>
BIN == <<"system", "bin">>
BOOT_COUNT_PATH == <<"system", "boot-count">>
LARGE_FILE_PROOF_PATH == <<"system", "large-proof.bin">>
PERSISTENT_EXECUTABLE_PATH == <<"system", "bin", "scheduler-gate.elf">>

\* Owner bits of the modes 0o755, 0o600, 0o640 and 0o555.
Mode755 == {"r", "w", "x"}
Mode600 == {"r", "w"}
Mode640 == {"r", "w"}
Mode555 == {"r", "x"}

-----------------------------------------------------------------------------
(* The boot counter is stored as decimal digits *)

NoValue == -1

parse_decimal_u64(bytes) ==
  IF bytes = <<>> THEN NoValue
  ELSE FoldLeft(LAMBDA value, byte :
                  IF value # NoValue /\ byte \in 0 .. 9
                     /\ value * 10 + byte <= U64_MAX
                  THEN value * 10 + byte ELSE NoValue,
                0, bytes)

encode_decimal_u64[value \in Nat] ==
  IF value < 10 THEN <<value>>
  ELSE Append(encode_decimal_u64[value \div 10], value % 10)

\* The counter the disk holds; a file that cannot be read counts as none.
StoredCount(tree) ==
  LET found == read_file(tree, BOOT_COUNT_PATH)
  IN  IF found = {} THEN 0
      ELSE parse_decimal_u64(CHOOSE bytes \in found : TRUE)

-----------------------------------------------------------------------------
KernelInit ==
  /\ FsInit
  /\ ProbeInit
  /\ pc = "off"
  /\ why = "none"
  /\ machine \in Machines
  /\ kernel \in Kernels
  /\ boots = 0
  /\ counted = 0
  /\ reported = 0
  /\ executed = <<>>
  /\ proven = {}

Go(where) == pc' = where /\ UNCHANGED <<why, machine, kernel, boots>>
Halt(reason) ==
  pc' = "halted" /\ why' = reason /\ UNCHANGED <<machine, kernel, boots>>

\* A call into the filesystem; its error is what the kernel halts with.
Proceed(where) ==
  IF error' = "none" THEN Go(where) ELSE Halt(error')

Keep == UNCHANGED <<counted, reported, executed, proven>>

PowerOn ==
  /\ pc = "off"
  /\ boots < MaxBoots
  /\ pc' = "standalone"
  /\ why' = "none"
  /\ boots' = boots + 1
  /\ UNCHANGED <<machine, kernel, fsvars, probevars>>
  /\ Keep

\* init_standalone: virtual memory, exception path and heap, or an error.
InitStandalone ==
  /\ pc = "standalone"
  /\ Go("isolation") \/ Halt("initialization")
  /\ UNCHANGED <<fsvars, probevars>>
  /\ Keep

ProbeStart ==
  /\ pc = "isolation"
  /\ \/ /\ ProbeEnter
        /\ IF PermissionsVerified THEN Go("ring3") ELSE Halt("isolation")
     \/ /\ Halt("VirtualMemory")
        /\ UNCHANGED probevars
  /\ UNCHANGED fsvars
  /\ Keep

ProbeRuns ==
  /\ pc = "ring3"
  /\ UserLog \/ UserWrite
  /\ UNCHANGED <<bootvars, fsvars>>

ProbeEnds ==
  /\ pc = "ring3"
  /\ ProbeReturn
  /\ IF ProbePassed /\ ~space' THEN Go("inventory") ELSE Halt("isolation")
  /\ UNCHANGED fsvars
  /\ Keep

Inventory == summary(machine, scan_pci(machine))

HardwareInventory ==
  /\ pc = "inventory"
  /\ IF Inventory.virtio_block # None /\ Inventory.virtio_net # None
     THEN Go("block") ELSE Halt("inventory")
  /\ UNCHANGED <<fsvars, probevars>>
  /\ Keep

\* A driver's discover, and the comparison with the inventory.
Bind(device, recorded, where) ==
  \/ Halt("driver")
  \/ /\ find_legacy_virtio_device(machine, device) # None
     /\ IF find_legacy_virtio_device(machine, device) = recorded
        THEN Go(where) ELSE Halt("binding")

BlockBinding ==
  /\ pc = "block"
  /\ Bind("block", Inventory.virtio_block, "mount")
  /\ UNCHANGED <<fsvars, probevars>>
  /\ Keep

Mount ==
  /\ pc = "mount"
  /\ mount_or_format
  /\ Proceed("namespace")
  /\ UNCHANGED probevars
  /\ Keep

Namespace ==
  /\ pc = "namespace"
  /\ Call(create_dir_all(files, SYSTEM, Mode755), TRUE)
  /\ Proceed("binaries")
  /\ UNCHANGED probevars
  /\ Keep

Binaries ==
  /\ pc = "binaries"
  /\ Call(create_dir_all(files, BIN, Mode755), TRUE)
  /\ Proceed("count")
  /\ UNCHANGED probevars
  /\ Keep

\* Mutant: the counter file is written without owner write permission.
CountMode_read_only == {"r"}

CountMode == Mode600

\* Mutant: the counter is written back as it was read.
NextCount_same(previous) == previous

NextCount(previous) == previous + 1

CountBoot ==
  /\ pc = "count"
  /\ LET previous == StoredCount(files)
     IN  \/ /\ previous \in {NoValue, U64_MAX}
            /\ Halt("counter")
            /\ UNCHANGED <<fsvars, counted>>
         \/ /\ previous \notin {NoValue, U64_MAX}
            /\ counted' = NextCount(previous)
            /\ Call(write_file_inner(files, BOOT_COUNT_PATH,
                      encode_decimal_u64[NextCount(previous)], CountMode), FALSE)
            /\ Proceed("count_verify")
  /\ UNCHANGED <<reported, executed, proven, probevars>>

VerifyCount ==
  /\ pc = "count_verify"
  /\ verify_committed_state
  /\ IF error' = "none" /\ StoredCount(files) # counted
     THEN Halt("readback") ELSE Proceed("large")
  /\ UNCHANGED probevars
  /\ Keep

WriteLarge ==
  /\ pc = "large"
  /\ IF read_file(files, LARGE_FILE_PROOF_PATH) = {LARGE_FILE_PROOF}
     THEN Go("large_verify") /\ UNCHANGED fsvars
     ELSE /\ Call(write_file_inner(files, LARGE_FILE_PROOF_PATH,
                    LARGE_FILE_PROOF, Mode640), FALSE)
          /\ Proceed("large_verify")
  /\ UNCHANGED probevars
  /\ Keep

\* Ends with the two persistence lines on the serial port.
VerifyLarge ==
  /\ pc = "large_verify"
  /\ verify_committed_state
  /\ IF error' # "none" THEN Proceed("network") /\ UNCHANGED reported
     ELSE IF read_file(files, LARGE_FILE_PROOF_PATH) # {LARGE_FILE_PROOF}
     THEN Halt("readback") /\ UNCHANGED reported
     ELSE Go("network") /\ reported' = counted
  /\ UNCHANGED <<counted, executed, proven, probevars>>

\* network::configure (NetClient), and the comparison with the inventory.
NetworkBinding ==
  /\ pc = "network"
  /\ Bind("net", Inventory.virtio_net, "scheduler")
  /\ UNCHANGED <<fsvars, probevars>>
  /\ Keep

\* Timer activation and the preemption gate (Scheduler).
SchedulerGate ==
  /\ pc = "scheduler"
  /\ Go("install") \/ Halt("scheduler")
  /\ UNCHANGED <<fsvars, probevars>>
  /\ Keep

-----------------------------------------------------------------------------
(* run_persistent_executable_gate *)

Expected == ProgramOf(kernel)
Executable == read_file(files, PERSISTENT_EXECUTABLE_PATH)

Install ==
  /\ pc = "install"
  /\ CASE Executable = {} ->
            /\ Call(write_file_inner(files, PERSISTENT_EXECUTABLE_PATH,
                      Expected, Mode555), FALSE)
            /\ Proceed("install_verify")
       [] Executable = {Expected} -> Go("install_verify") /\ UNCHANGED fsvars
       [] OTHER -> Halt("hash") /\ UNCHANGED fsvars
  /\ UNCHANGED probevars
  /\ Keep

VerifyInstall ==
  /\ pc = "install_verify"
  /\ verify_committed_state
  /\ Proceed("permissions")
  /\ UNCHANGED probevars
  /\ Keep

\* Mutant: the execute permission is not required.
Runnable_readable(entry) == entry.kind = File /\ "r" \in entry.permissions

Runnable(entry) == entry.kind = File /\ {"r", "x"} \subseteq entry.permissions

MayRun ==
  \E entry \in metadata(files, PERSISTENT_EXECUTABLE_PATH) : Runnable(entry)

\* A readable file with the right bytes that may not run is repaired.
RepairPermissions ==
  /\ pc = "permissions"
  /\ IF ~MayRun /\ Executable = {Expected}
     THEN /\ Call(set_permissions(files, PERSISTENT_EXECUTABLE_PATH, Mode555), TRUE)
          /\ Proceed("repair_verify")
     ELSE Go("run") /\ UNCHANGED fsvars
  /\ UNCHANGED probevars
  /\ Keep

VerifyRepair ==
  /\ pc = "repair_verify"
  /\ verify_committed_state
  /\ Proceed("run")
  /\ UNCHANGED probevars
  /\ Keep

\* The last checks, user_elf::parse, the process and its validation; any of
\* them may fail.
RunExecutable ==
  /\ pc = "run"
  /\ \/ /\ MayRun
        /\ Executable = {Expected}
        /\ \E bytes \in Executable : executed' = bytes
        /\ Go("input")
     \/ /\ Halt(IF ~MayRun THEN "permissions"
                ELSE IF Executable # {Expected} THEN "hash" ELSE "program")
        /\ UNCHANGED executed
  /\ UNCHANGED <<counted, reported, proven, fsvars, probevars>>

\* Ps2InputDevices::initialize, then the loop (Console).
EnterLoop ==
  /\ pc = "input"
  /\ Go("loop")
  /\ proven' = proven \cup {kernel}
  /\ UNCHANGED <<counted, reported, executed, fsvars, probevars>>

\* A network error or a shutdown request ends the loop.
LeaveLoop ==
  /\ pc = "loop"
  /\ Halt("loop")
  /\ UNCHANGED <<fsvars, probevars>>
  /\ Keep

-----------------------------------------------------------------------------
\* Power off, at any step; the medium is all that stays.
PowerOff ==
  /\ pc # "off"
  /\ pc' = "off"
  /\ why' = "none"
  /\ counted' = 0
  /\ FsDrop
  /\ space' = FALSE
  /\ cr3' = "kernel"
  /\ at' = "none"
  /\ active' = FALSE
  /\ outcome' = "NotStarted"
  /\ logged' = FALSE
  /\ kernel_text' = "intact"
  /\ UNCHANGED <<machine, kernel, boots, reported, executed, proven, layout>>

\* The boot chain hands over to a kernel of another version.
Update ==
  /\ pc = "off"
  /\ kernel' \in Kernels \ {kernel}
  /\ UNCHANGED <<pc, why, machine, boots, fsvars, probevars>>
  /\ Keep

KernelSteps ==
  \/ InitStandalone \/ ProbeStart \/ ProbeRuns \/ ProbeEnds
  \/ HardwareInventory \/ BlockBinding \/ Mount \/ Namespace \/ Binaries
  \/ CountBoot \/ VerifyCount \/ WriteLarge \/ VerifyLarge
  \/ NetworkBinding \/ SchedulerGate
  \/ Install \/ VerifyInstall \/ RepairPermissions \/ VerifyRepair
  \/ RunExecutable
  \/ EnterLoop \/ LeaveLoop

KernelNext == PowerOn \/ KernelSteps \/ PowerOff \/ Update

KernelSpec == KernelInit /\ [][KernelNext]_kvars

-----------------------------------------------------------------------------
(* Properties *)

\* The counts are u64 values, and a kernel that halted says why.
KernelTypeOK ==
  /\ counted \in 0 .. U64_MAX
  /\ reported \in 0 .. U64_MAX
  /\ boots \in 0 .. MaxBoots
  /\ (why # "none") = (pc = "halted")
  /\ proven \subseteq Kernels

\* A kernel that prints its persistence line prints a higher count than any
\* boot before it printed, whatever power losses and failed commits lie in
\* between: the line comes after the count is durable.  Mounts read what is on
\* the medium; CodexFs has the read error that makes one fall back.
CountsNeverRepeat ==
  [][pc = "large_verify" /\ pc' = "network" => reported' > reported]_kvars

\* The desktop loop runs on a machine where every gate has passed: the disk
\* holds the count of this boot, the large file and the program this kernel
\* expects, which may be executed and is the one that ran.
LoopMeansVerified ==
  pc = "loop" =>
    /\ StoredCount(stored.files) = counted
    /\ read_file(stored.files, LARGE_FILE_PROOF_PATH) = {LARGE_FILE_PROOF}
    /\ read_file(stored.files, PERSISTENT_EXECUTABLE_PATH) = {Expected}
    /\ {"r", "x"} \subseteq stored.files[PERSISTENT_EXECUTABLE_PATH].permissions
    /\ executed = Expected

\* Reasons to halt that lie in what the disk holds, not in a device that fails.
DataFaults ==
  {"NotDirectory", "IsDirectory", "ParentMissing", "PermissionDenied", "NotFound",
   "TooManyFiles", "SnapshotTooLarge", "InvalidTree", "CorruptSuperblocks",
   "VerificationFailed", "readback", "hash", "permissions"}

\* A kernel that reached its desktop once does not refuse the same disk later:
\* what it and others wrote since, and power losses in the middle of it, never
\* leave a disk on which one of its own gates fails.  The boot counter stays a
\* number, and stops the kernel only when there is no higher one.
ComesUpAgain ==
  pc = "halted" /\ kernel \in proven =>
    /\ why \notin DataFaults
    /\ why = "counter" => StoredCount(files) = U64_MAX

\* The drivers find the devices the inventory reports, on machines with more
\* functions than the inventory holds too.
BindingsMatch == why # "binding"

\* Past the isolation probe, the write from ring 3 was refused by a protection
\* of a page that is there, the kernel runs on its own root, the user space is
\* gone and the probe's trap handler is off.
ProbeHonest ==
  pc \notin {"off", "halted", "standalone", "isolation", "ring3"} =>
    /\ kernel_text = "intact"
    /\ layout.present /\ ~layout.l4_user
    /\ cr3 = "kernel"
    /\ ~space /\ ~active
    /\ logged

\* A gate that was passed tells the truth: the disk holds what the boot reports,
\* drivers are bound to devices of the inventory, and the probe passed because
\* the processor refused the write.
GatesHonest == KernelTypeOK /\ LoopMeansVerified /\ BindingsMatch /\ ProbeHonest

\* No step takes back what was promised: a file without write permission keeps
\* its content, and a boot count that was printed is not printed again.
WrittenIsKept == ReadOnlyKept /\ CountsNeverRepeat
=============================================================================
