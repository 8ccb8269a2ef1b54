--------------------------- MODULE MCKernelImage ---------------------------
(***************************************************************************)
(* Model checking instance: a kernel that boots, loses power and is updated, *)
(* or any caller of the filesystem on a tree of its own.                     *)
(***************************************************************************)
EXTENDS KernelImage, Console

VARIABLE mode     \* what is looked at: "kernel", "caller" or "console"

MCPaths ==
  {<<>>, <<"a">>, <<"a", "..">>, <<"a", "b">>, <<"a", "b", "c">>,
   <<"a", "b", "c", "d">>}

MCNoData == <<>>
MCModes == {{"r", "w", "x"}, {"r", "x"}, {"r", "w"}, {"setuid"}}

Small == <<7>>
Big == <<7, 7, 7, 7, 7, 7, 7, 7, 7, 7>>
MCData == {Small, Big}

MCProof == <<31, 62, 93>>
MCProgramOf(version) == IF version = "v1" THEN <<101, 1>> ELSE <<101, 2>>

MCDataBytes(data) == Len(data)

FileOf(data, permissions) == Entry(File, data, permissions)
Dir == Entry(Directory, <<>>, {"r", "w", "x"})
Tree(version, first, tree) == [version |-> version, generation |-> first, files |-> tree]

\* A disk of the first format that holds a counter only: about to take a
\* second digit, at its maximum, not a number, or too large.
LegacyCount(digits) ==
  Tree(1, 1, [p \in {BOOT_COUNT_PATH} |-> FileOf(digits, {"r", "w"})])

\* A disk on which the executable lost its execute permission.
NotExecutable ==
  Tree(3, 1, [p \in {SYSTEM, BIN, PERSISTENT_EXECUTABLE_PATH} |->
                IF p = PERSISTENT_EXECUTABLE_PATH
                THEN FileOf(MCProgramOf("v1"), {"r"}) ELSE Dir])

KernelDisks ==
  {Blank, LegacyCount(<<9>>), LegacyCount(<<1, 2>>), LegacyCount(<<9, 77>>),
   LegacyCount(<<1, 2, 5>>), NotExecutable}

\* Near the last generation: a file of the first format whose parent is
\* missing, one whose parent is a file, and a disk with place for two more.
Late == MaxGeneration - 4
CallerDisks ==
  {Tree(1, Late, [p \in {<<"a", "b">>} |-> FileOf(Small, {"r", "w"})]),
   Tree(1, Late, [p \in {<<"a">>, <<"a", "b">>} |-> FileOf(Small, {"r", "w"})]),
   Tree(3, Late, [p \in {<<"x">>, <<"y">>, <<"z">>} |-> FileOf(<<>>, {"r"})])}

MCFirstSnapshots == KernelDisks \cup CallerDisks

MCLayouts ==
  [l4_user : BOOLEAN, present : BOOLEAN, leaf_user_writable : {FALSE},
   code_rx : {TRUE}, stack_rw : BOOLEAN]

MCMessage == [address |-> 5, length |-> 2]

Function(virtio, device, class, multi) ==
  [virtio |-> virtio, device |-> device, class |-> class, multifunction |-> multi]
Block == Function(TRUE, "block", "Other", FALSE)
Net == Function(TRUE, "net", "Other", FALSE)
Bridge(multi) == Function(FALSE, "bridge", "PciBridge", multi)

\* A machine whose single-function bridge also answers as a block device, one
\* with a multifunction device, a gap and more functions than the inventory
\* holds, and one where the network device is what it has no room for.
MCMachines ==
  {<< <<Bridge(FALSE), Block>>, <<Absent, Net>>, <<Block>>, <<Net>> >>,
   << <<Bridge(TRUE), Absent, Net>>, <<Block>>, <<Block>>, <<Net>> >>,
   << <<Bridge(TRUE), Bridge(FALSE), Bridge(FALSE)>>, <<Block>>, <<Net>> >>}

-----------------------------------------------------------------------------
(* The desktop loop *)

Plain(bytes) == [bytes |-> bytes, needs |-> {}, down |-> {}, up |-> {}]

MCCommands ==
  16 :> "help" @@ 17 :> "walk" @@ 18 :> "map" @@ 19 :> "theme" @@ 20 :> "clear"
  @@ 21 :> "focus" @@ 22 :> "move-right" @@ 23 :> "exit" @@ 24 :> "alloc"

\* A command is its first letter, in lower case, and as many more as its count.
MCCommandOf(text) ==
  IF text[1].code \in DOMAIN MCCommands /\ ~text[1].upper
  THEN [name |-> MCCommands[text[1].code], count |-> Len(text) - 1]
  ELSE [name |-> "nonsense", count |-> 0]

\* Lines of commands, text, control keys, shift, caps lock, and an arrow with
\* and without the shift codes the keyboard adds to it.
MCStrokes ==
  {Plain(<<16, 28, 16, 28>>), Plain(<<19, 28, 22, 28, 21, 28>>),
   Plain(<<18, 28, 23, 28>>), Plain(<<24, 24, 24, 28, 20, 28>>), Plain(<<17, 28, 1>>),
   Plain(<<58, 30, 158, 57, 28>>), Plain(<<30, 14, 15>>), Plain(<<224, 77>>),
   [bytes |-> <<42>>, needs |-> {}, down |-> {"left"}, up |-> {}],
   [bytes |-> <<170>>, needs |-> {"left"}, down |-> {}, up |-> {"left"}],
   [bytes |-> <<224, 170, 224, 72>>, needs |-> {"left"}, down |-> {}, up |-> {}]}

Report(dx, dy, left, right, overflow) ==
  [dx |-> dx, dy |-> dy, left |-> left, right |-> right, overflow |-> overflow]

\* From the first cursor position, 80 up is on a title bar.
MCPackets ==
  {Report(0, 80, TRUE, FALSE, FALSE), Report(100, -100, TRUE, FALSE, FALSE),
   Report(-128, 127, FALSE, TRUE, FALSE), Report(0, 0, FALSE, FALSE, FALSE),
   Report(0, 0, FALSE, FALSE, TRUE)}

\* The mouse is initialised and nothing has been typed.
Ready ==
  /\ kbdq = <<>> /\ auxq = <<>> /\ tardy = <<>>
  /\ config = FirstConfig - 32   \* without CONFIG_AUXILIARY_DISABLED
  /\ streaming = "on"
  /\ events = 0
  /\ held = {}
  /\ track = NoReports
  /\ clean = [keys |-> TRUE, mouse |-> TRUE, config |-> TRUE]
  /\ step = "poll"
  /\ pointer_enabled = TRUE
  /\ decoder = NewDecoder
  /\ packet = <<>>
  /\ received_input = FALSE
  /\ app = [NewDesktop EXCEPT !.dirty = FALSE]
  /\ frame = Visible(NewDesktop)

-----------------------------------------------------------------------------
\* A caller finds the rest of the machine switched off, and so does the loop.
KernelOff ==
  /\ machine = CHOOSE m \in Machines : TRUE
  /\ layout = CHOOSE l \in Layouts : TRUE
  /\ kernel = CHOOSE k \in Kernels : TRUE

\* "mouse" begins before the mouse is initialised, and sees two events, where
\* the console sees three of any kind.
MCInit ==
  /\ KernelInit
  /\ \/ mode = "kernel" /\ stored \in KernelDisks /\ Ready
     \/ mode = "caller" /\ stored \in CallerDisks /\ KernelOff /\ Ready
     \/ mode = "console" /\ stored = Blank /\ KernelOff /\ Ready
     \/ mode = "mouse" /\ stored = Blank /\ KernelOff /\ ConsoleInit

MCNext ==
  /\ UNCHANGED mode
  /\ \/ mode = "kernel" /\ KernelNext /\ UNCHANGED cvars
     \/ mode = "caller" /\ FsNext /\ UNCHANGED <<bootvars, probevars, cvars>>
     \/ /\ mode \in {"console", "mouse"}
        /\ ConsoleNext
        /\ mode = "mouse" /\ events' # events => events' <= 2 /\ Len(kbdq') <= 1
        /\ UNCHANGED kvars

MCSpec ==
  /\ MCInit
  /\ [][MCNext]_<<kvars, cvars, mode>>
  /\ WF_<<kvars, cvars, mode>>(mode \in {"console", "mouse"} /\ Kernel /\ UNCHANGED <<kvars, mode>>)

=============================================================================
