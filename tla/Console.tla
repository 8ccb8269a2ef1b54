------------------------------- MODULE Console -------------------------------
(***************************************************************************)
(* The desktop loop of the standalone kernel: PS/2 controller and mouse are *)
(* initialised, then the loop drains the controller, polls the network,     *)
(* draws and waits (kernel/src/input.rs, kernel/src/desktop.rs and the end  *)
(* of kernel-image/src/main.rs).                                            *)
(*                                                                          *)
(* Keyboard and mouse share one output port.  Each sends its bytes in       *)
(* order; which of the two the port shows next is open.  Sizes are pixels.  *)
(* A character is the key that makes it and whether it is the upper one;    *)
(* the text of a terminal line is the command that printed it.              *)
(***************************************************************************)
EXTENDS Integers, FiniteSetsExt, Sequences, SequencesExt

CONSTANTS
  SCREEN_WIDTH, SCREEN_HEIGHT,
  Strokes,          \* what a user types, as sequences of scancodes
  Packets,          \* what the mouse reports: [dx, dy, left, right, overflow]
  CommandOf(_),     \* the command a line of text means, [name, arguments]
  FirstConfig,      \* controller configuration the firmware leaves
  TotalPages,       \* pages the allocator may hand out
  PrintedLines,     \* how many lines a command that reports may print
  MaxEvents         \* bound on the strokes and packets of a behaviour

VARIABLES
  kbdq, auxq,       \* bytes the keyboard and the mouse still have to deliver
  tardy,            \* answers of the mouse that are late
  config,           \* the controller's configuration byte
  streaming,        \* the mouse reports movements
  events,           \* strokes and packets so far
  held,             \* history: shift keys that are down
  track,            \* history: what the mouse reported since it is enabled
  clean,            \* history: no byte was taken for another, late or dropped
  step,             \* where the kernel is
  pointer_enabled, decoder, packet,
  received_input, app,
  frame             \* what the last frame shows

devicevars == <<kbdq, auxq, tardy, config, streaming, events, held, track>>
inputvars == <<pointer_enabled, decoder, packet>>
cvars == <<devicevars, clean, step, inputvars, received_input, app, frame>>

Bit(byte, n) == (byte \div 2^n) % 2 = 1
Clamp(value, low, high) ==
  IF value < low THEN low ELSE IF value > high THEN high ELSE value
AtLeast(value, low) == IF value < low THEN low ELSE value

NoInput == [kind |-> "none"]
Key(kind) == [kind |-> kind]
Character(ch) == [kind |-> "Character", ch |-> ch]

-----------------------------------------------------------------------------
(* Decoders *)

LetterCodes == (16 .. 25) \cup (30 .. 38) \cup (44 .. 50)
PairCodes ==
  (2 .. 13) \cup {26, 27} \cup (39 .. 41) \cup {43} \cup (51 .. 53) \cup {57}
SPACE == 57

map_printable(code, shift, caps_lock) ==
  CASE code \in LetterCodes ->
         Character([code |-> code, upper |-> shift # caps_lock])
    [] code \in PairCodes ->
         Character([code |-> code, upper |-> shift /\ code # SPACE])
    [] OTHER -> NoInput

NewDecoder ==
  [extended |-> FALSE, left_shift |-> FALSE, right_shift |-> FALSE,
   caps_lock |-> FALSE]

\* Mutant: a scancode after 0xE0 is treated like any other.
DecoderAfter_no_prefix(d, scancode) ==
  LET released == scancode >= 128
      code == scancode % 128
      rest == [d EXCEPT !.extended = FALSE]
  IN  CASE scancode = 224 -> [d EXCEPT !.extended = TRUE]
        [] code = 42 -> [rest EXCEPT !.left_shift = ~released]
        [] code = 54 -> [rest EXCEPT !.right_shift = ~released]
        [] code = 58 /\ ~released -> [rest EXCEPT !.caps_lock = ~d.caps_lock]
        [] OTHER -> rest

\* Ps2Set1Decoder::feed, as the next decoder and as what it returns.
DecoderAfter(d, scancode) ==
  LET released == scancode >= 128
      code == scancode % 128
      rest == [d EXCEPT !.extended = FALSE]
  IN  CASE scancode = 224 -> [d EXCEPT !.extended = TRUE]
        [] scancode # 224 /\ d.extended -> rest
        [] code = 42 /\ ~d.extended -> [rest EXCEPT !.left_shift = ~released]
        [] code = 54 /\ ~d.extended -> [rest EXCEPT !.right_shift = ~released]
        [] code = 58 /\ ~d.extended /\ ~released ->
             [rest EXCEPT !.caps_lock = ~d.caps_lock]
        [] OTHER -> rest

ExtendedKeys == 72 :> Key("MoveUp") @@ 80 :> Key("MoveDown")
                @@ 75 :> Key("MoveLeft") @@ 77 :> Key("MoveRight")
ControlKeys == 1 :> Key("Exit") @@ 14 :> Key("Backspace")
               @@ 15 :> Key("CycleFocus") @@ 28 :> Key("Submit")

DecoderInput(d, scancode) ==
  CASE scancode >= 128 -> NoInput
    [] scancode < 128 /\ d.extended ->
         IF scancode \in DOMAIN ExtendedKeys THEN ExtendedKeys[scancode]
         ELSE NoInput
    [] scancode \in {42, 54, 58} /\ ~d.extended -> NoInput
    [] scancode \in DOMAIN ControlKeys /\ ~d.extended -> ControlKeys[scancode]
    [] OTHER -> map_printable(scancode, d.left_shift \/ d.right_shift, d.caps_lock)

\* A negative byte below 128 is a movement of more than 128, and turns positive.
sign_extend_mouse_delta(byte, negative) ==
  IF negative /\ byte >= 128 THEN byte - 256 ELSE byte

\* Ps2MouseDecoder::feed: the bytes of the packet after this one, ...
PacketAfter(bytes, byte) ==
  CASE bytes = <<>> /\ ~Bit(byte, 3) -> <<>>
    [] Len(bytes) = 2 -> <<>>
    [] OTHER -> Append(bytes, byte)

\* ... and the samples it returns.
Samples(bytes, byte) ==
  IF Len(bytes) < 2 \/ Bit(bytes[1], 6) \/ Bit(bytes[1], 7) THEN {}
  ELSE {[delta_x |-> sign_extend_mouse_delta(bytes[2], Bit(bytes[1], 4)),
         delta_y |-> -sign_extend_mouse_delta(byte, Bit(bytes[1], 5)),
         left_button |-> Bit(bytes[1], 0),
         right_button |-> Bit(bytes[1], 1)]}

-----------------------------------------------------------------------------
(* The desktop *)

TERMINAL_WINDOW == 0
MAX_TERMINAL_LINES == 18
NoWindow == -1
NotANumber == -1

Width(index) == IF index = TERMINAL_WINDOW THEN SCREEN_WIDTH \div 2 ELSE SCREEN_WIDTH \div 3
Height(index) == IF index = TERMINAL_WINDOW THEN SCREEN_HEIGHT \div 2 ELSE SCREEN_HEIGHT \div 3

Lines(name, n) == [i \in 1 .. n |-> name]

push_lines(lines, new) ==
  LET all == lines \o new
  IN  SubSeq(all, AtLeast(Len(all) - MAX_TERMINAL_LINES, 0) + 1, Len(all))

\* DesktopApp::new and note_handoff_complete: two lines of TerminalState::new,
\* seven of append_boot_message and one more.
NewDesktop ==
  [windows |-> 0 :> [x |-> 72, y |-> 108]
               @@ 1 :> [x |-> SCREEN_WIDTH \div 2 + 32, y |-> 140],
   focused_window |-> 0,
   cursor |-> [x |-> SCREEN_WIDTH - 180, y |-> SCREEN_HEIGHT \div 2],
   left_button_down |-> FALSE, right_button_down |-> FALSE,
   dragging_window |-> NoWindow, drag_offset |-> [x |-> 0, y |-> 0],
   accent_flip |-> FALSE, should_exit |-> FALSE,
   input |-> <<>>, lines |-> Lines("boot", 10),
   allocated_pages |-> 0, dirty |-> TRUE]

\* What render draws of the desktop.  It also draws statistics of the allocator
\* and the page tables, which change without it.
Visible(a) ==
  <<a.windows, a.focused_window, a.cursor, a.accent_flip, a.input, a.lines>>

MaxX(index) == AtLeast(SCREEN_WIDTH - Width(index) - 24, 24)
MaxY(index) == AtLeast(SCREEN_HEIGHT - Height(index) - 60, 92)

move_window_to(a, index, x, y) ==
  [a EXCEPT !.windows[index] = [x |-> Clamp(x, 24, MaxX(index)),
                                y |-> Clamp(y, 92, MaxY(index))],
            !.dirty = TRUE]

nudge_focused_window(a, dx, dy) ==
  LET window == a.windows[a.focused_window]
  IN  move_window_to(a, a.focused_window, window.x + dx, window.y + dy)

cycle_focus(a) ==
  [a EXCEPT !.focused_window = (a.focused_window + 1) % 2, !.dirty = TRUE]

\* Both hit tests look at the window drawn last first.
Hit(a, point, heights) ==
  LET inside == {i \in 0 .. 1 :
                   /\ point.x >= a.windows[i].x
                   /\ point.x < a.windows[i].x + Width(i)
                   /\ point.y >= a.windows[i].y
                   /\ point.y < a.windows[i].y + heights[i]}
  IN  IF inside = {} THEN NoWindow ELSE Max(inside)

hit_test_title_bar(a, point) == Hit(a, point, [i \in 0 .. 1 |-> 28])
hit_test_window(a, point) == Hit(a, point, [i \in 0 .. 1 |-> Height(i)])

Press(a) ==
  LET title == hit_test_title_bar(a, a.cursor)
      body == hit_test_window(a, a.cursor)
  IN  CASE title # NoWindow ->
             [a EXCEPT !.focused_window = title, !.dragging_window = title,
                       !.drag_offset = [x |-> a.cursor.x - a.windows[title].x,
                                        y |-> a.cursor.y - a.windows[title].y],
                       !.dirty = TRUE]
        [] title = NoWindow /\ body # NoWindow ->
             [a EXCEPT !.focused_window = body, !.dirty = TRUE]
        [] OTHER -> a

Drag(a) ==
  IF a.dragging_window # NoWindow /\ a.left_button_down
  THEN move_window_to(a, a.dragging_window, a.cursor.x - a.drag_offset.x,
                      a.cursor.y - a.drag_offset.y)
  ELSE a

\* Mutant: a release elsewhere than on the title bar does not end the drag.
Release_on_title(a) ==
  IF hit_test_title_bar(a, a.cursor) = NoWindow THEN [a EXCEPT !.dirty = TRUE]
  ELSE [a EXCEPT !.dragging_window = NoWindow, !.dirty = TRUE]

Release(a) == [a EXCEPT !.dragging_window = NoWindow, !.dirty = TRUE]

CursorAfter(point, dx, dy) ==
  [x |-> Clamp(point.x + dx, 0, SCREEN_WIDTH - 12),
   y |-> Clamp(point.y + dy, 0, SCREEN_HEIGHT - 18)]

handle_pointer(a, sample) ==
  LET moved == [a EXCEPT !.cursor = CursorAfter(a.cursor, sample.delta_x, sample.delta_y),
                         !.left_button_down = sample.left_button,
                         !.right_button_down = sample.right_button]
      pressed == IF sample.left_button /\ ~a.left_button_down THEN Press(moved) ELSE moved
      dragged == Drag(pressed)
      released == IF ~sample.left_button /\ a.left_button_down
                  THEN Release(dragged) ELSE dragged
      focused == IF sample.right_button /\ ~a.right_button_down
                 THEN cycle_focus(released) ELSE released
  IN  IF a.cursor = focused.cursor THEN focused ELSE [focused EXCEPT !.dirty = TRUE]

-----------------------------------------------------------------------------
(* The shell *)

\* Commands that print and change nothing else.
PrintingCommands ==
  {"help", "status", "mem", "boot", "kernel", "vm", "regions", "reserved", "region",
   "translate", "walk", "hhdm", "fb", "aliases", "phases", "pt-entry", "about"}

Printed(a, name, n) == [a EXCEPT !.lines = push_lines(@, Lines(name, n))]

\* allocate_pages, for a count of at most 16.
allocate_pages(a, count) ==
  LET free == TotalPages - a.allocated_pages
      allocated == IF count < free THEN count ELSE free
  IN  IF count = 0 THEN Printed(a, "alloc", 1)
      ELSE Printed([a EXCEPT !.allocated_pages = @ + allocated], "alloc", 2)

\* vm-sync, map and map-test change the page tables (VirtualMemory) and take
\* any number of pages.
PageCommands(a, command) ==
  CASE command.name = "alloc-page" -> {allocate_pages(a, 1)}
    [] command.name = "alloc" ->
         IF command.count = NotANumber THEN {Printed(a, "alloc", 1)}
         ELSE {allocate_pages(a, IF command.count < 16 THEN command.count ELSE 16)}
    [] OTHER ->
         {Printed([a EXCEPT !.allocated_pages = n], command.name, k) :
            n \in a.allocated_pages .. TotalPages, k \in 1 .. 2}

Moves ==
  "move-left" :> <<-24, 0>> @@ "move-right" :> <<24, 0>>
  @@ "move-up" :> <<0, -24>> @@ "move-down" :> <<0, 24>>

ScreenCommands(a, name) ==
  CASE name = "theme" -> Printed([a EXCEPT !.accent_flip = ~@], name, 1)
    [] name = "clear" -> Printed([a EXCEPT !.lines = <<>>], name, 1)
    [] name = "focus" -> Printed(cycle_focus(a), name, 1)
    [] name \in DOMAIN Moves ->
         Printed(nudge_focused_window(a, Moves[name][1], Moves[name][2]), name, 1)
    [] name = "exit" -> Printed([a EXCEPT !.should_exit = TRUE], name, 1)
    [] OTHER -> Printed(a, "unknown", 1)

\* trim
Trim(text) ==
  LET ink == {i \in DOMAIN text : text[i].code # SPACE}
  IN  IF ink = {} THEN <<>> ELSE SubSeq(text, Min(ink), Max(ink))

\* The desktops a submitted line may lead to.
submit_command(a) ==
  LET line == Trim(a.input)
      echoed == Printed([a EXCEPT !.input = <<>>, !.dirty = TRUE], "prompt", 1)
      command == CommandOf(line)
  IN  CASE line = <<>> -> {echoed}
        [] line # <<>> /\ command.name \in PrintingCommands ->
             {Printed(echoed, command.name, n) : n \in PrintedLines}
        [] line # <<>> /\ command.name \in {"alloc-page", "alloc", "vm-sync", "map-test", "map"} ->
             PageCommands(echoed, command)
        [] OTHER -> {ScreenCommands(echoed, command.name)}

Arrows ==
  "MoveLeft" :> <<-18, 0>> @@ "MoveRight" :> <<18, 0>>
  @@ "MoveUp" :> <<0, -18>> @@ "MoveDown" :> <<0, 18>>

handle_input(a, key) ==
  LET terminal == a.focused_window = TERMINAL_WINDOW
  IN  CASE key.kind \in DOMAIN Arrows ->
             {nudge_focused_window(a, Arrows[key.kind][1], Arrows[key.kind][2])}
        [] key.kind = "CycleFocus" -> {cycle_focus(a)}
        [] key.kind = "Exit" -> {[a EXCEPT !.should_exit = TRUE]}
        [] key.kind = "Backspace" /\ terminal /\ a.input # <<>> ->
             {[a EXCEPT !.input = Front(@), !.dirty = TRUE]}
        [] key.kind = "Submit" /\ terminal -> submit_command(a)
        [] key.kind = "Character" /\ terminal ->
             {[a EXCEPT !.input = Append(@, key.ch), !.dirty = TRUE]}
        [] OTHER -> {a}

-----------------------------------------------------------------------------
(* Keyboard and mouse *)

ACKNOWLEDGED == 250

\* Where the packets that came whole lead and the button in the last of them;
\* the button in the last packet of all, and whether that one overflowed.
NoReports ==
  [cursor |-> NewDesktop.cursor, whole |-> FALSE, left |-> FALSE, overflowed |-> FALSE]

\* The desktop has been drawn once before.
ConsoleInit ==
  /\ kbdq = <<>> /\ auxq = <<>> /\ tardy = <<>>
  /\ config = FirstConfig
  /\ streaming \in {"off", "firmware"}
  /\ events = 0
  /\ held = {}
  /\ track = NoReports
  /\ clean = [keys |-> TRUE, mouse |-> TRUE, config |-> TRUE]
  /\ step = "drain"
  /\ pointer_enabled = FALSE
  /\ decoder = NewDecoder
  /\ packet = <<>>
  /\ received_input = FALSE
  /\ app = [NewDesktop EXCEPT !.dirty = FALSE]
  /\ frame = Visible(NewDesktop)

loopvars == <<clean, step, inputvars, received_input, app, frame>>

\* A stroke sends its bytes, and may press or let go of a shift key.
Type ==
  /\ events < MaxEvents
  /\ \E stroke \in Strokes :
       /\ stroke.needs \subseteq held
       /\ stroke.down \cap held = {}
       /\ kbdq' = kbdq \o stroke.bytes
       /\ held' = (held \ stroke.up) \cup stroke.down
  /\ events' = events + 1
  /\ UNCHANGED <<auxq, tardy, config, streaming, track, loopvars>>

Flag(condition, n) == IF condition THEN 2^n ELSE 0

Bytes(p) ==
  <<8 + Flag(p.left, 0) + Flag(p.right, 1) + Flag(p.dx < 0, 4) + Flag(p.dy < 0, 5)
      + Flag(p.overflow, 6), p.dx % 256, p.dy % 256>>

\* The mouse counts upwards, the screen downwards.
MouseReports ==
  /\ events < MaxEvents
  /\ streaming # "off"
  /\ tardy = <<>>
  /\ \E p \in Packets :
       /\ auxq' = auxq \o Bytes(p)
       /\ track' = IF streaming # "on" THEN track
                   ELSE [cursor |-> IF p.overflow THEN track.cursor
                                    ELSE CursorAfter(track.cursor, p.dx, -p.dy),
                         whole |-> IF p.overflow THEN track.whole ELSE p.left,
                         left |-> p.left, overflowed |-> p.overflow]
  /\ events' = events + 1
  /\ UNCHANGED <<kbdq, tardy, config, streaming, held, loopvars>>

LateAnswer ==
  /\ tardy # <<>>
  /\ auxq' = auxq \o tardy
  /\ tardy' = <<>>
  /\ UNCHANGED <<kbdq, config, streaming, events, held, track, loopvars>>

-----------------------------------------------------------------------------
(* initialize_pointer_device *)

desktopvars == <<decoder, packet, received_input, app, frame>>

DrainOutput ==
  /\ step = "drain"
  /\ kbdq' = <<>> /\ auxq' = <<>>
  /\ clean' = [clean EXCEPT !.keys = @ /\ kbdq = <<>>]
  /\ step' = "enable"
  /\ UNCHANGED <<tardy, config, streaming, events, held, track, pointer_enabled,
                 desktopvars>>

\* The controller may stay busy for as long as the kernel waits.
EnableAuxiliary ==
  /\ step = "enable"
  /\ step' \in {"config", "poll"}
  /\ UNCHANGED <<devicevars, clean, pointer_enabled, desktopvars>>

EnabledConfig(byte) == byte - Flag(Bit(byte, 5), 5)

\* read_controller_config takes the byte the port shows, whoever sent it.  The
\* controller's own answer then waits behind it, and so does one that comes when
\* the kernel has given up reading.
ReadWriteConfig ==
  /\ step = "config"
  /\ \/ UNCHANGED <<kbdq, auxq, config, clean>>
     \/ /\ kbdq' = Append(kbdq, config)
        /\ clean' = [clean EXCEPT !.keys = FALSE]
        /\ UNCHANGED <<auxq, config>>
     \/ /\ config' \in {config, EnabledConfig(config)}
        /\ UNCHANGED <<kbdq, auxq, clean>>
     \/ /\ kbdq # <<>>
        /\ config' \in {config, EnabledConfig(Head(kbdq))}
        /\ kbdq' = Append(Tail(kbdq), config)
        /\ clean' = [clean EXCEPT !.keys = FALSE, !.config = FALSE]
        /\ UNCHANGED auxq
     \/ /\ auxq # <<>>
        /\ config' \in {config, EnabledConfig(Head(auxq))}
        /\ auxq' = Tail(auxq)
        /\ kbdq' = Append(kbdq, config)
        /\ clean' = [clean EXCEPT !.keys = FALSE, !.config = FALSE]
  /\ step' = "defaults"
  /\ UNCHANGED <<tardy, streaming, events, held, track, pointer_enabled, desktopvars>>

\* send_mouse_command.  The answer comes in time, late or never; what the
\* keyboard sends meanwhile is read and dropped.  `extra` more bytes are read
\* after the acknowledgement.
send_mouse_command(answers, extra, reached, ok) ==
  \/ /\ ~reached /\ ~ok
     /\ UNCHANGED <<kbdq, auxq, tardy, clean>>
  \/ \E reply \in IF reached THEN {"in time", "late"} ELSE {"never"} :
       LET queue == IF reply = "in time" THEN auxq \o tardy \o answers ELSE auxq
       IN  /\ ok = (queue # <<>> /\ queue[1] = ACKNOWLEDGED)
           /\ auxq' = SubSeq(queue, IF ok THEN 2 + extra ELSE 2, Len(queue))
           /\ tardy' = CASE reply = "in time" -> <<>>
                         [] reply = "late" -> tardy \o answers
                         [] reply = "never" -> tardy
           /\ \E n \in IF queue = <<>> THEN {Len(kbdq)} ELSE 0 .. Len(kbdq) :
                 /\ kbdq' = SubSeq(kbdq, n + 1, Len(kbdq))
                 /\ clean' = [clean EXCEPT !.keys = @ /\ n = 0,
                                           !.mouse = @ /\ reply # "late"]

SetDefaults == \E reached, ok \in BOOLEAN :
  /\ step = "defaults"
  /\ send_mouse_command(<<ACKNOWLEDGED>>, 0, reached, ok)
  /\ streaming' = IF reached THEN "off" ELSE streaming
  /\ step' = IF ok THEN "identify" ELSE "poll"
  /\ UNCHANGED <<config, events, held, track, pointer_enabled, desktopvars>>

Identify == \E reached, ok \in BOOLEAN :
  /\ step = "identify"
  /\ send_mouse_command(<<ACKNOWLEDGED, 0>>, 1, reached, ok)
  /\ step' = "stream"
  /\ UNCHANGED <<config, streaming, events, held, track, pointer_enabled, desktopvars>>

EnableStreaming == \E reached, ok \in BOOLEAN :
  /\ step = "stream"
  /\ send_mouse_command(<<ACKNOWLEDGED>>, 0, reached, ok)
  /\ streaming' = IF reached THEN "on" ELSE streaming
  /\ pointer_enabled' = ok
  /\ step' = "poll"
  /\ UNCHANGED <<config, events, held, track, desktopvars>>

-----------------------------------------------------------------------------
(* The loop *)

othervars == <<tardy, config, streaming, events, held, track, clean, pointer_enabled>>

\* poll_event reads a keyboard byte; a key goes to the desktop at once.
PollKeyboard ==
  /\ step = "poll"
  /\ kbdq # <<>>
  /\ kbdq' = Tail(kbdq)
  /\ decoder' = DecoderAfter(decoder, Head(kbdq))
  /\ LET key == DecoderInput(decoder, Head(kbdq))
     IN  /\ app' \in IF key.kind = "none" THEN {app} ELSE handle_input(app, key)
         /\ received_input' = (received_input \/ key.kind # "none")
  /\ UNCHANGED <<auxq, step, packet, frame, othervars>>

PollMouse ==
  /\ step = "poll"
  /\ auxq # <<>>
  /\ auxq' = Tail(auxq)
  /\ IF pointer_enabled
     THEN /\ packet' = PacketAfter(packet, Head(auxq))
          /\ LET samples == Samples(packet, Head(auxq))
             IN  /\ app' \in IF samples = {} THEN {app}
                              ELSE {handle_pointer(app, s) : s \in samples}
                 /\ received_input' = (received_input \/ samples # {})
     ELSE UNCHANGED <<packet, app, received_input>>
  /\ UNCHANGED <<kbdq, step, decoder, frame, othervars>>

\* Nothing is left; the network is polled (TcpListener), and may fail.
PollNothing ==
  /\ step = "poll"
  /\ kbdq = <<>> /\ auxq = <<>>
  /\ \/ step' = "draw" /\ received_input' \in {received_input, TRUE}
     \/ step' = "halted" /\ UNCHANGED received_input
  /\ UNCHANGED <<kbdq, auxq, decoder, packet, app, frame, othervars>>

Draw ==
  /\ step = "draw"
  /\ frame' = IF app.dirty THEN Visible(app) ELSE frame
  /\ app' = [app EXCEPT !.dirty = FALSE]
  /\ step' = CASE app.should_exit -> "halted"
              [] ~app.should_exit /\ received_input -> "poll"
              [] OTHER -> "wait"
  /\ received_input' = FALSE
  /\ UNCHANGED <<kbdq, auxq, decoder, packet, othervars>>

\* Mutant: the timer is masked too; the loop goes on only when it had input.
WaitForInterrupt_masked ==
  /\ step = "wait"
  /\ received_input
  /\ step' = "poll"
  /\ UNCHANGED <<kbdq, auxq, decoder, packet, received_input, app, frame, othervars>>

\* The timer is the only interrupt that is not masked, and it keeps coming.
WaitForInterrupt ==
  /\ step = "wait"
  /\ step' = "poll"
  /\ UNCHANGED <<kbdq, auxq, decoder, packet, received_input, app, frame, othervars>>

Devices == Type \/ MouseReports \/ LateAnswer
Kernel ==
  \/ DrainOutput \/ EnableAuxiliary \/ ReadWriteConfig
  \/ SetDefaults \/ Identify \/ EnableStreaming
  \/ PollKeyboard \/ PollMouse \/ PollNothing \/ Draw \/ WaitForInterrupt

ConsoleNext == Devices \/ Kernel

\* The kernel never stops between two steps, and the timer never stops.
ConsoleSpec == ConsoleInit /\ [][ConsoleNext]_cvars /\ WF_cvars(Kernel)

-----------------------------------------------------------------------------
(* Properties *)

\* The terminal keeps its bound, the decoder a packet that is not complete, and
\* the desktop a window of the two.
ConsoleTypeOK ==
  /\ Len(app.lines) <= MAX_TERMINAL_LINES
  /\ Len(packet) <= 2
  /\ app.focused_window \in 0 .. 1
  /\ app.dragging_window \in {NoWindow, 0, 1}
  /\ app.allocated_pages \in 0 .. TotalPages
  /\ config \in 0 .. 255

\* Once all that was typed is read, the decoder's shift flags are those of the
\* keys that are down, in spite of the shift codes the keyboard itself adds
\* around arrow keys and of mouse bytes in between.
ModifiersFollowKeys ==
  clean.keys /\ kbdq = <<>> /\ ~decoder.extended =>
    decoder.left_shift = ("left" \in held) /\ decoder.right_shift = ("right" \in held)

\* Once all packets are read, cursor and button are where those lead that came
\* whole since streaming was enabled, unless the mouse answered a command late:
\* no packet is cut, joined with another or taken for an answer.  The movements
\* are within a signed byte, and a packet that overflowed is dropped with the
\* buttons it carries.
CursorFollowsMouse ==
  pointer_enabled /\ clean.mouse /\ auxq = <<>> =>
    /\ packet = <<>>
    /\ app.cursor = track.cursor
    /\ app.left_button_down = track.whole

\* Enabling the mouse changes no other bit of the controller's configuration,
\* unless a byte of a device was taken for it.
ConfigKept ==
  clean.config => \A n \in 0 .. 7 : n # 5 => Bit(config, n) = Bit(FirstConfig, n)

\* A drag does not outlive the button on the mouse: once all packets are read,
\* a window that is dragged means the button is down, or the last packet
\* overflowed and was dropped, button and all; the next whole one ends the drag.
\* Whatever came late, the desktop itself has the button for down.
DragNeedsButton ==
  app.dragging_window # NoWindow =>
    /\ app.left_button_down
    /\ pointer_enabled /\ clean.mouse /\ auxq = <<>> => track.left \/ track.overflowed

\* Windows stay on the screen, clear of the bars at its top and bottom.
WindowsOnScreen ==
  \A i \in 0 .. 1 :
    /\ app.windows[i].x \in 24 .. MaxX(i)
    /\ app.windows[i].y \in 92 .. MaxY(i)

\* The processor is halted only behind a frame that shows the desktop as it is.
FrameCurrent == step = "wait" => frame = Visible(app) /\ ~app.should_exit

\* What is typed or moved reaches the kernel: the loop comes back to the port
\* until it halts for good.
InputHandled ==
  (kbdq # <<>> \/ auxq # <<>>) ~> ((kbdq = <<>> /\ auxq = <<>>) \/ step = "halted")

\* What the decoders make of the bytes is what was done to the devices: shift
\* keys, cursor and button follow keyboard and mouse, and the controller keeps
\* its configuration, as long as no byte came late or was taken for another.
InputFollowed == ModifiersFollowKeys /\ CursorFollowsMouse /\ ConfigKept

\* The desktop stays usable and the screen shows it: windows on the screen, a
\* drag over with the first whole packet that reports the button up, and nothing
\* to redraw when the loop waits.
DesktopShown == ConsoleTypeOK /\ DragNeedsButton /\ WindowsOnScreen /\ FrameCurrent
=============================================================================
