------------------------------- MODULE Ssd1315 -------------------------------
(***************************************************************************)
(* The display application of ch32v0/ssd1315_i2c - ssd1315_init(),         *)
(* ssd1315_refresh(), ssd1315_probe() and main() - with the panel          *)
(* controller at the other end of the bus (external).                      *)
(*                                                                         *)
(* ssd1315_write() is used through its promise (I2cTransfer.tla): the      *)
(* panel takes the bytes in order, and the call returns -1 if it stops     *)
(* before the last.  The MCU may be reset between any two bytes.  The      *)
(* panel has no reset line, so it keeps its memory, its window and even a  *)
(* command whose arguments have not all come.                              *)
(***************************************************************************)
EXTENDS Naturals, Sequences

CONSTANTS
    Width,       \* SSD1315_WIDTH: 128 in the code
    Pages,       \* SSD1315_PAGES: 8 in the code
    Bytes,       \* the display bytes draw_pattern() may leave
    Images,      \* the framebuffers it may leave
    Builds,      \* the build options, see Build
    MaxResets    \* bound: MCU resets

FbSize == Width * Pages

\* SSD1315_USE_INTERNAL_IREF, SSD1315_ALL_ON and SSD1315_ACK_PROBE.
Build == [iref : BOOLEAN, allOn : BOOLEAN, probe : BOOLEAN]

ASSUME Ssd1315Assumption ==
    /\ Width \in 1..128 /\ Pages \in 1..8
    /\ Bytes \subseteq 0..255
    /\ Images \subseteq [0..FbSize - 1 -> Bytes]
    /\ Builds \subseteq Build
    /\ MaxResets \in Nat

VARIABLES
    build,       \* the build that runs; never changes
    pc,          \* where main() is
    framebuffer, \* framebuffer[]
    control,     \* the control byte of the write under way
    todo,        \* the bytes of that write that are still to go
    panel,       \* the panel controller (external)
    resets

vars == <<build, pc, framebuffer, control, todo, panel, resets>>

\* "acked" and "unacked" are the two ends of a probing build, told apart by
\* ssd1315_probe_result.
Label == {"start", "probe", "acked", "unacked", "init", "draw", "window",
          "data", "halt", "failed"}

-----------------------------------------------------------------------------
(* The byte strings of the source.                                         *)

init_IrefSplit ==
    <<174, 213, 128, 168, Pages * 8 - 1, 211, 0, 64, 32, 0, 161, 200, 218, 18,
      129, 207, 217, 242, 219, 32>>
    \o (IF build.iref THEN <<173>> ELSE <<>>)
    \o <<IF build.allOn THEN 165 ELSE 164, 166, 46, 141, 20, 175>>
init_OnFirst ==
    <<174, 175, 213, 128, 168, Pages * 8 - 1, 211, 0, 64, 32, 0, 161, 200, 218,
      18, 129, 207, 217, 242, 219, 32>>
    \o (IF build.iref THEN <<173, 48>> ELSE <<>>)
    \o <<IF build.allOn THEN 165 ELSE 164, 166, 46, 141, 20>>
\* The init[] table of ssd1315_init().
init ==
    <<174, 213, 128, 168, Pages * 8 - 1, 211, 0, 64, 32, 0, 161, 200, 218, 18,
      129, 207, 217, 242, 219, 32>>
    \o (IF build.iref THEN <<173, 48>> ELSE <<>>)
    \o <<IF build.allOn THEN 165 ELSE 164, 166, 46, 141, 20, 175>>

window_EndIsSize == <<33, 0, Width, 34, 0, Pages>>
\* The window[] table of ssd1315_refresh().
window == <<33, 0, Width - 1, 34, 0, Pages - 1>>

-----------------------------------------------------------------------------
(* The panel controller (external): a command byte, then its arguments;    *)
(* a data byte goes to the pointer, which moves through the window.        *)

ArgsOf(cmd) ==
    CASE cmd \in {33, 34} -> 2
      [] cmd \in {32, 129, 141, 168, 173, 211, 213, 217, 218, 219} -> 1
      [] OTHER -> 0

\* At power-up: display and pump off, page addressing, an unknown memory.
Unknown == 256
PowerUpPanel == [cmd |-> 0, args |-> <<>>, on |-> FALSE, pump |-> FALSE,
                 allOn |-> FALSE, mux |-> 63, mode |-> 2, iref |-> 0,
                 c0 |-> 0, c1 |-> Width - 1, p0 |-> 0, p1 |-> Pages - 1,
                 col |-> 0, page |-> 0,
                 ram |-> [n \in 0..FbSize - 1 |-> Unknown]]

Execute(p, cmd, args) ==
    CASE cmd = 174 -> [p EXCEPT !.on = FALSE]
      [] cmd = 175 -> [p EXCEPT !.on = TRUE]
      [] cmd = 141 -> [p EXCEPT !.pump = (args[1] = 20)]
      [] cmd = 164 -> [p EXCEPT !.allOn = FALSE]
      [] cmd = 165 -> [p EXCEPT !.allOn = TRUE]
      [] cmd = 168 -> [p EXCEPT !.mux = args[1]]
      [] cmd = 173 -> [p EXCEPT !.iref = args[1]]
      [] cmd = 32  -> [p EXCEPT !.mode = args[1]]
      [] cmd = 33  -> [p EXCEPT !.c0 = args[1], !.c1 = args[2],
                                !.col = args[1]]
      [] cmd = 34  -> [p EXCEPT !.p0 = args[1], !.p1 = args[2],
                                !.page = args[1]]
      [] OTHER -> p

TakeCommand(p, b) ==
    LET cmd  == IF p.cmd = 0 THEN b ELSE p.cmd
        args == IF p.cmd = 0 THEN <<>> ELSE Append(p.args, b)
    IN  IF Len(args) = ArgsOf(cmd)
        THEN [Execute(p, cmd, args) EXCEPT !.cmd = 0, !.args = <<>>]
        ELSE [p EXCEPT !.cmd = cmd, !.args = args]

\* In horizontal addressing (mode 0) the pointer wraps inside the window; in
\* page addressing it stays on its page.  Outside the memory nothing is kept.
TakeData(p, b) ==
    LET n == p.page * Width + p.col IN
    [p EXCEPT
        !.ram = IF n \in DOMAIN p.ram THEN [p.ram EXCEPT ![n] = b] ELSE p.ram,
        !.col = IF p.col = p.c1 THEN p.c0 ELSE p.col + 1,
        !.page = IF p.col # p.c1 \/ p.mode # 0 THEN p.page
                 ELSE IF p.page = p.p1 THEN p.p0 ELSE p.page + 1]

-----------------------------------------------------------------------------

Init ==
    /\ build \in Builds
    /\ pc = "start"
    /\ framebuffer = [n \in 0..FbSize - 1 |-> 0]
    /\ control = "command"
    /\ todo = <<>>
    /\ panel = PowerUpPanel
    /\ resets = 0

Begin(label, kind, bytes) ==
    /\ pc' = label /\ control' = kind /\ todo' = bytes

\* main() has set up the pins and waited for the panel's own reset.
Start ==
    /\ pc = "start"
    /\ IF build.probe THEN Begin("probe", "command", <<174>>)
       ELSE Begin("init", "command", init)
    /\ UNCHANGED <<build, framebuffer, panel, resets>>

\* ssd1315_write() under way: the panel takes the next byte.
SendByte ==
    /\ todo # <<>>
    /\ panel' = IF control = "command" THEN TakeCommand(panel, Head(todo))
                ELSE TakeData(panel, Head(todo))
    /\ todo' = Tail(todo)
    /\ UNCHANGED <<build, pc, framebuffer, control, resets>>

\* It returns -1: main() stops for good.
AfterFailure == IF pc = "probe" THEN "unacked" ELSE "failed"

WriteFails ==
    /\ pc \in {"probe", "init", "window", "data"}
    /\ pc' = AfterFailure /\ todo' = <<>>
    /\ UNCHANGED <<build, framebuffer, control, panel, resets>>

\* It returns 0.
AfterInit_Halt == "halt"
AfterInit == IF build.allOn THEN "halt" ELSE "draw"

ProbeDone ==
    /\ pc = "probe" /\ todo = <<>>
    /\ pc' = "acked"
    /\ UNCHANGED <<build, framebuffer, control, todo, panel, resets>>

InitDone ==
    /\ pc = "init" /\ todo = <<>>
    /\ pc' = AfterInit
    /\ UNCHANGED <<build, framebuffer, control, todo, panel, resets>>

\* draw_pattern(), then the first write of ssd1315_refresh().
Draw ==
    /\ pc = "draw"
    /\ framebuffer' \in Images
    /\ Begin("window", "command", window)
    /\ UNCHANGED <<build, panel, resets>>

DisplayData == [n \in 1..FbSize |-> framebuffer[n - 1]]

WindowDone ==
    /\ pc = "window" /\ todo = <<>>
    /\ Begin("data", "data", DisplayData)
    /\ UNCHANGED <<build, framebuffer, panel, resets>>

DataDone ==
    /\ pc = "data" /\ todo = <<>>
    /\ pc' = "draw"
    /\ UNCHANGED <<build, framebuffer, control, todo, panel, resets>>

\* The MCU is reset; .bss is cleared, the panel notices nothing.
McuReset ==
    /\ resets < MaxResets
    /\ resets' = resets + 1
    /\ pc' = "start" /\ todo' = <<>> /\ control' = "command"
    /\ framebuffer' = [n \in 0..FbSize - 1 |-> 0]
    /\ UNCHANGED <<build, panel>>

Halted ==
    /\ pc \in {"acked", "unacked", "halt", "failed"}
    /\ UNCHANGED vars

Cpu == Start \/ SendByte \/ ProbeDone \/ InitDone \/ Draw \/ WindowDone
       \/ DataDone

Next == Cpu \/ WriteFails \/ McuReset \/ Halted

Spec == Init /\ [][Next]_vars
FairSpec == Spec /\ WF_vars(Cpu)

-----------------------------------------------------------------------------
(* Properties.                                                             *)

\* While a refresh runs, a byte already sent is on the panel where the
\* framebuffer has it, and when ssd1315_refresh() returns 0 all of them are:
\* whatever window, pointer or half-sent command earlier boots left behind.
ImageShown ==
    pc = "data" =>
        \A n \in 0..FbSize - Len(todo) - 1 : panel.ram[n] = framebuffer[n]

\* The display is only ever switched on with the charge pump running, as the
\* power-on sequence in ssd1315_init() requires.
PumpBeforeOn == [][~panel.on /\ panel.on' => panel.pump]_vars

\* When ssd1315_init() returns 0 the panel is in the state the table asks
\* for: every argument went to its own command.  (After a reset of the MCU in
\* the middle of a command this holds as well: the first two commands of the
\* table are the only ones that can be lost.)
InitTakesEffect ==
    pc = "init" /\ todo = <<>> =>
        /\ panel.on /\ panel.pump /\ panel.mode = 0
        /\ panel.mux = Pages * 8 - 1
        /\ panel.allOn = build.allOn
        /\ panel.iref = IF build.iref THEN 48 ELSE 0
        /\ panel.cmd = 0

\* Unless a write fails, a build that draws keeps putting frames on the panel.
FramesKeepComing ==
    build.allOn \/ build.probe
    \/ <>[](pc = "failed") \/ []<>(pc = "data" /\ todo = <<>>)

=============================================================================
