--------------------------- MODULE Ssd1315Proofs ---------------------------
(***************************************************************************)
(* Theorems about the display application of Ssd1315.tla, for any size of  *)
(* the panel, any pictures, every build and any number of resets of the    *)
(* MCU: whatever half-sent command a reset leaves in the panel, what       *)
(* ssd1315_init() returns from has taken effect, the pump runs before the  *)
(* display, and a refresh shows the framebuffer.                           *)
(***************************************************************************)
EXTENDS Ssd1315, SequenceTheorems, TLAPS

-----------------------------------------------------------------------------
(* The inductive invariant.                                                *)

\* The types of the panel controller.
Panel ==
    [cmd : Nat, args : Seq(Nat), on : BOOLEAN, pump : BOOLEAN, allOn : BOOLEAN,
     mux : Nat, mode : Nat, iref : Nat, c0 : Nat, c1 : Nat, p0 : Nat, p1 : Nat,
     col : Nat, page : Nat, ram : [0..FbSize - 1 -> Nat]]

\* The panel waits for a command, or for the last arguments of one.
Pending(p) ==
    \/ p.cmd = 0 /\ p.args = <<>>
    \/ ArgsOf(p.cmd) = 1 /\ p.args = <<>>
    \/ ArgsOf(p.cmd) = 2 /\ Len(p.args) \in {0, 1}

\* The labels of main() at which a write is under way.
Writing == {"probe", "init", "window", "data"}

\* The write under way, and how much of it the panel has taken.
Table == IF pc = "probe" THEN <<174>>
         ELSE IF pc = "init" THEN init
         ELSE IF pc = "window" THEN window ELSE DisplayData
Sent == Len(Table) - Len(todo)

\* The types of what the proof follows.
TypeInv ==
    /\ build \in Build
    /\ pc \in Label
    /\ framebuffer \in [0..FbSize - 1 -> Nat]
    /\ todo \in Seq(Nat)
    /\ panel \in Panel
    /\ Pending(panel)

\* What is still to go is the end of the table.
RestInv ==
    IF pc \in Writing
    THEN /\ control = IF pc = "data" THEN "data" ELSE "command"
         /\ Len(todo) <= Len(Table)
         /\ \A k \in 1..Len(todo) : todo[k] = Table[Sent + k]
    ELSE todo = <<>>

\* The command of the table whose argument comes next, if any.
Opened(n) ==
    LET last == Len(init) IN
    CASE n = 4 -> 168 [] n = 6 -> 211 [] n = 9 -> 32 [] n = 13 -> 218
      [] n = 15 -> 129 [] n = 17 -> 217 [] n = 19 -> 219
      [] n = 21 /\ build.iref -> 173
      [] n = last - 2 -> 141
      [] OTHER -> 0

\* A command left open takes at most the first two bytes of the table; from
\* the third on the panel is where the table is.
InStep(n, p) ==
    /\ n = 1 => p.cmd = 0 \/ (ArgsOf(p.cmd) = 2 /\ Len(p.args) = 1)
    /\ n = 2 => p.cmd \in {0, 213}
    /\ n >= 3 => p.cmd = Opened(n)

\* What the table has achieved after n bytes.
Achieved(n, p) ==
    /\ n >= 5 => p.mux = Pages * 8 - 1
    /\ n >= 10 => p.mode = 0
    /\ n >= 22 /\ build.iref => p.iref = 48
    /\ n >= Len(init) - 5 => (p.allOn <=> build.allOn)
    /\ n >= Len(init) - 1 => p.pump
    /\ n >= Len(init) => p.on

\* While the table is sent, the panel is where the table is.
InitInv == pc = "init" => InStep(Sent, panel) /\ Achieved(Sent, panel)

\* A build that does not select the current reference never does.
NoIref(p) == ~build.iref => p.cmd # 173 /\ p.iref = 0
IrefInv == NoIref(panel)

\* What the window table has achieved after n bytes.
WindowAt(n, p) ==
    /\ n \in {0, 3, 6} => p.cmd = 0
    /\ n \in {1, 2} => p.cmd = 33
    /\ n \in {4, 5} => p.cmd = 34
    /\ n \in {1, 4} => Len(p.args) = 0
    /\ n \in {2, 5} => Len(p.args) = 1 /\ p.args[1] = 0
    /\ n >= 3 => p.c0 = 0 /\ p.c1 = Width - 1 /\ p.col = 0
    /\ n >= 6 => p.p0 = 0 /\ p.p1 = Pages - 1 /\ p.page = 0

\* From the end of the initialisation on the panel is in step with the
\* refreshes, and while a frame is sent the window is the whole screen.
Ready(p) == p.cmd = 0 /\ p.mode = 0
Whole(p) == /\ p.c0 = 0 /\ p.c1 = Width - 1
            /\ p.p0 = 0 /\ p.p1 = Pages - 1
WindowInv ==
    /\ pc \in {"draw", "data"} => Ready(panel)
    /\ pc = "window" => panel.mode = 0 /\ WindowAt(Sent, panel)
    /\ pc = "data" => Whole(panel)

\* The pointer is at the next byte of the frame, and those before are shown.
PointerInv ==
    pc = "data" =>
        /\ Sent < FbSize => /\ panel.col \in 0..Width - 1
                            /\ panel.page \in 0..Pages - 1
                            /\ panel.page * Width + panel.col = Sent
        /\ \A n \in 0..Sent - 1 : panel.ram[n] = framebuffer[n]

\* The inductive invariant.
IInv ==
    /\ TypeInv
    /\ RestInv
    /\ InitInv
    /\ IrefInv
    /\ WindowInv
    /\ PointerInv

-----------------------------------------------------------------------------
(* The panel.                                                              *)

\* The sizes of the panel.
LEMMA Sizes ==
    /\ Width \in Nat /\ Pages \in Nat /\ Width >= 1 /\ Pages >= 1
    /\ FbSize \in Nat
  <1>1. Width \in Nat /\ Pages \in Nat /\ Width >= 1 /\ Pages >= 1
    BY Ssd1315Assumption
  <1>2. \A m, n \in Nat : m * n \in Nat
    OBVIOUS
  <1>3. QED
    BY <1>1, <1>2 DEF FbSize

\* What executing a command changes, and what it leaves.
Effect(q, p, cmd, args) ==
    /\ q.on <=> (cmd = 175 \/ (cmd # 174 /\ p.on))
    /\ q.pump <=> (IF cmd = 141 THEN args[1] = 20 ELSE p.pump)
    /\ q.allOn <=> (cmd = 165 \/ (cmd # 164 /\ p.allOn))
    /\ q.mux = IF cmd = 168 THEN args[1] ELSE p.mux
    /\ q.iref = IF cmd = 173 THEN args[1] ELSE p.iref
    /\ q.mode = IF cmd = 32 THEN args[1] ELSE p.mode
    /\ q.c0 = IF cmd = 33 THEN args[1] ELSE p.c0
    /\ q.c1 = IF cmd = 33 THEN args[2] ELSE p.c1
    /\ q.col = IF cmd = 33 THEN args[1] ELSE p.col
    /\ q.p0 = IF cmd = 34 THEN args[1] ELSE p.p0
    /\ q.p1 = IF cmd = 34 THEN args[2] ELSE p.p1
    /\ q.page = IF cmd = 34 THEN args[1] ELSE p.page
    /\ q.ram = p.ram

\* Each register the commands write keeps the panel a panel.
LEMMA Updated ==
    ASSUME NEW p \in Panel, NEW m \in Nat, NEW n \in Nat
    PROVE  /\ \A b \in BOOLEAN : /\ [p EXCEPT !.on = b] \in Panel
                               /\ [p EXCEPT !.pump = b] \in Panel
                               /\ [p EXCEPT !.allOn = b] \in Panel
           /\ [p EXCEPT !.mux = m] \in Panel
           /\ [p EXCEPT !.iref = m] \in Panel
           /\ [p EXCEPT !.mode = m] \in Panel
           /\ [p EXCEPT !.c0 = m, !.c1 = n, !.col = m] \in Panel
           /\ [p EXCEPT !.p0 = m, !.p1 = n, !.page = m] \in Panel
  <1>1. \A b \in BOOLEAN : [p EXCEPT !.on = b] \in Panel
    BY DEF Panel
  <1>2. \A b \in BOOLEAN : [p EXCEPT !.pump = b] \in Panel
    BY DEF Panel
  <1>3. \A b \in BOOLEAN : [p EXCEPT !.allOn = b] \in Panel
    BY DEF Panel
  <1>4. [p EXCEPT !.mux = m] \in Panel
    BY DEF Panel
  <1>5. [p EXCEPT !.iref = m] \in Panel
    BY DEF Panel
  <1>6. [p EXCEPT !.mode = m] \in Panel
    BY DEF Panel
  <1>7. [p EXCEPT !.c0 = m, !.c1 = n, !.col = m] \in Panel
    BY DEF Panel
  <1>8. [p EXCEPT !.p0 = m, !.p1 = n, !.page = m] \in Panel
    BY DEF Panel
  <1>9. QED
    BY <1>1, <1>2, <1>3, <1>4, <1>5, <1>6, <1>7, <1>8

\* Executing a command has its effect and no other.
LEMMA Executed ==
    ASSUME NEW p \in Panel, NEW cmd \in Nat, NEW args \in Seq(Nat),
           Len(args) = ArgsOf(cmd)
    PROVE  /\ Execute(p, cmd, args) \in Panel
           /\ Effect(Execute(p, cmd, args), p, cmd, args)
  <1> DEFINE q == Execute(p, cmd, args)
  <1>1. /\ cmd \in {32, 141, 168, 173} => args[1] \in Nat
        /\ cmd \in {33, 34} => args[1] \in Nat /\ args[2] \in Nat
    BY DEF ArgsOf
  <1>2. CASE cmd = 174
    <2>1. q = [p EXCEPT !.on = FALSE]
      BY <1>2 DEF Execute
    <2>2. [p EXCEPT !.on = FALSE] \in Panel
      BY <1>1, <1>2, Updated
    <2>3. Effect([p EXCEPT !.on = FALSE], p, cmd, args)
      BY <1>1, <1>2 DEF Effect, Panel
    <2>4. QED
      BY <2>1, <2>2, <2>3
  <1>3. CASE cmd = 175
    <2>1. q = [p EXCEPT !.on = TRUE]
      BY <1>3 DEF Execute
    <2>2. [p EXCEPT !.on = TRUE] \in Panel
      BY <1>1, <1>3, Updated
    <2>3. Effect([p EXCEPT !.on = TRUE], p, cmd, args)
      BY <1>1, <1>3 DEF Effect, Panel
    <2>4. QED
      BY <2>1, <2>2, <2>3
  <1>4. CASE cmd = 141 /\ args[1] = 20
    <2>1. q = [p EXCEPT !.pump = TRUE]
      <3>1. q = [p EXCEPT !.pump = (args[1] = 20)]
        BY <1>4 DEF Execute
      <3>2. (args[1] = 20) = TRUE
        BY <1>4
      <3>3. QED
        BY <3>1, <3>2, Zenon
    <2>2. [p EXCEPT !.pump = TRUE] \in Panel
      BY <1>1, <1>4, Updated
    <2>3. Effect([p EXCEPT !.pump = TRUE], p, cmd, args)
      BY <1>1, <1>4 DEF Effect, Panel
    <2>4. QED
      BY <2>1, <2>2, <2>3
  <1>5. CASE cmd = 141 /\ args[1] # 20
    <2>1. q = [p EXCEPT !.pump = FALSE]
      <3>1. q = [p EXCEPT !.pump = (args[1] = 20)]
        BY <1>5 DEF Execute
      <3>2. (args[1] = 20) = FALSE
        BY <1>5
      <3>3. QED
        BY <3>1, <3>2, Zenon
    <2>2. [p EXCEPT !.pump = FALSE] \in Panel
      BY <1>1, <1>5, Updated
    <2>3. Effect([p EXCEPT !.pump = FALSE], p, cmd, args)
      BY <1>1, <1>5 DEF Effect, Panel
    <2>4. QED
      BY <2>1, <2>2, <2>3
  <1>6. CASE cmd = 164
    <2>1. q = [p EXCEPT !.allOn = FALSE]
      BY <1>6 DEF Execute
    <2>2. [p EXCEPT !.allOn = FALSE] \in Panel
      BY <1>1, <1>6, Updated
    <2>3. Effect([p EXCEPT !.allOn = FALSE], p, cmd, args)
      BY <1>1, <1>6 DEF Effect, Panel
    <2>4. QED
      BY <2>1, <2>2, <2>3
  <1>7. CASE cmd = 165
    <2>1. q = [p EXCEPT !.allOn = TRUE]
      BY <1>7 DEF Execute
    <2>2. [p EXCEPT !.allOn = TRUE] \in Panel
      BY <1>1, <1>7, Updated
    <2>3. Effect([p EXCEPT !.allOn = TRUE], p, cmd, args)
      BY <1>1, <1>7 DEF Effect, Panel
    <2>4. QED
      BY <2>1, <2>2, <2>3
  <1>8. CASE cmd = 168
    <2>1. q = [p EXCEPT !.mux = args[1]]
      BY <1>8 DEF Execute
    <2>2. [p EXCEPT !.mux = args[1]] \in Panel
      BY <1>1, <1>8, Updated
    <2>3. Effect([p EXCEPT !.mux = args[1]], p, cmd, args)
      BY <1>1, <1>8 DEF Effect, Panel
    <2>4. QED
      BY <2>1, <2>2, <2>3
  <1>9. CASE cmd = 173
    <2>1. q = [p EXCEPT !.iref = args[1]]
      BY <1>9 DEF Execute
    <2>2. [p EXCEPT !.iref = args[1]] \in Panel
      BY <1>1, <1>9, Updated
    <2>3. Effect([p EXCEPT !.iref = args[1]], p, cmd, args)
      BY <1>1, <1>9 DEF Effect, Panel
    <2>4. QED
      BY <2>1, <2>2, <2>3
  <1>10. CASE cmd = 32
    <2>1. q = [p EXCEPT !.mode = args[1]]
      BY <1>10 DEF Execute
    <2>2. [p EXCEPT !.mode = args[1]] \in Panel
      BY <1>1, <1>10, Updated
    <2>3. Effect([p EXCEPT !.mode = args[1]], p, cmd, args)
      BY <1>1, <1>10 DEF Effect, Panel
    <2>4. QED
      BY <2>1, <2>2, <2>3
  <1>11. CASE cmd = 33
    <2>1. q = [p EXCEPT !.c0 = args[1], !.c1 = args[2], !.col = args[1]]
      BY <1>11 DEF Execute
    <2>2. [p EXCEPT !.c0 = args[1], !.c1 = args[2], !.col = args[1]] \in Panel
      BY <1>1, <1>11, Updated
    <2>3. Effect([p EXCEPT !.c0 = args[1], !.c1 = args[2], !.col = args[1]], p, cmd, args)
      BY <1>1, <1>11 DEF Effect, Panel
    <2>4. QED
      BY <2>1, <2>2, <2>3
  <1>12. CASE cmd = 34
    <2>1. q = [p EXCEPT !.p0 = args[1], !.p1 = args[2], !.page = args[1]]
      BY <1>12 DEF Execute
    <2>2. [p EXCEPT !.p0 = args[1], !.p1 = args[2], !.page = args[1]] \in Panel
      BY <1>1, <1>12, Updated
    <2>3. Effect([p EXCEPT !.p0 = args[1], !.p1 = args[2], !.page = args[1]], p, cmd, args)
      BY <1>1, <1>12 DEF Effect, Panel
    <2>4. QED
      BY <2>1, <2>2, <2>3
  <1>13. CASE cmd \notin {174, 175, 141, 164, 165, 168, 173, 32, 33, 34}
    <2>1. q = p
      BY <1>13 DEF Execute
    <2>2. p \in Panel
      BY <1>1, <1>13, Updated
    <2>3. Effect(p, p, cmd, args)
      BY <1>1, <1>13 DEF Effect, Panel
    <2>4. QED
      BY <2>1, <2>2, <2>3
  <1>14. QED
    BY <1>2, <1>3, <1>4, <1>5, <1>6, <1>7, <1>8, <1>9, <1>10, <1>11, <1>12, <1>13

\* All but the command under way is as it was.
Kept(q, p) ==
    /\ (q.on <=> p.on) /\ (q.pump <=> p.pump) /\ (q.allOn <=> p.allOn)
    /\ q.mux = p.mux /\ q.iref = p.iref /\ q.mode = p.mode
    /\ q.c0 = p.c0 /\ q.c1 = p.c1 /\ q.col = p.col
    /\ q.p0 = p.p0 /\ q.p1 = p.p1 /\ q.page = p.page
    /\ q.ram = p.ram

\* The panel with a command open.
Waits(p, c, a) == [p EXCEPT !.cmd = c, !.args = a]

\* A panel that waits for the rest of a command is otherwise as it was.
LEMMA WaitsFor ==
    ASSUME NEW p \in Panel, NEW c \in Nat, NEW a \in Seq(Nat)
    PROVE  /\ Waits(p, c, a) \in Panel
           /\ Kept(Waits(p, c, a), p)
           /\ Waits(p, c, a).cmd = c
           /\ Waits(p, c, a).args = a
  <1>1. [p EXCEPT !.cmd = c, !.args = a] \in Panel
    BY DEF Panel
  <1>2. /\ Kept([p EXCEPT !.cmd = c, !.args = a], p)
        /\ [p EXCEPT !.cmd = c, !.args = a].cmd = c
        /\ [p EXCEPT !.cmd = c, !.args = a].args = a
    BY DEF Panel, Kept
  <1>3. QED
    BY <1>1, <1>2 DEF Waits

\* Closing a command leaves its effect.
LEMMA EffectKept ==
    ASSUME NEW p, NEW r, NEW q, NEW c, NEW a, Effect(r, p, c, a), Kept(q, r)
    PROVE  Effect(q, p, c, a)
  BY DEF Effect, Kept

\* A command that takes arguments only opens.
LEMMA CommandOpens ==
    ASSUME NEW p \in Panel, NEW b \in Nat, p.cmd = 0, ArgsOf(b) # 0
    PROVE  /\ TakeCommand(p, b) \in Panel
           /\ Kept(TakeCommand(p, b), p)
           /\ TakeCommand(p, b).cmd = b
           /\ TakeCommand(p, b).args = <<>>
  <1> DEFINE none == <<>>
             q == TakeCommand(p, b)
  <1>1. q = Waits(p, b, none)
    BY DEF TakeCommand, Waits
  <1>2. none \in Seq(Nat)
    OBVIOUS
  <1> HIDE DEF none, q
  <1>3. q \in Panel /\ Kept(q, p) /\ q.cmd = b /\ q.args = none
    BY <1>1, <1>2, WaitsFor
  <1>4. QED
    BY <1>3 DEF none, q

\* A command without arguments is executed at once.
LEMMA CommandRuns ==
    ASSUME NEW p \in Panel, NEW b \in Nat, p.cmd = 0, ArgsOf(b) = 0
    PROVE  /\ TakeCommand(p, b) \in Panel
           /\ Effect(TakeCommand(p, b), p, b, <<>>)
           /\ TakeCommand(p, b).cmd = 0
           /\ TakeCommand(p, b).args = <<>>
  <1> DEFINE none == <<>>
             r == Execute(p, b, none)
             q == TakeCommand(p, b)
  <1>1. none \in Seq(Nat) /\ Len(none) = 0
    OBVIOUS
  <1>2. q = Waits(r, 0, none)
    BY <1>1 DEF TakeCommand, Waits
  <1> HIDE DEF none, q
  <1>3. r \in Panel /\ Effect(r, p, b, none)
    BY <1>1, Executed
  <1> HIDE DEF r
  <1>4. q \in Panel /\ Kept(q, r) /\ q.cmd = 0 /\ q.args = none
    <2>1. none \in Seq(Nat) /\ 0 \in Nat
      BY <1>1
    <2>2. QED
      BY <2>1, <1>2, <1>3, WaitsFor, Zenon
  <1>5. Effect(q, p, b, none)
    BY <1>3, <1>4, EffectKept
  <1>6. QED
    BY <1>4, <1>5 DEF none, q

\* So is one whose last argument has come.
LEMMA ArgumentEnds ==
    ASSUME NEW p \in Panel, NEW b \in Nat, p.cmd # 0,
           Len(p.args) + 1 = ArgsOf(p.cmd)
    PROVE  /\ TakeCommand(p, b) \in Panel
           /\ Effect(TakeCommand(p, b), p, p.cmd, Append(p.args, b))
           /\ TakeCommand(p, b).cmd = 0
           /\ TakeCommand(p, b).args = <<>>
  <1> DEFINE none == <<>>
             a == Append(p.args, b)
             r == Execute(p, p.cmd, a)
             q == TakeCommand(p, b)
  <1>1. p.cmd \in Nat /\ p.args \in Seq(Nat) /\ none \in Seq(Nat) /\ 0 \in Nat
    BY DEF Panel
  <1>2. a \in Seq(Nat) /\ Len(a) = ArgsOf(p.cmd)
    BY <1>1
  <1>3. q = Waits(r, 0, none)
    BY <1>2 DEF TakeCommand, Waits
  <1> HIDE DEF none, a, q
  <1>4. r \in Panel /\ Effect(r, p, p.cmd, a)
    BY <1>1, <1>2, Executed
  <1> HIDE DEF r
  <1>5. q \in Panel /\ Kept(q, r) /\ q.cmd = 0 /\ q.args = none
    <2>1. none \in Seq(Nat) /\ r \in Panel
      BY <1>1, <1>4
    <2>2. QED
      BY <2>1, <1>3, WaitsFor, SMT
  <1>6. Effect(q, p, p.cmd, a)
    BY <1>4, <1>5, EffectKept
  <1>7. QED
    BY <1>5, <1>6 DEF none, a, q

\* An argument that is not the last is kept.
LEMMA ArgumentWaits ==
    ASSUME NEW p \in Panel, NEW b \in Nat, p.cmd # 0,
           Len(p.args) + 1 # ArgsOf(p.cmd)
    PROVE  /\ TakeCommand(p, b) \in Panel
           /\ Kept(TakeCommand(p, b), p)
           /\ TakeCommand(p, b).cmd = p.cmd
           /\ TakeCommand(p, b).args = Append(p.args, b)
  <1> DEFINE a == Append(p.args, b)
             q == TakeCommand(p, b)
  <1>1. p.cmd \in Nat /\ p.args \in Seq(Nat)
    BY DEF Panel
  <1>2. a \in Seq(Nat) /\ Len(a) = Len(p.args) + 1
    BY <1>1
  <1>3. q = Waits(p, p.cmd, a)
    BY <1>2 DEF TakeCommand, Waits
  <1> HIDE DEF a, q
  <1>4. q \in Panel /\ Kept(q, p) /\ q.cmd = p.cmd /\ q.args = a
    <2>1. p.cmd \in Nat /\ a \in Seq(Nat)
      BY <1>1, <1>2
    <2>2. QED
      BY <2>1, <1>3, WaitsFor, SMT
  <1>5. QED
    BY <1>4 DEF a, q

-----------------------------------------------------------------------------
(* The tables.                                                             *)

\* The entries of two tables put one after the other.
LEMMA Joined ==
    ASSUME NEW s \in Seq(Nat), NEW t \in Seq(Nat)
    PROVE  /\ s \o t \in Seq(Nat) /\ Len(s \o t) = Len(s) + Len(t)
           /\ \A k \in 1..Len(s) : (s \o t)[k] = s[k]
           /\ \A k \in 1..Len(t) : (s \o t)[Len(s) + k] = t[k]
  OBVIOUS

\* The initialisation table, entry by entry.
LEMMA InitTable ==
    ASSUME build \in Build
    PROVE  /\ init \in Seq(Nat)
           /\ Len(init) = IF build.iref THEN 28 ELSE 26
           /\ init[1] = 174 /\ init[2] = 213 /\ init[3] = 128 /\ init[4] = 168
           /\ init[5] = Pages * 8 - 1 /\ init[6] = 211 /\ init[7] = 0
           /\ init[8] = 64 /\ init[9] = 32 /\ init[10] = 0 /\ init[11] = 161
           /\ init[12] = 200 /\ init[13] = 218 /\ init[14] = 18
           /\ init[15] = 129 /\ init[16] = 207 /\ init[17] = 217
           /\ init[18] = 242 /\ init[19] = 219 /\ init[20] = 32
           /\ build.iref => init[21] = 173 /\ init[22] = 48
           /\ init[Len(init) - 5] = IF build.allOn THEN 165 ELSE 164
           /\ init[Len(init) - 4] = 166 /\ init[Len(init) - 3] = 46
           /\ init[Len(init) - 2] = 141 /\ init[Len(init) - 1] = 20
           /\ init[Len(init)] = 175
  <1> DEFINE front == <<174, 213, 128, 168, Pages * 8 - 1, 211, 0, 64, 32, 0,
                        161, 200, 218, 18, 129, 207, 217, 242, 219, 32>>
             iref == IF build.iref THEN <<173, 48>> ELSE <<>>
             back == <<IF build.allOn THEN 165 ELSE 164, 166, 46, 141, 20, 175>>
  <1> DEFINE head == front \o iref
  <1>1. init = head \o back
    BY DEF init
  <1>2. front \in Seq(Nat) /\ Len(front) = 20
    BY Sizes
  <1>3. back \in Seq(Nat) /\ Len(back) = 6
    OBVIOUS
  <1>4. iref \in Seq(Nat) /\ Len(iref) = IF build.iref THEN 2 ELSE 0
    OBVIOUS
  <1> HIDE DEF front, iref
  <1>5. /\ head \in Seq(Nat) /\ Len(head) = 20 + Len(iref)
        /\ \A k \in 1..20 : head[k] = front[k]
        /\ \A k \in 1..Len(iref) : head[20 + k] = iref[k]
    <2>1. head \in Seq(Nat)
      BY <1>2, <1>4, Joined, Zenon
    <2>2. Len(head) = Len(front) + Len(iref)
      BY <1>2, <1>4, Joined, Zenon
    <2>3. \A k \in 1..Len(front) : head[k] = front[k]
      BY <1>2, <1>4, Joined, Zenon
    <2>4. \A k \in 1..Len(iref) : head[Len(front) + k] = iref[k]
      BY <1>2, <1>4, Joined, Zenon
    <2>5. QED
      BY <2>1, <2>2, <2>3, <2>4, <1>2
  <1> HIDE DEF head, back
  <1>6. /\ init \in Seq(Nat) /\ Len(init) = Len(head) + 6
        /\ \A k \in 1..Len(head) : init[k] = head[k]
        /\ \A k \in 1..6 : init[Len(head) + k] = back[k]
    <2>1. init \in Seq(Nat)
      BY <1>1, <1>3, <1>5, Joined, Zenon
    <2>2. Len(init) = Len(head) + Len(back)
      BY <1>1, <1>3, <1>5, Joined, Zenon
    <2>3. \A k \in 1..Len(head) : init[k] = head[k]
      BY <1>1, <1>3, <1>5, Joined, Zenon
    <2>4. \A k \in 1..Len(back) : init[Len(head) + k] = back[k]
      BY <1>1, <1>3, <1>5, Joined, Zenon
    <2>5. QED
      BY <2>1, <2>2, <2>3, <2>4, <1>3
  <1>7. \A k \in 1..20 : init[k] = front[k]
    <2>1. Len(iref) \in {0, 2}
      BY <1>4
    <2>2. Len(head) = 20 + Len(iref)
      BY <1>5
    <2>3. \A k \in 1..20 : k \in 1..Len(head)
      BY <2>1, <2>2
    <2>4. \A k \in 1..Len(head) : init[k] = head[k]
      BY <1>6
    <2>5. \A k \in 1..20 : head[k] = front[k]
      BY <1>5
    <2>6. QED
      BY <2>3, <2>4, <2>5, Zenon
  <1>8. build.iref => init[21] = 173 /\ init[22] = 48
    <2> SUFFICES ASSUME build.iref PROVE init[21] = 173 /\ init[22] = 48
      OBVIOUS
    <2>1. iref[1] = 173 /\ iref[2] = 48 /\ Len(iref) = 2
      BY DEF iref
    <2>2. head[20 + 1] = 173 /\ head[20 + 2] = 48
      BY <1>5, <2>1
    <2>3. QED
      BY <1>5, <1>6, <2>1, <2>2
  <1>9. /\ front[1] = 174 /\ front[2] = 213 /\ front[3] = 128 /\ front[4] = 168
        /\ front[5] = Pages * 8 - 1 /\ front[6] = 211 /\ front[7] = 0
        /\ front[8] = 64 /\ front[9] = 32 /\ front[10] = 0 /\ front[11] = 161
        /\ front[12] = 200 /\ front[13] = 218 /\ front[14] = 18
        /\ front[15] = 129 /\ front[16] = 207 /\ front[17] = 217
        /\ front[18] = 242 /\ front[19] = 219 /\ front[20] = 32
    BY DEF front
  <1>10. /\ back[1] = IF build.allOn THEN 165 ELSE 164
         /\ back[2] = 166 /\ back[3] = 46
         /\ back[4] = 141 /\ back[5] = 20 /\ back[6] = 175
    BY DEF back
  <1>11. /\ init[1] = 174 /\ init[2] = 213 /\ init[3] = 128 /\ init[4] = 168
         /\ init[5] = Pages * 8 - 1 /\ init[6] = 211 /\ init[7] = 0
         /\ init[8] = 64 /\ init[9] = 32 /\ init[10] = 0 /\ init[11] = 161
         /\ init[12] = 200 /\ init[13] = 218 /\ init[14] = 18
         /\ init[15] = 129 /\ init[16] = 207 /\ init[17] = 217
         /\ init[18] = 242 /\ init[19] = 219 /\ init[20] = 32
    BY <1>7, <1>9
  <1>12. Len(init) = (IF build.iref THEN 28 ELSE 26) /\ Len(init) - 6 = Len(head)
    BY <1>4, <1>5, <1>6
  <1>13. /\ init[Len(init) - 5] = back[1] /\ init[Len(init) - 4] = back[2]
         /\ init[Len(init) - 3] = back[3] /\ init[Len(init) - 2] = back[4]
         /\ init[Len(init) - 1] = back[5] /\ init[Len(init)] = back[6]
    BY <1>5, <1>6, <1>12
  <1>14. /\ init[Len(init) - 5] = IF build.allOn THEN 165 ELSE 164
         /\ init[Len(init) - 4] = 166 /\ init[Len(init) - 3] = 46
         /\ init[Len(init) - 2] = 141 /\ init[Len(init) - 1] = 20
         /\ init[Len(init)] = 175
    BY <1>10, <1>13
  <1>15. init \in Seq(Nat)
    BY <1>6
  <1>16. QED
    BY <1>8, <1>11, <1>12, <1>14, <1>15

\* The window table, entry by entry.
LEMMA WindowTable ==
    /\ window \in Seq(Nat) /\ Len(window) = 6
    /\ window[1] = 33 /\ window[2] = 0 /\ window[3] = Width - 1
    /\ window[4] = 34 /\ window[5] = 0 /\ window[6] = Pages - 1
  BY Sizes DEF window

\* The frame, byte by byte.
LEMMA DataTable ==
    ASSUME framebuffer \in [0..FbSize - 1 -> Nat]
    PROVE  /\ DisplayData \in Seq(Nat) /\ Len(DisplayData) = FbSize
           /\ \A k \in 1..FbSize : DisplayData[k] = framebuffer[k - 1]
  BY Sizes DEF DisplayData

-----------------------------------------------------------------------------
(* A byte is sent.                                                         *)

\* The next byte is the next of the table.
LEMMA NextByte ==
    ASSUME TypeInv, RestInv, SendByte
    PROVE  /\ pc \in Writing /\ Table \in Seq(Nat)
           /\ Sent \in Nat /\ Sent < Len(Table)
           /\ Head(todo) = Table[Sent + 1] /\ Head(todo) \in Nat
           /\ todo' \in Seq(Nat) /\ Table' = Table /\ Sent' = Sent + 1
           /\ RestInv'
  <1>1. pc \in Writing
    BY DEF RestInv, SendByte
  <1>2. Table \in Seq(Nat)
    <2>1. init \in Seq(Nat) /\ window \in Seq(Nat) /\ DisplayData \in Seq(Nat)
      BY InitTable, WindowTable, DataTable DEF TypeInv
    <2>2. <<174>> \in Seq(Nat)
      OBVIOUS
    <2>3. QED
      BY <2>1, <2>2 DEF Table
  <1>3. todo \in Seq(Nat) /\ todo # <<>>
    BY DEF TypeInv, SendByte
  <1>4. /\ Len(todo) \in Nat /\ Len(todo) >= 1
        /\ Head(todo) = todo[1] /\ Head(todo) \in Nat
        /\ Tail(todo) \in Seq(Nat) /\ Len(Tail(todo)) = Len(todo) - 1
        /\ \A k \in 1..Len(todo) - 1 : Tail(todo)[k] = todo[k + 1]
    BY <1>3
  <1>5. /\ Len(todo) <= Len(Table)
        /\ \A k \in 1..Len(todo) : todo[k] = Table[Sent + k]
        /\ control = IF pc = "data" THEN "data" ELSE "command"
    BY <1>1 DEF RestInv
  <1>6. Len(Table) \in Nat
    BY <1>2
  <1>7. Sent \in Nat /\ Sent < Len(Table)
    BY <1>4, <1>5, <1>6 DEF Sent
  <1>8. Head(todo) = Table[Sent + 1]
    BY <1>4, <1>5
  <1>9. todo' = Tail(todo) /\ UNCHANGED <<build, pc, framebuffer, control>>
    BY DEF SendByte
  <1>10. Table' = Table
    BY <1>9 DEF Table, init, window, DisplayData
  <1>11. Sent' = Sent + 1
    BY <1>4, <1>6, <1>9, <1>10 DEF Sent
  <1>12. RestInv'
    <2>1. Len(todo') <= Len(Table')
      BY <1>4, <1>5, <1>6, <1>9, <1>10
    <2>2. ASSUME NEW k \in 1..Len(todo') PROVE todo'[k] = Table'[Sent' + k]
      <3>1. k \in 1..Len(todo) - 1 /\ k + 1 \in 1..Len(todo)
        BY <1>4, <1>9
      <3>2. todo'[k] = Table[Sent + (k + 1)]
        BY <1>4, <1>5, <1>9, <3>1
      <3>3. Sent + (k + 1) = Sent' + k
        BY <1>7, <1>11, <3>1
      <3>4. QED
        BY <3>2, <3>3, <1>10
    <2>3. pc' \in Writing /\ control' = IF pc' = "data" THEN "data" ELSE "command"
      BY <1>1, <1>5, <1>9 DEF Writing
    <2>4. QED
      BY <2>1, <2>2, <2>3 DEF RestInv
  <1>13. QED
    BY <1>1, <1>2, <1>4, <1>7, <1>8, <1>9, <1>10, <1>11, <1>12

\* What the panel keeps between two bytes.
Stays(p) == p \in Panel /\ Pending(p) /\ NoIref(p)

\* The first three bytes of the table bring the panel in step with it,
\* whatever it was waiting for.
LEMMA FirstBytes ==
    ASSUME build \in Build, NEW p, Stays(p), NEW n \in 0..2, InStep(n, p)
    PROVE  LET q == TakeCommand(p, init[n + 1])
           IN  Stays(q) /\ InStep(n + 1, q) /\ Achieved(n + 1, q)
  <1> DEFINE b == init[n + 1]
             q == TakeCommand(p, b)
  <1>1. /\ n = 0 => b = 174
        /\ n = 1 => b = 213
        /\ n = 2 => b = 128
        /\ Opened(3) = 0
    <2>1. init[1] = 174 /\ init[2] = 213 /\ init[3] = 128
      BY InitTable
    <2>2. Len(init) = IF build.iref THEN 28 ELSE 26
      BY InitTable
    <2>3. Opened(3) = 0
      BY <2>2 DEF Opened
    <2>4. QED
      BY <2>1, <2>3
  <1>2. b \in Nat
    BY <1>1
  <1>3. p \in Panel /\ p.cmd \in Nat /\ p.args \in Seq(Nat)
    BY DEF Stays, Panel
  <1>4. Achieved(n + 1, q)
    <2>1. Len(init) = IF build.iref THEN 28 ELSE 26
      BY InitTable
    <2>2. QED
      BY <2>1 DEF Achieved
  <1> HIDE DEF q, b
  <1>5. CASE p.cmd = 0 /\ ArgsOf(b) = 0
    <2>1. q \in Panel /\ Effect(q, p, b, <<>>) /\ q.cmd = 0 /\ q.args = <<>>
      BY <1>2, <1>3, <1>5, CommandRuns DEF q
    <2>2. q.iref = p.iref
      BY <1>1, <2>1 DEF Effect
    <2>3. Stays(q)
      BY <2>1, <2>2 DEF Stays, Pending, NoIref
    <2>4. InStep(n + 1, q)
      BY <1>1, <1>5, <2>1 DEF InStep, ArgsOf
    <2>5. QED
      BY <1>4, <2>3, <2>4 DEF q, b
  <1>6. CASE p.cmd = 0 /\ ArgsOf(b) # 0
    <2>1. q \in Panel /\ Kept(q, p) /\ q.cmd = b /\ q.args = <<>>
      BY <1>2, <1>3, <1>6, CommandOpens DEF q
    <2>2. n = 1 /\ b = 213
      BY <1>1, <1>6 DEF ArgsOf
    <2>3. Stays(q)
      BY <2>1, <2>2 DEF Stays, Pending, NoIref, Kept, ArgsOf
    <2>4. InStep(n + 1, q)
      BY <2>1, <2>2 DEF InStep
    <2>5. QED
      BY <1>4, <2>3, <2>4 DEF q, b
  <1>7. CASE p.cmd # 0 /\ Len(p.args) + 1 = ArgsOf(p.cmd)
    <2> DEFINE a == Append(p.args, b)
    <2>1. q \in Panel /\ Effect(q, p, p.cmd, a) /\ q.cmd = 0 /\ q.args = <<>>
      BY <1>2, <1>3, <1>7, ArgumentEnds DEF q
    <2>2. p.cmd # 173 => q.iref = p.iref
      BY <2>1 DEF Effect
    <2>3. Stays(q)
      BY <2>1, <2>2 DEF Stays, Pending, NoIref
    <2>4. InStep(n + 1, q)
      BY <1>1, <2>1 DEF InStep
    <2>5. QED
      BY <1>4, <2>3, <2>4 DEF q, b
  <1>8. CASE p.cmd # 0 /\ Len(p.args) + 1 # ArgsOf(p.cmd)
    <2>1. /\ q \in Panel /\ Kept(q, p)
          /\ q.cmd = p.cmd /\ q.args = Append(p.args, b)
      BY <1>2, <1>3, <1>8, ArgumentWaits DEF q
    <2>2. ArgsOf(p.cmd) = 2 /\ Len(p.args) = 0
      <3>1. p.args # <<>> \/ ArgsOf(p.cmd) # 1
        BY <1>8
      <3>2. ArgsOf(p.cmd) = 2 /\ Len(p.args) \in {0, 1}
        BY <1>8, <3>1 DEF Stays, Pending
      <3>3. Len(p.args) # 1
        <4> SUFFICES ASSUME Len(p.args) = 1 PROVE FALSE
          OBVIOUS
        <4>1. Len(p.args) + 1 = 2
          OBVIOUS
        <4>2. QED
          BY <1>8, <3>2, <4>1, Zenon
      <3>4. QED
        BY <3>2, <3>3
    <2>3. Len(q.args) = 1
      BY <1>2, <1>3, <2>1, <2>2
    <2>4. Stays(q)
      BY <2>1, <2>2, <2>3 DEF Stays, Pending, NoIref, Kept
    <2>5. n = 0
      BY <1>8, <2>2 DEF InStep, ArgsOf
    <2>6. InStep(n + 1, q)
      BY <2>1, <2>2, <2>3, <2>5 DEF InStep
    <2>7. QED
      BY <1>4, <2>4, <2>6 DEF q, b
  <1>9. QED
    BY <1>5, <1>6, <1>7, <1>8

\* From there on the panel takes every byte of the table for what it is: a
\* command without arguments,
LEMMA BareCommand ==
    ASSUME build \in Build, NEW p, Stays(p), NEW n \in Nat,
           InStep(n, p), Achieved(n, p),
           n \in {7, 10, 11, Len(init) - 1, Len(init) - 4, Len(init) - 5,
                  Len(init) - 6}
    PROVE  LET q == TakeCommand(p, init[n + 1])
           IN  Stays(q) /\ InStep(n + 1, q) /\ Achieved(n + 1, q)
  <1> DEFINE b == init[n + 1]
             q == TakeCommand(p, b)
             last == Len(init)
  <1>1. last = IF build.iref THEN 28 ELSE 26
    BY InitTable
  <1>2. /\ n \in {7, 10, 11, last - 4, last - 5} => b \in {64, 161, 200, 166, 46}
        /\ n = last - 6 => b = IF build.allOn THEN 165 ELSE 164
        /\ n = last - 1 => b = 175
    <2>1. /\ init[8] = 64 /\ init[11] = 161 /\ init[12] = 200
          /\ init[last - 4] = 166 /\ init[last - 3] = 46
          /\ init[last - 5] = IF build.allOn THEN 165 ELSE 164
          /\ init[last] = 175
      BY InitTable
    <2>2. QED
      BY <1>1, <2>1
  <1>3. Opened(n) = 0 /\ Opened(n + 1) = 0
    BY <1>1 DEF Opened
  <1>4. b \in Nat /\ ArgsOf(b) = 0 /\ b # 173
    BY <1>1, <1>2 DEF ArgsOf
  <1>5. p \in Panel /\ p.cmd = 0
    BY <1>1, <1>3 DEF Stays, InStep
  <1> HIDE DEF q, b
  <1>6. q \in Panel /\ Effect(q, p, b, <<>>) /\ q.cmd = 0 /\ q.args = <<>>
    BY <1>4, <1>5, CommandRuns DEF q
  <1>7. Stays(q)
    <2>1. q.iref = p.iref
      BY <1>4, <1>6 DEF Effect
    <2>2. QED
      BY <1>6, <2>1 DEF Stays, Pending, NoIref
  <1>8. InStep(n + 1, q)
    BY <1>1, <1>3, <1>6 DEF InStep
  <1>9. Achieved(n + 1, q)
    <2>1. CASE n \in {7, 10, 11, last - 4, last - 5}
      <3>1. b \in {64, 161, 200, 166, 46}
        BY <1>2, <2>1
      <3>2. Kept(q, p)
        BY <1>6, <3>1 DEF Effect, Kept
      <3>3. QED
        BY <1>1, <2>1, <3>2 DEF Achieved, Kept
    <2>2. CASE n = last - 6
      <3>1. b = IF build.allOn THEN 165 ELSE 164
        BY <1>2, <2>2
      <3>2. q.allOn <=> build.allOn
        BY <1>6, <3>1 DEF Effect
      <3>3. q.mux = p.mux /\ q.mode = p.mode /\ q.iref = p.iref
        BY <1>6, <3>1 DEF Effect
      <3>4. QED
        BY <1>1, <2>2, <3>2, <3>3 DEF Achieved
    <2>3. CASE n = last - 1
      <3>1. b = 175
        BY <1>2, <2>3
      <3>2. /\ q.on /\ (q.pump <=> p.pump) /\ (q.allOn <=> p.allOn)
            /\ q.mux = p.mux /\ q.mode = p.mode /\ q.iref = p.iref
        BY <1>6, <3>1 DEF Effect
      <3>3. QED
        BY <1>1, <2>3, <3>2 DEF Achieved
    <2>4. QED
      BY <1>1, <2>1, <2>2, <2>3
  <1>10. QED
    BY <1>7, <1>8, <1>9 DEF q, b

\* a command with an argument,
LEMMA OpeningCommand ==
    ASSUME build \in Build, NEW p, Stays(p), NEW n \in Nat,
           InStep(n, p), Achieved(n, p),
           \/ n \in {3, 5, 8, 12, 14, 16, 18, Len(init) - 3}
           \/ n = 20 /\ build.iref
    PROVE  LET q == TakeCommand(p, init[n + 1])
           IN  Stays(q) /\ InStep(n + 1, q) /\ Achieved(n + 1, q)
  <1> DEFINE b == init[n + 1]
             q == TakeCommand(p, b)
             last == Len(init)
  <1>1. last = IF build.iref THEN 28 ELSE 26
    BY InitTable
  <1>2. b = Opened(n + 1) /\ Opened(n) = 0
    <2>1. /\ init[4] = 168 /\ init[6] = 211 /\ init[9] = 32 /\ init[13] = 218
          /\ init[15] = 129 /\ init[17] = 217 /\ init[19] = 219
          /\ build.iref => init[21] = 173
          /\ init[last - 2] = 141
      BY InitTable
    <2>2. Opened(n) = 0
      BY <1>1 DEF Opened
    <2>3. b = Opened(n + 1)
      BY <1>1, <2>1 DEF Opened
    <2>4. QED
      BY <2>2, <2>3
  <1>3. b \in Nat /\ ArgsOf(b) = 1 /\ (b = 173 => build.iref)
    BY <1>1, <1>2 DEF ArgsOf, Opened
  <1>4. p \in Panel /\ p.cmd = 0
    BY <1>1, <1>2 DEF Stays, InStep
  <1> HIDE DEF q, b
  <1>5. q \in Panel /\ Kept(q, p) /\ q.cmd = b /\ q.args = <<>>
    BY <1>3, <1>4, CommandOpens DEF q
  <1>6. Stays(q)
    BY <1>3, <1>5 DEF Stays, Pending, NoIref, Kept
  <1>7. InStep(n + 1, q)
    BY <1>1, <1>2, <1>5 DEF InStep
  <1>8. Achieved(n + 1, q)
    BY <1>1, <1>5 DEF Achieved, Kept
  <1>9. QED
    BY <1>6, <1>7, <1>8 DEF q, b

\* or the argument of the command before.
LEMMA Argument ==
    ASSUME build \in Build, NEW p, Stays(p), NEW n \in Nat,
           InStep(n, p), Achieved(n, p),
           \/ n \in {4, 6, 9, 13, 15, 17, 19, Len(init) - 2}
           \/ n = 21 /\ build.iref
    PROVE  LET q == TakeCommand(p, init[n + 1])
           IN  Stays(q) /\ InStep(n + 1, q) /\ Achieved(n + 1, q)
  <1> DEFINE b == init[n + 1]
             q == TakeCommand(p, b)
             a == Append(p.args, b)
             last == Len(init)
  <1>1. last = IF build.iref THEN 28 ELSE 26
    BY InitTable
  <1>2. /\ b \in Nat
        /\ n = 4 => b = Pages * 8 - 1
        /\ n = 9 => b = 0
        /\ n = 21 /\ build.iref => b = 48
        /\ n = last - 2 => b = 20
    <2>1. /\ init[5] = Pages * 8 - 1 /\ init[7] = 0 /\ init[10] = 0
          /\ init[14] = 18 /\ init[16] = 207 /\ init[18] = 242 /\ init[20] = 32
          /\ build.iref => init[22] = 48
          /\ init[last - 1] = 20
      BY InitTable
    <2>2. QED
      BY <1>1, <2>1, Sizes
  <1>3. /\ ArgsOf(Opened(n)) = 1 /\ Opened(n) # 0 /\ Opened(n + 1) = 0
        /\ Opened(n) = 173 => n = 21 /\ build.iref
    BY <1>1 DEF Opened, ArgsOf
  <1>4. p \in Panel /\ p.cmd = Opened(n)
    BY <1>1 DEF Stays, InStep
  <1>5. p.args = <<>>
    BY <1>3, <1>4 DEF Stays, Pending
  <1> HIDE DEF q, b
  <1>6. a[1] = b /\ Len(p.args) + 1 = ArgsOf(p.cmd)
    BY <1>2, <1>3, <1>4, <1>5
  <1>7. q \in Panel /\ Effect(q, p, p.cmd, a) /\ q.cmd = 0 /\ q.args = <<>>
    BY <1>2, <1>3, <1>4, <1>6, ArgumentEnds DEF q
  <1>8. Stays(q)
    <2>1. ~build.iref => q.iref = p.iref
      BY <1>3, <1>4, <1>7 DEF Effect
    <2>2. QED
      BY <1>7, <2>1 DEF Stays, Pending, NoIref
  <1>9. InStep(n + 1, q)
    BY <1>1, <1>3, <1>7 DEF InStep
  <1>10. Achieved(n + 1, q)
    <2>1. /\ Opened(n) = 168 <=> n = 4
          /\ Opened(n) = 32 <=> n = 9
          /\ Opened(n) = 173 <=> n = 21 /\ build.iref
          /\ Opened(n) = 141 <=> n = last - 2
          /\ Opened(n) \notin {164, 165, 174, 175}
      BY <1>1 DEF Opened
    <2>2. /\ q.mux = IF n = 4 THEN Pages * 8 - 1 ELSE p.mux
          /\ q.mode = IF n = 9 THEN 0 ELSE p.mode
          /\ build.iref => q.iref = IF n = 21 THEN 48 ELSE p.iref
          /\ q.allOn <=> p.allOn
          /\ q.pump <=> (n = last - 2 \/ p.pump)
          /\ q.on <=> p.on
      BY <1>2, <1>4, <1>6, <1>7, <2>1 DEF Effect
    <2>3. QED
      BY <1>1, <2>2 DEF Achieved
  <1>11. QED
    BY <1>8, <1>9, <1>10 DEF q, b

\* Together: any byte of the initialisation table.
LEMMA InitByte ==
    ASSUME build \in Build, NEW p, Stays(p), NEW n \in Nat, n < Len(init),
           InStep(n, p), Achieved(n, p)
    PROVE  LET q == TakeCommand(p, init[n + 1])
           IN  Stays(q) /\ InStep(n + 1, q) /\ Achieved(n + 1, q)
  <1>1. \/ Len(init) = 28 /\ build.iref
        \/ Len(init) = 26
    BY InitTable
  <1>2. CASE n \in 0..2
    BY <1>2, FirstBytes
  <1>3. CASE n \in {7, 10, 11, Len(init) - 1, Len(init) - 4, Len(init) - 5,
                    Len(init) - 6}
    BY <1>3, BareCommand
  <1>4. CASE \/ n \in {3, 5, 8, 12, 14, 16, 18, Len(init) - 3}
             \/ n = 20 /\ build.iref
    BY <1>4, OpeningCommand
  <1>5. CASE \/ n \in {4, 6, 9, 13, 15, 17, 19, Len(init) - 2}
             \/ n = 21 /\ build.iref
    BY <1>5, Argument
  <1>6. \/ n \in 0..2
        \/ n \in {7, 10, 11, Len(init) - 1, Len(init) - 4, Len(init) - 5,
                  Len(init) - 6}
        \/ n \in {3, 5, 8, 12, 14, 16, 18, Len(init) - 3}
        \/ n = 20 /\ build.iref
        \/ n \in {4, 6, 9, 13, 15, 17, 19, Len(init) - 2}
        \/ n = 21 /\ build.iref
    <2> DEFINE last == Len(init)
    <2>1. n < last
      OBVIOUS
    <2> HIDE DEF last
    <2>2. CASE last = 28 /\ build.iref
      <3>1. n \in 0..27
        BY <2>1, <2>2
      <3>2. QED
        BY <2>2, <3>1 DEF last
    <2>3. CASE last = 26
      <3>1. n \in 0..25
        BY <2>1, <2>3
      <3>2. QED
        BY <2>3, <3>1 DEF last
    <2>4. QED
      BY <1>1, <2>2, <2>3 DEF last
  <1>7. QED
    BY <1>2, <1>3, <1>4, <1>5, <1>6, Zenon

\* The window table, on a panel that waits for a command when it begins.
LEMMA WindowByte ==
    ASSUME NEW p, Stays(p), p.mode = 0, NEW n \in 0..5, WindowAt(n, p)
    PROVE  LET q == TakeCommand(p, window[n + 1])
           IN  Stays(q) /\ q.mode = 0 /\ WindowAt(n + 1, q)
  <1> DEFINE b == window[n + 1]
             q == TakeCommand(p, b)
  <1>1. /\ n = 0 => b = 33
        /\ n = 3 => b = 34
        /\ n \in {1, 4} => b = 0
        /\ n = 2 => b = Width - 1
        /\ n = 5 => b = Pages - 1
    BY WindowTable
  <1>2. b \in Nat
    BY <1>1, Sizes
  <1>3. p \in Panel /\ p.cmd \in Nat /\ p.args \in Seq(Nat)
    BY DEF Stays, Panel
  <1> HIDE DEF q, b
  <1>4. CASE n \in {0, 3}
    <2>1. b = (IF n = 0 THEN 33 ELSE 34) /\ ArgsOf(b) = 2 /\ p.cmd = 0
      BY <1>1, <1>4 DEF ArgsOf, WindowAt
    <2>2. q \in Panel /\ Kept(q, p) /\ q.cmd = b /\ q.args = <<>>
      BY <1>2, <1>3, <2>1, CommandOpens DEF q
    <2>3. Len(q.args) = 0
      BY <2>2
    <2>4. Stays(q) /\ q.mode = 0
      BY <2>1, <2>2, <2>3 DEF Stays, Pending, NoIref, Kept
    <2>5. WindowAt(n + 1, q)
      BY <1>4, <2>1, <2>2, <2>3 DEF WindowAt, Kept
    <2>6. QED
      BY <2>4, <2>5 DEF q, b
  <1>5. CASE n \in {1, 4}
    <2>1. /\ p.cmd = (IF n = 1 THEN 33 ELSE 34) /\ ArgsOf(p.cmd) = 2
          /\ Len(p.args) = 0
      BY <1>5 DEF ArgsOf, WindowAt
    <2>2. /\ q \in Panel /\ Kept(q, p)
          /\ q.cmd = p.cmd /\ q.args = Append(p.args, b)
      BY <1>2, <1>3, <2>1, ArgumentWaits DEF q
    <2>3. Len(q.args) = 1 /\ q.args[1] = 0
      BY <1>1, <1>2, <1>3, <1>5, <2>1, <2>2
    <2>4. Stays(q) /\ q.mode = 0
      BY <2>1, <2>2, <2>3 DEF Stays, Pending, NoIref, Kept
    <2>5. WindowAt(n + 1, q)
      BY <1>5, <2>1, <2>2, <2>3 DEF WindowAt, Kept
    <2>6. QED
      BY <2>4, <2>5 DEF q, b
  <1>6. CASE n \in {2, 5}
    <2> DEFINE a == Append(p.args, b)
    <2>1. /\ p.cmd = (IF n = 2 THEN 33 ELSE 34) /\ ArgsOf(p.cmd) = 2
          /\ Len(p.args) = 1 /\ p.args[1] = 0
      BY <1>6 DEF ArgsOf, WindowAt
    <2>2. a[1] = 0 /\ a[2] = b
      BY <1>2, <1>3, <2>1
    <2>3. q \in Panel /\ Effect(q, p, p.cmd, a) /\ q.cmd = 0 /\ q.args = <<>>
      <3>1. p.cmd # 0 /\ Len(p.args) + 1 = ArgsOf(p.cmd)
        BY <2>1
      <3>2. QED
        BY <1>2, <1>3, <3>1, ArgumentEnds DEF q
    <2> HIDE DEF a
    <2>4. Stays(q) /\ q.mode = 0
      BY <2>1, <2>3 DEF Stays, Pending, NoIref, Effect
    <2>5. WindowAt(n + 1, q)
      BY <1>1, <1>6, <2>1, <2>2, <2>3 DEF WindowAt, Effect
    <2>6. QED
      BY <2>4, <2>5 DEF q, b
  <1>7. QED
    BY <1>4, <1>5, <1>6

\* A byte of the frame: the pointer goes to the next place of the memory.
LEMMA DataByte ==
    ASSUME NEW p, Stays(p), Ready(p), Whole(p), NEW b \in Nat,
           p.col \in 0..Width - 1, p.page \in 0..Pages - 1,
           NEW n \in 0..FbSize - 1, p.page * Width + p.col = n
    PROVE  LET q == TakeData(p, b)
           IN  /\ Stays(q) /\ Ready(q) /\ Whole(q)
               /\ n + 1 < FbSize => /\ q.col \in 0..Width - 1
                                    /\ q.page \in 0..Pages - 1
                                    /\ q.page * Width + q.col = n + 1
               /\ q.ram[n] = b
               /\ \A k \in 0..n - 1 : q.ram[k] = p.ram[k]
  <1> DEFINE q == TakeData(p, b)
             ram == [p.ram EXCEPT ![n] = b]
             col == IF p.col = Width - 1 THEN 0 ELSE p.col + 1
             page == IF p.col # Width - 1 THEN p.page
                     ELSE IF p.page = Pages - 1 THEN 0 ELSE p.page + 1
  <1>1. p \in Panel /\ p.ram \in [0..FbSize - 1 -> Nat]
    BY DEF Stays, Panel
  <1>2. Width \in Nat /\ Pages \in Nat /\ Width >= 1 /\ Pages >= 1
    BY Sizes
  <1>3. q = [p EXCEPT !.ram = ram, !.col = col, !.page = page]
    BY <1>1 DEF TakeData, Ready, Whole
  <1>4. ram \in [0..FbSize - 1 -> Nat] /\ col \in Nat /\ page \in Nat
    BY <1>1, <1>2
  <1>5. /\ ram[n] = b
        /\ \A k \in 0..n - 1 : ram[k] = p.ram[k]
    <2>1. \A f : f \in [0..FbSize - 1 -> Nat] =>
              /\ [f EXCEPT ![n] = b][n] = b
              /\ \A k \in 0..n - 1 : [f EXCEPT ![n] = b][k] = f[k]
      BY Sizes
    <2>2. QED
      BY <1>1, <2>1, Zenon
  <1>6. ASSUME n + 1 < FbSize
        PROVE  /\ col \in 0..Width - 1 /\ page \in 0..Pages - 1
               /\ page * Width + col = n + 1
    <2>1. CASE p.col # Width - 1
      <3>1. col = p.col + 1 /\ page = p.page
        BY <2>1
      <3>2. p.page * Width \in Nat
        BY <1>2
      <3>3. page * Width + col = p.page * Width + (p.col + 1)
        BY <3>1
      <3>4. QED
        BY <1>2, <2>1, <3>1, <3>2, <3>3
    <2>2. CASE p.col = Width - 1 /\ p.page # Pages - 1
      <3>1. col = 0 /\ page = p.page + 1
        BY <2>2
      <3>2. \A x, y \in Nat : (x + 1) * y = x * y + y
        OBVIOUS
      <3>3. (p.page + 1) * Width = p.page * Width + Width
        BY <1>2, <3>2
      <3>4. p.page * Width \in Nat
        BY <1>2
      <3>5. page * Width + col = n + 1
        <4> HIDE DEF page, col
        <4>1. page * Width = p.page * Width + Width
          BY <3>1, <3>3, Zenon
        <4>2. QED
          BY <1>2, <2>2, <3>1, <3>4, <4>1
      <3>6. QED
        BY <1>2, <2>2, <3>1, <3>5
    <2>3. CASE p.col = Width - 1 /\ p.page = Pages - 1
      <3>1. \A x, y \in Nat : x >= 1 => y * x = (x - 1) * y + y
        OBVIOUS
      <3>2. FbSize = (Pages - 1) * Width + Width
        BY <1>2, <3>1 DEF FbSize
      <3>3. (Pages - 1) * Width + (Width - 1) = n
        BY <2>3
      <3>4. QED
        BY <1>2, <1>6, <3>2, <3>3
    <2>4. QED
      BY <2>1, <2>2, <2>3
  <1> HIDE DEF ram, col, page, q
  <1>7. q \in Panel
    BY <1>1, <1>3, <1>4 DEF Panel
  <1>8. /\ q.ram = ram /\ q.col = col /\ q.page = page
        /\ q.cmd = p.cmd /\ q.args = p.args /\ q.mode = p.mode
        /\ q.iref = p.iref /\ q.c0 = p.c0 /\ q.c1 = p.c1
        /\ q.p0 = p.p0 /\ q.p1 = p.p1
    BY <1>1, <1>3 DEF Panel
  <1>9. Stays(q) /\ Ready(q) /\ Whole(q)
    BY <1>7, <1>8 DEF Stays, Pending, NoIref, Ready, Whole
  <1>10. QED
    BY <1>5, <1>6, <1>8, <1>9 DEF q

\* Only the build decides what the table achieves.
LEMMA SameTable ==
    ASSUME build' = build
    PROVE  /\ init' = init
           /\ InStep(Sent', panel') => InStep(Sent, panel)'
           /\ Achieved(Sent', panel') => Achieved(Sent, panel)'
  <1>1. init' = init
    BY DEF init
  <1>2. InStep(Sent', panel') => InStep(Sent, panel)'
    BY <1>1 DEF InStep, Opened
  <1>3. Achieved(Sent', panel') => Achieved(Sent, panel)'
    BY <1>1 DEF Achieved
  <1>4. QED
    BY <1>1, <1>2, <1>3

\* The panel in the invariant.
LEMMA PanelStays ==
    ASSUME TypeInv, IrefInv
    PROVE  Stays(panel)
  BY DEF TypeInv, IrefInv, Stays

\* SendByte preserves the invariant.
LEMMA SendByteKeeps ==
    ASSUME IInv, SendByte
    PROVE  IInv'
  <1> DEFINE b == Head(todo)
             n == Sent
  <1>1. TypeInv /\ RestInv /\ InitInv /\ IrefInv /\ WindowInv /\ PointerInv
    BY DEF IInv
  <1>2. /\ pc \in Writing /\ n \in Nat /\ n < Len(Table)
        /\ b = Table[n + 1] /\ b \in Nat
        /\ todo' \in Seq(Nat) /\ Sent' = n + 1 /\ RestInv'
    BY <1>1, NextByte
  <1>3. /\ UNCHANGED <<build, pc, framebuffer>>
        /\ panel' = IF control = "command" THEN TakeCommand(panel, b)
                    ELSE TakeData(panel, b)
    BY DEF SendByte
  <1>4. control = IF pc = "data" THEN "data" ELSE "command"
    BY <1>1, <1>2 DEF RestInv
  <1>5. build \in Build /\ framebuffer \in [0..FbSize - 1 -> Nat] /\ Stays(panel)
    BY <1>1, PanelStays DEF TypeInv
  <1> HIDE DEF b, n
  <1>6. SUFFICES Stays(panel') /\ InitInv' /\ WindowInv' /\ PointerInv'
    <2>1. TypeInv'
      BY <1>1, <1>2, <1>3, <1>6 DEF TypeInv, Stays
    <2>2. IrefInv'
      BY <1>3, <1>6 DEF IrefInv, Stays, NoIref
    <2>3. QED
      BY <1>2, <1>6, <2>1, <2>2 DEF IInv
  <1>7. CASE pc = "probe"
    <2>1. b = init[0 + 1]
      <3>1. Table = <<174>> /\ Len(<<174>>) = 1 /\ <<174>>[1] = 174
        BY <1>7 DEF Table
      <3>2. n = 0
        BY <1>2, <3>1
      <3>3. init[1] = 174
        BY <1>5, InitTable
      <3>4. QED
        BY <1>2, <3>1, <3>2, <3>3
    <2>2. InStep(0, panel)
      BY DEF InStep
    <2>3. Stays(TakeCommand(panel, b))
      BY <1>5, <2>1, <2>2, FirstBytes
    <2>4. panel' = TakeCommand(panel, b)
      BY <1>3, <1>4, <1>7
    <2>5. pc' = "probe"
      BY <1>3, <1>7
    <2>6. QED
      BY <2>3, <2>4, <2>5 DEF InitInv, WindowInv, PointerInv
  <1>8. CASE pc = "init"
    <2>1. Table = init
      BY <1>8 DEF Table
    <2>2. InStep(n, panel) /\ Achieved(n, panel)
      BY <1>1, <1>8 DEF InitInv, n
    <2>3. panel' = TakeCommand(panel, init[n + 1])
      BY <1>2, <1>3, <1>4, <1>8, <2>1
    <2>4. Stays(panel') /\ InStep(n + 1, panel') /\ Achieved(n + 1, panel')
      BY <1>2, <1>5, <2>1, <2>2, <2>3, InitByte
    <2>5. pc' = "init"
      BY <1>3, <1>8
    <2>6. InitInv'
      BY <1>2, <1>3, <2>4, SameTable DEF InitInv
    <2>7. QED
      BY <2>4, <2>5, <2>6 DEF WindowInv, PointerInv
  <1>9. CASE pc = "window"
    <2>1. Table = window
      BY <1>9 DEF Table
    <2>2. n \in 0..5
      BY <1>2, <2>1, WindowTable
    <2>3. panel.mode = 0 /\ WindowAt(n, panel)
      BY <1>1, <1>9 DEF WindowInv, n
    <2>4. panel' = TakeCommand(panel, window[n + 1])
      BY <1>2, <1>3, <1>4, <1>9, <2>1
    <2>5. Stays(panel') /\ panel'.mode = 0 /\ WindowAt(n + 1, panel')
      BY <1>5, <2>2, <2>3, <2>4, WindowByte
    <2>6. pc' = "window"
      BY <1>3, <1>9
    <2>7. WindowInv'
      BY <1>2, <2>5, <2>6 DEF WindowInv, WindowAt
    <2>8. QED
      BY <2>5, <2>6, <2>7 DEF InitInv, PointerInv
  <1>10. CASE pc = "data"
    <2>1. Table = DisplayData
      BY <1>10 DEF Table
    <2>2. n \in 0..FbSize - 1 /\ b = framebuffer[n]
      BY <1>2, <1>5, <2>1, DataTable, Sizes
    <2>3. Ready(panel) /\ Whole(panel)
      BY <1>1, <1>10 DEF WindowInv
    <2>4. /\ panel.col \in 0..Width - 1 /\ panel.page \in 0..Pages - 1
          /\ panel.page * Width + panel.col = n
          /\ \A k \in 0..n - 1 : panel.ram[k] = framebuffer[k]
      BY <1>1, <1>10, <2>2, Sizes DEF PointerInv, n
    <2>5. panel' = TakeData(panel, b)
      BY <1>3, <1>4, <1>10
    <2>6. /\ Stays(panel') /\ Ready(panel') /\ Whole(panel')
          /\ n + 1 < FbSize => /\ panel'.col \in 0..Width - 1
                               /\ panel'.page \in 0..Pages - 1
                               /\ panel'.page * Width + panel'.col = n + 1
          /\ panel'.ram[n] = b
          /\ \A k \in 0..n - 1 : panel'.ram[k] = panel.ram[k]
      BY <1>2, <1>5, <2>2, <2>3, <2>4, <2>5, DataByte
    <2>7. pc' = "data"
      BY <1>3, <1>10
    <2>8. ASSUME NEW k \in 0..Sent' - 1
          PROVE  panel'.ram[k] = framebuffer'[k]
      <3>1. k = n \/ k \in 0..n - 1
        BY <1>2
      <3>2. QED
        BY <1>3, <2>2, <2>4, <2>6, <3>1
    <2>9. PointerInv'
      BY <1>2, <2>6, <2>8 DEF PointerInv
    <2>10. WindowInv'
      BY <2>6, <2>7 DEF WindowInv, Ready, Whole
    <2>11. QED
      BY <2>6, <2>7, <2>9, <2>10 DEF InitInv
  <1>11. QED
    BY <1>2, <1>7, <1>8, <1>9, <1>10 DEF Writing

-----------------------------------------------------------------------------
(* The other steps.                                                        *)

\* The invariant holds at power-up.
LEMMA InitIInv == Init => IInv
  <1> SUFFICES ASSUME Init PROVE IInv
    OBVIOUS
  <1>1. /\ build \in Build /\ pc = "start" /\ todo = <<>> /\ panel = PowerUpPanel
        /\ framebuffer = [n \in 0..FbSize - 1 |-> 0]
    BY Ssd1315Assumption DEF Init
  <1>2. PowerUpPanel \in Panel
    <2>1. <<>> \in Seq(Nat) /\ Width - 1 \in Nat /\ Pages - 1 \in Nat
      BY Sizes
    <2>2. [n \in 0..FbSize - 1 |-> Unknown] \in [0..FbSize - 1 -> Nat]
      BY DEF Unknown
    <2> DEFINE ram == [n \in 0..FbSize - 1 |-> Unknown]
    <2> HIDE DEF ram
    <2>3. ram \in [0..FbSize - 1 -> Nat]
      BY <2>2 DEF ram
    <2>4. PowerUpPanel = [cmd |-> 0, args |-> <<>>, on |-> FALSE, pump |-> FALSE,
                          allOn |-> FALSE, mux |-> 63, mode |-> 2, iref |-> 0,
                          c0 |-> 0, c1 |-> Width - 1, p0 |-> 0, p1 |-> Pages - 1,
                          col |-> 0, page |-> 0, ram |-> ram]
      BY DEF PowerUpPanel, ram
    <2>5. QED
      BY <2>1, <2>3, <2>4 DEF Panel
  <1>3. PowerUpPanel.cmd = 0 /\ PowerUpPanel.args = <<>> /\ PowerUpPanel.iref = 0
    BY DEF PowerUpPanel
  <1>4. TypeInv
    <2>1. framebuffer \in [0..FbSize - 1 -> Nat]
      BY <1>1
    <2>2. todo \in Seq(Nat)
      BY <1>1
    <2>3. Pending(panel)
      BY <1>1, <1>3 DEF Pending
    <2>4. pc \in Label
      BY <1>1 DEF Label
    <2>5. QED
      BY <1>1, <1>2, <2>1, <2>2, <2>3, <2>4 DEF TypeInv
  <1>5. RestInv
    BY <1>1 DEF RestInv, Writing
  <1>6. IrefInv
    BY <1>1, <1>3 DEF IrefInv, NoIref
  <1>7. InitInv /\ WindowInv /\ PointerInv
    BY <1>1 DEF InitInv, WindowInv, PointerInv
  <1>8. QED
    BY <1>4, <1>5, <1>6, <1>7 DEF IInv

\* A write begins with its whole table to go.
LEMMA WriteBegins ==
    ASSUME pc' \in Writing, todo' = Table', todo' \in Seq(Nat),
           control' = IF pc' = "data" THEN "data" ELSE "command"
    PROVE  RestInv' /\ Sent' = 0
  <1>1. Len(todo') \in Nat
    OBVIOUS
  <1>2. Sent' = 0
    BY <1>1 DEF Sent
  <1>3. \A k \in 1..Len(todo') : todo'[k] = Table'[Sent' + k]
    BY <1>1, <1>2
  <1>4. QED
    BY <1>1, <1>2, <1>3 DEF RestInv

\* A step that leaves the panel, or all but the framebuffer, as it was and
\* ends outside of a write.
LEMMA WriteEnds ==
    ASSUME TypeInv, IrefInv, UNCHANGED <<build, panel>>,
           framebuffer' \in [0..FbSize - 1 -> Nat],
           pc' \in Label \ Writing, todo' = <<>>, pc' = "draw" => Ready(panel)
    PROVE  IInv'
  <1>1. TypeInv'
    <2>1. <<>> \in Seq(Nat)
      OBVIOUS
    <2>2. QED
      BY <2>1 DEF TypeInv, Pending
  <1>2. RestInv'
    BY DEF RestInv
  <1>3. IrefInv'
    BY DEF IrefInv, NoIref
  <1>4. InitInv' /\ PointerInv'
    BY DEF InitInv, PointerInv, Writing
  <1>5. WindowInv'
    BY DEF WindowInv, Ready, Writing
  <1>6. QED
    BY <1>1, <1>2, <1>3, <1>4, <1>5 DEF IInv

\* Every step preserves the invariant.
LEMMA NextIInv == IInv /\ [Next]_vars => IInv'
  <1> SUFFICES ASSUME IInv, [Next]_vars PROVE IInv'
    OBVIOUS
  <1>1. /\ TypeInv /\ RestInv /\ InitInv /\ IrefInv /\ WindowInv /\ PointerInv
        /\ build \in Build /\ pc \in Label /\ panel \in Panel /\ Pending(panel)
        /\ framebuffer \in [0..FbSize - 1 -> Nat] /\ todo \in Seq(Nat)
    BY DEF IInv, TypeInv
  <1>2. CASE Start
    <2>1. /\ pc' \in {"probe", "init"} /\ control' = "command"
          /\ UNCHANGED <<build, framebuffer, panel>>
      BY <1>2 DEF Start, Begin
    <2>2. init' = init /\ init \in Seq(Nat) /\ <<174>> \in Seq(Nat)
      BY <1>1, <2>1, InitTable DEF init
    <2>3. todo' = Table' /\ todo' \in Seq(Nat)
      <3>1. \/ pc' = "probe" /\ todo' = <<174>>
            \/ pc' = "init" /\ todo' = init
        BY <1>2 DEF Start, Begin
      <3>2. QED
        BY <2>2, <3>1 DEF Table
    <2>4. RestInv' /\ Sent' = 0
      BY <2>1, <2>3, WriteBegins DEF Writing
    <2>5. TypeInv'
      BY <1>1, <2>1, <2>3 DEF TypeInv, Label, Pending
    <2>6. IrefInv'
      BY <1>1, <2>1 DEF IrefInv, NoIref
    <2>7. InitInv'
      <3>1. Len(init) = IF build.iref THEN 28 ELSE 26
        BY <1>1, InitTable
      <3>2. InStep(0, panel') /\ Achieved(0, panel')
        BY <3>1 DEF InStep, Achieved
      <3>3. QED
        BY <2>1, <2>4, <3>2, SameTable DEF InitInv
    <2>8. WindowInv' /\ PointerInv'
      BY <2>1 DEF WindowInv, PointerInv
    <2>9. QED
      BY <2>4, <2>5, <2>6, <2>7, <2>8 DEF IInv
  <1>3. CASE SendByte
    BY <1>3, SendByteKeeps
  <1>4. CASE ProbeDone
    BY <1>1, <1>4, WriteEnds DEF ProbeDone, Label, Writing
  <1>5. CASE InitDone
    <2>1. Sent = Len(init)
      <3>1. init \in Seq(Nat) /\ Len(<<>>) = 0
        BY <1>1, InitTable
      <3>2. Len(init) \in Nat
        BY <3>1
      <3>3. Table = init /\ todo = <<>>
        BY <1>5 DEF InitDone, Table
      <3>4. QED
        BY <3>1, <3>2, <3>3 DEF Sent
    <2>2. Len(init) = (IF build.iref THEN 28 ELSE 26)
      BY <1>1, InitTable
    <2>3. InStep(Len(init), panel) /\ Achieved(Len(init), panel)
      BY <1>1, <1>5, <2>1 DEF InitDone, InitInv
    <2>4. Ready(panel)
      BY <2>2, <2>3 DEF InStep, Achieved, Opened, Ready
    <2>5. /\ pc' \in {"halt", "draw"} /\ todo' = <<>>
          /\ UNCHANGED <<build, framebuffer, panel>>
      BY <1>5 DEF InitDone, AfterInit
    <2>6. QED
      BY <1>1, <2>4, <2>5, WriteEnds DEF Label, Writing
  <1>6. CASE Draw
    <2>1. /\ pc = "draw" /\ pc' = "window" /\ control' = "command"
          /\ todo' = window /\ window' = window
          /\ UNCHANGED <<build, panel>>
      BY <1>6 DEF Draw, Begin, window
    <2>2. framebuffer' \in [0..FbSize - 1 -> Nat]
      <3>1. Bytes \subseteq Nat
        BY Ssd1315Assumption
      <3>2. framebuffer' \in [0..FbSize - 1 -> Bytes]
        BY <1>6, Ssd1315Assumption DEF Draw
      <3>3. QED
        BY <3>1, <3>2
    <2>3. todo' = Table' /\ todo' \in Seq(Nat)
      BY <2>1, WindowTable DEF Table
    <2>4. RestInv' /\ Sent' = 0
      BY <2>1, <2>3, WriteBegins DEF Writing
    <2>5. TypeInv'
      BY <1>1, <2>1, <2>2, <2>3 DEF TypeInv, Label, Pending
    <2>6. IrefInv'
      BY <1>1, <2>1 DEF IrefInv, NoIref
    <2>7. WindowInv'
      BY <1>1, <2>1, <2>4 DEF WindowInv, WindowAt, Ready
    <2>8. InitInv' /\ PointerInv'
      BY <2>1 DEF InitInv, PointerInv
    <2>9. QED
      BY <2>4, <2>5, <2>6, <2>7, <2>8 DEF IInv
  <1>7. CASE WindowDone
    <2>1. /\ pc = "window" /\ todo = <<>>
          /\ pc' = "data" /\ control' = "data" /\ todo' = DisplayData
          /\ UNCHANGED <<build, framebuffer, panel>>
      BY <1>7 DEF WindowDone, Begin
    <2>2. DisplayData' = DisplayData
      BY <2>1 DEF DisplayData
    <2>3. todo' = Table' /\ todo' \in Seq(Nat)
      BY <1>1, <2>1, <2>2, DataTable DEF Table
    <2>4. RestInv' /\ Sent' = 0
      BY <2>1, <2>3, WriteBegins DEF Writing
    <2>5. Sent = 6
      <3>1. Len(<<>>) = 0
        OBVIOUS
      <3>2. Table = window
        BY <2>1 DEF Table
      <3>3. QED
        BY <2>1, <3>1, <3>2, WindowTable DEF Sent
    <2>6. Ready(panel) /\ Whole(panel) /\ panel.col = 0 /\ panel.page = 0
      BY <1>1, <2>1, <2>5 DEF WindowInv, WindowAt, Ready, Whole
    <2>7. TypeInv'
      BY <1>1, <2>1, <2>3 DEF TypeInv, Label, Pending
    <2>8. IrefInv'
      BY <1>1, <2>1 DEF IrefInv, NoIref
    <2>9. WindowInv'
      BY <2>1, <2>6 DEF WindowInv, Ready, Whole
    <2>10. PointerInv'
      <3>1. panel'.page * Width + panel'.col = 0
        <4>1. 0 * Width + 0 = 0
          BY Sizes
        <4>2. QED
          BY <2>1, <2>6, <4>1
      <3>2. panel'.col \in 0..Width - 1 /\ panel'.page \in 0..Pages - 1
        BY <2>1, <2>6, Sizes
      <3>3. QED
        BY <2>1, <2>4, <3>1, <3>2 DEF PointerInv
    <2>11. InitInv'
      BY <2>1 DEF InitInv
    <2>12. QED
      BY <2>4, <2>7, <2>8, <2>9, <2>10, <2>11 DEF IInv
  <1>8. CASE DataDone
    <2>1. Ready(panel)
      BY <1>1, <1>8 DEF DataDone, WindowInv
    <2>2. QED
      BY <1>1, <1>8, <2>1, WriteEnds DEF DataDone, Label, Writing
  <1>9. CASE WriteFails
    BY <1>1, <1>9, WriteEnds DEF WriteFails, AfterFailure, Label, Writing
  <1>10. CASE McuReset
    <2>1. framebuffer' \in [0..FbSize - 1 -> Nat]
      BY <1>10 DEF McuReset
    <2>2. QED
      BY <1>1, <1>10, <2>1, WriteEnds DEF McuReset, Label, Writing
  <1>11. CASE UNCHANGED vars
    <2>1. init' = init /\ window' = window /\ DisplayData' = DisplayData
      BY <1>11 DEF vars, init, window, DisplayData
    <2>2. Table' = Table /\ Sent' = Sent
      BY <1>11, <2>1 DEF vars, Table, Sent
    <2>3. TypeInv' /\ RestInv' /\ IrefInv'
      BY <1>1, <1>11, <2>2 DEF vars, TypeInv, RestInv, IrefInv, NoIref, Pending
    <2>4. InitInv'
      BY <1>1, <1>11, <2>2, SameTable DEF vars, InitInv
    <2>5. WindowInv' /\ PointerInv'
      BY <1>1, <1>11, <2>2 DEF vars, WindowInv, WindowAt, Ready, Whole, PointerInv
    <2>6. QED
      BY <2>3, <2>4, <2>5 DEF IInv
  <1>12. CASE Halted
    BY <1>11, <1>12 DEF Halted
  <1>13. QED
    BY <1>2, <1>3, <1>4, <1>5, <1>6, <1>7, <1>8, <1>9, <1>10, <1>11, <1>12
       DEF Next, Cpu

\* The invariant, for every size, every picture and any number of resets.
THEOREM Invariant == Spec => []IInv
  BY InitIInv, NextIInv, PTL DEF Spec

-----------------------------------------------------------------------------
(* What it gives.                                                          *)

\* When ssd1315_init() returns 0 the panel is in the state its table asks
\* for, whatever command an earlier boot left open in it.
THEOREM InitHasEffect == Spec => []InitTakesEffect
  <1>1. IInv => InitTakesEffect
    <2> SUFFICES ASSUME IInv, pc = "init", todo = <<>>
                 PROVE  /\ panel.on /\ panel.pump /\ panel.mode = 0
                        /\ panel.mux = Pages * 8 - 1
                        /\ panel.allOn = build.allOn
                        /\ panel.iref = IF build.iref THEN 48 ELSE 0
                        /\ panel.cmd = 0
      BY DEF InitTakesEffect
    <2>1. build \in Build /\ panel \in Panel /\ NoIref(panel)
      BY DEF IInv, TypeInv, IrefInv
    <2>2. init \in Seq(Nat) /\ Len(init) = IF build.iref THEN 28 ELSE 26
      BY <2>1, InitTable
    <2>3. Sent = Len(init)
      <3>1. Table = init
        BY DEF Table
      <3>2. Len(<<>>) = 0 /\ Len(init) \in Nat
        BY <2>2
      <3>3. QED
        BY <3>1, <3>2 DEF Sent
    <2>4. InStep(Len(init), panel) /\ Achieved(Len(init), panel)
      BY <2>3 DEF IInv, InitInv
    <2>5. panel.allOn = build.allOn
      <3>1. panel.allOn \in BOOLEAN /\ build.allOn \in BOOLEAN
        BY <2>1 DEF Panel, Build
      <3>2. panel.allOn <=> build.allOn
        BY <2>2, <2>4 DEF Achieved
      <3>3. QED
        BY <3>1, <3>2
    <2>6. panel.on /\ panel.pump /\ panel.mode = 0 /\ panel.mux = Pages * 8 - 1
      BY <2>2, <2>4 DEF Achieved
    <2>7. panel.iref = IF build.iref THEN 48 ELSE 0
      BY <2>1, <2>2, <2>4 DEF Achieved, NoIref
    <2>8. panel.cmd = 0
      BY <2>2, <2>4 DEF InStep, Opened
    <2>9. QED
      BY <2>5, <2>6, <2>7, <2>8
  <1>2. QED
    BY <1>1, Invariant, PTL

\* Only the command that does so turns the display on.
LEMMA TurnsOn ==
    ASSUME NEW p \in Panel, Pending(p), NEW b \in Nat, ~p.on,
           TakeCommand(p, b).on
    PROVE  p.cmd = 0 /\ b = 175
  <1> DEFINE q == TakeCommand(p, b)
             a == Append(p.args, b)
  <1>1. q.on
    OBVIOUS
  <1>2. p.cmd \in Nat /\ p.args \in Seq(Nat)
    BY DEF Panel
  <1> HIDE DEF q, a
  <1>3. CASE p.cmd = 0 /\ ArgsOf(b) = 0
    <2>1. Effect(q, p, b, <<>>)
      BY <1>3, CommandRuns DEF q
    <2>2. QED
      BY <1>1, <1>3, <2>1 DEF Effect
  <1>4. CASE p.cmd = 0 /\ ArgsOf(b) # 0
    <2>1. Kept(q, p)
      BY <1>4, CommandOpens DEF q
    <2>2. QED
      BY <1>1, <2>1 DEF Kept
  <1>5. CASE p.cmd # 0 /\ Len(p.args) + 1 = ArgsOf(p.cmd)
    <2>1. Effect(q, p, p.cmd, a)
      BY <1>5, ArgumentEnds DEF q, a
    <2>2. p.cmd # 175
      BY <1>5 DEF Pending, ArgsOf
    <2>3. QED
      BY <1>1, <2>1, <2>2 DEF Effect
  <1>6. CASE p.cmd # 0 /\ Len(p.args) + 1 # ArgsOf(p.cmd)
    <2>1. Kept(q, p)
      BY <1>6, ArgumentWaits DEF q
    <2>2. QED
      BY <1>1, <2>1 DEF Kept
  <1>7. QED
    BY <1>3, <1>4, <1>5, <1>6

\* In the table that command is the last entry, and no argument looks like it.
LEMMA OnIsLast ==
    ASSUME build \in Build, NEW k \in 1..Len(init) - 1
    PROVE  init[k] # 175
  <1> DEFINE last == Len(init)
  <1>1. last = IF build.iref THEN 28 ELSE 26
    BY InitTable
  <1>2. CASE k \in 1..10
    <2>1. /\ init[1] = 174 /\ init[2] = 213 /\ init[3] = 128 /\ init[4] = 168
          /\ init[6] = 211 /\ init[7] = 0 /\ init[8] = 64 /\ init[9] = 32
          /\ init[10] = 0
      BY InitTable
    <2>2. init[5] = Pages * 8 - 1
      BY InitTable
    <2>3. Pages * 8 - 1 # 175
      BY Ssd1315Assumption
    <2>4. init[5] # 175
      BY <2>2, <2>3, Zenon
    <2>5. CASE k = 5
      BY <2>4, <2>5
    <2>6. CASE k \in 1..4
      BY <2>1, <2>6
    <2>7. CASE k \in 6..10
      BY <2>1, <2>7
    <2>8. QED
      BY <1>2, <2>5, <2>6, <2>7
  <1>3. CASE k \in 11..20
    <2>1. /\ init[11] = 161 /\ init[12] = 200 /\ init[13] = 218
          /\ init[14] = 18 /\ init[15] = 129 /\ init[16] = 207
          /\ init[17] = 217 /\ init[18] = 242 /\ init[19] = 219
          /\ init[20] = 32
      BY InitTable
    <2>2. QED
      BY <1>3, <2>1
  <1>4. CASE build.iref /\ k \in 21..22
    <2>1. init[21] = 173 /\ init[22] = 48
      BY <1>4, InitTable
    <2>2. QED
      BY <1>4, <2>1
  <1>5. CASE k \in last - 5..last - 1
    <2>1. init[last - 5] = IF build.allOn THEN 165 ELSE 164
      BY InitTable
    <2>2. /\ init[last - 4] = 166 /\ init[last - 3] = 46
          /\ init[last - 2] = 141 /\ init[last - 1] = 20
      BY InitTable
    <2>3. last \in Nat
      BY <1>1
    <2> HIDE DEF last
    <2>4. k \in {last - 5, last - 4, last - 3, last - 2, last - 1}
      BY <1>5, <2>3
    <2>5. init[last - 5] # 175
      BY <2>1
    <2>6. QED
      BY <2>2, <2>4, <2>5
  <1>6. k \in 1..last - 1
    OBVIOUS
  <1> HIDE DEF last
  <1>7. QED
    BY <1>1, <1>2, <1>3, <1>4, <1>5, <1>6

\* The display is switched on only while the charge pump runs: by the last
\* command of the table, which follows the one that starts it.
THEOREM PumpIsFirst == Spec => PumpBeforeOn
  <1>1. IInv /\ [Next]_vars => [~panel.on /\ panel.on' => panel.pump]_vars
    <2> SUFFICES ASSUME IInv, Next, ~panel.on, panel.on'
                 PROVE  panel.pump
      OBVIOUS
    <2>1. /\ build \in Build /\ panel \in Panel /\ Pending(panel)
          /\ framebuffer \in [0..FbSize - 1 -> Nat]
          /\ TypeInv /\ RestInv
      BY DEF IInv, TypeInv
    <2>2. SendByte
      <3>1. panel' # panel
        OBVIOUS
      <3>2. QED
        BY <3>1 DEF Next, Cpu, Start, ProbeDone, InitDone, Draw, WindowDone,
           DataDone, WriteFails, McuReset, Halted, vars
    <2> DEFINE b == Head(todo)
               n == Sent
    <2>3. /\ pc \in Writing /\ n \in Nat /\ n < Len(Table)
          /\ b = Table[n + 1] /\ b \in Nat
      BY <2>1, <2>2, NextByte
    <2>4. panel' = IF control = "command" THEN TakeCommand(panel, b)
                   ELSE TakeData(panel, b)
      BY <2>2 DEF SendByte
    <2>5. control = IF pc = "data" THEN "data" ELSE "command"
      BY <2>1, <2>3 DEF RestInv
    <2> HIDE DEF b, n
    <2>6. pc # "data"
      <3> SUFFICES ASSUME pc = "data" PROVE FALSE
        OBVIOUS
      <3>1. panel' = TakeData(panel, b)
        BY <2>4, <2>5
      <3>2. panel'.on = panel.on
        BY <2>1, <3>1 DEF TakeData, Panel
      <3>3. QED
        BY <3>2
    <2>7. panel.cmd = 0 /\ b = 175
      <3>1. TakeCommand(panel, b).on
        BY <2>4, <2>5, <2>6
      <3>2. QED
        BY <2>1, <2>3, <3>1, TurnsOn
    <2>8. pc # "probe"
      <3> SUFFICES ASSUME pc = "probe" PROVE FALSE
        OBVIOUS
      <3>1. Table = <<174>> /\ Len(<<174>>) = 1 /\ <<174>>[1] = 174
        BY DEF Table
      <3>2. n = 0
        BY <2>3, <3>1
      <3>3. b = Table[1]
        BY <2>3, <3>2
      <3>4. b = 174
        BY <3>1, <3>3, Zenon
      <3>5. QED
        BY <2>7, <3>4
    <2>9. pc # "window"
      <3> SUFFICES ASSUME pc = "window" PROVE FALSE
        OBVIOUS
      <3>1. Table = window
        BY DEF Table
      <3>2. Width - 1 # 175 /\ Pages - 1 # 175
        BY Ssd1315Assumption
      <3>3. n + 1 \in 1..6
        BY <2>3, <3>1, WindowTable
      <3>4. window[3] # 175 /\ window[6] # 175
        <4>1. window[3] = Width - 1 /\ window[6] = Pages - 1
          BY WindowTable
        <4>2. QED
          BY <3>2, <4>1
      <3>5. window[1] = 33 /\ window[2] = 0 /\ window[4] = 34 /\ window[5] = 0
        BY WindowTable
      <3>6. window[n + 1] = 175
        BY <2>3, <2>7, <3>1
      <3>7. QED
        BY <3>3, <3>4, <3>5, <3>6
    <2>10. pc = "init" /\ Table = init
      BY <2>3, <2>6, <2>8, <2>9 DEF Writing, Table
    <2>11. n + 1 = Len(init)
      <3>1. Len(init) \in Nat
        BY <2>1, InitTable
      <3>2. n \in Nat /\ n < Len(init) /\ b = init[n + 1]
        BY <2>3, <2>10, Zenon
      <3>3. init[n + 1] = 175
        BY <2>7, <3>2, Zenon
      <3>4. n + 1 \notin 1..Len(init) - 1
        BY <2>1, <3>3, OnIsLast, Zenon
      <3>5. QED
        BY <3>1, <3>2, <3>4
    <2>12. Achieved(n, panel)
      BY <2>10 DEF IInv, InitInv, n
    <2>13. n >= Len(init) - 1
      BY <2>3, <2>11
    <2>14. QED
      BY <2>12, <2>13 DEF Achieved
  <1>2. QED
    BY <1>1, Invariant, PTL DEF Spec, PumpBeforeOn

\* While a refresh runs, every byte already sent is where the framebuffer has
\* it, and at its end the whole image is shown.
THEOREM ImageIsShown == Spec => []ImageShown
  <1>1. IInv => ImageShown
    <2> SUFFICES ASSUME IInv, pc = "data",
                        NEW k \in 0..FbSize - Len(todo) - 1
                 PROVE  panel.ram[k] = framebuffer[k]
      BY DEF ImageShown
    <2>1. framebuffer \in [0..FbSize - 1 -> Nat]
      BY DEF IInv, TypeInv
    <2>2. Sent = FbSize - Len(todo)
      BY <2>1, DataTable DEF Sent, Table
    <2>3. k \in 0..Sent - 1
      BY <2>2
    <2>4. \A j \in 0..Sent - 1 : panel.ram[j] = framebuffer[j]
      BY DEF IInv, PointerInv
    <2>5. QED
      BY <2>3, <2>4, Zenon
  <1>2. QED
    BY <1>1, Invariant, PTL

=============================================================================
