----------------------------- MODULE CaseAudit -----------------------------
(***************************************************************************)
(* What the tables of CaseTables try, and how far apart the measured times *)
(* of a good and of a bad board are: the facts from which CaseRunnerProofs *)
(* shows that a case notices a fault.  They are constant, and TLC evaluates *)
(* them on the tables when it checks MCCases.                              *)
(***************************************************************************)
EXTENDS CaseRunner

\* The cases, the steps of one, where they are in its table.
CaseIndex == 1..Len(selftest_cases)
StepsOf(c) == selftest_cases[c].steps
StepIndex(c) == 1..Len(StepsOf(c))

\* A check that the bit x of register r is set; one that it is clear.
Wants(s, r, x) == s.op = "read" /\ s.reg = r /\ x \in s.bits
Refuses(s, r, x) == s.op = "read" /\ s.reg = r /\ x \in s.mask /\ x \notin s.bits

\* Before step i of case c, the block has a clock.
SetsClock(s, block, on) == s.op = "clock" /\ s.block = block /\ s.on = on
ClockedAt(c, i, block) ==
    \/ block \in AlwaysClocked
    \/ \E j \in 1..i - 1 :
          /\ SetsClock(StepsOf(c)[j], block, TRUE)
          /\ \A m \in j + 1..i - 1 : ~SetsClock(StepsOf(c)[m], block, FALSE)

\* The bits that are tried by what they do, and not by reading them back: those
\* that make a timer run with its period, and those that choose what is converted.
Converts == {<<"RSQR3", "9", "RDATAR">>, <<"ISQR", "JSQ4=9", "IDATAR1">>}
TriedByUse ==
    {<<t, "CTLR1", "CEN">> : t \in Timers} \cup {<<t, "PSC", "4799">> : t \in Timers}
    \cup {<<t, "ATRLR", "period">> : t \in Timers}
    \cup {<<"ADC1", v[1], v[2]>> : v \in Converts}

\* Every other bit of the block under test is wanted by a check; the bits of
\* MustClear are refused by one, while the block has a clock.
ASSUME BitsAreTried ==
    \A c \in CaseIndex :
        LET tested == Tested[selftest_cases[c].name]
        IN  /\ selftest_cases[c].name \in DOMAIN Tested /\ tested \subseteq DOMAIN BitsOf
            /\ \A x \in AllBits : x[1] \in tested /\ x \notin NotTried \cup TriedByUse =>
                  \E i \in StepIndex(c) : Wants(StepsOf(c)[i], <<x[1], x[2]>>, x[3])
            /\ \A x \in MustClear : x[1] \in tested =>
                  \E i \in StepIndex(c) : /\ Refuses(StepsOf(c)[i], <<x[1], x[2]>>, x[3])
                                          /\ ClockedAt(c, i, x[1])
            /\ \A i \in StepIndex(c) : \A b \in AlwaysClocked :
                  ~SetsClock(StepsOf(c)[i], b, FALSE)

\* The SysTick case has a delay, the dma case makes the transfers.
ASSUME UsesAreTried ==
    \A c \in CaseIndex :
        LET tested == Tested[selftest_cases[c].name]
        IN  /\ "SYSTICK" \in tested =>
                  \E i \in StepIndex(c) :
                      StepsOf(c)[i].op = "delay" /\ StepsOf(c)[i].ticks \in Nat \ {0}
            /\ "DMA1" \in tested => \E i \in StepIndex(c) : StepsOf(c)[i].op = "dma"

\* A case of the ADC wants the converted data of both sequencers.  No table
\* writes a data register, and what is converted is what its sequencer says.
ASSUME ConversionsAreTried ==
    \A c \in CaseIndex : \A v \in Converts :
        LET data == <<"ADC1", v[3]>>
        IN  /\ "ADC1" \in Tested[selftest_cases[c].name] =>
                  \E i \in StepIndex(c) : Wants(StepsOf(c)[i], data, "400..620")
            /\ \A i \in StepIndex(c) :
                  LET s == StepsOf(c)[i]
                  IN  /\ s.op \in {"write", "restore"} => s.reg # data
                      /\ s.op = "convert" /\ s.data = data =>
                            s.sel = <<"ADC1", v[1]>> /\ s.ch = v[2]

\* timer_period_test(t) is in the table behind step k.
PeriodTestAt(c, k, t) ==
    LET step(i) == StepsOf(c)[k + i]
        Writes(i, name, mask, bits) ==
            step(i) = [op |-> "write", reg |-> <<t, name>>, mask |-> mask, bits |-> bits]
    IN  /\ k \in Nat /\ k + 18 <= Len(StepsOf(c))
        /\ step(1) = [op |-> "clock", block |-> t, on |-> TRUE]
        /\ Writes(2, "CTLR1", {"CEN"}, {})
        /\ Writes(3, "PSC", All(<<t, "PSC">>), {"4799"})
        /\ Writes(4, "ATRLR", All(<<t, "ATRLR">>), {"period"})
        /\ Writes(5, "CTLR1", {"URS"}, {"URS"})
        /\ Writes(6, "CNT", All(<<t, "CNT">>), {})
        /\ Writes(7, "INTFR", {"UIF"}, {})
        /\ step(8) = [op |-> "update", tim |-> t]
        /\ Writes(9, "INTFR", {"UIF"}, {})
        /\ Writes(10, "CTLR1", {"CEN"}, {"CEN"})
        /\ step(11) = [op |-> "await", tim |-> t]
        /\ Writes(12, "INTFR", {"UIF"}, {})
        /\ step(13) = [op |-> "mark", name |-> "start"]
        /\ step(14) = [op |-> "await", tim |-> t]
        /\ step(15) = [op |-> "mark", name |-> "end"]
        /\ Writes(16, "INTFR", {"UIF"}, {})
        /\ Writes(17, "CTLR1", {"CEN"}, {})
        /\ step(18) = [op |-> "window", low |-> TIMER_PERIOD - TIMER_TOLERANCE,
                       high |-> TIMER_PERIOD + TIMER_TOLERANCE, us |-> TRUE]

\* A case of a timer measures its period; no table spoils the clock frequencies.
ASSUME PeriodsAreTried ==
    /\ \A c \in CaseIndex : \A t \in Timers :
          t \in Tested[selftest_cases[c].name] =>
              \E k \in 0..Len(StepsOf(c)) : PeriodTestAt(c, k, t)
    /\ \E c \in CaseIndex : selftest_cases[c].name = "timers"
    /\ \A c \in CaseIndex : \A i \in StepIndex(c) :
          LET s == StepsOf(c)[i]
          IN  s.op \in {"write", "restore"} /\ s.reg = <<"RCC", "freq">> =>
                  s.op = "write" /\ s.bits = All(s.reg)

\* The tolerance is narrower than what a fault makes of a period, less what the
\* CPU may add to a measurement or take from it: up to two turns of its loop.
\* SysTick does not come round to the window while a measurement may take.
ASSUME TimingAssumption ==
    /\ Millisecond > 0
    /\ FastPeriod + 2 * Lag <= TIMER_PERIOD - TIMER_TOLERANCE
    /\ TIMER_PERIOD + TIMER_TOLERANCE + 2 * Lag <= SlowPeriod
    /\ TIMER_PERIOD + TIMER_TOLERANCE < 2 * (TIMER_PERIOD - 2 * Lag + 1)
    /\ TIMER_WAIT + 4 * Lag <= Wrap
    /\ TIMER_WAIT + 6 * Lag <= Wrap + TIMER_PERIOD - TIMER_TOLERANCE

\* A step that may change register r.  A timer that has a clock sets its flag by
\* itself.
Touches(s, r) ==
    \/ s.op \in {"write", "restore"} /\ s.reg = r
    \/ s.op = "update" /\ r = <<s.tim, "INTFR">>
    \/ s.op = "convert" /\ r \in {<<"ADC1", "STATR">>, s.data}
    \/ s.op = "await" /\ r = <<s.tim, "CTLR1">>
    \/ s.op = "clock" /\ r = <<s.block, "INTFR">>
Saves(s, r) == s.op = "save" /\ s.reg = r
Restores(s, r) == s.op = "restore" /\ s.reg = r
\* What is lost of a register that is saved without a clock.
Lost(r) == IF r = <<"SPI1", "CRCR">> THEN {"7"} ELSE {}
StartValue(r) == Entry[r[1]][r[2]]
BaudRegister == <<"USART1", "BRR">>

\* A case saves a register before anything touches it, or reads zero from a
\* block without a clock, and its last steps restore it while the block has one.
\* What they do after that sets only what was set, and not the baud rate.
ASSUME SavesAreUndone ==
    \A c \in CaseIndex :
        LET undo == selftest_cases[c].undo
            always == selftest_cases[c].always
            last == undo..Len(StepsOf(c))
        IN  /\ selftest_cases[c].name \in {"usart", "esig"} => always
            /\ \A i \in StepIndex(c) : StepsOf(c)[i].op = "save" =>
                  LET r == StepsOf(c)[i].reg
                  IN  /\ i < undo
                      /\ \A j \in 1..i - 1 : ~Touches(StepsOf(c)[j], r)
                      /\ \A d \in 1..c - 1 : \A j \in StepIndex(d) : ~Touches(StepsOf(d)[j], r)
                      /\ ClockedAt(c, i, r[1]) \/ StartValue(r) \subseteq Lost(r)
                      /\ \E j \in last : Restores(StepsOf(c)[j], r)
            /\ \A i \in last :
                  LET s == StepsOf(c)[i]
                  IN  /\ s.op \in {"write", "restore", "clock"}
                      /\ s.op = "restore" => IF always THEN s.reg[1] \in AlwaysClocked
                                            ELSE ClockedAt(c, i, s.reg[1])
                      /\ \A j \in undo..i - 1 :
                            LET r == StepsOf(c)[j].reg
                            IN  StepsOf(c)[j].op = "restore" /\ Touches(s, r) =>
                                    /\ s.op = "write" /\ s.mask = s.bits
                                    /\ s.bits \subseteq StartValue(r) /\ r # BaudRegister

\* The transmitter is off from step k to step j, which clears CPOL and CPHA; no
\* later step sets them.
UsartMode == <<"USART1", "CTLR1">>
UsartClock == <<"USART1", "CTLR2">>
ClockMode == {"CPOL", "CPHA"}
UnlockAt(c, k, j) ==
    LET step(i) == StepsOf(c)[i]
        Writes(i, r) == step(i).op = "write" /\ step(i).reg = r
    IN  /\ j < selftest_cases[c].undo /\ k < j
        /\ Writes(k, UsartMode) /\ "TE" \in step(k).mask \ step(k).bits
        /\ \A m \in k + 1..j - 1 :
              Touches(step(m), UsartMode) => Writes(m, UsartMode) /\ "TE" \notin step(m).bits
        /\ Writes(j, UsartClock) /\ ClockMode \subseteq step(j).mask \ step(j).bits
        /\ \A m \in j + 1..Len(StepsOf(c)) :
              Touches(step(m), UsartClock) =>
                  Restores(step(m), UsartClock)
                  \/ (Writes(m, UsartClock) /\ ClockMode \cap step(m).bits = {})
ASSUME LockIsLifted ==
    /\ \A c \in CaseIndex : \A i \in StepIndex(c) :
          Saves(StepsOf(c)[i], UsartClock) => \E k, j \in StepIndex(c) : UnlockAt(c, k, j)
    /\ \A c \in CaseIndex : \A i \in StepIndex(c) :
          StepsOf(c)[i].op = "convert" => StepsOf(c)[i].data[1] = "ADC1"

-----------------------------------------------------------------------------
(* What a case finds when the blocks it is judged with are sound.          *)

\* What step s makes of the registers f.
Lock(f, r) == IF r = UsartClock /\ "TE" \in f[UsartMode] THEN ClockMode ELSE {}
After(f, s) ==
    [r \in Registers |->
        CASE s.op = "write" /\ s.reg = r ->
                (((f[r] \ s.mask) \cup s.bits) \ Lock(f, r)) \cup (f[r] \cap Lock(f, r))
          [] s.op = "update" /\ r = <<s.tim, "INTFR">> /\ "URS" \notin f[<<s.tim, "CTLR1">>] ->
                f[r] \cup {"UIF"}
          [] s.op = "convert" /\ r = <<"ADC1", "STATR">> -> f[r] \cup {s.flag}
          [] s.op = "convert" /\ r = s.data /\ s.ch \in f[s.sel] -> f[r] \cup {"400..620"}
          [] OTHER -> f[r]]

\* What the registers hold before step i of case c.  The prover cannot unfold a
\* recursive function: the steps of this one are evaluated.
Expected ==
    [c \in CaseIndex |->
        LET f[i \in 1..Len(StepsOf(c)) + 1] ==
                IF i = 1 THEN [r \in Registers |-> StartValue(r)]
                ELSE After(f[i - 1], StepsOf(c)[i - 1])
        IN  f]
ASSUME ExpectedSteps ==
    \A c \in CaseIndex :
        /\ Expected[c][1] = [r \in Registers |-> StartValue(r)]
        /\ \A i \in StepIndex(c) : Expected[c][i + 1] = After(Expected[c][i], StepsOf(c)[i])

\* A timer that has been enabled sets its flag by itself.
Steady(c, i, r) ==
    r[2] = "INTFR" => \A j \in 1..i : "CEN" \notin Expected[c][j][<<r[1], "CTLR1">>]

\* A case touches only the blocks it tests, and no case before it has.  It writes
\* with a clock, and what it reads back is expected, or is a clock frequency; with
\* these it is then judged, as is the case that writes the baud rate.
ASSUME ChecksAreRight ==
    \A c \in CaseIndex :
        LET tested == Tested[selftest_cases[c].name]
        IN  /\ \A r \in Registers : r[1] \in tested =>
                  \A d \in 1..c - 1 : \A j \in StepIndex(d) : ~Touches(StepsOf(d)[j], r)
            /\ "USART1" \in tested => "RCC" \in JudgedWith(selftest_cases[c].name)
            /\ \A i \in StepIndex(c) :
                  LET s == StepsOf(c)[i]
                  IN  /\ \A r \in Registers : Touches(s, r) => r[1] \in tested
                      /\ s.op = "convert" =>
                            /\ s.sel \in Registers /\ s.sel[1] \in tested /\ s.sel[2] # "INTFR"
                            /\ s.data # <<"ADC1", "STATR">>
                      /\ s.op = "write" => ClockedAt(c, i, s.reg[1])
                      /\ s.op = "restore" => i >= selftest_cases[c].undo
                      /\ s.op = "dma" => "DMA1" \in tested
                      /\ s.op = "read" =>
                            \/ /\ s.reg[1] \in tested /\ ClockedAt(c, i, s.reg[1])
                               /\ Steady(c, i, s.reg)
                               /\ Expected[c][i][s.reg] \cap s.mask = s.bits
                            \/ /\ s.reg = <<"RCC", "freq">>
                               /\ "RCC" \in JudgedWith(selftest_cases[c].name)
                               /\ s.mask = s.bits /\ s.bits \subseteq All(s.reg)

\* test_systick() measures a millisecond behind step k, with SysTick enabled.
SysTick == <<"SYSTICK", "CTLR">>
DelayTestAt(c, k) ==
    LET step(i) == StepsOf(c)[k + i]
    IN  /\ k \in Nat /\ k + 4 <= Len(StepsOf(c))
        /\ step(1) = [op |-> "mark", name |-> "start"]
        /\ step(2) = [op |-> "delay", ticks |-> Millisecond]
        /\ step(3) = [op |-> "mark", name |-> "end"]
        /\ step(4) = [op |-> "window", low |-> MsLow, high |-> MsHigh, us |-> FALSE]
        /\ \A i \in k + 1..k + 4 : "EN" \in Expected[c][i][SysTick]

\* Every wait for a timer and every window is of one of the two tests, in a case
\* that is judged with SysTick; the SysTick case leaves SysTick enabled.
ASSUME TimesAreRight ==
    \A c \in CaseIndex :
        LET name == selftest_cases[c].name
            places == 0..Len(StepsOf(c))
        IN  /\ Timers \cap Tested[name] # {} => {"SYSTICK", "RCC"} \subseteq JudgedWith(name)
            /\ "SYSTICK" \in Tested[name] =>
                  /\ JudgedWith(name) = {"SYSTICK", "RCC"}
                  /\ selftest_cases[c].undo = Len(StepsOf(c)) + 1
                  /\ "EN" \in Expected[c][Len(StepsOf(c)) + 1][SysTick]
            /\ \A i \in StepIndex(c) :
                  LET s == StepsOf(c)[i]
                      InTest(n) == \E t \in Timers \cap Tested[name] : \E k \in places :
                                      i = k + n /\ PeriodTestAt(c, k, t)
                  IN  /\ s.op = "await" => InTest(11) \/ InTest(14)
                      /\ s.op = "window" =>
                            \/ InTest(18)
                            \/ /\ "SYSTICK" \in Tested[name]
                               /\ \E k \in places : i = k + 4 /\ DelayTestAt(c, k)

\* The windows have room for a CPU that is late: in the code, 5000 ticks of 48000,
\* and 5 ms.
ASSUME RoomAssumption ==
    /\ MsLow <= Millisecond /\ Millisecond + 3 * Lag <= MsHigh + 1
    /\ Millisecond + 3 * Lag <= Wrap
    /\ 2 * Lag <= TIMER_TOLERANCE + 1

=============================================================================
