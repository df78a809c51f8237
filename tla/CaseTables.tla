----------------------------- MODULE CaseTables -----------------------------
(***************************************************************************)
(* The ten cases of the ch32v0 selftest as tables of steps, in the order   *)
(* of the code.  A register is <<block, name>> and holds the set of its    *)
(* bits that are one; a number written to it is the set of its ones, named *)
(* by the number.  CaseRunner says what a step does.                       *)
(***************************************************************************)
EXTENDS Integers, Sequences

CONSTANTS
    Millisecond,         \* SysTick ticks of qingke_delay_us(1000)
    MsLow, MsHigh,       \* what test_systick() takes for a millisecond
    TIMER_PERIOD,        \* the wanted period of a timer, in ticks
    TIMER_TOLERANCE,     \* how far the measured one may be off
    TIMER_WAIT           \* how long to wait for an update

\* The bits that matter, by block and register.  RCC.freq stands for
\* the variables rcc_*_frequency: an entry is in it when it has the value that
\* goes with the 48 MHz clock tree.
TimBits ==
    [CTLR1 |-> {"CEN", "URS", "CKD", "ARPE"}, CTLR2 |-> {"OIS1"},
     PSC |-> {"1234", "4799"}, ATRLR |-> {"5678", "period"},
     CNT |-> {"0x1234"}, DMAINTENR |-> {"UIE"}, INTFR |-> {"UIF"},
     CHCTLR1 |-> {"2", "3", "4", "5", "6", "7"}, CH1CVR |-> {"0x1234"},
     CCER |-> {"CC1P", "CC1E"}, BDTR |-> {"DTG", "MOE"}]
BitsOf ==
    [RCC |-> [CTLR |-> {"HSION", "HSIRDY", "PLLON", "PLLRDY"},
              CFGR0 |-> {"SW", "SWS", "HPRE", "PPRE1", "PPRE2", "ADCPRE"},
              freq |-> {"sysclk", "ahb", "apb1", "apb2", "adc"}],
     SYSTICK |-> [CTLR |-> {"EN", "CLKSRC"}],
     GPIOC |-> [CFGLR |-> {"MODE0", "CNF0"}, OUTDR |-> {"0"}],
     USART1 |-> [CTLR1 |-> {"UE", "TE", "RE", "M", "PCE", "PS"},
                 CTLR2 |-> {"STOP", "CLKEN", "CPOL", "CPHA"},
                 CTLR3 |-> {"RTSE", "CTSE"}, BRR |-> {"5000", "417"},
                 STATR |-> {"TC"}],
     DMA1 |-> [CFGR7 |-> {"DIR", "PL0", "PL1", "TCIE", "HTIE", "TEIE", "CIRC"}],
     TIM1 |-> TimBits,
     TIM2 |-> [TimBits EXCEPT !.CTLR2 = {}, !.BDTR = {}],
     ADC1 |-> [CTLR1 |-> {"CALVOL", "EOCIE"},
               CTLR2 |-> {"ADON", "CONT", "CAL", "ALIGN", "DMA"},
               SAMPTR1 |-> {"SMP"}, SAMPTR2 |-> {"SMP"}, RSQR3 |-> {"9"},
               ISQR |-> {"JSQ4=9"}, STATR |-> {"EOC", "JEOC"},
               RDATAR |-> {"400..620"}, IDATAR1 |-> {"400..620"},
               IOFR1 |-> {"123"}],
     SPI1 |-> [CTLR1 |-> {"MSTR", "SSM", "SSI", "CPOL", "CPHA", "LSBFIRST",
                          "BR0", "BR1", "BR2", "SPE"},
               CTLR2 |-> {"SSOE", "RXDMAEN", "TXDMAEN", "TXEIE"},
               CRCR |-> {"7", "0x1021"}, STATR |-> {"TXE"}],
     I2C1 |-> [CTLR1 |-> {"PE", "ENGC", "ACK", "ENPEC", "PEC"},
               CTLR2 |-> {"48", "ITEVTEN", "ITBUFEN", "DMAEN"},
               CKCFGR |-> {"240"}, OADDR1 |-> {"0x42"}, DATAR |-> {"0x5a"}],
     ESIG |-> [FLACAP |-> {"size"}, UID |-> {"id"}],
     EXTEN |-> [CTR |-> {"LOCKUP_RSTF", "LOCKUP_EN", "LDO_LOW"}]]
All(r) == BitsOf[r[1]][r[2]]

-----------------------------------------------------------------------------
(* The steps.                                                              *)

Write(r, mask, bits) == <<[op |-> "write", reg |-> r, mask |-> mask, bits |-> bits]>>
Read(r, mask, bits) == <<[op |-> "read", reg |-> r, mask |-> mask, bits |-> bits]>>
\* A write and the check that it took.
Try(r, mask, bits) == Write(r, mask, bits) \o Read(r, mask, bits)
On(r, bits) == Write(r, bits, bits)
Off(r, bits) == Write(r, bits, {})
TryOn(r, bits) == Try(r, bits, bits)
TryOff(r, bits) == Try(r, bits, {})
\* A number written to the whole register.
Number(r, n) == Write(r, All(r), {n})
TryNumber(r, n) == Try(r, All(r), {n})
\* The clock of a block.
Clock(block, on) == <<[op |-> "clock", block |-> block, on |-> on]>>
Save(block, names) ==
    [i \in 1..Len(names) |-> [op |-> "save", reg |-> <<block, names[i]>>]]
Restore(block, names) ==
    [i \in 1..Len(names) |-> [op |-> "restore", reg |-> <<block, names[i]>>]]
\* What takes time.
Delay(n) == <<[op |-> "delay", ticks |-> n]>>
Mark(name) == <<[op |-> "mark", name |-> name]>>
\* Bounds in ticks, or in microseconds that the frequency makes ticks of.
InWindow(low, high) == <<[op |-> "window", low |-> low, high |-> high, us |-> FALSE]>>
InTime(low, high) == <<[op |-> "window", low |-> low, high |-> high, us |-> TRUE]>>
Await(tim) == <<[op |-> "await", tim |-> tim]>>
\* What the block does by itself: an update event; a conversion of the channel
\* chosen in a register, with its flag and its data.
UpdateEvent(tim) == <<[op |-> "update", tim |-> tim]>>
Convert(sel, ch, flag, data) ==
    <<[op |-> "convert", sel |-> <<"ADC1", sel>>, ch |-> ch,
       flag |-> flag, data |-> <<"ADC1", data>>]>>
RunDma == <<[op |-> "dma"]>>

\* A case: its body, what it undoes, and whether it
\* undoes it after a failed check too.
Case(name, body, undo, always) ==
    [name |-> name, steps |-> body \o undo,
     undo |-> Len(body) + 1, always |-> always]

-----------------------------------------------------------------------------
(* The cases.                                                              *)

RccCase ==
    LET CTLR == <<"RCC", "CTLR">>
        CFGR0 == <<"RCC", "CFGR0">>
        freq == <<"RCC", "freq">>
    IN  Case("rcc",
          Read(CTLR, {"HSION", "HSIRDY"}, {"HSION", "HSIRDY"})
          \o Read(CTLR, {"PLLON", "PLLRDY"}, {"PLLON", "PLLRDY"})
          \o Read(CFGR0, {"SW", "SWS"}, {"SW", "SWS"})
          \o Read(CFGR0, {"HPRE"}, {}) \o Read(CFGR0, {"PPRE1"}, {})
          \o Read(CFGR0, {"PPRE2"}, {}) \o Read(CFGR0, {"ADCPRE"}, {})
          \o Read(freq, All(freq), All(freq))
          \o Read(freq, {"sysclk"}, {"sysclk"})
          \o On(freq, All(freq))                    \* rcc_measure_clocks()
          \o Read(freq, All(freq), All(freq)),
          <<>>, FALSE)

\* qingke_systick_get_frequency() gives what rcc_sysclk_frequency was at start-up,
\* of which rcc_measure_clocks() makes nothing else.
SystickCase ==
    LET CTLR == <<"SYSTICK", "CTLR">>
    IN  Case("systick",
          Read(<<"RCC", "freq">>, {"sysclk"}, {"sysclk"})
          \o Read(CTLR, {"EN"}, {"EN"}) \o Read(CTLR, {"CLKSRC"}, {"CLKSRC"})
          \o Mark("start") \o Delay(Millisecond) \o Mark("end")
          \o InWindow(MsLow, MsHigh)
          \o TryOff(CTLR, {"EN"}) \o TryOn(CTLR, {"EN"}),
          <<>>, FALSE)

\* The toggles start from a level just read back.  A write of the whole port
\* changes no pin but this one.
GpioCase ==
    LET CFGLR == <<"GPIOC", "CFGLR">>
        OUTDR == <<"GPIOC", "OUTDR">>
    IN  Case("gpio",
          Clock("GPIOC", TRUE) \o Save("GPIOC", <<"CFGLR", "OUTDR">>)
          \o Try(CFGLR, {"MODE0", "CNF0"}, {"MODE0"})
          \o TryOff(OUTDR, {"0"}) \o TryOn(OUTDR, {"0"})
          \o TryOff(OUTDR, {"0"}) \o TryOn(OUTDR, {"0"})      \* gpio_toggle()
          \o TryOn(OUTDR, {"0"}) \o TryOff(OUTDR, {"0"})      \* gpio_port_write()
          \o Try(CFGLR, {"MODE0", "CNF0"}, {"CNF0"}),
          Restore("GPIOC", <<"CFGLR", "OUTDR">>), FALSE)

\* The two numbers are those of 9600 and 115200 baud on a right apb2 entry.
UsartChecks ==
    LET CTLR1 == <<"USART1", "CTLR1">>
        CTLR2 == <<"USART1", "CTLR2">>
        CTLR3 == <<"USART1", "CTLR3">>
        BRR == <<"USART1", "BRR">>
        clock == {"CLKEN", "CPOL", "CPHA"}
    IN  TryNumber(BRR, "5000") \o TryNumber(BRR, "417")
        \o TryOn(CTLR1, {"M"}) \o TryOff(CTLR1, {"M"})
        \o TryOn(CTLR1, {"PCE", "PS"}) \o Try(CTLR1, {"PCE", "PS"}, {"PCE"})
        \o TryOff(CTLR1, {"PCE", "PS"})
        \o TryOn(CTLR2, {"STOP"}) \o TryOff(CTLR2, {"STOP"})
        \o TryOn(CTLR2, clock) \o Off(CTLR2, clock)
        \o TryOn(CTLR3, {"RTSE", "CTSE"}) \o Off(CTLR3, {"RTSE", "CTSE"})
        \o TryOn(CTLR1, {"TE", "RE"}) \o Write(CTLR1, {"TE", "RE"}, {"TE"})

\* The console is restored after a failed check too.
UsartCase ==
    LET kept == <<"CTLR1", "CTLR2", "CTLR3", "BRR">>
        CTLR1 == <<"USART1", "CTLR1">>
    IN  Case("usart",
          Save("USART1", kept) \o Off(CTLR1, {"UE"}) \o Off(CTLR1, {"UE", "TE", "RE"})
          \o UsartChecks,
          Restore("USART1", kept) \o On(CTLR1, {"UE"}), TRUE)

DmaCase ==
    LET CFGR == <<"DMA1", "CFGR7">>
        interrupts == {"TCIE", "HTIE", "TEIE"}
    IN  Case("dma",
          Clock("DMA1", TRUE)
          \o Off(CFGR, All(CFGR)) \o TryOff(CFGR, {"DIR"}) \o TryOn(CFGR, {"DIR"})
          \o Try(CFGR, {"PL0", "PL1"}, {"PL0"})
          \o TryOn(CFGR, interrupts) \o TryOn(CFGR, {"CIRC"})
          \o Off(CFGR, All(CFGR)) \o RunDma,
          <<>>, FALSE)

timer_register_checks(tim) ==
    LET R(name) == <<tim, name>>
    IN  Off(R("CTLR1"), {"CEN"})
        \o TryNumber(R("PSC"), "1234") \o TryNumber(R("ATRLR"), "5678")
        \o TryNumber(R("CNT"), "0x1234")
        \o TryOn(R("CTLR1"), {"URS"})
        \o TryOn(R("CTLR1"), {"CKD"}) \o Off(R("CTLR1"), {"CKD"})
        \o TryOn(R("CTLR1"), {"ARPE"}) \o Off(R("CTLR1"), {"ARPE"})
        \o TryOn(R("DMAINTENR"), {"UIE"}) \o Off(R("DMAINTENR"), {"UIE"})
        \o Off(R("CTLR1"), {"URS"}) \o Off(R("INTFR"), {"UIF"})
        \o UpdateEvent(tim) \o Read(R("INTFR"), {"UIF"}, {"UIF"})
        \o TryOff(R("INTFR"), {"UIF"})
        \o Try(R("CHCTLR1"), {"4", "5", "6"}, {"5", "6"})         \* OC1M
        \o TryNumber(R("CH1CVR"), "0x1234")
        \o TryOn(R("CCER"), {"CC1P"}) \o Off(R("CCER"), {"CC1P"})
        \o TryOn(R("CHCTLR1"), {"3"}) \o Off(R("CHCTLR1"), {"3"}) \* OC1PE
        \o TryOn(R("CCER"), {"CC1E"}) \o Off(R("CCER"), {"CC1E"})
        \o TryOn(R("CHCTLR1"), {"4", "5", "6", "7"})              \* IC1F
        \o TryOn(R("CHCTLR1"), {"2", "3"})                        \* IC1PSC
        \o TryOn(R("CCER"), {"CC1P"}) \o Off(R("CCER"), {"CC1P"})
        \o Off(R("CHCTLR1"), {"2", "3", "4", "5", "6", "7"})
        \o (IF tim = "TIM1"
            THEN TryOn(R("BDTR"), {"DTG"}) \o TryOn(R("BDTR"), {"MOE"})
                 \o TryOn(R("CTLR2"), {"OIS1"}) \o Off(R("CTLR2"), {"OIS1"})
            ELSE <<>>)
        \o Off(R("CTLR1"), {"CEN"})

\* The time from the first update to the second.
timer_period_test(tim) ==
    LET R(name) == <<tim, name>>
        clear == Off(R("INTFR"), {"UIF"})
    IN  Clock(tim, TRUE) \o Off(R("CTLR1"), {"CEN"})
        \o Number(R("PSC"), "4799") \o Number(R("ATRLR"), "period")
        \o On(R("CTLR1"), {"URS"})
        \o Off(R("CNT"), All(R("CNT"))) \o clear \o UpdateEvent(tim) \o clear
        \o On(R("CTLR1"), {"CEN"})
        \o Await(tim) \o clear \o Mark("start")
        \o Await(tim) \o Mark("end") \o clear \o Off(R("CTLR1"), {"CEN"})
        \o InTime(TIMER_PERIOD - TIMER_TOLERANCE, TIMER_PERIOD + TIMER_TOLERANCE)
TimersCase ==
    Case("timers",
         Clock("TIM1", TRUE) \o Clock("TIM2", TRUE)
         \o timer_register_checks("TIM1") \o timer_register_checks("TIM2")
         \o timer_period_test("TIM1") \o timer_period_test("TIM2"),
         <<>>, FALSE)

\* With JL = 0 the injected sequencer converts JSQ4.
adc_convert_regular(ch) ==
    Number(<<"ADC1", "RSQR3">>, ch) \o Off(<<"ADC1", "STATR">>, {"EOC"})
    \o Convert("RSQR3", ch, "EOC", "RDATAR")
    \o Read(<<"ADC1", "STATR">>, {"EOC"}, {"EOC"})
    \o Off(<<"ADC1", "STATR">>, {"EOC"})
AdcCase ==
    LET R(name) == <<"ADC1", name>>
        good == {"400..620"}
    IN  Case("adc",
          Clock("ADC1", TRUE) \o Off(R("CTLR2"), {"ADON"})
          \o Off(R("CTLR2"), {"ALIGN"}) \o Off(R("CTLR2"), {"CONT"})
          \o On(R("SAMPTR1"), {"SMP"}) \o On(R("SAMPTR2"), {"SMP"})
          \o Read(R("SAMPTR1"), {"SMP"}, {"SMP"})
          \o Read(R("SAMPTR2"), {"SMP"}, {"SMP"})
          \o TryOn(R("CTLR1"), {"CALVOL"})
          \o On(R("CTLR2"), {"ADON"}) \o Delay(1)
          \o On(R("CTLR2"), {"CAL"}) \o TryOff(R("CTLR2"), {"CAL"})
          \o adc_convert_regular("9") \o Read(R("RDATAR"), good, good)
          \o Number(R("ISQR"), "JSQ4=9") \o Off(R("STATR"), {"JEOC"})
          \o Convert("ISQR", "JSQ4=9", "JEOC", "IDATAR1")
          \o Read(R("STATR"), {"JEOC"}, {"JEOC"}) \o Off(R("STATR"), {"JEOC"})
          \o Read(R("IDATAR1"), good, good)
          \o TryNumber(R("IOFR1"), "123")
          \o TryOn(R("CTLR1"), {"EOCIE"}) \o Off(R("CTLR1"), {"EOCIE"})
          \o TryOn(R("CTLR2"), {"DMA"}) \o Off(R("CTLR2"), {"DMA"}),
          Off(R("CTLR2"), {"ADON"}) \o Clock("ADC1", FALSE), FALSE)

SpiCase ==
    LET kept == <<"CTLR1", "CTLR2", "CRCR">>
        R(name) == <<"SPI1", name>>
        mask == All(R("CTLR1")) \ {"SPE"}
        value == mask \ {"BR0"}                      \* divide by 128
    IN  Case("spi",
          Save("SPI1", kept) \o Clock("SPI1", TRUE)
          \o Write(R("CTLR1"), All(R("CTLR1")), value) \o Read(R("CTLR1"), mask, value)
          \o TryOn(R("CTLR2"), All(R("CTLR2")))
          \o TryNumber(R("CRCR"), "0x1021")
          \o TryOn(R("CTLR1"), {"SPE"})
          \o Read(R("STATR"), {"TXE"}, {"TXE"}) \o Off(R("CTLR1"), {"SPE"}),
          Restore("SPI1", kept), FALSE)

I2cCase ==
    LET R(name) == <<"I2C1", name>>
        kept == <<"CTLR1", "CTLR2", "CKCFGR", "OADDR1", "DATAR">>
        interrupts == {"ITEVTEN", "ITBUFEN"}
    IN  Case("i2c",
          Save("I2C1", kept) \o Clock("I2C1", TRUE)
          \o Write(R("CTLR2"), All(R("CTLR2")), {"48"}) \o Read(R("CTLR2"), {"48"}, {"48"})
          \o TryNumber(R("CKCFGR"), "240") \o TryNumber(R("OADDR1"), "0x42")
          \o TryOn(R("CTLR1"), All(R("CTLR1")))
          \o TryNumber(R("DATAR"), "0x5a") \o TryOn(R("CTLR2"), interrupts),
          Restore("I2C1", kept), FALSE)

\* Nothing is saved yet when one of the first two checks fails.
EsigCase ==
    LET CTR == <<"EXTEN", "CTR">>
    IN  Case("esig",
          Read(<<"ESIG", "FLACAP">>, {"size"}, {"size"})
          \o Read(<<"ESIG", "UID">>, {"id"}, {"id"})
          \o Save("EXTEN", <<"CTR">>)
          \o TryOff(CTR, {"LOCKUP_RSTF"}) \o TryOn(CTR, {"LOCKUP_EN"})
          \o Off(CTR, {"LOCKUP_EN"}) \o TryOff(CTR, {"LDO_LOW"}),
          Restore("EXTEN", <<"CTR">>), TRUE)

selftest_cases ==
    <<RccCase, SystickCase, GpioCase, UsartCase, DmaCase, TimersCase, AdcCase,
      SpiCase, I2cCase, EsigCase>>

=============================================================================
