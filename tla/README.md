# Verification of libopenwch-examples

TLA+ models of the example firmware in this repository, the TLC runs that check
them on small instances, and TLAPS proofs. Paths are relative to `src/`; a
"store" below is a write the code makes to memory that outlives the step.

## 1. The system

The repository is a set of bare-metal programs for the CH32V003 and the CH582.
Each is one `main()` without interrupts or threads. What makes them hard is
around the CPU: a watchdog that resets it, a peripheral or a DMA channel that
runs beside it, a device at the other end of a bus, a chip that kept its power
when the CPU was reset.

| Component (`examples/...`) | State it keeps | Operations | Interacts with | Correct when |
|---|---|---|---|---|
| `ch32v0/selftest/selftest_main.c` session manager | `wd_state` in `.noinit` RAM, the sticky reset flags, the enabled watchdogs | `wd_state_reset`, `run_normal_tests`, `arm_iwdg_reset`, `arm_wwdg_reset`, `print_final_summary` | the cases (results), the reset controller | a PASS is earned over several boots, a FAIL has a reason, the session ends |
| `ch32v0/selftest/selftest_cases.c` | peripheral registers; DMA blocks | 10 cases, polled with time-outs | one peripheral each | a working part passes, a broken one does not, registers are left as found |
| `ch32v0/selftest/selftest_console.c` | none | blocking UART text | UART | formatting |
| `ch32v0/ssd1315_i2c/main.c`, hardware I2C | the I2C1 registers | `ssd1315_write`, `i2c_wait_flag`, `i2c_abort` | I2C1, the device | a 0 means every byte was taken; the bus is given back |
| same file, bit-bang I2C | the two line levels | `scl_*`, `sda_*`, `start`, `stop`, `write_byte` | the device samples the lines | only START and STOP move SDA under a high SCL; the ACK read is this byte's |
| same file, application | frame buffer, phase; the panel's registers and RAM | `ssd1315_probe`, `_init`, `_refresh`, `main` | the panel's command parser | the panel holds the frame; the pump is on before the display |
| same file, drawing | frame buffer | `fb_*`, `draw_pattern` | - | every pixel where it is meant, for every 8-bit phase |
| `ch32v0/adc_dma_uart/main.c` | the block, ADC and DMA registers, the digit buffer | `adc_dma_init`, `adc_mean`, `adc_dma_restart`, `uart_putu`, `main` | ADC, DMA | each line is of one whole block, rounded and printed right |
| `ch32v0/spi_nor_crc/main.c` | chunk buffer, CRC, SPI registers | four command frames, `crc32_page`, `main` | SPI1, the flash chip | the CRCs are the pages'; the report is the chip's |
| `ch32v0/pwm/main.c` | table index, direction | `pwm_set_duty`, `main` | TIM2 with preload | each period is lit as asked; it keeps breathing |
| `ch5xx58x/ch582_pwm/main.c` | the PWM divider | `pwm_init`, `main` | PWM block | the divider is the one described |
| `ch5xx58x/ch582_ble_advertise/main.c` | the LED pin | callbacks, `main` | the BLE library | the LED shows the link |
| `blink`, `uart_counter`, `ch582_blink`, `ch582_uart_counter` | a counter or a pin | a loop | GPIO, UART | trivial |
| `rules/*.mk`, Makefiles | files | library lookup, builds | make | out of scope |
| libopenwch | - | register accesses | - | submodule, not in the repository |

The hard behaviours, each with its line, are listed in `PROJECT.json` under
`hazards`; those no property covers have a note that says why.

## 2. Modules

| Module | Models | How it corresponds |
|---|---|---|
| `Selftest` | session manager | one action per store to `wd_state` or to the flags and per decision of `main()`, so that any reset falls between any two of them. `wd` is `wd_state` (magic and inverse magic as two Booleans), `flags` RCC_RSTSCKR, `reset_flags` the local copy. A case is a nondeterministic result. `hist` records what happened in the session, for the properties only |
| `I2cTransfer` | the contract of `ssd1315_write` | a call, bytes taken by a device, a return of 0 only when all were taken and acknowledged |
| `HwI2c` | hardware write | CPU steps are a poll that finds its flag with the store that follows, or a time-out; the I2C1 block steps by itself. Implements `I2cTransfer` |
| `BitbangI2c` | bit-bang write | one action per line operation; the device (external) notices level changes one at a time, when it likes, and `i2c_bitbang_delay()` is the guard that it has. Implements `I2cTransfer` |
| `Ssd1315` | application and panel | the CPU sends command tables and the frame one byte at a time; the panel parses them. A write may fail at any byte, the MCU may reset at any byte. It uses of `ssd1315_write` only what `I2cTransfer` promises |
| `Pattern` | drawing and animation | pure operators at full size (128 x 64), coordinates as `uint16_t`; a step is a turn of the loop |
| `AdcDma` | `adc_dma_uart` | three processes: CPU, ADC, DMA channel. `uart_putu()` takes its digits last first, one action each, and sends them the other way round; the fixed text of the line is left out |
| `CaseTables` | what the ten self-test cases do | one table of steps per case, in the order of the code: writes, checks, saves, restores, clocks, waits. A register is the set of its bits that are 1; a number is one named "bit". One row stands for one to three statements |
| `CaseRunner` | the case loop on a board | the CPU executes the tables; SysTick, the timers and the DMA engine go on beside it. `fault` is what is broken: nothing, one register bit stuck at a level, a timer or SysTick of a wrong rate, one DMA channel in one way |
| `DmaTest` | the transfers of the `dma` case | the CPU with its time-out against the engine; `CaseRunner` calls it at the `dma` step and takes its result |
| `SpiNorCrc` | `spi_nor_crc` | frames byte by byte with full-duplex answers; CRC words are sets of bits |
| `Breath` | `pwm` | the loop and TIM2: counter, active compare value, preload |
| `Ch582Pwm` | divider of `ch582_pwm` | one assignment |
| `BleLed` | LED of `ch582_ble_advertise` | the role callback after a role change |

`SelftestProofs`, `CaseRunnerProofs`, `AdcDmaProofs`, `HwI2cProofs`,
`BitbangI2cProofs`, `Ssd1315Proofs`, `BreathProofs` and `SpiNorProofs` extend the module they are
named after and hold its theorems (section 4). `CaseAudit`, between `CaseRunner` and its
proofs, states as assumptions what the tables of the cases contain and how far the
measured times of a good and a bad board lie apart; TLC evaluates them on the
tables whenever it checks `MCCases`.

How they are composed: `HwI2c` and `BitbangI2c` implement `I2cTransfer`, and
`Ssd1315` relies on that contract only; `CaseRunner` runs `CaseTables` and
`DmaTest`; `Selftest` takes of a case only its result, which `CaseRunner` shows
to come (`CasesReturn`) and to be right (`PassIsEarned`, `FailIsDeserved`).

`MC*` modules only give values to constants. A definition named
`<definition>_<Word>` is a deliberately wrong variant of the definition after it;
no specification uses one. They show that each property can fail: with the
variant in place TLC finds the property of the matching `mutants` entry violated.

## 3. What the runs show

| Run | Instance | Question |
|---|---|---|
| `selftest` | 2 cases, 2 resets from outside, any phase 0..4 and counters 0 or 5 in RAM at power-on | verdict, counts and progress of the session under every placement of resets |
| `bitbang` | bytes of 3 bits, frames of 2 and 4 bytes, 2 calls | the software I2C master implements the contract and keeps the bus rules |
| `hwi2c` | frames of 2 to 4 bytes, 2 calls | the hardware write implements the contract whatever time-out races what flag; calls return; a failed one frees the bus |
| `ssd1315` | panel of 3 columns and 2 pages, 2 MCU resets, all builds | initialisation, power-up order, frames, across resets mid-command |
| `pattern` | the real size, all 256 phases | the buffer is exactly the described picture |
| `pattern_bounce` | same | finding: the rectangle does not bounce |
| `adc_dma` | blocks of 3, values 0, 2, 7 of 7, numbers in base 2, buffer of 5 digits | whole and still blocks, for ever; the line is the rounded mean and millivolts, digit by digit |
| `cases` | all ten cases, every bit of the tables stuck at 0 or at 1, 2 timer rates, 2 SysTick rates, 6 DMA faults on each of 4 channels; SysTick modulo 16 starting at 7 or 13 | a PASS is earned, a FAIL is of the faulty block, saved registers come back, every case returns |
| `spi_nor` | pages of 9 bytes, chunks of 4, 3 address digits in base 3 | CRC, report, termination, with and without a chip |
| `breath` | table of 5, periods of 4 ticks | the LED is lit as asked and breathes |
| `ch582_closest` | the real constants at 60 MHz | finding: not the closest divider |
| `ble_led_shows` | the real states | finding: LED polarity |

Why the bounds are enough. A session has three watchdog phases; two outside
resets hit any two of them, or the same twice, and a power-on in between gives
every leftover RAM content that the code can tell apart (magic right or wrong,
phase below, at and above the end, counters zero or not). Two cases are one
that ends the loop and one that does not. In the I2C models four bytes have a
first, a middle and a last one and repeat a value, and the second call finds what the first left. Three bits
have a first, inner and last bit; the code treats bits alike. The panel is the
smallest on which column and page wrap differ. Chunks of 4 in 9 bytes end with
a short chunk, as a page size that is not a multiple would; three base-3 digits
are three address bytes. Blocks of 3 have samples whose rounding goes either
way, and in base 2 the numbers fill their buffer as ten decimal digits do. The DMA time-out of 6 polls exceeds every transfer, as the code's does.
In `cases` a timer's period is 6 ticks and its time-out 12, SysTick wraps
after 16: with the two starts it wraps during the first wait, the second, or
between the two readings that are subtracted. A millisecond is 4 ticks and
accepted as 3 to 6, as 4 and the polling loop can make it. `Lag` = 1 lets the CPU
see a flag one tick late at every turn. One fault at a time is
what a verdict can be held against: with two, either may hide the other.

Fairness and assumptions about what is outside the code:

- The CPU executes (no interrupts, no other thread): weak fairness on its steps.
  A write to a device that never answers is bounded by time-outs, not fairness.
- `Selftest`: an enabled watchdog that nobody refreshes fires (weak fairness). A
  watchdog reset raises its own flag and not the pin's. A reset from outside may
  come at any store or not at all; one that raises no flag exists (`SilentReset`)
  and is reported apart, as `hist.disturbed`. Power-on leaves any RAM content.
- `HwI2c`: nothing is assumed of the I2C block for safety or for the return of
  a call; `BusReleased` alone assumes it makes the STOP it was asked for.
- `BitbangI2c`: the device notices a level change within a delay, and does not
  stretch the clock.
- `Ssd1315`: the panel keeps its state, a half-received command included, over a
  reset of the MCU.
- `AdcDma`: a conversion takes longer than the DMA needs to move its result.
- `DmaTest`: an engine that is not slow keeps up with the polling loop. A `slow`
  one counts as a fault of the DMA block, so the case may fail with it or pass.
- `CaseRunner`: a block without a clock reads 0 and takes no write; the USART
  locks CPOL and CPHA while its transmitter is on; a conversion, a READY bit or
  a flag comes in time unless that bit is the stuck one (only the timer waits
  and the DMA poll are modelled as loops, because only there the time matters);
  an entry of the clock frequencies is right or half of it, from start-up on, and
  everything the code computes from one follows it (`Ticks`: delays, time-outs and
  the window of the timers case; `Baud`: the divider of the USART, that of
  `console_init()` included; `ReloadOf`: the periods of the timers). SysTick's own
  frequency is what `rcc_sysclk_frequency` was at start-up
  (`selftest_main.c:83`), so it is the `sysclk` entry that `test_systick()` checks.
  SysTick
  may read any start value when a case begins and time passes only in steps that
  wait or read the clock; the CPU takes at most `Lag` ticks for a turn of a
  loop. Fairness: the CPU runs, time passes, an enabled DMA channel that is not
  stuck moves its data. `CasesReturn` is stated for a SysTick that counts,
  because `qingke_delay_us()` has no time-out.
- `AdcDma`, `Breath`, `SpiNorCrc`: the CPU runs, the ADC converts, an armed
  channel serves a request, the timer counts (weak fairness each).
- Deadlock is checked except in the models of programs or calls that end
  (`CHECK_DEADLOCK FALSE`: the bounded number of calls in the I2C models, the
  last case of `cases`, the final loop of the SPI, divider and BLE models).

What TLC alone establishes: all liveness, and everything in `Pattern`, which needs
no more: its run is the real screen over all 256 phases. Of the facts about the
constant tables that `CaseAudit` states, TLC evaluates each one and the proofs use it.

### Findings

- `ble_led_shows`: the LED is lit while advertising and dark while connected,
  opposite to the header comment of the example.
- `ch582_closest`: the divider is rounded up, not to the closest.
- `pattern_bounce`: the rectangle jumps back instead of bouncing.
- Seen and not run: `spi_nor_crc` sends 24-bit addresses, so a build that
  overrides `FLASH_PAGE_COUNT` beyond 4096 reports the first pages again.
  Each DMA channel is tried with one element size, so a channel that truncates
  wide data is not noticed on those tried with bytes (`PassIsEarned` says so).
  `selftest_cases.c:22-23` calls the cases "deliberately non-destructive", but
  the timer and ADC registers are not restored, the SPI's CRCR is restored as 0
  because it was saved before the clock was enabled, and the GPIO, SPI, I2C and
  ADC cases return from a failed check without restoring (`SavedIsRestored` is
  stated with these exceptions). The selftest README lists DMA of `i2c1` and TC
  of `usart1`, which no case sets and reads back (`NotTried`): a pass says nothing
  of them, and `PassIsEarned` says just that, so it does not catch the hazard, it
  shows that these bits are all. A SysTick of a
  wrong rate passes its own case, which measures it with a delay it ends itself;
  a stopped one hangs the session. `usart` turns the transmitter off without
  waiting for the last byte to leave. The header of `ch32v0/uart_counter` names
  partial remap 1 for PD5; its own list of remaps calls PD5 the unmapped pin.

## 4. What is proved

TLAPS checks every theorem below to the last leaf; nothing is assumed but the
named `ASSUME`s of the modules, which TLC evaluates on the runs. Each module follows
one pattern: `IInv` is the invariant, `InitIInv` and `NextIInv` (or one lemma
per process) show it inductive, `Invariant` (`InductiveInvariant` in
`SelftestProofs`) is `Spec => []IInv`, and the properties
follow from it. TLC found each `IInv` to hold on the small instance first.

### The session manager

`SelftestProofs` holds for any number of cases, any number of resets, and any
contents of RAM at power-on (`SelftestAssumption`: they are natural numbers):

| Theorem | States |
|---|---|
| `TypeCorrect` | `TypeOK`: no index past the registry, no label but those of `main()` |
| `InductiveInvariant` | `IInv` |
| `PassIsHonest` | `VerdictHonest` |
| `CheckpointIsBeforeArm` | `CheckpointBeforeArm` |
| `CommittedResultsRetained` | `ResultsRetained`, an action property |
| `FailIsExplained` | `FailExplained` |
| `SummaryCounts` | `SummaryExact` |

Why the invariant. `VerdictHonest` speaks of a printed summary, but a later boot
decides on what earlier boots left, and `main()` itself knows only its flags and
the record. `IInv` therefore says what the record is worth: `RetainedInv` - when
no reset that starts a session is pending, the record is valid, a watchdog's
flag means it fired, and a record without failures means that what its phase
claims has happened. That clause must survive a reset at any step, so
`RunInv`, `StartInv`, `Phase0Inv` and `WatchdogInv` say at each label which
stores are done (`set_phase1` is reached only with stored counts and cleared
flags; a watchdog is enabled only behind its phase). A reboot makes these
clauses vacuous (lemma `RebootForgets`), and a step that leaves the record alone
keeps `RetainedInv` (`RetainedFrame`). `FailIsExplained` adds a second inductive
pair, `RetainedBlame` and `CpuBlame`: a failure counted has a cause, which an
outside reset never wipes.

`SummaryCounts` is `SummaryExact`: the numbers of
the printed summary. Its invariant `CountInv` stands on `IInv`. `CasesInv` equates
the local counters with the cardinalities of the results so far (one more
result is one more in exactly one set: lemma `OneMore`) and follows them through
the stores that commit them. `FiredInv` says which watchdogs have fired
at each phase and label, and `TallyInv` that the record is the committed results plus
one for each watchdog already counted. These two hold only while no reset without a
flag fell into a watchdog phase (`hist.disturbed`), as `SummaryExact` does.

### The self-test cases

| Theorem of `CaseRunnerProofs` | States |
|---|---|
| `TypeCorrect` | `TypeOK` |
| `PassEarned` | `PassIsEarned`: which faults a case that passes may have missed |
| `FailDeserved` | `FailIsDeserved`: a case that fails is judged with the faulty block: its own, for `systick`, `usart` and `timers` also the clock frequencies, for `timers` also SysTick |
| `SavedRestored` | `SavedIsRestored`: what a case saves comes back, but for two exceptions |

The tables are those of the code; SysTick's width and start, the periods, the time-out and the
transfers are any (`CaseRunnerAssumption`, `DmaTestAssumption`; DMA channels are numbered from 1). The
properties are about ten tables of several hundred rows, and their proofs are not a walk
through them. `CaseAudit` states what makes the tables right, as constant facts that
TLC evaluates, and one generic step is proved from these. For `PassIsEarned`:

- `BitsAreTried`: each bit of the block under test outside `NotTried` is wanted as 1 by a
  check, unless it is tried by what it does; each of `MustClear` is wanted as 0 by a check
  before which the block has got its clock;
- `UsesAreTried`, `ConversionsAreTried`, `PeriodsAreTried`: the delay of the SysTick
  case, the transfers of the `dma` case, the two conversions, and the eighteen rows
  of `timer_period_test()` are there;
- `TimingAssumption`: a slow and a fast timer differ from the right one by more than the
  tolerance and two turns of the polling loop, a SysTick that counts by two cannot
  bring a period into the window, and SysTick does not come round to the window in the
  time a measurement can take. In the code the period is 1 s, the tolerance 5 ms and the
  time-out 2 s (`selftest_cases.c:568-570`), a turn of the loop some
  microseconds, and SysTick takes minutes to come round.

`Blocks(c, i)` says of a row that the fault does not let it pass. The proof has two
halves. `CaseTried`: a case none of whose rows blocks may pass, from the
audit alone. `StepTried`: a step that goes on with the verdict still a pass was
not blocked, from the invariant `EarnedInv`:

- `FaultInv`: a stuck bit is at its level in every state, whatever writes, restores,
  overflows and conversions do to its register;
- `ClockInv`: while no check has failed, a block the table has given a clock has one;
- `TransferInv`: what a channel's fault keeps from happening has not happened at any
  poll (`Undone`), so no transfer of that channel has been accepted, also not at the last
  poll before the time-out;
- `DelayInv`: the start of a delay is what a stopped SysTick still reads;
- `PeriodInv`: the measurement, row by row. From the first update noticed at most `Lag`
  late, to the second, to the readings subtracted, with `e` the ticks of the core since the start
  was read: a good flag gives `e > RealPeriod - 2 * Lag`, a good enable bit
  `e < RealPeriod + 2 * Lag`, and the time-out bounds `e` even when the flag is
  stuck. SysTick has counted `Rate * e` modulo its width (`ReadAfter`). Each
  wrong period then falls outside the window.

`SavedIsRestored` stands on two more audits. `SavesAreUndone`: a case saves a register before
anything touches it (or reads zero from a block without a clock, whose start value is then
`Lost`), and its last rows write it back while the block has a clock; nothing they do after
that sets a bit that was not set. `LockIsLifted`: the usart case turns the transmitter off,
clears CPOL and CPHA, and no later row sets them. The invariant `UndoneInv`:

- `UntouchedInv`: a register that no row so far touches holds what the start-up code left
  there, stuck bit included (`First`), and a timer that nothing touches has no clock, so
  its flag cannot rise;
- `SavedInv`: what is saved is that value but for `Lost`, and a case that has failed is
  already at the rows that undo;
- `LockInv`: CPOL and CPHA, which a write cannot change while the transmitter is on, are
  clear by the time they are written back, unless a check failed before;
- `RestoredInv`: a register that the last rows have written back holds the value again,
  whatever they do after that.

`FailIsDeserved` is the other direction of `PassIsEarned`: here every register that a
check reads must be known. `Expected[c][i]` is the register file that row `i` of case `c`
finds when nothing is broken, computed from the tables by `After`, one row at a time. It is
a recursive function, which the prover cannot unfold; that its steps are `After` is the
evaluated fact `ExpectedSteps`. Of it, TLC checks

- `ChecksAreRight`: a case touches only the blocks it tests, no case before it has touched
  them, it writes and reads only with a clock, and what a row reads back is what is expected
  there, or is a clock frequency with which the case is then judged, as is the case that
  writes the baud rate; no row reads a timer's flag once the timer may have been enabled (`Steady`);
- `TimesAreRight`: every wait for a timer and every window belongs to a
  `timer_period_test()` or to the measured delay of `test_systick()`, in a case judged with
  SysTick and the clock frequencies;
- `RoomAssumption`: the windows have room for two or three turns of a polling loop. In the
  code that is 5000 ticks of 48000 (`selftest_cases.c:141-149`) and 5 ms of a second
  (line 569).

With a right frequency entry the time-outs, windows and divider are those of the tables
(`SoundTicks`, `SoundTimed`, `SoundFreq`, `BaudValue`). A wrong one is a fault of the block
`RCC`, and the three cases that use it may fail with it: `test_systick()` compares it
(`selftest_cases.c:130`), `usart_config_checks()` reads a divider made of it (lines 224-231),
`timer_period_test()` times with it. Of the others only `rcc` may fail; `adc` must pass
with delays half as long.

The invariant `DeservedInv` is about a case none of whose blocks is faulty (`Sound`):

- `FoundInv`: until the case undoes what it did, the registers under test hold what is
  expected. A fault elsewhere cannot reach them: every row writes, raises and converts within
  the blocks under test, and no overflow sets a flag that is checked;
- `SysTickInv`: a SysTick that is not broken is enabled whenever another case runs, the
  clock frequencies being right (a wrong one ends the systick case early), which makes `Rate = 1` in the timers case;
- `WaitsInv`: how long the first wait for a timer and the measured millisecond have lasted,
  row by row; the second wait is already in `PeriodInv`. A sound timer overflows
  before the time-out (`SoundWait`) and its period is in the window (`SoundWindow`), and so
  is the delay (`SoundDelay`);
- `MovesInv`: a sound channel moves an element in less than a turn of the loop, so the poll
  sees the transfer complete before the time-out and the blocks equal;
- `SoundInv`: the verdict of the case is still a pass (`SoundStep`), and no case before it
  failed undeservedly.

### The I2C transfer, twice

| Theorem of `HwI2cProofs` | States |
|---|---|
| `TypeCorrect` | `TypeOK` |
| `NoStartOnBusyBus` | `StartsOnFreeBus` |
| `Implements` | `ImplementsTransfer`: `Spec` implies the specification of `I2cTransfer` |

For any set of bytes, frames of at least two bytes and number of calls
(`HwI2cAssumption`). A time-out can leave the block at work while the next call
begins, so the invariant ties the two together: `BytesInv` - what the device
took, the shift register and the data register are successive bytes
of the frame; `AckInv` - nothing goes out after a NACK; `StartInv` - a START
pends only on a free bus; `WaitInv` - how far the block can be at each flag the
CPU waits for; `IdleInv` - what a return of 0 has left behind. A step of the CPU or
the block is then a `Take`, a return or a stutter of the contract (`NextTransfer`).

| Theorem of `BitbangI2cProofs` | States |
|---|---|
| `TypeCorrect` | `TypeOK` |
| `BusIsFree` | `FreeBetweenCalls` |
| `AnswerIsRead` | `AckIsOfThisByte` |
| `SdaMoves` | `OnlyStartAndStop`, an action property |
| `Implements` | `ImplementsTransfer` |

For any byte width, frames and number of calls (`BitbangAssumption`). The device
lags behind the lines by the last change, so each part of the invariant has the
two cases "seen" and "not yet seen": `LevelInv` (what the master drives),
`FrameInv`, `QuietInv` (the device between calls and during START), `SampleInv`
(it has sampled the bits before this one), `AnswerInv`, `StopInv`, `TakenInv` (what
it took is the frame so far) and `AckInv` (what the master read is its answer).

### The panel

`Ssd1315Proofs` holds for any panel of up to 128 columns and 8 pages, any
pictures, every build and any number of MCU resets (`Ssd1315Assumption`):

| Theorem | States |
|---|---|
| `InitHasEffect` | `InitTakesEffect` |
| `PumpIsFirst` | `PumpBeforeOn`, an action property |
| `ImageIsShown` | `ImageShown` |

A reset leaves in the panel a command that waits for up to two arguments, and the
next boot's first bytes are taken for them. `Pending` bounds what can be left, and
`InitInv` follows the table byte by byte: `InStep` says that from the third byte on
the panel has open exactly the command the table has (lemma `FirstBytes`: whatever
was open is used up by the display-off and clock bytes, whose loss the later entries do not
depend on), and `Achieved` which registers are set by then. `PumpIsFirst` follows
because only a command byte 175 turns the display on (`TurnsOn`), and in every
table it stands last in the initialisation and nowhere else (`OnIsLast`), behind the pump.
`IrefInv` carries the current reference of builds that never select one. `WindowInv`
does for the six window bytes what `InitInv` does for the table; then `PointerInv`
has `page * Width + col` equal to the bytes sent, so each goes where the framebuffer has
it (lemma `DataByte`).

### The other programs

| Theorem | States | For any |
|---|---|---|
| `AdcDmaProofs!TypeCorrect` | `TypeOK` | block length, values, full scale, base (`AdcDmaAssumption`) |
| `AdcDmaProofs!BlockIsWhole` | `WholeBlock` | |
| `AdcDmaProofs!BlockDoesNotMove` | `BlockIsStable`, an action property | |
| `AdcDmaProofs!NearestPrinted` | `NumbersAreNearest`: the roundings of `MeanIsOfBlock` | |
| `AdcDmaProofs!LineIsOfBlock` | `MeanIsOfBlock`: the line is of the whole block | |
| `BreathProofs!TypeCorrect`, `LitIsWanted` | `TypeOK`, `LitAsWanted` | table, period, delay (`BreathAssumption`) |
| `SpiNorProofs!TypesAreRight` | `TypeOK` | page and chunk size, chips, contents (`SpiNorCrcAssumption`) |
| `SpiNorProofs!ReportIsTrue` | `ReportIsTheChips` | |
| `SpiNorProofs!PageIsRead` | `BufferIsThePage`: what `crc32_update()` gets are the page's bytes | |
| `SpiNorProofs!PrintsTheCrc` | `CrcIsOfPage`: the value printed is the CRC-32 of the page | |

`AdcDma`: `FilledInv` says from the count left and the flag how much of the
block is new, wherever the CPU is; `HandoverInv` that the channel stays complete
and then disabled from the poll that saw it until it is armed again. `SumInv`
and `LineInv` bound the sum and the digits; `RoundedInv` carries the two
rounded numbers to the end of the line. `LineIsOfBlock` adds that the running sum is the
fold over the samples added so far, and the digits taken those of the number.

`Breath`: `LitInv` gives the ticks lit so far from the counter and the compare
value in use, `DutyInv` says which brightness the preloaded and the active value
belong to; the end of a period then compares the right two.

`SpiNorCrc`: `FrameInv` - at every byte the chip has heard the front of the frame and
the rest is still to send; `AnswerInv` - what came back behind the command,
address and dummy bytes is the chip's; `ReportInv` and `BufferInv` - what was
stored of it. `PageIsRead` needs that the three bytes of the address put
together are the address (lemma `ThreeDigits`), which holds under `Fits`: the pages
asked for lie in the chip and below `Radix^3`, 16 MiB in the code. That the chips'
identities are neither all 0 nor all 255 is in `SpiNorCrcAssumption`, because the code
takes these two for an empty bus.

`PrintsTheCrc`, under `Fits` as well: the register is the mirror image of the remainder of
the polynomial division of the bytes so far (lemma `TurnsMirror` for one turn of the loop), and
the bytes so far are those of the page, chunk by chunk.

The definitions these last theorems speak of are recursive functions over the
naturals and folds. The library's induction rules cannot be used by the installed
provers, so where an induction over data is needed it is made by hand: the set of
counterexamples below a bound, if not empty, has a least element, and that is refuted.

Out of the prover's reach and left to TLC: liveness.

## 5. Not modelled

- `selftest_console.c`, `blink`, `uart_counter` (CH32V0 and CH582): blocking
  output of text and loops that toggle or count; one actor, no state a later step
  depends on.
- `ch582_pwm` is modelled in its divider; its loop turns at the ends of its table as
  that of `pwm`, which `Breath` models. How its PWM block takes a new value within a cycle
  nothing in the repository tells, so `LitAsWanted` cannot be stated of it.
- In `ch582_ble_advertise` the message drain, advertising data and GAP
  parameters: the queue and the link layer are in the BLE library.
- `rules/*.mk`: build time. The hardware library: not in the repository; its
  operations are in the models as external definitions.
- That an enabled watchdog fires is an assumption (one that never does leaves the
  firmware in its last loop); so is that an I2C device does not stretch the clock.

## 6. Plan

Order of work: the session manager first (the only state that survives crashes),
then the I2C stack and what stands on it (abstract contract, two
implementations, application, drawing), the DMA programs, the SPI program, the
small ones, the self-test cases; then the proofs. Done: all modules above, and the
theorems of section 4. What would come next:

1. Liveness and `ENABLED` by proof, when the prover can do it.
2. The loops of `ch582_pwm` and the counters, if they grow beyond what they are.
3. In `cases`, a conversion that needs `ADON`: its flag wait then times out with the bit
   stuck at zero, and `NotTried` is one bit smaller.
