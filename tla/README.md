# TLA+ models of the Cortex-M3 DesignStart SoC

The repository is the Cortex-M3 DesignStart evaluation SoC: the CMSDK bus
components and APB peripherals (`cmsdk/`), the SoC that connects them
(`m3designstart_iot/`, `m3designstart/logical`), board peripherals (`smm/`,
`rtc_pl031/`, `trng/`) and the software that runs on it
(`m3designstart/software`).  A vendored compiler and C library make up most of
its files and are not part of the design.

The models are translated from the Verilog and C sources, cycle by cycle: a
step is a rising edge of a clock (or of several at one instant) or a reset, and
every register takes its next value from the values before the edge.  Paths
below are relative to `src/soc_verification`; `PROJECT.json` maps each
definition to its lines.

1. [Inventory](#inventory)
2. [Modules](#modules)
3. [What is checked](#what-is-checked)
4. [What is proved](#what-is-proved)
5. [Where the code and its comments disagree](#where-the-code-and-its-comments-disagree)
6. [What is not modelled](#what-is-not-modelled)
7. [Plan](#plan)

## Inventory

How the parts meet: the processor is an AHB-Lite master of the bus matrix
(`p_beid_interconnect_f0_ahb_mtx`), with two expansion masters.  The matrix
shares its slaves between them: four main memories (`cmsdk_ahb_to_sram` over
block RAM), the flash, two expansion ports, and the APB, behind
`cmsdk_ahb_to_apb` and an APB multiplexer.  Expansion ports lead to the GPIOs,
the PSRAM and the display.  Peripherals talk back by interrupts; the watchdog,
the processor's `SYSRESETREQ` and its `LOCKUP` meet in the reset generator,
and `beetle_sysctrl` remembers which of them it was.

| Part | State it keeps | Operations | What is hard | What makes it correct |
|---|---|---|---|---|
| APB watchdog, `cmsdk_apb_watchdog*.v` | lock, control, load, count with split carries, load and clear toggles, raw interrupt, reset request | register writes and reads, WDOGCLK edge, reset | two clocks, toggle handshakes, registered carries | it counts as one counter; no load or clear is lost; it resets only after the service window |
| Reset generator and RSTINFO, `m3ds_user_partition.v`, `beetle_sysctrl.v` | system reset, recorded causes, LOCKUPRESETEN | reset request, write 1 to clear | a cause that arrives while it is cleared | every reset names its causes; a hang ends in a reset |
| Watchdog demo, `watchdog_demo.c` | test flags, program counters of `main()` and of the NMI handler | two parts of `main()`, handler | the handler locks the watchdog behind `main()` | it always passes |
| AHB to APB bridge, `cmsdk_ahb_to_apb.v` | state, sampled controls, read and write data register | AHB transfer, PCLK edge, APB answer | pipelined AHB against two-phase APB, any PCLK ratio, errors | one legal APB transfer for each AHB transfer, and its answer |
| Main memory, `cmsdk_ahb_to_sram.v`, `cmsdk_fpga_sram.v` | write buffer with valid lanes, RAM, bank | read, write, wait of another slave, reset | a write waits behind reads, and is read meanwhile | one memory |
| Bus matrix, `p_beid_interconnect_f0_ahb_mtx*.v` | for each master a holding register and its routing, for each slave an arbiter and the ports of address and data phase | transfer, wait, error, burst, locked sequence | three ready signals, bursts split by arbitration, locks, errors that cancel | each transfer done once, by its slave, and answered to its master; bursts whole; locks exclude; nobody starves |
| Dual timer, `cmsdk_apb_dualtimers*.v` | load, background load, count, carries, prescaler, one-shot stop | register accesses, timer clock | load and background load race the timer clock | carries agree with the count |
| UART, `cmsdk_apb_uart.v` | TX and RX buffer and shifter, overruns, interrupts | write, read, clear, baud tick | software against the shifter in one cycle | no byte lost or doubled without an overrun; no interrupt lost |
| APB timers, `cmsdk_apb_timer.v`, `p_beid_peripheral_f0_timer.v` | value, reload, interrupt | count, write, clear | set against clear | no timeout lost |
| Peripheral drivers, `CM3DS_MPS2_driver.c` | none of their own | read-modify-write of CTRL, start and stop, polling | `main()` against handlers | no change undone; a UART is configured only while the line is quiet |
| Driver programs, `uart_driver_tests.c`, `timer_driver_tests.c`, `interrupt_demo.c`, `dualtimer_demo.c` | counters and flags shared with handlers, a result | a stage, a handler | a handler may run between any two instructions, polling loops race events | they end, and report success |
| GPIO, `cmsdk_iop_gpio.v` | synchronisers, last pins, enables, types, interrupts | register accesses, pin changes | edge detection while types change; set against clear | an interrupt for every edge and for no other reason |
| Asynchronous bridge, `cmsdk_ahb_to_ahb_apb_async*.v` | semaphores and buffers of two clock domains | transaction, lock, reset of one side | reconvergence of synchronisers | one transaction at a time, with its own answer |
| Synchronous bridges, `cmsdk_ahb_to_ahb_sync*` | hold buffer, write buffer | transfer, late error | order of held and buffered transfers | order kept, errors reported |
| Timeout monitors, `cmsdk_ahb_timeout_mon.v`, `cmsdk_apb_timeout_mon.v` | counter, timeout state | transfer, timeout, late answer | late answer against timeout | the master always gets one answer |
| PSRAM interface, `cmsdk_ahb_to_extmem16_*_psram.v` | bus machine, memory machine, read buffers, pins | read, write, turnaround, reset | a transfer is up to four accesses; two machines and a bus with two drivers | one memory; the bus changes hands slowly; pins still in a write |
| SPI loader, `spi2apb3.v` | shift registers, request levels, APB machine | serial packet, bus answer | two clocks without a handshake back | one transfer for each packet |
| Real-time clock, `Rtc*.v` | counter, offset, match | count edge, load, match write | one adder for three updates | the match fires at its time |

Library parts that the SoC does not instantiate (`cmsdk_ahb_to_ahb_apb_async`,
the synchronous bridges, the monitors, master multiplexer, bit-band wrapper,
sizers) come after those it does.  `PROJECT.json` lists the remaining parts
(processor netlist, decoders, audio and display, random number generator,
generators, test benches, other software) with the reason each is left out.

## Modules

| Module | Models |
|---|---|
| `Watchdog` | `cmsdk_apb_watchdog.v` and `_frc.v`, both clock domains |
| `WatchdogTimer` | abstract: the timer software is told about, without clock domains |
| `WatchdogRefinement` | `Watchdog` implements `WatchdogTimer` |
| `WatchdogHistory`, `WatchdogTimeouts` | `Watchdog` with history variables: for its service window, and for what comes between interrupt and reset |
| `WatchdogSoC` | `Watchdog` with the reset generator, RSTINFO and arbitrary software |
| `WatchdogDemo` | `watchdog_demo.c` on `WatchdogSoC` |
| `AhbTransfers` | transfers, byte lanes |
| `AhbDevice` | abstract: a device that performs each transfer once and answers it |
| `AhbToApb` | bridge, default slave and slave multiplexer between any master and any APB slave; implements `AhbDevice` |
| `AhbToSram` | bridge, block RAM and banks; implements `AhbDevice` |
| `AhbToExtmem16` | PSRAM interface, with the memory and its bus; implements `AhbDevice` |
| `SharedSlaves` | abstract: calls of several masters, served by the slaves they name |
| `AhbBusMatrix` | input stages, decoders, output stages, arbiters, default slaves; implements `SharedSlaves` |
| `DualTimer` | both counters of `cmsdk_apb_dualtimers*.v`, the bus, the interrupts |
| `IntervalTimer` | abstract: one number that counts down, in the modes software is told about |
| `DualTimerRefinement` | each counter of `DualTimer` implements `IntervalTimer` |
| `ApbUart` | `cmsdk_apb_uart.v`, one instance as a record and its clock edge |
| `ByteChannel` | abstract: bytes in order from one end to the other, with the flags software has |
| `UartLink` | two UARTs wired to each other, with arbitrary software; implements `ByteChannel` |
| `ApbTimer`, `IopGpio` | `cmsdk_apb_timer.v` and `cmsdk_iop_gpio.v`, in the same form |
| `Statements` | the C statements the programs are made of, as instructions |
| `Drivers` | the functions of `CM3DS_MPS2_driver.c`, as instructions |
| `UartDriverTests`, `TimerDriverTests`, `InterruptDemo` | the text of the three programs and their handlers |
| `DriverPrograms` | a processor that runs any of the three on the UARTs, the timers and the GPIO port |
| `DualTimerDemo` | `dualtimer_demo.c` on `DualTimer` |
| `StatementsProofs` | what the statements of a program text compile to, and which instruction of a part is where in a program: lemmas about `Statements`, and some about sequences |
| `WatchdogProofs`, `AhbToApbProofs`, `AhbToSramProofs`, `AhbBusMatrixProofs`, `AhbToExtmem16Proofs`, `DualTimerProofs`, `UartLinkProofs` | the theorems; those of a program are with the component it runs on |
| `MC*` | instances for TLC |

**Correspondence.** State variables and combinational signals keep the names of
the RTL; a Boolean vector that only tells cases apart becomes a set or a
string.  `Watchdog` has an action for each register a setup edge may write
(`WriteLoad`, `WriteCtrl`, ...), joined in `PclkEdge`; `WdogEdge` is every
WDOGCLK process; `Pclk`, `Wdog` and `Both` are the instants at which the clocks
have edges, in any order.  In the four bus models one HCLK edge is one step
that conjoins the blocks (`BridgeEdge`, `InputEdge`, `OutputEdge`, ...) with the
master and the slaves.  Those are external: the least restrictive AHB-Lite
master (it may hold, change an IDLE into a transfer, cancel after an error,
make BUSY cycles and end bursts of undefined length early), and slaves that
wait, succeed or fail as they like.

**Composition.** `WatchdogSoC` puts the watchdog under the reset generator and
`beetle_sysctrl` (both its clocks are `fclk`, so each step is `PclkEdge` and
`WdogEdge` together); `WatchdogDemo` replaces the arbitrary software of that
module by the program, whose instructions are those of the C functions in
order, and whose NMI may preempt `main()` between any two.  The bridges are the
slaves of the matrix; each is checked against the same environment, the rules of
AHB-Lite, rather than in one product that TLC could not explore.

**Programs.** `DualTimerDemo` and `DriverPrograms` hold a program as a sequence
of instructions, one for each access to a register and for each statement on
shared variables, so that a handler may come between a read and the write that
depends on it.  A step is one edge of PCLK: every peripheral takes its edge, and
the processor executes the next instruction, enters or leaves a handler, or idles
(at most `MaxLag` edges).  A peripheral is a record and an operator that maps it,
the access on the bus and the pins to its next value (`UartEdge`, `TimerEdge`,
`GpioEdge`), so that the three programs run on one machine: `DriverPrograms` picks
one of them, or the arbitrary software of `UartLink`, at the start.  The
interrupt controller and the wiring outside the SoC (UART2 to UART3) are
external.

**Definitions marked (fault)** are plausible errors in the definition that
follows them; each shows that some property would notice.

## What is checked

All runs are exhaustive on their instance.  Deadlock is checked in all of them.

| Run | States | Question, and answer |
|---|---|---|
| `watchdog` | 251852 | The two halfword counters count as one (`CarriesMatchCount`, `OneCounter`), the two clock domains implement the abstract timer (`TimerSpec`), and software that leaves CTRL and LOAD alone gets LOAD ticks from interrupt to reset (`ServiceWindow`) |
| `watchdog_two_timeouts` | violation | One timeout can raise interrupt and reset |
| `soc` | 660232 | RSTINFO names every cause of every reset, also one software clears in that cycle (`CauseIsRecorded`); software that hangs with the watchdog armed is restarted and finds the cause (`HangIsRestarted`, liveness) |
| `watchdog_demo` | 2343 | The demo reaches its passing end whatever the NMI interrupts (`DemoPasses`, liveness) |
| `watchdog_demo_set` | violation | `watchdog_set()` does not update the counter |
| `ahb_to_apb` | 104280 | Each AHB transfer is one legal APB transfer and is answered (`DeviceSpec`, `ApbProtocol`, `Responds`) |
| `ahb_to_sram` | 44191 | Buffer, merge path and banks are one memory (`MemorySpec`) |
| `extmem` | 277089 | The PSRAM interface performs each transfer once, on its bytes alone, and answers it (`MemorySpec`, `Responds`); the data bus changes hands only after the configured pause (`BusTurnsAround`); address, strobes and data are still around a write pulse (`WriteIsStable`) |
| `matrix_sharing` | 139609 | Each transfer is done once, by its slave, with its own data and answer (`SharedSlavesSpec`, `DataPhasesAgree`) |
| `matrix_contention` | 2939 | Bursts stay whole, locks exclude, no master starves (`BurstsStayWhole`, `LocksExclude`, `Responds`) |
| `dualtimer_demo` | 562910 | On the dual timer, arbitrary accesses and the demo program: carries agree with the count, each counter is an interval timer (`IntervalSpec`), and the demo passes (`DemoPasses`, liveness) |
| `driver_programs` | 179294 | On the UARTs, timers and GPIO: arbitrary UART software sees a byte channel (`ChannelSpec`); the three programs configure a UART only while it is quiet (`ConfiguredWhenQuiet`), stay inside their strings (`StringsInBounds`), take one interrupt for each trigger (`OneEntryPerTrigger`, `EdgesAreCurrent`) and report success (`ProgramsPass`, liveness) |

### Bounds, and why they are enough

* **Watchdog.** `Half = 4`: a halfword has four values instead of 2^16.  The
  logic compares a halfword with 0 and 1 only, so four values keep 0, 1, a
  value that is neither and the wrap; the proofs hold for every `Half >= 4`.
  The load values are zero, one with an empty high and one with an empty low
  halfword, so that every carry and borrow happens.  `MaxAge` stops a history
  variable beyond any load value.  Registers software reads do not feed back,
  so the runs that ask no question about reads have none.
* **SoC.** One load value: the cause of a reset does not depend on it.
* **Dual timer.** A halfword of 16 values and prescalers of 2 and 4 instead of 16
  and 256.  Arbitrary software loads zero and a value with an empty low halfword,
  in every mode and size.  The demo runs its twelve stages and the integration
  test; its seven cycle counts become values of a halfword in their order.  It
  passes with an idle time of 0 or 1 edges and not with 3: then the handler takes
  as long as the scaled period, which the real ones exceed by far.
* **Driver programs.** One byte value besides zero for arbitrary software, the
  text of the program otherwise.  Periods are scaled in their order: 0x100
  becomes 2, 0x12C 3, 0x1F00 4, and 0xF00, which one stage compares with the time
  between two reads of VALUE, becomes 34 (with 16 or 22 the handler alone fills
  it, and the stage fails; 30, 34 and 40 pass).  The reload of
  `interrupt_demo.c` becomes `DemoReload = 5`.  `TimerMax = 40`; the call of a
  driver function takes at least `CallTime = 3` edges; `MaxLag = 1`.  All programs
  use one baud rate divider, though `interrupt_demo.c` writes 0x200.  A print of n
  characters takes at least the time of n / `CharsPerFrame` frames, with
  `CharsPerFrame = 20`.
* **Timing the programs lean on.** The UART test passes for
  (`CharsPerFrame`, `MaxLag`) of (16,2), (12,1), (20,1), (8,2), (16,0) and (20,2)
  and fails at 30: one of its stages expects a frame to be over after a print.  A
  frame is about 320 edges of PCLK at the divider 0x20, and UART0 prints in its
  high speed test mode, so a print of at least 16 edges for each character is
  assumed.  The handler of the level interrupt takes the level back at least 3
  edges before it clears the interrupt, because the synchroniser of the port is
  two deep.  WFE relies on the event flag that an exception return sets: without
  it the wait in `interrupt_demo.c:176` would lose its wakeup.
* **Demo.** 10000, 5000 and 8000 cycles become 80, 40 and 64 of a 256 value
  counter, and instructions start at most `MaxLag = 3` idle cycles apart; the
  loop repeats 3 times, not 10.  What the program relies on survives the
  scaling: the order of the three values, and that a few instructions take
  much less time than the shortest of them.
* **AHB to APB.** One word and two byte values; a word read, a word write and a
  halfword write cover data, strobes and direction, and the parameters are
  those of the SoC.  Other parameter settings are covered by the proofs.  PCLKEN
  is free in every cycle, which includes every clock ratio.
* **SRAM.** Two words in two banks, a byte and a halfword that overlap a word
  write.
* **PSRAM.** Each width with one setting of the three waits, all different within
  a setting, so that one taken for another shows; the SoC uses 16 bits and 7 for
  each.  Reads and writes of a word, a half word of each word and a byte; the
  bytes of a word start out different.  Another slave is addressed in between and
  waits as long as it likes, and a reset may fall into any cycle.  `held` and
  `gap` count clocks up to a bound that no comparison exceeds (`Longest`).  Data
  that the memory has not had time to deliver is any data.
* **Matrix.** Two masters and two slaves with an address that has no slave,
  every wait, error and reset (`matrix_sharing`); three masters of one slave
  with wrapping bursts of four, bursts of undefined length of up to
  `MaxIncr = 3` and a locked sequence (`matrix_contention`).  The decoder, the
  arbiter and the holding register compare port numbers for equality and order
  only.  Longer bursts differ in the value the counter starts with
  (`FirstRemain`).

### Fairness, and why the code justifies it

* Clocks run: `fclk` (`SocFairSpec`, and `DemoSpec`), HCLK (`FairSpec` of the
  bus models), PCLK (`DualTimerDemo`, `DriverPrograms`).  The programs need little
  more because idle cycles are bounded.
* Printing ends: strong fairness of the end of a print, whose length is not
  fixed beyond the bounds above; `UartPutc` waits for a buffer that drains.
* AHB to APB: PCLKEN and PREADY are high together from time to time,
  `WF(HclkEdge /\ PCLKEN' /\ PREADY')`.  A slave that keeps PREADY low for ever
  holds the bus for ever, and the bridge has no timeout.
* Matrix: a slave ends its wait states, a master ends its BUSY cycles, and a
  master whose transfers are answered ends its locked sequence.  Each is a duty
  of the other side in AHB-Lite; without any one of them the matrix does let
  others wait for ever.  Nothing is assumed of the arbiter.

## What is proved

TLAPS checks the eight proof modules for every value of the constants.

| Theorem | For |
|---|---|
| `WatchdogProofs!TypeCorrect`, `CarriesCorrect`, `OneCounterCorrect`, `ImplementsTimer`, `WindowIsKept` | every halfword size of at least 4, every set of load values |
| `WatchdogProofs!SocTypeCorrect`, `CauseRecorded` | the same, with the reset generator and RSTINFO |
| `WatchdogProofs!DemoTypeCorrect` | the same, with `watchdog_demo.c`, for every number of idle cycles between instructions |
| `AhbToApbProofs!TypeCorrect`, `ApbProtocolHolds`, `ImplementsDevice` | every memory and set of aligned transfers, all four settings of `REGISTER_RDATA` and `REGISTER_WDATA` |
| `AhbToSramProofs!TypeCorrect`, `ImplementsMemory` | every memory, split into banks in any way, every set of aligned transfers |
| `AhbToExtmem16Proofs!TypeCorrect`, `BusAlwaysTurnsAround`, `WritesAreStable`, `ImplementsMemory` | every configuration of width and waits, every memory and set of aligned transfers |
| `AhbBusMatrixProofs!TypeCorrect` | every number of masters and slaves, every set of requests |
| `AhbBusMatrixProofs!DataPhasesAlwaysAgree`, `LocksAlwaysExclude`, `ImplementsSharedSlaves` | the same, if locked transfers are to the slave they lock (`LocksStayInRegion`) |
| `DualTimerProofs!TypeCorrect`, `CarriesAreRight`, `ImplementsInterval` | every halfword size and prescaler, every load, whatever software writes |
| `DualTimerProofs!DemoTypeCorrect`, `DemoCarriesAreRight`, `DemoImplementsInterval` | the same, with `dualtimer_demo.c`, for every cycle count it may use and any time between instructions |
| `UartLinkProofs!LinkTypeCorrect`, `ImplementsChannel` | every set of bytes and of dividers, whatever software does that follows the rule of the drivers |
| `UartLinkProofs!ProgramsTypeCorrect`, `EdgesAlwaysCurrent` | the three programs on the drivers, for every string that ends in zero, every period, divider, speed of printing and time between instructions |
| `UartLinkProofs!ProgramsUseTheChannel` | the same, as long as `ConfiguredWhenQuiet` |
| `UartLinkProofs!TriggersAreHandledOnce` | as `ProgramsTypeCorrect`, if a call takes two edges or more |
| `UartLinkProofs!ProgramsConfigureWhenQuiet`, `ProgramsImplementChannel` | as `ProgramsTypeCorrect`, if at most 20 characters are printed while a frame is sent |

The assumptions are the named ones of the modules (`HalfAssumption`,
`ParameterAssumption`, `TransferAssumption`, ...); TLC evaluates them in the
runs.

*Watchdog.* `CarriesMatchCount` with `TypeOK` is inductive.  The carry registers
are computed from the count a tick before it gets there, so each case of a
reload, a decrement with and without borrow, and a stopped counter has its own
step.  For the refinement of `WatchdogTimer` an edge of WDOGCLK is shown to be a
tick that takes the load whose request has crossed (`TickImplements`; the two
halfwords as one number, `WordValue`), and an edge of PCLK to perform one operation
of the timer and to toggle at most the request of that operation
(`PclkPerforms`).  The two are put together for each order of the edges; the only
other invariant it needs is that a request is made in the access phase of its
write (`LoadsInAccess`), so that no read of VALUE falls between the write and its
request.
For `ServiceWindow` the invariant is about the two history variables: while
software leaves CTRL and LOAD alone, the age of the interrupt and the count add up
to at least LOAD, and a counter that shows its carry is running, so that the carry
is spent in one tick (`WindowInv`).  The second half excludes a carry that is
frozen by a stopped counter and spent again when it restarts.

*SoC.* `CauseIsRecorded` is a property of steps: given the type invariant, each
step that takes the SoC out of reset leaves the causes in RSTINFO, because the
set of a cause wins over the clear of software in the same cycle.

*Dual timer.* `CarriesMatchCount` is inductive once it also says which value a
pending load was computed from.  Under the refinement mapping the count is the
low halfword alone or both, by the size in use; the two moments at which software
can tell that the carry was computed an edge ahead, a clear in the cycle before
zero and a change of size while the low halfword is zero, are steps of
`IntervalTimer` and not hidden by the mapping.

*UART.* A byte of the channel is held by the receiver, on the line, or in the
sender's buffer (`Places`), each at most one; a lemma for each step of the channel
says what it does to the three places.  An edge of PCLK may take a byte from the
buffer and write another into it, or read a byte and deliver one: the proof puts
the two in the order in which they make one step of the channel.  The invariant
needed beside the types is that a transmitter at work is enabled.

*AHB to APB.* `ApbProtocol` and the refinement are not inductive: they need to
know that the control registers still describe the transfer in the data phase
(`OwnsDataPhase`), that write data was captured before HWDATA moved on and that
read data cannot replace it in the shared register (`HoldsWriteData`), and that
the ending state is used with registered responses only (`EndsRegistered`).
Under the refinement mapping the transfer is pending until the APB has answered,
done in the ending state, and failed in the two error cycles; a step of the
bridge is then `Start`, `Succeed`, `Fail`, `Respond`, `Reset` of the device, or
a stutter.

*SRAM.* The abstract memory is the RAM with a pending buffer merged into it.
That mapping is a refinement because the buffer describes the write in the data
phase or the one the reads since then keep away from the RAM
(`BufferMatchesBus`), the RAM shows the word of the read (`ReadMatchesBus`), and
valid lanes of an empty buffer equal the RAM (`BufferIsCoherent`): hits are taken
from the buffer long after the write.  A reset may drop the one buffered write,
which `MemorySpec` names as a step of its own, `LosesBufferedWrite`.

*PSRAM interface.* A clock is one of four kinds: the interface is not used, a
transfer enters its data phase, the last one leaves it, or one stays (`Kinds`).
The invariant says that both machines work for the transfer in the data phase
(`FollowsBus`, which lists the accesses a transfer is made of), that the pause
still to come makes up for a gap that is too short (`PauseCovers`, the
strengthening `BusTurnsAround` needs: the pause is loaded when an access ends and
may be spent long before the bus changes hands), that the memory is given its
time (`HeldLongEnough`), that the data of a write is on the ports before WEn falls
(`DataOnPorts`), and which bytes the accesses so far have moved (`BytesMoved`).
`AccessFacts` is the table of lanes for the two widths and three sizes.

*Bus matrix.* The input stages alone are inductive (`CoreInv`): each knows whether
its master has a data phase, where that is routed, and holds the transfer while it
is pending (`InputFollowsMaster`).  The rest needs both sides.  A slave is given
only to a master whose data phase, if it has one, is at that slave, and whose
transfer is held while the slave still serves another (`PortsFollowMasters`);
hence the master and the slave are ready together (`ReadyFacts`), a transfer that
its master need not hold is the one the slave samples (`PassedTransfer`,
`SampledTransfer`), and `DataPhasesAgree` follows.  The arbiter may keep a slave
for a master that addresses another port only through a lock, so that invariant
rests on `LocksFollowMasters`, what the rules of AHB-Lite say of locks
(`MasterRules`), and `LocksStayInRegion`.  The last is a hypothesis of the
theorems and no assumption of the module, and it is needed: with `Requests <-
RoamingRequests`, which `MCAhbBusMatrix` also defines, `DataPhasesAgree` fails.
Bursts need four more facts (`BurstInv`): a beat follows the data phase of its
master or a BUSY cycle in its own place (`MastersBurst`); the arbiter's count is
the number of beats still to come of a burst of defined length, and such a burst
has its slave (`ArbiterCountsBeats`); hence an input stage holds only a first beat
or a beat of a burst of undefined length, and overrides nothing else
(`InputsHoldWholeBursts`); and a slave given to a master in a burst has sampled
the beat before (`SlavesFollowBursts`).  The run has no error responses, the proof
has.  Under the refinement mapping the call of a master is its data phase; the
masters in `Performed` and `Failed` are answered in a step, all at once.

*Program texts.* A text is a sequence of instructions built by concatenation, and
its length depends on constants (`Call` takes `CallTime` edges).  That a program
never leaves its text is therefore not shown instruction by instruction:
`Code(s, Ops)` says that every instruction of `s` is of a kind in `Ops` and every
jump of `s` lands in `s` or just behind it, and `StatementsProofs` shows that each
statement (`If`, `While`, `Repeat`, `\o`, ...) makes code of code.  `EndsIn` says
that the last instruction is one that does not go on.  A text that also keeps an
order between its parts is `Phased`: a prefix whose instructions are of the first
kind, and no jump back into it.

*Driver programs.* `ProgInv` is inductive: the devices keep their ranges; the
program counters are in their texts, and the interrupts enabled have handlers in
the program that runs (`PlaceOK`, `NvicOK`); registers and variables keep their
ranges (`MemoryOK`, `RunOK`); and `EdgeOK`: while `main()` of `interrupt_demo.c` sets up its pins
no pin interrupt is enabled.  `EdgesAreCurrent` needs that order, which is a fact
about the text and is proved with `Phased`: when the first interrupt is enabled
some pin has been edge-triggered for an edge, and the port keeps the pins since.
`ProgramsUseTheChannel` puts the instructions under the rule that `ImplementsChannel`
asks of software: each access of a program is `Allowed`.  It takes from
`ProgramsConfigureWhenQuiet` that configurations come at quiet moments.

*One entry for each trigger.* `OneEntryPerTrigger` is about timing: a test pin
passes two synchronisers, so a handler that takes a level back and clears the
interrupt too soon finds it raised again.  A call takes `CallTime` edges, dozens in
the real program; the hypothesis is that it takes two, and it is needed: with
one, TLC finds a pin that is handled twice.  Unlike the other theorems on programs
this one needs to know which instruction is where.  `Holding(s, o, t)` says that
the text `t` stands at offset `o` of `s`; from it follow the places of the set-up,
of the four tests and of the handlers, for calls of any length and a timer example
that is not looked into (`MainParts`, `TestCode`, `HandlerCode`).  A step is then
one of a few kinds by its place (`DemoSteps`).  The invariant is `OneInv`: the types
of the pins are set when the tests start (`Settings`), their requests are enabled
(`Enabling`) and a pin's interrupt from its `INTENSET` to its `INTENCLR`
(`Statuses`), the flag `irq_triggered` is set only behind the trigger of a test
(`Flag`), and for each pin (`PinOK`): before its write to DATAOUT the pin has not been
seen active, an interrupt is raised, pending or handled only in a window behind
that write, and there, while it is handled, the number of instructions executed
bounds what is left in the synchronisers (`Handling`); afterwards the trigger is
`Spent`.  TLC agreed for calls of two, three and four edges before it was proved.

*Configuring a quiet UART.* `uart_init()` clears CTRL without a look at the line, and
stages 4a and 4b of `uart_driver_tests.c` call it after bytes were sent that nobody
waited for.  What saves them is the time the prints before the call take.  A print
of n characters takes the time of at least n / `CharsPerFrame` frames; the
hypothesis is `CharsPerFrame <= 20`.  In the real program a character goes out
through UART0, a frame for each, so it holds with room to spare.  It is needed in
some form: with `CharsPerFrame = 46` TLC finds a UART configured while a byte is on
its way (with 24 it does not; 20 are the characters of the shortest print that the
proof needs to outlast a frame).  The invariant is `SpeedInv`, beside `ProgInv`.  Its
parts are by program.
`LineInv`: at each place of `main()` of `uart_driver_tests.c` the time until the last
byte has left UART2 (`Left`), with the time the current print has taken, is within a
`Bound`: two frames where bytes are sent, one frame after a print of 20 characters
or more, nothing where a UART is configured.  The places come, as for
`OneInv`, from the text at its offsets (`UartPlaces`, `Fitting`); the stretches
between them, with calls and loops of any length, are only known to have no
instruction that configures (`Region`).
`FreshInv`: the UARTs are unused until the last example of `interrupt_demo.c` has
configured them, as neither the examples before nor their handlers know a
UART.  `TimerInv`: `timer_driver_tests.c` sends nothing.  `ProgramsImplementChannel`
follows: no hypothesis on what the programs do is left.  TLC agrees
with `SpeedInv` on the run's instance.

Model-checked only: one safety property, `StringsInBounds`.  That the loop of
`uart_driver_tests.c:167-170` stops before the end of the string rests on how many
bytes two UARTs take before a buffer is full, and that the receiving handlers stay
inside their array on each byte being received once.  An invariant would have to follow
every byte from its place in one string to its place in the other, through
handlers that interrupt the loop.  Liveness (`HangIsRestarted`, both `DemoPasses`,
`ProgramsPass`, both `Responds`) is out of the prover's reach, as is ENABLED.

## Where the code and its comments disagree

* `watchdog_set()` (`watchdog_demo.c:340`) "updates the watchdog counter" by
  writing the count to CTRL.  With 10000 the write clears INTEN and stops the
  counter.  The demo passes because it expects no interrupt there.
* `cmsdk_apb_watchdog_frc.v:467-469` says that the reset means the counter "has
  previously reached zero but not been serviced".  The carry keeps its value
  while counting is disabled: clearing INTEN in the cycle the count is zero lets
  one timeout raise first the interrupt and then the reset.

Two comments more are of note, though no run stands for them.
`p_beid_interconnect_f0_ahb_mtx_output_stageTARGSRAM0.v:430-431` says that
`hsel_lock` supports masters that address other slaves in the middle of a locked
sequence.  While such a master waits at the other slave, the locked slave, still
driven from its address phase, samples the next transfer early; the requests
`RoamingRequests` of `MCAhbBusMatrix` show it.  The assertions of
`cmsdk_ahb_to_extmem16_mem_fsm_psram.v` were not brought along with the PSRAM
variant: CEn rises together with WEn, a clock before the interface leaves the bus
(`:282-287`), against `:554-562`, and `:359-369` lacks the three added states.

## What is not modelled

Inside the modelled parts: identification registers; PPROT and APBACTIVE of the
bridge, which are copies; HSIZE, HPROT and the user signals of the matrix, which
travel with the address; the other values of REMAP, which exchange decoder
entries; HSELS low, which the SoC does not do; the other arbiters and output
stages, which differ in their numbers of ports.  Main memory is one of four
equal ones.  Metastability of the watchdog's toggles is not modelled: in the SoC
both clocks are `fclk`, and the models take any order of edges.

Of the PSRAM interface: changes of its static configuration, and transfers of more
than 32 bits.  Of the memory: its timing within a clock.

Of the UART: the bits of a frame and the ticks of the baud rate generator, which
are abstracted to the steps of a frame, and high speed test mode.  Of the GPIO
port: masked writes, byte accesses, alternate functions, the AHB wrapper.  Of the
dual timer: a clock enable other than 1, which the SoC does not use.  Of the
drivers: I2S, I2C and identification.  Of the programs: the identification
checks, the pin multiplexing, the count of interrupts that the controller
implements, and the handler of the combined GPIO interrupt, which the SoC does not
connect.

Three things of the programs are kept although a reader may stumble over them.
`main()` of `dualtimer_demo.c` ignores the result of
`dualtimer_integration_test` and prints that the test passed (line 129), as does
`interrupt_demo.c` with that of `GPIOIntExample`; the models count such a failure
as one.  `timer_driver_tests.c:203` says that the timer is stopped inside the
handler; a read-modify-write of `main()` can undo that stop, and the test still
passes because `main()` stops the timer again at line 272.  A clear of the dual
timer's interrupt in the cycle before zero swallows that timeout
(`cmsdk_apb_dualtimers_frc.v:519-532`), and with a 16-bit load of zero in periodic
mode the carry stays up, so that a clear holds for ever.

Without a module: the asynchronous bridge, the synchronous bridges and the
timeout monitors, library parts the SoC does not instantiate; the SPI loader,
whose timing leans on a ratio of two clocks that the repository does not fix; the
real-time clock, whose one adder for three updates is the only decision in a
block of registers and synchronisers.  The others are listed with reasons in
`PROJECT.json`.

## Plan

Done: the watchdog with its reset path and its program, both bridges of the
SoC's memory and APB, the bus matrix, the dual timer, the UART, timers and GPIO
with four programs, and the PSRAM interface.

Worth doing next, in this order:

1. **Asynchronous bridge**: semaphores with synchronisers that resolve a change
   in either of two cycles, locks, and resets of one side; `AhbDevice` again.
2. **Timeout monitors and the write buffer** of the synchronous bridge, and the
   update machine of the real-time clock.

Runs stay few: a new component joins a run whose machine it shares, as the three
driver programs do.
