---------------------------- MODULE DriverPrograms ----------------------------
(***************************************************************************)
(* The processor that runs one of the programs on the drivers, with the    *)
(* part of the interrupt controller they use, on UART2 and UART3, timer 0  *)
(* and GPIO port 0; every step is an edge of the clock of all of them.     *)
(*                                                                         *)
(* An instruction starts at most MaxLag edges after the one before it; a   *)
(* print of n characters takes the time of at least n \div CharsPerFrame   *)
(* frames.                                                                 *)
(***************************************************************************)
EXTENDS UartLink, Drivers, SequencesExt

CONSTANTS
  transmit, Letter, DemoReload, Scaled,    \* data of the programs
  CharsPerFrame,   \* characters printed, at the most, while a frame is sent
  MaxLag

ASSUME ProgramAssumption ==
  /\ transmit \in Seq(Chars) \ {<<>>} /\ Letter \in Chars /\ Last(transmit) = Zero
  /\ DemoReload \in 0 .. TimerMax
  /\ Scaled \in [{"0x100", "0x12C", "0xF00", "0x1f00"} -> 1 .. TimerMax]
  /\ 2 * Scaled["0x1f00"] <= TimerMax
  /\ CharsPerFrame \in Nat \ {0} /\ MaxLag \in Nat
  /\ {1, 7, 8, 9, 10} \subseteq Pins

VARIABLES
  timer,      \* timer 0
  gpio,       \* GPIO port 0
  sampled,    \* what reg_datain was at the last edge
  image,      \* the software: a program, or software of any kind
  pc,         \* next instruction of main()
  handler,    \* the interrupt being handled, or "none"
  hpc,        \* next instruction of its handler
  sw,         \* the software variables
  regs,       \* processor registers: what was loaded from the timer and is still used
  received,   \* the string received in this stage
  nvic,       \* enabled and pending interrupts
  event,      \* the event flag of WFE
  lag,        \* idle edges since the last instruction
  printing,   \* edges spent in the current print
  outcome     \* how the program ended

hwVars   == <<linkVars, timer, gpio, sampled>>
progVars == <<image, pc, handler, hpc, sw, regs, received, nvic, event, lag, printing, outcome>>
allVars  == <<hwVars, progVars>>

-----------------------------------------------------------------------------
UartTests  == INSTANCE UartDriverTests
Demo       == INSTANCE InterruptDemo
TimerTests == INSTANCE TimerDriverTests

MainOf == [p \in {"uart_driver_tests", "interrupt_demo", "timer_driver_tests"} |->
             CASE p = "uart_driver_tests"  -> UartTests!Main
               [] p = "interrupt_demo"     -> Demo!Main
               [] p = "timer_driver_tests" -> TimerTests!Main]
HandlersOf == [p \in DOMAIN MainOf |->
                 CASE p = "uart_driver_tests"  -> UartTests!Handlers
                   [] p = "interrupt_demo"     -> Demo!Handlers
                   [] p = "timer_driver_tests" -> TimerTests!Handlers]

-----------------------------------------------------------------------------
(* An edge of the clock; the bus accesses device d with b, or nothing.     *)

ExtIn == 1 \in PORTIN(gpio, {})

Devices(d, b) ==
  /\ IF d \in Uarts THEN Access(d, b) ELSE NoBus
  /\ timer' = TimerEdge(timer, IF d = "TIMER0" THEN b ELSE TimerIdle, ExtIn)
  /\ gpio' = GpioEdge(gpio, IF d = "GPIO0" THEN b ELSE GpioIdle, PORTIN(gpio, {}))
  /\ sampled' = reg_datain(gpio)

NoDevice == Devices("none", NoAccess)

\* Nothing changes until the next access.
Settled == /\ Quiet
           /\ timer = TimerEdge(timer, TimerIdle, ExtIn)
           /\ gpio = GpioEdge(gpio, GpioIdle, PORTIN(gpio, {}))

-----------------------------------------------------------------------------
(* What the conditions read.                                               *)

Padded == received \o [n \in 1 .. Len(transmit) - Len(received) |-> Zero]

GetOverrunStatus(u) == (IF "tx" \in u.overrun THEN 1 ELSE 0)
                         + (IF "rx" \in u.overrun THEN 2 ELSE 0)

HoldsOfUart(u, t) ==
  CASE t = "TXBF"      -> u.tx_buf_full
    [] t = "no TXBF"   -> ~u.tx_buf_full
    [] t = "RXBF"      -> u.rx_buf_full
    [] t = "no RXBF"   -> ~u.rx_buf_full
    [] t = "TXIRQ"     -> TXINT(u)
    [] t = "no TXIRQ"  -> ~TXINT(u)
    [] t = "RXIRQ"     -> RXINT(u)
    [] t = "no RXIRQ"  -> ~RXINT(u)
    [] t = "overrun"   -> u.overrun # {}
    [] t = "overrun 1" -> GetOverrunStatus(u) = 1
    [] t = "overrun 2" -> GetOverrunStatus(u) = 2

HoldsOfCtrl(modes, t) ==
  CASE t = "EN"            -> "en" \in modes
    [] t = "no EN"         -> "en" \notin modes
    [] t = "no SELEXTEN"   -> "selexten" \notin modes
    [] t = "no SELEXTCLK"  -> "selextclk" \notin modes
    [] t = "IRQEN"         -> "irqen" \in modes

HoldsOfTimer(c) ==
  CASE c.is = "RELOAD"        -> timer.reg_reload_val = c.value
    [] c.is = "VALUE"         -> timer.reg_curr_val = c.value
    [] c.is = "VALUE same"    -> timer.reg_curr_val = regs["VALUE"]
    [] c.is = "VALUE changed" -> timer.reg_curr_val # regs["VALUE"]
    [] c.is = "no INT"        -> ~timer.reg_timer_int
    [] OTHER                  -> HoldsOfCtrl(timer.reg_ctrl, c.is)

HoldsOfVar(v, t) ==
  CASE t = "clear"            -> sw[v] = 0
    [] t = "set" /\ v # "RX & TX" -> sw[v] = 1
    [] t = "set" /\ v = "RX & TX" -> sw["RX"] = 1 /\ sw["TX"] = 1
    [] t = "left"             -> sw[v] < Len(transmit)
    [] t \in {"left but the end", "incomplete"} -> sw[v] < Len(transmit) - 1
    [] t = "complete"         -> sw[v] = Len(transmit) - 1
    [] t = "below 3"          -> sw[v] < 3
    [] t = "at least 3"       -> sw[v] >= 3
    [] t = "at most 3"        -> sw[v] <= 3
    [] t = "below 4"          -> sw[v] < 4
    [] t = "5"                -> sw[v] = 5
    [] t = "above 10"         -> sw[v] > 10
    [] t = "multiple of 10"   -> sw[v] % 10 = 0
    [] t = "differs"          -> Padded # transmit

Holds(c) == CASE "var" \in DOMAIN c -> HoldsOfVar(c.var, c.is)
              [] "dev" \in DOMAIN c ->
                   CASE c.dev \in Uarts      -> HoldsOfUart(uart[c.dev], c.is)
                     [] c.dev = "TIMER0"     -> HoldsOfTimer(c)
                     [] c.dev = "saved CTRL" -> HoldsOfCtrl(regs["saved CTRL"], c.is)

-----------------------------------------------------------------------------
(* The interrupt controller: a line that rises, or is still up when its    *)
(* handler returns or its request is cleared, is pending until its handler *)
(* is entered, whether it is enabled or not.                               *)

Irqs == <<"TIMER0", "UARTOVF", "PORT0_7", "PORT0_8", "PORT0_9", "PORT0_10",
          "UART2", "UART3">>                \* in the order of their priority

Raised(u, t, g) ==
  {h \in ToSet(Irqs) :
     CASE h = "TIMER0"  -> t.reg_timer_int
       [] h = "UARTOVF" -> \E i \in Uarts : TXOVRINT(u[i]) \/ RXOVRINT(u[i])
       [] h \in Uarts   -> TXINT(u[h]) \/ RXINT(u[h])
       [] OTHER         -> \E n \in g.reg_intstat : n # 1 /\ Demo!PORT0(n) = h}
Lines == Raised(uart, timer, gpio)

Nvic(entered, left, enabled) ==
  nvic' = [enabled |-> enabled,
           pending |-> (nvic.pending \ entered) \cup (Lines' \ Lines) \cup (Lines \cap left)]

NvicRuns == Nvic({}, {}, nvic.enabled)

Requested == nvic.enabled \cap nvic.pending

-----------------------------------------------------------------------------
(* The processor.                                                          *)

InHandler == handler # "none"
Current   == IF InHandler THEN HandlersOf[image][handler][hpc] ELSE MainOf[image][pc]
Jump(n)   == IF InHandler THEN hpc' = hpc + n /\ UNCHANGED <<pc, handler>>
                          ELSE pc' = pc + n /\ UNCHANGED <<hpc, handler>>

\* The next instruction starts at this edge and is one of ops.
Ready(ops) == /\ image # "any" /\ outcome = "running"
              /\ InHandler \/ Requested = {}
              /\ Current.op \in ops
              /\ lag' = 0

Keep == UNCHANGED <<image, outcome>>

Waits == Current.op = "puts" \/ (Current.op = "wfe" /\ ~event)

Idle ==
  /\ ~Waits \/ (~InHandler /\ Requested # {})
  /\ lag < MaxLag /\ lag' = lag + 1
  /\ NoDevice /\ NvicRuns
  /\ Keep /\ UNCHANGED <<pc, handler, hpc, sw, regs, received, event, printing>>

TakeIrq ==
  /\ ~InHandler /\ NoDevice
  /\ \E n \in DOMAIN Irqs :
       /\ Irqs[n] \in Requested /\ \A m \in 1 .. n - 1 : Irqs[m] \notin Requested
       /\ handler' = Irqs[n] /\ Nvic({Irqs[n]}, {}, nvic.enabled)
  /\ hpc' = 1 /\ lag' = 0
  /\ Keep /\ UNCHANGED <<pc, sw, regs, received, event, printing>>

\* The return from an exception is an event.
Return ==
  /\ Ready({"return"})
  /\ handler' = "none" /\ hpc' = 1 /\ event' = TRUE
  /\ NoDevice /\ Nvic({}, {handler}, nvic.enabled)
  /\ Keep /\ UNCHANGED <<pc, sw, regs, received, printing>>

BusInstruction ==
  /\ Ready({"bus"})
  /\ Devices(Current.dev, Current.access)
  /\ Jump(1) /\ NvicRuns
  /\ Keep /\ UNCHANGED <<sw, regs, received, event, printing>>

\* DATA = transmit[var]; behind the end of the string there may be anything.
Sent(n) == IF n \in DOMAIN transmit THEN {transmit[n]} ELSE Chars
SendInstruction ==
  /\ Ready({"send"})
  /\ \E c \in Sent(sw[Current.var] + 1) : Devices(Current.dev, WriteData(c))
  /\ Jump(1) /\ NvicRuns
  /\ Keep /\ UNCHANGED <<sw, regs, received, event, printing>>

\* Reads of the timer that the program keeps.
Context == IF InHandler THEN "handler" ELSE "main"
LoadInstruction ==
  /\ Ready({"load CTRL", "save CTRL", "sample VALUE"})
  /\ Devices("TIMER0", TimerRead)
  /\ regs' = CASE Current.op = "load CTRL"    -> [regs EXCEPT ![Context] = timer.reg_ctrl]
               [] Current.op = "save CTRL"    -> [regs EXCEPT !["saved CTRL"] = timer.reg_ctrl]
               [] Current.op = "sample VALUE" -> [regs EXCEPT !["VALUE"] = timer.reg_curr_val]
  /\ Jump(1) /\ NvicRuns
  /\ Keep /\ UNCHANGED <<sw, received, event, printing>>

StoreInstruction ==
  /\ Ready({"store CTRL", "restore CTRL"})
  /\ Devices("TIMER0", TimerCtrl(
       IF Current.op = "restore CTRL" THEN regs["saved CTRL"]
                                      ELSE (regs[Context] \cup Current.set) \ Current.clear))
  /\ regs' = IF Current.op = "store CTRL" THEN [regs EXCEPT ![Context] = {}] ELSE regs
  /\ Jump(1) /\ NvicRuns
  /\ Keep /\ UNCHANGED <<sw, received, event, printing>>

\* A condition on a register is the read of it.
Branch ==
  /\ Ready({"unless", "goto"})
  /\ Jump(IF Current.op = "unless" /\ Holds(Current.cond) THEN 1 ELSE Current.by)
  /\ IF Current.op = "unless" /\ "dev" \in DOMAIN Current.cond
       THEN Devices(Current.cond.dev, IF Current.cond.dev = "TIMER0" THEN TimerRead ELSE NoAccess)
       ELSE NoDevice
  /\ regs' = IF Current.op = "unless" /\ Current.cond.is \in {"VALUE same", "VALUE changed"}
               THEN [regs EXCEPT !["VALUE"] = 0] ELSE regs
  /\ NvicRuns
  /\ Keep /\ UNCHANGED <<sw, received, event, printing>>

CountCap == 12     \* no condition tells larger counts apart, but
Counted(n) == IF n = 19 THEN 10 ELSE n + 1   \* "counter" keeps its multiples of 10

Assign ==
  /\ Ready({"set", "inc", "count"})
  /\ sw' = CASE Current.op = "set"   -> [sw EXCEPT ![Current.var] = Current.to]
             [] Current.op = "inc"   ->
                  [sw EXCEPT ![Current.var] = IF @ < CountCap THEN @ + 1 ELSE @]
             [] Current.op = "count" -> [sw EXCEPT !["counter"] = Counted(@)]
  /\ Jump(1) /\ NoDevice /\ NvicRuns
  /\ Keep /\ UNCHANGED <<regs, received, event, printing>>

StringStep ==
  /\ Ready({"store", "forget received"})
  /\ received' = IF Current.op = "store" THEN Append(received, rdata["UART3"]) ELSE <<>>
  /\ Jump(1) /\ NoDevice /\ NvicRuns
  /\ Keep /\ UNCHANGED <<sw, regs, event, printing>>

EnableIRQ ==
  /\ Ready({"enable", "disable", "clear pending"})
  /\ Jump(1) /\ NoDevice
  /\ CASE Current.op = "enable"  -> Nvic({}, {}, nvic.enabled \cup {Current.irq})
       [] Current.op = "disable" -> Nvic({}, {}, nvic.enabled \ {Current.irq})
       [] Current.op = "clear pending" -> Nvic({Current.irq}, {Current.irq}, nvic.enabled)
  /\ Keep /\ UNCHANGED <<sw, regs, received, event, printing>>

\* WFE sleeps unless an event happened since the last one.
Wake ==
  /\ Ready({"wfe"})
  /\ event /\ event' = FALSE
  /\ Jump(1) /\ NoDevice /\ NvicRuns
  /\ Keep /\ UNCHANGED <<sw, regs, received, printing>>
Sleep ==
  /\ Ready({"wfe"})
  /\ ~event
  /\ NoDevice /\ NvicRuns
  /\ Keep /\ UNCHANGED <<pc, handler, hpc, sw, regs, received, event, printing>>

\* Printing takes its time, or longer while the devices still change.
PutsTime == (Current.chars * (ShortestFrame + Divider)) \div CharsPerFrame
PutsOn ==
  /\ Ready({"puts"})
  /\ printing < PutsTime \/ ~Settled
  /\ printing' = IF printing < PutsTime THEN printing + 1 ELSE printing
  /\ NoDevice /\ NvicRuns
  /\ Keep /\ UNCHANGED <<pc, handler, hpc, sw, regs, received, event>>
PutsDone ==
  /\ Ready({"puts"})
  /\ printing = PutsTime /\ printing' = 0
  /\ Jump(1) /\ NoDevice /\ NvicRuns
  /\ Keep /\ UNCHANGED <<sw, regs, received, event>>

Finish ==
  /\ Ready({"fail", "passed"})
  /\ outcome' = IF Current.op = "fail" THEN "failed" ELSE "passed"
  /\ NoDevice /\ NvicRuns
  /\ UNCHANGED <<image, pc, handler, hpc, sw, regs, received, event, printing>>

Processor ==
  \/ Idle \/ TakeIrq \/ Return \/ BusInstruction \/ SendInstruction
  \/ LoadInstruction \/ StoreInstruction \/ Branch \/ Assign \/ StringStep
  \/ EnableIRQ \/ Wake \/ Sleep \/ PutsOn \/ PutsDone \/ Finish

-----------------------------------------------------------------------------
Software0 == [v \in {"i", "k", "RX", "TX", "txorirq_executed", "txorirq_counter",
                     "rxorirq_executed", "rxorirq_counter", "data_received", "data_sent",
                     "timer_stopped", "irq_triggered", "err_code", "tx_count", "rx_count",
                     "transmission_complete", "counter", "timer_irq_counter",
                     "timer_irq_executed", "enabled"} |-> 0]

Init ==
  /\ LinkInit
  /\ timer = ResetTimer /\ gpio = ResetGpio /\ sampled = {}
  /\ image \in DOMAIN MainOf \cup {"any"}
  /\ pc = 1 /\ handler = "none" /\ hpc = 1 /\ sw = Software0 /\ received = <<>>
  /\ regs = [r \in {"main", "handler", "saved CTRL", "VALUE"} |-> IF r = "VALUE" THEN 0 ELSE {}]
  /\ nvic = [enabled |-> {}, pending |-> {}]
  /\ event = FALSE /\ lag = 0 /\ printing = 0 /\ outcome = "running"

\* Arbitrary software uses the UARTs only.
AnySoftware == image = "any" /\ LinkNext /\ UNCHANGED <<timer, gpio, sampled, progVars>>
Ended == outcome # "running" /\ UNCHANGED allVars

Next == AnySoftware \/ (image # "any" /\ outcome = "running" /\ Processor) \/ Ended

\* Clocks run; every print ends, however often it is interrupted.
Spec == Init /\ [][Next]_allVars /\ WF_allVars(Next) /\ SF_allVars(PutsDone)

-----------------------------------------------------------------------------
TypeOK ==
  /\ LinkTypeOK
  /\ timer \in Timer /\ gpio \in Gpio /\ sampled \subseteq Pins
  /\ image \in DOMAIN MainOf \cup {"any"}
  /\ image # "any" => pc \in 1 .. Len(MainOf[image])
  /\ handler \in {"none"} \cup ToSet(Irqs)
  /\ InHandler => hpc \in 1 .. Len(HandlersOf[image][handler])
  /\ sw \in [DOMAIN Software0 -> 0 .. 19]
  /\ regs["VALUE"] \in 0 .. TimerMax
  /\ \A r \in DOMAIN regs \ {"VALUE"} : regs[r] \subseteq Modes
  /\ received \in Seq(Chars)
  /\ nvic \in [enabled : SUBSET ToSet(Irqs), pending : SUBSET ToSet(Irqs)]
  /\ event \in BOOLEAN /\ lag \in 0 .. MaxLag /\ printing \in Nat
  /\ outcome \in {"running", "failed", "passed"}

\* Each program always ends with "TEST PASSED", although interrupts are taken
\* between any two instructions: uart_driver_tests.c:70-375 leans on bytes
\* that overwrite unread ones and on prints being slow, interrupt_demo.c:175-177
\* on the event flag that keeps WFE from missing the interrupt it waits for,
\* timer_driver_tests.c:184-275 on changes of CTRL that interrupts may undo.
ProgramsPass == image # "any" => <>(outcome = "passed")

\* The programs write CTRL of a UART only while no byte is in the buffer or on
\* the line: they never change the settings of a frame under way
\* (uart_driver_tests.c:304-305, 339-340; CM3DS_MPS2_driver.c:289-291).
ConfiguredWhenQuiet ==
  image # "any" /\ ~Quiet =>
    /\ uart["UART2"].reg_baud_div = uart["UART3"].reg_baud_div
    /\ Current.op = "bus" /\ Current.dev \in Uarts => Current.access.op \notin {"CTRL", "BAUDDIV"}

\* The programs neither read behind the end of the string they send nor write
\* behind the end of the array they receive into: nothing but the speed of the
\* line stops the loop at uart_driver_tests.c:167-170, and the receiving handler
\* relies on what the other one sends (interrupt_demo.c:469-489).
StringsInBounds ==
  /\ Len(received) <= Len(transmit)
  /\ image # "any" /\ Current.op = "send" => sw[Current.var] < Len(transmit)

\* A trigger of a pin is handled once: when the handler clears the interrupt,
\* the level it has taken back has passed the synchroniser, and no second
\* request is left for the next stage (interrupt_demo.c:336-386, 508-532;
\* cmsdk_iop_gpio.v:527-540).
OneEntryPerTrigger ==
  [][handler' # handler /\ handler' \in {"PORT0_7", "PORT0_8", "PORT0_9", "PORT0_10"}
       => sw["irq_triggered"] = 0]_allVars

\* While the interrupt of an edge-triggered pin is enabled, the port compares
\* the pins with their values one edge earlier, although it keeps those only
\* once some pin is edge-triggered (cmsdk_iop_gpio.v:555-562).
EdgesAreCurrent ==
  gpio.reg_inten \cap gpio.reg_inttype # {} => gpio.reg_last_datain = sampled
=============================================================================
