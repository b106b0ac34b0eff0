---------------------------- MODULE InterruptDemo ----------------------------
(***************************************************************************)
(* The text of software/common/demos/interrupt_demo.c: main() and its      *)
(* interrupt handlers.  A print takes any time.                            *)
(***************************************************************************)
EXTENDS Drivers, FiniteSets

CONSTANTS
  transmit,     \* the string "hello world" with its end
  DemoReload    \* the timer's period, 0x100

Prints == Puts(0)

TimerExample ==
  Prints \o ClearPending("TIMER0") \o Enable("TIMER0") \o timer_Init_IntClock(DemoReload)
  \o While(Var("timer_stopped", "clear"), Do("wfe")) \o Prints

-----------------------------------------------------------------------------
(* Pins 7 to 10 are outputs of the port that it reads back; pin n has the  *)
(* interrupt PORT0_n.                                                      *)

PORT0(n)  == CASE n = 7 -> "PORT0_7" [] n = 8 -> "PORT0_8"
               [] n = 9 -> "PORT0_9" [] n = 10 -> "PORT0_10"
ForPins(F(_)) == F(7) \o F(8) \o F(9) \o F(10)

\* The pins named by a nibble of DATAOUT at bit 7.
Pattern(nibble) == CASE nibble = "A" -> {8, 10} [] nibble = "B" -> {7, 8, 10}
                     [] nibble = "9" -> {7, 10} [] nibble = "D" -> {7, 9, 10}
                     [] nibble = "5" -> {7, 9}

Test(n, nibble) ==
  gpio_SetIntEnable(n) \o DataOut(Pattern(nibble)) \o gpio_ClrIntEnable(n) \o Prints
  \o IfElse(Var("irq_triggered", "set"),
       Prints \o Set("irq_triggered", 0), Set("err_code", 1))

SetTypes ==
  gpio_SetIntHighLevel(7) \o gpio_SetIntLowLevel(8)
  \o gpio_SetIntRisingEdge(9) \o gpio_SetIntFallingEdge(10)

GPIOIntExample ==
  Set("err_code", 0) \o Prints
  \o gpio_SetOutEnable(7 .. 10) \o DataOut(Pattern("A")) \o SetTypes
  \o ForPins(LAMBDA n : ClearPending(PORT0(n))) \o ForPins(LAMBDA n : Enable(PORT0(n)))
  \o Test(7, "B") \o Test(8, "9") \o Test(9, "D") \o Test(10, "5")
  \o If(Var("err_code", "set"), Fail)
  \o ForPins(LAMBDA n : Disable(PORT0(n)))

PORT0_7_HandlerClearsFirst ==                            \* (fault)
  Set("irq_triggered", 1) \o gpio_IntClear(7) \o DataOut(Pattern("A"))
PORT0_7_Handler == Set("irq_triggered", 1) \o DataOut(Pattern("A")) \o gpio_IntClear(7)
PORT0_8_Handler == Set("irq_triggered", 1) \o DataOut(Pattern("B")) \o gpio_IntClear(8)
PORT0_9_Handler  == Set("irq_triggered", 1) \o gpio_IntClear(9)
PORT0_10_Handler == Set("irq_triggered", 1) \o gpio_IntClear(10)

-----------------------------------------------------------------------------
UartExample ==
  Prints \o ClearPending("UART2") \o ClearPending("UART3") \o Enable("UART2") \o Enable("UART3")
  \o uart_init("UART2", {"tx", "txirq"}) \o uart_init("UART3", {"rx", "rxirq"})
  \o Set("rx_count", 0) \o Set("tx_count", 0) \o Do("forget received") \o Prints
  \o Inc("tx_count") \o While(Cond("UART2", "TXBF"), <<>>)
  \o Bus("UART2", WriteData(transmit[1]))
  \o While(Var("transmission_complete", "clear"),
       If(Var("tx_count", "complete"),
         If(Var("rx_count", "complete"), Set("transmission_complete", 1))))
  \o Prints \o While(Var("received", "differs"), <<>>)
  \o Disable("UART2") \o Disable("UART3")

Main == TimerExample \o GPIOIntExample \o UartExample \o Do("passed")

UART2_HandlerPastTheEnd ==                               \* (fault)
  uart_ClearTxIRQ("UART2") \o uart_SendChar("UART2", "tx_count") \o Inc("tx_count")
UART2_Handler ==
  uart_ClearTxIRQ("UART2")
  \o If(Var("tx_count", "incomplete"), uart_SendChar("UART2", "tx_count") \o Inc("tx_count"))
UART3_Handler ==
  uart_ClearRxIRQ("UART3") \o uart_ReceiveChar("UART3") \o Do("store") \o Inc("rx_count")

TIMER0_Handler == Set("timer_stopped", 1) \o timer_StopTimer \o timer_ClearIRQ \o Prints

Handlers ==
  [h \in {"TIMER0", "PORT0_7", "PORT0_8", "PORT0_9", "PORT0_10", "UART2", "UART3"} |->
     (CASE h = "TIMER0"  -> TIMER0_Handler
        [] h = "PORT0_7" -> PORT0_7_Handler [] h = "PORT0_8"  -> PORT0_8_Handler
        [] h = "PORT0_9" -> PORT0_9_Handler [] h = "PORT0_10" -> PORT0_10_Handler
        [] h = "UART2"   -> UART2_Handler   [] h = "UART3"    -> UART3_Handler)
     \o Do("return")]
=============================================================================
