--------------------------- MODULE UartDriverTests ---------------------------
(***************************************************************************)
(* The text of software/common/validation/uart_driver_tests.c: main(), the *)
(* overflow handler and the handlers of UART2 and UART3.  Printing goes    *)
(* through UART0, a character at a time; the test leans on that it takes   *)
(* longer than a frame, so Puts(n) names the number of its characters.     *)
(***************************************************************************)
EXTENDS Drivers

CONSTANTS
  transmit,        \* the string "hello world" with its end
  Letter           \* 'a'

SendNext   == Put("UART2", "i") \o Inc("i")
SendLetter == Bus("UART2", WriteData(Letter))
TxOverrun(i) == Cond(i, "overrun 1")
RxOverrun(i) == Cond(i, "overrun 2")
CheckString == If(Var("received", "differs"), Fail)

Uart_Init ==
  uart_init("UART2", Enables) \o If(Cond("UART2", "overrun"), Fail)
  \o uart_init("UART3", Enables) \o If(Cond("UART3", "overrun"), Fail)

\* The receive buffer counts too: printing what was received takes too long
\* for the full speed of the line.
SendIfBothFree ==
  If(Cond("UART2", "no TXBF"),
    If(Cond("UART3", "no RXBF"), If(Var("i", "left"), SendNext)))

Uart_Buffull ==
  Puts(47) \o Set("i", 0) \o Set("k", 0)
  \o While(Cond("UART2", "no TXBF"), SendNext)
  \o IfElse(Cond("UART2", "TXBF"), Puts(42), Fail)
  \o IfElse(Cond("UART3", "RXBF"), uart_ReceiveChar("UART3"), Fail)
  \o Set("i", 0) \o Do("forget received")
  \o While(Var("k", "left"),
       If(Cond("UART3", "RXBF"),
            uart_ReceiveChar("UART3") \o Do("store") \o Puts(38) \o Inc("k"))
       \o SendIfBothFree)
  \o Puts(34) \o CheckString

Stage3a ==
  Set("i", 0) \o Set("TX", 0) \o Set("RX", 0) \o Puts(46)
  \o Repeat(
       If(Var("i", "below 4"), SendLetter)
       \o If(Var("i", "above 10"), Repeat(SendLetter, TxOverrun("UART2")))
       \o IfElse(TxOverrun("UART2"),
            Puts(27) \o uart_ClearOverrunStatus("UART2") \o Set("TX", 1),
            If(RxOverrun("UART3"),
              Puts(27) \o uart_ClearOverrunStatus("UART3") \o Set("RX", 1)))
       \o Inc("i"),
       Var("RX & TX", "set"))
Stage3b ==
  Puts(33)
  \o uart_ClearTxIRQ("UART2") \o Puts(17) \o If(Cond("UART2", "TXIRQ"), Fail)
  \o uart_ClearRxIRQ("UART3") \o Puts(17) \o If(Cond("UART3", "RXIRQ"), Fail)
  \o Set("i", 1) \o uart_SendChar("UART2", "i")
  \o While(Cond("UART2", "no TXIRQ"), <<>>) \o Puts(17)
  \o IfElse(Cond("UART2", "no TXIRQ"), Fail, uart_ClearTxIRQ("UART2"))
  \o While(Cond("UART3", "no RXIRQ"), <<>>) \o Puts(17)
  \o IfElse(Cond("UART3", "no RXIRQ"), Fail, uart_ClearRxIRQ("UART3"))
  \o Puts(20)
Uart_OR == Stage3a \o Stage3b

Stage4a ==
  Puts(38)
  \o uart_init("UART2", Enables \ {"txirq"}) \o uart_init("UART3", Enables \ {"rxirq"})
  \o Enable("UARTOVF")
  \o While(Var("txorirq_counter", "at most 3"),
       If(Var("txorirq_executed", "set"), Puts(20) \o Set("txorirq_executed", 0))
       \o SendLetter
       \o If(Var("rxorirq_executed", "set"), Puts(20) \o Set("rxorirq_executed", 0)))
  \o IfElse(Var("rxorirq_counter", "below 3"), Fail, Puts(23))
DisableAll == Disable("UARTOVF") \o Disable("UART2") \o Disable("UART3")
Stage4bSetUp ==
  uart_init("UART2", Enables) \o uart_init("UART3", Enables)
  \o Enable("UART2") \o Enable("UART3")
Stage4bLoop ==
  While(Var("k", "left but the end"),
    If(Var("data_received", "set"),
      Puts(26) \o uart_SendChar("UART2", "i") \o Inc("i") \o Set("data_received", 0))
    \o If(Var("data_sent", "set"),
         Puts(34) \o uart_ReceiveChar("UART3") \o Do("store")
         \o Puts(2) \o Inc("k") \o Set("data_sent", 0)))
Stage4bSetUpFirst ==                                     \* (fault)
  Stage4bSetUp \o Set("i", 0) \o Set("k", 0) \o Do("forget received")
  \o Set("data_received", 1) \o Puts(23) \o Stage4bLoop
  \o Puts(31) \o CheckString \o DisableAll
Stage4b ==
  Set("i", 0) \o Set("k", 0) \o Do("forget received")
  \o Set("data_received", 1) \o Puts(23) \o Stage4bSetUp \o Stage4bLoop
  \o Puts(31) \o CheckString \o DisableAll
Uart_IRQ == Stage4a \o Stage4b

Main == Uart_Init \o Uart_Buffull \o Uart_OR \o Uart_IRQ \o Do("passed")

UARTOVF_Handler ==
  If(TxOverrun("UART2"), Set("txorirq_executed", 1) \o Inc("txorirq_counter")
                           \o uart_ClearOverrunStatus("UART2"))
  \o If(RxOverrun("UART3"), Set("rxorirq_executed", 1) \o Inc("rxorirq_counter")
                              \o uart_ClearOverrunStatus("UART3"))
  \o Do("return")

UART_HandlerClearsFirst(i) ==                            \* (fault)
  uart_ClearTxIRQ(i) \o uart_ClearRxIRQ(i)
  \o If(Cond(i, "TXIRQ"), Set("data_sent", 1))
  \o If(Cond(i, "RXIRQ"), Set("data_received", 1))
  \o Do("return")
UART_Handler(i) ==
  If(Cond(i, "TXIRQ"), Set("data_sent", 1) \o uart_ClearTxIRQ(i))
  \o If(Cond(i, "RXIRQ"), Set("data_received", 1) \o uart_ClearRxIRQ(i))
  \o Do("return")

Handlers ==
  [h \in {"UARTOVF", "UART2", "UART3"} |->
     IF h = "UARTOVF" THEN UARTOVF_Handler ELSE UART_Handler(h)]
=============================================================================
