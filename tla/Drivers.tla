------------------------------- MODULE Drivers -------------------------------
(***************************************************************************)
(* The driver functions of CM3DS_MPS2_driver.c for UARTs, timers and GPIO  *)
(* ports, and the conditions that programs put on their registers.         *)
(***************************************************************************)
EXTENDS ApbUart, ApbTimer, IopGpio, Statements

CONSTANTS
  Divider,   \* the divider of the baud rate
  CallTime   \* edges the call of a GPIO or timer function takes, at the least

ASSUME DriverAssumption == Divider \in Dividers /\ CallTime \in Nat

-----------------------------------------------------------------------------
(* Instructions and conditions.                                            *)

Bus(d, b)   == <<[op |-> "bus", dev |-> d, access |-> b]>>
Cond(d, t)  == [dev |-> d, is |-> t]
Cond2(d, t, n) == [dev |-> d, is |-> t, value |-> n]
Call        == [n \in 1 .. CallTime |-> [op |-> "goto", by |-> 1]]

-----------------------------------------------------------------------------
(* UARTs.                                                                  *)

uart_init(i, new_ctrl)        ==
  Bus(i, WriteCtrl({})) \o Bus(i, WriteBaudDiv(Divider)) \o Bus(i, WriteCtrl(new_ctrl))
Put(i, v)                     == <<[op |-> "send", dev |-> i, var |-> v]>>
uart_SendChar(i, v)           == While(Cond(i, "TXBF"), <<>>) \o Put(i, v)
uart_ReceiveChar(i)           == While(Cond(i, "no RXBF"), <<>>) \o Bus(i, ReadData)
uart_ClearOverrunStatus(i)    == Bus(i, WriteState(Ends))
uart_ClearTxIRQ(i)            == Bus(i, WriteIntClear({"tx"}, {}))
uart_ClearRxIRQ(i)            == Bus(i, WriteIntClear({"rx"}, {}))

-----------------------------------------------------------------------------
(* Timers.  "CTRL |= set" and "CTRL &= ~clear" are a read and a write, and *)
(* an interrupt may be taken between them.                                 *)

Modify(set, clear) ==
  Call \o Do("load CTRL") \o <<[op |-> "store CTRL", set |-> set, clear |-> clear]>>

timer_EnableIRQ    == Modify({"irqen"}, {})
timer_DisableIRQ   == Modify({}, {"irqen"})
timer_StartTimer   == Modify({"en"}, {})
timer_StopTimer    == Modify({}, {"en"})
timer_SetValue(n)  == Call \o Bus("TIMER0", TimerValue(n))
timer_SetReload(n) == Call \o Bus("TIMER0", TimerReload(n))
timer_ClearIRQ     == Call \o Bus("TIMER0", TimerIntClear)

timer_Init(reload, modes) ==
  Call \o Bus("TIMER0", TimerCtrl({})) \o Bus("TIMER0", TimerValue(reload))
  \o Bus("TIMER0", TimerReload(reload)) \o Bus("TIMER0", TimerCtrl(modes))
timer_Init_IntClock(reload)  == timer_Init(reload, {"irqen", "en"})
timer_Init_ExtClock(reload)  == timer_Init(reload, {"irqen", "selextclk", "en"})
timer_Init_ExtEnable(reload) == timer_Init(reload, {"irqen", "selexten", "en"})

-----------------------------------------------------------------------------
(* GPIO port 0.                                                            *)

Gpio0(r, P)        == Bus("GPIO0", GpioWrite(r, P))
DataOut(P)         == Gpio0("DATAOUT", P)
gpio_SetOutEnable(P)      == Call \o Gpio0("OUTENABLESET", P)
gpio_IntClear(n)          == Call \o Gpio0("INTCLEAR", {n})
gpio_SetIntEnable(n)      == Call \o Gpio0("INTENSET", {n})
gpio_ClrIntEnable(n)      == Call \o Gpio0("INTENCLR", {n})
gpio_SetIntHighLevel(n)   == Call \o Gpio0("INTTYPECLR", {n}) \o Gpio0("INTPOLSET", {n})
gpio_SetIntRisingEdge(n)  == Call \o Gpio0("INTTYPESET", {n}) \o Gpio0("INTPOLSET", {n})
gpio_SetIntLowLevel(n)    == Call \o Gpio0("INTTYPECLR", {n}) \o Gpio0("INTPOLCLR", {n})
gpio_SetIntFallingEdge(n) == Call \o Gpio0("INTTYPESET", {n}) \o Gpio0("INTPOLCLR", {n})
=============================================================================
