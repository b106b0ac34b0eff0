--------------------------- MODULE TimerDriverTests ---------------------------
(***************************************************************************)
(* The text of software/common/validation/timer_driver_tests.c: main() and *)
(* the handler of timer 0, whose external input is pin 1 of GPIO port 0.   *)
(* A print takes any time.                                                 *)
(***************************************************************************)
EXTENDS Drivers

CONSTANT
  Scaled     \* the periods of the program, scaled down

Timer0(t)   == Cond("TIMER0", t)
Prints      == Puts(0)
Check(c)    == IfElse(c, Prints, Fail)
Saved(t)    == Cond("saved CTRL", t)

Timer_Init ==
  Prints \o timer_Init_IntClock(Scaled["0xF00"]) \o Do("save CTRL") \o timer_DisableIRQ
  \o Check(Saved("EN")) \o Check(Saved("no SELEXTEN")) \o Check(Saved("no SELEXTCLK"))
  \o Check(Saved("IRQEN")) \o Check(Cond2("TIMER0", "RELOAD", Scaled["0xF00"]))
  \o Do("restore CTRL") \o Prints

-----------------------------------------------------------------------------
ReloadDoubled == 2 * Scaled["0x1f00"]

AtLoop5 ==
  Prints \o timer_SetReload(ReloadDoubled) \o Prints
  \o Check(Cond2("TIMER0", "RELOAD", ReloadDoubled))
  \o timer_StopTimer \o timer_SetValue(Scaled["0x12C"])
  \o Call \o Check(Cond2("TIMER0", "VALUE", Scaled["0x12C"]))
  \o timer_StartTimer \o timer_EnableIRQ
AtLoop10 ==
  timer_StopTimer \o timer_EnableIRQ \o Check(Timer0("IRQEN")) \o timer_StartTimer

Timer_IRQ ==
  Set("counter", 0) \o Set("timer_irq_counter", 0) \o Set("timer_irq_executed", 0) \o Prints
  \o timer_StopTimer \o timer_ClearIRQ \o timer_SetValue(0)
  \o timer_SetReload(Scaled["0x1f00"]) \o timer_StartTimer
  \o ClearPending("TIMER0") \o Enable("TIMER0")
  \o While(Var("timer_irq_counter", "below 3"),
       If(Var("timer_irq_executed", "set"),
            Prints \o timer_DisableIRQ \o Prints \o Set("timer_irq_executed", 0))
       \o Prints \o Do("count")
       \o If(Var("counter", "5"), AtLoop5)
       \o If(Var("counter", "multiple of 10"), AtLoop10))
  \o timer_StopTimer \o Check(Timer0("no EN"))

-----------------------------------------------------------------------------
Timer_Poll ==
  Prints \o Disable("TIMER0") \o timer_EnableIRQ \o timer_SetReload(Scaled["0xF00"])
  \o Check(Cond2("TIMER0", "RELOAD", Scaled["0xF00"]))
  \o timer_StartTimer \o Set("timer_irq_counter", 0)
  \o Repeat(Prints \o While(Timer0("no INT"), <<>>) \o Prints
              \o timer_ClearIRQ \o Inc("timer_irq_counter"),
            Var("timer_irq_counter", "at least 3"))
  \o timer_StopTimer \o Check(Timer0("no EN"))

-----------------------------------------------------------------------------
ExtClock ==
  Prints \o Set("timer_irq_counter", 0) \o ClearPending("TIMER0") \o Enable("TIMER0")
  \o DataOut({}) \o gpio_SetOutEnable({1}) \o timer_Init_ExtClock(Scaled["0x100"])
  \o While(Var("timer_irq_counter", "below 3"),
       DataOut({1}) \o DataOut({})
       \o If(Var("timer_irq_executed", "set"), Prints \o Set("timer_irq_executed", 0)))

\* The two reads of the counter after the input is inverted: equal if it
\* disables the timer, and else different.
ExtEnable ==
  Prints \o Set("timer_irq_executed", 0) \o Set("timer_irq_counter", 0) \o Set("enabled", 1)
  \o timer_Init_ExtEnable(Scaled["0xF00"]) \o DataOut({1}) \o Prints
  \o While(Var("timer_irq_counter", "clear"),
       IfElse(Var("enabled", "set"), DataOut({}) \o Set("enabled", 0),
                                     DataOut({1}) \o Set("enabled", 1))
       \o Call \o Do("sample VALUE") \o Call
       \o IfElse(Var("enabled", "set"), Check(Timer0("VALUE changed")),
                                        Check(Timer0("VALUE same"))))

Main == Timer_Init \o Timer_IRQ \o Timer_Poll \o ExtClock \o ExtEnable \o Do("passed")

TIMER0_Handler ==
  Inc("timer_irq_counter") \o Set("timer_irq_executed", 1)
  \o If(Var("timer_irq_counter", "at least 3"), timer_StopTimer) \o timer_ClearIRQ

Handlers == [h \in {"TIMER0"} |-> TIMER0_Handler \o Do("return")]
=============================================================================
