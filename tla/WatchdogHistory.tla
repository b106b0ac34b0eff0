--------------------------- MODULE WatchdogHistory ---------------------------
(***************************************************************************)
(* The watchdog with history variables that measure the time it leaves     *)
(* software to service a timeout.                                          *)
(***************************************************************************)
EXTENDS Watchdog

VARIABLES
  age,       \* WDOGCLK ticks since the raw interrupt rose, while steady holds;
             \* at most the load value
  steady     \* CTRL and LOAD left alone since before the pending timeout

histVars == <<vars, age, steady>>

Least(a, b) == IF a < b THEN a ELSE b

HistInit == Init /\ age = 0 /\ steady = TRUE

\* tick: the step is an edge of WDOGCLK.
History(tick) ==
  /\ steady' = (/\ wdog_control' = wdog_control
                /\ wdog_load' = wdog_load
                /\ \/ ~carry_msb /\ ~wdog_ris
                   \/ steady /\ ~wdog_int_en_rise /\ ~load_en_reg /\ ~load_req_w)
  /\ age' = CASE ~steady' \/ ~wdog_ris'      -> 0
              [] steady' /\ wdog_ris' /\ tick ->
                   IF wdog_ris THEN Least(age + 1, Val(wdog_load)) ELSE 0
              [] OTHER                       -> age

HistNext ==
  \/ Pclk /\ History(FALSE)
  \/ (Wdog \/ Both) /\ History(TRUE)
  \/ Reset /\ age' = 0 /\ steady' = TRUE

HistSpec == HistInit /\ [][HistNext]_histVars

-----------------------------------------------------------------------------
Resets == ~i_wdog_res /\ i_wdog_res'

\* The service window: software that leaves the control and load registers
\* alone has, between the interrupt and the reset request, as many ticks as
\* the load value says to clear the interrupt (frc.v, lines 467-488).
ServiceWindow == [][Resets /\ steady => age >= Val(wdog_load)]_histVars
=============================================================================
