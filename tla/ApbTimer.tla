------------------------------- MODULE ApbTimer -------------------------------
(***************************************************************************)
(* One APB timer (p_beid_peripheral_f0_timer.v): its registers as a        *)
(* record, and what an edge of PCLK makes of them.  Writes take effect in  *)
(* the setup phase of a transfer; the second phase shows in "psel".        *)
(***************************************************************************)
EXTENDS Integers

CONSTANT TimerMax      \* the largest value of the counter, 2^32 - 1

ASSUME TimerAssumption == TimerMax \in Nat

Modes == {"en", "selexten", "selextclk", "irqen"}

Timer == [reg_ctrl : SUBSET Modes, reg_curr_val : 0 .. TimerMax,
          reg_reload_val : 0 .. TimerMax, reg_timer_int : BOOLEAN,
          ext_in_sync1 : BOOLEAN, ext_in_sync2 : BOOLEAN, ext_in_delay : BOOLEAN,
          psel : BOOLEAN]

ResetTimer == [reg_ctrl |-> {}, reg_curr_val |-> 0, reg_reload_val |-> 0,
               reg_timer_int |-> FALSE, ext_in_sync1 |-> FALSE,
               ext_in_sync2 |-> FALSE, ext_in_delay |-> FALSE, psel |-> FALSE]

-----------------------------------------------------------------------------
(* The bus.                                                                *)

TimerIdle      == [op |-> "none"]
TimerRead      == [op |-> "read"]
TimerCtrl(m)   == [op |-> "CTRL", modes |-> m]
TimerValue(n)  == [op |-> "VALUE", value |-> n]
TimerReload(n) == [op |-> "RELOAD", value |-> n]
TimerIntClear  == [op |-> "INTCLEAR"]

-----------------------------------------------------------------------------
edge_detect(t) == t.ext_in_sync2 /\ ~t.ext_in_delay

dec_ctrl(t) == /\ "en" \in t.reg_ctrl
               /\ "selexten" \in t.reg_ctrl => t.ext_in_sync2
               /\ "selextclk" \in t.reg_ctrl => edge_detect(t)

nxt_curr_val(t, b) ==
  CASE b.op = "VALUE" -> b.value
    [] b.op # "VALUE" /\ ~dec_ctrl(t) -> t.reg_curr_val
    [] b.op # "VALUE" /\ dec_ctrl(t)  ->
         IF t.reg_curr_val = 0 THEN t.reg_reload_val ELSE t.reg_curr_val - 1

timer_int_set(t) == dec_ctrl(t) /\ "irqen" \in t.reg_ctrl /\ t.reg_curr_val = 1

\* The synchroniser of the external input is clocked only while it is used
\* or the bus selects the timer.
ext_in_enable(t, b) ==
  \/ t.reg_ctrl \cap {"selexten", "selextclk"} # {}
  \/ b.op # "none" \/ t.psel

TimerEdge(t, b, extin) ==
  LET Ext(new, old) == IF ext_in_enable(t, b) THEN new ELSE old IN
  [reg_ctrl       |-> IF b.op = "CTRL" THEN b.modes ELSE t.reg_ctrl,
   reg_curr_val   |-> nxt_curr_val(t, b),
   reg_reload_val |-> IF b.op = "RELOAD" THEN b.value ELSE t.reg_reload_val,
   reg_timer_int  |-> timer_int_set(t) \/ (t.reg_timer_int /\ b.op # "INTCLEAR"),
   ext_in_sync1   |-> Ext(extin, t.ext_in_sync1),
   ext_in_sync2   |-> Ext(t.ext_in_sync1, t.ext_in_sync2),
   ext_in_delay   |-> Ext(t.ext_in_sync2, t.ext_in_delay),
   psel           |-> b.op # "none"]
=============================================================================
