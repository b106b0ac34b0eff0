------------------------- MODULE WatchdogRefinement -------------------------
(***************************************************************************)
(* Watchdog implements WatchdogTimer: a load is pending from the write to  *)
(* the WDOGCLK edge that consumes its request toggle, and an interrupt     *)
(* clear is in progress while int_clr_w is high.                           *)
(***************************************************************************)
EXTENDS Watchdog

Timer == INSTANCE WatchdogTimer WITH
  Max      <- Half * Half - 1,
  Loads    <- {Val(w) : w \in LoadValues},
  busy     <- access,
  data     <- Val(prdata),
  locked   <- wdog_lock,
  control  <- wdog_control,
  load     <- Val(wdog_load),
  pending  <- load_en_reg \/ load_req_w,
  count    <- Val(reg_count),
  timeout  <- carry_msb,
  enabled  <- wdog_int_en_reg,
  clearing <- int_clr_w,
  stopped  <- count_stop_reg,
  ris      <- wdog_ris,
  res      <- i_wdog_res

\* Every behaviour of the two clock domains, with its handshakes and its split
\* counter, is a behaviour of the timer that software is told about.
TimerSpec == Timer!Spec
=============================================================================
