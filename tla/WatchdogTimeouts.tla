-------------------------- MODULE WatchdogTimeouts --------------------------
(***************************************************************************)
(* The watchdog with a history variable that counts its timeouts.          *)
(***************************************************************************)
EXTENDS Watchdog

VARIABLE
  timeouts   \* times the counter reached zero since the last service, at most 2

toVars == <<vars, timeouts>>

ToInit == Init /\ timeouts = 0

ToNext ==
  \/ Pclk /\ UNCHANGED timeouts
  \/ /\ Wdog \/ Both
     /\ timeouts' = CASE int_clr_w -> 0
                      [] ~int_clr_w /\ carry_msb' /\ ~carry_msb ->
                           IF timeouts < 2 THEN timeouts + 1 ELSE 2
                      [] OTHER -> timeouts
  \/ Reset /\ timeouts' = 0

ToSpec == ToInit /\ [][ToNext]_toVars

-----------------------------------------------------------------------------
\* "The reset output is activated when the counter reaches zero and the
\* interrupt output is active, indicating that the counter has previously
\* reached zero but not been serviced" (cmsdk_apb_watchdog_frc.v:467-469): a
\* reset request needs two timeouts since the last service.
ResetNeedsTwoTimeouts ==
  [][~i_wdog_res /\ i_wdog_res' => timeouts = 2]_toVars
=============================================================================
