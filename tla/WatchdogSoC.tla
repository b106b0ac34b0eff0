----------------------------- MODULE WatchdogSoC -----------------------------
(***************************************************************************)
(* The watchdog as the SoC uses it: both its clocks are fclk and WDOGCLKEN *)
(* is tied high, its reset request drives the reset generator of           *)
(* m3ds_user_partition.v together with the processor's SYSRESETREQ and     *)
(* LOCKUP, and beetle_sysctrl.v records the cause in RSTINFO, which only   *)
(* power-on clears.                                                        *)
(*                                                                         *)
(* The software is arbitrary: it may write any register in any order, and  *)
(* it may hang.                                                            *)
(***************************************************************************)
EXTENDS Watchdog

CONSTANT ClearMasks   \* the sets of causes software clears in RSTINFO

Causes == {"sys", "wdog", "lockup"}

ASSUME ClearAssumption == ClearMasks \subseteq SUBSET Causes

VARIABLES
  reg_sys_rst_n,    \* the system reset, active low
  reg_resetinfo,    \* RSTINFO, the set of recorded causes
  reg_lockupreset,  \* LOCKUPRESETEN
  sysctrl_write,    \* the write in its data phase, or NoWrite
  cpu               \* "reset", "run", "hung", "lockup" or "sysresetreq"

socVars == <<reg_sys_rst_n, reg_resetinfo, reg_lockupreset, sysctrl_write, cpu>>
allVars == <<vars, socVars>>

NoWrite == [reg |-> "none"]
SysctrlWrites == [reg : {"RSTINFO"}, clear : ClearMasks]
                   \cup [reg : {"SYS_CTRL"}, lockupreset : BOOLEAN]

SocInit ==
  /\ Init
  /\ reg_sys_rst_n = FALSE
  /\ reg_resetinfo = {}
  /\ reg_lockupreset = FALSE
  /\ sysctrl_write = NoWrite
  /\ cpu = "reset"

-----------------------------------------------------------------------------
ResetCauses ==   (IF cpu = "sysresetreq" THEN {"sys"} ELSE {})
            \cup (IF WDOGRES THEN {"wdog"} ELSE {})
            \cup (IF cpu = "lockup" /\ reg_lockupreset THEN {"lockup"} ELSE {})

\* A cause is set even if it is being cleared.
ResetInfoClearWins ==                                    \* (fault)
  reg_resetinfo' =
    (IF sysctrl_write.reg = "RSTINFO"
       THEN (reg_resetinfo \cup ResetCauses) \ sysctrl_write.clear
       ELSE reg_resetinfo \cup ResetCauses)
ResetInfoEdge ==
  reg_resetinfo' =
    (IF sysctrl_write.reg = "RSTINFO" THEN reg_resetinfo \ sysctrl_write.clear
                                      ELSE reg_resetinfo) \cup ResetCauses

\* An fclk edge with a reset request: everything but RSTINFO is reset.
EnterReset ==
  /\ reg_sys_rst_n
  /\ ResetCauses # {}
  /\ reg_sys_rst_n' = FALSE
  /\ ResetInfoEdge
  /\ Reset
  /\ reg_lockupreset' = FALSE
  /\ sysctrl_write' = NoWrite
  /\ cpu' = "reset"

LeaveReset ==
  /\ ~reg_sys_rst_n
  /\ reg_sys_rst_n' = TRUE
  /\ cpu' = "run"
  /\ UNCHANGED <<vars, reg_resetinfo, reg_lockupreset, sysctrl_write>>

\* An fclk edge without one.
FclkEdge ==
  /\ reg_sys_rst_n
  /\ ResetCauses = {}
  /\ UNCHANGED reg_sys_rst_n
  /\ ResetInfoEdge
  /\ reg_lockupreset' = IF sysctrl_write.reg = "SYS_CTRL"
                          THEN sysctrl_write.lockupreset ELSE reg_lockupreset
  /\ WdogEdge

-----------------------------------------------------------------------------
(* The processor, at an fclk edge.                                         *)

AccessWatchdog == /\ FclkEdge
                  /\ cpu = "run" /\ UNCHANGED cpu
                  /\ PclkEdge
                  /\ sysctrl_write' = NoWrite

WriteSysctrl == /\ FclkEdge
                /\ cpu = "run" /\ UNCHANGED cpu
                /\ NoSetup
                /\ sysctrl_write' \in SysctrlWrites

Stop(how) == /\ FclkEdge
             /\ cpu = "run" /\ cpu' = how
             /\ NoSetup
             /\ sysctrl_write' = NoWrite

Stuck == /\ FclkEdge
         /\ cpu \in {"hung", "lockup"} /\ UNCHANGED cpu
         /\ NoSetup
         /\ sysctrl_write' = NoWrite

SocNext ==
  \/ EnterReset \/ LeaveReset
  \/ AccessWatchdog \/ WriteSysctrl \/ Stuck
  \/ \E how \in {"hung", "lockup", "sysresetreq"} : Stop(how)

\* fclk never stops.
SocSpec     == SocInit /\ [][SocNext]_allVars
SocFairSpec == SocSpec /\ WF_allVars(SocNext)

-----------------------------------------------------------------------------
SocTypeOK ==
  /\ TypeOK
  /\ reg_sys_rst_n \in BOOLEAN
  /\ reg_resetinfo \in SUBSET Causes
  /\ reg_lockupreset \in BOOLEAN
  /\ sysctrl_write \in SysctrlWrites \cup {NoWrite}
  /\ cpu \in {"reset", "run", "hung", "lockup", "sysresetreq"}

\* Software that stops while the watchdog is armed is restarted by it, and
\* finds the watchdog named in RSTINFO.  A counter that is stopped by an
\* earlier reset request (one that integration test mode kept from the reset
\* generator) is not armed: it waits for a new load.
Armed == /\ wdog_int_en /\ wdog_res_en /\ ~wdog_itcr
         /\ ~i_wdog_res /\ ~(count_stop_reg /\ ~load_en_reg /\ ~load_req_w)
HangIsRestarted ==
  (reg_sys_rst_n /\ cpu = "hung" /\ Armed)
    ~> (reg_sys_rst_n /\ cpu = "run" /\ "wdog" \in reg_resetinfo)

\* RSTINFO names every cause of a reset when the reset begins, also one that
\* software is clearing at that moment, and forgets a cause only when software
\* clears it (main() of watchdog_demo.c chooses its path by this).
CauseIsRecorded ==
  [][/\ reg_sys_rst_n /\ ~reg_sys_rst_n' => ResetCauses \subseteq reg_resetinfo'
     /\ \A c \in reg_resetinfo \ reg_resetinfo' :
          sysctrl_write.reg = "RSTINFO" /\ c \in sysctrl_write.clear]_allVars
=============================================================================
