---------------------------- MODULE WatchdogDemo ----------------------------
(***************************************************************************)
(* The program of software/common/demos/watchdog_demo.c running on         *)
(* WatchdogSoC: main() with its two parts, one before and one after the    *)
(* watchdog reset, and NMI_Handler().                                      *)
(*                                                                         *)
(* A program is a sequence of instructions; only accesses to the watchdog, *)
(* the software variables, and the waits and tests on them are kept.  The  *)
(* processor starts its next instruction, or the NMI handler, after at     *)
(* most MaxLag idle fclk cycles: printing and fetching take that time.     *)
(***************************************************************************)
EXTENDS WatchdogSoC, Sequences

CONSTANTS
  Long, Short, Threshold,  \* 10000, 5000 and 8000 cycles, scaled
  Filler,                  \* the large load values main() starts with
  Repeats,                 \* times the loop sets the watchdog (10)
  MaxLag

ASSUME DemoAssumption == /\ {Long, Short, Filler} \subseteq Word
                         /\ Threshold \in Nat /\ Repeats \in Nat /\ MaxLag \in Nat
                         /\ {"wdog"} \in ClearMasks

VARIABLES
  part,     \* main_prog_part_1() or main_prog_part_2()
  pc,       \* next instruction of main()
  hpc,      \* next instruction of NMI_Handler(), 0 outside it
  sw,       \* the software variables
  lag,      \* idle cycles since the last instruction
  outcome   \* how the simulation ended

progVars == <<part, pc, hpc, sw, lag, outcome>>
demoVars == <<allVars, progVars>>

-----------------------------------------------------------------------------
(* The program.                                                            *)

Ins(op)     == [op |-> op]
Load(w)     == [op |-> "LOAD", word |-> w]
Ctrl(bits)  == [op |-> "CTRL", bits |-> [inten |-> bits % 2 = 1,
                                         resen |-> (bits \div 2) % 2 = 1]]
Unlock      == [op |-> "LOCK", unlock |-> TRUE]
Lock        == [op |-> "LOCK", unlock |-> FALSE]
Itcr(b)     == [op |-> "ITCR", test |-> b]
Itop(i)     == [op |-> "ITOP", out |-> [int |-> i, res |-> FALSE]]
Set(v, b)   == [op |-> "set", var |-> v, to |-> b]
Test(t)     == [op |-> "test", that |-> t]

CtrlOfType == <<0, 1, 3>>   \* type 0: no action, 1: interrupt, 2: reset
watchdog_init(cycle, type) == <<Unlock, Load(cycle), Ctrl(CtrlOfType[type + 1]), Lock>>
watchdog_set       == <<Unlock, Ctrl(10000), Lock>>
watchdog_irq_clear == <<Unlock, Ins("INTCLR"), Lock>>

RegisterAccesses ==
  [n \in 1 .. 10 |-> IF n % 2 = 1 THEN Load(Filler) ELSE Ctrl(n \div 2 - 1)]
SetOnce ==
  <<Ins("VALUE"), Ins("low?")>> \o watchdog_set \o <<Ins("Watchdog value set again")>>
SetRegularly == [n \in 1 .. 6 * Repeats |-> SetOnce[((n - 1) % 6) + 1]]   \* the loop, unrolled
Part1 ==
  RegisterAccesses \o <<Set("reset_test", FALSE)>>
  \o watchdog_init(Long, 1) \o <<Set("nmi_occurred", FALSE), Set("nmi_expected", FALSE)>>
  \o SetRegularly
  \o watchdog_init(Short, 0) \o <<Test("no NMI")>>
  \o <<Set("nmi_occurred", FALSE), Set("nmi_expected", TRUE)>>
  \o watchdog_init(Short, 1) \o <<Ins("await NMI")>>
  \o watchdog_init(Short, 0)
  \o <<Set("nmi_occurred", FALSE), Set("nmi_expected", TRUE), Set("reset_test", TRUE)>>
  \o watchdog_init(Short, 2) \o <<Ins("spin")>>

Part2 ==
  <<Test("RSTINFO is wdog"), Ins("clear RSTINFO"), Ins("nop"), Test("RSTINFO is clear"),
    Set("reset_test", FALSE), Set("integration_test", TRUE),
    Set("nmi_expected", FALSE), Set("nmi_occurred", FALSE),
    Unlock, Itop(FALSE), Itcr(TRUE), Test("ITCR is set"), Set("nmi_expected", TRUE),
    Itop(TRUE), Itop(FALSE), Test("NMI"), Itcr(FALSE), Test("ITCR is clear"),
    Ins("passed")>>

NMI_HandlerLocksOut ==                                   \* (fault)
  <<Ins("spin if reset_test")>> \o watchdog_irq_clear
  \o <<Set("nmi_occurred", TRUE), Test("NMI expected"), Ins("return unless integration_test"),
       Itop(FALSE), Ins("return")>>
NMI_Handler ==
  <<Ins("spin if reset_test")>> \o watchdog_irq_clear
  \o <<Set("nmi_occurred", TRUE), Test("NMI expected"), Ins("return unless integration_test"),
       Unlock, Itop(FALSE), Ins("return")>>

Main == IF part = 1 THEN Part1 ELSE Part2

Holds(t) ==
  CASE t = "no NMI"           -> ~sw.nmi_occurred
    [] t = "NMI"              -> sw.nmi_occurred
    [] t = "NMI expected"     -> sw.nmi_expected
    [] t = "RSTINFO is wdog"  -> reg_resetinfo = {"wdog"}
    [] t = "RSTINFO is clear" -> reg_resetinfo = {}
    [] t = "ITCR is set"      -> wdog_itcr
    [] t = "ITCR is clear"    -> ~wdog_itcr

-----------------------------------------------------------------------------
(* The processor.                                                          *)

InHandler == hpc # 0
Current   == IF InHandler THEN NMI_Handler[hpc] ELSE Main[pc]
GoTo(main, handler) == pc' = main /\ hpc' = handler
Step      == IF InHandler THEN GoTo(pc, hpc + 1) ELSE GoTo(pc + 1, 0)
NoBus     == NoSetup /\ sysctrl_write' = NoWrite

\* The access edge of a watchdog access; the read of VALUE is used here.
AccessEdge ==
  /\ access /\ FclkEdge /\ NoBus
  /\ IF Current.op = "low?" /\ Val(prdata) < Threshold THEN Step
     ELSE IF Current.op = "low?" THEN GoTo(pc - 1, hpc)
     ELSE GoTo(pc, hpc)
  /\ UNCHANGED <<sw, outcome, lag>>

Idle ==
  /\ ~access /\ FclkEdge /\ NoBus
  /\ lag < MaxLag /\ lag' = lag + 1
  /\ UNCHANGED <<pc, hpc, sw, outcome>>

\* The NMI preempts main() before its next instruction.
TakeNmi ==
  /\ ~access /\ FclkEdge /\ NoBus
  /\ WDOGINT /\ ~InHandler
  /\ GoTo(pc, 1) /\ lag' = 0
  /\ UNCHANGED <<sw, outcome>>

Ready(ops) == /\ ~access /\ FclkEdge
              /\ InHandler \/ ~WDOGINT
              /\ Current.op \in ops
              /\ lag' = 0

BusInstruction ==
  /\ Ready({"LOAD", "CTRL", "INTCLR", "LOCK", "ITCR", "ITOP", "VALUE"})
  /\ CASE Current.op = "LOAD"   -> WriteLoad(Current.word)
       [] Current.op = "CTRL"   -> WriteCtrl(Current.bits)
       [] Current.op = "INTCLR" -> WriteIntClr
       [] Current.op = "LOCK"   -> WriteLock(Current.unlock)
       [] Current.op = "ITCR"   -> WriteItcr(Current.test)
       [] Current.op = "ITOP"   -> WriteItop(Current.out)
       [] Current.op = "VALUE"  -> Read("VALUE")
  /\ sysctrl_write' = NoWrite
  /\ Step
  /\ UNCHANGED <<sw, outcome>>

ClearResetInfo ==
  /\ Ready({"clear RSTINFO"})
  /\ NoSetup
  /\ sysctrl_write' = [reg |-> "RSTINFO", clear |-> {"wdog"}]
  /\ Step
  /\ UNCHANGED <<sw, outcome>>

SoftwareStep ==
  /\ Ready({"set", "test", "nop", "Watchdog value set again", "return",
            "return unless integration_test", "passed"})
  /\ NoBus
  /\ sw' = IF Current.op = "set" THEN [sw EXCEPT ![Current.var] = Current.to] ELSE sw
  /\ outcome' = CASE Current.op = "passed" -> "passed"
                  [] Current.op = "test" /\ ~Holds(Current.that) -> "error"
                  [] OTHER -> "running"
  /\ IF \/ Current.op = "return"
        \/ Current.op = "return unless integration_test" /\ ~sw.integration_test
       THEN GoTo(pc, 0)
       ELSE IF Current.op = "passed" THEN GoTo(pc, hpc) ELSE Step

\* The loops that only wait.
Wait ==
  /\ Ready({"spin", "spin if reset_test", "await NMI"})
  /\ NoBus
  /\ IF \/ Current.op = "spin if reset_test" /\ ~sw.reset_test
        \/ Current.op = "await NMI" /\ sw.nmi_occurred
       THEN Step ELSE GoTo(pc, hpc)
  /\ UNCHANGED <<sw, outcome>>

Software0 == [v \in {"nmi_occurred", "nmi_expected", "reset_test",
                     "integration_test"} |-> FALSE]

\* main() reads RSTINFO to know which part to run.
Boot ==
  /\ LeaveReset
  /\ part' = IF "wdog" \in reg_resetinfo THEN 2 ELSE 1
  /\ pc' = 1 /\ hpc' = 0 /\ lag' = 0 /\ sw' = Software0
  /\ outcome' = IF reg_resetinfo = {"sys"} THEN "error" ELSE "running"

Processor ==
  /\ cpu = "run" /\ UNCHANGED <<cpu, part>>
  /\ \/ AccessEdge \/ Idle \/ TakeNmi
     \/ BusInstruction \/ ClearResetInfo \/ SoftwareStep \/ Wait

Ended == outcome # "running" /\ UNCHANGED demoVars

DemoInit ==
  /\ SocInit
  /\ part = 1 /\ pc = 1 /\ hpc = 0 /\ sw = Software0 /\ lag = 0
  /\ outcome = "running"

DemoNext ==
  \/ /\ outcome = "running"
     /\ \/ Processor \/ Boot
        \/ EnterReset /\ UNCHANGED progVars
  \/ Ended

DemoSpec == DemoInit /\ [][DemoNext]_demoVars /\ WF_demoVars(DemoNext)

-----------------------------------------------------------------------------
DemoTypeOK ==
  /\ SocTypeOK
  /\ part \in 1 .. 2 /\ pc \in 1 .. Len(Main)
  /\ hpc \in 0 .. Len(NMI_Handler)
  /\ sw \in [DOMAIN Software0 -> BOOLEAN]
  /\ lag \in 0 .. MaxLag
  /\ outcome \in {"running", "error", "passed"}

\* The demo runs through both parts: interrupt, reset, reset cause and
\* integration test all work, in spite of the lock that the NMI handler
\* leaves set behind main()'s back.
DemoPasses == <>(outcome = "passed")

\* watchdog_set() "update[s the] watchdog counter": when it returns, the
\* counter has been restarted from a value above the loop's threshold.
SetUpdatesCounter ==
  part = 1 /\ ~InHandler /\ Main[pc].op = "Watchdog value set again"
    => Val(count_read) >= Threshold
=============================================================================
