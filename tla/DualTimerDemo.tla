---------------------------- MODULE DualTimerDemo ----------------------------
(***************************************************************************)
(* The program of software/common/demos/dualtimer_demo.c on the dual       *)
(* timer: main(), its demonstrations, the interrupt handler the two timers *)
(* share, and the part of the interrupt controller they use.               *)
(*                                                                         *)
(* A print takes any time, and the handler loses at most MaxLag edges.     *)
(* A requested interrupt is taken before the next instruction of main().   *)
(***************************************************************************)
EXTENDS DualTimerRefinement, Statements

CONSTANTS
  Cycles,    \* the load value of each number of cycles in the program
  MaxLag

ASSUME CyclesAssumption ==
  /\ Cycles \in [{5000, 3000, 2000, 1000, 200, 100, 20} -> Word]
  /\ MaxLag \in Nat

VARIABLES
  image,      \* the software: this program, or software of any kind
  pc,         \* next instruction of main()
  hpc,        \* next instruction of DUALTIMER_HANDLER, 0 outside it
  sw,         \* the software variables
  nvic,       \* the timers' interrupt: enabled, pending
  lag,        \* idle edges of the handler
  outcome     \* how the program ended

progVars == <<image, pc, hpc, sw, nvic, lag, outcome>>
demoVars == <<vars, progVars>>

-----------------------------------------------------------------------------
(* The functions of the program.                                           *)

Write(t, b)  == <<[op |-> "write", timer |-> t, access |-> b]>>
Itcr(b)      == <<[op |-> "ITCR", to |-> b]>>
Itop(T)      == <<[op |-> "ITOP", to |-> T]>>
MIS(t)       == [timer |-> t]            \* a condition: TimerMIS is not 0
ItcrIs(b)    == [itcr |-> b]
Prints       == Do("puts")

OffCtrl == [en |-> FALSE, mode |-> FALSE, inten |-> FALSE, pre |-> 0,
            size |-> FALSE, one_shot |-> FALSE]

dualtimer_irq_clear(t) == Write(t, IntClr)
dualtimer_stop(t)      == Do("read") \o <<[op |-> "stop", timer |-> t]>>

\* The six dualtimer_setup_ functions: 16 or 32 bits, and the mode.
dualtimer_setup(t, how, bits, cycle, prescale, interrupt) ==
  Write(t, Control(OffCtrl)) \o dualtimer_irq_clear(t) \o Write(t, Load(Cycles[cycle]))
  \o Write(t, Control([en |-> TRUE, mode |-> how # "freerunning", inten |-> interrupt,
                       pre |-> prescale, size |-> bits = 32, one_shot |-> how = "oneshot"]))

ClearOccurred == Set("dtimer1_irq_occurred", 0) \o Set("dtimer2_irq_occurred", 0)
NoneExpected  == Set("dtimer_irq_expected", 0) \o ClearOccurred

NoIrqPart(t, how, bits, cycle, prescale) ==
  dualtimer_setup(t, how, bits, cycle, prescale, FALSE) \o Prints \o dualtimer_stop(t)
IrqWait == Do("await IRQ") \o ClearOccurred \o Prints
IrqPartDisarmsFirst(t, how, bits, cycle, waits) ==             \* (fault)
  Set("dtimer_irq_expected", 1) \o Enable("DUALTIMER")
  \o dualtimer_setup(t, how, bits, cycle, 0, TRUE)
  \o waits \o NoneExpected \o dualtimer_stop(t) \o Do("disable")
IrqPart(t, how, bits, cycle, waits) ==
  Set("dtimer_irq_expected", 1) \o Enable("DUALTIMER")
  \o dualtimer_setup(t, how, bits, cycle, 0, TRUE)
  \o waits \o dualtimer_stop(t) \o Do("disable") \o NoneExpected

dualtimer_free_running_demo(t, bits) ==
  NoneExpected
  \o NoIrqPart(t, "freerunning", bits, 5000, 0) \o NoIrqPart(t, "freerunning", bits, 200, 1)
  \o NoIrqPart(t, "freerunning", bits, 20, 2)   \o IrqPart(t, "freerunning", bits, 5000, IrqWait)
dualtimer_periodic_demo(t, bits) ==
  NoneExpected
  \o NoIrqPart(t, "periodic", bits, 1000, 0) \o NoIrqPart(t, "periodic", bits, 200, 1)
  \o NoIrqPart(t, "periodic", bits, 20, 2)
  \o IrqPart(t, "periodic", bits, 3000, IrqWait \o IrqWait \o IrqWait \o IrqWait)
dualtimer_one_shot_demo(t, bits) ==
  NoneExpected
  \o NoIrqPart(t, "oneshot", bits, 2000, 0) \o NoIrqPart(t, "oneshot", bits, 100, 1)
  \o IrqPart(t, "oneshot", bits, 3000, IrqWait)

Demos(t, bits) == dualtimer_free_running_demo(t, bits) \o dualtimer_periodic_demo(t, bits)
                    \o dualtimer_one_shot_demo(t, bits)
Timer_Demo(t)  == Demos(t, 16) \o Demos(t, 32)

Occurs(v) == Itop({IF v = "dtimer1_irq_occurred" THEN "timer1" ELSE "timer2"}) \o Itop({})
               \o If(Var(v, "clear"), Set("result", 1))
dualtimer_integration_test ==
  Prints \o Set("dtimer_integration_test", 1) \o NoneExpected \o Itop({}) \o Itcr(TRUE)
  \o IfElse(ItcrIs(FALSE), Set("result", 1),
       Set("dtimer_irq_expected", 1) \o Enable("DUALTIMER")
       \o Occurs("dtimer1_irq_occurred") \o ClearOccurred \o Occurs("dtimer2_irq_occurred")
       \o Itcr(FALSE) \o If(ItcrIs(TRUE), Set("result", 1)))
  \o Set("dtimer_integration_test", 0) \o Do("disable")
  \o If(Var("result", "set"), Fail)

Main == Timer_Demo("timer1") \o Timer_Demo("timer2") \o dualtimer_integration_test
          \o Do("passed")

Serve(t, v) == If(MIS(t), dualtimer_irq_clear(t) \o Inc(v)
                            \o If(Var("dtimer_irq_expected", "clear"), Fail))
DUALTIMER_HANDLER ==
  IfElse(Var("dtimer_integration_test", "clear"),
    Serve("timer1", "dtimer1_irq_occurred") \o Serve("timer2", "dtimer2_irq_occurred"),
    Itop({}) \o Inc("dtimer1_irq_occurred") \o Inc("dtimer2_irq_occurred"))
  \o Do("return")

\* What a condition reads.
HoldsVar(v, is) == CASE is = "clear" -> sw[v] = 0
                     [] is = "set"   -> sw[v] = 1
Holds(c) == CASE "timer" \in DOMAIN c -> i_frc_int(frc[c.timer])
              [] "itcr" \in DOMAIN c  -> itcr = c.itcr
              [] "var" \in DOMAIN c   -> HoldsVar(c.var, c.is)
ReadsRegister(c) == "var" \notin DOMAIN c

-----------------------------------------------------------------------------
(* The interrupt controller: the line, when it rises or is still up when   *)
(* the handler returns, is pending until the handler is entered, whether   *)
(* it is enabled or not.                                                   *)

Line == TIMINTC
Nvic(entered, left, enabled) ==
  nvic' = [enabled |-> enabled,
           pending |-> \/ nvic.pending /\ ~entered
                       \/ Line' /\ ~Line
                       \/ Line /\ left]
NvicRuns  == Nvic(FALSE, FALSE, nvic.enabled)
Requested == nvic.enabled /\ nvic.pending

-----------------------------------------------------------------------------
(* The processor.                                                          *)

InHandler == hpc # 0
Current   == IF InHandler THEN DUALTIMER_HANDLER[hpc] ELSE Main[pc]
Jump(n)   == IF InHandler THEN hpc' = hpc + n /\ UNCHANGED pc
                          ELSE pc' = pc + n /\ UNCHANGED hpc

\* The next instruction starts at this edge and is one of ops.
Ready(ops) == /\ ~access
              /\ InHandler \/ ~Requested
              /\ Current.op \in ops
              /\ UNCHANGED <<image, lag>>

AccessEdge ==
  /\ access /\ NoAccess /\ NvicRuns
  /\ UNCHANGED <<image, pc, hpc, sw, lag, outcome>>

Idle ==
  /\ InHandler /\ ~access /\ NoAccess /\ NvicRuns
  /\ lag < MaxLag /\ lag' = lag + 1
  /\ UNCHANGED <<image, pc, hpc, sw, outcome>>

TakeIrq ==
  /\ ~access /\ ~InHandler /\ Requested
  /\ hpc' = 1 /\ lag' = 0
  /\ NoAccess /\ Nvic(TRUE, FALSE, nvic.enabled)
  /\ UNCHANGED <<image, pc, sw, outcome>>

Return ==
  /\ Ready({"return"})
  /\ hpc' = 0
  /\ NoAccess /\ Nvic(FALSE, TRUE, nvic.enabled)
  /\ UNCHANGED <<pc, sw, outcome>>

\* main() alone writes CTRL: what "stop" has read is still there.
TimerWrite ==
  /\ Ready({"write", "stop"})
  /\ WriteTimer(Current.timer,
       IF Current.op = "write" THEN Current.access
                               ELSE Control([frc[Current.timer].ctrl EXCEPT !.en = FALSE]))
  /\ Jump(1) /\ NvicRuns
  /\ UNCHANGED <<sw, outcome>>

TestWrite ==
  /\ Ready({"ITCR", "ITOP"})
  /\ IF Current.op = "ITCR" THEN WriteItcr(Current.to) ELSE WriteItop(Current.to)
  /\ Jump(1) /\ NvicRuns
  /\ UNCHANGED <<sw, outcome>>

RegisterRead ==
  /\ Ready({"read"})
  /\ OtherAccess
  /\ Jump(1) /\ NvicRuns
  /\ UNCHANGED <<sw, outcome>>

\* A register is sampled in the setup phase of its read.
Branch ==
  /\ Ready({"unless", "goto"})
  /\ Jump(IF Current.op = "unless" /\ Holds(Current.cond) THEN 1 ELSE Current.by)
  /\ IF Current.op = "unless" /\ ReadsRegister(Current.cond) THEN OtherAccess ELSE NoAccess
  /\ NvicRuns
  /\ UNCHANGED <<sw, outcome>>

CountCap == 1     \* the program compares its counts with 0 only

Assign ==
  /\ Ready({"set", "inc"})
  /\ sw' = [sw EXCEPT ![Current.var] =
              IF Current.op = "set" THEN Current.to ELSE IF @ < CountCap THEN @ + 1 ELSE @]
  /\ Jump(1) /\ NoAccess /\ NvicRuns
  /\ UNCHANGED outcome

SetEnable ==
  /\ Ready({"enable", "disable"})
  /\ Jump(1) /\ NoAccess /\ Nvic(FALSE, FALSE, Current.op = "enable")
  /\ UNCHANGED <<sw, outcome>>

AwaitIrq ==
  /\ Ready({"await IRQ"})
  /\ Jump(IF sw["dtimer1_irq_occurred"] + sw["dtimer2_irq_occurred"] = 0 THEN 0 ELSE 1)
  /\ NoAccess /\ NvicRuns
  /\ UNCHANGED <<sw, outcome>>

Printing(n) ==
  /\ Ready({"puts"})
  /\ Jump(n) /\ NoAccess /\ NvicRuns
  /\ UNCHANGED <<sw, outcome>>
PutsOn   == Printing(0)
PutsDone == Printing(1)

Finish ==
  /\ Ready({"fail", "passed"})
  /\ outcome' = IF Current.op = "fail" THEN "failed" ELSE "passed"
  /\ NoAccess /\ NvicRuns
  /\ UNCHANGED <<pc, hpc, sw>>

Processor ==
  \/ AccessEdge \/ Idle \/ TakeIrq \/ Return \/ TimerWrite \/ TestWrite \/ RegisterRead
  \/ Branch \/ Assign \/ SetEnable \/ AwaitIrq \/ PutsOn \/ PutsDone \/ Finish

Ended == outcome # "running" /\ UNCHANGED demoVars

-----------------------------------------------------------------------------
Software0 == [v \in {"dtimer_irq_expected", "dtimer1_irq_occurred", "dtimer2_irq_occurred",
                     "dtimer_integration_test", "result"} |-> 0]

DemoInit ==
  /\ Init
  /\ image \in {"dualtimer_demo", "any"}
  /\ pc = 1 /\ hpc = 0 /\ sw = Software0
  /\ nvic = [enabled |-> FALSE, pending |-> FALSE]
  /\ lag = 0 /\ outcome = "running"

DemoNext ==
  \/ image = "any" /\ Next /\ UNCHANGED progVars
  \/ image = "dualtimer_demo" /\ outcome = "running" /\ Processor
  \/ image = "dualtimer_demo" /\ Ended

\* The clock runs, and a print ends.
DemoSpec == /\ DemoInit /\ [][DemoNext]_demoVars
            /\ WF_demoVars(DemoNext)
            /\ SF_demoVars(image = "dualtimer_demo" /\ outcome = "running" /\ PutsDone)

-----------------------------------------------------------------------------
DemoTypeOK ==
  /\ TypeOK
  /\ image \in {"dualtimer_demo", "any"}
  /\ pc \in 1 .. Len(Main) /\ hpc \in 0 .. Len(DUALTIMER_HANDLER)
  /\ sw \in [DOMAIN Software0 -> 0 .. CountCap]
  /\ nvic \in [enabled : BOOLEAN, pending : BOOLEAN]
  /\ lag \in 0 .. MaxLag
  /\ outcome \in {"running", "failed", "passed"}

\* The program always ends: every interrupt it waits for comes, none comes
\* when it expects none, and the integration test succeeds
\* (dualtimer_demo.c:91-135, 600-630, 754-817).
DemoPasses == image = "dualtimer_demo" => <>(outcome = "passed")
=============================================================================
