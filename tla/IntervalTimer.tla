----------------------------- MODULE IntervalTimer -----------------------------
(***************************************************************************)
(* What one counter of the dual timer promises its software: a down        *)
(* counter, modulo Half or modulo Half * Half, that restarts or stops when *)
(* it has reached zero and then raises an interrupt.  There are no         *)
(* halfwords here, no carries and no copy of the load value: a written     *)
(* load is taken two edges later.                                          *)
(*                                                                         *)
(* Two things software has to know are kept.  A timeout at the edge after  *)
(* a clear is cleared with the one before it.  Changing the size of the    *)
(* counter while its low half is zero may create a timeout, or drop one.   *)
(***************************************************************************)
EXTENDS Integers

CONSTANTS Half, Fast, Slow, Ctrl

VARIABLES
  busy,      \* second cycle of a bus access
  ctrl,
  period,    \* what the counter restarts from
  pending,   \* edges until a written load is taken, 0 when there is none
  phase,     \* of the prescaler
  count,
  zero,      \* the counter has reached zero
  stopped,   \* one-shot count over
  clearing,  \* an interrupt clear is in progress
  ris        \* interrupt raised and not cleared

vars == <<busy, ctrl, period, pending, phase, count, zero, stopped, clearing, ris>>

Counts == 0 .. Half * Half - 1

Init ==
  /\ busy = FALSE
  /\ ctrl = [en |-> FALSE, mode |-> FALSE, inten |-> TRUE, pre |-> 0,
             size |-> FALSE, one_shot |-> FALSE]
  /\ period = 0 /\ pending = 0 /\ phase = 0
  /\ count = Half * Half - 1 /\ zero = FALSE
  /\ stopped = FALSE /\ clearing = FALSE /\ ris = FALSE

\* The low half of n is zero.
LowZero(n) == \E h \in 0 .. Half - 1 : n = h * Half

Down == CASE ctrl.size /\ count = 0          -> Half * Half - 1
          [] ~ctrl.size /\ LowZero(count)    -> count + Half - 1
          [] OTHER                           -> count - 1

Reached(n) == IF ctrl.size THEN n = 0 /\ ~zero ELSE LowZero(n)

Kinds == {"none", "other", "load", "bgload", "ctrl", "clear"}

\* An edge at which an access of this kind begins.
Step(kind) ==
  LET take  == pending = 1
      halt  == ~take /\ ctrl.one_shot /\ (zero \/ stopped)
      ticks == CASE ctrl.pre = 0 -> TRUE
                 [] ctrl.pre = 1 -> phase % Fast = 1
                 [] ctrl.pre > 1 -> phase = 1
      moves == take \/ (ctrl.en /\ ticks /\ ~halt)
  IN /\ kind # "none" => ~busy
     /\ busy'    = (kind # "none")
     /\ IF kind = "ctrl" THEN ctrl' \in Ctrl ELSE UNCHANGED ctrl
     /\ IF kind \in {"load", "bgload"} THEN period' \in Counts ELSE UNCHANGED period
     /\ pending' = CASE kind = "load"                  -> 2
                     [] kind # "load" /\ pending > 0   -> pending - 1
                     [] kind # "load" /\ pending = 0   -> 0
     /\ phase'   = CASE take                           -> 0
                     [] ~take /\ ctrl.en               -> (phase + Slow - 1) % Slow
                     [] ~take /\ ~ctrl.en              -> phase
     /\ count'   = CASE ~moves                                     -> count
                     [] moves /\ (take \/ (zero /\ ctrl.mode))     -> period
                     [] moves /\ ~(take \/ (zero /\ ctrl.mode))    -> Down
     /\ IF ctrl'.size = ctrl.size THEN zero' = IF moves THEN Reached(count') ELSE zero
                                  ELSE zero' \in BOOLEAN /\ (zero' => LowZero(count'))
     /\ stopped'  = halt
     /\ ris'      = ((zero \/ ris) /\ ~clearing)
     /\ clearing' = IF clearing THEN zero' ELSE kind = "clear"

Next == \E kind \in Kinds : Step(kind)

Spec == Init /\ [][Next]_vars
=============================================================================
