------------------------- MODULE DualTimerRefinement -------------------------
(***************************************************************************)
(* Each of the two counters implements IntervalTimer: the value of two     *)
(* halfwords is one number, and a load is pending from the write to LOAD   *)
(* to the edge that takes it.                                              *)
(***************************************************************************)
EXTENDS DualTimer

Val(w)     == w.hi * Half + w.lo
Pending(r) == CASE r.load_en_reg -> 2 [] r.load_req_t -> 1 [] OTHER -> 0

Interval1 == INSTANCE IntervalTimer WITH
  busy <- access, ctrl <- frc.timer1.ctrl, period <- Val(frc.timer1.load_period),
  pending <- Pending(frc.timer1), phase <- frc.timer1.prescale_cnt,
  count <- Val(frc.timer1.count), zero <- carry_msb(frc.timer1),
  stopped <- frc.timer1.stop_reg, clearing <- int_clr_t(frc.timer1),
  ris <- frc.timer1.raw_intfrc

Interval2 == INSTANCE IntervalTimer WITH
  busy <- access, ctrl <- frc.timer2.ctrl, period <- Val(frc.timer2.load_period),
  pending <- Pending(frc.timer2), phase <- frc.timer2.prescale_cnt,
  count <- Val(frc.timer2.count), zero <- carry_msb(frc.timer2),
  stopped <- frc.timer2.stop_reg, clearing <- int_clr_t(frc.timer2),
  ris <- frc.timer2.raw_intfrc

\* Each of the two counters is the timer its software is told about, whatever
\* the software does: the carries, the two copies of the load value and the
\* handshakes cannot be seen (frc.v:201-250, 305-331, 365-469, 487-552).
IntervalSpec == Interval1!Spec /\ Interval2!Spec
=============================================================================
