------------------------------ MODULE DualTimer ------------------------------
(***************************************************************************)
(* The APB dual timer (cmsdk_apb_dualtimers): two free running counters    *)
(* (cmsdk_apb_dualtimers_frc) of two halfwords each, with registered       *)
(* carries, a prescaler, one-shot and periodic modes, and interrupts.      *)
(*                                                                         *)
(* The subsystem clocks the timers with the bus clock and holds TIMCLKEN   *)
(* high (m3ds_user_partition.v:1652-1653), so that there is one kind of    *)
(* clock edge, and a pair of toggles that carries a request from the bus   *)
(* to the counter is one flag, set for one cycle.                          *)
(***************************************************************************)
EXTENDS Integers

CONSTANTS
  Half,         \* values of a halfword
  Fast, Slow,   \* the dividers of the prescaler (16 and 256)
  LoadValues,   \* values software writes to LOAD and BGLOAD
  CtrlValues,   \* values it writes to CTRL
  ItcrValues, ItopValues,   \* values it writes to ITCR and ITOP
  Accessed      \* the timers it accesses

Timers == {"timer1", "timer2"}
HalfWord == 0 .. Half - 1
Word == [hi : HalfWord, lo : HalfWord]
Ctrl == [en : BOOLEAN, mode : BOOLEAN, inten : BOOLEAN, pre : 0 .. 3,
         size : BOOLEAN, one_shot : BOOLEAN]

ASSUME HalfAssumption == Half \in Nat /\ Half >= 2
ASSUME PrescaleAssumption ==
  /\ Fast \in Nat /\ Slow \in Nat
  /\ Fast >= 2 /\ Slow >= 2 /\ Slow % Fast = 0
ASSUME AccessAssumption ==
  /\ LoadValues \subseteq Word /\ CtrlValues \subseteq Ctrl /\ Accessed \subseteq Timers
  /\ ItcrValues \subseteq BOOLEAN /\ ItopValues \subseteq SUBSET Timers

VARIABLES
  frc,      \* the registers of each timer
  itcr,     \* integration test mode
  itop,     \* the timers whose interrupt integration test drives
  access    \* second cycle of a bus access

vars == <<frc, itcr, itop, access>>

Frc == [ctrl : Ctrl,
        load_val : Word,        \* what a load puts into the counter
        load_period : Word,     \* what the counter restarts from
        load_en_reg : BOOLEAN,  \* LOAD was written at the last edge
        load_req_t : BOOLEAN,   \* the counter takes load_val at the next edge
        prescale_cnt : 0 .. Slow - 1,
        stop_reg : BOOLEAN,     \* one-shot count over
        count : Word,
        carry : [c0 : BOOLEAN, c1 : BOOLEAN],
        int_clr_pulse_t : BOOLEAN, int_clr_reg_t : BOOLEAN,
        raw_intfrc : BOOLEAN]

Zero    == [hi |-> 0, lo |-> 0]
AllOnes == [hi |-> Half - 1, lo |-> Half - 1]

-----------------------------------------------------------------------------
(* One timer.                                                              *)

Minus1WithoutWrap(h) == h - 1                           \* (fault)
Minus1(h) == IF h = 0 THEN Half - 1 ELSE h - 1

carry_msb(r) == IF r.ctrl.size THEN r.carry.c1 ELSE r.carry.c0

pre_enable(r) == CASE r.ctrl.pre = 0 -> TRUE
                   [] r.ctrl.pre = 1 -> r.prescale_cnt % Fast = 1
                   [] r.ctrl.pre > 1 -> r.prescale_cnt = 1

nxt_prescale(r) == CASE r.load_req_t                 -> 0
                     [] ~r.load_req_t /\ r.ctrl.en   -> (r.prescale_cnt + Slow - 1) % Slow
                     [] ~r.load_req_t /\ ~r.ctrl.en  -> r.prescale_cnt

load_tog_en(r) == r.load_en_reg /\ ~r.load_req_t

stop1shot_restarts(r) == r.ctrl.one_shot /\ carry_msb(r)      \* (fault)
stop1shot(r) == ~r.load_req_t /\ r.ctrl.one_shot /\ (carry_msb(r) \/ r.stop_reg)

\* The counter moves.
count_en(r) == (r.ctrl.en /\ pre_enable(r) /\ ~stop1shot(r)) \/ r.load_req_t
\* The carries look at the value the counter restarts from.
restart(r)  == r.load_req_t \/ (carry_msb(r) /\ r.ctrl.mode)

nxt_count_without_borrow(r) == [hi |-> r.count.hi, lo |-> Minus1(r.count.lo)]   \* (fault)
nxt_count(r) == [hi |-> IF r.ctrl.size /\ r.carry.c0 THEN Minus1(r.count.hi) ELSE r.count.hi,
                 lo |-> Minus1(r.count.lo)]
count_mux_1(r) == CASE r.load_req_t                                   -> r.load_val
                    [] ~r.load_req_t /\ carry_msb(r) /\ r.ctrl.mode   -> r.load_period
                    [] ~restart(r)                                    -> nxt_count(r)

high_count(r)  == IF restart(r) THEN r.load_period.hi ELSE r.count.hi
nxt_carry_0_of_count(r) == r.count.lo = 1                      \* (fault)
nxt_carry_0(r) == IF restart(r) THEN r.load_period.lo = 0 ELSE r.count.lo = 1
nxt_carry_1(r) == /\ nxt_carry_0(r)
                  /\ r.ctrl.size => ~carry_msb(r) /\ high_count(r) = 0
nxt_carry(r)   == [c0 |-> nxt_carry_0(r), c1 |-> nxt_carry_1(r)]

int_clr_t_unheld(r) == r.int_clr_pulse_t                       \* (fault)
int_clr_t(r)  == r.int_clr_pulse_t \/ (carry_msb(r) /\ r.int_clr_reg_t)

nxt_raw_intfrc(r) == (carry_msb(r) \/ r.raw_intfrc) /\ ~int_clr_t(r)

\* The interrupt.
read_raw_intfrc(r) == r.raw_intfrc /\ ~int_clr_t(r)
i_frc_int(r)       == read_raw_intfrc(r) /\ r.ctrl.inten

Setups == [op : {"none", "INTCLR"}] \cup [op : {"LOAD", "BGLOAD"}, word : Word]
            \cup [op : {"CTRL"}, ctrl : Ctrl]
NoSetup       == [op |-> "none"]
Load(w)       == [op |-> "LOAD", word |-> w]
LoadBg(w)     == [op |-> "BGLOAD", word |-> w]
Control(c)    == [op |-> "CTRL", ctrl |-> c]
IntClr        == [op |-> "INTCLR"]

\* The registers after an edge at which b is in its setup phase.
Edge(r, b) ==
  [ctrl            |-> IF b.op = "CTRL" THEN b.ctrl ELSE r.ctrl,
   load_val        |-> IF b.op = "LOAD" THEN b.word ELSE r.load_val,
   load_period     |-> IF b.op \in {"LOAD", "BGLOAD"} THEN b.word ELSE r.load_period,
   load_en_reg     |-> b.op = "LOAD",
   load_req_t      |-> load_tog_en(r),
   prescale_cnt    |-> nxt_prescale(r),
   stop_reg        |-> stop1shot(r),
   count           |-> IF count_en(r) THEN count_mux_1(r) ELSE r.count,
   carry           |-> IF count_en(r) THEN nxt_carry(r) ELSE r.carry,
   int_clr_pulse_t |-> b.op = "INTCLR" /\ ~int_clr_t(r),
   int_clr_reg_t   |-> int_clr_t(r),
   raw_intfrc      |-> nxt_raw_intfrc(r)]

Reset1 == [ctrl |-> [en |-> FALSE, mode |-> FALSE, inten |-> TRUE, pre |-> 0,
                     size |-> FALSE, one_shot |-> FALSE],
           load_val |-> Zero, load_period |-> Zero,
           load_en_reg |-> FALSE, load_req_t |-> FALSE,
           prescale_cnt |-> 0, stop_reg |-> FALSE,
           count |-> AllOnes, carry |-> [c0 |-> FALSE, c1 |-> FALSE],
           int_clr_pulse_t |-> FALSE, int_clr_reg_t |-> FALSE,
           raw_intfrc |-> FALSE]

-----------------------------------------------------------------------------
(* The pair, one edge of PCLK at a time.                                   *)

TIMINTC == \E t \in Timers : IF itcr THEN t \in itop ELSE i_frc_int(frc[t])

Init == /\ frc = [t \in Timers |-> Reset1]
        /\ itcr = FALSE /\ itop = {}
        /\ access = FALSE

\* An access to the registers of timer t begins.
Setup(t, b) ==
  /\ ~access /\ access' = TRUE
  /\ frc' = [u \in Timers |-> Edge(frc[u], IF u = t THEN b ELSE NoSetup)]

Counts == frc' = [u \in Timers |-> Edge(frc[u], NoSetup)]

WriteTimer(t, b) == Setup(t, b) /\ UNCHANGED <<itcr, itop>>
WriteItcr(b) == ~access /\ access' = TRUE /\ Counts /\ itcr' = b /\ UNCHANGED itop
WriteItop(T) == ~access /\ access' = TRUE /\ Counts /\ itop' = T /\ UNCHANGED itcr
OtherAccess  == ~access /\ access' = TRUE /\ Counts /\ UNCHANGED <<itcr, itop>>
NoAccess     == access' = FALSE /\ Counts /\ UNCHANGED <<itcr, itop>>

WriteLoad   == \E t \in Accessed, w \in LoadValues : WriteTimer(t, Load(w))
WriteLoadBg == \E t \in Accessed, w \in LoadValues : WriteTimer(t, LoadBg(w))
WriteCtrl   == \E t \in Accessed, c \in CtrlValues : WriteTimer(t, Control(c))
WriteIntClr == \E t \in Accessed : WriteTimer(t, IntClr)
WriteTest   == \E b \in ItcrValues : WriteItcr(b)
WriteTestOutputs == \E T \in ItopValues : WriteItop(T)

Next == \/ NoAccess \/ OtherAccess
        \/ WriteLoad \/ WriteLoadBg \/ WriteCtrl \/ WriteIntClr
        \/ WriteTest \/ WriteTestOutputs

Spec == Init /\ [][Next]_vars

-----------------------------------------------------------------------------
TypeOK == /\ frc \in [Timers -> Frc]
          /\ itcr \in BOOLEAN /\ itop \in SUBSET Timers
          /\ access \in BOOLEAN

\* The carries, computed an edge ahead from the count, the loads and the
\* mode, say what the count is: the low halfword is zero exactly when its
\* carry is up, and a load takes the value whose carry was computed
\* (frc.v:371-429; a load that overtakes a background load would break it).
Matches(r) ==
  /\ r.carry.c0 <=> r.count.lo = 0
  /\ r.carry.c1 => r.carry.c0
  /\ r.load_en_reg \/ r.load_req_t => r.load_val = r.load_period
  /\ r.load_en_reg => ~r.load_req_t
CarriesMatchCount ==
  \A t \in Timers : Matches(frc[t]) /\ (frc[t].load_en_reg => access)
=============================================================================
