------------------------------ MODULE Watchdog ------------------------------
(***************************************************************************)
(* The APB watchdog: cmsdk_apb_watchdog.v (lock, integration-test and read *)
(* registers) around cmsdk_apb_watchdog_frc.v (the free-running counter,   *)
(* its interrupt and its reset request).                                   *)
(*                                                                         *)
(* The block has two clocks.  A step of this specification is an instant   *)
(* at which one of them, or both, have a rising edge; every register takes *)
(* its next value from the values before the edge.  WDOGCLK edges with     *)
(* WDOGCLKEN low change nothing and are stuttering steps.                  *)
(*                                                                         *)
(* The counter is two halfwords with registered carries, as in the RTL;    *)
(* a 32-bit word is [hi, lo] with halfwords in 0 .. Half - 1 (2^16 there). *)
(***************************************************************************)
EXTENDS Integers

CONSTANTS
  Half,        \* number of values of a halfword (2^16 in the RTL)
  LoadValues,  \* the words software writes to WDOGLOAD
  ItcrValues,  \* the values software writes to WDOGITCR
  ItopValues,  \* the values software writes to WDOGITOP
  ReadRegisters \* the registers software reads

Halfword == 0 .. Half - 1
Word     == [hi : Halfword, lo : Halfword]
Control  == [inten : BOOLEAN, resen : BOOLEAN]
Outputs  == [int : BOOLEAN, res : BOOLEAN]
Registers == {"LOAD", "VALUE", "CTRL", "RIS", "MIS", "LOCK", "ITCR"}

ASSUME HalfAssumption == Half \in Nat /\ Half >= 4
ASSUME WriteAssumption == /\ LoadValues \subseteq Word
                          /\ ItcrValues \subseteq BOOLEAN
                          /\ ItopValues \subseteq Outputs
                          /\ ReadRegisters \subseteq Registers

VARIABLES
  \* PCLK domain
  access,           \* PENABLE: the access phase of an APB transfer
  prdata,           \* i_prdata, the registered read data
  wdog_lock,        \* TRUE: registers are write protected
  wdog_itcr,        \* integration test mode
  wdog_itop,        \* [int, res]: outputs in integration test mode
  wdog_control,     \* [inten, resen]
  wdog_load,        \* WDOGLOAD
  load_en_reg,      \* WDOGLOAD was written at the last PCLK edge
  load_req_tog_p,   \* load request toggle
  int_clr_tog_p,    \* interrupt clear toggle
  \* WDOGCLK domain
  wdog_int_en_reg,  \* INTEN at the last WDOGCLK edge
  load_req_tog_w,   \* load_req_tog_p at the last WDOGCLK edge
  reg_count,        \* the counter
  reg_carry,        \* [c0, c1]: decrement carries of the two halfwords
  count_stop_reg,   \* counter stopped by a reset request
  int_clr_tog_w,    \* int_clr_tog_p at the last WDOGCLK edge
  int_clr_reg_w,    \* int_clr_w at the last WDOGCLK edge
  wdog_ris,         \* raw interrupt
  i_wdog_res        \* reset request

busVars  == <<access, prdata>>
regVars  == <<wdog_lock, wdog_itcr, wdog_itop, wdog_control, wdog_load,
              int_clr_tog_p>>
reqVars  == <<load_en_reg, load_req_tog_p>>
wdogVars == <<wdog_int_en_reg, load_req_tog_w, reg_count, reg_carry,
              count_stop_reg, int_clr_tog_w, int_clr_reg_w, wdog_ris,
              i_wdog_res>>
pclkVars == <<busVars, regVars, reqVars>>
vars     == <<pclkVars, wdogVars>>

-----------------------------------------------------------------------------
(* Combinational signals.  Definitions marked (fault) are plausible errors *)
(* in the one that follows them; each shows that a property would see it.  *)

Zero    == [hi |-> 0, lo |-> 0]
AllOnes == [hi |-> Half - 1, lo |-> Half - 1]
Val(w)  == w.hi * Half + w.lo
DecWithoutWrap(h) == h - 1                              \* (fault)
Dec(h)  == IF h = 0 THEN Half - 1 ELSE h - 1

wdog_int_en      == wdog_control.inten
wdog_res_en      == wdog_control.resen
wdog_int_en_rise == wdog_int_en /\ ~wdog_int_en_reg
carry_msb        == reg_carry.c1

\* High from the PCLK edge that toggles the request to the next WDOGCLK edge.
load_req_w    == load_req_tog_p # load_req_tog_w
int_clr_pulse == int_clr_tog_p # int_clr_tog_w

\* The clear is held until the counter has left zero.
int_clr_w == int_clr_pulse \/ (carry_msb /\ int_clr_reg_w)

\* The counter takes WDOGLOAD instead of counting.
reload == load_req_w \/ carry_msb \/ wdog_int_en_rise \/ int_clr_w

count_stop_deaf_to_load == i_wdog_res \/ count_stop_reg   \* (fault)
count_stop == i_wdog_res \/ (~load_req_w /\ count_stop_reg)
count_en   == (wdog_int_en /\ ~count_stop) \/ load_req_w

nxt_count_without_borrow ==                              \* (fault)
  [hi |-> reg_count.hi, lo |-> Dec(reg_count.lo)]
nxt_count   == [hi |-> IF reg_carry.c0 THEN Dec(reg_count.hi) ELSE reg_count.hi,
                lo |-> Dec(reg_count.lo)]
count_mux1  == IF reload THEN wdog_load ELSE nxt_count
high_count  == IF reload THEN wdog_load.hi ELSE reg_count.hi
nxt_carry_0_one_late ==                                  \* (fault)
  IF reload THEN wdog_load.lo = 0 ELSE reg_count.lo = 0
nxt_carry_0 == IF reload THEN wdog_load.lo = 0 ELSE reg_count.lo = 1
nxt_carry_1 == high_count = 0 /\ nxt_carry_0 /\ ~carry_msb

nxt_wdog_ris == (carry_msb \/ wdog_ris) /\ ~int_clr_w
nxt_wdog_res_at_first_timeout ==                         \* (fault)
  wdog_res_en /\ (carry_msb \/ i_wdog_res)
nxt_wdog_res == wdog_res_en /\ ((wdog_ris /\ carry_msb) \/ i_wdog_res)

count_read    == IF load_req_w THEN wdog_load ELSE reg_count
read_wdog_ris == wdog_ris /\ ~int_clr_w
wdog_mis      == read_wdog_ris /\ wdog_int_en

WDOGINT == IF wdog_itcr THEN wdog_itop.int ELSE wdog_mis
WDOGRES == IF wdog_itcr THEN wdog_itop.res ELSE i_wdog_res

-----------------------------------------------------------------------------
Init ==
  /\ access = FALSE
  /\ prdata = Zero
  /\ wdog_lock = FALSE
  /\ wdog_itcr = FALSE
  /\ wdog_itop = [int |-> FALSE, res |-> FALSE]
  /\ wdog_control = [inten |-> FALSE, resen |-> FALSE]
  /\ wdog_load = AllOnes
  /\ load_en_reg = FALSE
  /\ load_req_tog_p = FALSE
  /\ int_clr_tog_p = FALSE
  /\ wdog_int_en_reg = FALSE
  /\ load_req_tog_w = FALSE
  /\ reg_count = AllOnes
  /\ reg_carry = [c0 |-> FALSE, c1 |-> FALSE]
  /\ count_stop_reg = FALSE
  /\ int_clr_tog_w = FALSE
  /\ int_clr_reg_w = FALSE
  /\ wdog_ris = FALSE
  /\ i_wdog_res = FALSE

-----------------------------------------------------------------------------
(* The PCLK domain.  An APB access is a setup edge (PENABLE low), at which *)
(* a write takes effect or the read data are sampled, and an access edge.  *)

Bits(b1, b0) == [hi |-> 0, lo |-> (IF b1 THEN 2 ELSE 0) + (IF b0 THEN 1 ELSE 0)]

RegValue ==
  [r \in Registers |->
     CASE r = "LOAD"  -> wdog_load
       [] r = "VALUE" -> count_read
       [] r = "CTRL"  -> Bits(wdog_res_en, wdog_int_en)
       [] r = "RIS"   -> Bits(FALSE, read_wdog_ris)
       [] r = "MIS"   -> Bits(FALSE, wdog_mis)
       [] r = "LOCK"  -> Bits(FALSE, wdog_lock)
       [] r = "ITCR"  -> Bits(FALSE, wdog_itcr)]

\* load_en_reg follows the decoded WDOGLOAD write by one edge; it toggles the
\* request unless one is pending.
LoadRequestWhilePending(load_en) ==                      \* (fault)
  /\ load_en_reg' = load_en
  /\ load_req_tog_p' = IF load_en_reg THEN ~load_req_tog_p ELSE load_req_tog_p
LoadRequest(load_en) ==
  /\ load_en_reg' = load_en
  /\ load_req_tog_p' = IF load_en_reg /\ ~load_req_w
                         THEN ~load_req_tog_p ELSE load_req_tog_p

\* A setup edge that writes; every register but the lock is write protected.
WriteSetup == ~access /\ access' = TRUE /\ prdata' = Zero

WriteLoad(w) ==
  /\ WriteSetup
  /\ LoadRequest(~wdog_lock)
  /\ wdog_load' = IF wdog_lock THEN wdog_load ELSE w
  /\ UNCHANGED <<wdog_lock, wdog_itcr, wdog_itop, wdog_control, int_clr_tog_p>>

WriteCtrl(c) ==
  /\ WriteSetup
  /\ LoadRequest(FALSE)
  /\ wdog_control' = IF wdog_lock THEN wdog_control ELSE c
  /\ UNCHANGED <<wdog_lock, wdog_itcr, wdog_itop, wdog_load, int_clr_tog_p>>

\* A clear while one is pending is absorbed by it.
WriteIntClr ==
  /\ WriteSetup
  /\ LoadRequest(FALSE)
  /\ int_clr_tog_p' = IF wdog_lock \/ int_clr_w
                        THEN int_clr_tog_p ELSE ~int_clr_tog_p
  /\ UNCHANGED <<wdog_lock, wdog_itcr, wdog_itop, wdog_control, wdog_load>>

\* unlock: the value written is the key 0x1ACCE551.
WriteLock(unlock) ==
  /\ WriteSetup
  /\ LoadRequest(FALSE)
  /\ wdog_lock' = ~unlock
  /\ UNCHANGED <<wdog_itcr, wdog_itop, wdog_control, wdog_load, int_clr_tog_p>>

WriteItcr(b) ==
  /\ WriteSetup
  /\ LoadRequest(FALSE)
  /\ wdog_itcr' = IF wdog_lock THEN wdog_itcr ELSE b
  /\ UNCHANGED <<wdog_lock, wdog_itop, wdog_control, wdog_load, int_clr_tog_p>>

WriteItop(o) ==
  /\ WriteSetup
  /\ LoadRequest(FALSE)
  /\ wdog_itop' = IF wdog_lock THEN wdog_itop ELSE o
  /\ UNCHANGED <<wdog_lock, wdog_itcr, wdog_control, wdog_load, int_clr_tog_p>>

Read(r) ==
  /\ ~access /\ access' = TRUE
  /\ prdata' = RegValue[r]
  /\ LoadRequest(FALSE)
  /\ UNCHANGED regVars

\* The access edge, or an edge at which the block is not selected.
NoSetup ==
  /\ access' = FALSE
  /\ prdata' = Zero
  /\ LoadRequest(FALSE)
  /\ UNCHANGED regVars

PclkEdge ==
  \/ \E w \in LoadValues : WriteLoad(w)
  \/ \E c \in Control : WriteCtrl(c)
  \/ WriteIntClr
  \/ \E unlock \in BOOLEAN : WriteLock(unlock)
  \/ \E b \in ItcrValues : WriteItcr(b)
  \/ \E o \in ItopValues : WriteItop(o)
  \/ \E r \in ReadRegisters : Read(r)
  \/ NoSetup

-----------------------------------------------------------------------------
(* The WDOGCLK domain, at an edge with WDOGCLKEN high.                     *)

WdogEdge ==
  /\ wdog_int_en_reg' = wdog_int_en
  /\ load_req_tog_w'  = load_req_tog_p
  /\ count_stop_reg'  = count_stop
  /\ reg_count'       = IF count_en THEN count_mux1 ELSE reg_count
  /\ reg_carry'       = IF count_en THEN [c0 |-> nxt_carry_0, c1 |-> nxt_carry_1]
                                    ELSE reg_carry
  /\ int_clr_tog_w'   = int_clr_tog_p
  /\ int_clr_reg_w'   = int_clr_w
  /\ wdog_ris'        = nxt_wdog_ris
  /\ i_wdog_res'      = nxt_wdog_res

Pclk == PclkEdge /\ UNCHANGED wdogVars
Wdog == WdogEdge /\ UNCHANGED pclkVars
Both == PclkEdge /\ WdogEdge

\* PRESETn and WDOGRESn, both driven by reg_sys_rst_n.
Reset ==
  /\ access' = FALSE /\ prdata' = Zero
  /\ wdog_lock' = FALSE
  /\ wdog_itcr' = FALSE
  /\ wdog_itop' = [int |-> FALSE, res |-> FALSE]
  /\ wdog_control' = [inten |-> FALSE, resen |-> FALSE]
  /\ wdog_load' = AllOnes
  /\ load_en_reg' = FALSE /\ load_req_tog_p' = FALSE /\ int_clr_tog_p' = FALSE
  /\ wdog_int_en_reg' = FALSE
  /\ load_req_tog_w' = FALSE
  /\ reg_count' = AllOnes
  /\ reg_carry' = [c0 |-> FALSE, c1 |-> FALSE]
  /\ count_stop_reg' = FALSE
  /\ int_clr_tog_w' = FALSE /\ int_clr_reg_w' = FALSE
  /\ wdog_ris' = FALSE
  /\ i_wdog_res' = FALSE

Next == Pclk \/ Wdog \/ Both \/ Reset

Spec == Init /\ [][Next]_vars

-----------------------------------------------------------------------------
TypeOK ==
  /\ access \in BOOLEAN
  /\ prdata \in Word
  /\ wdog_lock \in BOOLEAN
  /\ wdog_itcr \in BOOLEAN
  /\ wdog_itop \in Outputs
  /\ wdog_control \in Control
  /\ wdog_load \in Word
  /\ load_en_reg \in BOOLEAN
  /\ load_req_tog_p \in BOOLEAN
  /\ int_clr_tog_p \in BOOLEAN
  /\ wdog_int_en_reg \in BOOLEAN
  /\ load_req_tog_w \in BOOLEAN
  /\ reg_count \in Word
  /\ reg_carry \in [c0 : BOOLEAN, c1 : BOOLEAN]
  /\ count_stop_reg \in BOOLEAN
  /\ int_clr_tog_w \in BOOLEAN
  /\ int_clr_reg_w \in BOOLEAN
  /\ wdog_ris \in BOOLEAN
  /\ i_wdog_res \in BOOLEAN

\* The registered carries announce the borrow of the low halfword and the end
\* of the count one tick ahead of the comparison that a single 32-bit counter
\* would make, in whatever order loads, clears and enables arrive.
CarriesMatchCount ==
  /\ reg_carry.c0 <=> reg_count.lo = 0
  /\ reg_carry.c1  => reg_count = Zero

\* The two halfword counters are one down counter: a step leaves the count,
\* takes the load value, subtracts one from the whole word, or is the reset.
Pred(w) == [hi |-> IF w.lo = 0 THEN Dec(w.hi) ELSE w.hi, lo |-> Dec(w.lo)]
OneCounter ==
  [][reg_count' \in {reg_count, wdog_load, Pred(reg_count), AllOnes}]_vars
=============================================================================
