--------------------------- MODULE WatchdogProofs ---------------------------
(***************************************************************************)
(* Proofs about the watchdog for every halfword size and every set of      *)
(* values that software writes.  The inductive invariant is TypeOK with    *)
(* CarriesMatchCount: the next count is chosen by the registered carries,  *)
(* so what a step does to the count follows only from what they mean.  On  *)
(* it rest the refinement of WatchdogTimer and the service window.         *)
(***************************************************************************)
EXTENDS WatchdogRefinement, WatchdogHistory, WatchdogDemo, SequenceTheorems, TLAPS

LEMMA WordFacts ==
  /\ Zero \in Word /\ AllOnes \in Word
  /\ \A h \in Halfword : Dec(h) \in Halfword /\ (Dec(h) = 0 <=> h = 1)
  /\ \A b1, b0 \in BOOLEAN : Bits(b1, b0) \in Word
<1>1. Zero \in Word /\ AllOnes \in Word
  BY HalfAssumption DEF Zero, AllOnes, Word, Halfword
<1>2. \A h \in Halfword : Dec(h) \in Halfword /\ (Dec(h) = 0 <=> h = 1)
  BY HalfAssumption DEF Dec, Halfword
<1>3. \A b1, b0 \in BOOLEAN : Bits(b1, b0) \in Word
  BY HalfAssumption DEF Bits, Word, Halfword
<1> QED BY <1>1, <1>2, <1>3

LEMMA ReadsAreWords == TypeOK => \A r \in Registers : RegValue[r] \in Word
<1> SUFFICES ASSUME TypeOK, NEW r \in Registers PROVE RegValue[r] \in Word
  OBVIOUS
<1>1. /\ wdog_load \in Word /\ count_read \in Word
      /\ wdog_res_en \in BOOLEAN /\ wdog_int_en \in BOOLEAN
      /\ read_wdog_ris \in BOOLEAN /\ wdog_mis \in BOOLEAN
      /\ wdog_lock \in BOOLEAN /\ wdog_itcr \in BOOLEAN
  BY DEF TypeOK, count_read, wdog_res_en, wdog_int_en, read_wdog_ris, wdog_mis, Control
<1> QED BY <1>1, WordFacts DEF RegValue, Registers

\* A PCLK edge keeps the types of its own registers, whatever is written.
AnyPclkEdge ==
  \/ \E w \in Word : WriteLoad(w)
  \/ \E c \in Control : WriteCtrl(c)
  \/ WriteIntClr
  \/ \E unlock \in BOOLEAN : WriteLock(unlock)
  \/ \E b \in BOOLEAN : WriteItcr(b)
  \/ \E o \in Outputs : WriteItop(o)
  \/ \E r \in Registers : Read(r)
  \/ NoSetup

LEMMA PclkIsAny == PclkEdge => AnyPclkEdge
BY WriteAssumption DEF PclkEdge, AnyPclkEdge

LEMMA PclkTypes ==
  ASSUME TypeOK, AnyPclkEdge
  PROVE  /\ access' \in BOOLEAN /\ prdata' \in Word
         /\ wdog_lock' \in BOOLEAN /\ wdog_itcr' \in BOOLEAN
         /\ wdog_itop' \in Outputs /\ wdog_control' \in Control
         /\ wdog_load' \in Word
         /\ load_en_reg' \in BOOLEAN /\ load_req_tog_p' \in BOOLEAN
         /\ int_clr_tog_p' \in BOOLEAN
<1>0. \A r \in Registers : RegValue[r] \in Word
  BY ReadsAreWords
<1> USE WordFacts DEF TypeOK, LoadRequest, WriteSetup
<1>1. CASE \E w \in Word : WriteLoad(w)
  BY <1>1 DEF WriteLoad
<1>2. CASE \E c \in Control : WriteCtrl(c)
  BY <1>2 DEF WriteCtrl
<1>3. CASE WriteIntClr
  BY <1>3 DEF WriteIntClr
<1>4. CASE \E unlock \in BOOLEAN : WriteLock(unlock)
  BY <1>4 DEF WriteLock
<1>5. CASE \E b \in BOOLEAN : WriteItcr(b)
  BY <1>5 DEF WriteItcr
<1>6. CASE \E o \in Outputs : WriteItop(o)
  BY <1>6 DEF WriteItop
<1>7. CASE \E r \in Registers : Read(r)
  <2>1. PICK r \in Registers : Read(r)
    BY <1>7
  <2>2. prdata' \in Word
    BY <2>1, <1>0 DEF Read
  <2> QED BY <2>1, <2>2 DEF Read, regVars
<1>8. CASE NoSetup
  BY <1>8 DEF NoSetup, regVars
<1> QED BY <1>1, <1>2, <1>3, <1>4, <1>5, <1>6, <1>7, <1>8 DEF AnyPclkEdge

\* A WDOGCLK edge keeps the types of its registers.
LEMMA WdogTypes ==
  ASSUME TypeOK, WdogEdge
  PROVE  /\ wdog_int_en_reg' \in BOOLEAN /\ load_req_tog_w' \in BOOLEAN
         /\ reg_count' \in Word /\ reg_carry' \in [c0 : BOOLEAN, c1 : BOOLEAN]
         /\ count_stop_reg' \in BOOLEAN
         /\ int_clr_tog_w' \in BOOLEAN /\ int_clr_reg_w' \in BOOLEAN
         /\ wdog_ris' \in BOOLEAN /\ i_wdog_res' \in BOOLEAN
<1>1. count_mux1 \in Word
  BY WordFacts DEF TypeOK, count_mux1, nxt_count, Word
<1>2. /\ nxt_carry_0 \in BOOLEAN /\ nxt_carry_1 \in BOOLEAN
      /\ wdog_int_en \in BOOLEAN /\ count_stop \in BOOLEAN
      /\ int_clr_w \in BOOLEAN
      /\ nxt_wdog_ris \in BOOLEAN /\ nxt_wdog_res \in BOOLEAN
  BY DEF TypeOK, nxt_carry_0, nxt_carry_1, wdog_int_en, Control, count_stop,
         int_clr_w, int_clr_pulse, load_req_w, nxt_wdog_ris, nxt_wdog_res,
         carry_msb, wdog_res_en
<1> QED BY <1>1, <1>2 DEF TypeOK, WdogEdge

\* Every register keeps its type through every interleaving of the two clocks
\* and the reset.
THEOREM TypeCorrect == Spec => []TypeOK
<1>1. Init => TypeOK
  <2>1. /\ [int |-> FALSE, res |-> FALSE] \in Outputs
        /\ [inten |-> FALSE, resen |-> FALSE] \in Control
        /\ [c0 |-> FALSE, c1 |-> FALSE] \in [c0 : BOOLEAN, c1 : BOOLEAN]
    BY DEF Outputs, Control
  <2> QED BY <2>1, WordFacts DEF Init, TypeOK
<1>2. TypeOK /\ [Next]_vars => TypeOK'
  <2> SUFFICES ASSUME TypeOK, [Next]_vars PROVE TypeOK'
    OBVIOUS
  <2>1. CASE Pclk
    BY <2>1, PclkIsAny, PclkTypes DEF Pclk, TypeOK, wdogVars
  <2>2. CASE Wdog
    BY <2>2, WdogTypes DEF Wdog, TypeOK, pclkVars, busVars, regVars, reqVars
  <2>3. CASE Both
    BY <2>3, PclkIsAny, PclkTypes, WdogTypes DEF Both, TypeOK
  <2>4. CASE Reset
    BY <2>4, WordFacts DEF Reset, TypeOK, Outputs, Control
  <2>5. CASE UNCHANGED vars
    BY <2>5 DEF vars, pclkVars, busVars, regVars, reqVars, wdogVars, TypeOK
  <2> QED BY <2>1, <2>2, <2>3, <2>4, <2>5 DEF Next
<1> QED BY <1>1, <1>2, PTL DEF Spec

-----------------------------------------------------------------------------
\* What one edge of WDOGCLK does to the counter and its carries: the carries
\* computed for the next count are those that the next count shows.
LEMMA TickCount ==
  ASSUME TypeOK, CarriesMatchCount, WdogEdge
  PROVE  /\ reg_count' \in {reg_count, wdog_load, Pred(reg_count)}
         /\ CarriesMatchCount'
<1>1. CASE ~count_en
  BY <1>1 DEF WdogEdge, CarriesMatchCount
<1>2. CASE count_en /\ reload
  <2>1. /\ reg_count' = wdog_load
        /\ reg_carry'.c0 = (wdog_load.lo = 0)
        /\ reg_carry'.c1 = (wdog_load.hi = 0 /\ wdog_load.lo = 0 /\ ~carry_msb)
    BY <1>2 DEF WdogEdge, count_mux1, nxt_carry_0, nxt_carry_1, high_count
  <2> QED BY <2>1 DEF CarriesMatchCount, Zero, TypeOK, Word
<1>3. CASE count_en /\ ~reload
  <2>1. /\ reg_count' = [hi |-> IF reg_carry.c0 THEN Dec(reg_count.hi) ELSE reg_count.hi,
                         lo |-> Dec(reg_count.lo)]
        /\ reg_carry'.c0 = (reg_count.lo = 1)
        /\ reg_carry'.c1 = (reg_count.hi = 0 /\ reg_count.lo = 1 /\ ~carry_msb)
    BY <1>3 DEF WdogEdge, count_mux1, nxt_count, nxt_carry_0, nxt_carry_1, high_count
  <2>2. reg_count' = Pred(reg_count)
    BY <2>1 DEF Pred, CarriesMatchCount
  <2>3. reg_count.lo \in Halfword /\ reg_count.hi \in Halfword
    BY DEF TypeOK, Word
  <2>4. reg_carry'.c0 <=> reg_count'.lo = 0
    BY <2>1, <2>3, WordFacts
  <2>5. ASSUME reg_carry'.c1 PROVE reg_count' = Zero
    <3>1. reg_count.hi = 0 /\ reg_count.lo = 1
      BY <2>1, <2>5
    <3>2. ~reg_carry.c0
      BY <3>1 DEF CarriesMatchCount
    <3>3. Dec(reg_count.lo) = 0
      BY <3>1, <2>3, WordFacts
    <3> QED BY <2>1, <3>1, <3>2, <3>3 DEF Zero
  <2> QED BY <2>2, <2>4, <2>5 DEF CarriesMatchCount
<1> QED BY <1>1, <1>2, <1>3

\* One step, whatever its kind.
LEMMA CounterStep ==
  ASSUME TypeOK, CarriesMatchCount, [Next]_vars
  PROVE  /\ reg_count' \in {reg_count, wdog_load, Pred(reg_count), AllOnes}
         /\ CarriesMatchCount'
<1>1. CASE Wdog \/ Both
  BY <1>1, TickCount DEF Wdog, Both
<1>2. CASE Pclk \/ UNCHANGED vars
  BY <1>2 DEF Pclk, vars, wdogVars, CarriesMatchCount
<1>3. CASE Reset
  BY <1>3, HalfAssumption DEF Reset, CarriesMatchCount, AllOnes
<1> QED BY <1>1, <1>2, <1>3 DEF Next

\* The registered carries always match the count.
THEOREM CarriesCorrect == Spec => []CarriesMatchCount
<1>1. Init => CarriesMatchCount
  BY HalfAssumption DEF Init, CarriesMatchCount, AllOnes
<1>2. TypeOK /\ CarriesMatchCount /\ [Next]_vars => CarriesMatchCount'
  BY CounterStep
<1> QED BY <1>1, <1>2, TypeCorrect, PTL DEF Spec

\* The split counter is one down counter of two halfwords of any size.
THEOREM OneCounterCorrect == Spec => OneCounter
<1>1. TypeOK /\ CarriesMatchCount /\ [Next]_vars
        => [reg_count' \in {reg_count, wdog_load, Pred(reg_count), AllOnes}]_vars
  BY CounterStep
<1> QED BY <1>1, TypeCorrect, CarriesCorrect, PTL DEF Spec, OneCounter

-----------------------------------------------------------------------------
(* The refinement of WatchdogTimer.                                        *)

\* A load request is made in the access phase of the write.
LoadsInAccess == load_en_reg => access

LEMMA PclkLoads == ASSUME LoadsInAccess, PclkEdge PROVE LoadsInAccess'
  BY DEF LoadsInAccess, PclkEdge, WriteLoad, WriteCtrl, WriteIntClr, WriteLock, WriteItcr,
         WriteItop, Read, NoSetup, WriteSetup, LoadRequest

LEMMA LoadsOnlyInAccess == Spec => []LoadsInAccess
<1>1. Init => LoadsInAccess
  BY DEF Init, LoadsInAccess
<1>2. LoadsInAccess /\ [Next]_vars => LoadsInAccess'
  BY PclkLoads
  DEF Next, Pclk, Wdog, Both, Reset, vars, pclkVars, busVars, reqVars, LoadsInAccess
<1> QED BY <1>1, <1>2, PTL DEF Spec

\* A word as a number.
LEMMA WordValue ==
  ASSUME NEW w \in Word
  PROVE  /\ Val(w) \in 0 .. Half * Half - 1
         /\ (Val(w) = 0 <=> w = Zero)
         /\ Val(Pred(w)) = IF w = Zero THEN Half * Half - 1 ELSE Val(w) - 1
<1>1. w.hi \in 0 .. Half - 1 /\ w.lo \in 0 .. Half - 1 /\ w = [hi |-> w.hi, lo |-> w.lo]
      /\ Half \in Nat /\ Half >= 4
  BY HalfAssumption DEF Word, Halfword
<1>2. Val(w) = w.hi * Half + w.lo
  BY DEF Val
<1>3. /\ (Half - 1 - w.hi) * Half >= 0 /\ w.hi * Half >= 0
      /\ (Half - 1 - w.hi) * Half = Half * Half - Half - w.hi * Half
      /\ w.hi > 0 => w.hi * Half >= Half
      /\ w.hi * Half \in Int /\ Half * Half \in Int
  BY <1>1
<1>4. Val(w) \in 0 .. Half * Half - 1
  BY <1>1, <1>2, <1>3
<1>5. w = Zero <=> w.hi = 0 /\ w.lo = 0
  BY <1>1 DEF Zero
<1>6. Val(w) = 0 <=> w.hi = 0 /\ w.lo = 0
  BY <1>1, <1>2, <1>3
<1>7. Val(Pred(w)) = IF w = Zero THEN Half * Half - 1 ELSE Val(w) - 1
  <2>1. CASE w.lo # 0
    BY <1>1, <1>2, <1>5, <2>1 DEF Pred, Dec, Val
  <2>2. CASE w.lo = 0 /\ w.hi # 0
    <3>1. Val(Pred(w)) = (w.hi - 1) * Half + (Half - 1)
      BY <1>1, <2>2 DEF Pred, Dec, Val
    <3>2. (w.hi - 1) * Half = w.hi * Half - Half
      BY <1>1
    <3> QED BY <1>1, <1>2, <1>3, <1>5, <2>2, <3>1, <3>2
  <2>3. CASE w.lo = 0 /\ w.hi = 0
    <3>1. Val(Pred(w)) = (Half - 1) * Half + (Half - 1)
      BY <1>1, <2>3 DEF Pred, Dec, Val
    <3>2. (Half - 1) * Half = Half * Half - Half
      BY <1>1
    <3> QED BY <1>1, <1>3, <1>5, <2>3, <3>1, <3>2
  <2> QED BY <2>1, <2>2, <2>3
<1> QED BY <1>4, <1>5, <1>6, <1>7

\* Counting down modulo n + 1.
LEMMA DownModulo ==
  ASSUME NEW n \in Nat, NEW v \in 0 .. n
  PROVE  (v + n) % (n + 1) = IF v = 0 THEN n ELSE v - 1
  OBVIOUS

\* An edge of WDOGCLK is a tick, which takes a load that is requested.
LEMMA TickImplements ==
  ASSUME TypeOK, CarriesMatchCount, WdogEdge
  PROVE  Timer!Tick(load_req_w)
<1>0. /\ reg_count \in Word /\ wdog_load \in Word /\ carry_msb \in BOOLEAN
      /\ carry_msb' = reg_carry'.c1
      /\ Half * Half - 1 \in Nat
  <2>1. Half * Half \in Nat /\ Half * Half >= 1
    BY HalfAssumption
  <2> QED BY <2>1 DEF TypeOK, carry_msb
<1> DEFINE halt == i_wdog_res \/ (~load_req_w /\ count_stop_reg)
           moves == (wdog_control.inten /\ ~halt) \/ load_req_w
           restart == load_req_w \/ carry_msb \/ int_clr_w
                        \/ (wdog_control.inten /\ ~wdog_int_en_reg)
<1>1. halt = count_stop /\ moves = count_en /\ restart = reload
  BY DEF count_stop, count_en, wdog_int_en, reload, wdog_int_en_rise
<1>2. reg_count' = IF ~count_en THEN reg_count ELSE IF reload THEN wdog_load ELSE Pred(reg_count)
  BY DEF WdogEdge, count_mux1, nxt_count, CarriesMatchCount, Pred
<1>3. Val(reg_count') = CASE ~moves            -> Val(reg_count)
                          [] moves /\ restart  -> Val(wdog_load)
                          [] moves /\ ~restart ->
                               (Val(reg_count) + (Half * Half - 1)) % ((Half * Half - 1) + 1)
  <2>1. (Val(reg_count) + (Half * Half - 1)) % ((Half * Half - 1) + 1) = Val(Pred(reg_count))
    <3>1. Val(reg_count) \in 0 .. Half * Half - 1
      BY <1>0, WordValue
    <3>2. (Val(reg_count) + (Half * Half - 1)) % ((Half * Half - 1) + 1)
            = IF Val(reg_count) = 0 THEN Half * Half - 1 ELSE Val(reg_count) - 1
      BY <1>0, <3>1, DownModulo
    <3> QED BY <1>0, <3>2, WordValue
  <2> HIDE DEF moves, restart
  <2>2. CASE ~moves
    BY <1>1, <1>2, <2>2
  <2>3. CASE moves /\ restart
    BY <1>1, <1>2, <2>3
  <2>4. CASE moves /\ ~restart
    BY <1>1, <1>2, <2>1, <2>4
  <2> QED BY <2>2, <2>3, <2>4
<1>4. carry_msb' = IF moves THEN ~carry_msb /\ Val(reg_count') = 0 ELSE carry_msb
  <2>1. CASE ~count_en
    BY <1>0, <1>1, <2>1 DEF WdogEdge, carry_msb
  <2>2. CASE count_en /\ reload
    <3>1. carry_msb' = (wdog_load.hi = 0 /\ wdog_load.lo = 0 /\ ~carry_msb)
      BY <1>0, <2>2 DEF WdogEdge, nxt_carry_0, nxt_carry_1, high_count
    <3>2. Val(wdog_load) = 0 <=> wdog_load.hi = 0 /\ wdog_load.lo = 0
      BY <1>0, WordValue DEF Zero, Word
    <3> QED BY <1>1, <1>2, <2>2, <3>1, <3>2
  <2>3. CASE count_en /\ ~reload
    <3>1. carry_msb' = (reg_count.hi = 0 /\ reg_count.lo = 1 /\ ~carry_msb)
      BY <1>0, <2>3 DEF WdogEdge, nxt_carry_0, nxt_carry_1, high_count
    <3>2. Pred(reg_count) = Zero <=> reg_count.hi = 0 /\ reg_count.lo = 1
      <4>1. reg_count.hi \in 0 .. Half - 1 /\ reg_count.lo \in 0 .. Half - 1
        BY <1>0 DEF Word, Halfword
      <4> QED BY <4>1, HalfAssumption DEF Pred, Dec, Zero
    <3>3. Pred(reg_count) \in Word
      BY <1>0, WordFacts DEF Pred, Word
    <3>4. Val(Pred(reg_count)) = 0 <=> Pred(reg_count) = Zero
      BY <3>3, WordValue
    <3> QED BY <1>1, <1>2, <2>3, <3>1, <3>2, <3>4
  <2> QED BY <2>1, <2>2, <2>3
<1>5. /\ wdog_int_en_reg' = wdog_control.inten /\ count_stop_reg' = halt
      /\ wdog_ris' = ((carry_msb \/ wdog_ris) /\ ~int_clr_w)
      /\ i_wdog_res' = (wdog_control.resen /\ ((wdog_ris /\ carry_msb) \/ i_wdog_res))
  BY <1>1 DEF WdogEdge, wdog_int_en, nxt_wdog_ris, nxt_wdog_res, wdog_res_en
<1> QED BY <1>3, <1>4, <1>5 DEF Timer!Tick, Val

\* What an edge of PCLK that performs op does, seen from the timer, and what it
\* does to the two request toggles.
Performs(op) ==
  /\ Timer!Bus(op)
  /\ load_en_reg' = Timer!Writes(op, "load")
  /\ load_req_tog_p' = IF load_en_reg /\ ~load_req_w
                         THEN ~load_req_tog_p ELSE load_req_tog_p
  /\ int_clr_tog_p' = IF Timer!Writes(op, "clear") /\ ~int_clr_w
                        THEN ~int_clr_tog_p ELSE int_clr_tog_p

\* What software reads is what the timer shows.
LEMMA ReadsImplement ==
  ASSUME TypeOK, LoadsInAccess, ~access, NEW r \in Registers
  PROVE  IF r \in {"CTRL", "ITCR"} THEN Val(RegValue[r]) \in 0 .. 3
         ELSE r \in DOMAIN Timer!Visible /\ Val(RegValue[r]) = Timer!Visible[r]
<1>1. ASSUME NEW b1 \in BOOLEAN, NEW b0 \in BOOLEAN
      PROVE  Val(Bits(b1, b0)) = (IF b1 THEN 2 ELSE 0) + (IF b0 THEN 1 ELSE 0)
  BY HalfAssumption DEF Val, Bits
<1>2. /\ wdog_res_en \in BOOLEAN /\ wdog_int_en \in BOOLEAN
      /\ read_wdog_ris \in BOOLEAN /\ wdog_mis \in BOOLEAN
      /\ wdog_lock \in BOOLEAN /\ wdog_itcr \in BOOLEAN
  BY DEF TypeOK, Control, wdog_res_en, wdog_int_en, read_wdog_ris, wdog_mis
<1>3. ~load_en_reg
  BY DEF LoadsInAccess
<1>4. CASE r = "LOAD"
  BY <1>4 DEF RegValue, Registers, Timer!Visible
<1>5. CASE r = "VALUE"
  BY <1>3, <1>5 DEF RegValue, Registers, Timer!Visible, count_read
<1>6. CASE r = "CTRL"
  <2>1. RegValue[r] = Bits(wdog_res_en, wdog_int_en)
    BY <1>6 DEF RegValue, Registers
  <2> QED BY <1>1, <1>2, <1>6, <2>1
<1>7. CASE r = "RIS"
  <2>1. RegValue[r] = Bits(FALSE, read_wdog_ris)
    BY <1>7 DEF RegValue, Registers
  <2>2. Val(RegValue[r]) = IF read_wdog_ris THEN 1 ELSE 0
    BY <1>2, <2>1, HalfAssumption DEF Val, Bits
  <2> QED BY <1>7, <2>2 DEF Timer!Visible, read_wdog_ris
<1>8. CASE r = "MIS"
  <2>1. RegValue[r] = Bits(FALSE, wdog_mis)
    BY <1>8 DEF RegValue, Registers
  <2>2. Val(RegValue[r]) = IF wdog_mis THEN 1 ELSE 0
    BY <1>2, <2>1, HalfAssumption DEF Val, Bits
  <2> QED BY <1>8, <2>2 DEF Timer!Visible, wdog_mis, read_wdog_ris, wdog_int_en
<1>9. CASE r = "LOCK"
  <2>1. RegValue[r] = Bits(FALSE, wdog_lock)
    BY <1>9 DEF RegValue, Registers
  <2>2. Val(RegValue[r]) = IF wdog_lock THEN 1 ELSE 0
    BY <1>2, <2>1, HalfAssumption DEF Val, Bits
  <2> QED BY <1>9, <2>2 DEF Timer!Visible
<1>10. CASE r = "ITCR"
  <2>1. RegValue[r] = Bits(FALSE, wdog_itcr)
    BY <1>10 DEF RegValue, Registers
  <2> QED BY <1>2, <1>10, <2>1, HalfAssumption DEF Val, Bits
<1> QED BY <1>4, <1>5, <1>6, <1>7, <1>8, <1>9, <1>10 DEF Registers

\* An operation other than the two without an access.
LEMMA AccessOps ==
  ASSUME NEW op, op.kind \notin {"quiet", "idle"}
  PROVE  op # Timer!Quiet /\ op # Timer!Idle
  BY DEF Timer!Quiet, Timer!Idle

\* A write that the timer sees as op.
LEMMA WritesPerform ==
  ASSUME WriteSetup, NEW op,
         op.kind \in {"load", "ctrl", "lock", "clear", "other"},
         LoadRequest(op.kind = "load" /\ ~wdog_lock),
         wdog_lock' = IF op.kind = "lock" THEN ~op.value ELSE wdog_lock,
         wdog_control' = IF Timer!Writes(op, "ctrl") THEN op.value ELSE wdog_control,
         Val(wdog_load)' = IF Timer!Writes(op, "load") THEN op.value ELSE Val(wdog_load),
         int_clr_tog_p' = IF Timer!Writes(op, "clear") /\ ~int_clr_w
                            THEN ~int_clr_tog_p ELSE int_clr_tog_p
  PROVE  Performs(op)
<1>1. op # Timer!Quiet /\ op # Timer!Idle /\ op.kind # "read"
  BY AccessOps
<1>2. access' = TRUE /\ Val(prdata)' = 0
  BY HalfAssumption DEF WriteSetup, Val, Zero
<1>3. IF op.kind = "other" THEN Val(prdata)' \in 0 .. 3
      ELSE Val(prdata)' = CASE op.kind = "read" -> Timer!Visible[op.value]
                            [] op = Timer!Quiet -> Val(prdata)
                            [] OTHER            -> 0
  BY <1>1, <1>2
<1>4. Timer!Bus(op)
  BY <1>1, <1>2, <1>3 DEF WriteSetup, Timer!Bus
<1> QED BY <1>4 DEF Performs, LoadRequest, Timer!Writes

\* Every edge of PCLK performs an operation of the timer.
LEMMA PclkPerforms ==
  ASSUME TypeOK, LoadsInAccess, PclkEdge
  PROVE  \E op \in Timer!Ops : Performs(op)
<1>1. ASSUME NEW w \in LoadValues, WriteLoad(w) PROVE \E op \in Timer!Ops : Performs(op)
  <2> DEFINE op == [kind |-> "load", value |-> Val(w)]
  <2>1. op \in Timer!Ops
    BY DEF Timer!Ops
  <2>2. op.kind = "load" /\ op.value = Val(w)
    OBVIOUS
  <2> HIDE DEF op
  <2>3. LoadRequest(op.kind = "load" /\ ~wdog_lock)
    BY <1>1, <2>2 DEF WriteLoad, LoadRequest, TypeOK
  <2>4. Performs(op)
    BY <1>1, <2>2, <2>3, WritesPerform DEF WriteLoad, Timer!Writes, TypeOK, Val
  <2> QED BY <2>1, <2>4
<1>2. ASSUME NEW c \in Control, WriteCtrl(c) PROVE \E op \in Timer!Ops : Performs(op)
  <2> DEFINE op == [kind |-> "ctrl", value |-> c]
  <2>1. op \in Timer!Ops
    BY DEF Timer!Ops, Control
  <2>2. op.kind = "ctrl" /\ op.value = c
    OBVIOUS
  <2> HIDE DEF op
  <2>3. LoadRequest(op.kind = "load" /\ ~wdog_lock)
    BY <1>2, <2>2 DEF WriteCtrl, LoadRequest, TypeOK
  <2>4. Performs(op)
    BY <1>2, <2>2, <2>3, WritesPerform DEF WriteCtrl, Timer!Writes, TypeOK, Val
  <2> QED BY <2>1, <2>4
<1>3. ASSUME WriteIntClr PROVE \E op \in Timer!Ops : Performs(op)
  <2> DEFINE op == [kind |-> "clear"]
  <2>1. op \in Timer!Ops
    BY DEF Timer!Ops
  <2>2. op.kind = "clear"
    OBVIOUS
  <2> HIDE DEF op
  <2>3. LoadRequest(op.kind = "load" /\ ~wdog_lock)
    BY <1>3, <2>2 DEF WriteIntClr, LoadRequest, TypeOK
  <2>4. Performs(op)
    BY <1>3, <2>2, <2>3, WritesPerform DEF WriteIntClr, Timer!Writes, TypeOK, Val
  <2> QED BY <2>1, <2>4
<1>4. ASSUME NEW unlock \in BOOLEAN, WriteLock(unlock) PROVE \E op \in Timer!Ops : Performs(op)
  <2> DEFINE op == [kind |-> "lock", value |-> unlock]
  <2>1. op \in Timer!Ops
    BY DEF Timer!Ops
  <2>2. op.kind = "lock" /\ op.value = unlock
    OBVIOUS
  <2> HIDE DEF op
  <2>3. LoadRequest(op.kind = "load" /\ ~wdog_lock)
    BY <1>4, <2>2 DEF WriteLock, LoadRequest, TypeOK
  <2>4. Performs(op)
    BY <1>4, <2>2, <2>3, WritesPerform DEF WriteLock, Timer!Writes, TypeOK, Val
  <2> QED BY <2>1, <2>4
<1>5. ASSUME NEW b \in ItcrValues, WriteItcr(b) PROVE \E op \in Timer!Ops : Performs(op)
  <2> DEFINE op == [kind |-> "other"]
  <2>1. op \in Timer!Ops
    BY DEF Timer!Ops
  <2>2. op.kind = "other"
    OBVIOUS
  <2> HIDE DEF op
  <2>3. LoadRequest(op.kind = "load" /\ ~wdog_lock)
    BY <1>5, <2>2 DEF WriteItcr, LoadRequest, TypeOK
  <2>4. Performs(op)
    BY <1>5, <2>2, <2>3, WritesPerform DEF WriteItcr, Timer!Writes, TypeOK, Val
  <2> QED BY <2>1, <2>4
<1>6. ASSUME NEW o \in ItopValues, WriteItop(o) PROVE \E op \in Timer!Ops : Performs(op)
  <2> DEFINE op == [kind |-> "other"]
  <2>1. op \in Timer!Ops
    BY DEF Timer!Ops
  <2>2. op.kind = "other"
    OBVIOUS
  <2> HIDE DEF op
  <2>3. LoadRequest(op.kind = "load" /\ ~wdog_lock)
    BY <1>6, <2>2 DEF WriteItop, LoadRequest, TypeOK
  <2>4. Performs(op)
    BY <1>6, <2>2, <2>3, WritesPerform DEF WriteItop, Timer!Writes, TypeOK, Val
  <2> QED BY <2>1, <2>4
<1>7. ASSUME NEW r \in Registers, Read(r) PROVE \E op \in Timer!Ops : Performs(op)
  <2> DEFINE op == IF r \in {"CTRL", "ITCR"} THEN [kind |-> "other"]
                   ELSE [kind |-> "read", value |-> r]
  <2>1. op.kind \in {"other", "read"} /\ (op.kind = "other" <=> r \in {"CTRL", "ITCR"})
        /\ (op.kind = "read" => op.value = r)
    OBVIOUS
  <2>2. IF r \in {"CTRL", "ITCR"} THEN Val(prdata)' \in 0 .. 3
        ELSE r \in DOMAIN Timer!Visible /\ Val(prdata)' = Timer!Visible[r]
    BY <1>7, ReadsImplement DEF Read, Val
  <2>3. op \in Timer!Ops
    BY <2>2 DEF Timer!Ops
  <2> HIDE DEF op
  <2>4. op # Timer!Quiet /\ op # Timer!Idle
    BY <2>1, AccessOps
  <2>5. IF op.kind = "other" THEN Val(prdata)' \in 0 .. 3
        ELSE Val(prdata)' = CASE op.kind = "read" -> Timer!Visible[op.value]
                              [] op = Timer!Quiet -> Val(prdata)
                              [] OTHER            -> 0
    BY <2>1, <2>2, <2>4
  <2>6. Timer!Bus(op)
    BY <1>7, <2>1, <2>4, <2>5 DEF Read, regVars, Timer!Bus, Timer!Writes
  <2>7. Performs(op)
    BY <1>7, <2>1, <2>6 DEF Performs, Read, regVars, LoadRequest, Timer!Writes
  <2> QED BY <2>3, <2>7
<1>8. ASSUME NoSetup PROVE \E op \in Timer!Ops : Performs(op)
  <2>1. Timer!Idle \in Timer!Ops /\ Timer!Idle # Timer!Quiet /\ Timer!Idle.kind = "idle"
    BY DEF Timer!Ops, Timer!Idle, Timer!Quiet
  <2>2. Val(prdata)' = 0
    BY <1>8, HalfAssumption DEF NoSetup, Val, Zero
  <2>3. Timer!Bus(Timer!Idle)
    BY <1>8, <2>1, <2>2 DEF NoSetup, regVars, Timer!Bus, Timer!Writes
  <2>4. Performs(Timer!Idle)
    BY <1>8, <2>1, <2>3 DEF Performs, NoSetup, regVars, LoadRequest, Timer!Writes
  <2> QED BY <2>1, <2>4
<1> QED
  BY <1>1, <1>2, <1>3, <1>4, <1>5, <1>6, <1>7, <1>8, WriteAssumption DEF PclkEdge

LEMMA QuietBus ==
  ASSUME UNCHANGED pclkVars
  PROVE  /\ Timer!Quiet \in Timer!Ops
         /\ Timer!Bus(Timer!Quiet)
         /\ ~Timer!Writes(Timer!Quiet, "load") /\ ~Timer!Writes(Timer!Quiet, "clear")
<1>1. Timer!Quiet.kind = "quiet" /\ Timer!Quiet \in Timer!Ops
  BY DEF Timer!Quiet, Timer!Ops
<1> QED
  BY <1>1 DEF pclkVars, busVars, regVars, reqVars, Timer!Bus, Timer!Writes, Val

\* The clear and the load that the timer sees, after each kind of step.
LEMMA PclkStep ==
  ASSUME TypeOK, LoadsInAccess, Pclk
  PROVE  \E op \in Timer!Ops : Timer!BusStep(op)
<1>1. PICK op \in Timer!Ops : Performs(op)
  BY PclkPerforms DEF Pclk
<1>2. UNCHANGED wdogVars
  BY DEF Pclk
<1>3. Timer!NoTick
  BY <1>2 DEF wdogVars, Timer!NoTick, Val, carry_msb
<1>4. (load_en_reg \/ load_req_w)' = (Timer!Writes(op, "load") \/ load_en_reg \/ load_req_w)
  BY <1>1, <1>2 DEF Performs, TypeOK, load_req_w, wdogVars, Timer!Writes
<1>5. int_clr_w' = (int_clr_w \/ Timer!Writes(op, "clear"))
  BY <1>1, <1>2
  DEF Performs, TypeOK, int_clr_w, int_clr_pulse, carry_msb, wdogVars, Timer!Writes
<1>6. Timer!BusStep(op)
  BY <1>1, <1>3, <1>4, <1>5 DEF Performs, Timer!BusStep
<1> QED BY <1>6

LEMMA TickTogether ==
  ASSUME TypeOK, CarriesMatchCount, LoadsInAccess, Wdog \/ Both
  PROVE  \E op \in Timer!Ops, take, keep \in BOOLEAN : Timer!TickStep(op, take, keep)
<1>1. WdogEdge /\ Timer!Tick(load_req_w)
  BY TickImplements DEF Wdog, Both
<1>2. load_req_w \in BOOLEAN /\ int_clr_w \in BOOLEAN
  BY DEF TypeOK, load_req_w, int_clr_w, int_clr_pulse, carry_msb
<1>3. carry_msb' \in BOOLEAN
  BY <1>1, WdogTypes DEF carry_msb
<1>4. CASE Wdog
  <2>1. UNCHANGED pclkVars
    BY <1>4 DEF Wdog
  <2>2. (load_en_reg \/ load_req_w)' = load_en_reg
    BY <1>1, <2>1 DEF WdogEdge, TypeOK, pclkVars, reqVars, load_req_w
  <2>3. int_clr_w' = IF int_clr_w THEN carry_msb' ELSE FALSE
    BY <1>1, <1>2, <1>3, <2>1
    DEF WdogEdge, TypeOK, pclkVars, regVars, int_clr_w, int_clr_pulse, carry_msb
  <2>4. Timer!TickStep(Timer!Quiet, load_req_w, load_en_reg)
    BY <1>1, <2>1, <2>2, <2>3, QuietBus
    DEF TypeOK, Timer!TickStep, Timer!Writes, LoadsInAccess
  <2> QED BY <1>2, <2>1, <2>4, QuietBus DEF TypeOK
<1>5. CASE Both
  <2>1. PICK op \in Timer!Ops : Performs(op)
    BY <1>5, PclkPerforms DEF Both
  <2>2. (load_en_reg \/ load_req_w)'
          = (Timer!Writes(op, "load") \/ (load_en_reg /\ ~load_req_w))
    BY <1>1, <2>1 DEF WdogEdge, Performs, TypeOK, load_req_w, Timer!Writes
  <2>3. int_clr_w' = IF int_clr_w THEN carry_msb' ELSE Timer!Writes(op, "clear")
    BY <1>1, <1>2, <1>3, <2>1
    DEF WdogEdge, Performs, TypeOK, int_clr_w, int_clr_pulse, carry_msb, Timer!Writes
  <2>4. Timer!TickStep(op, load_req_w, load_en_reg /\ ~load_req_w)
    BY <1>1, <2>1, <2>2, <2>3 DEF Performs, Timer!TickStep, LoadsInAccess
  <2>5. (load_en_reg /\ ~load_req_w) \in BOOLEAN
    OBVIOUS
  <2> QED BY <1>2, <2>1, <2>4, <2>5
<1> QED BY <1>4, <1>5

\* The two clock domains with their handshakes and the split counter implement
\* the timer that software is told about: a load and a clear take effect once,
\* whatever the order of the clock edges, and every read returns what the timer
\* shows.
THEOREM ImplementsTimer == Spec => TimerSpec
<1>1. Val(Zero) = 0 /\ Val(AllOnes) = Half * Half - 1
  <2>1. (Half - 1) * Half = Half * Half - Half
    BY HalfAssumption
  <2> QED BY <2>1, HalfAssumption DEF Val, Zero, AllOnes
<1>2. Init => Timer!Init
  <2> SUFFICES ASSUME Init PROVE Timer!Init
    OBVIOUS
  <2>1. /\ Val(wdog_load) = Half * Half - 1 /\ Val(reg_count) = Half * Half - 1
        /\ Val(prdata) = 0
    BY <1>1 DEF Init
  <2>2. carry_msb = FALSE /\ load_req_w = FALSE /\ int_clr_w = FALSE
    BY DEF Init, load_req_w, int_clr_w, int_clr_pulse, carry_msb
  <2> QED BY <2>1, <2>2 DEF Init, Timer!Init
<1>3. /\ TypeOK /\ CarriesMatchCount /\ LoadsInAccess /\ [Next]_vars
      => [Timer!Next]_(Timer!vars)
  <2> SUFFICES ASSUME TypeOK, CarriesMatchCount, LoadsInAccess, [Next]_vars
               PROVE  [Timer!Next]_(Timer!vars)
    OBVIOUS
  <2>1. CASE Pclk
    BY <2>1, PclkStep DEF Timer!Next
  <2>2. CASE Wdog \/ Both
    BY <2>2, TickTogether DEF Timer!Next
  <2>3. CASE Reset
    <3>1. Val(wdog_load)' = Half * Half - 1 /\ Val(reg_count)' = Half * Half - 1
          /\ Val(prdata)' = 0
      BY <1>1, <2>3 DEF Reset, Val
    <3>2. ~load_req_w' /\ ~int_clr_w' /\ ~carry_msb'
      BY <2>3 DEF Reset, load_req_w, int_clr_w, int_clr_pulse, carry_msb
    <3>3. Timer!Restart
      BY <2>3, <3>1, <3>2 DEF Reset, Timer!Restart, carry_msb
    <3> QED BY <3>3 DEF Timer!Next
  <2>4. CASE UNCHANGED vars
    BY <2>4 DEF vars, pclkVars, busVars, regVars, reqVars, wdogVars, Timer!vars, Val,
                load_req_w, int_clr_w, int_clr_pulse, carry_msb
  <2> QED BY <2>1, <2>2, <2>3, <2>4 DEF Next
<1> QED
  BY <1>2, <1>3, TypeCorrect, CarriesCorrect, LoadsOnlyInAccess, PTL
  DEF Spec, TimerSpec, Timer!Spec

-----------------------------------------------------------------------------
(* The service window.                                                     *)

\* While software leaves CTRL and LOAD alone, the count is at most as far down
\* as the interrupt is old, and a counter that has just reached zero is running.
WindowInv ==
  /\ age \in Nat /\ steady \in BOOLEAN
  /\ steady /\ Val(wdog_load) > 0 =>
       /\ carry_msb => wdog_int_en /\ ~i_wdog_res /\ ~count_stop_reg
       /\ wdog_ris  => age + Val(reg_count) >= Val(wdog_load)

HInv == TypeOK /\ CarriesMatchCount /\ WindowInv

\* What a step that keeps CTRL and LOAD does at an edge of WDOGCLK.
LEMMA SteadyTick ==
  ASSUME HInv, WdogEdge, History(TRUE), steady', wdog_load' = wdog_load, Val(wdog_load) > 0
  PROVE  /\ carry_msb' => wdog_int_en /\ ~i_wdog_res' /\ ~count_stop_reg'
         /\ wdog_ris'  => age' + Val(reg_count') >= Val(wdog_load)
<1>1. /\ reg_count \in Word /\ wdog_load \in Word /\ carry_msb \in BOOLEAN
      /\ carry_msb' = reg_carry'.c1 /\ age \in Nat
  BY DEF HInv, TypeOK, WindowInv, carry_msb
<1>2. /\ Val(reg_count) \in 0 .. Half * Half - 1 /\ Val(wdog_load) \in 0 .. Half * Half - 1
      /\ Val(Pred(reg_count)) = IF reg_count = Zero THEN Half * Half - 1 ELSE Val(reg_count) - 1
      /\ wdog_load # Zero
  <2>1. Val(wdog_load) = 0 <=> wdog_load = Zero
    BY <1>1, WordValue
  <2>2. Val(wdog_load) \in 0 .. Half * Half - 1
    BY <1>1, WordValue
  <2>3. wdog_load # Zero
    BY <2>1, <2>2
  <2> QED BY <1>1, <2>2, <2>3, WordValue
<1>3. /\ \/ ~carry_msb /\ ~wdog_ris
         \/ steady /\ ~wdog_int_en_rise /\ ~load_en_reg /\ ~load_req_w
      /\ wdog_ris' => age' = IF wdog_ris THEN Least(age + 1, Val(wdog_load)) ELSE 0
  BY DEF History
<1>4. /\ steady /\ carry_msb => count_en
      /\ steady /\ wdog_ris => age + Val(reg_count) >= Val(wdog_load)
  BY DEF HInv, WindowInv, count_en, count_stop
<1>5. /\ reg_count' = IF ~count_en THEN reg_count
                      ELSE IF reload THEN wdog_load ELSE Pred(reg_count)
      /\ carry_msb' => ~reload \/ ~count_en
      /\ wdog_ris' = ((carry_msb \/ wdog_ris) /\ ~int_clr_w)
      /\ ~count_en => carry_msb' = carry_msb
  <2>1. reg_count' = IF ~count_en THEN reg_count
                     ELSE IF reload THEN wdog_load ELSE Pred(reg_count)
    BY DEF HInv, WdogEdge, count_mux1, nxt_count, CarriesMatchCount, Pred
  <2>2. count_en /\ reload => ~carry_msb'
    BY <1>1, <1>2 DEF WdogEdge, nxt_carry_0, nxt_carry_1, high_count, Zero, Word
  <2> QED BY <1>1, <2>1, <2>2 DEF WdogEdge, nxt_wdog_ris, carry_msb
<1>6. ASSUME carry_msb' PROVE wdog_int_en /\ ~i_wdog_res' /\ ~count_stop_reg'
  <2>1. count_en /\ ~reload
    BY <1>3, <1>4, <1>5, <1>6
  <2>2. ~carry_msb /\ ~load_req_w
    BY <2>1 DEF reload
  <2>3. wdog_int_en /\ ~i_wdog_res /\ ~count_stop
    BY <2>1, <2>2 DEF count_en, count_stop
  <2> QED BY <2>2, <2>3 DEF WdogEdge, nxt_wdog_res
<1>7. ASSUME wdog_ris' PROVE age' + Val(reg_count') >= Val(wdog_load)
  <2>1. steady /\ ~wdog_int_en_rise /\ ~load_req_w /\ ~int_clr_w
    BY <1>3, <1>5, <1>7
  <2>2. CASE carry_msb
    <3>1. reg_count' = wdog_load
      BY <1>4, <1>5, <2>1, <2>2 DEF reload
    <3>2. age' \in Nat
      BY <1>1, <1>2, <1>3, <1>7 DEF Least
    <3> QED BY <1>2, <3>1, <3>2
  <2>3. CASE ~carry_msb
    <3>1. wdog_ris /\ ~reload
      BY <1>5, <1>7, <2>1, <2>3 DEF reload
    <3>2. age' = Least(age + 1, Val(wdog_load)) /\ age + Val(reg_count) >= Val(wdog_load)
      BY <1>3, <1>4, <1>7, <2>1, <3>1
    <3>3. reg_count' = reg_count \/ reg_count' = Pred(reg_count)
      BY <1>5, <3>1
    <3>4. Val(reg_count') \in {Val(reg_count), Val(reg_count) - 1, Half * Half - 1}
      BY <1>2, <3>3
    <3> QED
      <4>0. Val(reg_count') \in Nat
        BY WdogTypes, WordValue DEF HInv
      <4>1. CASE Val(reg_count') = Half * Half - 1
        <5>1. age' \in Nat /\ Val(reg_count') >= Val(wdog_load)
          BY <1>1, <1>2, <3>2, <4>0, <4>1 DEF Least
        <5> QED BY <1>2, <4>0, <5>1
      <4>2. CASE Val(reg_count') = Val(reg_count) - 1
        BY <1>1, <1>2, <3>2, <4>0, <4>2 DEF Least
      <4>3. CASE Val(reg_count') = Val(reg_count)
        BY <1>1, <1>2, <3>2, <4>3 DEF Least
      <4> QED BY <3>4, <4>1, <4>2, <4>3
  <2> QED BY <2>2, <2>3
<1> QED BY <1>6, <1>7

LEMMA AgeType ==
  ASSUME HInv, NEW tick \in BOOLEAN, History(tick) PROVE age' \in Nat /\ steady' \in BOOLEAN
<1>1. Val(wdog_load) \in Nat
  BY WordValue DEF HInv, TypeOK
<1> QED BY <1>1 DEF History, HInv, WindowInv, Least

LEMMA WindowStep == HInv /\ HistNext => WindowInv'
<1> SUFFICES ASSUME HInv, HistNext PROVE WindowInv'
  OBVIOUS
<1>1. CASE Pclk /\ History(FALSE)
  <2>1. age' \in Nat /\ steady' \in BOOLEAN
    BY <1>1, AgeType
  <2>2. ASSUME steady', Val(wdog_load)' > 0
        PROVE  /\ carry_msb' => wdog_int_en' /\ ~i_wdog_res' /\ ~count_stop_reg'
               /\ wdog_ris'  => age' + Val(reg_count)' >= Val(wdog_load)'
    <3>1. /\ wdog_control' = wdog_control /\ wdog_load' = wdog_load
          /\ carry_msb \/ wdog_ris => steady
          /\ wdog_ris' => age' = age
      BY <1>1, <2>2 DEF History
    <3>2. UNCHANGED <<reg_count, reg_carry, count_stop_reg, wdog_ris, i_wdog_res>>
      BY <1>1 DEF Pclk, wdogVars
    <3>3. Val(wdog_load) > 0
      BY <2>2, <3>1 DEF Val
    <3> QED BY <3>1, <3>2, <3>3 DEF HInv, WindowInv, carry_msb, wdog_int_en, Val
  <2> QED BY <2>1, <2>2 DEF WindowInv
<1>2. CASE (Wdog \/ Both) /\ History(TRUE)
  <2>1. age' \in Nat /\ steady' \in BOOLEAN
    BY <1>2, AgeType
  <2>2. ASSUME steady', Val(wdog_load)' > 0
        PROVE  /\ carry_msb' => wdog_int_en' /\ ~i_wdog_res' /\ ~count_stop_reg'
               /\ wdog_ris'  => age' + Val(reg_count)' >= Val(wdog_load)'
    <3>1. wdog_control' = wdog_control /\ wdog_load' = wdog_load /\ WdogEdge
      BY <1>2, <2>2 DEF History, Wdog, Both
    <3>2. Val(wdog_load) > 0
      BY <2>2, <3>1 DEF Val
    <3>3. /\ carry_msb' => wdog_int_en /\ ~i_wdog_res' /\ ~count_stop_reg'
          /\ wdog_ris'  => age' + Val(reg_count') >= Val(wdog_load)
      BY <1>2, <2>2, <3>1, <3>2, SteadyTick
    <3> QED BY <3>1, <3>3 DEF wdog_int_en, Val
  <2> QED BY <2>1, <2>2 DEF WindowInv
<1>3. CASE Reset /\ age' = 0 /\ steady' = TRUE
  BY <1>3 DEF WindowInv, Reset, carry_msb
<1> QED BY <1>1, <1>2, <1>3 DEF HistNext

\* Software that leaves CTRL and LOAD alone has, between the interrupt and the
\* reset request, as many ticks as the load value says, for every load value and
\* order of the two clocks, also if an earlier clear, load or stop of the counter
\* is still on its way.
THEOREM WindowIsKept == HistSpec => ServiceWindow
<1>1. HistSpec => Spec
  <2>1. HistInit => Init
    BY DEF HistInit
  <2>2. [HistNext]_histVars => [Next]_vars
    BY DEF HistNext, Next, histVars
  <2> QED BY <2>1, <2>2, PTL DEF HistSpec, Spec
<1>2. HistInit => WindowInv
  BY DEF HistInit, Init, WindowInv, carry_msb
<1>3. HInv /\ [HistNext]_histVars => WindowInv'
  <2>1. HInv /\ UNCHANGED histVars => WindowInv'
    BY DEF HInv, WindowInv, histVars, vars, pclkVars, busVars, regVars, reqVars, wdogVars,
           carry_msb, wdog_int_en, Val
  <2> QED BY <2>1, WindowStep
<1>4. HInv /\ [HistNext]_histVars
        => [Resets /\ steady => age >= Val(wdog_load)]_histVars
  <2> SUFFICES ASSUME HInv, HistNext, Resets, steady PROVE age >= Val(wdog_load)
    OBVIOUS
  <2>1. WdogEdge
    BY DEF HistNext, Pclk, Wdog, Both, Reset, wdogVars, Resets
  <2>2. wdog_ris /\ carry_msb
    BY <2>1 DEF WdogEdge, nxt_wdog_res, Resets
  <2>3. Val(reg_count) = 0 /\ Val(wdog_load) \in Nat
    BY <2>2, WordValue DEF HInv, TypeOK, CarriesMatchCount, carry_msb
  <2> QED BY <2>2, <2>3 DEF HInv, WindowInv
<1> QED
  BY <1>1, <1>2, <1>3, <1>4, TypeCorrect, CarriesCorrect, PTL
  DEF HistSpec, HInv, ServiceWindow

-----------------------------------------------------------------------------
(* The watchdog in the SoC, for every software.                             *)

\* At an fclk edge both domains of the watchdog have an edge.
LEMMA FclkTypes ==
  ASSUME SocTypeOK, FclkEdge, AnyPclkEdge
  PROVE  /\ TypeOK'
         /\ reg_sys_rst_n' \in BOOLEAN
         /\ reg_resetinfo' \in SUBSET Causes
         /\ reg_lockupreset' \in BOOLEAN
<1>1. TypeOK'
  BY PclkTypes, WdogTypes DEF SocTypeOK, FclkEdge, TypeOK
<1>2. reg_resetinfo' \in SUBSET Causes
  BY DEF SocTypeOK, FclkEdge, ResetInfoEdge, ResetCauses, Causes
<1>3. reg_lockupreset' \in BOOLEAN
  BY DEF SocTypeOK, FclkEdge, SysctrlWrites, NoWrite
<1> QED BY <1>1, <1>2, <1>3 DEF SocTypeOK, FclkEdge

LEMMA SocStepTypes ==
  ASSUME SocTypeOK, [SocNext]_allVars
  PROVE  SocTypeOK'
<1>0. NoSetup => AnyPclkEdge
  BY DEF AnyPclkEdge
<1>1. CASE EnterReset
  <2>1. TypeOK'
    BY <1>1, WordFacts DEF EnterReset, Reset, TypeOK, Outputs, Control
  <2>2. reg_resetinfo' \in SUBSET Causes
    BY <1>1 DEF EnterReset, SocTypeOK, ResetInfoEdge, ResetCauses, Causes
  <2> QED BY <1>1, <2>1, <2>2 DEF EnterReset, SocTypeOK
<1>2. CASE LeaveReset
  <2>1. TypeOK'
    BY <1>2 DEF LeaveReset, SocTypeOK, TypeOK, vars, pclkVars, busVars, regVars,
                reqVars, wdogVars
  <2> QED BY <1>2, <2>1 DEF LeaveReset, SocTypeOK
<1>3. CASE AccessWatchdog
  BY <1>3, PclkIsAny, FclkTypes DEF AccessWatchdog, SocTypeOK
<1>4. CASE WriteSysctrl
  BY <1>4, <1>0, FclkTypes DEF WriteSysctrl, SocTypeOK
<1>5. CASE Stuck
  BY <1>5, <1>0, FclkTypes DEF Stuck, SocTypeOK
<1>6. ASSUME NEW how \in {"hung", "lockup", "sysresetreq"}, Stop(how)
      PROVE  SocTypeOK'
  BY <1>6, <1>0, FclkTypes DEF Stop, SocTypeOK
<1>7. CASE UNCHANGED allVars
  BY <1>7 DEF allVars, socVars, SocTypeOK, TypeOK, vars, pclkVars, busVars, regVars,
              reqVars, wdogVars
<1> QED BY <1>1, <1>2, <1>3, <1>4, <1>5, <1>6, <1>7 DEF SocNext

LEMMA SocInitTypes == SocInit => SocTypeOK
<1>1. Init => TypeOK
  <2>1. /\ [int |-> FALSE, res |-> FALSE] \in Outputs
        /\ [inten |-> FALSE, resen |-> FALSE] \in Control
        /\ [c0 |-> FALSE, c1 |-> FALSE] \in [c0 : BOOLEAN, c1 : BOOLEAN]
    BY DEF Outputs, Control
  <2> QED BY <2>1, WordFacts DEF Init, TypeOK
<1> QED BY <1>1 DEF SocInit, SocTypeOK

\* Every register of the SoC model keeps its type, whatever software does.
THEOREM SocTypeCorrect == SocSpec => []SocTypeOK
<1>1. SocInit => SocTypeOK
  BY SocInitTypes
<1>2. SocTypeOK /\ [SocNext]_allVars => SocTypeOK'
  BY SocStepTypes
<1> QED BY <1>1, <1>2, PTL DEF SocSpec

-----------------------------------------------------------------------------
\* What RSTINFO keeps through an edge at which it is clocked.
LEMMA RecordKeeps ==
  ASSUME ResetInfoEdge
  PROVE  /\ ResetCauses \subseteq reg_resetinfo'
         /\ \A c \in reg_resetinfo \ reg_resetinfo' :
              sysctrl_write.reg = "RSTINFO" /\ c \in sysctrl_write.clear
BY DEF ResetInfoEdge

\* RSTINFO names every cause of a reset when the reset begins, and forgets one
\* only when software clears it (beetle_sysctrl.v:287-302).
THEOREM CauseRecorded == SocSpec => CauseIsRecorded
<1> DEFINE Recorded ==
      /\ reg_sys_rst_n /\ ~reg_sys_rst_n' => ResetCauses \subseteq reg_resetinfo'
      /\ \A c \in reg_resetinfo \ reg_resetinfo' :
           sysctrl_write.reg = "RSTINFO" /\ c \in sysctrl_write.clear
<1>1. ASSUME [SocNext]_allVars PROVE Recorded
  <2>1. CASE EnterReset \/ AccessWatchdog \/ WriteSysctrl \/ Stuck
             \/ \E how \in {"hung", "lockup", "sysresetreq"} : Stop(how)
    <3>1. ResetInfoEdge
      BY <2>1 DEF EnterReset, AccessWatchdog, WriteSysctrl, Stuck, Stop, FclkEdge
    <3> QED BY <3>1, RecordKeeps
  <2>2. CASE LeaveReset
    BY <2>2 DEF LeaveReset
  <2>3. CASE UNCHANGED allVars
    BY <2>3 DEF allVars, socVars
  <2> QED BY <1>1, <2>1, <2>2, <2>3 DEF SocNext
<1>2. [SocNext]_allVars => [Recorded]_allVars
  BY <1>1
<1> QED BY <1>2, PTL DEF SocSpec, CauseIsRecorded

-----------------------------------------------------------------------------
(* The demo program on the SoC.                                            *)

\* The instructions of the program; "low?" goes back to the read before it.
Instr ==
  [op : {"INTCLR", "VALUE", "low?", "Watchdog value set again", "await NMI", "spin",
         "clear RSTINFO", "nop", "passed", "spin if reset_test",
         "return unless integration_test", "return"}]
  \cup [op : {"LOAD"}, word : Word] \cup [op : {"CTRL"}, bits : Control]
  \cup [op : {"LOCK"}, unlock : BOOLEAN] \cup [op : {"ITCR"}, test : BOOLEAN]
  \cup [op : {"ITOP"}, out : Outputs]
  \cup [op : {"set"}, var : DOMAIN Software0, to : BOOLEAN]
  \cup [op : {"test"}, that : {"no NMI", "NMI", "NMI expected", "RSTINFO is wdog",
                               "RSTINFO is clear", "ITCR is set", "ITCR is clear"}]

Text(s) == s \in Seq(Instr) /\ \A k \in 1 .. Len(s) : s[k].op = "low?" => k > 1

LEMMA TextConcat == ASSUME NEW a, NEW b, Text(a), Text(b) PROVE Text(a \o b)
<1>1. a \in Seq(Instr) /\ b \in Seq(Instr)
  BY DEF Text
<1>2. Len(a) \in Nat /\ Len(b) \in Nat
  BY <1>1, LenProperties
<1>3. /\ a \o b \in Seq(Instr) /\ Len(a \o b) = Len(a) + Len(b)
      /\ \A k \in 1 .. Len(a) + Len(b) : (a \o b)[k] = IF k <= Len(a) THEN a[k] ELSE b[k - Len(a)]
  BY <1>1, ConcatProperties
<1>4. ASSUME NEW k \in 1 .. Len(a \o b), (a \o b)[k].op = "low?" PROVE k > 1
  <2>1. CASE k <= Len(a)
    BY <1>2, <1>3, <1>4, <2>1 DEF Text
  <2>2. CASE k > Len(a)
    <3>1. k - Len(a) \in 1 .. Len(b) /\ b[k - Len(a)].op = "low?"
      BY <1>2, <1>3, <1>4, <2>2
    <3>2. k - Len(a) > 1
      BY <3>1 DEF Text
    <3> QED BY <1>2, <3>2
  <2> QED BY <1>2, <2>1, <2>2
<1> QED BY <1>3, <1>4 DEF Text

Plain == {i \in Instr : i.op # "low?"}

LEMMA PlainText == ASSUME NEW s \in Seq(Plain) PROVE Text(s)
<1>1. s \in Seq(Instr)
  BY SeqMonotonic DEF Plain
<1>2. \A k \in 1 .. Len(s) : s[k] \in Plain
  BY ElementOfSeq
<1> QED BY <1>1, <1>2 DEF Text, Plain

\* The instructions that the program is written with.
LEMMA Instructions ==
  /\ \A w \in Word : Load(w) \in Instr /\ Load(w).op = "LOAD"
  /\ \A n \in Int : Ctrl(n) \in Instr /\ Ctrl(n).op = "CTRL"
  /\ Unlock \in Instr /\ Unlock.op = "LOCK" /\ Lock \in Instr /\ Lock.op = "LOCK"
  /\ \A b \in BOOLEAN : Itcr(b) \in Instr /\ Itcr(b).op = "ITCR"
  /\ \A b \in BOOLEAN : Itop(b) \in Instr /\ Itop(b).op = "ITOP"
  /\ \A v \in DOMAIN Software0, b \in BOOLEAN : Set(v, b) \in Instr /\ Set(v, b).op = "set"
<1>1. \A w \in Word : Load(w) \in Instr /\ Load(w).op = "LOAD"
  BY DEF Load, Instr
<1>2. \A n \in Int : Ctrl(n) \in Instr /\ Ctrl(n).op = "CTRL"
  BY DEF Ctrl, Instr, Control
<1>3. Unlock \in Instr /\ Unlock.op = "LOCK" /\ Lock \in Instr /\ Lock.op = "LOCK"
  BY DEF Unlock, Lock, Instr
<1>4. \A b \in BOOLEAN : Itcr(b) \in Instr /\ Itcr(b).op = "ITCR"
  BY DEF Itcr, Instr
<1>5. \A b \in BOOLEAN : Itop(b) \in Instr /\ Itop(b).op = "ITOP"
  BY DEF Itop, Instr, Outputs
<1>6. \A v \in DOMAIN Software0, b \in BOOLEAN : Set(v, b) \in Instr /\ Set(v, b).op = "set"
  BY DEF Set, Instr
<1> QED BY <1>1, <1>2, <1>3, <1>4, <1>5, <1>6

\* Sequences written out; the instructions of a long one are named first.
LEMMA OneOf ==
  ASSUME NEW S, NEW a \in S
  PROVE  <<a>> \in Seq(S) /\ Len(<<a>>) = 1 /\ <<a>>[1] = a
OBVIOUS
LEMMA TwoOf ==
  ASSUME NEW S, NEW a \in S, NEW b \in S
  PROVE  <<a, b>> \in Seq(S) /\ Len(<<a, b>>) = 2 /\ <<a, b>>[1] = a /\ <<a, b>>[2] = b
OBVIOUS
LEMMA ThreeOf ==
  ASSUME NEW S, NEW a \in S, NEW b \in S, NEW c \in S
  PROVE  /\ <<a, b, c>> \in Seq(S) /\ Len(<<a, b, c>>) = 3
         /\ <<a, b, c>>[1] = a /\ <<a, b, c>>[2] = b /\ <<a, b, c>>[3] = c
OBVIOUS
LEMMA FourOf ==
  ASSUME NEW S, NEW a \in S, NEW b \in S, NEW c \in S, NEW d \in S
  PROVE  <<a, b, c, d>> \in Seq(S)
OBVIOUS
LEMMA SixOf ==
  ASSUME NEW S, NEW a \in S, NEW b \in S, NEW c \in S, NEW d \in S, NEW e \in S, NEW f \in S
  PROVE  /\ <<a, b, c, d, e, f>> \in Seq(S) /\ Len(<<a, b, c, d, e, f>>) = 6
         /\ <<a, b, c, d, e, f>>[6] = f
OBVIOUS
LEMMA NineteenOf ==
  ASSUME NEW S, NEW a \in S, NEW b \in S, NEW c \in S, NEW d \in S, NEW e \in S, NEW f \in S,
         NEW g \in S, NEW h \in S, NEW i \in S, NEW j \in S, NEW k \in S, NEW l \in S,
         NEW m \in S, NEW n \in S, NEW o \in S, NEW p \in S, NEW q \in S, NEW r \in S, NEW s \in S
  PROVE  /\ <<a, b, c, d, e, f, g, h, i, j, k, l, m, n, o, p, q, r, s>> \in Seq(S)
         /\ Len(<<a, b, c, d, e, f, g, h, i, j, k, l, m, n, o, p, q, r, s>>) = 19
         /\ <<a, b, c, d, e, f, g, h, i, j, k, l, m, n, o, p, q, r, s>>[19] = s
OBVIOUS

LEMMA PlainInstructions ==
  /\ \A n \in Int : Ctrl(n) \in Plain
  /\ \A w \in Word : Load(w) \in Plain
  /\ Unlock \in Plain /\ Lock \in Plain
  /\ \A b \in BOOLEAN : Itcr(b) \in Plain /\ Itop(b) \in Plain
  /\ \A b \in BOOLEAN : /\ Set("nmi_occurred", b) \in Plain /\ Set("nmi_expected", b) \in Plain
                        /\ Set("reset_test", b) \in Plain /\ Set("integration_test", b) \in Plain
<1>1. \A v \in DOMAIN Software0, b \in BOOLEAN : Set(v, b) \in Plain
  BY Instructions DEF Plain
<1>2. {"nmi_occurred", "nmi_expected", "reset_test", "integration_test"} = DOMAIN Software0
  BY DEF Software0
<1>3. \A b \in BOOLEAN : /\ Set("nmi_occurred", b) \in Plain /\ Set("nmi_expected", b) \in Plain
                         /\ Set("reset_test", b) \in Plain /\ Set("integration_test", b) \in Plain
  BY <1>1, <1>2
<1>4. /\ \A n \in Int : Ctrl(n) \in Plain
      /\ \A w \in Word : Load(w) \in Plain
      /\ Unlock \in Plain /\ Lock \in Plain
      /\ \A b \in BOOLEAN : Itcr(b) \in Plain /\ Itop(b) \in Plain
  BY Instructions DEF Plain
<1> QED BY <1>3, <1>4

LEMMA PlainTests ==
  /\ Test("no NMI") \in Plain /\ Test("NMI") \in Plain /\ Test("NMI expected") \in Plain
  /\ Test("RSTINFO is wdog") \in Plain /\ Test("RSTINFO is clear") \in Plain
  /\ Test("ITCR is set") \in Plain /\ Test("ITCR is clear") \in Plain
BY DEF Plain, Test, Instr

LEMMA PlainIns ==
  ASSUME NEW o \in {"INTCLR", "VALUE", "Watchdog value set again", "await NMI", "spin",
                    "clear RSTINFO", "nop", "passed", "spin if reset_test",
                    "return unless integration_test", "return"}
  PROVE  Ins(o) \in Plain /\ Ins(o) \in Instr /\ Ins(o).op = o
BY DEF Plain, Ins, Instr

LEMMA WatchdogInit == ASSUME NEW w \in Word, NEW i \in 0 .. 2 PROVE watchdog_init(w, i) \in Seq(Plain)
<1>1. CtrlOfType[i + 1] \in Int
  BY DEF CtrlOfType
<1>2. /\ Unlock \in Plain /\ Load(w) \in Plain /\ Ctrl(CtrlOfType[i + 1]) \in Plain
      /\ Lock \in Plain
  BY <1>1, PlainInstructions
<1>3. <<Unlock, Load(w), Ctrl(CtrlOfType[i + 1]), Lock>> \in Seq(Plain)
  BY <1>2, FourOf
<1> QED BY <1>3 DEF watchdog_init

\* Only the second instruction of the loop is the test that goes back.
LEMMA SetOnceText ==
  Len(SetOnce) = 6 /\ \A n \in 1 .. 6 : SetOnce[n] \in Instr /\ (SetOnce[n].op = "low?" => n = 2)
<1> DEFINE o == Ins("Watchdog value set again")
           a == <<Ins("VALUE"), Ins("low?")>>
           b == watchdog_set \o <<o>>
<1>1. Ins("VALUE") \in Instr /\ Ins("VALUE").op = "VALUE" /\ Ins("low?") \in Instr
  BY DEF Ins, Instr
<1>2. o \in Plain
  BY PlainIns
<1> HIDE DEF o
<1>3. /\ a \in Seq(Instr) /\ Len(a) = 2 /\ a[1] = Ins("VALUE")
  BY <1>1, TwoOf
<1>4. watchdog_set \in Seq(Plain) /\ Len(watchdog_set) = 3
  <2>1. 10000 \in Int
    OBVIOUS
  <2>2. Unlock \in Plain /\ Ctrl(10000) \in Plain /\ Lock \in Plain
    BY <2>1, PlainInstructions
  <2>3. <<Unlock, Ctrl(10000), Lock>> \in Seq(Plain) /\ Len(<<Unlock, Ctrl(10000), Lock>>) = 3
    BY <2>2, ThreeOf
  <2> QED BY <2>3 DEF watchdog_set
<1>5. <<o>> \in Seq(Plain) /\ Len(<<o>>) = 1
  BY <1>2, OneOf
<1>6. b \in Seq(Plain) /\ Len(b) = Len(watchdog_set) + Len(<<o>>)
  BY <1>4, <1>5, ConcatProperties
<1>7. Len(b) = 4 /\ b \in Seq(Instr) /\ \A k \in 1 .. Len(b) : b[k].op # "low?"
  <2> HIDE DEF b
  <2>1. Len(b) = 4
    BY <1>4, <1>5, <1>6
  <2>2. b \in Seq(Instr)
    BY <1>6, SeqMonotonic DEF Plain
  <2>3. \A k \in 1 .. Len(b) : b[k] \in Plain
    BY <1>6, ElementOfSeq
  <2> QED BY <2>1, <2>2, <2>3 DEF Plain
<1>8. SetOnce = a \o b
  <2>1. watchdog_set \in Seq(Instr) /\ <<o>> \in Seq(Instr)
    BY <1>4, <1>5, SeqMonotonic DEF Plain
  <2>2. SetOnce = (a \o watchdog_set) \o <<o>>
    BY DEF SetOnce, o
  <2> HIDE DEF a
  <2>3. (a \o watchdog_set) \o <<o>> = a \o (watchdog_set \o <<o>>)
    BY <1>3, <2>1, ConcatAssociative
  <2> QED BY <2>2, <2>3
<1> HIDE DEF a, b
<1>9. /\ SetOnce \in Seq(Instr) /\ Len(SetOnce) = Len(a) + Len(b)
      /\ \A k \in 1 .. Len(a) + Len(b) : SetOnce[k] = IF k <= Len(a) THEN a[k] ELSE b[k - Len(a)]
  BY <1>3, <1>7, <1>8, ConcatProperties
<1>10. Len(SetOnce) = 6
  BY <1>3, <1>7, <1>9
<1>11. ASSUME NEW k \in 1 .. 6, SetOnce[k].op = "low?" PROVE k = 2
  <2>1. CASE k > 2
    <3>1. SetOnce[k] = b[k - 2] /\ k - 2 \in 1 .. Len(b)
      BY <1>3, <1>7, <1>9, <2>1
    <3> QED BY <1>7, <1>11, <3>1
  <2>2. CASE k = 1
    <3>1. SetOnce[k] = Ins("VALUE")
      BY <1>3, <1>7, <1>9, <2>2
    <3> QED BY <1>1, <1>11, <3>1
  <2> QED BY <2>1, <2>2
<1>12. \A k \in 1 .. 6 : SetOnce[k] \in Instr
  BY <1>9, <1>10, ElementOfSeq
<1> QED BY <1>10, <1>11, <1>12

LEMMA PartTexts == Text(RegisterAccesses) /\ Text(SetRegularly)
<1>1. Text(RegisterAccesses)
  <2>1. \A n \in 1 .. 10 : RegisterAccesses[n] \in Instr /\ RegisterAccesses[n].op # "low?"
    BY Instructions, DemoAssumption DEF RegisterAccesses
  <2>2. RegisterAccesses \in Seq(Instr) /\ Len(RegisterAccesses) = 10
    BY <2>1 DEF RegisterAccesses
  <2> QED BY <2>1, <2>2 DEF Text
<1>2. Text(SetRegularly)
  <2>2. \A n \in 1 .. 6 * Repeats : ((n - 1) % 6) + 1 \in 1 .. 6
    BY DemoAssumption
  <2>3. \A n \in 1 .. 6 * Repeats : SetRegularly[n] \in Instr
    BY SetOnceText, <2>2 DEF SetRegularly
  <2>4. SetRegularly \in Seq(Instr) /\ Len(SetRegularly) = 6 * Repeats
    BY <2>3, DemoAssumption DEF SetRegularly
  <2>5. 1 \in 1 .. 6 * Repeats => SetRegularly[1].op # "low?"
    <3>1. ((1 - 1) % 6) + 1 = 1
      OBVIOUS
    <3>2. 1 \in 1 .. 6 * Repeats => SetRegularly[1] = SetOnce[1]
      BY <3>1 DEF SetRegularly
    <3> QED BY <3>2, SetOnceText
  <2> QED BY <2>4, <2>5, DemoAssumption DEF Text
<1> QED BY <1>1, <1>2

LEMMA EndsWith ==
  ASSUME NEW a, Text(a), NEW i \in Instr, i.op # "low?"
  PROVE  /\ Text(a \o <<i>>) /\ Len(a \o <<i>>) \in Nat \ {0}
         /\ (a \o <<i>>)[Len(a \o <<i>>)] = i
<1>1. a \in Seq(Instr) /\ <<i>> \in Seq(Instr) /\ <<i>> \in Seq(Plain) /\ <<i>>[1] = i /\ Len(<<i>>) = 1
  BY OneOf DEF Text, Plain
<1>2. Len(a) \in Nat
  BY <1>1, LenProperties
<1>3. Len(a \o <<i>>) = Len(a) + Len(<<i>>)
      /\ \A k \in 1 .. Len(a) + Len(<<i>>) :
           (a \o <<i>>)[k] = IF k <= Len(a) THEN a[k] ELSE <<i>>[k - Len(a)]
  BY <1>1, ConcatProperties
<1>4. Len(a \o <<i>>) = Len(a) + 1
  BY <1>1, <1>3
<1>5. (a \o <<i>>)[Len(a) + 1] = <<i>>[1]
  BY <1>1, <1>2, <1>3
<1>6. Text(a \o <<i>>)
  BY <1>1, PlainText, TextConcat
<1> QED BY <1>1, <1>2, <1>4, <1>5, <1>6

\* Each part ends where it stays.
Prog(p) == IF p = 1 THEN Part1 ELSE Part2

LEMMA MainText ==
  ASSUME NEW p \in 1 .. 2
  PROVE  /\ Text(Prog(p)) /\ Len(Prog(p)) \in Nat \ {0}
         /\ Prog(p)[Len(Prog(p))].op \in {"spin", "passed"}
<1>1. CASE p = 1
  <2> DEFINE a == RegisterAccesses \o <<Set("reset_test", FALSE)>>
      \o watchdog_init(Long, 1) \o <<Set("nmi_occurred", FALSE), Set("nmi_expected", FALSE)>>
      \o SetRegularly
      \o watchdog_init(Short, 0) \o <<Test("no NMI")>>
      \o <<Set("nmi_occurred", FALSE), Set("nmi_expected", TRUE)>>
      \o watchdog_init(Short, 1) \o <<Ins("await NMI")>>
      \o watchdog_init(Short, 0)
      \o <<Set("nmi_occurred", FALSE), Set("nmi_expected", TRUE), Set("reset_test", TRUE)>>
      \o watchdog_init(Short, 2)
  <2>1. /\ Text(<<Set("reset_test", FALSE)>>)
        /\ Text(<<Set("nmi_occurred", FALSE), Set("nmi_expected", FALSE)>>)
        /\ Text(<<Set("nmi_occurred", FALSE), Set("nmi_expected", TRUE)>>)
        /\ Text(<<Set("nmi_occurred", FALSE), Set("nmi_expected", TRUE),
                  Set("reset_test", TRUE)>>)
    <3>1. <<Set("reset_test", FALSE)>> \in Seq(Plain)
      BY PlainInstructions, OneOf
    <3>2. <<Set("nmi_occurred", FALSE), Set("nmi_expected", FALSE)>> \in Seq(Plain)
      BY PlainInstructions, TwoOf
    <3>3. <<Set("nmi_occurred", FALSE), Set("nmi_expected", TRUE)>> \in Seq(Plain)
      BY PlainInstructions, TwoOf
    <3>4. <<Set("nmi_occurred", FALSE), Set("nmi_expected", TRUE),
            Set("reset_test", TRUE)>> \in Seq(Plain)
      BY PlainInstructions, ThreeOf
    <3> QED BY <3>1, <3>2, <3>3, <3>4, PlainText
  <2>2. Text(<<Test("no NMI")>>) /\ Text(<<Ins("await NMI")>>)
    <3>1. <<Test("no NMI")>> \in Seq(Plain)
      BY PlainTests, OneOf
    <3>2. <<Ins("await NMI")>> \in Seq(Plain)
      BY PlainIns, OneOf
    <3> QED BY <3>1, <3>2, PlainText
  <2>3. /\ Text(watchdog_init(Long, 1)) /\ Text(watchdog_init(Short, 0))
        /\ Text(watchdog_init(Short, 1)) /\ Text(watchdog_init(Short, 2))
    BY WatchdogInit, PlainText, DemoAssumption
  <2>4. Text(a)
    BY <2>1, <2>2, <2>3, PartTexts, TextConcat
  <2>5. Prog(p) = a \o <<Ins("spin")>>
    BY <1>1 DEF Prog, Part1
  <2>6. Ins("spin") \in Instr /\ Ins("spin").op = "spin"
    BY PlainIns
  <2> HIDE DEF a
  <2>7. /\ Text(a \o <<Ins("spin")>>) /\ Len(a \o <<Ins("spin")>>) \in Nat \ {0}
        /\ (a \o <<Ins("spin")>>)[Len(a \o <<Ins("spin")>>)] = Ins("spin")
    BY <2>4, <2>6, EndsWith
  <2> QED BY <2>5, <2>6, <2>7
<1>2. CASE p = 2
  <2>1. /\ Ins("clear RSTINFO") \in Plain /\ Ins("nop") \in Plain
        /\ Ins("passed") \in Plain /\ Ins("passed").op = "passed"
    BY PlainIns
  <2>2. Part2 \in Seq(Plain) /\ Len(Part2) = 19 /\ Part2[19] = Ins("passed")
    BY <2>1, PlainInstructions, PlainTests, NineteenOf DEF Part2
  <2>3. Text(Part2) /\ Prog(p) = Part2
    BY <1>2, <2>2, PlainText DEF Prog
  <2>4. Len(Prog(p)) = 19 /\ Prog(p)[19].op = "passed"
    BY <2>1, <2>2, <2>3
  <2> QED BY <2>3, <2>4
<1>3. p = 1 \/ p = 2
  OBVIOUS
<1> QED BY <1>1, <1>2, <1>3

\* The handler ends by returning.
LEMMA HandlerText ==
  /\ NMI_Handler \in Seq(Plain) /\ Len(NMI_Handler) = 10
  /\ NMI_Handler[10].op = "return"
<1> DEFINE h == <<Ins("spin if reset_test")>>
           c == watchdog_irq_clear
           t == <<Set("nmi_occurred", TRUE), Test("NMI expected"),
                  Ins("return unless integration_test"), Unlock, Itop(FALSE), Ins("return")>>
<1>1. /\ Ins("spin if reset_test") \in Plain /\ Ins("INTCLR") \in Plain
      /\ Ins("return unless integration_test") \in Plain
      /\ Ins("return") \in Plain /\ Ins("return").op = "return"
  BY PlainIns
<1>2. h \in Seq(Plain) /\ Len(h) = 1
  BY <1>1, OneOf
<1>3. c \in Seq(Plain) /\ Len(c) = 3
  BY <1>1, PlainInstructions, ThreeOf DEF watchdog_irq_clear
<1>4. t \in Seq(Plain) /\ Len(t) = 6 /\ t[6] = Ins("return")
  BY <1>1, PlainInstructions, PlainTests, SixOf
<1>5. NMI_Handler = (h \o c) \o t
  BY DEF NMI_Handler
<1> HIDE DEF h, c, t
<1>6. h \o c \in Seq(Plain) /\ Len(h \o c) = Len(h) + Len(c)
  BY <1>2, <1>3, ConcatProperties
<1> DEFINE d == h \o c
<1>7. d \in Seq(Plain) /\ Len(d) = 4
  BY <1>2, <1>3, <1>6
<1> HIDE DEF d
<1>8. /\ d \o t \in Seq(Plain) /\ Len(d \o t) = Len(d) + Len(t)
      /\ \A k \in 1 .. Len(d) + Len(t) : (d \o t)[k] = IF k <= Len(d) THEN d[k] ELSE t[k - Len(d)]
  BY <1>4, <1>7, ConcatProperties
<1>9. Len(d \o t) = 10 /\ (d \o t)[10] = t[6]
  BY <1>4, <1>7, <1>8
<1>10. NMI_Handler = d \o t
  BY <1>5 DEF d
<1> QED BY <1>1, <1>4, <1>8, <1>9, <1>10

\* The instruction that is due, and what follows it.
LEMMA CurrentInstr ==
  ASSUME DemoTypeOK
  PROVE  /\ Current \in Instr
         /\ pc \in Nat \ {0} /\ Len(Main) \in Nat \ {0}
         /\ InHandler => Current.op # "low?"
         /\ ~InHandler /\ Current.op = "low?" => pc > 1
         /\ ~InHandler /\ Current.op \notin {"spin", "passed"} => pc < Len(Main)
         /\ InHandler /\ Current.op # "return" => hpc < Len(NMI_Handler)
<1>1. /\ Text(Main) /\ Len(Main) \in Nat \ {0}
      /\ Main[Len(Main)].op \in {"spin", "passed"}
  <2>1. Main = Prog(part)
    BY DEF Main, Prog
  <2> QED BY <2>1, MainText DEF DemoTypeOK
<1>2. Main \in Seq(Instr) /\ \A k \in 1 .. Len(Main) : Main[k].op = "low?" => k > 1
  BY <1>1 DEF Text
<1>3. /\ pc \in 1 .. Len(Main) /\ hpc \in 0 .. Len(NMI_Handler)
  BY DEF DemoTypeOK
<1>4. CASE InHandler
  <2>1. hpc \in 1 .. 10
    BY <1>3, <1>4, HandlerText DEF InHandler
  <2>2. NMI_Handler[hpc] \in Plain
    BY <2>1, HandlerText, ElementOfSeq
  <2>3. Current = NMI_Handler[hpc]
    BY <1>4 DEF Current
  <2>4. Current.op # "return" => hpc < 10
    BY <2>1, <2>3, HandlerText
  <2> QED BY <1>1, <1>3, <1>4, <2>2, <2>3, <2>4, HandlerText DEF Plain
<1>5. CASE ~InHandler
  <2>1. Current = Main[pc]
    BY <1>5 DEF Current
  <2>2. Main[pc] \in Instr
    BY <1>2, <1>3, ElementOfSeq
  <2>3. pc = Len(Main) => Current.op \in {"spin", "passed"}
    BY <1>1, <2>1
  <2>4. Current.op = "low?" => pc > 1
    BY <1>2, <1>3, <2>1
  <2> QED BY <1>1, <1>3, <1>5, <2>1, <2>2, <2>3, <2>4
<1> QED BY <1>4, <1>5

\* An fclk edge of the running processor keeps every type if what it does to
\* the program's own state does.
LEMMA CpuStepTypes ==
  ASSUME DemoTypeOK, FclkEdge, AnyPclkEdge, UNCHANGED <<cpu, part>>,
         sysctrl_write' \in {NoWrite, [reg |-> "RSTINFO", clear |-> {"wdog"}]},
         pc' \in 1 .. Len(Main), hpc' \in 0 .. Len(NMI_Handler),
         sw' \in [DOMAIN Software0 -> BOOLEAN], lag' \in 0 .. MaxLag,
         outcome' \in {"running", "error", "passed"}
  PROVE  DemoTypeOK'
<1>1. /\ TypeOK'
      /\ reg_sys_rst_n' \in BOOLEAN
      /\ reg_resetinfo' \in SUBSET Causes
      /\ reg_lockupreset' \in BOOLEAN
  BY FclkTypes DEF DemoTypeOK
<1>2. sysctrl_write' \in SysctrlWrites \cup {NoWrite}
  <2>1. [reg |-> "RSTINFO", clear |-> {"wdog"}] \in [reg : {"RSTINFO"}, clear : ClearMasks]
    BY DemoAssumption
  <2> QED BY <2>1 DEF SysctrlWrites
<1>3. SocTypeOK'
  BY <1>1, <1>2 DEF DemoTypeOK, SocTypeOK
<1>4. Main' = Main
  BY DEF Main
<1>5. pc' \in 1 .. Len(Main')
  BY <1>4
<1>6. part' \in 1 .. 2
  BY DEF DemoTypeOK
<1> QED BY <1>3, <1>5, <1>6 DEF DemoTypeOK

LEMMA ProcessorTypes ==
  ASSUME DemoTypeOK, Processor
  PROVE  DemoTypeOK'
<1> USE DEF DemoTypeOK
<1>0. UNCHANGED <<cpu, part>>
  BY DEF Processor
<1>1. /\ Current \in Instr
      /\ pc \in 1 .. Len(Main) /\ Len(Main) \in Nat \ {0}
      /\ hpc \in 0 .. Len(NMI_Handler) /\ Len(NMI_Handler) = 10
      /\ InHandler => Current.op # "low?"
      /\ ~InHandler /\ Current.op = "low?" => pc > 1
      /\ ~InHandler /\ Current.op \notin {"spin", "passed"} => pc < Len(Main)
      /\ InHandler /\ Current.op # "return" => hpc < Len(NMI_Handler)
  BY CurrentInstr, HandlerText
<1>2. NoSetup => AnyPclkEdge
  BY DEF AnyPclkEdge
<1>3. /\ sw \in [DOMAIN Software0 -> BOOLEAN] /\ lag \in 0 .. MaxLag /\ 0 \in 0 .. MaxLag
      /\ outcome \in {"running", "error", "passed"}
  BY DemoAssumption
<1> DEFINE PlaceOK == pc' \in 1 .. Len(Main) /\ hpc' \in 0 .. Len(NMI_Handler)
<1>4. ASSUME Step, Current.op \notin {"spin", "passed", "return"} PROVE PlaceOK
  <2>1. CASE InHandler
    BY <1>1, <1>4, <2>1 DEF Step, GoTo
  <2>2. CASE ~InHandler
    BY <1>1, <1>4, <2>2 DEF Step, GoTo
  <2> QED BY <2>1, <2>2
<1>5. CASE AccessEdge
  <2>1. PlaceOK
    <3>1. CASE Current.op = "low?" /\ Val(prdata) < Threshold
      BY <1>4, <1>5, <3>1 DEF AccessEdge
    <3>2. CASE Current.op = "low?" /\ ~(Val(prdata) < Threshold)
      BY <1>1, <1>5, <3>2 DEF AccessEdge, GoTo
    <3>3. CASE Current.op # "low?"
      BY <1>1, <1>5, <3>3 DEF AccessEdge, GoTo
    <3> QED BY <3>1, <3>2, <3>3
  <2> QED BY <1>0, <1>2, <1>3, <1>5, <2>1, CpuStepTypes DEF AccessEdge, NoBus
<1>6. CASE Idle
  <2>1. PlaceOK
    BY <1>1, <1>6 DEF Idle
  <2>2. lag' \in 0 .. MaxLag
    BY <1>3, <1>6, DemoAssumption DEF Idle
  <2> QED BY <1>0, <1>2, <1>3, <1>6, <2>1, <2>2, CpuStepTypes DEF Idle, NoBus
<1>7. CASE TakeNmi
  <2>1. PlaceOK
    BY <1>1, <1>7 DEF TakeNmi, GoTo
  <2> QED BY <1>0, <1>2, <1>3, <1>7, <2>1, CpuStepTypes DEF TakeNmi, NoBus
<1>8. CASE BusInstruction
  <2>1. PlaceOK
    BY <1>4, <1>8 DEF BusInstruction, Ready
  <2>2. AnyPclkEdge
    <3> USE <1>1, <1>8 DEF BusInstruction, Instr, AnyPclkEdge
    <3>1. CASE Current.op = "LOAD"
      BY <3>1
    <3>2. CASE Current.op = "CTRL"
      BY <3>2
    <3>3. CASE Current.op = "INTCLR"
      BY <3>3
    <3>4. CASE Current.op = "LOCK"
      BY <3>4
    <3>5. CASE Current.op = "ITCR"
      BY <3>5
    <3>6. CASE Current.op = "ITOP"
      BY <3>6
    <3>7. CASE Current.op = "VALUE"
      BY <3>7 DEF Registers
    <3> QED BY <3>1, <3>2, <3>3, <3>4, <3>5, <3>6, <3>7 DEF Ready
  <2> QED BY <1>0, <1>3, <1>8, <2>1, <2>2, CpuStepTypes DEF BusInstruction, Ready
<1>9. CASE ClearResetInfo
  <2>1. PlaceOK
    BY <1>4, <1>9 DEF ClearResetInfo, Ready
  <2> QED BY <1>0, <1>2, <1>3, <1>9, <2>1, CpuStepTypes DEF ClearResetInfo, Ready
<1>10. CASE SoftwareStep
  <2>1. PlaceOK
    <3>1. CASE \/ Current.op = "return"
               \/ Current.op = "return unless integration_test" /\ ~sw.integration_test
      <4>1. GoTo(pc, 0)
        BY <1>10, <3>1 DEF SoftwareStep
      <4> QED BY <1>1, <4>1 DEF GoTo
    <3>2. CASE /\ Current.op # "return"
               /\ ~(Current.op = "return unless integration_test" /\ ~sw.integration_test)
      <4>1. CASE Current.op = "passed"
        <5>1. GoTo(pc, hpc)
          BY <1>10, <3>2, <4>1 DEF SoftwareStep
        <5> QED BY <1>1, <5>1 DEF GoTo
      <4>2. CASE Current.op # "passed"
        <5>1. Step
          BY <1>10, <3>2, <4>2 DEF SoftwareStep
        <5>2. Current.op # "spin"
          BY <1>10 DEF SoftwareStep, Ready
        <5> QED BY <1>4, <3>2, <4>2, <5>1, <5>2
      <4> QED BY <4>1, <4>2
    <3> QED BY <3>1, <3>2
  <2>2. sw' \in [DOMAIN Software0 -> BOOLEAN]
    <3>1. CASE Current.op = "set"
      BY <1>1, <1>3, <1>10, <3>1 DEF SoftwareStep, Instr
    <3>2. CASE Current.op # "set"
      BY <1>3, <1>10, <3>2 DEF SoftwareStep
    <3> QED BY <3>1, <3>2
  <2>3. outcome' \in {"running", "error", "passed"}
    BY <1>10 DEF SoftwareStep
  <2> QED BY <1>0, <1>2, <1>3, <1>10, <2>1, <2>2, <2>3, CpuStepTypes DEF SoftwareStep, Ready, NoBus
<1>11. CASE Wait
  <2>1. PlaceOK
    <3>1. CASE Current.op # "spin" /\ Step
      BY <1>4, <1>11, <3>1 DEF Wait, Ready
    <3>2. CASE GoTo(pc, hpc)
      BY <1>1, <3>2 DEF GoTo
    <3> QED BY <1>11, <3>1, <3>2 DEF Wait
  <2> QED BY <1>0, <1>2, <1>3, <1>11, <2>1, CpuStepTypes DEF Wait, Ready, NoBus
<1> QED BY <1>5, <1>6, <1>7, <1>8, <1>9, <1>10, <1>11 DEF Processor

\* The program stays within its text and its variables keep their types, on
\* every path through the two parts, the NMI handler and the reset between.
THEOREM DemoTypeCorrect == DemoSpec => []DemoTypeOK
<1>1. DemoInit => DemoTypeOK
  <2>1. SocInit => SocTypeOK
    BY SocInitTypes
  <2>2. ASSUME DemoInit PROVE pc \in 1 .. Len(Main)
    <3>1. Main = Prog(1) /\ pc = 1
      BY <2>2 DEF DemoInit, Main, Prog
    <3>2. Len(Prog(1)) \in Nat \ {0}
      BY MainText
    <3> QED BY <3>1, <3>2
  <2> QED BY <2>1, <2>2, HandlerText, DemoAssumption DEF DemoInit, DemoTypeOK, Software0
<1>2. ASSUME DemoTypeOK, [DemoNext]_demoVars PROVE DemoTypeOK'
  <2>1. CASE Processor
    BY <1>2, <2>1, ProcessorTypes
  <2>2. CASE Boot
    <3>1. SocTypeOK'
      BY <1>2, <2>2, SocStepTypes DEF Boot, DemoTypeOK, SocNext
    <3>2. part' \in 1 .. 2
      BY <2>2 DEF Boot
    <3>3. Len(Main') \in Nat \ {0}
      <4>1. Main' = Prog(part')
        BY DEF Main, Prog
      <4> QED BY <3>2, <4>1, MainText
    <3>4. pc' \in 1 .. Len(Main')
      BY <2>2, <3>3 DEF Boot
    <3> QED BY <2>2, <3>1, <3>2, <3>4, HandlerText, DemoAssumption DEF Boot, DemoTypeOK, Software0
  <2>3. CASE EnterReset /\ UNCHANGED progVars
    <3>1. SocTypeOK'
      BY <1>2, <2>3, SocStepTypes DEF DemoTypeOK, SocNext
    <3>2. Main' = Main
      BY <2>3 DEF progVars, Main
    <3> QED BY <1>2, <2>3, <3>1, <3>2 DEF DemoTypeOK, progVars
  <2>4. CASE UNCHANGED demoVars
    <3>1. SocTypeOK'
      BY <1>2, <2>4, SocStepTypes DEF DemoTypeOK, demoVars
    <3>2. Main' = Main
      BY <2>4 DEF demoVars, progVars, Main
    <3> QED BY <1>2, <2>4, <3>1, <3>2 DEF DemoTypeOK, demoVars, progVars
  <2> QED BY <1>2, <2>1, <2>2, <2>3, <2>4 DEF DemoNext, Ended
<1> QED BY <1>1, <1>2, PTL DEF DemoSpec
=============================================================================
