--------------------------- MODULE DualTimerProofs ---------------------------
(***************************************************************************)
(* Proofs about the dual timer for every halfword size, every prescaler    *)
(* and every set of values that software writes.  TypeOK with              *)
(* CarriesMatchCount is inductive.  A lemma about one timer and one edge   *)
(* does the work; the bus adds that a write to LOAD is followed by an edge *)
(* without a setup phase.                                                  *)
(***************************************************************************)
EXTENDS DualTimerDemo, StatementsProofs

LEMMA HalfWords ==
  /\ Zero \in Word /\ AllOnes \in Word
  /\ \A h \in HalfWord : Minus1(h) \in HalfWord /\ (Minus1(h) = 0 <=> h = 1)
BY HalfAssumption DEF Zero, AllOnes, Word, HalfWord, Minus1

LEMMA ResetFacts == Reset1 \in Frc /\ Matches(Reset1) /\ ~Reset1.load_en_reg
<1>1. Reset1 \in Frc
  BY HalfWords, PrescaleAssumption DEF Reset1, Frc, Ctrl
<1>2. Matches(Reset1) /\ ~Reset1.load_en_reg
  BY HalfAssumption DEF Reset1, Matches, AllOnes
<1> QED BY <1>1, <1>2

LEMMA PrescaleType == ASSUME NEW r \in Frc PROVE nxt_prescale(r) \in 0 .. Slow - 1
<1>1. r.prescale_cnt \in 0 .. Slow - 1 /\ r.load_req_t \in BOOLEAN /\ r.ctrl \in Ctrl
  BY DEF Frc
<1>2. r.ctrl.en \in BOOLEAN
  BY <1>1 DEF Ctrl
<1>3. 0 \in 0 .. Slow - 1 /\ (r.prescale_cnt + Slow - 1) % Slow \in 0 .. Slow - 1
  BY <1>1, PrescaleAssumption
<1> QED BY <1>1, <1>2, <1>3 DEF nxt_prescale

LEMMA Signals ==
  ASSUME NEW r \in Frc
  PROVE  /\ carry_msb(r) \in BOOLEAN /\ restart(r) \in BOOLEAN
         /\ count_en(r) \in BOOLEAN /\ stop1shot(r) \in BOOLEAN
         /\ int_clr_t(r) \in BOOLEAN /\ nxt_raw_intfrc(r) \in BOOLEAN
         /\ load_tog_en(r) \in BOOLEAN
         /\ nxt_carry(r) \in [c0 : BOOLEAN, c1 : BOOLEAN]
<1>1. /\ r.ctrl \in Ctrl /\ r.carry \in [c0 : BOOLEAN, c1 : BOOLEAN]
      /\ r.load_req_t \in BOOLEAN /\ r.load_en_reg \in BOOLEAN /\ r.stop_reg \in BOOLEAN
      /\ r.int_clr_pulse_t \in BOOLEAN /\ r.int_clr_reg_t \in BOOLEAN /\ r.raw_intfrc \in BOOLEAN
  BY DEF Frc
<1>2. /\ r.ctrl.en \in BOOLEAN /\ r.ctrl.size \in BOOLEAN /\ r.ctrl.mode \in BOOLEAN
      /\ r.ctrl.one_shot \in BOOLEAN /\ r.carry.c0 \in BOOLEAN /\ r.carry.c1 \in BOOLEAN
  BY <1>1 DEF Ctrl
<1>3. carry_msb(r) \in BOOLEAN
  BY <1>2 DEF carry_msb
<1>4. nxt_carry_0(r) \in BOOLEAN /\ nxt_carry_1(r) \in BOOLEAN
  BY DEF nxt_carry_0, nxt_carry_1
<1>5. restart(r) \in BOOLEAN /\ stop1shot(r) \in BOOLEAN /\ int_clr_t(r) \in BOOLEAN
  BY DEF restart, stop1shot, int_clr_t
<1>6. count_en(r) \in BOOLEAN /\ nxt_raw_intfrc(r) \in BOOLEAN /\ load_tog_en(r) \in BOOLEAN
  BY DEF count_en, nxt_raw_intfrc, load_tog_en
<1> QED BY <1>3, <1>4, <1>5, <1>6 DEF nxt_carry

LEMMA CountType == ASSUME NEW r \in Frc
                   PROVE  nxt_count(r) \in Word /\ count_mux_1(r) \in Word
<1>1. /\ r.count \in Word /\ r.load_val \in Word /\ r.load_period \in Word
      /\ r.load_req_t \in BOOLEAN
  BY DEF Frc
<1>2. r.count.hi \in HalfWord /\ r.count.lo \in HalfWord
  BY <1>1 DEF Word
<1>3. Minus1(r.count.hi) \in HalfWord /\ Minus1(r.count.lo) \in HalfWord
  BY <1>2, HalfWords
<1>4. nxt_count(r) \in Word
  BY <1>2, <1>3 DEF nxt_count, Word
<1> QED BY <1>1, <1>4, Signals DEF count_mux_1, restart

LEMMA EdgeType == ASSUME NEW r \in Frc, NEW b \in Setups PROVE Edge(r, b) \in Frc
<1>1. /\ (b.op = "CTRL") => b.ctrl \in Ctrl
      /\ (b.op \in {"LOAD", "BGLOAD"}) => b.word \in Word
  BY DEF Setups
<1>2. /\ r.ctrl \in Ctrl /\ r.load_val \in Word /\ r.load_period \in Word
      /\ r.count \in Word /\ r.carry \in [c0 : BOOLEAN, c1 : BOOLEAN]
  BY DEF Frc
<1>3. /\ nxt_prescale(r) \in 0 .. Slow - 1 /\ count_mux_1(r) \in Word
      /\ nxt_carry(r) \in [c0 : BOOLEAN, c1 : BOOLEAN]
      /\ stop1shot(r) \in BOOLEAN /\ int_clr_t(r) \in BOOLEAN
      /\ nxt_raw_intfrc(r) \in BOOLEAN /\ load_tog_en(r) \in BOOLEAN
  BY PrescaleType, CountType, Signals
<1>4. /\ (IF b.op = "CTRL" THEN b.ctrl ELSE r.ctrl) \in Ctrl
      /\ (IF b.op = "LOAD" THEN b.word ELSE r.load_val) \in Word
      /\ (IF b.op \in {"LOAD", "BGLOAD"} THEN b.word ELSE r.load_period) \in Word
      /\ (IF count_en(r) THEN count_mux_1(r) ELSE r.count) \in Word
      /\ (IF count_en(r) THEN nxt_carry(r) ELSE r.carry) \in [c0 : BOOLEAN, c1 : BOOLEAN]
  BY <1>1, <1>2, <1>3
<1> QED BY <1>3, <1>4 DEF Edge, Frc

\* What an edge does to the low halfword and its carry.
LEMMA EdgeMatches ==
  ASSUME NEW r \in Frc, NEW b \in Setups, Matches(r), r.load_en_reg => b = NoSetup
  PROVE  Matches(Edge(r, b))
<1> DEFINE e == Edge(r, b)
<1>1. /\ r.count \in Word /\ r.load_val \in Word /\ r.load_period \in Word
      /\ r.load_req_t \in BOOLEAN /\ r.load_en_reg \in BOOLEAN
  BY DEF Frc
<1>2. r.count.lo \in HalfWord
  BY <1>1 DEF Word
<1>3. /\ e.count = IF count_en(r) THEN count_mux_1(r) ELSE r.count
      /\ e.carry = IF count_en(r) THEN nxt_carry(r) ELSE r.carry
      /\ e.load_val = IF b.op = "LOAD" THEN b.word ELSE r.load_val
      /\ e.load_period = IF b.op \in {"LOAD", "BGLOAD"} THEN b.word ELSE r.load_period
      /\ e.load_en_reg = (b.op = "LOAD") /\ e.load_req_t = load_tog_en(r)
  BY DEF Edge
<1>4. ASSUME count_en(r) PROVE (e.carry.c0 <=> e.count.lo = 0) /\ (e.carry.c1 => e.carry.c0)
  <2>1. e.count = count_mux_1(r) /\ e.carry = nxt_carry(r)
    BY <1>3, <1>4
  <2>2. e.carry.c0 = nxt_carry_0(r) /\ e.carry.c1 = nxt_carry_1(r)
    BY <2>1 DEF nxt_carry
  <2>3. CASE restart(r)
    <3>1. count_mux_1(r) = r.load_period
      BY <2>3, <1>1 DEF count_mux_1, restart, Matches
    <3>2. nxt_carry_0(r) = (r.load_period.lo = 0)
      BY <2>3 DEF nxt_carry_0
    <3> QED BY <2>1, <2>2, <3>1, <3>2 DEF nxt_carry_1
  <2>4. CASE ~restart(r)
    <3>1. count_mux_1(r) = nxt_count(r)
      BY <2>4 DEF count_mux_1, restart
    <3>2. nxt_carry_0(r) = (r.count.lo = 1)
      BY <2>4 DEF nxt_carry_0
    <3>3. nxt_count(r).lo = Minus1(r.count.lo)
      BY DEF nxt_count
    <3>4. Minus1(r.count.lo) = 0 <=> r.count.lo = 1
      BY <1>2, HalfWords
    <3> QED BY <2>1, <2>2, <3>1, <3>2, <3>3, <3>4 DEF nxt_carry_1
  <2> QED BY <2>3, <2>4
<1>5. ASSUME ~count_en(r) PROVE (e.carry.c0 <=> e.count.lo = 0) /\ (e.carry.c1 => e.carry.c0)
  BY <1>3, <1>5 DEF Matches
<1>6. (e.load_en_reg \/ e.load_req_t) => e.load_val = e.load_period
  <2>1. CASE b.op = "LOAD"
    BY <1>3, <2>1
  <2>2. CASE b.op # "LOAD" /\ r.load_en_reg
    <3>1. b.op = "none" /\ r.load_val = r.load_period
      BY <2>2 DEF Matches, NoSetup
    <3> QED BY <1>3, <3>1
  <2>3. CASE b.op # "LOAD" /\ ~r.load_en_reg
    BY <1>3, <2>3 DEF load_tog_en
  <2> QED BY <2>1, <2>2, <2>3
<1>7. e.load_en_reg => ~e.load_req_t
  <2>1. NoSetup.op # "LOAD"
    BY DEF NoSetup
  <2>2. b.op = "LOAD" => ~r.load_en_reg
    BY <2>1
  <2>3. load_tog_en(r) => r.load_en_reg
    BY DEF load_tog_en
  <2>4. e.load_en_reg = (b.op = "LOAD") /\ e.load_req_t = load_tog_en(r)
    BY <1>3
  <2> HIDE DEF e
  <2> QED BY <2>2, <2>3, <2>4
<1> QED BY <1>4, <1>5, <1>6, <1>7 DEF Matches

\* A bus edge, whatever is written: Next with every value of its type.
AnyNext ==
  \/ NoAccess \/ OtherAccess
  \/ \E t \in Timers, b \in Setups : WriteTimer(t, b)
  \/ \E b \in BOOLEAN : WriteItcr(b)
  \/ \E T \in SUBSET Timers : WriteItop(T)

LEMMA SetupFacts ==
  /\ NoSetup \in Setups /\ NoSetup.op # "LOAD" /\ IntClr \in Setups
  /\ \A w \in Word : Load(w) \in Setups /\ LoadBg(w) \in Setups
  /\ \A c \in Ctrl : Control(c) \in Setups
BY DEF NoSetup, IntClr, Load, LoadBg, Control, Setups

LEMMA NextIsAny == Next => AnyNext
<1> SUFFICES ASSUME Next PROVE AnyNext
  OBVIOUS
<1>1. CASE WriteLoad \/ WriteLoadBg \/ WriteCtrl \/ WriteIntClr
  <2>1. PICK t \in Timers, b \in Setups : WriteTimer(t, b)
    BY <1>1, AccessAssumption, SetupFacts DEF WriteLoad, WriteLoadBg, WriteCtrl, WriteIntClr
  <2> QED BY <2>1 DEF AnyNext
<1>2. CASE NoAccess \/ OtherAccess \/ WriteTest \/ WriteTestOutputs
  BY <1>2, AccessAssumption DEF WriteTest, WriteTestOutputs, AnyNext
<1> QED BY <1>1, <1>2 DEF Next

\* Every step gives each timer one edge, with a setup phase only when the bus
\* was free.
LEMMA StepIsEdge ==
  ASSUME AnyNext, NEW t \in Timers
  PROVE  \E b \in Setups : /\ frc'[t] = Edge(frc[t], b)
                           /\ b # NoSetup => access'
                           /\ access' \in BOOLEAN /\ (access' => ~access)
<1>1. CASE Counts /\ access' \in BOOLEAN /\ (access' => ~access)
  BY <1>1, SetupFacts DEF Counts
<1>2. ASSUME NEW u \in Timers, NEW b \in Setups, WriteTimer(u, b)
      PROVE  \E c \in Setups : /\ frc'[t] = Edge(frc[t], c)
                               /\ c # NoSetup => access'
                               /\ access' \in BOOLEAN /\ (access' => ~access)
  <2>1. CASE t = u
    BY <1>2, <2>1 DEF WriteTimer, Setup
  <2>2. CASE t # u
    BY <1>2, <2>2, SetupFacts DEF WriteTimer, Setup
  <2> QED BY <2>1, <2>2
<1> QED BY <1>1, <1>2 DEF AnyNext, NoAccess, OtherAccess, WriteItcr, WriteItop

LEMMA TestRegisters ==
  ASSUME TypeOK, AnyNext
  PROVE  itcr' \in BOOLEAN /\ itop' \in SUBSET Timers /\ access' \in BOOLEAN
BY DEF AnyNext, TypeOK, NoAccess, OtherAccess, WriteTimer, Setup, WriteItcr, WriteItop

LEMMA FrcDomain == ASSUME AnyNext PROVE frc' = [t \in Timers |-> frc'[t]]
<1>1. ASSUME NEW t, NEW b, Setup(t, b) PROVE frc' = [u \in Timers |-> frc'[u]]
  BY <1>1 DEF Setup
<1>2. CASE Counts
  BY <1>2 DEF Counts
<1> QED BY <1>1, <1>2 DEF AnyNext, NoAccess, OtherAccess, WriteTimer, WriteItcr, WriteItop

IInv == TypeOK /\ CarriesMatchCount

LEMMA Initially == Init => IInv
BY ResetFacts DEF Init, IInv, TypeOK, CarriesMatchCount

LEMMA Inductive == IInv /\ [AnyNext]_vars => IInv'
<1> SUFFICES ASSUME IInv, [AnyNext]_vars PROVE IInv'
  OBVIOUS
<1>1. CASE AnyNext
  <2>1. TypeOK /\ CarriesMatchCount
    BY DEF IInv
  <2>2. ASSUME NEW t \in Timers
        PROVE  /\ frc'[t] \in Frc /\ Matches(frc'[t])
               /\ frc'[t].load_en_reg => access'
    <3>1. PICK b \in Setups : /\ frc'[t] = Edge(frc[t], b)
                              /\ b # NoSetup => access'
                              /\ access' \in BOOLEAN /\ (access' => ~access)
      BY <1>1, <2>1, StepIsEdge
    <3>2. frc[t] \in Frc /\ Matches(frc[t]) /\ (frc[t].load_en_reg => access)
      BY <2>1 DEF TypeOK, CarriesMatchCount
    <3>3. (frc[t].load_en_reg => b = NoSetup) /\ (b.op = "LOAD" => access')
      BY <3>1, <3>2 DEF NoSetup
    <3>4. Edge(frc[t], b) \in Frc /\ Matches(Edge(frc[t], b))
      BY <3>2, <3>3, EdgeType, EdgeMatches
    <3>5. Edge(frc[t], b).load_en_reg = (b.op = "LOAD")
      BY DEF Edge
    <3> QED BY <3>1, <3>3, <3>4, <3>5
  <2>3. TypeOK'
    <3>1. frc' \in [Timers -> Frc]
      BY <1>1, <2>1, <2>2, FrcDomain
    <3> QED BY <1>1, <2>1, <3>1, TestRegisters DEF TypeOK
  <2>4. CarriesMatchCount'
    BY <2>2 DEF CarriesMatchCount, Matches
  <2> QED BY <2>3, <2>4 DEF IInv
<1>2. CASE UNCHANGED vars
  BY <1>2 DEF vars, IInv, TypeOK, CarriesMatchCount, Matches
<1> QED BY <1>1, <1>2

\* Every register keeps its type, whatever software does.
THEOREM TypeCorrect == Spec => []TypeOK
<1>1. IInv => TypeOK
  BY DEF IInv
<1> QED BY Initially, Inductive, NextIsAny, <1>1, PTL DEF Spec

\* The carries, computed an edge ahead, always say what the count is, and a
\* load puts the value into the counter whose carry was computed
\* (frc.v:371-429, 436-448).
THEOREM CarriesAreRight == Spec => []CarriesMatchCount
<1>1. IInv => CarriesMatchCount
  BY DEF IInv
<1> QED BY Initially, Inductive, NextIsAny, <1>1, PTL DEF Spec

-----------------------------------------------------------------------------
(* A word as a number.                                                     *)

LEMMA Multiples == \A k \in Int : (k >= 1 => k * Half >= Half) /\ (k <= -1 => k * Half <= -Half)
BY HalfAssumption

LowZero(n) == \E h \in 0 .. Half - 1 : n = h * Half

LEMMA WordValue ==
  ASSUME NEW w \in Word
  PROVE  /\ Val(w) \in 0 .. Half * Half - 1
         /\ Val(w) = 0 <=> w.hi = 0 /\ w.lo = 0
         /\ LowZero(Val(w)) <=> w.lo = 0
<1>1. w.hi \in 0 .. Half - 1 /\ w.lo \in 0 .. Half - 1 /\ Half \in Nat /\ Half >= 2
  BY HalfAssumption DEF Word, HalfWord
<1>2. Val(w) = w.hi * Half + w.lo
  BY DEF Val
<1>3. w.hi * Half \in Int /\ w.hi * Half >= 0 /\ (w.hi # 0 => w.hi * Half >= Half)
  BY <1>1, Multiples
<1>4. w.hi * Half <= (Half - 1) * Half
  BY <1>1
<1>5. (Half - 1) * Half = Half * Half - Half /\ Half * Half \in Int
  BY <1>1
<1>6. Val(w) \in 0 .. Half * Half - 1
  BY <1>1, <1>2, <1>3, <1>4, <1>5
<1>7. Val(w) = 0 <=> w.hi = 0 /\ w.lo = 0
  BY <1>1, <1>2, <1>3
<1>8. ASSUME w.lo = 0 PROVE LowZero(Val(w))
  <2>1. Val(w) = w.hi * Half
    BY <1>2, <1>3, <1>8
  <2> QED BY <1>1, <2>1, Zenon DEF LowZero
<1>9. ASSUME LowZero(Val(w)) PROVE w.lo = 0
  <2>1. PICK h \in 0 .. Half - 1 : Val(w) = h * Half
    BY <1>9 DEF LowZero
  <2>2. h - w.hi \in Int /\ (h - w.hi) * Half = h * Half - w.hi * Half
    BY <1>1
  <2>3. (h - w.hi) * Half = w.lo
    <3>1. \A p, q, v, d \in Int : d = p - q /\ v = q + w.lo /\ v = p => d = w.lo
      BY <1>1
    <3>2. h * Half \in Int /\ (h - w.hi) * Half \in Int /\ Val(w) \in Int
      BY <1>1, <1>6
    <3> HIDE DEF Val
    <3> QED BY <1>2, <1>3, <2>1, <2>2, <3>1, <3>2, Zenon
  <2>4. ~(h - w.hi >= 1) /\ ~(h - w.hi <= -1)
    BY <1>1, <2>2, <2>3, Multiples
  <2>5. h - w.hi = 0
    BY <1>1, <2>2, <2>4
  <2>6. (h - w.hi) * Half = 0
    BY <1>1, <2>5
  <2> QED BY <2>3, <2>6
<1> QED BY <1>6, <1>7, <1>8, <1>9

\* Counting down the halfwords counts the number down.
LEMMA DownValue ==
  ASSUME NEW r \in Frc, Matches(r)
  PROVE  Val(nxt_count(r)) =
           CASE r.ctrl.size /\ Val(r.count) = 0            -> Half * Half - 1
             [] ~r.ctrl.size /\ LowZero(Val(r.count))      -> Val(r.count) + Half - 1
             [] OTHER                                      -> Val(r.count) - 1
<1>1. r.count \in Word /\ r.ctrl \in Ctrl
  BY DEF Frc
<1>2. r.count.hi \in 0 .. Half - 1 /\ r.count.lo \in 0 .. Half - 1 /\ r.ctrl.size \in BOOLEAN
  BY <1>1 DEF Word, HalfWord, Ctrl
<1>3. /\ Val(r.count) = 0 <=> r.count.hi = 0 /\ r.count.lo = 0
      /\ LowZero(Val(r.count)) <=> r.count.lo = 0
  BY <1>1, WordValue
<1>4. Val(r.count) = r.count.hi * Half + r.count.lo
  BY DEF Val
<1>5. r.carry.c0 <=> r.count.lo = 0
  BY DEF Matches
<1>6. Half \in Nat /\ Half >= 2
  BY HalfAssumption
<1>7. /\ r.count.hi * Half \in Int
      /\ (r.count.hi - 1) * Half = r.count.hi * Half - Half
      /\ (Half - 1) * Half = Half * Half - Half /\ Half * Half \in Int
  BY <1>2, <1>6
<1>8. CASE r.count.lo # 0
  <2>1. Val(nxt_count(r)) = r.count.hi * Half + (r.count.lo - 1)
    BY <1>5, <1>8 DEF nxt_count, Val, Minus1
  <2> QED BY <1>2, <1>3, <1>4, <1>7, <1>8, <2>1
<1>9. CASE r.count.lo = 0 /\ ~r.ctrl.size
  <2>1. Val(nxt_count(r)) = r.count.hi * Half + (Half - 1)
    BY <1>9 DEF nxt_count, Val, Minus1
  <2> QED BY <1>2, <1>3, <1>4, <1>6, <1>7, <1>9, <2>1
<1>10. CASE r.count.lo = 0 /\ r.ctrl.size /\ r.count.hi = 0
  <2>1. Val(nxt_count(r)) = (Half - 1) * Half + (Half - 1)
    BY <1>5, <1>10 DEF nxt_count, Val, Minus1
  <2> QED BY <1>3, <1>6, <1>7, <1>10, <2>1
<1>11. CASE r.count.lo = 0 /\ r.ctrl.size /\ r.count.hi # 0
  <2>1. Val(nxt_count(r)) = (r.count.hi - 1) * Half + (Half - 1)
    BY <1>5, <1>11 DEF nxt_count, Val, Minus1
  <2> QED BY <1>2, <1>3, <1>4, <1>6, <1>7, <1>11, <2>1
<1> QED BY <1>2, <1>8, <1>9, <1>10, <1>11

-----------------------------------------------------------------------------
(* An edge is a step of the interval timer.                                *)

\* The registers that the bus and the handshakes write.
LEMMA EdgeHandshakes ==
  ASSUME NEW r \in Frc, NEW b \in Setups, Matches(r), r.load_en_reg => b = NoSetup
  PROVE  LET e == Edge(r, b) IN
         /\ IF b.op = "CTRL" THEN e.ctrl \in Ctrl ELSE e.ctrl = r.ctrl
         /\ IF b.op \in {"LOAD", "BGLOAD"} THEN Val(e.load_period) \in 0 .. Half * Half - 1
                                           ELSE e.load_period = r.load_period
         /\ Pending(r) = 1 <=> r.load_req_t
         /\ Pending(e) = CASE b.op = "LOAD"                     -> 2
                           [] b.op # "LOAD" /\ Pending(r) > 0   -> Pending(r) - 1
                           [] b.op # "LOAD" /\ Pending(r) = 0   -> 0
         /\ int_clr_t(e) = IF int_clr_t(r) THEN carry_msb(e) ELSE b.op = "INTCLR"
<1> DEFINE e == Edge(r, b)
<1>1. /\ (b.op = "CTRL") => b.ctrl \in Ctrl
      /\ (b.op \in {"LOAD", "BGLOAD"}) => b.word \in Word
  BY DEF Setups
<1>2. IF b.op = "CTRL" THEN e.ctrl \in Ctrl ELSE e.ctrl = r.ctrl
  BY <1>1 DEF Edge
<1>3. /\ b.op \in {"LOAD", "BGLOAD"} => e.load_period \in Word
      /\ b.op \notin {"LOAD", "BGLOAD"} => e.load_period = r.load_period
  BY <1>1 DEF Edge
<1>4. /\ e.load_en_reg = (b.op = "LOAD") /\ e.load_req_t = load_tog_en(r)
      /\ e.int_clr_pulse_t = (b.op = "INTCLR" /\ ~int_clr_t(r))
      /\ e.int_clr_reg_t = int_clr_t(r)
  BY DEF Edge
<1>5. /\ r.load_en_reg \in BOOLEAN /\ r.load_req_t \in BOOLEAN
      /\ r.load_en_reg => ~r.load_req_t /\ b.op # "LOAD"
  BY DEF Frc, Matches, NoSetup
<1>6. /\ Pending(r) \in 0 .. 2
      /\ Pending(r) = 2 <=> r.load_en_reg
      /\ Pending(r) = 1 <=> r.load_req_t
  BY <1>5 DEF Pending
<1>7. Pending(e) = CASE b.op = "LOAD" -> 2 [] b.op # "LOAD" /\ r.load_en_reg -> 1 [] OTHER -> 0
  BY <1>4, <1>5 DEF Pending, load_tog_en
<1>8. Pending(e) = CASE b.op = "LOAD"                     -> 2
                     [] b.op # "LOAD" /\ Pending(r) > 0   -> Pending(r) - 1
                     [] b.op # "LOAD" /\ Pending(r) = 0   -> 0
  <2> HIDE DEF e
  <2>1. CASE r.load_en_reg
    BY <1>5, <1>6, <1>7, <2>1
  <2>2. CASE ~r.load_en_reg
    BY <1>5, <1>6, <1>7, <2>2
  <2> QED BY <2>1, <2>2
<1>9. int_clr_t(e) = IF int_clr_t(r) THEN carry_msb(e) ELSE b.op = "INTCLR"
  <2>1. e \in Frc
    BY EdgeType
  <2>2. carry_msb(e) \in BOOLEAN /\ int_clr_t(r) \in BOOLEAN
    BY <2>1, Signals
  <2>3. int_clr_t(e) = (e.int_clr_pulse_t \/ (carry_msb(e) /\ e.int_clr_reg_t))
    BY DEF int_clr_t
  <2> HIDE DEF e
  <2> QED BY <1>4, <2>2, <2>3
<1> HIDE DEF e
<1>10. b.op \in {"LOAD", "BGLOAD"} => Val(e.load_period) \in 0 .. Half * Half - 1
  BY <1>3, WordValue
<1> QED BY <1>2, <1>3, <1>6, <1>8, <1>9, <1>10 DEF e

\* The count.
LEMMA EdgeCount ==
  ASSUME NEW r \in Frc, NEW b \in Setups, Matches(r)
  PROVE  LET e == Edge(r, b) IN
         /\ ~count_en(r) => Val(e.count) = Val(r.count)
         /\ count_en(r) /\ restart(r) => Val(e.count) = Val(r.load_period)
         /\ count_en(r) /\ ~restart(r) => Val(e.count) = Val(nxt_count(r))
<1>1. Edge(r, b).count = IF count_en(r) THEN count_mux_1(r) ELSE r.count
  BY DEF Edge
<1>2. restart(r) => count_mux_1(r) = r.load_period
  BY DEF restart, count_mux_1, Matches, Frc
<1>3. ~restart(r) => count_mux_1(r) = nxt_count(r)
  BY DEF restart, count_mux_1
<1> QED BY <1>1, <1>2, <1>3

\* The carry that the mode selects.
LEMMA EdgeZero ==
  ASSUME NEW r \in Frc, NEW b \in Setups, Matches(r), r.load_en_reg => b = NoSetup
  PROVE  LET e == Edge(r, b) IN
         /\ carry_msb(e) \in BOOLEAN
         /\ carry_msb(e) => LowZero(Val(e.count))
         /\ e.ctrl.size = r.ctrl.size =>
              carry_msb(e) = IF ~count_en(r) THEN carry_msb(r)
                             ELSE IF r.ctrl.size THEN Val(e.count) = 0 /\ ~carry_msb(r)
                             ELSE LowZero(Val(e.count))
<1> DEFINE e == Edge(r, b)
<1>1. e \in Frc /\ Matches(e)
  BY EdgeType, EdgeMatches
<1>2. e.count \in Word /\ e.count.lo \in HalfWord /\ e.count.hi \in HalfWord
  <2>1. e.count \in Word
    BY <1>1 DEF Frc
  <2> HIDE DEF e
  <2> QED BY <2>1 DEF Word
<1>3. /\ e.carry = IF count_en(r) THEN nxt_carry(r) ELSE r.carry
      /\ e.count = IF count_en(r) THEN count_mux_1(r) ELSE r.count
  BY DEF Edge
<1> HIDE DEF e
<1>4. /\ Val(e.count) = 0 <=> e.count.hi = 0 /\ e.count.lo = 0
      /\ LowZero(Val(e.count)) <=> e.count.lo = 0
  BY <1>2, WordValue
<1>5. /\ e.carry.c0 <=> e.count.lo = 0
      /\ e.carry.c1 => e.carry.c0
  BY <1>1 DEF Matches
<1>6. carry_msb(e) \in BOOLEAN /\ carry_msb(r) \in BOOLEAN /\ e.carry.c0 \in BOOLEAN
  <2>1. e.carry \in [c0 : BOOLEAN, c1 : BOOLEAN]
    BY <1>1 DEF Frc
  <2> QED BY <1>1, <2>1, Signals
<1>7. carry_msb(e) => LowZero(Val(e.count))
  BY <1>4, <1>5 DEF carry_msb
<1>8. ASSUME e.ctrl.size = r.ctrl.size, ~count_en(r) PROVE carry_msb(e) = carry_msb(r)
  BY <1>3, <1>8 DEF carry_msb
<1>9. ASSUME e.ctrl.size = r.ctrl.size, ~r.ctrl.size PROVE carry_msb(e) = LowZero(Val(e.count))
  <2>1. carry_msb(e) = e.carry.c0
    BY <1>9 DEF carry_msb
  <2>2. LowZero(Val(e.count)) \in BOOLEAN
    BY DEF LowZero
  <2> QED BY <1>4, <1>5, <1>6, <2>1, <2>2
<1>10. ASSUME e.ctrl.size = r.ctrl.size, r.ctrl.size, count_en(r)
       PROVE  carry_msb(e) = (Val(e.count) = 0 /\ ~carry_msb(r))
  <2>1. carry_msb(e) = nxt_carry_1(r) /\ e.count = count_mux_1(r)
    BY <1>3, <1>10 DEF carry_msb, nxt_carry
  <2>2. nxt_carry_1(r) = (nxt_carry_0(r) /\ ~carry_msb(r) /\ high_count(r) = 0)
    BY <1>10 DEF nxt_carry_1, nxt_carry_0
  <2>3. nxt_carry_0(r) /\ high_count(r) = 0 <=> e.count.hi = 0 /\ e.count.lo = 0
    <3>1. CASE restart(r)
      <4>1. count_mux_1(r) = r.load_period
        BY <3>1 DEF restart, count_mux_1, Matches, Frc
      <4> QED BY <2>1, <3>1, <4>1 DEF nxt_carry_0, high_count
    <3>2. CASE ~restart(r)
      <4>1. count_mux_1(r) = nxt_count(r)
        BY <3>2 DEF restart, count_mux_1
      <4>2. r.count.lo \in HalfWord /\ (Minus1(r.count.lo) = 0 <=> r.count.lo = 1)
        <5>1. r.count \in Word
          BY DEF Frc
        <5> QED BY <5>1, HalfWords DEF Word
      <4>3. r.count.lo = 1 => ~r.carry.c0
        BY DEF Matches
      <4> QED BY <2>1, <3>2, <4>1, <4>2, <4>3 DEF nxt_carry_0, high_count, nxt_count
    <3> QED BY <3>1, <3>2
  <2> QED BY <1>4, <1>6, <2>1, <2>2, <2>3
<1>11. ASSUME e.ctrl.size = r.ctrl.size
       PROVE  carry_msb(e) = IF ~count_en(r) THEN carry_msb(r)
                             ELSE IF r.ctrl.size THEN Val(e.count) = 0 /\ ~carry_msb(r)
                             ELSE LowZero(Val(e.count))
  BY <1>8, <1>9, <1>10, <1>11
<1> QED BY <1>6, <1>7, <1>11 DEF e

LEMMA Initial1 == Init => Interval1!Init
<1> SUFFICES ASSUME Init PROVE Interval1!Init
  OBVIOUS
<1>1. frc.timer1 = Reset1 /\ access = FALSE
  BY DEF Init, Timers
<1>2. Val(Zero) = 0 /\ Val(AllOnes) = Half * Half - 1
  BY HalfAssumption DEF Val, Zero, AllOnes
<1>3. /\ ~carry_msb(Reset1) /\ ~int_clr_t(Reset1) /\ Pending(Reset1) = 0
      /\ carry_msb(Reset1) \in BOOLEAN /\ int_clr_t(Reset1) \in BOOLEAN
  BY DEF Reset1, carry_msb, int_clr_t, Pending
<1>4. /\ Reset1.load_period = Zero /\ Reset1.count = AllOnes
      /\ Reset1.prescale_cnt = 0 /\ Reset1.stop_reg = FALSE /\ Reset1.raw_intfrc = FALSE
      /\ Reset1.ctrl = [en |-> FALSE, mode |-> FALSE, inten |-> TRUE, pre |-> 0,
                        size |-> FALSE, one_shot |-> FALSE]
  BY DEF Reset1
<1> QED BY <1>1, <1>2, <1>3, <1>4 DEF Interval1!Init

LEMMA Step1 == IInv /\ AnyNext => Interval1!Next
<1> SUFFICES ASSUME IInv, AnyNext PROVE Interval1!Next
  OBVIOUS
<1> DEFINE r == frc.timer1
           e == frc'.timer1
<1>1. PICK b \in Setups : /\ e = Edge(r, b)
                          /\ b # NoSetup => access'
                          /\ access' \in BOOLEAN /\ (access' => ~access)
  BY StepIsEdge DEF IInv, Timers
<1>2. r \in Frc /\ Matches(r) /\ (r.load_en_reg => access)
  BY DEF IInv, TypeOK, CarriesMatchCount, Timers
<1>3. r.load_en_reg => b = NoSetup
  BY <1>1, <1>2
<1> DEFINE kind == CASE b.op = "LOAD"               -> "load"
                     [] b.op = "BGLOAD"             -> "bgload"
                     [] b.op = "CTRL"               -> "ctrl"
                     [] b.op = "INTCLR"             -> "clear"
                     [] b.op = "none" /\ access'    -> "other"
                     [] b.op = "none" /\ ~access'   -> "none"
<1>4. b.op \in {"LOAD", "BGLOAD", "CTRL", "INTCLR", "none"} /\ (b.op = "none" => b = NoSetup)
  BY DEF Setups, NoSetup
<1>5. b.op # "none" => access'
  BY <1>1 DEF NoSetup
<1>6. /\ kind = "load" <=> b.op = "LOAD"
      /\ kind = "bgload" <=> b.op = "BGLOAD"
      /\ kind = "ctrl" <=> b.op = "CTRL"
      /\ kind = "clear" <=> b.op = "INTCLR"
      /\ kind = "none" <=> ~access'
      /\ kind \in Interval1!Kinds
  BY <1>1, <1>4, <1>5 DEF Interval1!Kinds
<1> HIDE DEF kind
<1>7. /\ kind # "none" => ~access
      /\ access' = (kind # "none")
  BY <1>1, <1>6
<1>8. /\ Val(frc.timer1.load_period)' = Val(e.load_period)
      /\ Val(frc.timer1.count)' = Val(e.count)
      /\ Pending(frc.timer1)' = Pending(e)
      /\ carry_msb(frc.timer1)' = carry_msb(e)
      /\ int_clr_t(frc.timer1)' = int_clr_t(e)
  BY DEF Val, Pending, carry_msb, int_clr_t
<1>9. /\ e.prescale_cnt = nxt_prescale(r) /\ e.stop_reg = stop1shot(r)
      /\ e.raw_intfrc = nxt_raw_intfrc(r)
  BY <1>1 DEF Edge
<1>10. /\ r.ctrl.en \in BOOLEAN /\ r.ctrl.size \in BOOLEAN /\ r.load_req_t \in BOOLEAN
       /\ carry_msb(r) \in BOOLEAN /\ int_clr_t(r) \in BOOLEAN
       /\ Pending(r) = 1 <=> r.load_req_t
  <2>1. r.ctrl \in Ctrl /\ r.load_req_t \in BOOLEAN
    BY <1>2 DEF Frc
  <2> QED BY <1>2, <1>3, <2>1, Signals, EdgeHandshakes DEF Ctrl
<1>11. /\ IF kind = "ctrl" THEN e.ctrl \in Ctrl ELSE e.ctrl = r.ctrl
       /\ IF kind \in {"load", "bgload"} THEN Val(e.load_period) \in Interval1!Counts
                                         ELSE Val(e.load_period) = Val(r.load_period)
       /\ Pending(e) = CASE kind = "load"                     -> 2
                         [] kind # "load" /\ Pending(r) > 0   -> Pending(r) - 1
                         [] kind # "load" /\ Pending(r) = 0   -> 0
       /\ int_clr_t(e) = IF int_clr_t(r) THEN carry_msb(e) ELSE kind = "clear"
  BY <1>1, <1>2, <1>3, <1>6, EdgeHandshakes DEF Interval1!Counts
<1> DEFINE take  == Pending(r) = 1
           halt  == ~take /\ r.ctrl.one_shot /\ (carry_msb(r) \/ r.stop_reg)
           ticks == CASE r.ctrl.pre = 0 -> TRUE
                      [] r.ctrl.pre = 1 -> r.prescale_cnt % Fast = 1
                      [] r.ctrl.pre > 1 -> r.prescale_cnt = 1
           moves == take \/ (r.ctrl.en /\ ticks /\ ~halt)
           again == take \/ (carry_msb(r) /\ r.ctrl.mode)
<1>12. /\ take = r.load_req_t /\ halt = stop1shot(r) /\ again = restart(r)
       /\ moves = count_en(r)
  <2>1. take = r.load_req_t
    BY <1>10
  <2>2. halt = stop1shot(r) /\ again = restart(r)
    BY <2>1 DEF stop1shot, restart
  <2>3. ticks = pre_enable(r)
    BY DEF pre_enable
  <2> HIDE DEF ticks, halt, take
  <2> QED BY <1>10, <2>1, <2>2, <2>3 DEF count_en
<1>13. e.prescale_cnt = CASE take                    -> 0
                          [] ~take /\ r.ctrl.en      -> (r.prescale_cnt + Slow - 1) % Slow
                          [] ~take /\ ~r.ctrl.en     -> r.prescale_cnt
  BY <1>9, <1>12 DEF nxt_prescale
<1>14. Val(e.count) = CASE ~moves             -> Val(r.count)
                        [] moves /\ again     -> Val(r.load_period)
                        [] moves /\ ~again    -> Interval1!Down
  <2>1. /\ ~moves => Val(e.count) = Val(r.count)
        /\ moves /\ again => Val(e.count) = Val(r.load_period)
        /\ moves /\ ~again => Val(e.count) = Val(nxt_count(r))
    BY <1>1, <1>2, <1>12, EdgeCount
  <2>2. Val(nxt_count(r)) = Interval1!Down
    BY <1>2, DownValue DEF Interval1!Down, Interval1!LowZero, LowZero
  <2> HIDE DEF moves, again, r, e
  <2> QED BY <2>1, <2>2
<1>15. IF e.ctrl.size = r.ctrl.size
       THEN carry_msb(e) = IF moves THEN IF r.ctrl.size THEN Val(e.count) = 0 /\ ~carry_msb(r)
                                                        ELSE LowZero(Val(e.count))
                                    ELSE carry_msb(r)
       ELSE carry_msb(e) \in BOOLEAN /\ (carry_msb(e) => LowZero(Val(e.count)))
  <2> HIDE DEF moves
  <2> QED BY <1>1, <1>2, <1>3, <1>12, EdgeZero
<1>16. /\ e.stop_reg = halt
       /\ e.raw_intfrc = ((carry_msb(r) \/ r.raw_intfrc) /\ ~int_clr_t(r))
  BY <1>9, <1>12 DEF nxt_raw_intfrc
<1>17. Interval1!Step(kind)
  <2>1. IF frc'.timer1.ctrl.size = frc.timer1.ctrl.size
        THEN carry_msb(frc.timer1)' = IF moves THEN Interval1!Reached(Val(frc.timer1.count)')
                                               ELSE carry_msb(frc.timer1)
        ELSE carry_msb(frc.timer1)' \in BOOLEAN
             /\ (carry_msb(frc.timer1)' => Interval1!LowZero(Val(frc.timer1.count)'))
    <3> HIDE DEF moves
    <3> QED BY <1>8, <1>15 DEF Interval1!Reached, Interval1!LowZero, LowZero
  <2>2. /\ Val(frc.timer1.count)' = CASE ~moves             -> Val(frc.timer1.count)
                                      [] moves /\ again     -> Val(frc.timer1.load_period)
                                      [] moves /\ ~again    -> Interval1!Down
        /\ Pending(frc.timer1)' = CASE kind = "load"                     -> 2
                                    [] kind # "load" /\ Pending(r) > 0   -> Pending(r) - 1
                                    [] kind # "load" /\ Pending(r) = 0   -> 0
        /\ int_clr_t(frc.timer1)' = IF int_clr_t(r) THEN carry_msb(frc.timer1)'
                                                    ELSE kind = "clear"
    <3> HIDE DEF moves, again
    <3> QED BY <1>8, <1>11, <1>14
  <2>3. /\ IF kind = "ctrl" THEN frc'.timer1.ctrl \in Ctrl
                            ELSE frc'.timer1.ctrl = frc.timer1.ctrl
        /\ IF kind \in {"load", "bgload"}
           THEN Val(frc.timer1.load_period)' \in Interval1!Counts
           ELSE Val(frc.timer1.load_period)' = Val(frc.timer1.load_period)
    BY <1>8, <1>11
  <2> HIDE DEF Interval1!Down
  <2> QED BY <1>7, <1>13, <1>16, <2>1, <2>2, <2>3, Zenon DEF Interval1!Step
<1> QED BY <1>6, <1>17 DEF Interval1!Next

LEMMA Stutter1 == UNCHANGED vars => UNCHANGED Interval1!vars
BY DEF vars, Interval1!vars, Val, Pending, carry_msb, int_clr_t

LEMMA Initial2 == Init => Interval2!Init
<1> SUFFICES ASSUME Init PROVE Interval2!Init
  OBVIOUS
<1>1. frc.timer2 = Reset1 /\ access = FALSE
  BY DEF Init, Timers
<1>2. Val(Zero) = 0 /\ Val(AllOnes) = Half * Half - 1
  BY HalfAssumption DEF Val, Zero, AllOnes
<1>3. /\ ~carry_msb(Reset1) /\ ~int_clr_t(Reset1) /\ Pending(Reset1) = 0
      /\ carry_msb(Reset1) \in BOOLEAN /\ int_clr_t(Reset1) \in BOOLEAN
  BY DEF Reset1, carry_msb, int_clr_t, Pending
<1>4. /\ Reset1.load_period = Zero /\ Reset1.count = AllOnes
      /\ Reset1.prescale_cnt = 0 /\ Reset1.stop_reg = FALSE /\ Reset1.raw_intfrc = FALSE
      /\ Reset1.ctrl = [en |-> FALSE, mode |-> FALSE, inten |-> TRUE, pre |-> 0,
                        size |-> FALSE, one_shot |-> FALSE]
  BY DEF Reset1
<1> QED BY <1>1, <1>2, <1>3, <1>4 DEF Interval2!Init

LEMMA Step2 == IInv /\ AnyNext => Interval2!Next
<1> SUFFICES ASSUME IInv, AnyNext PROVE Interval2!Next
  OBVIOUS
<1> DEFINE r == frc.timer2
           e == frc'.timer2
<1>1. PICK b \in Setups : /\ e = Edge(r, b)
                          /\ b # NoSetup => access'
                          /\ access' \in BOOLEAN /\ (access' => ~access)
  BY StepIsEdge DEF IInv, Timers
<1>2. r \in Frc /\ Matches(r) /\ (r.load_en_reg => access)
  BY DEF IInv, TypeOK, CarriesMatchCount, Timers
<1>3. r.load_en_reg => b = NoSetup
  BY <1>1, <1>2
<1> DEFINE kind == CASE b.op = "LOAD"               -> "load"
                     [] b.op = "BGLOAD"             -> "bgload"
                     [] b.op = "CTRL"               -> "ctrl"
                     [] b.op = "INTCLR"             -> "clear"
                     [] b.op = "none" /\ access'    -> "other"
                     [] b.op = "none" /\ ~access'   -> "none"
<1>4. b.op \in {"LOAD", "BGLOAD", "CTRL", "INTCLR", "none"} /\ (b.op = "none" => b = NoSetup)
  BY DEF Setups, NoSetup
<1>5. b.op # "none" => access'
  BY <1>1 DEF NoSetup
<1>6. /\ kind = "load" <=> b.op = "LOAD"
      /\ kind = "bgload" <=> b.op = "BGLOAD"
      /\ kind = "ctrl" <=> b.op = "CTRL"
      /\ kind = "clear" <=> b.op = "INTCLR"
      /\ kind = "none" <=> ~access'
      /\ kind \in Interval2!Kinds
  BY <1>1, <1>4, <1>5 DEF Interval2!Kinds
<1> HIDE DEF kind
<1>7. /\ kind # "none" => ~access
      /\ access' = (kind # "none")
  BY <1>1, <1>6
<1>8. /\ Val(frc.timer2.load_period)' = Val(e.load_period)
      /\ Val(frc.timer2.count)' = Val(e.count)
      /\ Pending(frc.timer2)' = Pending(e)
      /\ carry_msb(frc.timer2)' = carry_msb(e)
      /\ int_clr_t(frc.timer2)' = int_clr_t(e)
  BY DEF Val, Pending, carry_msb, int_clr_t
<1>9. /\ e.prescale_cnt = nxt_prescale(r) /\ e.stop_reg = stop1shot(r)
      /\ e.raw_intfrc = nxt_raw_intfrc(r)
  BY <1>1 DEF Edge
<1>10. /\ r.ctrl.en \in BOOLEAN /\ r.ctrl.size \in BOOLEAN /\ r.load_req_t \in BOOLEAN
       /\ carry_msb(r) \in BOOLEAN /\ int_clr_t(r) \in BOOLEAN
       /\ Pending(r) = 1 <=> r.load_req_t
  <2>1. r.ctrl \in Ctrl /\ r.load_req_t \in BOOLEAN
    BY <1>2 DEF Frc
  <2> QED BY <1>2, <1>3, <2>1, Signals, EdgeHandshakes DEF Ctrl
<1>11. /\ IF kind = "ctrl" THEN e.ctrl \in Ctrl ELSE e.ctrl = r.ctrl
       /\ IF kind \in {"load", "bgload"} THEN Val(e.load_period) \in Interval2!Counts
                                         ELSE Val(e.load_period) = Val(r.load_period)
       /\ Pending(e) = CASE kind = "load"                     -> 2
                         [] kind # "load" /\ Pending(r) > 0   -> Pending(r) - 1
                         [] kind # "load" /\ Pending(r) = 0   -> 0
       /\ int_clr_t(e) = IF int_clr_t(r) THEN carry_msb(e) ELSE kind = "clear"
  BY <1>1, <1>2, <1>3, <1>6, EdgeHandshakes DEF Interval2!Counts
<1> DEFINE take  == Pending(r) = 1
           halt  == ~take /\ r.ctrl.one_shot /\ (carry_msb(r) \/ r.stop_reg)
           ticks == CASE r.ctrl.pre = 0 -> TRUE
                      [] r.ctrl.pre = 1 -> r.prescale_cnt % Fast = 1
                      [] r.ctrl.pre > 1 -> r.prescale_cnt = 1
           moves == take \/ (r.ctrl.en /\ ticks /\ ~halt)
           again == take \/ (carry_msb(r) /\ r.ctrl.mode)
<1>12. /\ take = r.load_req_t /\ halt = stop1shot(r) /\ again = restart(r)
       /\ moves = count_en(r)
  <2>1. take = r.load_req_t
    BY <1>10
  <2>2. halt = stop1shot(r) /\ again = restart(r)
    BY <2>1 DEF stop1shot, restart
  <2>3. ticks = pre_enable(r)
    BY DEF pre_enable
  <2> HIDE DEF ticks, halt, take
  <2> QED BY <1>10, <2>1, <2>2, <2>3 DEF count_en
<1>13. e.prescale_cnt = CASE take                    -> 0
                          [] ~take /\ r.ctrl.en      -> (r.prescale_cnt + Slow - 1) % Slow
                          [] ~take /\ ~r.ctrl.en     -> r.prescale_cnt
  BY <1>9, <1>12 DEF nxt_prescale
<1>14. Val(e.count) = CASE ~moves             -> Val(r.count)
                        [] moves /\ again     -> Val(r.load_period)
                        [] moves /\ ~again    -> Interval2!Down
  <2>1. /\ ~moves => Val(e.count) = Val(r.count)
        /\ moves /\ again => Val(e.count) = Val(r.load_period)
        /\ moves /\ ~again => Val(e.count) = Val(nxt_count(r))
    BY <1>1, <1>2, <1>12, EdgeCount
  <2>2. Val(nxt_count(r)) = Interval2!Down
    BY <1>2, DownValue DEF Interval2!Down, Interval2!LowZero, LowZero
  <2> HIDE DEF moves, again, r, e
  <2> QED BY <2>1, <2>2
<1>15. IF e.ctrl.size = r.ctrl.size
       THEN carry_msb(e) = IF moves THEN IF r.ctrl.size THEN Val(e.count) = 0 /\ ~carry_msb(r)
                                                        ELSE LowZero(Val(e.count))
                                    ELSE carry_msb(r)
       ELSE carry_msb(e) \in BOOLEAN /\ (carry_msb(e) => LowZero(Val(e.count)))
  <2> HIDE DEF moves
  <2> QED BY <1>1, <1>2, <1>3, <1>12, EdgeZero
<1>16. /\ e.stop_reg = halt
       /\ e.raw_intfrc = ((carry_msb(r) \/ r.raw_intfrc) /\ ~int_clr_t(r))
  BY <1>9, <1>12 DEF nxt_raw_intfrc
<1>17. Interval2!Step(kind)
  <2>1. IF frc'.timer2.ctrl.size = frc.timer2.ctrl.size
        THEN carry_msb(frc.timer2)' = IF moves THEN Interval2!Reached(Val(frc.timer2.count)')
                                               ELSE carry_msb(frc.timer2)
        ELSE carry_msb(frc.timer2)' \in BOOLEAN
             /\ (carry_msb(frc.timer2)' => Interval2!LowZero(Val(frc.timer2.count)'))
    <3> HIDE DEF moves
    <3> QED BY <1>8, <1>15 DEF Interval2!Reached, Interval2!LowZero, LowZero
  <2>2. /\ Val(frc.timer2.count)' = CASE ~moves             -> Val(frc.timer2.count)
                                      [] moves /\ again     -> Val(frc.timer2.load_period)
                                      [] moves /\ ~again    -> Interval2!Down
        /\ Pending(frc.timer2)' = CASE kind = "load"                     -> 2
                                    [] kind # "load" /\ Pending(r) > 0   -> Pending(r) - 1
                                    [] kind # "load" /\ Pending(r) = 0   -> 0
        /\ int_clr_t(frc.timer2)' = IF int_clr_t(r) THEN carry_msb(frc.timer2)'
                                                    ELSE kind = "clear"
    <3> HIDE DEF moves, again
    <3> QED BY <1>8, <1>11, <1>14
  <2>3. /\ IF kind = "ctrl" THEN frc'.timer2.ctrl \in Ctrl
                            ELSE frc'.timer2.ctrl = frc.timer2.ctrl
        /\ IF kind \in {"load", "bgload"}
           THEN Val(frc.timer2.load_period)' \in Interval2!Counts
           ELSE Val(frc.timer2.load_period)' = Val(frc.timer2.load_period)
    BY <1>8, <1>11
  <2> HIDE DEF Interval2!Down
  <2> QED BY <1>7, <1>13, <1>16, <2>1, <2>2, <2>3, Zenon DEF Interval2!Step
<1> QED BY <1>6, <1>17 DEF Interval2!Next

LEMMA Stutter2 == UNCHANGED vars => UNCHANGED Interval2!vars
BY DEF vars, Interval2!vars, Val, Pending, carry_msb, int_clr_t

\* Each of the two counters is an interval timer, whatever software does.
THEOREM ImplementsInterval == Spec => IntervalSpec
<1>1. IInv /\ [AnyNext]_vars => [Interval1!Next]_Interval1!vars /\ [Interval2!Next]_Interval2!vars
  BY Step1, Step2, Stutter1, Stutter2
<1> QED BY Initial1, Initial2, Initially, Inductive, NextIsAny, <1>1, PTL
        DEF Spec, IntervalSpec, Interval1!Spec, Interval2!Spec

-----------------------------------------------------------------------------
(* The demo program.                                                       *)

Vars == {"dtimer_irq_expected", "dtimer1_irq_occurred", "dtimer2_irq_occurred",
         "dtimer_integration_test", "result"}
Plain == {"read", "puts", "await IRQ", "disable", "return", "fail", "passed"}
Instr ==
  [op : Plain]
  \cup [op : {"write"}, timer : Timers, access : Setups] \cup [op : {"stop"}, timer : Timers]
  \cup [op : {"ITCR"}, to : BOOLEAN] \cup [op : {"ITOP"}, to : SUBSET Timers]
  \cup [op : {"set"}, var : Vars, to : 0 .. 1] \cup [op : {"inc"}, var : Vars]
  \cup [op : {"enable"}, irq : {"DUALTIMER"}]
Conds == [timer : Timers] \cup [itcr : BOOLEAN] \cup [var : Vars, is : {"clear", "set"}]

IsCode(s) == Code(s, Instr, Conds)

LEMMA Sequels == ASSUME NEW a, NEW b, IsCode(a), IsCode(b) PROVE IsCode(a \o b)
BY ConcatCode DEF IsCode

LEMMA WriteIsCode == ASSUME NEW t \in Timers, NEW b \in Setups PROVE IsCode(Write(t, b))
<1> DEFINE i == [op |-> "write", timer |-> t, access |-> b]
<1>1. i \in Instr /\ i.op \notin JumpOps
  BY DEF Instr, JumpOps
<1> HIDE DEF i
<1>2. IsCode(<<i>>)
  BY <1>1, OneCode DEF IsCode
<1> QED BY <1>2 DEF Write, i

LEMMA TestIsCode ==
  /\ \A b \in BOOLEAN : IsCode(Itcr(b))
  /\ \A T \in SUBSET Timers : IsCode(Itop(T))
<1>1. ASSUME NEW b \in BOOLEAN PROVE IsCode(Itcr(b))
  <2> DEFINE i == [op |-> "ITCR", to |-> b]
  <2>1. i \in Instr /\ i.op \notin JumpOps
    BY DEF Instr, JumpOps
  <2> HIDE DEF i
  <2>2. IsCode(<<i>>)
    BY <2>1, OneCode DEF IsCode
  <2> QED BY <2>2 DEF Itcr, i
<1>2. ASSUME NEW T \in SUBSET Timers PROVE IsCode(Itop(T))
  <2> DEFINE i == [op |-> "ITOP", to |-> T]
  <2>1. i \in Instr /\ i.op \notin JumpOps
    BY DEF Instr, JumpOps
  <2> HIDE DEF i
  <2>2. IsCode(<<i>>)
    BY <2>1, OneCode DEF IsCode
  <2> QED BY <2>2 DEF Itop, i
<1> QED BY <1>1, <1>2

LEMMA PlainIsCode == ASSUME NEW o \in Plain PROVE IsCode(Do(o))
<1> DEFINE i == [op |-> o]
<1>1. i \in Instr /\ i.op \notin JumpOps
  BY DEF Instr, JumpOps, Plain
<1> HIDE DEF i
<1>2. IsCode(<<i>>)
  BY <1>1, OneCode DEF IsCode
<1> QED BY <1>2 DEF Do, i

LEMMA StopIsCode == ASSUME NEW t \in Timers PROVE IsCode(dualtimer_stop(t))
<1> DEFINE i == [op |-> "stop", timer |-> t]
<1>1. i \in Instr /\ i.op \notin JumpOps
  BY DEF Instr, JumpOps
<1> HIDE DEF i
<1>2. IsCode(<<i>>)
  BY <1>1, OneCode DEF IsCode
<1>3. IsCode(Do("read"))
  BY PlainIsCode DEF Plain
<1> QED BY <1>2, <1>3, Sequels DEF dualtimer_stop, i

LEMMA AssignIsCode ==
  /\ \A v \in Vars, n \in 0 .. 1 : IsCode(Set(v, n))
  /\ \A v \in Vars : IsCode(Inc(v))
  /\ IsCode(Enable("DUALTIMER"))
<1>1. ASSUME NEW v \in Vars, NEW n \in 0 .. 1 PROVE IsCode(Set(v, n))
  <2> DEFINE i == [op |-> "set", var |-> v, to |-> n]
  <2>1. i \in Instr /\ i.op \notin JumpOps
    BY DEF Instr, JumpOps
  <2> HIDE DEF i
  <2>2. IsCode(<<i>>)
    BY <2>1, OneCode DEF IsCode
  <2> QED BY <2>2 DEF Set, i
<1>2. ASSUME NEW v \in Vars PROVE IsCode(Inc(v))
  <2> DEFINE i == [op |-> "inc", var |-> v]
  <2>1. i \in Instr /\ i.op \notin JumpOps
    BY DEF Instr, JumpOps
  <2> HIDE DEF i
  <2>2. IsCode(<<i>>)
    BY <2>1, OneCode DEF IsCode
  <2> QED BY <2>2 DEF Inc, i
<1>3. IsCode(Enable("DUALTIMER"))
  <2> DEFINE i == [op |-> "enable", irq |-> "DUALTIMER"]
  <2>1. i \in Instr /\ i.op \notin JumpOps
    BY DEF Instr, JumpOps
  <2> HIDE DEF i
  <2>2. IsCode(<<i>>)
    BY <2>1, OneCode DEF IsCode
  <2> QED BY <2>2 DEF Enable, i
<1> QED BY <1>1, <1>2, <1>3

LEMMA IfIsCode == ASSUME NEW c \in Conds, NEW b, IsCode(b) PROVE IsCode(If(c, b))
BY IfCode DEF IsCode
LEMMA IfElseIsCode ==
  ASSUME NEW c \in Conds, NEW a, NEW b, IsCode(a), IsCode(b)
  PROVE  IsCode(IfElse(c, a, b))
BY IfElseCode DEF IsCode

LEMMA SetupIsCode ==
  ASSUME NEW t \in Timers, NEW how \in {"freerunning", "periodic", "oneshot"},
         NEW bits \in {16, 32}, NEW cycle \in DOMAIN Cycles, NEW prescale \in 0 .. 3,
         NEW interrupt \in BOOLEAN
  PROVE  IsCode(dualtimer_setup(t, how, bits, cycle, prescale, interrupt))
<1> DEFINE c == [en |-> TRUE, mode |-> how # "freerunning", inten |-> interrupt,
                 pre |-> prescale, size |-> bits = 32, one_shot |-> how = "oneshot"]
<1>1. c \in Ctrl /\ OffCtrl \in Ctrl /\ Cycles[cycle] \in Word
  BY CyclesAssumption DEF Ctrl, OffCtrl
<1> HIDE DEF c
<1>2. /\ Control(OffCtrl) \in Setups /\ IntClr \in Setups
      /\ Load(Cycles[cycle]) \in Setups /\ Control(c) \in Setups
  BY <1>1, SetupFacts
<1>3. /\ IsCode(Write(t, Control(OffCtrl))) /\ IsCode(dualtimer_irq_clear(t))
      /\ IsCode(Write(t, Load(Cycles[cycle]))) /\ IsCode(Write(t, Control(c)))
  BY <1>2, WriteIsCode DEF dualtimer_irq_clear
<1>4. IsCode(Write(t, Control(OffCtrl)) \o dualtimer_irq_clear(t)
               \o Write(t, Load(Cycles[cycle])) \o Write(t, Control(c)))
  BY <1>3, Sequels
<1> QED BY <1>4 DEF dualtimer_setup, c

LEMMA CommonIsCode ==
  /\ IsCode(ClearOccurred) /\ IsCode(NoneExpected) /\ IsCode(Prints) /\ IsCode(IrqWait)
  /\ IsCode(Do("disable")) /\ IsCode(Set("dtimer_irq_expected", 1))
<1>1. IsCode(ClearOccurred)
  BY AssignIsCode, Sequels DEF ClearOccurred, Vars
<1>2. IsCode(Set("dtimer_irq_expected", 0)) /\ IsCode(Set("dtimer_irq_expected", 1))
  BY AssignIsCode DEF Vars
<1>3. IsCode(Prints) /\ IsCode(Do("disable")) /\ IsCode(Do("await IRQ"))
  BY PlainIsCode DEF Prints, Plain
<1> QED BY <1>1, <1>2, <1>3, Sequels DEF NoneExpected, IrqWait

LEMMA DemoPartsAreCode ==
  ASSUME NEW t \in Timers, NEW how \in {"freerunning", "periodic", "oneshot"},
         NEW bits \in {16, 32}, NEW cycle \in DOMAIN Cycles
  PROVE  /\ \A prescale \in 0 .. 3 : IsCode(NoIrqPart(t, how, bits, cycle, prescale))
         /\ \A waits : IsCode(waits) => IsCode(IrqPart(t, how, bits, cycle, waits))
<1>1. ASSUME NEW prescale \in 0 .. 3 PROVE IsCode(NoIrqPart(t, how, bits, cycle, prescale))
  <2>1. IsCode(dualtimer_setup(t, how, bits, cycle, prescale, FALSE))
    BY SetupIsCode
  <2> QED BY <2>1, CommonIsCode, StopIsCode, Sequels DEF NoIrqPart
<1>2. ASSUME NEW waits, IsCode(waits) PROVE IsCode(IrqPart(t, how, bits, cycle, waits))
  <2>1. IsCode(dualtimer_setup(t, how, bits, cycle, 0, TRUE))
    <3>1. 0 \in 0 .. 3 /\ TRUE \in BOOLEAN
      OBVIOUS
    <3> QED BY <3>1, SetupIsCode
  <2>2. IsCode(Set("dtimer_irq_expected", 1) \o Enable("DUALTIMER")
                 \o dualtimer_setup(t, how, bits, cycle, 0, TRUE))
    BY <2>1, CommonIsCode, AssignIsCode, Sequels
  <2> QED BY <1>2, <2>2, CommonIsCode, StopIsCode, Sequels DEF IrqPart
<1> QED BY <1>1, <1>2

LEMMA TimerDemoIsCode == ASSUME NEW t \in Timers PROVE IsCode(Timer_Demo(t))
<1>1. ASSUME NEW bits \in {16, 32} PROVE IsCode(Demos(t, bits))
  <2>1. {5000, 3000, 2000, 1000, 200, 100, 20} = DOMAIN Cycles
    BY CyclesAssumption
  <2>2. IsCode(dualtimer_free_running_demo(t, bits))
    <3>1. /\ IsCode(NoIrqPart(t, "freerunning", bits, 5000, 0))
          /\ IsCode(NoIrqPart(t, "freerunning", bits, 200, 1))
          /\ IsCode(NoIrqPart(t, "freerunning", bits, 20, 2))
          /\ IsCode(IrqPart(t, "freerunning", bits, 5000, IrqWait))
      BY <2>1, DemoPartsAreCode, CommonIsCode
    <3> QED BY <3>1, CommonIsCode, Sequels DEF dualtimer_free_running_demo
  <2>3. IsCode(dualtimer_periodic_demo(t, bits))
    <3> DEFINE waits == IrqWait \o IrqWait \o IrqWait \o IrqWait
    <3>1. IsCode(waits)
      BY CommonIsCode, Sequels
    <3> HIDE DEF waits
    <3>2. /\ IsCode(NoIrqPart(t, "periodic", bits, 1000, 0))
          /\ IsCode(NoIrqPart(t, "periodic", bits, 200, 1))
          /\ IsCode(NoIrqPart(t, "periodic", bits, 20, 2))
          /\ IsCode(IrqPart(t, "periodic", bits, 3000, waits))
      BY <2>1, <3>1, DemoPartsAreCode
    <3> QED BY <3>2, CommonIsCode, Sequels DEF dualtimer_periodic_demo, waits
  <2>4. IsCode(dualtimer_one_shot_demo(t, bits))
    <3>1. /\ IsCode(NoIrqPart(t, "oneshot", bits, 2000, 0))
          /\ IsCode(NoIrqPart(t, "oneshot", bits, 100, 1))
          /\ IsCode(IrqPart(t, "oneshot", bits, 3000, IrqWait))
      BY <2>1, DemoPartsAreCode, CommonIsCode
    <3> QED BY <3>1, CommonIsCode, Sequels DEF dualtimer_one_shot_demo
  <2> QED BY <2>2, <2>3, <2>4, Sequels DEF Demos
<1>2. IsCode(Demos(t, 16)) /\ IsCode(Demos(t, 32))
  BY <1>1
<1> QED BY <1>2, Sequels DEF Timer_Demo

LEMMA CondFacts ==
  /\ \A t \in Timers : MIS(t) \in Conds
  /\ \A b \in BOOLEAN : ItcrIs(b) \in Conds
  /\ \A v \in Vars : Var(v, "clear") \in Conds /\ Var(v, "set") \in Conds
BY DEF MIS, ItcrIs, Var, Conds

LEMMA IntegrationIsCode == IsCode(dualtimer_integration_test)
<1>1. IsCode(Set("result", 1)) /\ IsCode(Fail) /\ IsCode(Itop({}))
      /\ IsCode(Itcr(TRUE)) /\ IsCode(Itcr(FALSE)) /\ IsCode(Enable("DUALTIMER"))
      /\ IsCode(Set("dtimer_integration_test", 0)) /\ IsCode(Set("dtimer_integration_test", 1))
  <2>1. IsCode(Fail)
    BY PlainIsCode DEF Fail, Plain
  <2>2. IsCode(Set("result", 1)) /\ IsCode(Set("dtimer_integration_test", 0))
        /\ IsCode(Set("dtimer_integration_test", 1)) /\ IsCode(Enable("DUALTIMER"))
    BY AssignIsCode DEF Vars
  <2> QED BY <2>1, <2>2, TestIsCode
<1>2. ASSUME NEW v \in {"dtimer1_irq_occurred", "dtimer2_irq_occurred"} PROVE IsCode(Occurs(v))
  <2>1. {IF v = "dtimer1_irq_occurred" THEN "timer1" ELSE "timer2"} \in SUBSET Timers
    BY DEF Timers
  <2>2. IsCode(Itop({IF v = "dtimer1_irq_occurred" THEN "timer1" ELSE "timer2"}))
    BY <2>1, TestIsCode
  <2>3. Var(v, "clear") \in Conds
    BY CondFacts DEF Vars
  <2>4. IsCode(If(Var(v, "clear"), Set("result", 1)))
    BY <1>1, <2>3, IfIsCode
  <2> QED BY <1>1, <2>2, <2>4, Sequels DEF Occurs
<1>3. IsCode(Occurs("dtimer1_irq_occurred")) /\ IsCode(Occurs("dtimer2_irq_occurred"))
  BY <1>2
<1>4. ItcrIs(TRUE) \in Conds /\ ItcrIs(FALSE) \in Conds /\ Var("result", "set") \in Conds
  BY CondFacts DEF Vars
<1>5. IsCode(If(ItcrIs(TRUE), Set("result", 1))) /\ IsCode(If(Var("result", "set"), Fail))
  BY <1>1, <1>4, IfIsCode
<1> DEFINE body == Set("dtimer_irq_expected", 1) \o Enable("DUALTIMER")
                     \o Occurs("dtimer1_irq_occurred") \o ClearOccurred
                     \o Occurs("dtimer2_irq_occurred")
                     \o Itcr(FALSE) \o If(ItcrIs(TRUE), Set("result", 1))
<1>6. IsCode(body)
  BY <1>1, <1>3, <1>5, CommonIsCode, Sequels
<1> HIDE DEF body
<1>7. IsCode(IfElse(ItcrIs(FALSE), Set("result", 1), body))
  BY <1>1, <1>4, <1>6, IfElseIsCode
<1> DEFINE test == IfElse(ItcrIs(FALSE), Set("result", 1), body)
<1> HIDE DEF test
<1>8. IsCode(test)
  BY <1>7 DEF test
<1>9. IsCode(Prints \o Set("dtimer_integration_test", 1) \o NoneExpected \o Itop({}) \o Itcr(TRUE)
               \o test \o Set("dtimer_integration_test", 0) \o Do("disable")
               \o If(Var("result", "set"), Fail))
  BY <1>1, <1>5, <1>8, CommonIsCode, Sequels
<1> QED BY <1>9 DEF dualtimer_integration_test, test, body

\* Neither main() nor the handler runs off its end.
LEMMA MainEnds == EndsIn(Main, Instr, Conds, [op |-> "passed"])
<1> DEFINE b == Timer_Demo("timer1") \o Timer_Demo("timer2") \o dualtimer_integration_test
<1>1. IsCode(b)
  <2>1. IsCode(Timer_Demo("timer1")) /\ IsCode(Timer_Demo("timer2"))
    BY TimerDemoIsCode DEF Timers
  <2> QED BY <2>1, IntegrationIsCode, Sequels
<1>2. [op |-> "passed"] \in Instr
  BY DEF Instr, Plain
<1> HIDE DEF b
<1>3. EndsIn(b \o <<[op |-> "passed"]>>, Instr, Conds, [op |-> "passed"])
  BY <1>1, <1>2, EndedCode DEF IsCode
<1> QED BY <1>3 DEF Main, Do, b

LEMMA HandlerEnds == EndsIn(DUALTIMER_HANDLER, Instr, Conds, [op |-> "return"])
<1>1. ASSUME NEW t \in Timers, NEW v \in {"dtimer1_irq_occurred", "dtimer2_irq_occurred"}
      PROVE  IsCode(Serve(t, v))
  <2>1. IsCode(Fail) /\ Var("dtimer_irq_expected", "clear") \in Conds /\ MIS(t) \in Conds
    BY PlainIsCode, CondFacts DEF Fail, Plain, Vars
  <2>2. IsCode(dualtimer_irq_clear(t)) /\ IsCode(Inc(v))
    BY SetupFacts, WriteIsCode, AssignIsCode DEF dualtimer_irq_clear, Vars
  <2>3. IsCode(If(Var("dtimer_irq_expected", "clear"), Fail))
    BY <2>1, IfIsCode
  <2>4. IsCode(dualtimer_irq_clear(t) \o Inc(v) \o If(Var("dtimer_irq_expected", "clear"), Fail))
    BY <2>2, <2>3, Sequels
  <2> QED BY <2>1, <2>4, IfIsCode DEF Serve
<1> DEFINE y == Serve("timer1", "dtimer1_irq_occurred") \o Serve("timer2", "dtimer2_irq_occurred")
           n == Itop({}) \o Inc("dtimer1_irq_occurred") \o Inc("dtimer2_irq_occurred")
           b == IfElse(Var("dtimer_integration_test", "clear"), y, n)
<1>2. IsCode(y)
  <2>1. IsCode(Serve("timer1", "dtimer1_irq_occurred"))
        /\ IsCode(Serve("timer2", "dtimer2_irq_occurred"))
    BY <1>1 DEF Timers
  <2> QED BY <2>1, Sequels
<1>3. IsCode(n)
  <2>1. /\ IsCode(Itop({})) /\ IsCode(Inc("dtimer1_irq_occurred"))
        /\ IsCode(Inc("dtimer2_irq_occurred"))
    BY TestIsCode, AssignIsCode DEF Vars
  <2> QED BY <2>1, Sequels
<1> HIDE DEF y, n
<1>4. IsCode(b)
  <2>1. Var("dtimer_integration_test", "clear") \in Conds
    BY CondFacts DEF Vars
  <2> QED BY <1>2, <1>3, <2>1, IfElseIsCode
<1>5. [op |-> "return"] \in Instr
  BY DEF Instr, Plain
<1> HIDE DEF b
<1>6. EndsIn(b \o <<[op |-> "return"]>>, Instr, Conds, [op |-> "return"])
  BY <1>4, <1>5, EndedCode DEF IsCode
<1> QED BY <1>6 DEF DUALTIMER_HANDLER, Do, b, y, n

\* The instruction that is due, and where the program goes from it.
LEMMA CurrentInstr ==
  ASSUME DemoTypeOK
  PROVE  /\ Current \in Instr \cup Jumps(Conds)
         /\ \A n \in Int :
              /\ \/ n = 0
                 \/ n = 1 /\ Current.op \notin {"passed", "return"}
                 \/ n = Current.by /\ Current.op \in JumpOps
              /\ Jump(n)
              => pc' \in 1 .. Len(Main) /\ hpc' \in 0 .. Len(DUALTIMER_HANDLER)
<1>1. /\ pc \in 1 .. Len(Main) /\ hpc \in 0 .. Len(DUALTIMER_HANDLER)
      /\ Len(Main) \in Nat \ {0} /\ Len(DUALTIMER_HANDLER) \in Nat \ {0}
  BY MainEnds, HandlerEnds DEF DemoTypeOK, EndsIn
<1>2. ASSUME NEW s, NEW k \in 1 .. Len(s), NEW o \in {"passed", "return"},
             EndsIn(s, Instr, Conds, [op |-> o]),
             NEW n \in Int, \/ n = 0
                            \/ n = 1 /\ s[k].op \notin {"passed", "return"}
                            \/ n = s[k].by /\ s[k].op \in JumpOps
      PROVE  k + n \in 1 .. Len(s)
  <2>1. k = Len(s) => s[k].op \in {"passed", "return"}
    BY <1>2 DEF EndsIn
  <2>2. Len(s) \in Nat
    BY <1>2 DEF EndsIn
  <2>3. k # Len(s) /\ s[k].op \in JumpOps => k + s[k].by \in 1 .. Len(s)
    BY <1>2 DEF EndsIn
  <2>4. s[k].op \in JumpOps => k # Len(s)
    BY <2>1 DEF JumpOps
  <2> QED BY <1>2, <2>1, <2>2, <2>3, <2>4
<1>3. CASE InHandler
  <2>1. Current = DUALTIMER_HANDLER[hpc] /\ hpc \in 1 .. Len(DUALTIMER_HANDLER)
    BY <1>1, <1>3 DEF Current, InHandler
  <2>2. Current \in Instr \cup Jumps(Conds)
    BY <2>1, HandlerEnds DEF EndsIn
  <2>3. ASSUME NEW n \in Int, \/ n = 0
                              \/ n = 1 /\ Current.op \notin {"passed", "return"}
                              \/ n = Current.by /\ Current.op \in JumpOps,
               Jump(n)
        PROVE  pc' \in 1 .. Len(Main) /\ hpc' \in 0 .. Len(DUALTIMER_HANDLER)
    <3>1. hpc + n \in 1 .. Len(DUALTIMER_HANDLER)
      BY <1>2, <2>1, <2>3, HandlerEnds
    <3>2. hpc' = hpc + n /\ pc' = pc
      BY <1>3, <2>3 DEF Jump
    <3> QED BY <1>1, <3>1, <3>2
  <2> QED BY <2>2, <2>3
<1>4. CASE ~InHandler
  <2>1. Current = Main[pc]
    BY <1>4 DEF Current
  <2>2. Current \in Instr \cup Jumps(Conds)
    BY <1>1, <2>1, MainEnds DEF EndsIn
  <2>3. ASSUME NEW n \in Int, \/ n = 0
                              \/ n = 1 /\ Current.op \notin {"passed", "return"}
                              \/ n = Current.by /\ Current.op \in JumpOps,
               Jump(n)
        PROVE  pc' \in 1 .. Len(Main) /\ hpc' \in 0 .. Len(DUALTIMER_HANDLER)
    <3>1. pc + n \in 1 .. Len(Main)
      BY <1>1, <1>2, <2>1, <2>3, MainEnds
    <3>2. pc' = pc + n /\ hpc' = hpc
      BY <1>4, <2>3 DEF Jump
    <3> QED BY <1>1, <3>1, <3>2
  <2> QED BY <2>2, <2>3
<1> QED BY <1>3, <1>4

\* What an instruction carries, by its kind.
LEMMA InstrTypes ==
  ASSUME NEW i \in Instr \cup Jumps(Conds)
  PROVE  /\ i.op = "write" => i.timer \in Timers /\ i.access \in Setups
         /\ i.op = "stop" => i.timer \in Timers
         /\ i.op = "ITCR" => i.to \in BOOLEAN
         /\ i.op = "ITOP" => i.to \in SUBSET Timers
         /\ i.op = "set" => i.var \in Vars /\ i.to \in 0 .. 1
         /\ i.op = "inc" => i.var \in Vars
         /\ i.op \in JumpOps => i.by \in Int
BY DEF Instr, Jumps, JumpOps, Plain

\* A step of the running program keeps every type, and is an edge of the bus.
LEMMA ProcessorTypes ==
  ASSUME DemoTypeOK, Processor
  PROVE  /\ AnyNext
         /\ pc' \in 1 .. Len(Main) /\ hpc' \in 0 .. Len(DUALTIMER_HANDLER)
         /\ sw' \in [DOMAIN Software0 -> 0 .. CountCap]
         /\ nvic' \in [enabled : BOOLEAN, pending : BOOLEAN]
         /\ lag' \in 0 .. MaxLag
         /\ outcome' \in {"running", "failed", "passed"}
         /\ image' = image
<1> DEFINE Prog ==
             /\ pc' \in 1 .. Len(Main) /\ hpc' \in 0 .. Len(DUALTIMER_HANDLER)
             /\ sw' \in [DOMAIN Software0 -> 0 .. CountCap]
             /\ nvic' \in [enabled : BOOLEAN, pending : BOOLEAN]
             /\ lag' \in 0 .. MaxLag
             /\ outcome' \in {"running", "failed", "passed"}
             /\ image' = image
           PlaceOK == pc' \in 1 .. Len(Main) /\ hpc' \in 0 .. Len(DUALTIMER_HANDLER)
<1>1. /\ TypeOK
      /\ pc \in 1 .. Len(Main) /\ hpc \in 0 .. Len(DUALTIMER_HANDLER)
      /\ Len(Main) \in Nat \ {0} /\ Len(DUALTIMER_HANDLER) \in Nat \ {0}
      /\ sw \in [DOMAIN Software0 -> 0 .. CountCap]
      /\ nvic \in [enabled : BOOLEAN, pending : BOOLEAN]
      /\ lag \in 0 .. MaxLag /\ 0 \in 0 .. MaxLag
      /\ outcome \in {"running", "failed", "passed"}
  BY MainEnds, HandlerEnds, CyclesAssumption DEF DemoTypeOK, EndsIn
<1>2. ASSUME NEW entered \in BOOLEAN, NEW left \in BOOLEAN, NEW enabled \in BOOLEAN,
             Nvic(entered, left, enabled)
      PROVE  nvic' \in [enabled : BOOLEAN, pending : BOOLEAN]
  BY <1>2 DEF Nvic
<1>3. NvicRuns => nvic' \in [enabled : BOOLEAN, pending : BOOLEAN]
  BY <1>1, <1>2 DEF NvicRuns
<1>4. Current \in Instr \cup Jumps(Conds)
  BY CurrentInstr
<1>5. /\ Jump(0) => PlaceOK
      /\ Jump(1) /\ Current.op \notin {"passed", "return"} => PlaceOK
      /\ Jump(Current.by) /\ Current.op \in JumpOps => PlaceOK
  BY <1>4, CurrentInstr, InstrTypes
<1> HIDE DEF PlaceOK
<1>6. /\ NoAccess \/ OtherAccess => AnyNext
      /\ \A t \in Timers, b \in Setups : WriteTimer(t, b) => AnyNext
      /\ \A b \in BOOLEAN : WriteItcr(b) => AnyNext
      /\ \A T \in SUBSET Timers : WriteItop(T) => AnyNext
  BY DEF AnyNext
<1> HIDE DEF AnyNext
<1>7. ASSUME PlaceOK, NvicRuns, UNCHANGED <<image, lag, sw, outcome>>
      PROVE  Prog
  BY <1>1, <1>3, <1>7 DEF PlaceOK
<1>8. CASE AccessEdge
  BY <1>1, <1>3, <1>6, <1>8 DEF AccessEdge
<1>9. CASE Idle
  <2>1. lag' \in 0 .. MaxLag
    BY <1>1, <1>9, CyclesAssumption DEF Idle
  <2> QED BY <1>1, <1>3, <1>6, <1>9, <2>1 DEF Idle
<1>10. CASE TakeIrq
  <2>1. nvic' \in [enabled : BOOLEAN, pending : BOOLEAN]
    BY <1>1, <1>2, <1>10 DEF TakeIrq
  <2> QED BY <1>1, <1>6, <1>10, <2>1 DEF TakeIrq
<1>11. CASE Return
  <2>1. nvic' \in [enabled : BOOLEAN, pending : BOOLEAN]
    BY <1>1, <1>2, <1>11 DEF Return
  <2> QED BY <1>1, <1>6, <1>11, <2>1 DEF Return, Ready
<1>12. CASE TimerWrite
  <2>1. Current.op \in {"write", "stop"} /\ Jump(1) /\ NvicRuns
        /\ UNCHANGED <<image, lag, sw, outcome>>
    BY <1>12 DEF TimerWrite, Ready
  <2>2. AnyNext
    <3>1. CASE Current.op = "write"
      <4>1. WriteTimer(Current.timer, Current.access)
        BY <1>12, <3>1 DEF TimerWrite
      <4> QED BY <1>4, <1>6, <3>1, <4>1, InstrTypes
    <3>2. CASE Current.op = "stop"
      <4> DEFINE c == [frc[Current.timer].ctrl EXCEPT !.en = FALSE]
      <4>1. WriteTimer(Current.timer, Control(c))
        BY <1>12, <3>2 DEF TimerWrite
      <4>2. Current.timer \in Timers
        BY <1>4, <3>2, InstrTypes
      <4>3. frc[Current.timer].ctrl \in Ctrl
        BY <1>1, <4>2 DEF TypeOK, Frc
      <4>4. c \in Ctrl
        BY <4>3 DEF Ctrl
      <4> HIDE DEF c
      <4> QED BY <1>6, <4>1, <4>2, <4>4, SetupFacts
    <3> QED BY <2>1, <3>1, <3>2
  <2>3. PlaceOK
    BY <1>5, <2>1
  <2> QED BY <1>7, <2>1, <2>2, <2>3
<1>13. CASE TestWrite
  <2>1. Current.op \in {"ITCR", "ITOP"} /\ Jump(1) /\ NvicRuns
        /\ UNCHANGED <<image, lag, sw, outcome>>
    BY <1>13 DEF TestWrite, Ready
  <2>2. AnyNext
    BY <1>4, <1>6, <1>13, <2>1, InstrTypes DEF TestWrite
  <2>3. PlaceOK
    BY <1>5, <2>1
  <2> QED BY <1>7, <2>1, <2>2, <2>3
<1>14. CASE RegisterRead
  <2>1. Current.op = "read" /\ Jump(1) /\ NvicRuns /\ OtherAccess
        /\ UNCHANGED <<image, lag, sw, outcome>>
    BY <1>14 DEF RegisterRead, Ready
  <2> QED BY <1>5, <1>6, <1>7, <2>1
<1>15. CASE Branch
  <2>1. Current.op \in JumpOps /\ NvicRuns /\ (NoAccess \/ OtherAccess)
        /\ UNCHANGED <<image, lag, sw, outcome>>
    BY <1>15 DEF Branch, Ready, JumpOps
  <2>2. Jump(1) \/ Jump(Current.by)
    BY <1>15 DEF Branch
  <2>3. PlaceOK
    BY <1>5, <2>1, <2>2 DEF JumpOps
  <2> QED BY <1>6, <1>7, <2>1, <2>3
<1>16. CASE Assign
  <2>1. Current.op \in {"set", "inc"} /\ Jump(1) /\ NvicRuns /\ NoAccess
        /\ UNCHANGED <<image, lag, outcome>>
    BY <1>16 DEF Assign, Ready
  <2>2. PlaceOK
    BY <1>5, <2>1
  <2>3. sw' \in [DOMAIN Software0 -> 0 .. CountCap]
    <3> DEFINE v == Current.var
               n == IF Current.op = "set" THEN Current.to
                    ELSE IF sw[v] < CountCap THEN sw[v] + 1 ELSE sw[v]
    <3>1. v \in DOMAIN Software0
      BY <1>4, <2>1, InstrTypes DEF Vars, Software0
    <3>2. n \in 0 .. CountCap
      BY <1>1, <1>4, <2>1, <3>1, InstrTypes DEF CountCap
    <3>3. sw' = [sw EXCEPT ![v] = n]
      BY <1>16 DEF Assign
    <3> HIDE DEF v, n
    <3> QED BY <1>1, <3>1, <3>2, <3>3
  <2> QED BY <1>1, <1>3, <1>6, <2>1, <2>2, <2>3 DEF PlaceOK
<1>17. CASE SetEnable
  <2>1. Current.op \in {"enable", "disable"} /\ Jump(1) /\ NoAccess
        /\ Nvic(FALSE, FALSE, Current.op = "enable") /\ UNCHANGED <<image, lag, sw, outcome>>
    BY <1>17 DEF SetEnable, Ready
  <2>2. PlaceOK
    BY <1>5, <2>1
  <2>3. nvic' \in [enabled : BOOLEAN, pending : BOOLEAN]
    BY <1>2, <2>1
  <2> QED BY <1>1, <1>6, <2>1, <2>2, <2>3 DEF PlaceOK
<1>18. CASE AwaitIrq
  <2>1. Current.op = "await IRQ" /\ NvicRuns /\ NoAccess
        /\ UNCHANGED <<image, lag, sw, outcome>>
    BY <1>18 DEF AwaitIrq, Ready
  <2>2. Jump(0) \/ Jump(1)
    BY <1>18 DEF AwaitIrq
  <2> QED BY <1>5, <1>6, <1>7, <2>1, <2>2
<1>19. CASE PutsOn \/ PutsDone
  <2>1. Current.op = "puts" /\ NvicRuns /\ NoAccess
        /\ UNCHANGED <<image, lag, sw, outcome>>
    BY <1>19 DEF PutsOn, PutsDone, Printing, Ready
  <2>2. Jump(0) \/ Jump(1)
    BY <1>19 DEF PutsOn, PutsDone, Printing
  <2> QED BY <1>5, <1>6, <1>7, <2>1, <2>2
<1>20. CASE Finish
  <2>1. outcome' \in {"running", "failed", "passed"}
    BY <1>20 DEF Finish
  <2> QED BY <1>1, <1>3, <1>6, <1>20, <2>1 DEF Finish, Ready
<1> QED BY <1>8, <1>9, <1>10, <1>11, <1>12, <1>13, <1>14, <1>15, <1>16, <1>17, <1>18, <1>19,
           <1>20 DEF Processor

DemoInv == IInv /\ DemoTypeOK

LEMMA DemoInitially == DemoInit => DemoInv
<1> SUFFICES ASSUME DemoInit PROVE DemoInv
  OBVIOUS
<1>1. IInv
  BY Initially DEF DemoInit
<1>2. Len(Main) \in Nat \ {0} /\ Len(DUALTIMER_HANDLER) \in Nat \ {0}
  BY MainEnds, HandlerEnds DEF EndsIn
<1>3. sw \in [DOMAIN Software0 -> 0 .. CountCap]
  BY DEF DemoInit, Software0, CountCap
<1>4. pc \in 1 .. Len(Main) /\ hpc \in 0 .. Len(DUALTIMER_HANDLER)
  BY <1>2 DEF DemoInit
<1> QED BY <1>1, <1>3, <1>4, CyclesAssumption DEF DemoInv, DemoInit, DemoTypeOK, IInv

LEMMA DemoInductive == DemoInv /\ [DemoNext]_demoVars => DemoInv' /\ [AnyNext]_vars
<1> SUFFICES ASSUME DemoInv, [DemoNext]_demoVars PROVE DemoInv' /\ [AnyNext]_vars
  OBVIOUS
<1>1. DemoTypeOK /\ IInv
  BY DEF DemoInv
<1>2. CASE Processor
  <2>1. IInv'
    BY <1>1, <1>2, ProcessorTypes, Inductive
  <2> QED BY <1>1, <1>2, <2>1, ProcessorTypes DEF DemoInv, DemoTypeOK, IInv
<1>3. CASE [AnyNext]_vars /\ UNCHANGED progVars
  <2>1. IInv'
    BY <1>1, <1>3, Inductive
  <2> QED BY <1>1, <1>3, <2>1 DEF DemoInv, DemoTypeOK, IInv, progVars
<1> QED BY <1>2, <1>3, NextIsAny DEF DemoNext, Ended, demoVars

\* The program and its handler never run off their end, and every register
\* and every software variable keeps its type.
THEOREM DemoTypeCorrect == DemoSpec => []DemoTypeOK
<1>1. DemoInv => DemoTypeOK
  BY DEF DemoInv
<1> QED BY DemoInitially, DemoInductive, <1>1, PTL DEF DemoSpec

\* With the program on the processor the carries still say what the count is,
\* and each timer is an interval timer, for every length of a halfword and
\* every scale of the program's cycle counts.
THEOREM DemoCarriesAreRight == DemoSpec => []CarriesMatchCount
<1>1. DemoInv => CarriesMatchCount
  BY DEF DemoInv, IInv
<1> QED BY DemoInitially, DemoInductive, <1>1, PTL DEF DemoSpec

THEOREM DemoImplementsInterval == DemoSpec => IntervalSpec
<1>1. DemoInv /\ [DemoNext]_demoVars => [Interval1!Next]_Interval1!vars /\ [Interval2!Next]_Interval2!vars
  BY DemoInductive, Step1, Step2, Stutter1, Stutter2 DEF DemoInv
<1>2. DemoInit => Interval1!Init /\ Interval2!Init
  BY Initial1, Initial2 DEF DemoInit
<1> QED BY DemoInitially, DemoInductive, <1>1, <1>2, PTL
        DEF DemoSpec, IntervalSpec, Interval1!Spec, Interval2!Spec
=============================================================================
