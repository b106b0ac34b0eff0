-------------------------- MODULE AhbToSramProofs --------------------------
(***************************************************************************)
(* The SRAM bridge implements a memory that answers in the data phase, for *)
(* every size of the memory and every set of transfers.                    *)
(***************************************************************************)
EXTENDS AhbToSram, TLAPS

\* The buffer describes the write in the data phase, or the write that the
\* reads since then keep from the RAM.
BufferMatchesBus ==
  /\ buf_data_en <=> InSram /\ hdata.t.write
  /\ buf_data_en => buf_addr = hdata.t.word /\ buf_we = LanesOf(hdata.t)
  /\ buf_pend => InSram /\ ~hdata.t.write

\* The RAM shows the word of the read in the data phase.
ReadMatchesBus ==
  InSram /\ ~hdata.t.write =>
    /\ addr_q1 = hdata.t.word
    /\ bank_select \in cs_reg
    /\ buf_hit <=> hdata.t.word = buf_addr

\* Whatever the valid lanes of the buffer hold is also in the RAM, unless it
\* is still to be written.  A hit long after the write relies on it.
BufferIsCoherent ==
  ~buf_data_en /\ ~buf_pend => \A i \in buf_we : BRAM[buf_addr][i] = buf_data[i]

IInv == TypeOK /\ BufferMatchesBus /\ ReadMatchesBus /\ BufferIsCoherent

-----------------------------------------------------------------------------
LEMMA PhaseFacts ==
  ASSUME NEW p \in Phases, p.to = "sram"
  PROVE  /\ p.t \in Transfers /\ p.t \in AllTransfers /\ Aligned(p.t)
         /\ p = [to |-> "sram", t |-> p.t]
  BY TransferAssumption DEF Phases, NoPhase

\* The byte lane decoder selects the bytes the transfer names.
LEMMA LanesDecoded ==
  ASSUME NEW t \in AllTransfers, Aligned(t)
  PROVE  buf_we_nxt(t) = LanesOf(t) /\ LanesOf(t) \subseteq Lanes
<1>0. t.low \in 0 .. 3 /\ t.size \in {1, 2, 4}
  BY DEF AllTransfers, Lanes
<1>1. CASE t.size = 1
  BY <1>0, <1>1 DEF buf_we_nxt, LanesOf, Lanes
<1>2. CASE t.size = 2
  BY <1>0, <1>2 DEF buf_we_nxt, LanesOf, Lanes, Aligned
<1>3. CASE t.size = 4
  BY <1>0, <1>3 DEF buf_we_nxt, LanesOf, Lanes, Aligned
<1> QED BY <1>0, <1>1, <1>2, <1>3

LEMMA DataFacts ==
  /\ Zero \in Data
  /\ \A a, b \in Data, s \in SUBSET Lanes : Merge(a, b, s) \in Data
  BY TransferAssumption DEF Zero, Data, Merge

\* Merging twice, on the same lanes or not at all.
LEMMA MergeFacts ==
  ASSUME NEW a \in Data, NEW b \in Data
  PROVE  /\ Merge(a, b, {}) = a
         /\ \A s \in SUBSET Lanes : (\A i \in s : a[i] = b[i]) => Merge(a, b, s) = a
         /\ \A c \in Data, s \in SUBSET Lanes : Merge(a, Merge(b, c, s), s) = Merge(a, c, s)
  BY DEF Merge, Data

\* What the master takes is data, and the same as for the abstract device.
LEMMA TakenFacts ==
  ASSUME NEW t \in AllTransfers, NEW d \in Data
  PROVE  Taken(t, d) \in Data /\ Device!Taken(t, d) = Taken(t, d)
<1>1. Taken(t, d) \in Data
  BY DataFacts DEF Taken, Data, Merge
<1> QED BY <1>1 DEF Taken, Merge, LanesOf, Lanes, Zero, Device!Taken, Device!Merge,
                    Device!LanesOf, Device!Lanes, Device!Zero

LEMMA SignalTypes ==
  ASSUME TypeOK
  PROVE  /\ HWDATA \in Data /\ SRAMWDATA \in Data /\ SRAMRDATA \in Data
         /\ SRAMADDR \in Words /\ SRAMWEN \in SUBSET Lanes
         /\ HRDATA \in Data
<1> USE DEF TypeOK
<1>1. HWDATA \in Data
  BY PhaseFacts, DataFacts DEF HWDATA, InSram, AllTransfers
<1>2. SRAMWDATA \in Data /\ SRAMRDATA \in Data
  BY <1>1, DataFacts DEF SRAMWDATA, SRAMRDATA
<1>3. SRAMADDR \in Words
  BY PhaseFacts DEF SRAMADDR, ahb_read, ahb_access, AllTransfers
<1>4. SRAMWEN \in SUBSET Lanes
  BY DEF SRAMWEN
<1>5. HRDATA \in Data
  BY <1>2, DataFacts DEF HRDATA
<1> QED BY <1>1, <1>2, <1>3, <1>4, <1>5

LEMMA HclkTypes == TypeOK /\ HclkEdge => TypeOK'
<1> SUFFICES ASSUME TypeOK, HclkEdge PROVE TypeOK'
  OBVIOUS
<1> USE SignalTypes, DataFacts DEF TypeOK, HclkEdge
<1>1. ahb_write => haddr.t \in AllTransfers /\ Aligned(haddr.t)
  BY PhaseFacts DEF ahb_write, ahb_access
<1>2. buf_addr' \in Words /\ buf_we' \subseteq Lanes /\ buf_data' \in Data
  BY <1>1, LanesDecoded DEF BridgeEdge, AllTransfers
<1>3. buf_hit' \in BOOLEAN /\ buf_pend' \in BOOLEAN /\ buf_data_en' \in BOOLEAN
  <2>1. haddr.to = "sram" => haddr.t.write \in BOOLEAN
    BY PhaseFacts DEF AllTransfers
  <2> QED BY <2>1 DEF BridgeEdge, buf_pend_nxt, ahb_write, ahb_read, ahb_access
<1>4. BRAM' \in [Words -> Data] /\ addr_q1' \in Words
  BY DEF RamEdge
<1>5. cs_reg' \subseteq BOOLEAN /\ bank_select' \in BOOLEAN
  <2>1. Bank \in BOOLEAN
    BY DEF Bank
  <2> QED BY <2>1 DEF RamEdge
<1>6. haddr' \in Phases /\ hdata' \in Phases /\ other_ready' \in BOOLEAN
  BY DEF MasterEdge
<1>7. got' \in [error : BOOLEAN, data : Data]
  BY PhaseFacts, TakenFacts DEF MasterEdge, InSram
<1> QED BY <1>2, <1>3, <1>4, <1>5, <1>6, <1>7 DEF TypeOK

-----------------------------------------------------------------------------
\* The RAM is written only by a write that leaves the buffer or passes it.
LEMMA RamWrites ==
  ASSUME TypeOK, HclkEdge
  PROVE  BRAM' = IF ram_write
                   THEN [BRAM EXCEPT ![buf_addr] = Merge(BRAM[buf_addr], SRAMWDATA, buf_we)]
                   ELSE BRAM
<1>1. CASE ram_write
  BY <1>1 DEF HclkEdge, RamEdge, SRAMCS, SRAMADDR, SRAMWEN, ram_write
<1>2. CASE ~ram_write /\ SRAMCS
  <2>1. Merge(BRAM[SRAMADDR], SRAMWDATA, SRAMWEN) = BRAM[SRAMADDR]
    BY <1>2, SignalTypes, MergeFacts DEF TypeOK, SRAMWEN
  <2> QED BY <1>2, <2>1, SignalTypes DEF TypeOK, HclkEdge, RamEdge
<1>3. CASE ~SRAMCS
  BY <1>3 DEF HclkEdge, RamEdge, SRAMCS
<1> QED BY <1>1, <1>2, <1>3

LEMMA HclkMatches ==
  ASSUME IInv, HclkEdge
  PROVE  BufferMatchesBus' /\ ReadMatchesBus'
<1> USE DEF HclkEdge, BridgeEdge, MasterEdge
<1>1. CASE ~HREADY
  <2>1. hdata'.to = "other" /\ ~ahb_write /\ ~ahb_read
    BY <1>1 DEF HREADY, ahb_write, ahb_read, ahb_access
  <2> QED BY <2>1 DEF BufferMatchesBus, ReadMatchesBus, InSram, buf_pend_nxt
<1>2. CASE HREADY
  <2>0. haddr.to = "sram" => haddr.t \in AllTransfers /\ Aligned(haddr.t)
    BY PhaseFacts DEF IInv, TypeOK
  <2>1. hdata' = haddr
    BY <1>2
  <2>2. BufferMatchesBus'
    BY <1>2, <2>0, <2>1, LanesDecoded
    DEF BufferMatchesBus, InSram, buf_pend_nxt, ahb_write, ahb_read, ahb_access
  <2>3. ASSUME InSram', ~hdata'.t.write
        PROVE  /\ addr_q1' = hdata'.t.word
               /\ bank_select' \in cs_reg'
               /\ buf_hit' <=> hdata'.t.word = buf_addr'
    <3>1. ahb_read /\ ~ahb_write
      BY <1>2, <2>1, <2>3 DEF InSram, ahb_read, ahb_write, ahb_access
    <3>2. addr_q1' = haddr.t.word /\ cs_reg' = {Bank} /\ bank_select' = Bank
      BY <3>1 DEF RamEdge, SRAMCS, SRAMADDR
    <3> QED BY <2>1, <3>1, <3>2
  <2> QED BY <2>2, <2>3 DEF ReadMatchesBus
<1> QED BY <1>1, <1>2

LEMMA HclkCoherent ==
  ASSUME IInv, HclkEdge
  PROVE  BufferIsCoherent'
<1> SUFFICES ASSUME ~buf_data_en', ~buf_pend', NEW i \in buf_we'
             PROVE  BRAM'[buf_addr'][i] = buf_data'[i]
  BY DEF BufferIsCoherent
<1>0. /\ buf_addr' = buf_addr /\ buf_we' = buf_we /\ ~ahb_write
      /\ (buf_pend \/ buf_data_en) => ram_write
      /\ i \in buf_we /\ i \in Lanes
      /\ ~(buf_pend /\ buf_data_en)
  BY DEF HclkEdge, BridgeEdge, buf_pend_nxt, ram_write, IInv, TypeOK, BufferMatchesBus
<1> USE <1>0, RamWrites, SignalTypes DEF IInv, TypeOK, HclkEdge, BridgeEdge
<1>1. CASE buf_data_en
  <2>1. BRAM'[buf_addr] = Merge(BRAM[buf_addr], HWDATA, buf_we)
    BY <1>1 DEF SRAMWDATA
  <2>2. buf_data' = Merge(buf_data, HWDATA, buf_we)
    BY <1>1
  <2> QED BY <2>1, <2>2 DEF Merge
<1>2. CASE buf_pend
  <2>1. BRAM'[buf_addr] = Merge(BRAM[buf_addr], buf_data, buf_we)
    BY <1>2 DEF SRAMWDATA
  <2> QED BY <1>2, <2>1 DEF Merge
<1>3. CASE ~buf_data_en /\ ~buf_pend
  BY <1>3 DEF BufferIsCoherent, ram_write
<1> QED BY <1>1, <1>2, <1>3

LEMMA Inductive == Spec => []IInv
<1>1. Init => IInv
  <2> SUFFICES ASSUME Init PROVE IInv
    OBVIOUS
  <2>1. got \in [error : BOOLEAN, data : Data]
    BY DataFacts DEF Init
  <2>2. TypeOK
    BY <2>1, TransferAssumption, SramAssumption DEF Init, TypeOK, Phases, NoPhase
  <2> QED BY <2>2 DEF Init, IInv, BufferMatchesBus, ReadMatchesBus, BufferIsCoherent,
                      InSram, NoPhase
<1>2. IInv /\ [Next]_vars => IInv'
  <2> SUFFICES ASSUME IInv, [Next]_vars PROVE IInv'
    OBVIOUS
  <2>1. CASE HclkEdge
    BY <2>1, HclkTypes, HclkMatches, HclkCoherent DEF IInv
  <2>2. CASE Reset
    BY <2>2, TransferAssumption
    DEF Reset, IInv, TypeOK, Phases, NoPhase, BufferMatchesBus, ReadMatchesBus,
        BufferIsCoherent, InSram
  <2>3. CASE UNCHANGED vars
    BY <2>3 DEF vars, bufVars, ramVars, IInv, TypeOK, BufferMatchesBus, ReadMatchesBus,
                BufferIsCoherent, InSram
  <2> QED BY <2>1, <2>2, <2>3 DEF Next
<1> QED BY <1>1, <1>2, PTL DEF Spec

\* Every register of the bridge and of the RAM keeps its range.
THEOREM TypeCorrect == Spec => []TypeOK
<1>1. IInv => TypeOK
  BY DEF IInv
<1> QED BY <1>1, Inductive, PTL

-----------------------------------------------------------------------------
\* The master's memory changes only by the write in its data phase, wherever
\* its data goes.
LEMMA MemoryChanges ==
  ASSUME IInv, HclkEdge
  PROVE  Memory' = IF buf_data_en
                     THEN [Memory EXCEPT ![buf_addr] = Merge(Memory[buf_addr], HWDATA, buf_we)]
                     ELSE Memory
<1>0. ~(buf_pend /\ buf_data_en)
  BY DEF IInv, BufferMatchesBus
<1> USE <1>0, RamWrites, SignalTypes DEF IInv, TypeOK, HclkEdge, BridgeEdge
<1>1. CASE ram_write
  <2>1. Memory' = BRAM'
    BY <1>1 DEF Memory, ram_write, buf_pend_nxt
  <2> QED BY <1>1, <2>1 DEF Memory, ram_write, SRAMWDATA
<1>2. CASE ahb_read /\ (buf_pend \/ buf_data_en)
  <2>1. /\ buf_pend' /\ buf_we' = buf_we /\ buf_addr' = buf_addr /\ BRAM' = BRAM
    BY <1>2 DEF ram_write, buf_pend_nxt, ahb_read, ahb_write
  <2>2. Memory' = [BRAM EXCEPT ![buf_addr] = Merge(BRAM[buf_addr], buf_data', buf_we)]
    BY <2>1 DEF Memory
  <2>3. CASE buf_pend
    BY <2>2, <2>3 DEF Memory
  <2>4. CASE buf_data_en
    <3>1. Merge(BRAM[buf_addr], buf_data', buf_we) = Merge(BRAM[buf_addr], HWDATA, buf_we)
      BY <2>4, MergeFacts
    <3> QED BY <2>2, <2>4, <3>1 DEF Memory
  <2> QED BY <1>2, <2>3, <2>4
<1>3. CASE ~buf_pend /\ ~buf_data_en
  BY <1>3 DEF Memory, ram_write, buf_pend_nxt
<1> QED BY <1>1, <1>2, <1>3 DEF ram_write

\* A read sees that memory.
LEMMA ReadsMemory ==
  ASSUME IInv, InSram, ~hdata.t.write
  PROVE  HRDATA = Memory[hdata.t.word]
<1> USE DEF IInv, TypeOK
<1>0. hdata.t.word \in Words
  BY PhaseFacts DEF InSram, AllTransfers
<1>1. SRAMRDATA = BRAM[hdata.t.word] /\ (buf_hit <=> hdata.t.word = buf_addr)
  BY DEF ReadMatchesBus, SRAMRDATA
<1>2. ~buf_data_en
  BY DEF BufferMatchesBus
<1>3. CASE hdata.t.word = buf_addr /\ buf_pend
  BY <1>0, <1>1, <1>3 DEF HRDATA, Memory
<1>4. CASE hdata.t.word = buf_addr /\ ~buf_pend
  BY <1>0, <1>1, <1>2, <1>4, MergeFacts DEF HRDATA, Memory, BufferIsCoherent
<1>5. CASE hdata.t.word # buf_addr
  BY <1>0, <1>1, <1>5, MergeFacts DEF HRDATA, Memory
<1> QED BY <1>3, <1>4, <1>5

LEMMA HclkImplements ==
  ASSUME IInv, HclkEdge
  PROVE  [Device!Next]_(Device!vars)
<1>0. HREADY => Device!Begin
  <2> SUFFICES ASSUME HREADY PROVE Device!Begin
    OBVIOUS
  <2>1. hdata' = haddr
    BY DEF HclkEdge, MasterEdge
  <2>2. CASE haddr.to = "sram"
    <3>1. haddr.t \in Transfers
      BY <2>2, PhaseFacts DEF IInv, TypeOK
    <3>2. DeviceOp' = Device!Pending(haddr.t)
      BY <2>1, <2>2 DEF DeviceOp, InSram, Device!Pending
    <3> QED BY <3>1, <3>2 DEF Device!Begin
  <2>3. CASE haddr.to # "sram"
    <3>1. DeviceOp' = Device!None
      BY <2>1, <2>3 DEF DeviceOp, InSram, Device!None
    <3> QED BY <3>1 DEF Device!Begin
  <2> QED BY <2>2, <2>3
<1>1. CASE ~InSram
  <2>1. UNCHANGED <<Memory, got>> /\ DeviceOp = Device!None
    BY <1>1, MemoryChanges
    DEF IInv, BufferMatchesBus, HclkEdge, MasterEdge, DeviceOp, Device!None
  <2>2. CASE HREADY
    BY <1>0, <2>1, <2>2 DEF Device!Next, Device!Start
  <2>3. CASE ~HREADY
    <3>1. UNCHANGED DeviceOp
      BY <2>3 DEF HclkEdge, MasterEdge, DeviceOp, InSram
    <3> QED BY <2>1, <3>1 DEF Device!vars
  <2> QED BY <2>2, <2>3
<1>2. CASE InSram
  <2>0. HREADY /\ hdata.t \in AllTransfers /\ Aligned(hdata.t)
    BY <1>2, PhaseFacts DEF IInv, TypeOK, HREADY, InSram
  <2>1. DeviceOp = Device!Pending(hdata.t)
    BY <1>2 DEF DeviceOp, Device!Pending
  <2>2. Device!Perform(hdata.t)
    <3>1. CASE hdata.t.write
      <4>1. buf_data_en /\ buf_addr = hdata.t.word /\ buf_we = LanesOf(hdata.t)
        BY <1>2, <3>1 DEF IInv, BufferMatchesBus
      <4>2. Memory' = [Memory EXCEPT ![hdata.t.word] =
                         Merge(Memory[hdata.t.word], hdata.t.data, LanesOf(hdata.t))]
        BY <1>2, <4>1, MemoryChanges DEF HWDATA
      <4> QED BY <3>1, <4>2 DEF Device!Perform, Device!Merge, Device!LanesOf, Device!Lanes,
                                Merge, LanesOf, Lanes
    <3>2. CASE ~hdata.t.write
      BY <1>2, <3>2, MemoryChanges DEF IInv, BufferMatchesBus, Device!Perform
    <3> QED BY <3>1, <3>2
  <2>3. got' = Device!Result(Device!Done(hdata.t))
    <3>1. got' = [error |-> FALSE, data |-> Taken(hdata.t, HRDATA)]
      BY <1>2 DEF HclkEdge, MasterEdge
    <3>2. ~hdata.t.write => HRDATA = Memory[hdata.t.word]
      BY <1>2, ReadsMemory
    <3>3. HRDATA \in Data
      BY SignalTypes DEF IInv
    <3>4. Taken(hdata.t, HRDATA) = Device!Taken(hdata.t, Memory[hdata.t.word])
      <4>1. CASE hdata.t.write
        BY <4>1 DEF Taken, Zero, Lanes, Device!Taken, Device!Zero, Device!Lanes
      <4>2. CASE ~hdata.t.write
        BY <2>0, <3>2, <3>3, <4>2, TakenFacts
      <4> QED BY <4>1, <4>2
    <3> QED BY <3>1, <3>4 DEF Device!Result, Device!Done
  <2>4. Device!Succeed
    BY <1>0, <2>0, <2>1, <2>2, <2>3 DEF Device!Succeed, Device!Finish, Device!Pending
  <2> QED BY <2>4 DEF Device!Next
<1> QED BY <1>1, <1>2

\* The master sees one memory: a read returns the latest write to each byte,
\* and only a reset takes a write back, the one that is still in the buffer.
THEOREM ImplementsMemory == Spec => MemorySpec
<1>1. Init => Device!Init
  <2> SUFFICES ASSUME Init PROVE Device!Init
    OBVIOUS
  <2>1. Memory \in [Words -> Data]
    BY SramAssumption DEF Init, Memory
  <2> QED BY <2>1 DEF Init, NoPhase, DeviceOp, InSram, Device!Init, Device!None, Device!Zero,
                      Device!Lanes, Zero, Lanes, Device!Data, Data
<1>2. IInv /\ [Next]_vars => [Device!Next \/ LosesBufferedWrite]_(Device!vars)
  <2> SUFFICES ASSUME IInv, [Next]_vars
               PROVE  [Device!Next \/ LosesBufferedWrite]_(Device!vars)
    OBVIOUS
  <2>1. CASE HclkEdge
    BY <2>1, HclkImplements
  <2>2. CASE Reset /\ ~buf_pend
    <3>1. DeviceOp' = Device!None /\ UNCHANGED <<Memory, got>>
      BY <2>2 DEF Reset, NoPhase, DeviceOp, InSram, Memory, Device!None
    <3> QED BY <3>1 DEF Device!Next, Device!Reset
  <2>3. CASE Reset /\ buf_pend
    BY <2>3 DEF LosesBufferedWrite, Reset, NoPhase, DeviceOp, InSram, Memory, Device!None
  <2>4. CASE UNCHANGED vars
    BY <2>4 DEF vars, bufVars, ramVars, DeviceOp, InSram, Memory, Device!vars
  <2> QED BY <2>1, <2>2, <2>3, <2>4 DEF Next
<1> QED BY <1>1, <1>2, Inductive, PTL DEF Spec, MemorySpec
=============================================================================
