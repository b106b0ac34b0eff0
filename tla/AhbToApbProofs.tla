--------------------------- MODULE AhbToApbProofs ---------------------------
(***************************************************************************)
(* The AHB to APB bridge implements an AHB device, for every set of        *)
(* transfers and every setting of its parameters.                          *)
(***************************************************************************)
EXTENDS AhbToApb, TLAPS

\* The bridge is idle unless the transfer in the data phase is its own, and
\* then its control registers describe that transfer.
OwnsDataPhase == /\ state_reg = "IDLE" <=> hdata.to # "apb"
                 /\ hdata.to = "apb" => ctrl_reg = Sampled(hdata.t)

\* Registered write data is sampled before the APB transfer starts, and
\* read data, which shares the register, cannot replace it.
HoldsWriteData ==
  /\ sample_wdata_reg <=> /\ state_reg = "APB_WAIT" /\ REGISTER_WDATA
                          /\ ctrl_reg.write
  /\ PSEL /\ REGISTER_WDATA /\ ctrl_reg.write => rwdata_reg = hdata.t.data

EndsRegistered == state_reg = "APB_ENDOK" => REGISTER_RDATA

IInv == TypeOK /\ OwnsDataPhase /\ HoldsWriteData /\ EndsRegistered

-----------------------------------------------------------------------------
LEMMA PhaseFacts ==
  ASSUME NEW p \in Phases, p.to = "apb"
  PROVE  /\ p.t \in Transfers /\ p.t \in AllTransfers /\ Aligned(p.t)
         /\ p = [to |-> "apb", t |-> p.t]
  BY TransferAssumption DEF Phases, NoPhase

LEMMA SampledFacts ==
  ASSUME NEW t \in AllTransfers
  PROVE  Sampled(t) \in [word : Words, write : BOOLEAN, strb : SUBSET Lanes]
  BY DEF Sampled, pstrb_nxt, AllTransfers

\* The strobes of a write are the bytes the transfer names.
LEMMA StrobesAreLanes ==
  ASSUME NEW t \in AllTransfers, Aligned(t), t.write
  PROVE  pstrb_nxt(t) = LanesOf(t)
<1>0. t.low \in 0 .. 3 /\ t.size \in {1, 2, 4}
  BY DEF AllTransfers, Lanes
<1>1. CASE t.size = 1
  BY <1>0, <1>1 DEF pstrb_nxt, LanesOf, Lanes
<1>2. CASE t.size = 2
  BY <1>0, <1>2 DEF pstrb_nxt, LanesOf, Lanes, Aligned
<1>3. CASE t.size = 4
  BY <1>0, <1>3 DEF pstrb_nxt, LanesOf, Lanes, Aligned
<1> QED BY <1>0, <1>1, <1>2, <1>3

LEMMA ZeroIsData == Zero \in Data
  BY TransferAssumption DEF Zero, Data

LEMMA MergeFacts ==
  ASSUME NEW a \in Data, NEW b \in Data, NEW s
  PROVE  Merge(a, b, s) \in Data
  BY DEF Merge, Data

-----------------------------------------------------------------------------
LEMMA NextStateTypes == TypeOK => next_state \in States
  BY DEF TypeOK, next_state, start_state, end_state, States

\* What the master takes is data, and the same as for the abstract device.  A
\* write takes nothing, whatever is on the bus.
LEMMA TakenFacts ==
  ASSUME NEW t \in AllTransfers, NEW d \in Data
  PROVE  /\ Taken(t, d) \in Data /\ Device!Taken(t, d) = Taken(t, d)
         /\ \A e : t.write => Taken(t, e) = Device!Taken(t, d)
<1>1. Taken(t, d) \in Data
  BY ZeroIsData DEF Taken, Data, Merge
<1> QED BY <1>1 DEF Taken, Merge, LanesOf, Lanes, Zero, Device!Taken, Device!Merge,
                    Device!LanesOf, Device!Lanes, Device!Zero

LEMMA HclkTypes == TypeOK /\ HclkEdge => TypeOK'
<1> SUFFICES ASSUME TypeOK, HclkEdge PROVE TypeOK'
  OBVIOUS
<1>1. HWDATA \in Data
  BY PhaseFacts, ZeroIsData DEF TypeOK, HWDATA, InApb, AllTransfers
<1>2. PRDATA \in Data /\ HRDATA \in Data /\ PWDATA \in Data
  BY <1>1 DEF TypeOK, PRDATA, PADDR, HRDATA, PWDATA
<1>3. state_reg' \in States
  BY NextStateTypes DEF HclkEdge, BridgeEdge
<1>4. ctrl_reg' \in [word : Words, write : BOOLEAN, strb : SUBSET Lanes]
  BY PhaseFacts, SampledFacts DEF TypeOK, HclkEdge, BridgeEdge, apb_select
<1>5. sample_wdata_reg' \in BOOLEAN /\ rwdata_reg' \in Data
  BY <1>1, <1>2, ParameterAssumption, PhaseFacts
  DEF TypeOK, HclkEdge, BridgeEdge, sample_wdata_set, apb_select, AllTransfers
<1>6. haddr' \in Phases /\ hdata' \in Phases
  BY DEF TypeOK, HclkEdge, MasterEdge
<1>7. got' \in [error : BOOLEAN, data : Data]
  <2>1. BusHRESP \in BOOLEAN
    BY DEF TypeOK, BusHRESP, HRESP, Phases, NoPhase
  <2> QED BY <1>2, <2>1, ZeroIsData, PhaseFacts, TakenFacts
          DEF TypeOK, HclkEdge, MasterEdge, InApb
<1>8. resp_state' \in [ready : BOOLEAN, resp : BOOLEAN]
  BY DEF TypeOK, HclkEdge, DefaultSlaveEdge
<1>9. PCLKEN' \in BOOLEAN /\ PREADY' \in BOOLEAN /\ PSLVERR' \in BOOLEAN
  BY DEF HclkEdge, ApbInputs
<1>10. mem' \in [Words -> Data]
  <2>1. Merge(mem[PADDR], PWDATA, PSTRB) \in Data
    BY <1>2, MergeFacts DEF TypeOK, PADDR
  <2> QED BY <2>1 DEF TypeOK, HclkEdge, ApbSlaveEdge
<1> QED BY <1>3, <1>4, <1>5, <1>6, <1>7, <1>8, <1>9, <1>10 DEF TypeOK

\* The state machine and the pipeline of the bus move together: the bridge
\* takes the transfer that enters the data phase, in that very cycle.
LEMMA HclkOwns == IInv /\ HclkEdge => OwnsDataPhase'
<1> SUFFICES ASSUME IInv, HclkEdge PROVE OwnsDataPhase'
  OBVIOUS
<1> USE DEF IInv, TypeOK, OwnsDataPhase
<1>1. HREADY \in BOOLEAN
  BY DEF HREADY, HREADYOUT, apb_tran_end, Phases, NoPhase
<1>2. CASE HREADY
  <2>1. hdata' = haddr /\ state_reg' = next_state
    BY <1>2 DEF HclkEdge, MasterEdge, BridgeEdge
  <2>2. next_state = "IDLE" <=> haddr.to # "apb"
    BY <1>2 DEF EndsRegistered, HREADY, HREADYOUT, apb_tran_end, next_state, start_state, end_state,
        apb_select, States, Phases, NoPhase, InApb
  <2>3. haddr.to = "apb" => ctrl_reg' = Sampled(haddr.t)
    BY <1>2 DEF HclkEdge, BridgeEdge, apb_select
  <2> QED BY <2>1, <2>2, <2>3 DEF Sampled, pstrb_nxt
<1>3. CASE ~HREADY
  <2>1. hdata' = hdata /\ state_reg' = next_state /\ ctrl_reg' = ctrl_reg
    BY <1>3 DEF HclkEdge, MasterEdge, BridgeEdge, apb_select
  <2>2. next_state = "IDLE" <=> hdata.to # "apb"
    BY <1>3, ParameterAssumption
    DEF EndsRegistered, HREADY, HREADYOUT, apb_tran_end, next_state, start_state, end_state,
        apb_select, States, Phases, NoPhase, InApb
  <2> QED BY <2>1, <2>2 DEF Sampled, pstrb_nxt
<1> QED BY <1>1, <1>2, <1>3

\* Where the next state comes from.
LEMMA Transitions ==
  ASSUME IInv
  PROVE  /\ apb_select => /\ next_state \in {"APB_WAIT", "APB_TRNF"}
                          /\ state_reg # "APB_WAIT"
                          /\ REGISTER_WDATA /\ haddr.t.write => next_state = "APB_WAIT"
         /\ ~apb_select => (next_state = "APB_WAIT" <=> state_reg = "APB_WAIT" /\ ~PCLKEN)
         /\ ~apb_select /\ next_state \in {"APB_TRNF", "APB_TRNF2"} =>
              /\ InApb /\ ~HREADY /\ ~(apb_tran_end /\ PCLKEN)
              /\ \/ PSEL
                 \/ state_reg = "APB_WAIT" /\ PCLKEN
<1> USE DEF IInv, TypeOK, OwnsDataPhase, EndsRegistered
<1>1. CASE apb_select
  BY <1>1 DEF apb_select, HREADY, HREADYOUT, InApb, apb_tran_end,
              next_state, start_state, end_state, States
<1>2. CASE ~apb_select
  BY <1>2 DEF HREADY, HREADYOUT, InApb, apb_tran_end, PSEL,
              next_state, start_state, end_state, States
<1> QED BY <1>1, <1>2

LEMMA HclkHolds == IInv /\ HclkEdge => HoldsWriteData' /\ EndsRegistered'
<1> SUFFICES ASSUME IInv, HclkEdge PROVE HoldsWriteData' /\ EndsRegistered'
  OBVIOUS
<1>0. state_reg' = next_state
  BY DEF HclkEdge, BridgeEdge
<1>1. EndsRegistered'
  BY <1>0 DEF IInv, TypeOK, EndsRegistered, next_state, start_state, end_state, States
<1>2. CASE apb_select
  <2>1. ctrl_reg'.write = haddr.t.write
    BY <1>2 DEF HclkEdge, BridgeEdge, Sampled
  <2>2. sample_wdata_reg' <=> sample_wdata_set
    BY <1>2, Transitions DEF IInv, TypeOK, HoldsWriteData, HclkEdge, BridgeEdge, sample_wdata_clr
  <2>3. sample_wdata_set <=> REGISTER_WDATA /\ haddr.t.write
    BY <1>2 DEF sample_wdata_set
  <2> QED BY <1>0, <1>1, <1>2, <2>1, <2>2, <2>3, Transitions DEF HoldsWriteData, PSEL
<1>3. CASE ~apb_select
  <2>1. ctrl_reg' = ctrl_reg
    BY <1>3 DEF HclkEdge, BridgeEdge
  <2>2. sample_wdata_reg' <=> sample_wdata_reg /\ ~PCLKEN
    BY <1>3 DEF IInv, TypeOK, HclkEdge, BridgeEdge, sample_wdata_set, sample_wdata_clr
  <2>3. ASSUME PSEL', REGISTER_WDATA, ctrl_reg.write
        PROVE  rwdata_reg' = hdata'.t.data
    <3>1. InApb /\ hdata' = hdata /\ ~(apb_tran_end /\ PCLKEN)
      BY <1>0, <1>3, <2>3, Transitions DEF PSEL, HclkEdge, MasterEdge
    <3>2. CASE PSEL
      BY <2>3, <3>1, <3>2 DEF IInv, HoldsWriteData, PSEL, HclkEdge, BridgeEdge
    <3>3. CASE state_reg = "APB_WAIT" /\ PCLKEN
      BY <2>3, <3>1, <3>3 DEF IInv, HoldsWriteData, HclkEdge, BridgeEdge, HWDATA
    <3> QED BY <1>0, <1>3, <2>3, <3>2, <3>3, Transitions DEF PSEL
  <2> QED BY <1>0, <1>1, <1>3, <2>1, <2>2, <2>3, Transitions DEF IInv, HoldsWriteData
<1> QED BY <1>2, <1>3

LEMMA Inductive == Spec => []IInv
<1>1. Init => IInv
  <2> SUFFICES ASSUME Init PROVE IInv
    OBVIOUS
  <2>1. TypeOK
    <3>1. got \in [error : BOOLEAN, data : Data]
      BY ZeroIsData DEF Init
    <3> QED BY <3>1, TransferAssumption, ZeroIsData
            DEF Init, TypeOK, States, NoControl, Phases, NoPhase
  <2>2. OwnsDataPhase /\ HoldsWriteData /\ EndsRegistered
    BY DEF Init, NoPhase, OwnsDataPhase, HoldsWriteData, EndsRegistered, PSEL
  <2> QED BY <2>1, <2>2 DEF IInv
<1>2. IInv /\ [Next]_vars => IInv'
  <2> SUFFICES ASSUME IInv, [Next]_vars PROVE IInv'
    OBVIOUS
  <2>1. CASE HclkEdge
    BY <2>1, HclkTypes, HclkOwns, HclkHolds DEF IInv
  <2>2. CASE Reset
    BY <2>2, TransferAssumption, ZeroIsData
    DEF Reset, ApbInputs, IInv, TypeOK, States, NoControl, Phases, NoPhase, OwnsDataPhase,
        HoldsWriteData, EndsRegistered, PSEL
  <2>3. CASE UNCHANGED vars
    BY <2>3 DEF vars, bridgeVars, ahbVars, apbInputs, IInv, TypeOK, OwnsDataPhase,
                Sampled, pstrb_nxt, HoldsWriteData, EndsRegistered, PSEL
  <2> QED BY <2>1, <2>2, <2>3 DEF Next
<1> QED BY <1>1, <1>2, PTL DEF Spec

\* Every register of the bridge and every bus signal keeps its range.
THEOREM TypeCorrect == Spec => []TypeOK
<1>1. IInv => TypeOK
  BY DEF IInv
<1> QED BY <1>1, Inductive, PTL

-----------------------------------------------------------------------------
\* What the slave sees is an APB transfer, whatever the AHB does.
THEOREM ApbProtocolHolds == Spec => ApbProtocol
<1>1. ASSUME IInv, HclkEdge
      PROVE  /\ ~PSEL /\ PSEL' => PCLKEN /\ ~PENABLE'
             /\ PSEL /\ ~PENABLE => PSEL' /\ (PENABLE' <=> PCLKEN)
             /\ PENABLE => IF PCLKEN /\ PREADY THEN ~PSEL' ELSE PENABLE'
             /\ PSEL /\ PSEL' => /\ UNCHANGED <<PADDR, PWRITE, PSTRB>>
                                 /\ PWRITE => UNCHANGED PWDATA
  <2>0. state_reg' = next_state
    BY <1>1 DEF HclkEdge, BridgeEdge
  <2>1. CASE PSEL
    <3>0. InApb
      BY <1>1, <2>1 DEF IInv, OwnsDataPhase, InApb, PSEL
    <3>1. CASE ~(apb_tran_end /\ PCLKEN)
      <4>1. ~HREADY /\ ~apb_select
        BY <2>1, <3>0, <3>1 DEF PSEL, HREADY, HREADYOUT, apb_select, apb_tran_end
      <4>2. UNCHANGED <<ctrl_reg, hdata>>
        BY <1>1, <4>1 DEF HclkEdge, BridgeEdge, MasterEdge
      <4>3. UNCHANGED <<PADDR, PWRITE, PSTRB>>
        BY <4>2 DEF PADDR, PWRITE, PSTRB
      <4>4. UNCHANGED PWDATA
        <5>1. UNCHANGED HWDATA
          BY <4>2 DEF HWDATA, InApb
        <5>2. ~sample_wdata_reg
          BY <1>1, <2>1 DEF IInv, HoldsWriteData, PSEL
        <5>3. UNCHANGED rwdata_reg
          BY <1>1, <3>1, <5>2 DEF HclkEdge, BridgeEdge
        <5> QED BY <5>1, <5>3 DEF PWDATA
      <4> QED BY <2>0, <2>1, <3>1, <4>3, <4>4 DEF PSEL, PENABLE, apb_tran_end, next_state
    <3>2. CASE apb_tran_end /\ PCLKEN
      BY <2>0, <2>1, <3>2 DEF PSEL, PENABLE, apb_tran_end, next_state, end_state
    <3> QED BY <3>1, <3>2
  <2>2. CASE ~PSEL
    BY <1>1, <2>0, <2>2
    DEF IInv, TypeOK, States, PSEL, PENABLE, next_state, start_state, end_state
  <2> QED BY <2>1, <2>2
<1>2. ASSUME IInv, [Next]_vars
      PROVE  [HclkEdge =>
                /\ ~PSEL /\ PSEL' => PCLKEN /\ ~PENABLE'
                /\ PSEL /\ ~PENABLE => PSEL' /\ (PENABLE' <=> PCLKEN)
                /\ PENABLE => IF PCLKEN /\ PREADY THEN ~PSEL' ELSE PENABLE'
                /\ PSEL /\ PSEL' => /\ UNCHANGED <<PADDR, PWRITE, PSTRB>>
                                    /\ PWRITE => UNCHANGED PWDATA]_vars
  BY <1>1, <1>2
<1> QED BY <1>2, Inductive, PTL DEF Spec, ApbProtocol

-----------------------------------------------------------------------------
\* The transfer that enters the data phase is begun.
LEMMA BeginsTransfer ==
  ASSUME IInv, HclkEdge, HREADY, state_reg' \in {"IDLE", "APB_WAIT", "APB_TRNF"}
  PROVE  Device!Begin
<1>1. hdata' = haddr
  BY DEF HclkEdge, MasterEdge
<1>2. state_reg' = "IDLE" <=> haddr.to # "apb"
  BY <1>1, HclkOwns DEF OwnsDataPhase
<1>3. CASE haddr.to # "apb"
  <2>1. DeviceOp' = Device!None
    BY <1>2, <1>3 DEF Device!None, DeviceOp
  <2> QED BY <2>1 DEF Device!Begin
<1>4. CASE haddr.to = "apb"
  <2>1. haddr.t \in Transfers
    BY <1>4, PhaseFacts DEF IInv, TypeOK
  <2>2. DeviceOp' = Device!Pending(haddr.t)
    BY <1>1, <1>2, <1>4 DEF DeviceOp, Device!Pending, HRESP
  <2> QED BY <2>1, <2>2 DEF Device!Begin
<1> QED BY <1>3, <1>4

\* The last access cycle performs the transfer that the master asked for.
LEMMA PerformsTransfer ==
  ASSUME IInv, HclkEdge, InApb, apb_tran_end, PCLKEN, ~PSLVERR
  PROVE  /\ Device!Perform(hdata.t)
         /\ Taken(hdata.t, PRDATA) = Device!Taken(hdata.t, mem[hdata.t.word])
<1>0. hdata.t \in AllTransfers /\ Aligned(hdata.t)
  BY PhaseFacts DEF IInv, TypeOK, InApb
<1>1. ctrl_reg = Sampled(hdata.t)
  BY DEF IInv, OwnsDataPhase, InApb
<1>2. PADDR = hdata.t.word /\ PWRITE = hdata.t.write /\ PSTRB = pstrb_nxt(hdata.t)
  BY <1>1 DEF PADDR, PWRITE, PSTRB, Sampled
<1>3. Device!Perform(hdata.t)
  <2>1. CASE hdata.t.write
    <3>1. PSTRB = LanesOf(hdata.t)
      BY <1>0, <1>2, <2>1, StrobesAreLanes
    <3>2. PWDATA = hdata.t.data
      BY <1>2, <2>1 DEF IInv, HoldsWriteData, PWDATA, HWDATA, PSEL, PWRITE, apb_tran_end
    <3>3. mem' = [mem EXCEPT ![hdata.t.word] = Merge(@, hdata.t.data, LanesOf(hdata.t))]
      BY <1>2, <2>1, <3>1, <3>2 DEF HclkEdge, ApbSlaveEdge, PSEL, PENABLE, apb_tran_end
    <3> QED BY <2>1, <3>3 DEF Device!Perform, Device!Merge, Device!LanesOf, Device!Lanes,
                              Merge, LanesOf, Lanes
  <2>2. CASE ~hdata.t.write
    BY <1>2, <2>2 DEF Device!Perform, HclkEdge, ApbSlaveEdge
  <2> QED BY <2>1, <2>2
<1>4. Taken(hdata.t, PRDATA) = Device!Taken(hdata.t, mem[hdata.t.word])
  <2>1. mem[hdata.t.word] \in Data
    BY <1>0 DEF IInv, TypeOK, AllTransfers
  <2>2. ~hdata.t.write => PRDATA = mem[hdata.t.word]
    BY <1>2 DEF PRDATA
  <2> QED BY <1>0, <2>1, <2>2, TakenFacts
<1> QED BY <1>3, <1>4

LEMMA HclkImplements == IInv /\ HclkEdge => [Device!Next]_(Device!vars)
<1> SUFFICES ASSUME IInv, HclkEdge PROVE [Device!Next]_(Device!vars)
  OBVIOUS
<1>0. state_reg' = next_state
  BY DEF HclkEdge, BridgeEdge
<1>1. CASE ~InApb
  <2>1. state_reg = "IDLE" /\ UNCHANGED <<mem, got>>
    BY <1>1 DEF IInv, OwnsDataPhase, InApb, HclkEdge, ApbSlaveEdge, PSEL, MasterEdge
  <2>2. CASE HREADY
    <3>1. Device!Begin
      BY <1>0, <2>1, <2>2, BeginsTransfer DEF next_state, start_state
    <3>2. DeviceOp = Device!None
      BY <2>1 DEF DeviceOp, Device!None
    <3> QED BY <2>1, <3>1, <3>2 DEF Device!Next, Device!Start
  <2>3. CASE ~HREADY
    <3>1. state_reg' = "IDLE"
      BY <1>0, <2>1, <2>3 DEF next_state, start_state, apb_select
    <3> QED BY <2>1, <3>1 DEF Device!vars, DeviceOp
  <2> QED BY <2>2, <2>3
<1>2. CASE InApb /\ state_reg \in {"APB_WAIT", "APB_TRNF", "APB_TRNF2"} /\ ~(apb_tran_end /\ PCLKEN)
  <2>1. ~HREADY
    BY <1>2 DEF HREADY, HREADYOUT
  <2>2. UNCHANGED <<mem, got, hdata>>
    BY <1>2, <2>1 DEF HclkEdge, ApbSlaveEdge, PENABLE, apb_tran_end, MasterEdge
  <2>3. state_reg' \in {"APB_WAIT", "APB_TRNF", "APB_TRNF2"}
    BY <1>0, <1>2 DEF next_state, apb_tran_end
  <2>4. UNCHANGED DeviceOp
    BY <1>2, <2>2, <2>3 DEF DeviceOp, HRESP
  <2> QED BY <2>2, <2>4 DEF Device!vars
<1>3. CASE InApb /\ apb_tran_end /\ PCLKEN
  <2>1. DeviceOp = Device!Pending(hdata.t)
    BY <1>3 DEF DeviceOp, HRESP, apb_tran_end, Device!Pending
  <2>2. CASE PSLVERR
    <3>1. ~HREADY /\ state_reg' = "APB_ERR1"
      BY <1>0, <1>3, <2>2 DEF HREADY, HREADYOUT, apb_tran_end, next_state, end_state
    <3>2. UNCHANGED <<mem, got, hdata>>
      BY <1>3, <2>2, <3>1 DEF HclkEdge, ApbSlaveEdge, MasterEdge
    <3>3. DeviceOp' = Device!Failed(hdata.t)
      BY <3>1, <3>2 DEF DeviceOp, HRESP, Device!Failed
    <3> QED BY <2>1, <3>2, <3>3
            DEF Device!Next, Device!Fail, Device!Finish, Device!Pending
  <2>3. CASE ~PSLVERR /\ REGISTER_RDATA
    <3>1. ~HREADY /\ state_reg' = "APB_ENDOK"
      BY <1>0, <1>3, <2>3 DEF HREADY, HREADYOUT, apb_tran_end, next_state, end_state
    <3>2. UNCHANGED <<got, hdata>>
      BY <1>3, <3>1 DEF HclkEdge, MasterEdge
    <3>3. rwdata_reg' = PRDATA
      BY <1>3, <2>3 DEF IInv, HoldsWriteData, HclkEdge, BridgeEdge, apb_tran_end
    <3>4. DeviceOp' = Device!Done(hdata.t)
      <4>1. Taken(hdata.t, PRDATA) = Device!Taken(hdata.t, mem[hdata.t.word])
        BY <1>3, <2>3, PerformsTransfer
      <4> QED BY <1>3, <3>1, <3>2, <3>3, <4>1 DEF DeviceOp, Device!Done
    <3>5. Device!Perform(hdata.t)
      BY <1>3, <2>3, PerformsTransfer
    <3>6. Device!Perform(DeviceOp.t)
      BY <2>1, <3>5 DEF Device!Pending
    <3>7. Device!Succeed
      BY <2>1, <3>2, <3>4, <3>6 DEF Device!Succeed, Device!Finish, Device!Pending
    <3> QED BY <3>7 DEF Device!Next
  <2>4. CASE ~PSLVERR /\ ~REGISTER_RDATA
    <3>1. HREADY /\ state_reg' \in {"IDLE", "APB_WAIT"}
      BY <1>0, <1>3, <2>4 DEF HREADY, HREADYOUT, InApb, apb_tran_end, next_state, end_state
    <3>2. Device!Begin
      BY <3>1, BeginsTransfer
    <3>3. Device!Perform(hdata.t)
      BY <1>3, <2>4, PerformsTransfer
    <3>4. got' = Device!Result(Device!Done(hdata.t))
      <4>1. BusHRESP = FALSE
        BY <1>3 DEF BusHRESP, HRESP, InApb, apb_tran_end
      <4>2. got' = [error |-> FALSE, data |-> Taken(hdata.t, PRDATA)]
        BY <1>3, <2>4, <3>1, <4>1 DEF HclkEdge, MasterEdge, HRDATA
      <4>3. Taken(hdata.t, PRDATA) = Device!Taken(hdata.t, mem[hdata.t.word])
        BY <1>3, <2>4, PerformsTransfer
      <4> QED BY <4>2, <4>3 DEF Device!Result, Device!Done
    <3>5. Device!Succeed
      BY <2>1, <3>2, <3>3, <3>4 DEF Device!Succeed, Device!Finish, Device!Pending
    <3> QED BY <3>5 DEF Device!Next
  <2> QED BY <2>2, <2>3, <2>4
<1>4. CASE InApb /\ state_reg \in {"APB_ENDOK", "APB_ERR2"}
  <2>1. HREADY /\ state_reg' \in {"IDLE", "APB_WAIT", "APB_TRNF"}
    BY <1>0, <1>4 DEF IInv, EndsRegistered, HREADY, HREADYOUT, InApb, next_state, start_state
  <2>2. Device!Begin
    BY <2>1, BeginsTransfer
  <2>3. UNCHANGED mem
    BY <1>4 DEF HclkEdge, ApbSlaveEdge, PSEL
  <2>4. DeviceOp.status \in {"done", "failed"} /\ got' = Device!Result(DeviceOp)
    <3>1. CASE state_reg = "APB_ENDOK"
      <4>1. BusHRESP = FALSE /\ HRDATA = rwdata_reg
        BY <1>4, <3>1 DEF BusHRESP, HRESP, HRDATA, InApb, IInv, EndsRegistered
      <4> QED BY <1>4, <2>1, <3>1, <4>1
              DEF HclkEdge, MasterEdge, DeviceOp, Device!Result
    <3>2. CASE state_reg = "APB_ERR2"
      <4>1. BusHRESP = TRUE
        BY <1>4, <3>2 DEF BusHRESP, HRESP
      <4> QED BY <1>4, <2>1, <3>2, <4>1
              DEF HclkEdge, MasterEdge, DeviceOp, HRESP, Device!Result,
                  Device!Zero, Device!Lanes, Zero, Lanes
    <3> QED BY <1>4, <3>1, <3>2
  <2> QED BY <2>2, <2>3, <2>4 DEF Device!Next, Device!Respond
<1>5. CASE InApb /\ state_reg = "APB_ERR1"
  <2>1. ~HREADY /\ state_reg' = "APB_ERR2"
    BY <1>0, <1>5 DEF HREADY, HREADYOUT, apb_tran_end, next_state
  <2>2. UNCHANGED <<mem, got, hdata>>
    BY <1>5, <2>1 DEF HclkEdge, ApbSlaveEdge, PSEL, MasterEdge
  <2> QED BY <1>5, <2>1, <2>2 DEF Device!vars, DeviceOp, HRESP
<1> QED BY <1>1, <1>2, <1>3, <1>4, <1>5
        DEF IInv, TypeOK, States, OwnsDataPhase, InApb, apb_tran_end

\* Every AHB transfer to the bridge is performed once on the slave, with the
\* bytes and data it has, and the master gets the slave's response to it.
THEOREM ImplementsDevice == Spec => DeviceSpec
<1>1. Init => Device!Init
  BY DEF Init, Device!Init, DeviceOp, Device!None, Device!Zero, Device!Lanes, Zero, Lanes,
         Device!Data, Data
<1>2. IInv /\ [Next]_vars => [Device!Next]_(Device!vars)
  <2> SUFFICES ASSUME IInv, [Next]_vars PROVE [Device!Next]_(Device!vars)
    OBVIOUS
  <2>1. CASE HclkEdge
    BY <2>1, HclkImplements
  <2>2. CASE Reset
    BY <2>2 DEF Reset, Device!Next, Device!Reset, Device!None, DeviceOp
  <2>3. CASE UNCHANGED vars
    BY <2>3 DEF vars, bridgeVars, ahbVars, DeviceOp, HRESP, Device!vars
  <2> QED BY <2>1, <2>2, <2>3 DEF Next
<1> QED BY <1>1, <1>2, Inductive, PTL DEF Spec, DeviceSpec, Device!Spec
=============================================================================
