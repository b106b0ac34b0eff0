------------------------------ MODULE AhbToApb ------------------------------
(***************************************************************************)
(* The AHB to APB bridge, cmsdk_ahb_to_apb.v, between an AHB-Lite master   *)
(* and an APB slave.  A step is a rising edge of HCLK, or the reset.  The  *)
(* variables of the first group are the bridge's registers; the inputs of  *)
(* the current cycle are variables too, so that what the bridge drives     *)
(* combinationally is a state function.                                    *)
(*                                                                         *)
(* The bus has the bridge and the default slave, cmsdk_ahb_default_slave.v *)
(* (two-cycle error response), behind the multiplexer                      *)
(* cmsdk_ahb_slave_mux.v.  PCLKEN, which gives the APB clock, PREADY and   *)
(* PSLVERR are arbitrary in every cycle.                                   *)
(***************************************************************************)
EXTENDS AhbTransfers

CONSTANTS
  REGISTER_RDATA,   \* register read data and response
  REGISTER_WDATA    \* register write data

ASSUME ParameterAssumption == REGISTER_RDATA \in BOOLEAN /\ REGISTER_WDATA \in BOOLEAN

VARIABLES
  state_reg,         \* state of the bridge
  ctrl_reg,          \* addr_reg, wr_reg and pstrb_reg
  sample_wdata_reg,  \* HWDATA is to be sampled
  rwdata_reg,        \* sampled write or read data
  \* the rest of the AHB
  haddr,             \* the transfer in its address phase
  hdata,             \* the transfer in its data phase
  resp_state,        \* [ready, resp] of the default slave
  got,               \* the response the master received last from the bridge
  \* the APB
  PCLKEN, PREADY, PSLVERR,
  mem                \* the registers of the APB slave

bridgeVars == <<state_reg, ctrl_reg, sample_wdata_reg, rwdata_reg>>
ahbVars    == <<haddr, hdata, resp_state, got>>
apbInputs  == <<PCLKEN, PREADY, PSLVERR>>
vars       == <<bridgeVars, ahbVars, apbInputs, mem>>

States == {"IDLE", "APB_WAIT", "APB_TRNF", "APB_TRNF2",
           "APB_ENDOK", "APB_ERR1", "APB_ERR2"}

NoPhase == [to |-> "none"]
Phases  == {NoPhase, [to |-> "default"]} \cup [to : {"apb"}, t : Transfers]

-----------------------------------------------------------------------------
(* The bus signals.                                                        *)

InApb == hdata.to = "apb"
HWDATA == IF InApb THEN hdata.t.data ELSE Zero

PSEL    == state_reg \in {"APB_TRNF", "APB_TRNF2"}
PENABLE == state_reg = "APB_TRNF2"
PADDR   == ctrl_reg.word
PWRITE  == ctrl_reg.write
PSTRB   == ctrl_reg.strb
PWDATA  == IF REGISTER_WDATA THEN rwdata_reg ELSE HWDATA
PRDATA  == mem[PADDR]

apb_tran_end == state_reg = "APB_TRNF2" /\ PREADY

HREADYOUT == \/ state_reg \in {"IDLE", "APB_ERR2"}
             \/ state_reg = "APB_ENDOK" /\ REGISTER_RDATA
             \/ apb_tran_end /\ ~REGISTER_RDATA /\ ~PSLVERR /\ PCLKEN
HRESP     == state_reg \in {"APB_ERR1", "APB_ERR2"}
HRDATA    == IF REGISTER_RDATA THEN rwdata_reg ELSE PRDATA

\* The multiplexed HREADY and HRESP.
HREADY == /\ InApb => HREADYOUT
          /\ hdata.to = "default" => resp_state.ready
BusHRESP == \/ InApb /\ HRESP
            \/ hdata.to = "default" /\ resp_state.resp

apb_select == haddr.to = "apb" /\ HREADY

-----------------------------------------------------------------------------
(* The bridge at a rising edge of HCLK.                                    *)

\* Byte strobes, for writes only.
pstrb_byte_lane_only(t) == {i \in Lanes : t.write /\ (t.size = 4 \/ t.low = i)} \* (fault)
pstrb_one_lane_more(t) == IF t.write THEN t.low .. t.low + t.size ELSE {}       \* (fault)
pstrb_nxt(t) == {i \in Lanes : /\ t.write
                               /\ \/ t.size = 4
                                  \/ t.size = 2 /\ (i >= 2 <=> t.low >= 2)
                                  \/ t.low = i}

Sampled(t) == [word |-> t.word, write |-> t.write, strb |-> pstrb_nxt(t)]

\* The next state when a new transfer may start.
start_state ==
  IF ~apb_select THEN "IDLE"
  ELSE IF PCLKEN /\ ~(REGISTER_WDATA /\ haddr.t.write) THEN "APB_TRNF" ELSE "APB_WAIT"

end_state_retries ==                                      \* (fault)
  IF PSLVERR THEN "APB_WAIT" ELSE "APB_ENDOK"
end_state == IF PSLVERR THEN "APB_ERR1"
             ELSE IF REGISTER_RDATA THEN "APB_ENDOK"
             ELSE IF apb_select THEN "APB_WAIT" ELSE "IDLE"

next_state_any_clock ==                                   \* (fault)
  CASE state_reg \in {"IDLE", "APB_ENDOK", "APB_ERR2"} -> start_state
    [] state_reg = "APB_WAIT"  -> "APB_TRNF"
    [] state_reg = "APB_TRNF"  -> IF PCLKEN THEN "APB_TRNF2" ELSE "APB_TRNF"
    [] state_reg = "APB_TRNF2" -> IF PREADY /\ PCLKEN THEN end_state ELSE "APB_TRNF2"
    [] OTHER                   -> "APB_ERR2"
next_state ==
  CASE state_reg \in {"IDLE", "APB_ENDOK", "APB_ERR2"} -> start_state
    [] state_reg = "APB_WAIT"  -> IF PCLKEN THEN "APB_TRNF" ELSE "APB_WAIT"
    [] state_reg = "APB_TRNF"  -> IF PCLKEN THEN "APB_TRNF2" ELSE "APB_TRNF"
    [] state_reg = "APB_TRNF2" -> IF PREADY /\ PCLKEN THEN end_state ELSE "APB_TRNF2"
    [] OTHER                   -> "APB_ERR2"

sample_wdata_set == apb_select /\ haddr.t.write /\ REGISTER_WDATA
sample_wdata_clr == sample_wdata_reg /\ PCLKEN

BridgeEdge ==
  /\ state_reg' = next_state
  /\ ctrl_reg'  = IF apb_select THEN Sampled(haddr.t) ELSE ctrl_reg
  /\ sample_wdata_reg' = IF sample_wdata_set \/ sample_wdata_clr
                           THEN sample_wdata_set ELSE sample_wdata_reg
  /\ rwdata_reg' = IF sample_wdata_reg /\ REGISTER_WDATA /\ PCLKEN THEN HWDATA
                   ELSE IF apb_tran_end /\ REGISTER_RDATA /\ PCLKEN THEN PRDATA
                   ELSE rwdata_reg

-----------------------------------------------------------------------------
(* The rest of the system at that edge.                                    *)

\* The master holds a transfer that waits, but may replace IDLE by one, and
\* may cancel one when the transfer before it fails.
MasterEdge ==
  /\ hdata' = IF HREADY THEN haddr ELSE hdata
  /\ got' = IF InApb /\ HREADY
              THEN [error |-> BusHRESP,
                    data  |-> IF BusHRESP THEN Zero ELSE Taken(hdata.t, HRDATA)]
              ELSE got
  /\ haddr' \in Phases
  /\ \/ HREADY \/ haddr = NoPhase
     \/ haddr' = haddr
     \/ BusHRESP /\ haddr' = NoPhase

DefaultSlaveEdge ==
  LET trans_req == haddr.to = "default" /\ HREADY
  IN resp_state' = [ready |-> ~trans_req, resp |-> trans_req \/ ~resp_state.ready]

\* The APB slave performs a transfer at the end of its last access cycle.
ApbSlaveEdge ==
  mem' = IF PSEL /\ PENABLE /\ PCLKEN /\ PREADY /\ ~PSLVERR /\ PWRITE
           THEN [mem EXCEPT ![PADDR] = Merge(@, PWDATA, PSTRB)]
           ELSE mem

ApbInputs == PCLKEN' \in BOOLEAN /\ PREADY' \in BOOLEAN /\ PSLVERR' \in BOOLEAN

HclkEdge == BridgeEdge /\ MasterEdge /\ DefaultSlaveEdge /\ ApbSlaveEdge /\ ApbInputs

NoControl == [word |-> 0, write |-> FALSE, strb |-> {}]

Init ==
  /\ state_reg = "IDLE" /\ ctrl_reg = NoControl
  /\ sample_wdata_reg = FALSE /\ rwdata_reg = Zero
  /\ haddr = NoPhase /\ hdata = NoPhase
  /\ resp_state = [ready |-> TRUE, resp |-> FALSE]
  /\ got = [error |-> FALSE, data |-> Zero]
  /\ PCLKEN \in BOOLEAN /\ PREADY \in BOOLEAN /\ PSLVERR \in BOOLEAN
  /\ mem \in [Words -> Data]

\* HRESETn, which also resets the master.
Reset ==
  /\ state_reg' = "IDLE" /\ ctrl_reg' = NoControl
  /\ sample_wdata_reg' = FALSE /\ rwdata_reg' = Zero
  /\ haddr' = NoPhase /\ hdata' = NoPhase
  /\ resp_state' = [ready |-> TRUE, resp |-> FALSE]
  /\ ApbInputs
  /\ UNCHANGED <<got, mem>>

Next == HclkEdge \/ Reset

Spec == Init /\ [][Next]_vars

\* The clocks run, and there are PCLK edges at which the slave is ready.
FairSpec == Spec /\ WF_vars(HclkEdge /\ PCLKEN' /\ PREADY')

-----------------------------------------------------------------------------
(* The bridge is a device: its transfer is done once the bridge is in the  *)
(* ending state for OKAY, and failed in the two cycles of ERROR.           *)

DeviceOp ==
  IF state_reg = "IDLE" THEN [status |-> "none"]
  ELSE IF state_reg = "APB_ENDOK"
    THEN [status |-> "done", t |-> hdata.t,
          data |-> Taken(hdata.t, rwdata_reg)]
    ELSE [status |-> IF HRESP THEN "failed" ELSE "pending", t |-> hdata.t]

Device == INSTANCE AhbDevice WITH op <- DeviceOp

\* Every AHB transfer to the bridge becomes exactly one APB transfer with the
\* same word, direction, bytes and data, and the AHB response is the APB one.
DeviceSpec == Device!Spec

TypeOK ==
  /\ state_reg \in States
  /\ ctrl_reg \in [word : Words, write : BOOLEAN, strb : SUBSET Lanes]
  /\ sample_wdata_reg \in BOOLEAN
  /\ rwdata_reg \in Data
  /\ haddr \in Phases /\ hdata \in Phases
  /\ resp_state \in [ready : BOOLEAN, resp : BOOLEAN]
  /\ got \in [error : BOOLEAN, data : Data]
  /\ PCLKEN \in BOOLEAN /\ PREADY \in BOOLEAN /\ PSLVERR \in BOOLEAN
  /\ mem \in [Words -> Data]

\* What the slave sees is an APB transfer: a setup cycle of one PCLK, access
\* cycles until it is ready, and address, direction, strobes and write data
\* that do not move meanwhile, whatever the AHB does (state_reg, ctrl_reg and
\* rwdata_reg against the pipelined next transfer).
ApbProtocol ==
  [][HclkEdge =>
     /\ ~PSEL /\ PSEL' => PCLKEN /\ ~PENABLE'
     /\ PSEL /\ ~PENABLE => PSEL' /\ (PENABLE' <=> PCLKEN)
     /\ PENABLE => IF PCLKEN /\ PREADY THEN ~PSEL' ELSE PENABLE'
     /\ PSEL /\ PSEL' => /\ UNCHANGED <<PADDR, PWRITE, PSTRB>>
                         /\ PWRITE => UNCHANGED PWDATA]_vars

\* A transfer does not hold the bus for ever.
Responds == InApb ~> (HREADY \/ ~InApb)
=============================================================================
