------------------------------ MODULE AhbToSram ------------------------------
(***************************************************************************)
(* A main memory of the SoC: the AHB to SRAM bridge, cmsdk_ahb_to_sram.v,  *)
(* and the two banks of block RAM behind it, m3ds_sram_subsystem_fpga.v    *)
(* and cmsdk_fpga_sram.v.  A step is a rising edge of HCLK, or the reset.  *)
(*                                                                         *)
(* The RAM has one port, and AHB write data comes a cycle after its        *)
(* address, when a read may already want the port.  So the bridge answers  *)
(* every transfer at once and keeps such a write until no read follows.    *)
(* Another slave on the bus holds HREADY low for as long as it likes.      *)
(***************************************************************************)
EXTENDS AhbTransfers

CONSTANTS
  Upper,     \* the words of the upper bank, those with SRAMADDR[12]
  PowerUp    \* what a word of RAM or of the buffer may be at power-up

ASSUME SramAssumption == Upper \subseteq Words /\ PowerUp \subseteq Data

VARIABLES
  buf_addr, buf_we, buf_data,   \* the write buffer: word, byte lanes, data
  buf_hit,       \* the read in the data phase is of the buffered word
  buf_pend,      \* the buffered write is not in the RAM yet
  buf_data_en,   \* a write is in its data phase
  \* the RAM
  BRAM,          \* contents of both banks
  addr_q1,       \* registered address, the same for both banks
  cs_reg,        \* the banks (FALSE lower, TRUE upper) selected last
  bank_select,   \* the bank that drives the read data
  \* the rest of the bus
  haddr, hdata,  \* the transfers in their address and data phase
  other_ready,   \* HREADYOUT of the other slave
  got            \* the response the master received last from the bridge

bufVars == <<buf_addr, buf_we, buf_data, buf_hit, buf_pend, buf_data_en>>
ramVars == <<BRAM, addr_q1, cs_reg, bank_select>>
vars    == <<bufVars, ramVars, haddr, hdata, other_ready, got>>

NoPhase == [to |-> "none"]
Phases  == {NoPhase, [to |-> "other"]} \cup [to : {"sram"}, t : Transfers]

-----------------------------------------------------------------------------
InSram == hdata.to = "sram"
HWDATA == IF InSram THEN hdata.t.data ELSE Zero
HREADY == hdata.to = "other" => other_ready   \* the bridge is always ready

ahb_access == haddr.to = "sram" /\ HREADY
ahb_write  == ahb_access /\ haddr.t.write
ahb_read   == ahb_access /\ ~haddr.t.write

buf_pend_nxt_one_read == buf_data_en /\ ahb_read          \* (fault)
buf_pend_nxt == (buf_pend \/ buf_data_en) /\ ahb_read
ram_write    == (buf_pend \/ buf_data_en) /\ ~ahb_read

SRAMWEN   == IF ram_write THEN buf_we ELSE {}
SRAMADDR  == IF ahb_read THEN haddr.t.word ELSE buf_addr
SRAMCS    == ahb_read \/ ram_write
SRAMWDATA == IF buf_pend THEN buf_data ELSE HWDATA

buf_we_one_lane_more(t) == t.low .. t.low + t.size        \* (fault)
buf_we_nxt(t) == {i \in Lanes : \/ t.size = 4
                                \/ t.size = 2 /\ (i >= 2 <=> t.low >= 2)
                                \/ t.size = 1 /\ i = t.low}

-----------------------------------------------------------------------------
(* The RAM.                                                                *)

\* Both banks register the address, each its own chip select.
Bank == SRAMADDR \in Upper
SRAMRDATA == IF bank_select \in cs_reg THEN BRAM[addr_q1] ELSE Zero

RamEdge ==
  /\ BRAM' = IF SRAMCS THEN [BRAM EXCEPT ![SRAMADDR] = Merge(@, SRAMWDATA, SRAMWEN)]
                       ELSE BRAM
  /\ addr_q1' = SRAMADDR
  /\ cs_reg' = IF SRAMCS THEN {Bank} ELSE {}
  /\ bank_select' = IF SRAMCS THEN Bank ELSE bank_select

\* Bytes that are still in the buffer come from there.
HRDATA == Merge(SRAMRDATA, buf_data, IF buf_hit THEN buf_we ELSE {})

-----------------------------------------------------------------------------
BridgeEdge ==
  /\ buf_data_en' = ahb_write
  /\ buf_data' = IF buf_data_en THEN Merge(buf_data, HWDATA, buf_we) ELSE buf_data
  /\ buf_we'   = IF ahb_write THEN buf_we_nxt(haddr.t) ELSE buf_we
  /\ buf_addr' = IF ahb_write THEN haddr.t.word ELSE buf_addr
  /\ buf_hit'  = IF ahb_read THEN haddr.t.word = buf_addr ELSE buf_hit
  /\ buf_pend' = buf_pend_nxt

\* The master holds a transfer that waits, but may replace IDLE by one.
MasterEdge ==
  /\ hdata' = IF HREADY THEN haddr ELSE hdata
  /\ got' = IF InSram THEN [error |-> FALSE, data |-> Taken(hdata.t, HRDATA)] ELSE got
  /\ haddr' \in Phases
  /\ HREADY \/ haddr = NoPhase \/ haddr' = haddr
  /\ other_ready' \in BOOLEAN

HclkEdge == BridgeEdge /\ RamEdge /\ MasterEdge

Init ==
  /\ buf_addr = 0 /\ buf_we = {} /\ buf_data \in PowerUp
  /\ buf_hit = FALSE /\ buf_pend = FALSE /\ buf_data_en = FALSE
  /\ BRAM \in [Words -> PowerUp] /\ addr_q1 \in Words
  /\ cs_reg = {} /\ bank_select = FALSE
  /\ haddr = NoPhase /\ hdata = NoPhase /\ other_ready = TRUE
  /\ got = [error |-> FALSE, data |-> Zero]

\* The system reset.  The data buffer and the RAM have none.
Reset ==
  /\ buf_addr' = 0 /\ buf_we' = {}
  /\ buf_hit' = FALSE /\ buf_pend' = FALSE /\ buf_data_en' = FALSE
  /\ bank_select' = FALSE
  /\ haddr' = NoPhase /\ hdata' = NoPhase /\ other_ready' = TRUE
  /\ UNCHANGED <<buf_data, BRAM, addr_q1, cs_reg, got>>

Next == HclkEdge \/ Reset

Spec == Init /\ [][Next]_vars

-----------------------------------------------------------------------------
(* The memory that the master sees: the RAM with the buffered write in it. *)

Memory == IF buf_pend THEN [BRAM EXCEPT ![buf_addr] = Merge(@, buf_data, buf_we)]
                      ELSE BRAM

DeviceOp == IF InSram THEN [status |-> "pending", t |-> hdata.t] ELSE [status |-> "none"]

Device == INSTANCE AhbDevice WITH op <- DeviceOp, mem <- Memory

\* A reset drops a write that was answered but is still in the buffer.
LosesBufferedWrite ==
  /\ buf_pend /\ DeviceOp' = Device!None
  /\ Memory = [Memory' EXCEPT ![buf_addr] = Merge(@, buf_data, buf_we)]
  /\ UNCHANGED got

\* Every transfer is performed on the memory in its data phase: a read returns
\* the latest write to each byte, in the buffer, on the bus or in either bank.
\* Only a reset takes back a write, and only the one in the buffer.
MemorySpec ==
  Device!Init /\ [][Device!Next \/ LosesBufferedWrite]_(Device!vars)

TypeOK ==
  /\ buf_addr \in Words /\ buf_we \subseteq Lanes /\ buf_data \in Data
  /\ buf_hit \in BOOLEAN /\ buf_pend \in BOOLEAN /\ buf_data_en \in BOOLEAN
  /\ BRAM \in [Words -> Data] /\ addr_q1 \in Words
  /\ cs_reg \subseteq BOOLEAN /\ bank_select \in BOOLEAN
  /\ haddr \in Phases /\ hdata \in Phases /\ other_ready \in BOOLEAN
  /\ got \in [error : BOOLEAN, data : Data]
=============================================================================
