--------------------------- MODULE AhbToExtmem16 ---------------------------
(***************************************************************************)
(* The interface to the PSRAM of the board: the bus machine of             *)
(* cmsdk_ahb_to_extmem16_ahb_fsm_psram.v, which splits an AHB transfer     *)
(* into accesses of a memory that is 8 or 16 bits wide, the memory machine *)
(* of cmsdk_ahb_to_extmem16_mem_fsm_psram.v, which times one access, and   *)
(* the asynchronous memory with its shared data bus.  A step is a rising   *)
(* edge of HCLK, or the reset.                                             *)
(*                                                                         *)
(* Another slave on the AHB holds HREADY low for as long as it likes.      *)
(***************************************************************************)
EXTENDS AhbTransfers

CONSTANTS
  Configs,   \* the static configurations of the interface
  PowerUp    \* what a word of the memory may be at power-up

\* CFGSIZE in bits, CFGREADCYCLE, CFGWRITECYCLE and CFGTURNAROUNDCYCLE.
ConfigTypes == [size : {8, 16}, read : 0 .. 7, write : 0 .. 7, turn : 0 .. 7]

ASSUME ExtmemAssumption == Configs \subseteq ConfigTypes /\ PowerUp \subseteq Data

VARIABLES
  cfg,
  \* the bus machine
  reg_bstate, reg_req, reg_addr, reg_byte_mask,
  read_buffer,   \* the bytes read by the accesses before the last
  DATAOUT,       \* the two byte ports
  \* the memory machine
  reg_mstate, reg_mcount,
  reg_bs,        \* the byte ports that are strobed
  \* the memory and its bus
  MEM,
  held,          \* clocks since address, strobes or controls changed last
  last_driver,   \* who drove the data bus last,
  gap,           \* and how many clocks ago
  \* the AHB
  haddr, hdata,  \* the transfers in their address and data phase
  other_ready,   \* HREADYOUT of the other slave
  got            \* the response the master received last from the interface

busVars == <<reg_bstate, reg_req, reg_addr, reg_byte_mask, read_buffer, DATAOUT>>
memVars == <<reg_mstate, reg_mcount, reg_bs, MEM, held, last_driver, gap>>
ahbVars == <<haddr, hdata, other_ready, got>>
vars    == <<cfg, busVars, memVars, ahbVars>>

Ports     == {0, 1}
BusStates == {"DEF", "32BIT_8A", "32BIT_8B", "32BIT_8C", "32BIT_16", "16BIT_8"}
MemStates == {"IDLE", "WRITE_01", "WRITE1", "WRITE2", "WRITE3", "READ2", "READ1", "READ_01"}

\* Bound of held and gap, which are not compared with more.
Longest == cfg.read + cfg.write + cfg.turn + 1

NoPhase == [to |-> "none"]
Phases  == {NoPhase, [to |-> "other"]} \cup [to : {"extmem"}, t : Transfers]

Op(t) == IF t.write THEN "write" ELSE "read"

-----------------------------------------------------------------------------
(* The pins, which are registered with the state of the memory machine.    *)

WEn     == reg_mstate # "WRITE2"
OEn     == reg_mstate \notin {"READ1", "READ_01"}
CEn     == reg_mstate \notin {"READ1", "READ_01", "READ2", "WRITE1", "WRITE2"}
DATAOEn == reg_mstate \notin {"WRITE1", "WRITE2", "WRITE3"}

DONE == \/ reg_mstate = "READ_01" /\ reg_mcount = 0
        \/ reg_mstate = "WRITE3"

-----------------------------------------------------------------------------
(* The AHB side.                                                           *)

InExtmem == hdata.to = "extmem"
HWDATA   == IF InExtmem THEN hdata.t.data ELSE Zero

HREADYOUT_every_part == DONE                                 \* (fault)
HREADYOUT == reg_bstate = "DEF" /\ DONE

HREADY == /\ InExtmem => HREADYOUT
          /\ hdata.to = "other" => other_ready

trans_valid == haddr.to = "extmem" /\ HREADY

\* Which lane of the word a byte port stands for, and the other way round.
Routed(p) == IF cfg.size = 16 THEN 2 * (reg_addr.low \div 2) + p
             ELSE IF p = 0 THEN reg_addr.low ELSE 1
PortOf(i) == IF cfg.size = 16 THEN i % 2 ELSE 0

\* The bytes of a read that come from the buffers; the others are on the bus.
Buffered(t, i) == \/ t.size = 4 /\ i < (IF cfg.size = 16 THEN 2 ELSE 3)
                  \/ t.size = 2 /\ i % 2 = 0 /\ cfg.size = 8

HRDATA(d) == [i \in Lanes |-> IF Buffered(hdata.t, i) THEN read_buffer[i] ELSE d[PortOf(i)]]

-----------------------------------------------------------------------------
(* The bus machine.  Its request to the memory machine and its byte mask   *)
(* are outputs before they are registered.                                 *)

first_state(t) ==
  CASE cfg.size = 16 /\ t.size = 4 -> "32BIT_16"
    [] cfg.size = 8 /\ t.size = 4  -> "32BIT_8A"
    [] cfg.size = 8 /\ t.size = 2  -> "16BIT_8"
    [] OTHER                       -> "DEF"

following_state == IF reg_bstate = "32BIT_8A" THEN "32BIT_8B"
                   ELSE IF reg_bstate = "32BIT_8B" THEN "32BIT_8C" ELSE "DEF"

following_low == CASE reg_bstate = "32BIT_16" -> 2
                   [] reg_bstate = "32BIT_8A" -> 1
                   [] reg_bstate = "32BIT_8B" -> 2
                   [] reg_bstate = "32BIT_8C" -> 3
                   [] OTHER -> 2 * (reg_addr.low \div 2) + 1

byte_mask_of_address(t) == IF cfg.size = 8 THEN {0}          \* (fault)
                           ELSE IF t.size = 1 THEN {t.low} ELSE Ports
byte_mask(t) == IF cfg.size = 8 THEN {0}
                ELSE IF t.size = 1 THEN {t.low % 2} ELSE Ports

Accepts == reg_bstate = "DEF" /\ trans_valid

\* RDREQ and WRREQ, of which at most one is up.
REQ_for_a_cycle == IF Accepts THEN Op(haddr.t)               \* (fault)
                   ELSE IF reg_bstate # "DEF" THEN Op(hdata.t) ELSE "none"
REQ == IF Accepts THEN Op(haddr.t)
       ELSE IF reg_bstate # "DEF" THEN Op(hdata.t)
       ELSE IF DONE THEN "none" ELSE reg_req

NXTBYTEMASK == IF Accepts THEN byte_mask(haddr.t) ELSE reg_byte_mask

AcceptTransfer ==
  /\ Accepts
  /\ reg_bstate' = first_state(haddr.t)
  /\ reg_addr' = [word |-> haddr.t.word, low |-> haddr.t.low]

NextPart ==
  /\ reg_bstate # "DEF" /\ DONE
  /\ reg_bstate' = following_state
  /\ reg_addr' = [reg_addr EXCEPT !.low = following_low]

HoldPart ==
  /\ ~Accepts /\ (DONE => reg_bstate = "DEF")
  /\ UNCHANGED <<reg_bstate, reg_addr>>

\* The buffers take a byte from the bus when the access that reads it is done.
Captures(i) == /\ InExtmem /\ ~hdata.t.write /\ DONE
               /\ CASE i = 0 -> Routed(0) = 0
                    [] i = 1 -> reg_bstate \in {"32BIT_16", "32BIT_8B"}
                    [] OTHER -> reg_bstate \in {"16BIT_8", "32BIT_8C"}

BusMachineEdge(d) ==
  /\ AcceptTransfer \/ NextPart \/ HoldPart
  /\ reg_req' = REQ
  /\ reg_byte_mask' = NXTBYTEMASK
  /\ DATAOUT' = IF InExtmem THEN [p \in Ports |-> HWDATA[Routed(p)]] ELSE DATAOUT
  /\ read_buffer' = [i \in 0 .. 2 |-> IF Captures(i) THEN d[PortOf(i)] ELSE read_buffer[i]]

-----------------------------------------------------------------------------
(* The memory machine.                                                     *)

\* Clocks to wait after an access: only one in the same direction need not
\* wait for the bus to turn around.
pause_after_any(op) == IF REQ # "none"                       \* (fault)
                         THEN IF op = "read" THEN cfg.read ELSE cfg.write ELSE cfg.turn
pause(op) == IF REQ # op THEN cfg.turn ELSE IF op = "read" THEN cfg.read ELSE cfg.write

write_setup_none == "WRITE1"                                 \* (fault)
write_setup == "WRITE_01"

Goto(s, n) == reg_mstate' = s /\ reg_mcount' = n

Wait  == reg_mstate = "IDLE" /\ reg_mcount # 0 /\ Goto("IDLE", reg_mcount - 1)
Idle  == reg_mstate = "IDLE" /\ reg_mcount = 0 /\ REQ = "none" /\ Goto("IDLE", 0)

Read2   == reg_mstate = "IDLE" /\ reg_mcount = 0 /\ REQ = "read" /\ Goto("READ2", cfg.read)
Read1   == \/ reg_mstate = "READ2" /\ Goto("READ1", cfg.read)
           \/ reg_mstate = "READ1" /\ reg_mcount # 0 /\ Goto("READ1", reg_mcount - 1)
Read01  == reg_mstate = "READ1" /\ reg_mcount = 0 /\ Goto("READ_01", 0)
EndRead == reg_mstate = "READ_01" /\ Goto("IDLE", pause("read"))

Write01  == reg_mstate = "IDLE" /\ reg_mcount = 0 /\ REQ = "write" /\ Goto(write_setup, cfg.write)
Write1   == reg_mstate = "WRITE_01" /\ Goto("WRITE1", cfg.write)
Write2   == \/ reg_mstate = "WRITE1" /\ Goto("WRITE2", cfg.write)
            \/ reg_mstate = "WRITE2" /\ reg_mcount # 0 /\ Goto("WRITE2", reg_mcount - 1)
Write3   == reg_mstate = "WRITE2" /\ reg_mcount = 0 /\ Goto("WRITE3", 0)
EndWrite == reg_mstate = "WRITE3" /\ Goto("IDLE", pause("write"))

MemoryMachineEdge ==
  /\ \/ Wait \/ Idle
     \/ Read2 \/ Read1 \/ Read01 \/ EndRead
     \/ Write01 \/ Write1 \/ Write2 \/ Write3 \/ EndWrite
  /\ reg_bs' = IF reg_mstate' = "IDLE" THEN {} ELSE NXTBYTEMASK

-----------------------------------------------------------------------------
(* The memory.  A read is valid once the pins were held for the configured *)
(* clocks; a write is stored when WEn rises, if it was low for as long.    *)

Chosen == {Routed(p) : p \in reg_bs}

\* What the data bus may show.  Nothing looks at it before DONE.
DATAIN == {d \in [Ports -> Bytes] :
             IF ~DONE THEN \A p \in Ports : d[p] = 0
             ELSE ~OEn /\ held > cfg.read =>
                    \A p \in reg_bs : d[p] = MEM[reg_addr.word][Routed(p)]}

Stored(d) == [MEM EXCEPT ![reg_addr.word] = Merge(@, d, Chosen)]

Latched == IF held >= cfg.write THEN {[i \in Lanes |-> DATAOUT[PortOf(i)]]} ELSE Data

Driver == IF ~OEn THEN "memory" ELSE IF ~DATAOEn THEN "bridge" ELSE "none"

OneMore(n) == IF n < Longest THEN n + 1 ELSE n

MemoryEdge ==
  /\ MEM' \in IF ~WEn /\ WEn' THEN {Stored(d) : d \in Latched} ELSE {MEM}
  /\ held' = IF UNCHANGED <<reg_addr, reg_bs, WEn, OEn>> THEN OneMore(held) ELSE 0
  /\ last_driver' = IF Driver = "none" THEN last_driver ELSE Driver
  /\ gap' = IF Driver = "none" THEN OneMore(gap) ELSE 0

-----------------------------------------------------------------------------
\* The master holds a transfer that waits, but may replace IDLE by one.  The
\* other slave is not ready in some cycles of its own transfers.
MasterEdge(d) ==
  /\ hdata' = IF HREADY THEN haddr ELSE hdata
  /\ got' = IF InExtmem /\ HREADY
              THEN [error |-> FALSE, data |-> Taken(hdata.t, HRDATA(d))] ELSE got
  /\ haddr' \in Phases
  /\ HREADY \/ haddr = NoPhase \/ haddr' = haddr
  /\ other_ready' \in BOOLEAN /\ (other_ready' \/ hdata'.to = "other")

HclkEdge ==
  \E d \in DATAIN : /\ BusMachineEdge(d) /\ MasterEdge(d)
                    /\ MemoryMachineEdge /\ MemoryEdge
                    /\ UNCHANGED cfg

Init ==
  /\ cfg \in Configs
  /\ reg_bstate = "DEF" /\ reg_req = "none" /\ reg_byte_mask = {}
  /\ reg_addr = [word |-> 0, low |-> 0]
  /\ read_buffer = [i \in 0 .. 2 |-> 0] /\ DATAOUT = [p \in Ports |-> 0]
  /\ reg_mstate = "IDLE" /\ reg_mcount = 0 /\ reg_bs = {}
  /\ MEM \in [Words -> PowerUp]
  /\ held = 0 /\ last_driver = "none" /\ gap = 0
  /\ haddr = NoPhase /\ hdata = NoPhase /\ other_ready = TRUE
  /\ got = [error |-> FALSE, data |-> Zero]

\* The system reset.  It has no effect on the memory, except that the pins of
\* a write change under it: the bytes strobed may become anything.
Reset ==
  /\ reg_bstate' = "DEF" /\ reg_req' = "none" /\ reg_byte_mask' = {}
  /\ reg_addr' = [word |-> 0, low |-> 0]
  /\ read_buffer' = [i \in 0 .. 2 |-> 0] /\ DATAOUT' = [p \in Ports |-> 0]
  /\ reg_mstate' = "IDLE" /\ reg_mcount' = 0 /\ reg_bs' = {}
  /\ MEM' \in IF WEn THEN {MEM} ELSE {Stored(d) : d \in Data}
  /\ held' = 0 /\ last_driver' = "none" /\ gap' = 0
  /\ haddr' = NoPhase /\ hdata' = NoPhase /\ other_ready' = TRUE
  /\ UNCHANGED <<cfg, got>>

Next == HclkEdge \/ Reset

Spec == Init /\ [][Next]_vars

\* HCLK runs.
FairSpec == Spec /\ WF_vars(HclkEdge)

-----------------------------------------------------------------------------
(* The interface is an AHB device.  A write counts as performed when its   *)
(* first access is: the master cannot see the accesses one by one.         *)

Performed == /\ InExtmem /\ hdata.t.write
             /\ reg_mstate = "WRITE3" \/ reg_bstate # first_state(hdata.t)

Memory == IF Performed
            THEN [MEM EXCEPT ![hdata.t.word] = Merge(@, hdata.t.data, LanesOf(hdata.t))]
            ELSE MEM

DeviceOp == IF ~InExtmem THEN [status |-> "none"]
            ELSE IF Performed THEN [status |-> "done", t |-> hdata.t, data |-> Zero]
            ELSE [status |-> "pending", t |-> hdata.t]

Device == INSTANCE AhbDevice WITH op <- DeviceOp, mem <- Memory

\* A reset in a write leaves the bytes of that write undefined.
CutsWrite ==
  /\ DeviceOp # Device!None /\ DeviceOp.t.write /\ DeviceOp' = Device!None
  /\ \E d \in Data : Memory' = [Memory EXCEPT ![DeviceOp.t.word] =
                                  Merge(@, d, LanesOf(DeviceOp.t))]
  /\ UNCHANGED got

\* However a transfer is split and however the two machines meet, the master
\* sees each transfer performed once, on its bytes alone, and a read returns
\* those bytes.  A reset spoils no byte but those of the write in progress.
MemorySpec ==
  Device!Init /\ [][Device!Next \/ CutsWrite]_(Device!vars)

\* The data bus changes hands only after it was left alone for more than
\* CFGTURNAROUNDCYCLE clocks, also when several transfers and pauses lie between
\* (the counts that READ_01 and WRITE3 load).
BusTurnsAround ==
  Driver # "none" /\ last_driver \notin {"none", Driver} => gap > cfg.turn

\* Address, strobes and data are there a clock before WEn falls, do not move
\* while it is low, and stay a clock after it: bus machine, data register and
\* memory machine agree on when an access begins and ends.
WriteIsStable ==
  [][HclkEdge /\ ~(WEn /\ WEn') => UNCHANGED <<reg_addr, reg_bs, DATAOUT>>]_vars

\* A transfer is answered: the bus machine does not drop a request before the
\* memory machine, which may be waiting, has taken it.
Responds == InExtmem ~> (HREADYOUT \/ ~InExtmem)

TypeOK ==
  /\ cfg \in ConfigTypes
  /\ reg_bstate \in BusStates /\ reg_req \in {"none", "read", "write"}
  /\ reg_addr \in [word : Words, low : Lanes] /\ reg_byte_mask \subseteq Ports
  /\ read_buffer \in [0 .. 2 -> Bytes] /\ DATAOUT \in [Ports -> Bytes]
  /\ reg_mstate \in MemStates /\ reg_mcount \in 0 .. 7 /\ reg_bs \subseteq Ports
  /\ MEM \in [Words -> Data]
  /\ held \in 0 .. Longest /\ gap \in 0 .. Longest
  /\ last_driver \in {"none", "memory", "bridge"}
  /\ haddr \in Phases /\ hdata \in Phases /\ other_ready \in BOOLEAN
  /\ got \in [error : BOOLEAN, data : Data]
=============================================================================
