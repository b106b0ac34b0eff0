------------------------ MODULE AhbToExtmem16Proofs ------------------------
(***************************************************************************)
(* The PSRAM interface keeps its bus free of conflicts and its pins still, *)
(* and implements a memory, for every configuration, every set of          *)
(* transfers and every size of the memory.                                 *)
(***************************************************************************)
EXTENDS AhbToExtmem16, TLAPS

ReadStates  == {"READ2", "READ1", "READ_01"}
WriteStates == {"WRITE_01", "WRITE1", "WRITE2", "WRITE3"}

\* The accesses of a transfer: state of the bus machine and low address.
Parts(t) ==
  CASE first_state(t) = "32BIT_16" -> {<<"32BIT_16", 0>>, <<"DEF", 2>>}
    [] first_state(t) = "32BIT_8A" -> {<<"32BIT_8A", 0>>, <<"32BIT_8B", 1>>,
                                       <<"32BIT_8C", 2>>, <<"DEF", 3>>}
    [] first_state(t) = "16BIT_8"  -> {<<"16BIT_8", t.low>>, <<"DEF", t.low + 1>>}
    [] OTHER                       -> {<<"DEF", t.low>>}

\* Both machines work for the transfer in the data phase, or are at rest.
FollowsBus ==
  /\ ~InExtmem => reg_bstate = "DEF" /\ reg_req = "none" /\ reg_mstate = "IDLE"
  /\ InExtmem => /\ reg_req = Op(hdata.t) /\ reg_byte_mask = byte_mask(hdata.t)
                 /\ reg_addr.word = hdata.t.word
                 /\ <<reg_bstate, reg_addr.low>> \in Parts(hdata.t)
  /\ InExtmem /\ reg_mstate # "IDLE" =>
       /\ reg_bs = byte_mask(hdata.t)
       /\ reg_mstate \in IF hdata.t.write THEN WriteStates ELSE ReadStates
  /\ reg_mstate = "READ_01" => reg_mcount = 0

\* The data of the access is on the ports before the write pulse.
DataOnPorts ==
  reg_mstate \in {"WRITE1", "WRITE2", "WRITE3"} =>
    DATAOUT = [p \in Ports |-> HWDATA[Routed(p)]]

\* The pause still to come makes up for a gap that is too short.
PauseCovers ==
  /\ reg_mstate = "IDLE" =>
       /\ last_driver = "memory" /\ reg_req # "read" => gap + reg_mcount >= cfg.turn
       /\ last_driver = "bridge" /\ reg_req # "write" => gap + reg_mcount >= cfg.turn
  /\ reg_mstate \in ReadStates /\ last_driver = "bridge" => gap > cfg.turn
  /\ reg_mstate \in WriteStates /\ last_driver = "memory" => gap > cfg.turn

\* The pins are held as long as the memory needs.
HeldLongEnough ==
  /\ reg_mstate = "WRITE2" => held + reg_mcount >= cfg.write
  /\ reg_mstate = "READ1" => held + reg_mcount >= cfg.read
  /\ reg_mstate = "READ_01" => held > cfg.read

\* The accesses so far have moved the bytes below the address, and the access
\* that is finishing its own.
BytesMoved ==
  InExtmem => \A i \in LanesOf(hdata.t) :
    IF hdata.t.write
      THEN i < reg_addr.low \/ (reg_mstate = "WRITE3" /\ i \in Chosen)
             => MEM[hdata.t.word][i] = hdata.t.data[i]
      ELSE i < reg_addr.low => read_buffer[i] = MEM[hdata.t.word][i]

IInv == /\ TypeOK /\ FollowsBus /\ DataOnPorts
        /\ PauseCovers /\ HeldLongEnough /\ BytesMoved

\* An edge of HCLK in which the data bus shows d.
Edge(d) == /\ BusMachineEdge(d) /\ MasterEdge(d)
           /\ MemoryMachineEdge /\ MemoryEdge
           /\ UNCHANGED cfg

-----------------------------------------------------------------------------
LEMMA PhaseFacts ==
  ASSUME NEW p \in Phases, p.to = "extmem"
  PROVE  /\ p.t \in Transfers /\ p.t \in AllTransfers /\ Aligned(p.t)
         /\ p = [to |-> "extmem", t |-> p.t]
  BY TransferAssumption DEF Phases, NoPhase

LEMMA DataFacts ==
  /\ Zero \in Data
  /\ \A a, b \in Data, s \in SUBSET Lanes : Merge(a, b, s) \in Data
  BY TransferAssumption DEF Zero, Data, Merge

\* Merging twice, when the lanes of one are among those of the other.
LEMMA MergeFacts ==
  ASSUME NEW a \in Data, NEW b \in Data, NEW c \in Data,
         NEW s \in SUBSET Lanes, NEW r \in SUBSET s
  PROVE  /\ (\A i \in s : a[i] = b[i]) => Merge(a, b, s) = a
         /\ Merge(Merge(a, c, r), b, s) = Merge(a, b, s)
         /\ Merge(Merge(a, b, s), Merge(a, c, r), s) = Merge(a, c, r)
  BY DEF Merge, Data

LEMMA TakenFacts ==
  ASSUME NEW t \in AllTransfers, NEW d \in Data
  PROVE  Taken(t, d) \in Data /\ Device!Taken(t, d) = Taken(t, d)
<1>1. Taken(t, d) \in Data
  BY DataFacts DEF Taken, Data, Merge
<1> QED BY <1>1 DEF Taken, Merge, LanesOf, Lanes, Zero, Device!Taken, Device!Merge,
                    Device!LanesOf, Device!Lanes, Device!Zero

LEMMA TransferFacts ==
  ASSUME NEW t \in AllTransfers, Aligned(t)
  PROVE  /\ t.low \in 0 .. 3 /\ t.size \in {1, 2, 4} /\ t.write \in BOOLEAN
         /\ t.word \in Words /\ t.data \in Data
         /\ LanesOf(t) \subseteq Lanes
         /\ t.size = 2 => t.low \in {0, 2}
         /\ t.size = 4 => t.low = 0
         /\ \A i \in Lanes : i \in LanesOf(t) <=> t.low <= i /\ i < t.low + t.size
<1>1. /\ t.low \in 0 .. 3 /\ t.size \in {1, 2, 4} /\ t.write \in BOOLEAN
      /\ t.word \in Words /\ t.data \in Data
  BY DEF AllTransfers, Lanes
<1>2. (t.size = 2 => t.low \in {0, 2}) /\ (t.size = 4 => t.low = 0)
  BY DEF Aligned
<1> QED BY <1>1, <1>2 DEF LanesOf, Lanes

\* Halving an address, which the routing of bytes does.
LEMMA Halves ==
  \A n \in 0 .. 3 : /\ n \div 2 = (IF n < 2 THEN 0 ELSE 1)
                    /\ n % 2 = (IF n \in {0, 2} THEN 0 ELSE 1)
<1>1. 0 \div 2 = 0 /\ 1 \div 2 = 0 /\ 2 \div 2 = 1 /\ 3 \div 2 = 1
  OBVIOUS
<1>2. 0 % 2 = 0 /\ 1 % 2 = 1 /\ 2 % 2 = 0 /\ 3 % 2 = 1
  OBVIOUS
<1>3. \A n \in 0 .. 3 : n = 0 \/ n = 1 \/ n = 2 \/ n = 3
  OBVIOUS
<1> QED BY <1>1, <1>2, <1>3

LEMMA RoutedTypes ==
  ASSUME TypeOK
  PROVE  /\ \A p \in Ports : Routed(p) \in Lanes
         /\ \A i \in Lanes : PortOf(i) \in Ports
         /\ following_low \in Lanes
<1>1. reg_addr.low \in 0 .. 3 /\ cfg.size \in {8, 16}
  BY DEF TypeOK, Lanes, ConfigTypes
<1>2. reg_addr.low \div 2 \in {0, 1} /\ \A i \in 0 .. 3 : i % 2 \in {0, 1}
  BY <1>1, Halves
<1>3. \A p \in Ports : Routed(p) \in Lanes
  BY <1>1, <1>2 DEF Routed, Ports, Lanes
<1>4. \A i \in Lanes : PortOf(i) \in Ports
  BY <1>2 DEF PortOf, Ports, Lanes
<1>5. following_low \in Lanes
  BY <1>1, <1>2 DEF following_low, Lanes
<1> QED BY <1>3, <1>4, <1>5

\* The cases of first_state and of Parts, one by one.
LEMMA FirstStates ==
  ASSUME cfg \in ConfigTypes, NEW t \in AllTransfers, Aligned(t)
  PROVE  \/ cfg.size = 16 /\ t.size = 4 /\ first_state(t) = "32BIT_16"
         \/ cfg.size = 8 /\ t.size = 4 /\ first_state(t) = "32BIT_8A"
         \/ cfg.size = 8 /\ t.size = 2 /\ first_state(t) = "16BIT_8"
         \/ t.size = 1 /\ first_state(t) = "DEF"
         \/ cfg.size = 16 /\ t.size = 2 /\ first_state(t) = "DEF"
<1>0. cfg.size \in {8, 16} /\ t.size \in {1, 2, 4}
  BY TransferFacts DEF ConfigTypes
<1>1. CASE cfg.size = 16 /\ t.size = 4
  BY <1>1 DEF first_state
<1>2. CASE cfg.size = 8 /\ t.size = 4
  BY <1>2 DEF first_state
<1>3. CASE cfg.size = 8 /\ t.size = 2
  BY <1>3 DEF first_state
<1>4. CASE t.size = 1
  BY <1>4 DEF first_state
<1>5. CASE cfg.size = 16 /\ t.size = 2
  BY <1>5 DEF first_state
<1> QED BY <1>0, <1>1, <1>2, <1>3, <1>4, <1>5

LEMMA PartCases ==
  ASSUME cfg \in ConfigTypes, NEW t \in AllTransfers, Aligned(t), NEW b, NEW n
  PROVE  <<b, n>> \in Parts(t) <=>
           \/ first_state(t) = "32BIT_16" /\ b = "32BIT_16" /\ n = 0
           \/ first_state(t) = "32BIT_16" /\ b = "DEF" /\ n = 2
           \/ first_state(t) = "32BIT_8A" /\ b = "32BIT_8A" /\ n = 0
           \/ first_state(t) = "32BIT_8A" /\ b = "32BIT_8B" /\ n = 1
           \/ first_state(t) = "32BIT_8A" /\ b = "32BIT_8C" /\ n = 2
           \/ first_state(t) = "32BIT_8A" /\ b = "DEF" /\ n = 3
           \/ first_state(t) = "16BIT_8" /\ b = "16BIT_8" /\ n = t.low
           \/ first_state(t) = "16BIT_8" /\ b = "DEF" /\ n = t.low + 1
           \/ first_state(t) = "DEF" /\ b = "DEF" /\ n = t.low
<1>1. CASE first_state(t) = "32BIT_16"
  <2>1. Parts(t) = {<<"32BIT_16", 0>>, <<"DEF", 2>>}
    BY <1>1 DEF Parts
  <2> QED BY <1>1, <2>1
<1>2. CASE first_state(t) = "32BIT_8A"
  <2>1. Parts(t) = {<<"32BIT_8A", 0>>, <<"32BIT_8B", 1>>, <<"32BIT_8C", 2>>, <<"DEF", 3>>}
    BY <1>2 DEF Parts
  <2> QED BY <1>2, <2>1
<1>3. CASE first_state(t) = "16BIT_8"
  <2>1. Parts(t) = {<<"16BIT_8", t.low>>, <<"DEF", t.low + 1>>}
    BY <1>3 DEF Parts
  <2> QED BY <1>3, <2>1
<1>4. CASE first_state(t) = "DEF"
  <2>1. Parts(t) = {<<"DEF", t.low>>}
    BY <1>4 DEF Parts
  <2> QED BY <1>4, <2>1
<1> QED BY <1>1, <1>2, <1>3, <1>4, FirstStates

\* What one access of a transfer moves: lanes of the transfer from the address
\* on, those below the next address, and in the last access those that are left.
Moves(t, i) == PortOf(i) \in byte_mask(t) /\ Routed(PortOf(i)) = i

LEMMA AccessFacts ==
  ASSUME TypeOK, NEW t \in AllTransfers, Aligned(t),
         <<reg_bstate, reg_addr.low>> \in Parts(t)
  PROVE  /\ byte_mask(t) \subseteq Ports
         /\ \A p \in byte_mask(t) : /\ Routed(p) \in LanesOf(t)
                                    /\ PortOf(Routed(p)) = p /\ reg_addr.low <= Routed(p)
         /\ reg_bstate = "DEF" => \A i \in LanesOf(t) :
              /\ i < reg_addr.low \/ Moves(t, i)
              /\ IF Buffered(t, i) THEN i < reg_addr.low ELSE Moves(t, i)
         /\ reg_bstate # "DEF" =>
              /\ <<following_state, following_low>> \in Parts(t)
              /\ following_state # first_state(t)
              /\ \A i \in LanesOf(t) : i < following_low => i < reg_addr.low \/ Moves(t, i)
<1> DEFINE low == reg_addr.low
<1>0. /\ cfg \in ConfigTypes /\ cfg.size \in {8, 16} /\ low \in 0 .. 3
  BY DEF TypeOK, ConfigTypes, Lanes
<1>1. /\ t.low \in 0 .. 3 /\ t.size \in {1, 2, 4}
      /\ t.size = 2 => t.low \in {0, 2}
      /\ t.size = 4 => t.low = 0
      /\ LanesOf(t) \subseteq 0 .. 3
      /\ \A i \in 0 .. 3 : i \in LanesOf(t) <=> t.low <= i /\ i < t.low + t.size
  BY TransferFacts DEF Lanes
<1>2. CASE cfg.size = 16 /\ t.size = 4
  <2>1. byte_mask(t) = {0, 1}
    BY <1>2 DEF byte_mask, Ports
  <2>2. \A i \in 0 .. 3 : PortOf(i) = i % 2 /\ (Buffered(t, i) <=> i < 2)
    BY <1>2 DEF PortOf, Buffered
  <2>3. \A p \in {0, 1} : Routed(p) = 2 * (low \div 2) + p
    BY <1>2 DEF Routed
  <2>4. first_state(t) = "32BIT_16"
    BY <1>2 DEF first_state
  <2>5. CASE reg_bstate = "32BIT_16" /\ low = 0
    <3>1. following_state = "DEF" /\ following_low = 2
      BY <2>5 DEF following_state, following_low
    <3>2. \A p \in {0, 1} : Routed(p) = p
      BY <2>3, <2>5, Halves
    <3>3. \A p \in {0, 1} : PortOf(p) = p
      BY <2>2, Halves
    <3>4. <<following_state, following_low>> \in Parts(t)
      BY <1>0, <2>4, <3>1, PartCases
    <3> HIDE DEF low
    <3> QED BY <1>1, <1>2, <2>1, <2>4, <2>5, <3>1, <3>2, <3>3, <3>4 DEF Moves, Ports, low
  <2>6. CASE reg_bstate = "DEF" /\ low = 2
    <3>1. \A p \in {0, 1} : Routed(p) = 2 + p
      BY <2>3, <2>6, Halves
    <3>2. PortOf(2) = 0 /\ PortOf(3) = 1
      BY <2>2, Halves
    <3> HIDE DEF low
    <3> QED BY <1>1, <1>2, <2>1, <2>2, <2>4, <2>6, <3>1, <3>2 DEF Moves, Ports, low
  <2> QED BY <1>0, <2>4, <2>5, <2>6, PartCases
<1>3. CASE cfg.size = 8 /\ t.size = 4
  <2>1. byte_mask(t) = {0} /\ Routed(0) = low
    BY <1>3 DEF byte_mask, Routed
  <2>2. \A i \in 0 .. 3 : PortOf(i) = 0 /\ (Buffered(t, i) <=> i < 3)
    BY <1>3 DEF PortOf, Buffered
  <2>3. first_state(t) = "32BIT_8A"
    BY <1>3 DEF first_state
  <2>4. CASE reg_bstate = "DEF" /\ low = 3
    BY <1>1, <1>3, <2>1, <2>2, <2>4 DEF Moves, Ports
  <2>5. CASE reg_bstate # "DEF"
    <3>1. \/ reg_bstate = "32BIT_8A" /\ low = 0
          \/ reg_bstate = "32BIT_8B" /\ low = 1
          \/ reg_bstate = "32BIT_8C" /\ low = 2
      BY <1>0, <2>3, <2>5, PartCases
    <3>2. following_state = IF low = 0 THEN "32BIT_8B"
                            ELSE IF low = 1 THEN "32BIT_8C" ELSE "DEF"
      BY <3>1 DEF following_state
    <3>3. following_low = low + 1
      BY <3>1 DEF following_low
    <3>4. <<following_state, following_low>> \in Parts(t)
      BY <1>0, <2>3, <3>1, <3>2, <3>3, PartCases
    <3> QED BY <1>0, <1>1, <1>3, <2>1, <2>2, <2>3, <2>5, <3>2, <3>3, <3>4 DEF Moves, Ports
  <2> QED BY <1>0, <2>3, <2>4, <2>5, PartCases
<1>4. CASE cfg.size = 8 /\ t.size = 2
  <2>1. byte_mask(t) = {0} /\ Routed(0) = low
    BY <1>4 DEF byte_mask, Routed
  <2>2. \A i \in 0 .. 3 : PortOf(i) = 0 /\ (Buffered(t, i) <=> i \in {0, 2})
    BY <1>4, Halves DEF PortOf, Buffered
  <2>3. first_state(t) = "16BIT_8"
    BY <1>4 DEF first_state
  <2>4. CASE reg_bstate = "DEF" /\ low = t.low + 1
    BY <1>1, <1>4, <2>1, <2>2, <2>4 DEF Moves, Ports
  <2>5. CASE reg_bstate = "16BIT_8" /\ low = t.low
    <3>1. following_state = "DEF"
      BY <2>5 DEF following_state
    <3>2. following_low = t.low + 1
      BY <1>1, <1>4, <2>5, Halves DEF following_low
    <3>3. <<following_state, following_low>> \in Parts(t)
      BY <1>0, <2>3, <3>1, <3>2, PartCases
    <3> QED BY <1>0, <1>1, <1>4, <2>1, <2>2, <2>3, <2>5, <3>1, <3>2, <3>3 DEF Moves, Ports
  <2> QED BY <1>0, <2>3, <2>4, <2>5, PartCases
<1>5. CASE t.size = 1 \/ (cfg.size = 16 /\ t.size = 2)
  <2>1. first_state(t) = "DEF"
    BY <1>0, <1>5, FirstStates
  <2>2. reg_bstate = "DEF" /\ low = t.low
    BY <1>0, <2>1, PartCases
  <2>3. CASE cfg.size = 8
    <3>1. byte_mask(t) = {0} /\ Routed(0) = low /\ PortOf(low) = 0 /\ ~Buffered(t, low)
      BY <1>5, <2>3 DEF byte_mask, Routed, PortOf, Buffered
    <3> QED BY <1>1, <1>5, <2>2, <2>3, <3>1 DEF Moves, Ports
  <2>4. CASE cfg.size = 16 /\ t.size = 1
    <3>1. byte_mask(t) = {low % 2} /\ Routed(low % 2) = 2 * (low \div 2) + (low % 2)
      BY <2>2, <2>4 DEF byte_mask, Routed
    <3>2. Routed(low % 2) = low /\ low % 2 \in {0, 1}
      BY <1>0, <3>1, Halves
    <3>3. PortOf(low) = low % 2 /\ ~Buffered(t, low)
      BY <2>4 DEF PortOf, Buffered
    <3> QED BY <1>1, <2>2, <2>4, <3>1, <3>2, <3>3 DEF Moves, Ports
  <2>5. CASE cfg.size = 16 /\ t.size = 2
    <3>1. byte_mask(t) = {0, 1}
      BY <2>5 DEF byte_mask, Ports
    <3>2. \A p \in {0, 1} : Routed(p) = low + p
      BY <1>1, <2>2, <2>5, Halves DEF Routed
    <3>3. \A p \in {0, 1} : PortOf(low + p) = p
      BY <1>1, <2>2, <2>5, Halves DEF PortOf
    <3>4. \A i \in 0 .. 3 : ~Buffered(t, i)
      BY <2>5 DEF Buffered
    <3>5. \A i \in LanesOf(t) : i = low \/ i = low + 1
      BY <1>1, <2>2, <2>5
    <3> QED BY <1>1, <2>2, <2>5, <3>1, <3>2, <3>3, <3>4, <3>5 DEF Moves, Ports
  <2> QED BY <1>0, <1>5, <2>3, <2>4, <2>5
<1> QED BY <1>0, <1>1, <1>2, <1>3, <1>4, <1>5

-----------------------------------------------------------------------------
(* A clock is one of four kinds: the interface is not used, a transfer     *)
(* enters its data phase, the last one leaves it, or one stays in it.      *)

Away == /\ ~InExtmem /\ ~InExtmem' /\ ~Accepts /\ REQ = "none" /\ reg_mstate' = "IDLE"
        /\ UNCHANGED <<reg_bstate, reg_addr, got>>

Enters == /\ ~InExtmem \/ HREADYOUT
          /\ haddr.to = "extmem" /\ hdata' = haddr /\ REQ = Op(haddr.t)
          /\ NXTBYTEMASK = byte_mask(haddr.t)
          /\ reg_bstate' = first_state(haddr.t)
          /\ reg_addr' = [word |-> haddr.t.word, low |-> haddr.t.low]

Leaves == /\ InExtmem /\ HREADYOUT /\ ~InExtmem' /\ REQ = "none" /\ reg_mstate' = "IDLE"
          /\ hdata' = haddr /\ UNCHANGED <<reg_bstate, reg_addr>>

Stays == /\ InExtmem /\ ~HREADYOUT /\ UNCHANGED <<hdata, got>>
         /\ REQ = Op(hdata.t) /\ NXTBYTEMASK = reg_byte_mask
         /\ NextPart \/ (~DONE /\ UNCHANGED <<reg_bstate, reg_addr>>)

LEMMA Kinds ==
  ASSUME TypeOK, FollowsBus, NEW d, Edge(d)
  PROVE  Away \/ Enters \/ Leaves \/ Stays
<1> USE DEF Edge, BusMachineEdge, MasterEdge
<1>0. DONE => reg_mstate # "IDLE" /\ InExtmem
  BY DEF DONE, FollowsBus
<1>1. CASE Accepts
  <2>1. AcceptTransfer /\ HREADY /\ haddr.to = "extmem" /\ (~InExtmem \/ HREADYOUT)
    BY <1>1 DEF AcceptTransfer, NextPart, HoldPart, Accepts, trans_valid, HREADY
  <2>2. REQ = Op(haddr.t) /\ NXTBYTEMASK = byte_mask(haddr.t)
    BY <1>1 DEF REQ, NXTBYTEMASK
  <2> QED BY <2>1, <2>2 DEF AcceptTransfer, Enters
<1>2. CASE ~Accepts /\ ~InExtmem
  <2>1. ~DONE /\ reg_bstate = "DEF" /\ reg_req = "none" /\ reg_mstate = "IDLE"
    BY <1>0, <1>2 DEF FollowsBus
  <2>2. HoldPart /\ REQ = "none"
    BY <1>2, <2>1 DEF AcceptTransfer, NextPart, REQ
  <2>3. reg_mstate' = "IDLE"
    BY <2>1, <2>2 DEF MemoryMachineEdge, Wait, Idle, Read2, Read1, Read01, EndRead,
                      Write01, Write1, Write2, Write3, EndWrite, Goto
  <2>4. ~InExtmem'
    BY <1>2, <2>1 DEF InExtmem, Accepts, trans_valid
  <2> QED BY <1>2, <2>2, <2>3, <2>4 DEF Away, HoldPart
<1>3. CASE ~Accepts /\ InExtmem /\ HREADYOUT
  <2>1. DONE /\ reg_bstate = "DEF" /\ HREADY /\ haddr.to # "extmem"
    BY <1>3 DEF HREADYOUT, HREADY, Accepts, trans_valid, InExtmem
  <2>2. HoldPart /\ REQ = "none"
    BY <1>3, <2>1 DEF AcceptTransfer, NextPart, REQ
  <2>3. reg_mstate' = "IDLE"
    BY <2>1 DEF DONE, MemoryMachineEdge, Wait, Idle, Read2, Read1, Read01, EndRead,
                Write01, Write1, Write2, Write3, EndWrite, Goto
  <2> QED BY <1>3, <2>1, <2>2, <2>3 DEF Leaves, HoldPart, InExtmem
<1>4. CASE ~Accepts /\ InExtmem /\ ~HREADYOUT
  <2>1. ~HREADY /\ UNCHANGED <<hdata, got>>
    BY <1>4 DEF HREADY
  <2>2. REQ = Op(hdata.t) /\ NXTBYTEMASK = reg_byte_mask
    BY <1>4 DEF REQ, NXTBYTEMASK, HREADYOUT, FollowsBus
  <2>3. NextPart \/ (~DONE /\ UNCHANGED <<reg_bstate, reg_addr>>)
    BY <1>4 DEF AcceptTransfer, HoldPart, HREADYOUT
  <2> QED BY <1>4, <2>1, <2>2, <2>3 DEF Stays
<1> QED BY <1>1, <1>2, <1>3, <1>4

\* In a clock the memory machine moves one state on, stays in it to count, or
\* goes back to rest.
LEMMA MemoryMoves ==
  ASSUME MemoryMachineEdge
  PROVE  \/ reg_mstate = "IDLE" /\ reg_mcount # 0 /\ Goto("IDLE", reg_mcount - 1)
         \/ reg_mstate = "IDLE" /\ reg_mcount = 0 /\ REQ = "none" /\ Goto("IDLE", 0)
         \/ reg_mstate = "IDLE" /\ reg_mcount = 0 /\ REQ = "read" /\ Goto("READ2", cfg.read)
         \/ reg_mstate = "IDLE" /\ reg_mcount = 0 /\ REQ = "write" /\ Goto("WRITE_01", cfg.write)
         \/ reg_mstate = "READ2" /\ Goto("READ1", cfg.read)
         \/ reg_mstate = "READ1" /\ reg_mcount # 0 /\ Goto("READ1", reg_mcount - 1)
         \/ reg_mstate = "READ1" /\ reg_mcount = 0 /\ Goto("READ_01", 0)
         \/ reg_mstate = "READ_01" /\ Goto("IDLE", pause("read"))
         \/ reg_mstate = "WRITE_01" /\ Goto("WRITE1", cfg.write)
         \/ reg_mstate = "WRITE1" /\ Goto("WRITE2", cfg.write)
         \/ reg_mstate = "WRITE2" /\ reg_mcount # 0 /\ Goto("WRITE2", reg_mcount - 1)
         \/ reg_mstate = "WRITE2" /\ reg_mcount = 0 /\ Goto("WRITE3", 0)
         \/ reg_mstate = "WRITE3" /\ Goto("IDLE", pause("write"))
  BY DEF MemoryMachineEdge, Wait, Idle, Read2, Read1, Read01, EndRead,
         Write01, Write1, Write2, Write3, EndWrite, write_setup

LEMMA MaskTypes ==
  ASSUME cfg \in ConfigTypes, NEW t \in AllTransfers, Aligned(t)
  PROVE  byte_mask(t) \subseteq Ports /\ first_state(t) \in BusStates /\ Op(t) \in {"read", "write"}
<1>1. t.low % 2 \in {0, 1}
  BY TransferFacts, Halves
<1>2. byte_mask(t) \subseteq Ports
  BY <1>1 DEF byte_mask, Ports
<1> QED BY <1>2, FirstStates DEF BusStates, Op

LEMMA HclkTypes ==
  ASSUME TypeOK, NEW d \in DATAIN, Edge(d)
  PROVE  TypeOK'
<1> USE DEF TypeOK, Edge
<1>0. /\ cfg \in ConfigTypes /\ cfg.read \in 0 .. 7 /\ cfg.write \in 0 .. 7 /\ cfg.turn \in 0 .. 7
      /\ d \in [Ports -> Bytes]
      /\ haddr.to = "extmem" => haddr.t \in AllTransfers /\ Aligned(haddr.t)
      /\ InExtmem => hdata.t \in AllTransfers /\ Aligned(hdata.t)
  BY PhaseFacts DEF ConfigTypes, DATAIN, InExtmem
<1>1. HWDATA \in Data
  BY <1>0, DataFacts, TransferFacts DEF HWDATA
<1>2. reg_bstate' \in BusStates
  <2>1. following_state \in BusStates
    BY DEF following_state, BusStates
  <2>2. Accepts => first_state(haddr.t) \in BusStates
    BY <1>0, MaskTypes DEF Accepts, trans_valid
  <2> QED BY <2>1, <2>2 DEF BusMachineEdge, AcceptTransfer, NextPart, HoldPart
<1>3. reg_addr' \in [word : Words, low : Lanes]
  <2>1. CASE AcceptTransfer
    BY <1>0, <2>1, TransferFacts DEF AcceptTransfer, Accepts, trans_valid, Lanes
  <2>2. CASE NextPart
    BY <2>2, RoutedTypes DEF NextPart
  <2>3. CASE HoldPart
    BY <2>3 DEF HoldPart
  <2> QED BY <2>1, <2>2, <2>3 DEF BusMachineEdge
<1>4. REQ \in {"none", "read", "write"} /\ NXTBYTEMASK \subseteq Ports
  BY <1>0, MaskTypes DEF REQ, NXTBYTEMASK, Accepts, trans_valid, Op
<1>5. reg_req' \in {"none", "read", "write"} /\ reg_byte_mask' \subseteq Ports
  BY <1>4 DEF BusMachineEdge
<1>6. read_buffer' \in [0 .. 2 -> Bytes]
  BY <1>0, RoutedTypes DEF BusMachineEdge, Lanes
<1>7. DATAOUT' \in [Ports -> Bytes]
  BY <1>1, RoutedTypes DEF BusMachineEdge, Data
<1>8. reg_mstate' \in MemStates /\ reg_mcount' \in 0 .. 7 /\ reg_bs' \subseteq Ports
  <2>1. pause("read") \in 0 .. 7 /\ pause("write") \in 0 .. 7
    BY <1>0 DEF pause
  <2>2. reg_mstate' \in MemStates /\ reg_mcount' \in 0 .. 7
    BY <1>0, <2>1, MemoryMoves DEF Goto, MemStates
  <2> QED BY <1>4, <2>2 DEF MemoryMachineEdge
<1>9. MEM' \in [Words -> Data]
  <2>1. Latched \subseteq Data
    BY RoutedTypes DEF Latched, Data
  <2>2. Chosen \subseteq Lanes
    BY RoutedTypes DEF Chosen
  <2>3. \A x \in Data : Stored(x) \in [Words -> Data]
    BY <2>2, DataFacts DEF Stored
  <2> QED BY <2>1, <2>3 DEF MemoryEdge
<1>10. held' \in 0 .. Longest' /\ gap' \in 0 .. Longest'
  <2>1. Longest \in Nat /\ Longest' = Longest
    BY <1>0 DEF Longest
  <2>2. OneMore(held) \in 0 .. Longest /\ OneMore(gap) \in 0 .. Longest
    BY <2>1 DEF OneMore
  <2> QED BY <2>1, <2>2 DEF MemoryEdge
<1>11. last_driver' \in {"none", "memory", "bridge"}
  BY DEF MemoryEdge, Driver
<1>12. haddr' \in Phases /\ hdata' \in Phases /\ other_ready' \in BOOLEAN
  BY DEF MasterEdge
<1>13. got' \in [error : BOOLEAN, data : Data]
  <2>1. HRDATA(d) \in Data
    <3>1. \A i \in Lanes : Buffered(hdata.t, i) => i \in 0 .. 2
      BY DEF Buffered, Lanes
    <3>2. \A i \in Lanes : (IF Buffered(hdata.t, i) THEN read_buffer[i] ELSE d[PortOf(i)]) \in Bytes
      BY <1>0, <3>1, RoutedTypes
    <3> QED BY <3>2 DEF HRDATA, Data
  <2> QED BY <1>0, <2>1, TakenFacts DEF MasterEdge
<1>14. cfg' \in ConfigTypes
  OBVIOUS
<1> QED BY <1>2, <1>3, <1>5, <1>6, <1>7, <1>8, <1>9, <1>10, <1>11, <1>12, <1>13, <1>14 DEF TypeOK

-----------------------------------------------------------------------------
LEMMA HclkFollows ==
  ASSUME TypeOK, FollowsBus, NEW d \in DATAIN, Edge(d)
  PROVE  FollowsBus'
<1> USE DEF Edge
<1>0. /\ reg_req' = REQ /\ reg_byte_mask' = NXTBYTEMASK /\ cfg' = cfg /\ cfg \in ConfigTypes
  BY DEF BusMachineEdge, TypeOK
<1>1. reg_mstate' = "READ_01" => reg_mcount' = 0
  BY MemoryMoves DEF Goto
<1>2. CASE Away
  BY <1>0, <1>1, <1>2 DEF Away, FollowsBus
<1>3. CASE Leaves
  BY <1>0, <1>1, <1>3 DEF Leaves, FollowsBus, HREADYOUT
<1>4. CASE Enters
  <2>1. haddr.t \in AllTransfers /\ Aligned(haddr.t)
    BY <1>4, PhaseFacts DEF Enters, TypeOK
  <2>2. <<first_state(haddr.t), haddr.t.low>> \in Parts(haddr.t)
    BY <1>0, <2>1, FirstStates, PartCases, TransferFacts
  <2>3. reg_mstate = "IDLE" \/ DONE
    BY <1>4 DEF Enters, FollowsBus, HREADYOUT
  <2>4. reg_mstate' = "IDLE" \/ /\ reg_mstate' = IF haddr.t.write THEN "WRITE_01" ELSE "READ2"
                                /\ reg_bs' = byte_mask(haddr.t)
    BY <1>4, <2>3, MemoryMoves DEF Enters, DONE, Goto, Op, MemoryMachineEdge
  <2>5. /\ hdata' = haddr /\ InExtmem' /\ reg_req' = Op(haddr.t)
        /\ reg_byte_mask' = byte_mask(haddr.t) /\ reg_addr'.word = haddr.t.word
        /\ <<reg_bstate', reg_addr'.low>> \in Parts(haddr.t)
    BY <1>0, <1>4, <2>2 DEF Enters, InExtmem
  <2>6. /\ Op(hdata.t)' = Op(haddr.t) /\ byte_mask(hdata.t)' = byte_mask(haddr.t)
        /\ Parts(hdata.t)' = Parts(haddr.t)
    BY <1>0, <2>5 DEF Op, byte_mask, Parts, first_state
  <2> QED BY <1>1, <2>4, <2>5, <2>6 DEF FollowsBus, ReadStates, WriteStates
<1>5. CASE Stays
  <2>0. hdata.t \in AllTransfers /\ Aligned(hdata.t)
    BY <1>5, PhaseFacts DEF Stays, TypeOK, InExtmem
  <2>1. InExtmem' /\ hdata' = hdata /\ reg_req' = Op(hdata.t) /\ reg_byte_mask' = byte_mask(hdata.t)
    BY <1>0, <1>5 DEF Stays, FollowsBus, InExtmem
  <2>2. reg_addr'.word = hdata.t.word /\ <<reg_bstate', reg_addr'.low>> \in Parts(hdata.t)
    <3>1. CASE NextPart
      <4>1. reg_addr'.word = reg_addr.word /\ reg_addr'.low = following_low
        BY <3>1 DEF NextPart, TypeOK
      <4>2. <<following_state, following_low>> \in Parts(hdata.t)
        BY <1>5, <2>0, <3>1, AccessFacts DEF Stays, FollowsBus, NextPart
      <4> QED BY <1>5, <3>1, <4>1, <4>2 DEF Stays, FollowsBus, NextPart
    <3>2. CASE UNCHANGED <<reg_bstate, reg_addr>>
      BY <1>5, <3>2 DEF Stays, FollowsBus
    <3> QED BY <1>5, <3>1, <3>2 DEF Stays
  <2>3. reg_mstate' # "IDLE" =>
          /\ reg_bs' = byte_mask(hdata.t)
          /\ reg_mstate' \in IF hdata.t.write THEN WriteStates ELSE ReadStates
    <3>1. NXTBYTEMASK = byte_mask(hdata.t)
      BY <1>0, <2>1
    <3>2. REQ = IF hdata.t.write THEN "write" ELSE "read"
      BY <1>5 DEF Stays, Op
    <3>3. reg_mstate # "IDLE" =>
            reg_mstate \in IF hdata.t.write THEN WriteStates ELSE ReadStates
      BY <1>5 DEF Stays, FollowsBus
    <3> QED BY <3>1, <3>2, <3>3, MemoryMoves DEF Goto, MemoryMachineEdge, ReadStates, WriteStates
  <2>4. /\ Op(hdata.t)' = Op(hdata.t) /\ byte_mask(hdata.t)' = byte_mask(hdata.t)
        /\ Parts(hdata.t)' = Parts(hdata.t)
    BY <1>0, <2>1 DEF Op, byte_mask, Parts, first_state
  <2> QED BY <1>1, <2>1, <2>2, <2>3, <2>4 DEF FollowsBus, ReadStates, WriteStates
<1> QED BY <1>2, <1>3, <1>4, <1>5, Kinds

\* The memory machine is between two accesses whenever the address moves.
LEMMA AddressMoves ==
  ASSUME TypeOK, FollowsBus, NEW d, Edge(d), reg_mstate' # "IDLE", reg_mstate # "IDLE"
  PROVE  /\ InExtmem /\ InExtmem' /\ UNCHANGED <<hdata, reg_addr, reg_bs, reg_bstate>>
         /\ reg_bs = byte_mask(hdata.t)
<1>1. ~DONE
  BY MemoryMoves DEF Edge, DONE, Goto
<1>2. Stays
  BY <1>1, Kinds DEF Away, Enters, Leaves, FollowsBus, HREADYOUT
<1>3. reg_bs' = reg_byte_mask /\ reg_bs = reg_byte_mask
  BY <1>2 DEF Stays, Edge, MemoryMachineEdge, FollowsBus
<1> QED BY <1>1, <1>2, <1>3 DEF Stays, NextPart, FollowsBus, InExtmem

LEMMA HclkData ==
  ASSUME TypeOK, FollowsBus, DataOnPorts, NEW d, Edge(d)
  PROVE  DataOnPorts'
<1> SUFFICES ASSUME reg_mstate' \in {"WRITE1", "WRITE2", "WRITE3"}
             PROVE  DATAOUT' = [p \in Ports |-> HWDATA'[Routed(p)']]
  BY DEF DataOnPorts
<1>1. reg_mstate \in {"WRITE_01", "WRITE1", "WRITE2"}
  BY MemoryMoves DEF Edge, Goto
<1>2. InExtmem /\ InExtmem' /\ UNCHANGED <<hdata, reg_addr, cfg>>
  BY <1>1, AddressMoves DEF Edge
<1>3. DATAOUT' = [p \in Ports |-> HWDATA[Routed(p)]]
  BY <1>2 DEF Edge, BusMachineEdge
<1>4. HWDATA' = HWDATA /\ \A p \in Ports : Routed(p)' = Routed(p)
  BY <1>2 DEF HWDATA, Routed
<1> QED BY <1>3, <1>4

LEMMA CountFacts ==
  ASSUME TypeOK
  PROVE  /\ cfg.read \in 0 .. 7 /\ cfg.write \in 0 .. 7 /\ cfg.turn \in 0 .. 7
         /\ reg_mcount \in 0 .. 7 /\ gap \in Nat /\ held \in Nat
         /\ OneMore(gap) \in Nat /\ OneMore(held) \in Nat
         /\ OneMore(gap) = gap + 1 \/ (OneMore(gap) = gap /\ gap > cfg.turn)
         /\ \/ OneMore(held) = held + 1
            \/ OneMore(held) = held /\ held > cfg.read /\ held > cfg.write
  BY DEF TypeOK, ConfigTypes, Longest, OneMore

\* The requests of a clock, as the registers remember them.
LEMMA Requests ==
  ASSUME TypeOK, FollowsBus, NEW d \in DATAIN, Edge(d)
  PROVE  /\ reg_req' = REQ /\ cfg' = cfg
         /\ reg_mstate = "IDLE" /\ reg_req # "none" => REQ = reg_req
<1>1. reg_req' = REQ /\ cfg' = cfg
  BY DEF Edge, BusMachineEdge
<1>2. reg_mstate = "IDLE" /\ reg_req # "none" => Stays
  BY Kinds DEF Away, Enters, Leaves, FollowsBus, HREADYOUT, DONE
<1> QED BY <1>1, <1>2 DEF Stays, FollowsBus

LEMMA HclkPauses ==
  ASSUME IInv, NEW d \in DATAIN, Edge(d)
  PROVE  PauseCovers'
<1> USE CountFacts, Requests DEF IInv
<1>0. /\ last_driver' = (IF Driver = "none" THEN last_driver ELSE Driver)
      /\ gap' = (IF Driver = "none" THEN OneMore(gap) ELSE 0)
      /\ reg_req' = REQ /\ cfg' = cfg
  BY DEF Edge, MemoryEdge
<1>1. CASE reg_mstate = "IDLE" /\ reg_mcount # 0
  <2>1. Driver = "none" /\ reg_mstate' = "IDLE" /\ reg_mcount' = reg_mcount - 1
    BY <1>1, MemoryMoves DEF Edge, Goto, Driver, OEn, DATAOEn
  <2>2. REQ # "read" => reg_req # "read"
    BY <1>1
  <2>3. REQ # "write" => reg_req # "write"
    BY <1>1
  <2> QED BY <1>0, <1>1, <2>1, <2>2, <2>3 DEF PauseCovers, ReadStates, WriteStates
<1>2. CASE reg_mstate = "IDLE" /\ reg_mcount = 0
  <2>1. /\ Driver = "none"
        /\ \/ reg_mstate' = "IDLE" /\ reg_mcount' = 0 /\ REQ = "none"
           \/ reg_mstate' = "READ2" /\ REQ = "read"
           \/ reg_mstate' = "WRITE_01" /\ REQ = "write"
    BY <1>2, MemoryMoves DEF Edge, Goto, Driver, OEn, DATAOEn
  <2>2. last_driver = "memory" /\ REQ # "read" => gap >= cfg.turn
    BY <1>2 DEF PauseCovers
  <2>3. last_driver = "bridge" /\ REQ # "write" => gap >= cfg.turn
    BY <1>2 DEF PauseCovers
  <2> QED BY <1>0, <2>1, <2>2, <2>3 DEF PauseCovers, ReadStates, WriteStates
<1>3. CASE reg_mstate \in {"READ2", "WRITE_01"}
  <2>1. /\ Driver = "none"
        /\ reg_mstate' = IF reg_mstate = "READ2" THEN "READ1" ELSE "WRITE1"
    BY <1>3, MemoryMoves DEF Edge, Goto, Driver, OEn, DATAOEn
  <2> QED BY <1>0, <1>3, <2>1 DEF PauseCovers, ReadStates, WriteStates
<1>4. CASE reg_mstate \in {"READ1", "READ_01"}
  <2>1. last_driver' = "memory" /\ gap' = 0
    BY <1>0, <1>4 DEF Driver, OEn
  <2>2. \/ reg_mstate' \in {"READ1", "READ_01"}
        \/ reg_mstate' = "IDLE" /\ reg_mcount' = pause("read")
    BY <1>4, MemoryMoves DEF Edge, Goto
  <2>3. REQ # "read" => pause("read") = cfg.turn
    BY DEF pause
  <2> QED BY <1>0, <2>1, <2>2, <2>3 DEF PauseCovers, ReadStates, WriteStates
<1>5. CASE reg_mstate \in {"WRITE1", "WRITE2", "WRITE3"}
  <2>1. last_driver' = "bridge" /\ gap' = 0
    BY <1>0, <1>5 DEF Driver, OEn, DATAOEn
  <2>2. \/ reg_mstate' \in {"WRITE2", "WRITE3"}
        \/ reg_mstate' = "IDLE" /\ reg_mcount' = pause("write")
    BY <1>5, MemoryMoves DEF Edge, Goto
  <2>3. REQ # "write" => pause("write") = cfg.turn
    BY DEF pause
  <2> QED BY <1>0, <2>1, <2>2, <2>3 DEF PauseCovers, ReadStates, WriteStates
<1> QED BY <1>1, <1>2, <1>3, <1>4, <1>5 DEF TypeOK, MemStates

LEMMA HclkHolds ==
  ASSUME IInv, NEW d \in DATAIN, Edge(d)
  PROVE  HeldLongEnough'
<1> USE CountFacts DEF IInv
<1>0. cfg' = cfg /\ held' = IF UNCHANGED <<reg_addr, reg_bs, WEn, OEn>> THEN OneMore(held) ELSE 0
  BY DEF Edge, MemoryEdge
<1>1. CASE reg_mstate' = "WRITE2"
  <2>1. CASE reg_mstate = "WRITE1"
    <3>1. reg_mcount' = cfg.write /\ held' = 0
      BY <1>0, <1>1, <2>1, MemoryMoves DEF Edge, Goto, WEn
    <3> QED BY <1>0, <1>1, <3>1 DEF HeldLongEnough
  <2>2. CASE reg_mstate = "WRITE2" /\ reg_mcount # 0 /\ reg_mcount' = reg_mcount - 1
    <3>1. held' = OneMore(held)
      BY <1>0, <1>1, <2>2, AddressMoves DEF WEn, OEn
    <3> QED BY <1>0, <1>1, <2>2, <3>1 DEF HeldLongEnough
  <2> QED BY <1>1, <2>1, <2>2, MemoryMoves DEF Edge, Goto
<1>2. CASE reg_mstate' = "READ1"
  <2>1. CASE reg_mstate = "READ2"
    <3>1. reg_mcount' = cfg.read /\ held' = 0
      BY <1>0, <1>2, <2>1, MemoryMoves DEF Edge, Goto, OEn
    <3> QED BY <1>0, <1>2, <3>1 DEF HeldLongEnough
  <2>2. CASE reg_mstate = "READ1" /\ reg_mcount # 0 /\ reg_mcount' = reg_mcount - 1
    <3>1. held' = OneMore(held)
      BY <1>0, <1>2, <2>2, AddressMoves DEF WEn, OEn
    <3> QED BY <1>0, <1>2, <2>2, <3>1 DEF HeldLongEnough
  <2> QED BY <1>2, <2>1, <2>2, MemoryMoves DEF Edge, Goto
<1>3. CASE reg_mstate' = "READ_01"
  <2>1. reg_mstate = "READ1" /\ reg_mcount = 0
    BY <1>3, MemoryMoves DEF Edge, Goto
  <2>2. held' = OneMore(held)
    BY <1>0, <1>3, <2>1, AddressMoves DEF WEn, OEn
  <2> QED BY <1>0, <1>3, <2>1, <2>2 DEF HeldLongEnough
<1> QED BY <1>1, <1>2, <1>3 DEF HeldLongEnough

-----------------------------------------------------------------------------
LEMMA CapturesCases ==
  ASSUME InExtmem, ~hdata.t.write, DONE
  PROVE  /\ Captures(0) <=> Routed(0) = 0
         /\ Captures(1) <=> reg_bstate \in {"32BIT_16", "32BIT_8B"}
         /\ Captures(2) <=> reg_bstate \in {"16BIT_8", "32BIT_8C"}
<1>1. Captures(0) <=> Routed(0) = 0
  BY DEF Captures
<1>2. Captures(1) <=> reg_bstate \in {"32BIT_16", "32BIT_8B"}
  BY DEF Captures
<1>3. Captures(2) <=> reg_bstate \in {"16BIT_8", "32BIT_8C"}
  BY DEF Captures
<1> QED BY <1>1, <1>2, <1>3

\* A buffer takes a byte in the access that reads it, and keeps it in the later
\* ones.
LEMMA CaptureFacts ==
  ASSUME TypeOK, FollowsBus, InExtmem, ~hdata.t.write, DONE, reg_bstate # "DEF",
         NEW i \in LanesOf(hdata.t), i < following_low
  PROVE  i \in 0 .. 2 /\ (Captures(i) => Moves(hdata.t, i)) /\ (~Captures(i) => i < reg_addr.low)
<1> DEFINE t == hdata.t
           low == reg_addr.low
<1>0. /\ t \in AllTransfers /\ Aligned(t) /\ cfg \in ConfigTypes /\ cfg.size \in {8, 16}
      /\ <<reg_bstate, low>> \in Parts(t) /\ low \in 0 .. 3
      /\ i \in 0 .. 3 /\ t.low <= i /\ i < t.low + t.size /\ t.low \in 0 .. 3
      /\ i < low \/ Moves(t, i)
  BY PhaseFacts, TransferFacts, AccessFacts
     DEF InExtmem, TypeOK, FollowsBus, ConfigTypes, Lanes
<1>1. CASE reg_bstate = "32BIT_16"
  <2>1. cfg.size = 16 /\ low = 0 /\ following_low = 2
    BY <1>0, <1>1, PartCases, FirstStates DEF following_low
  <2>2. Routed(0) = 0
    BY <2>1, Halves DEF Routed
  <2> QED BY <1>0, <1>1, <2>1, <2>2, CapturesCases
<1>2. CASE reg_bstate \in {"32BIT_8A", "32BIT_8B", "32BIT_8C"}
  <2>1. /\ cfg.size = 8 /\ following_low = low + 1
        /\ low = IF reg_bstate = "32BIT_8A" THEN 0 ELSE IF reg_bstate = "32BIT_8B" THEN 1 ELSE 2
    BY <1>0, <1>2, PartCases, FirstStates DEF following_low
  <2>2. Routed(0) = low
    BY <2>1 DEF Routed
  <2>3. PortOf(i) = 0 /\ byte_mask(t) = {0}
    BY <2>1 DEF PortOf, byte_mask
  <2> QED BY <1>0, <1>2, <2>1, <2>2, <2>3, CapturesCases DEF Moves
<1>3. CASE reg_bstate = "16BIT_8"
  <2>1. cfg.size = 8 /\ low = t.low /\ t.size = 2 /\ t.low \in {0, 2}
    BY <1>0, <1>3, PartCases, FirstStates, TransferFacts
  <2>2. Routed(0) = low
    BY <2>1 DEF Routed
  <2>3. following_low = low + 1
    BY <1>3, <2>1, Halves DEF following_low
  <2>4. i = low
    BY <1>0, <2>1, <2>3
  <2> QED BY <1>0, <1>3, <2>1, <2>2, <2>4, CapturesCases
<1> QED BY <1>1, <1>2, <1>3 DEF TypeOK, BusStates

LEMMA ChosenFacts ==
  ASSUME TypeOK, FollowsBus, InExtmem, reg_mstate # "IDLE"
  PROVE  /\ hdata.t \in AllTransfers /\ Aligned(hdata.t) /\ LanesOf(hdata.t) \subseteq Lanes
         /\ Chosen \subseteq LanesOf(hdata.t)
         /\ \A i : Moves(hdata.t, i) => i \in Chosen
         /\ \A i \in Chosen : PortOf(i) \in reg_bs /\ Routed(PortOf(i)) = i
<1>1. hdata.t \in AllTransfers /\ Aligned(hdata.t)
  BY PhaseFacts DEF TypeOK, InExtmem
<1>2. reg_bs = byte_mask(hdata.t) /\ <<reg_bstate, reg_addr.low>> \in Parts(hdata.t)
  BY DEF FollowsBus
<1>3. \A p \in byte_mask(hdata.t) : Routed(p) \in LanesOf(hdata.t) /\ PortOf(Routed(p)) = p
  BY <1>1, <1>2, AccessFacts
<1> QED BY <1>1, <1>2, <1>3, TransferFacts DEF Chosen, Moves

\* Only the end of a write pulse changes the memory, in the lanes it strobes.
LEMMA MemoryWrites ==
  ASSUME IInv, NEW d \in DATAIN, Edge(d)
  PROVE  MEM' = IF reg_mstate = "WRITE2" /\ reg_mcount = 0
                  THEN [MEM EXCEPT ![hdata.t.word] =
                          Merge(MEM[hdata.t.word], hdata.t.data, Chosen)]
                  ELSE MEM
<1> USE DEF IInv
<1>0. MEM' \in IF ~WEn /\ WEn' THEN {Stored(x) : x \in Latched} ELSE {MEM}
  BY DEF Edge, MemoryEdge
<1>1. CASE reg_mstate = "WRITE2" /\ reg_mcount = 0
  <2>1. ~WEn /\ WEn'
    BY <1>1, MemoryMoves DEF Edge, Goto, WEn
  <2>2. InExtmem /\ reg_addr.word = hdata.t.word
    BY <1>1 DEF FollowsBus
  <2>3. held >= cfg.write
    BY <1>1, CountFacts DEF HeldLongEnough
  <2>4. MEM' = Stored([i \in Lanes |-> DATAOUT[PortOf(i)]])
    BY <1>0, <2>1, <2>3 DEF Latched
  <2>5. \A i \in Chosen : i \in Lanes => DATAOUT[PortOf(i)] = hdata.t.data[i]
    <3>1. DATAOUT = [p \in Ports |-> hdata.t.data[Routed(p)]]
      BY <1>1, <2>2 DEF DataOnPorts, HWDATA
    <3> QED BY <1>1, <2>2, <3>1, ChosenFacts, RoutedTypes
  <2>6. Merge(MEM[hdata.t.word], [i \in Lanes |-> DATAOUT[PortOf(i)]], Chosen)
          = Merge(MEM[hdata.t.word], hdata.t.data, Chosen)
    BY <2>5 DEF Merge
  <2> QED BY <1>1, <2>2, <2>4, <2>6 DEF Stored
<1>2. CASE ~(reg_mstate = "WRITE2" /\ reg_mcount = 0)
  <2>1. WEn \/ ~WEn'
    BY <1>2, MemoryMoves DEF Edge, Goto, WEn
  <2> QED BY <1>0, <1>2, <2>1
<1> QED BY <1>1, <1>2

\* The bytes on the bus when a read is done.
LEMMA BusReads ==
  ASSUME IInv, InExtmem, ~hdata.t.write, DONE, NEW d \in DATAIN,
         NEW i, Moves(hdata.t, i)
  PROVE  d[PortOf(i)] = MEM[hdata.t.word][i]
<1> USE DEF IInv
<1>1. reg_mstate = "READ_01" /\ reg_bs = byte_mask(hdata.t)
  BY DEF DONE, FollowsBus, ReadStates
<1>2. ~OEn /\ held > cfg.read /\ reg_addr.word = hdata.t.word
  BY <1>1 DEF OEn, HeldLongEnough, FollowsBus
<1>3. \A p \in reg_bs : d[p] = MEM[reg_addr.word][Routed(p)]
  BY <1>2 DEF DATAIN
<1> QED BY <1>1, <1>2, <1>3 DEF Moves

LEMMA HclkMoves ==
  ASSUME IInv, NEW d \in DATAIN, Edge(d)
  PROVE  BytesMoved'
<1> USE DEF IInv
<1> SUFFICES ASSUME InExtmem', NEW i \in LanesOf(hdata'.t)
             PROVE  IF hdata'.t.write
                      THEN i < reg_addr'.low \/ (reg_mstate' = "WRITE3" /\ i \in Chosen')
                             => MEM'[hdata'.t.word][i] = hdata'.t.data[i]
                      ELSE i < reg_addr'.low => read_buffer'[i] = MEM'[hdata'.t.word][i]
  BY DEF BytesMoved, LanesOf
<1>1. CASE Enters
  <2>1. /\ hdata'.t \in AllTransfers /\ Aligned(hdata'.t)
        /\ hdata' = haddr /\ reg_addr'.low = haddr.t.low
    BY <1>1, PhaseFacts DEF Enters, TypeOK
  <2>2. ~(i < reg_addr'.low)
    BY <2>1, TransferFacts DEF Lanes
  <2>3. reg_mstate' # "WRITE3"
    BY <1>1, MemoryMoves DEF Edge, Goto, Enters, FollowsBus, HREADYOUT, DONE
  <2> QED BY <2>2, <2>3
<1>2. CASE Stays
  <2> DEFINE t == hdata.t
  <2>0. /\ InExtmem /\ hdata' = hdata /\ t \in AllTransfers /\ Aligned(t) /\ t.write \in BOOLEAN
        /\ t.word \in Words /\ t.data \in Data /\ LanesOf(t) \subseteq Lanes /\ i \in LanesOf(t)
    BY <1>2, PhaseFacts, TransferFacts DEF Stays, TypeOK, InExtmem
  <2>1. NextPart => \/ i < reg_addr.low \/ Moves(t, i)
                    \/ ~(i < reg_addr'.low)
    BY <2>0, AccessFacts DEF NextPart, FollowsBus, TypeOK
  <2>2. CASE t.write /\ NextPart
    <3>1. reg_mstate = "WRITE3" /\ MEM' = MEM /\ reg_mstate' = "IDLE"
      BY <2>0, <2>2, MemoryWrites, MemoryMoves
         DEF NextPart, DONE, FollowsBus, WriteStates, Edge, Goto
    <3>2. Moves(t, i) => i \in Chosen
      BY <2>0, <3>1, ChosenFacts
    <3> QED BY <2>0, <2>1, <2>2, <3>1, <3>2 DEF BytesMoved
  <2>3. CASE t.write /\ UNCHANGED <<reg_bstate, reg_addr>>
    <3>1. CASE reg_mstate = "WRITE2" /\ reg_mcount = 0
      <4>1. MEM'[t.word][i] = IF i \in Chosen THEN t.data[i] ELSE MEM[t.word][i]
        <5>1. MEM'[t.word] = Merge(MEM[t.word], t.data, Chosen) /\ i \in Lanes
          BY <2>0, <3>1, MemoryWrites DEF TypeOK
        <5> QED BY <5>1 DEF Merge
      <4>2. reg_bs' = reg_bs /\ reg_addr' = reg_addr
        <5>1. reg_mstate' = "WRITE3"
          BY <3>1, MemoryMoves DEF Edge, Goto
        <5> QED BY <3>1, <5>1, AddressMoves
      <4>3. Chosen' = Chosen
        BY <4>2 DEF Chosen, Routed, Edge
      <4> QED BY <2>0, <2>3, <4>1, <4>3 DEF BytesMoved
    <3>2. CASE ~(reg_mstate = "WRITE2" /\ reg_mcount = 0)
      <4>1. MEM' = MEM /\ reg_mstate' # "WRITE3"
        BY <3>2, MemoryWrites, MemoryMoves DEF Edge, Goto
      <4> QED BY <2>0, <2>3, <4>1 DEF BytesMoved
    <3> QED BY <3>1, <3>2
  <2>4. CASE ~t.write /\ NextPart
    <3>1. DONE /\ reg_bstate # "DEF" /\ reg_addr'.low = following_low /\ MEM' = MEM
      BY <2>0, <2>4, MemoryWrites DEF NextPart, TypeOK, FollowsBus, ReadStates
    <3>2. ASSUME i < reg_addr'.low
          PROVE  read_buffer'[i] = MEM[t.word][i]
      <4>1. /\ i \in 0 .. 2 /\ (Captures(i) => Moves(t, i)) /\ (~Captures(i) => i < reg_addr.low)
        BY <2>0, <2>4, <3>1, <3>2, CaptureFacts
      <4>2. read_buffer'[i] = IF Captures(i) THEN d[PortOf(i)] ELSE read_buffer[i]
        BY <4>1 DEF Edge, BusMachineEdge
      <4>3. Captures(i) => d[PortOf(i)] = MEM[t.word][i]
        BY <2>0, <2>4, <3>1, <4>1, BusReads
      <4> QED BY <2>0, <2>4, <4>1, <4>2, <4>3 DEF BytesMoved
    <3> QED BY <2>0, <2>4, <3>1, <3>2
  <2>5. CASE ~t.write /\ ~DONE /\ UNCHANGED <<reg_bstate, reg_addr>>
    <3>1. MEM' = MEM
      BY <2>0, <2>5, MemoryWrites DEF FollowsBus, ReadStates
    <3>2. i < reg_addr.low => i \in 0 .. 2
      BY <2>0 DEF TypeOK, Lanes
    <3>3. i < reg_addr.low => read_buffer'[i] = read_buffer[i]
      BY <2>5, <3>2 DEF Edge, BusMachineEdge, Captures
    <3> QED BY <2>0, <2>5, <3>1, <3>3 DEF BytesMoved
  <2> QED BY <1>2, <2>0, <2>2, <2>3, <2>4, <2>5 DEF Stays
<1> QED BY <1>1, <1>2, Kinds DEF Away, Leaves

LEMMA Inductive == Spec => []IInv
<1>1. Init => IInv
  <2> SUFFICES ASSUME Init PROVE IInv
    OBVIOUS
  <2>1. TypeOK
    <3>1. Longest \in Nat /\ cfg \in ConfigTypes
      BY ExtmemAssumption DEF Init, Longest, ConfigTypes
    <3>2. got \in [error : BOOLEAN, data : Data] /\ MEM \in [Words -> Data]
      BY DataFacts, ExtmemAssumption DEF Init
    <3> QED BY <3>1, <3>2, TransferAssumption
            DEF Init, TypeOK, BusStates, MemStates, Lanes, Phases, NoPhase
  <2> QED BY <2>1 DEF Init, IInv, FollowsBus, DataOnPorts, PauseCovers, HeldLongEnough,
                      BytesMoved, InExtmem, NoPhase, ReadStates, WriteStates
<1>2. IInv /\ [Next]_vars => IInv'
  <2> SUFFICES ASSUME IInv, [Next]_vars PROVE IInv'
    OBVIOUS
  <2>1. CASE HclkEdge
    <3>1. PICK d \in DATAIN : Edge(d)
      BY <2>1 DEF HclkEdge, Edge
    <3> QED BY <3>1, HclkTypes, HclkFollows, HclkData, HclkPauses, HclkHolds, HclkMoves DEF IInv
  <2>2. CASE Reset
    <3>1. Chosen \subseteq Lanes
      BY RoutedTypes DEF Chosen, IInv, TypeOK
    <3>2. \A x \in Data : Stored(x) \in [Words -> Data]
      BY <3>1, DataFacts DEF Stored, IInv, TypeOK
    <3>3. MEM' \in [Words -> Data]
      BY <2>2, <3>2 DEF Reset, IInv, TypeOK
    <3>4. Longest \in Nat /\ Longest' = Longest
      BY <2>2 DEF Reset, Longest, IInv, TypeOK, ConfigTypes
    <3>5. TypeOK'
      BY <2>2, <3>3, <3>4, TransferAssumption
         DEF Reset, IInv, TypeOK, BusStates, MemStates, Lanes, Phases, NoPhase
    <3> QED BY <2>2, <3>5 DEF Reset, IInv, FollowsBus, DataOnPorts, PauseCovers, HeldLongEnough,
                              BytesMoved, InExtmem, NoPhase, ReadStates, WriteStates
  <2>3. CASE UNCHANGED vars
    BY <2>3
    DEF vars, busVars, memVars, ahbVars, IInv, TypeOK, Longest, FollowsBus, DataOnPorts,
        PauseCovers, HeldLongEnough, BytesMoved, InExtmem, Parts, first_state, byte_mask,
        HWDATA, Routed, Chosen
  <2> QED BY <2>1, <2>2, <2>3 DEF Next
<1> QED BY <1>1, <1>2, PTL DEF Spec

\* Every register of the two machines and of the memory keeps its range.
THEOREM TypeCorrect == Spec => []TypeOK
<1>1. IInv => TypeOK
  BY DEF IInv
<1> QED BY <1>1, Inductive, PTL

\* The data bus never changes hands within the turnaround time, whatever the
\* order of transfers and pauses.
THEOREM BusAlwaysTurnsAround == Spec => []BusTurnsAround
<1>1. IInv => BusTurnsAround
  BY DEF IInv, TypeOK, PauseCovers, BusTurnsAround, Driver, OEn, DATAOEn, MemStates,
         ReadStates, WriteStates
<1> QED BY <1>1, Inductive, PTL

\* Address, strobes and data do not move under a write pulse, nor in the clock
\* before and the clock after it.
THEOREM WritesAreStable == Spec => WriteIsStable
<1>1. IInv /\ [Next]_vars =>
        [HclkEdge /\ ~(WEn /\ WEn') => UNCHANGED <<reg_addr, reg_bs, DATAOUT>>]_vars
  <2> SUFFICES ASSUME IInv, HclkEdge, ~(WEn /\ WEn')
               PROVE  UNCHANGED <<reg_addr, reg_bs, DATAOUT>>
    OBVIOUS
  <2>1. PICK d \in DATAIN : Edge(d)
    BY DEF HclkEdge, Edge
  <2>2. reg_mstate \in {"WRITE1", "WRITE2"} /\ reg_mstate' \in {"WRITE2", "WRITE3"}
    BY <2>1, MemoryMoves DEF Edge, Goto, WEn
  <2>3. InExtmem /\ UNCHANGED <<reg_addr, reg_bs>>
    BY <2>1, <2>2, AddressMoves DEF IInv
  <2>4. DATAOUT' = [p \in Ports |-> HWDATA[Routed(p)]]
    BY <2>1, <2>3 DEF Edge, BusMachineEdge
  <2> QED BY <2>2, <2>3, <2>4 DEF IInv, DataOnPorts
<1> QED BY <1>1, Inductive, PTL DEF Spec, WriteIsStable

-----------------------------------------------------------------------------
(* The refinement.                                                         *)

\* The operations of the abstract device are those of the transfers.
LEMMA SameLanes ==
  /\ \A t : Device!LanesOf(t) = LanesOf(t)
  /\ \A a, b, s : Device!Merge(a, b, s) = Merge(a, b, s)
  /\ Device!Zero = Zero /\ Device!Data = Data
  BY DEF Device!LanesOf, LanesOf, Device!Merge, Merge, Device!Lanes, Lanes,
         Device!Zero, Zero, Device!Data, Data

LEMMA BeginsNext ==
  ASSUME TypeOK, hdata' = haddr, ~Performed'
  PROVE  Device!Begin
<1>1. CASE haddr.to = "extmem"
  <2>1. haddr.t \in Transfers /\ DeviceOp' = Device!Pending(haddr.t)
    BY <1>1, PhaseFacts DEF TypeOK, DeviceOp, InExtmem, Device!Pending
  <2> QED BY <2>1 DEF Device!Begin
<1>2. CASE haddr.to # "extmem"
  <2>1. DeviceOp' = Device!None
    BY <1>2 DEF DeviceOp, InExtmem, Device!None
  <2> QED BY <2>1 DEF Device!Begin
<1> QED BY <1>1, <1>2

\* The last access of a write has moved what the first ones have not.
LEMMA WriteComplete ==
  ASSUME IInv, InExtmem, hdata.t.write, HREADYOUT
  PROVE  Performed /\ Memory = MEM
<1> USE DEF IInv
<1>1. reg_mstate = "WRITE3" /\ reg_bstate = "DEF"
  BY DEF HREADYOUT, DONE, FollowsBus, WriteStates
<1>2. /\ hdata.t \in AllTransfers /\ Aligned(hdata.t) /\ hdata.t.word \in Words
      /\ hdata.t.data \in Data /\ LanesOf(hdata.t) \in SUBSET Lanes
  BY PhaseFacts, TransferFacts DEF InExtmem, TypeOK
<1>3. \A i \in LanesOf(hdata.t) : i < reg_addr.low \/ i \in Chosen
  BY <1>1, <1>2, AccessFacts, ChosenFacts DEF FollowsBus
<1>4. \A i \in LanesOf(hdata.t) : MEM[hdata.t.word][i] = hdata.t.data[i]
  BY <1>1, <1>3 DEF BytesMoved
<1>5. Merge(MEM[hdata.t.word], hdata.t.data, LanesOf(hdata.t)) = MEM[hdata.t.word]
  BY <1>2, <1>4, MergeFacts DEF TypeOK
<1>6. Memory = [MEM EXCEPT ![hdata.t.word] = MEM[hdata.t.word]]
  BY <1>1, <1>5 DEF Memory, Performed
<1> QED BY <1>1, <1>6 DEF Performed, TypeOK

\* The last access of a read is on the bus, the first ones are in the buffers.
LEMMA ReadComplete ==
  ASSUME IInv, InExtmem, ~hdata.t.write, HREADYOUT, NEW d \in DATAIN
  PROVE  Taken(hdata.t, HRDATA(d)) = Taken(hdata.t, MEM[hdata.t.word])
<1> USE DEF IInv
<1>1. DONE /\ reg_bstate = "DEF"
  BY DEF HREADYOUT
<1>2. hdata.t \in AllTransfers /\ Aligned(hdata.t) /\ LanesOf(hdata.t) \subseteq Lanes
  BY PhaseFacts, TransferFacts DEF InExtmem, TypeOK
<1>3. ASSUME NEW i \in LanesOf(hdata.t)
      PROVE  HRDATA(d)[i] = MEM[hdata.t.word][i]
  <2>1. HRDATA(d)[i] = IF Buffered(hdata.t, i) THEN read_buffer[i] ELSE d[PortOf(i)]
    BY <1>2 DEF HRDATA
  <2>2. CASE Buffered(hdata.t, i)
    <3>1. i < reg_addr.low
      BY <1>1, <1>2, <2>2, AccessFacts DEF FollowsBus
    <3> QED BY <2>1, <2>2, <3>1 DEF BytesMoved
  <2>3. CASE ~Buffered(hdata.t, i)
    <3>1. Moves(hdata.t, i)
      BY <1>1, <1>2, <2>3, AccessFacts DEF FollowsBus
    <3> QED BY <1>1, <2>1, <2>3, <3>1, BusReads
  <2> QED BY <2>2, <2>3
<1> QED BY <1>3 DEF Taken, Merge

\* A clock within a transfer: the first access of a write performs it, and the
\* others change nothing that the master can see.
LEMMA StaysImplements ==
  ASSUME IInv, NEW d \in DATAIN, Edge(d), Stays
  PROVE  [Device!Next]_(Device!vars)
<1> DEFINE t == hdata.t
<1> USE DEF IInv
<1>0. /\ InExtmem /\ InExtmem' /\ UNCHANGED <<hdata, got, cfg>>
      /\ t \in AllTransfers /\ Aligned(t) /\ t.word \in Words /\ t.data \in Data
      /\ LanesOf(t) \in SUBSET Lanes /\ t.write \in BOOLEAN
  BY PhaseFacts, TransferFacts DEF Stays, TypeOK, InExtmem, Edge
<1>1. first_state(hdata.t)' = first_state(t)
  BY <1>0 DEF first_state
<1>2. reg_bstate' # first_state(t) <=> reg_bstate # first_state(t) \/ (reg_bstate # "DEF" /\ DONE)
  BY <1>0, AccessFacts DEF Stays, NextPart, FollowsBus
<1>3. CASE ~t.write
  <2>1. MEM' = MEM
    BY <1>0, <1>3, MemoryWrites DEF FollowsBus, ReadStates
  <2>2. UNCHANGED <<DeviceOp, Memory, got>>
    BY <1>0, <1>3, <2>1 DEF DeviceOp, Memory, Performed
  <2> QED BY <2>2 DEF Device!vars
<1>4. CASE t.write
  <2>1. DONE <=> reg_mstate = "WRITE3"
    BY <1>0, <1>4 DEF DONE, FollowsBus, WriteStates
  <2>2. Performed' <=> Performed \/ (reg_mstate = "WRITE2" /\ reg_mcount = 0)
    <3>1. reg_mstate' = "WRITE3" <=> reg_mstate = "WRITE2" /\ reg_mcount = 0
      BY MemoryMoves DEF Edge, Goto
    <3>2. reg_mstate = "WRITE3" => reg_bstate # "DEF"
      BY <2>1 DEF Stays, HREADYOUT
    <3> QED BY <1>0, <1>1, <1>2, <1>4, <2>1, <3>1, <3>2 DEF Performed
  <2>3. Merge(MEM'[t.word], t.data, LanesOf(t)) = Merge(MEM[t.word], t.data, LanesOf(t))
    <3>1. CASE reg_mstate = "WRITE2" /\ reg_mcount = 0
      <4>1. Chosen \in SUBSET LanesOf(t)
        BY <1>0, <3>1, ChosenFacts
      <4>2. MEM'[t.word] = Merge(MEM[t.word], t.data, Chosen)
        BY <1>0, <3>1, MemoryWrites DEF TypeOK
      <4> QED BY <1>0, <4>1, <4>2, MergeFacts DEF TypeOK
    <3>2. CASE ~(reg_mstate = "WRITE2" /\ reg_mcount = 0)
      BY <3>2, MemoryWrites
    <3> QED BY <3>1, <3>2
  <2>4. [MEM' EXCEPT ![t.word] = Merge(MEM'[t.word], t.data, LanesOf(t))]
          = [MEM EXCEPT ![t.word] = Merge(MEM[t.word], t.data, LanesOf(t))]
    <3>1. MEM' = MEM \/ MEM' = [MEM EXCEPT ![t.word] = Merge(MEM[t.word], t.data, Chosen)]
      BY MemoryWrites
    <3> QED BY <2>3, <3>1 DEF TypeOK
  <2>5. CASE ~Performed'
    <3>1. ~Performed /\ MEM' = MEM
      BY <2>2, <2>5, MemoryWrites
    <3>2. UNCHANGED <<DeviceOp, Memory, got>>
      BY <1>0, <2>5, <3>1 DEF DeviceOp, Memory
    <3> QED BY <3>2 DEF Device!vars
  <2>6. CASE Performed
    <3>1. UNCHANGED <<DeviceOp, Memory, got>>
      BY <1>0, <2>2, <2>4, <2>6 DEF DeviceOp, Memory, LanesOf
    <3> QED BY <3>1 DEF Device!vars
  <2>7. CASE ~Performed /\ Performed'
    <3>1. DeviceOp = Device!Pending(t)
      BY <1>0, <2>7 DEF DeviceOp, Device!Pending
    <3>2. Memory = MEM /\ Memory' = [MEM EXCEPT ![t.word] = Merge(MEM[t.word], t.data, LanesOf(t))]
      BY <1>0, <2>4, <2>7 DEF Memory, LanesOf
    <3>3. DeviceOp' = Device!Done(t)
      <4>1. DeviceOp' = [status |-> "done", t |-> t, data |-> Zero]
        BY <1>0, <2>7 DEF DeviceOp
      <4>2. Device!Taken(t, Memory[t.word]) = Zero
        BY <1>4, SameLanes DEF Device!Taken
      <4> QED BY <4>1, <4>2 DEF Device!Done
    <3>4. Device!Perform(t)
      BY <1>4, <3>2, SameLanes DEF Device!Perform
    <3>5. Device!Succeed
      BY <1>0, <3>1, <3>3, <3>4 DEF Device!Succeed, Device!Finish, Device!Pending
    <3> QED BY <3>5 DEF Device!Next
  <2> QED BY <2>2, <2>5, <2>6, <2>7
<1> QED BY <1>0, <1>3, <1>4

LEMMA HclkImplements ==
  ASSUME IInv, NEW d \in DATAIN, Edge(d)
  PROVE  [Device!Next]_(Device!vars)
<1> USE DEF IInv
<1>1. CASE Stays
  BY <1>1, StaysImplements
<1>2. CASE Away
  <2>1. MEM' = MEM
    BY <1>2, MemoryWrites DEF Away, FollowsBus
  <2>2. UNCHANGED <<DeviceOp, Memory, got>>
    BY <1>2, <2>1 DEF Away, DeviceOp, Memory, Performed
  <2> QED BY <2>2 DEF Device!vars
<1>3. CASE Enters \/ Leaves
  <2>1. hdata' = haddr /\ (~InExtmem \/ HREADYOUT)
    BY <1>3 DEF Enters, Leaves
  <2>2. reg_mstate = "IDLE" \/ DONE
    BY <2>1 DEF FollowsBus, HREADYOUT
  <2>3. MEM' = MEM /\ reg_mstate' # "WRITE3"
    BY <2>2, MemoryWrites, MemoryMoves DEF DONE, Edge, Goto
  <2>4. ~Performed'
    <3>1. CASE Enters
      <4>1. first_state(hdata.t)' = first_state(haddr.t)
        BY <2>1 DEF first_state, Edge
      <4> QED BY <2>3, <3>1, <4>1 DEF Enters, Performed
    <3>2. CASE Leaves
      BY <3>2 DEF Leaves, Performed
    <3> QED BY <1>3, <3>1, <3>2
  <2>5. Device!Begin /\ Memory' = MEM
    BY <2>1, <2>3, <2>4, BeginsNext DEF Memory
  <2>6. CASE ~InExtmem
    <3>1. Memory = MEM /\ DeviceOp = Device!None /\ got' = got
      BY <2>6 DEF Memory, Performed, DeviceOp, Device!None, Edge, MasterEdge
    <3> QED BY <2>5, <3>1 DEF Device!Next, Device!Start
  <2>7. CASE InExtmem /\ HREADYOUT
    <3>0. hdata.t \in AllTransfers /\ HREADY
      BY <2>7, PhaseFacts DEF InExtmem, TypeOK, HREADY
    <3>1. got' = [error |-> FALSE, data |-> Taken(hdata.t, HRDATA(d))]
      BY <2>7, <3>0 DEF Edge, MasterEdge
    <3>2. CASE hdata.t.write
      <4>1. Performed /\ Memory' = Memory
        BY <2>5, <2>7, <3>2, WriteComplete
      <4>2. DeviceOp = [status |-> "done", t |-> hdata.t, data |-> Zero]
        BY <2>7, <4>1 DEF DeviceOp
      <4>3. got' = Device!Result(DeviceOp)
        BY <3>1, <3>2, <4>2 DEF Device!Result, Taken
      <4> QED BY <2>5, <4>1, <4>2, <4>3 DEF Device!Next, Device!Respond
    <3>3. CASE ~hdata.t.write
      <4>1. /\ DeviceOp = Device!Pending(hdata.t) /\ Memory = MEM
            /\ Device!Perform(hdata.t)
        BY <2>5, <2>7, <3>3 DEF DeviceOp, Device!Pending, Memory, Performed, Device!Perform
      <4>2. MEM[hdata.t.word] \in Data
        BY <3>0 DEF TypeOK, AllTransfers
      <4>3. Taken(hdata.t, HRDATA(d)) = Device!Taken(hdata.t, Memory[hdata.t.word])
        BY <2>7, <3>0, <3>3, <4>1, <4>2, ReadComplete, TakenFacts
      <4>4. got' = Device!Result(Device!Done(hdata.t))
        BY <3>1, <4>3 DEF Device!Result, Device!Done
      <4>5. Device!Succeed
        BY <2>5, <4>1, <4>4 DEF Device!Succeed, Device!Finish, Device!Pending
      <4> QED BY <4>5 DEF Device!Next
    <3> QED BY <3>2, <3>3
  <2> QED BY <2>1, <2>6, <2>7
<1> QED BY <1>1, <1>2, <1>3, Kinds

LEMMA ResetImplements ==
  ASSUME IInv, Reset
  PROVE  Device!Next \/ CutsWrite
<1> USE DEF IInv
<1>0. /\ DeviceOp' = Device!None /\ Memory' = MEM' /\ got' = got
  BY DEF Reset, NoPhase, DeviceOp, InExtmem, Memory, Performed, Device!None
<1>1. CASE ~(InExtmem /\ hdata.t.write)
  <2>1. WEn /\ Memory = MEM
    BY <1>1 DEF FollowsBus, WEn, ReadStates, Memory, Performed
  <2>2. Device!Reset
    BY <1>0, <2>1 DEF Reset, Device!Reset
  <2> QED BY <2>2 DEF Device!Next
<1>2. CASE InExtmem /\ hdata.t.write
  <2> DEFINE t == hdata.t
             w == t.word
             L == LanesOf(t)
  <2>1. /\ t \in AllTransfers /\ t.word \in Words /\ t.data \in Data /\ L \in SUBSET Lanes
        /\ DeviceOp.t = t /\ DeviceOp # Device!None
    BY <1>2, PhaseFacts, TransferFacts DEF InExtmem, TypeOK, DeviceOp, Device!None
  <2>2. PICK c \in Data, r \in SUBSET L : MEM' = [MEM EXCEPT ![w] = Merge(MEM[w], c, r)]
    <3>1. CASE WEn
      <4>1. Merge(MEM[w], t.data, {}) = MEM[w]
        BY <2>1 DEF Merge, TypeOK, Data
      <4>2. MEM' = MEM
        BY <3>1 DEF Reset
      <4> QED BY <2>1, <4>1, <4>2 DEF TypeOK
    <3>2. CASE ~WEn
      <4>1. reg_addr.word = w /\ Chosen \in SUBSET L
        BY <1>2, <3>2, ChosenFacts DEF FollowsBus, WEn
      <4>2. PICK c \in Data : MEM' = Stored(c)
        BY <3>2 DEF Reset
      <4> QED BY <4>1, <4>2 DEF Stored
    <3> QED BY <3>1, <3>2
  <2>3. MEM'[w] = Merge(MEM[w], c, r) /\ MEM'[w] \in Data
    BY <2>1, <2>2, DataFacts DEF TypeOK
  <2>4. Memory' = [Memory EXCEPT ![w] = Merge(Memory[w], MEM'[w], L)]
    <3>1. CASE Performed
      <4>1. Memory = [MEM EXCEPT ![w] = Merge(MEM[w], t.data, L)]
        BY <3>1 DEF Memory, LanesOf
      <4>2. Merge(Merge(MEM[w], t.data, L), MEM'[w], L) = MEM'[w]
        BY <2>1, <2>2, <2>3, MergeFacts DEF TypeOK
      <4> QED BY <1>0, <2>1, <2>2, <2>3, <4>1, <4>2 DEF TypeOK
    <3>2. CASE ~Performed
      <4>1. Memory = MEM
        BY <3>2 DEF Memory
      <4>2. Merge(MEM[w], MEM'[w], L) = MEM'[w]
        BY <2>1, <2>2, <2>3 DEF TypeOK, Merge, Data
      <4> QED BY <1>0, <2>1, <2>2, <2>3, <4>1, <4>2 DEF TypeOK
    <3> QED BY <3>1, <3>2
  <2> QED BY <1>0, <1>2, <2>1, <2>3, <2>4 DEF CutsWrite
<1> QED BY <1>1, <1>2

\* The master sees one memory, whatever the widths, the waits and the order in
\* which the two machines meet; a reset spoils only the bytes it cuts off.
THEOREM ImplementsMemory == Spec => MemorySpec
<1>1. Init => Device!Init
  <2> SUFFICES ASSUME Init PROVE Device!Init
    OBVIOUS
  <2>1. Memory \in [Words -> Data] /\ DeviceOp = Device!None
    BY ExtmemAssumption DEF Init, Memory, Performed, DeviceOp, InExtmem, NoPhase, Device!None
  <2> QED BY <2>1, SameLanes DEF Init, Device!Init
<1>2. IInv /\ [Next]_vars => [Device!Next \/ CutsWrite]_(Device!vars)
  <2> SUFFICES ASSUME IInv, [Next]_vars
               PROVE  [Device!Next \/ CutsWrite]_(Device!vars)
    OBVIOUS
  <2>1. CASE HclkEdge
    BY <2>1, HclkImplements DEF HclkEdge, Edge
  <2>2. CASE Reset
    BY <2>2, ResetImplements
  <2>3. CASE UNCHANGED vars
    BY <2>3 DEF vars, busVars, memVars, ahbVars, DeviceOp, InExtmem, Memory, Performed,
                first_state, Device!vars
  <2> QED BY <2>1, <2>2, <2>3 DEF Next
<1> QED BY <1>1, <1>2, Inductive, PTL DEF Spec, MemorySpec
=============================================================================
