------------------------------- MODULE ApbUart -------------------------------
(***************************************************************************)
(* One APB UART (cmsdk_apb_uart.v): its registers as a record, and what an *)
(* edge of PCLK makes of them.  The bus acts in the setup phase of a       *)
(* transfer: writes take effect and reads are captured at that edge.       *)
(*                                                                         *)
(* The bits of a frame are not modelled one by one.  tx counts the steps   *)
(* left of the frame the transmitter sends, ShortestFrame and one for each *)
(* unit of the baud rate divider; the receiver at the other end has its    *)
(* last data bit, and samples, at step SampleStep, before the stop bit is  *)
(* over.  This holds while both ends run at the same baud rate and are     *)
(* configured only when no frame is under way.                             *)
(***************************************************************************)
EXTENDS Integers

CONSTANTS
  Chars,    \* the bytes
  Zero,     \* the reset value of the data registers
  Dividers  \* the baud rate dividers in use

ASSUME UartAssumption == Zero \in Chars /\ Dividers \subseteq Nat /\ 0 \in Dividers

ShortestFrame == 3
SampleStep    == 2
Enables    == {"tx", "rx", "txirq", "rxirq", "txovrirq", "rxovrirq"}
Ends       == {"tx", "rx"}

Uart == [ctrl : SUBSET Enables, reg_tx_buf : Chars, tx_buf_full : BOOLEAN,
         tx_shift_buf : Chars, tx : Nat, reg_baud_div : Dividers,
         reg_rx_buf : Chars, rx_buf_full : BOOLEAN,
         overrun : SUBSET Ends, intr : SUBSET Ends]

ResetUart == [ctrl |-> {}, reg_tx_buf |-> Zero, tx_buf_full |-> FALSE,
              tx_shift_buf |-> Zero, tx |-> 0, reg_baud_div |-> 0,
              reg_rx_buf |-> Zero, rx_buf_full |-> FALSE,
              overrun |-> {}, intr |-> {}]

-----------------------------------------------------------------------------
(* The bus.                                                                *)

NoAccess       == [op |-> "none"]
WriteData(c)   == [op |-> "DATA", char |-> c]
ReadData       == [op |-> "read DATA"]
WriteState(b)  == [op |-> "STATE", bits |-> b]
WriteIntClear(i, b) == [op |-> "INTCLEAR", ints |-> i, bits |-> b]
WriteCtrl(e)   == [op |-> "CTRL", enables |-> e]
WriteBaudDiv(d) == [op |-> "BAUDDIV", divider |-> d]

write_enable00(b) == b.op = "DATA"
rx_data_read(b)   == b.op = "read DATA"
OverrunClear(b)   == IF b.op \in {"STATE", "INTCLEAR"} THEN b.bits ELSE {}
intr_stat_clear(b) == IF b.op = "INTCLEAR" THEN b.ints ELSE {}

-----------------------------------------------------------------------------
(* Transmit.                                                               *)

\* The buffer moves to the shift register, also when sending is off.
tx_buf_clear(u) == u.tx_buf_full /\ u.tx \in {0, 1}

tx_overrunDeafToClear(u, b) == u.tx_buf_full /\ write_enable00(b)   \* (fault)
tx_overrun(u, b) == u.tx_buf_full /\ ~tx_buf_clear(u) /\ write_enable00(b)

\* From idle the transmitter first waits for a tick.
Frame(u) == ShortestFrame + u.reg_baud_div
nxt_tx_stateNeverIdle(u) ==                              \* (fault)
  IF u.tx \in {0, 1} /\ u.tx_buf_full THEN Frame(u) ELSE u.tx - 1
nxt_tx_state(u) ==
  CASE u.tx = 0 -> IF u.tx_buf_full /\ "tx" \in u.ctrl THEN Frame(u) + 1 ELSE 0
    [] u.tx = 1 -> IF u.tx_buf_full THEN Frame(u) ELSE 0
    [] OTHER    -> u.tx - 1

nxt_tx_buf_full(u, b) ==
  IF write_enable00(b) \/ tx_buf_clear(u) THEN write_enable00(b) ELSE u.tx_buf_full

-----------------------------------------------------------------------------
(* Receive: peer is the UART whose TXD is this one's RXD.                  *)

rxbuf_sample(u, peer) == peer.tx = SampleStep /\ "rx" \in u.ctrl

rx_overrun(u, b, peer) ==
  u.rx_buf_full /\ rxbuf_sample(u, peer) /\ ~rx_data_read(b)

nxt_rx_buf_full(u, b, peer) ==
  rxbuf_sample(u, peer) \/ (u.rx_buf_full /\ ~rx_data_read(b))

-----------------------------------------------------------------------------
(* Interrupts: a new event outlives the clear of the last one.             *)

intr_stat_set(u, peer) ==
  (IF tx_buf_clear(u) /\ {"tx", "txirq"} \subseteq u.ctrl THEN {"tx"} ELSE {})
  \cup (IF rxbuf_sample(u, peer) /\ "rxirq" \in u.ctrl THEN {"rx"} ELSE {})

nxt_intr(u, b, peer) ==
  (u.intr \ intr_stat_clear(b)) \cup intr_stat_set(u, peer)

nxt_overrun(u, b, peer) ==
  (u.overrun \ OverrunClear(b))
    \cup (IF tx_overrun(u, b) THEN {"tx"} ELSE {})
    \cup (IF rx_overrun(u, b, peer) THEN {"rx"} ELSE {})

TXINT(u)    == "tx" \in u.intr
RXINT(u)    == "rx" \in u.intr
TXOVRINT(u) == "tx" \in u.overrun /\ "txovrirq" \in u.ctrl
RXOVRINT(u) == "rx" \in u.overrun /\ "rxovrirq" \in u.ctrl

-----------------------------------------------------------------------------
(* One edge of PCLK with the access b on the bus.                          *)

UartEdge(u, b, peer) ==
  [ctrl         |-> IF b.op = "CTRL" THEN b.enables ELSE u.ctrl,
   reg_baud_div |-> IF b.op = "BAUDDIV" THEN b.divider ELSE u.reg_baud_div,
   reg_tx_buf   |-> IF write_enable00(b) THEN b.char ELSE u.reg_tx_buf,
   tx_buf_full  |-> nxt_tx_buf_full(u, b),
   tx_shift_buf |-> IF tx_buf_clear(u) THEN u.reg_tx_buf ELSE u.tx_shift_buf,
   tx           |-> nxt_tx_state(u),
   reg_rx_buf   |-> IF rxbuf_sample(u, peer) THEN peer.tx_shift_buf ELSE u.reg_rx_buf,
   rx_buf_full  |-> nxt_rx_buf_full(u, b, peer),
   overrun      |-> nxt_overrun(u, b, peer),
   intr         |-> nxt_intr(u, b, peer)]
=============================================================================
