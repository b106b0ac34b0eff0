------------------------------- MODULE UartLink -------------------------------
(***************************************************************************)
(* UART2 and UART3 with the TXD of each wired to the RXD of the other, as  *)
(* the test bench does, and one bus master whose software may access them  *)
(* in any way that follows the rule of the drivers: a UART is configured   *)
(* only while the line is quiet.                                           *)
(***************************************************************************)
EXTENDS ApbUart, Sequences

CONSTANTS
  AnyChars,    \* the bytes that arbitrary software sends
  AnyCtrl,     \* the values it writes to CTRL
  Senders      \* the UARTs it sends from

VARIABLES
  uart,     \* the registers of both UARTs
  rdata,    \* per UART, the byte last read from DATA
  bus       \* the access to DATA at the last edge, if any

linkVars == <<uart, rdata, bus>>

Uarts   == {"UART2", "UART3"}

ASSUME LinkAssumption == /\ AnyChars \subseteq Chars /\ AnyCtrl \subseteq SUBSET Enables
                         /\ Senders \subseteq Uarts

Peer(i) == CHOOSE j \in Uarts : j # i

Quiet == \A i \in Uarts : uart[i].tx = 0 /\ ~uart[i].tx_buf_full

NoData == [uart |-> "none", access |-> NoAccess]

-----------------------------------------------------------------------------
\* One edge of PCLK; the bus accesses UART i with b, or nothing.
Access(i, b) ==
  /\ uart' = [j \in Uarts |-> UartEdge(uart[j], IF j = i THEN b ELSE NoAccess, uart[Peer(j)])]
  /\ rdata' = IF rx_data_read(b) THEN [rdata EXCEPT ![i] = uart[i].reg_rx_buf] ELSE rdata
  /\ bus' = IF write_enable00(b) \/ rx_data_read(b) THEN [uart |-> i, access |-> b] ELSE NoData

NoBus == Access("UART2", NoAccess)

LinkInit == /\ uart = [i \in Uarts |-> ResetUart]
            /\ rdata = [i \in Uarts |-> Zero]
            /\ bus = NoData

Send      == \E i \in Senders, c \in AnyChars : Access(i, WriteData(c))
Receive   == \E i \in Uarts : Access(i, ReadData)
ClearOverrun == \E i \in Uarts, e \in {{"tx"}, {"rx"}} : Access(i, WriteState(e))
ClearIrq  == \E i \in Uarts, e \in {{"tx"}, {"rx"}}, f \in {{}, Ends} : Access(i, WriteIntClear(e, f))
Configure == Quiet /\ \E i \in Uarts, e \in AnyCtrl : Access(i, WriteCtrl(e))

LinkNext == NoBus \/ Send \/ Receive \/ ClearOverrun \/ ClearIrq \/ Configure

LinkSpec == LinkInit /\ [][LinkNext]_linkVars

-----------------------------------------------------------------------------
LinkTypeOK == uart \in [Uarts -> Uart] /\ rdata \in [Uarts -> Chars]
              /\ bus \in {NoData} \cup [uart : Uarts, access : {ReadData} \cup [op : {"DATA"}, char : Chars]]

\* The channel from UART2 to UART3: the bytes by where they are, and the flags.
Bytes(full, c) == IF full THEN <<c>> ELSE <<>>
Held       == Bytes(uart["UART3"].rx_buf_full, uart["UART3"].reg_rx_buf)
OnLine     == Bytes(uart["UART2"].tx >= SampleStep, uart["UART2"].tx_shift_buf)
Waiting    == Bytes(uart["UART2"].tx_buf_full, uart["UART2"].reg_tx_buf)
Overruns   == (uart["UART2"].overrun \cap {"tx"}) \cup (uart["UART3"].overrun \cap {"rx"})
Interrupts == (uart["UART2"].intr \cap {"tx"}) \cup (uart["UART3"].intr \cap {"rx"})
Enabled2to3 == (uart["UART2"].ctrl \cap {"tx", "txirq"}) \cup (uart["UART3"].ctrl \cap {"rx", "rxirq"})

LastOp == CASE bus.uart = "UART2" /\ write_enable00(bus.access) ->
                 [kind |-> "put", char |-> bus.access.char]
            [] bus.uart = "UART3" /\ rx_data_read(bus.access) -> [kind |-> "get"]
            [] OTHER -> [kind |-> "other"]

Channel == INSTANCE ByteChannel WITH
  q     <- Held \o OnLine \o Waiting,
  room  <- ~uart["UART2"].tx_buf_full,
  ready <- uart["UART3"].rx_buf_full,
  lost  <- Overruns,
  news  <- Interrupts,
  conf  <- Enabled2to3,
  got   <- rdata["UART3"],
  op    <- LastOp

\* The two UARTs are a channel that keeps its bytes in order, loses one only
\* with an overrun flag (or where sending or receiving is switched off), and
\* never loses an interrupt or a byte to an access at the same edge
\* (cmsdk_apb_uart.v:386-393, 412-413, 480, 541-550, 622-643).
ChannelSpec == Channel!Spec
=============================================================================
