----------------------------- MODULE ByteChannel -----------------------------
(***************************************************************************)
(* What software may rely on when it sends bytes from one UART to another  *)
(* and has only the status bits to go by.  A byte is in the channel from   *)
(* the write of DATA at one end to the read of DATA at the other; bytes    *)
(* stay in order, and one that is not read has raised an overrun.          *)
(*                                                                         *)
(* The line and software may act at the same clock edge.  Every edge is    *)
(* then one of the two in some serial order: a byte that leaves the buffer *)
(* makes room before software fills it, software reads or clears before    *)
(* the next byte arrives.                                                  *)
(***************************************************************************)
EXTENDS Naturals, Sequences, SequencesExt

CONSTANT Chars

VARIABLES
  q,        \* the bytes in the channel, oldest first
  room,     \* the sender's buffer can take a byte (not TXBF)
  ready,    \* the oldest byte can be read (RXBF)
  lost,     \* the overrun flags that are up, a subset of {"tx", "rx"}
  news,     \* the interrupts that are up, a subset of {"tx", "rx"}
  conf,     \* what is enabled: a subset of {"tx", "rx", "txirq", "rxirq"}
  got,      \* the byte last read from DATA
  op        \* what software did at the last edge

chanVars == <<q, room, ready, lost, news, conf, got, op>>
State == [q |-> q, room |-> room, ready |-> ready, lost |-> lost,
          news |-> news, conf |-> conf, got |-> got]

One(b)    == IF b THEN 1 ELSE 0
Arrived(s)   == One(s.ready)
InTransit(s) == Len(s.q) - Arrived(s) - One(~s.room)

-----------------------------------------------------------------------------
(* The line.                                                               *)

\* The line takes the byte from the buffer; it is gone if sending is off.
Take(s) ==
  [s EXCEPT !.room = TRUE,
            !.q    = IF "tx" \in s.conf THEN @ ELSE Front(@),
            !.news = IF {"tx", "txirq"} \subseteq s.conf THEN @ \cup {"tx"} ELSE @]
CanTake(s) == ~s.room /\ InTransit(s) = 0

\* The byte on the line arrives; a byte that has not been read makes way.
Arrive(s) ==
  IF "rx" \notin s.conf THEN [s EXCEPT !.q = RemoveAt(@, Arrived(s) + 1)]
  ELSE [s EXCEPT !.ready = TRUE,
                 !.q     = IF s.ready THEN Tail(@) ELSE @,
                 !.lost  = IF s.ready THEN @ \cup {"rx"} ELSE @,
                 !.news  = IF "rxirq" \in s.conf THEN @ \cup {"rx"} ELSE @]
CanArrive(s) == InTransit(s) = 1

-----------------------------------------------------------------------------
(* Software.                                                               *)

Put(s, c) == IF s.room THEN [s EXCEPT !.room = FALSE, !.q = Append(@, c)]
             ELSE [s EXCEPT !.q = Append(Front(@), c), !.lost = @ \cup {"tx"}]

Gets(s) == IF s.ready
             THEN {[s EXCEPT !.ready = FALSE, !.q = Tail(@), !.got = Head(s.q)]}
             ELSE {[s EXCEPT !.got = c] : c \in Chars}

\* Software clears flags, or configures the quiet channel, or does nothing.
Others(s) ==
  {[s EXCEPT !.lost = up.lost, !.news = up.news] : up \in [lost : SUBSET s.lost, news : SUBSET s.news]}
    \cup (IF s.room /\ InTransit(s) = 0
            THEN {[s EXCEPT !.conf = c] : c \in SUBSET {"tx", "rx", "txirq", "rxirq"}}
            ELSE {})

Before(s) == {s} \cup (IF CanTake(s) THEN {Take(s)} ELSE {})
After(s)  == {s} \cup (IF CanTake(s) THEN {Take(s)} ELSE {})
                 \cup (IF CanArrive(s) THEN {Arrive(s)} ELSE {})
AfterPut(s) == {s} \cup (IF CanArrive(s) THEN {Arrive(s)} ELSE {})

PutOp(c) == [kind |-> "put", char |-> c]
Op(k)    == [kind |-> k]

Edges(s, o) ==
  CASE o.kind = "put"   -> UNION {AfterPut(Put(b, o.char)) : b \in Before(s)}
    [] o.kind = "get"   -> UNION {After(g) : g \in Gets(s)}
    [] o.kind = "other" -> UNION {After(g) : g \in Others(s)}

Init ==
  /\ q = <<>> /\ room = TRUE /\ ready = FALSE
  /\ lost = {} /\ news = {} /\ conf = {} /\ got \in Chars
  /\ op = Op("other")

Next ==
  /\ op' \in {PutOp(c) : c \in Chars} \cup {Op("get"), Op("other")}
  /\ State' \in Edges(State, op')

Spec == Init /\ [][Next]_chanVars
=============================================================================
