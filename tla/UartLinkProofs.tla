---------------------------- MODULE UartLinkProofs ----------------------------
(***************************************************************************)
(* The two UARTs implement the byte channel, for every set of bytes and    *)
(* whatever the software does that follows the rule of the drivers.        *)
(*                                                                         *)
(* A state of the channel is written by where its bytes are: held by the   *)
(* receiver, on the line, and waiting in the sender's buffer, each a       *)
(* sequence of at most one byte (Slots).                                   *)
(*                                                                         *)
(* The second part is about the processor that runs the programs on them,  *)
(* the timer and the GPIO port, for every string, period and speed.  Its   *)
(* invariant is ProgInv: the place of the processor is in a text, and what *)
(* an instruction needs is there when it is reached.                       *)
(*                                                                         *)
(* The third part is about the pins of the port in interrupt_demo.c: that  *)
(* a trigger of a pin is handled once.  Its invariant is OneInv: it says,  *)
(* by the place of the program, what the port, the processor's requests    *)
(* and the flag of the handlers can be.                                    *)
(*                                                                         *)
(* The fourth part is about the line from UART2 while the programs         *)
(* configure it: nothing is under way then, for the prints before take     *)
(* long enough.  Its invariant is SpeedInv; uart_driver_tests.c needs the  *)
(* most of it, LineInv, which bounds what is left of the bytes sent.       *)
(***************************************************************************)
EXTENDS DriverPrograms, StatementsProofs

Slots == {<<>>} \cup {<<c>> : c \in Chars}

ChannelState ==
  [q : Seq(Chars), room : BOOLEAN, ready : BOOLEAN, lost : SUBSET Ends, news : SUBSET Ends,
   conf : SUBSET {"tx", "rx", "txirq", "rxirq"}, got : Chars]

\* In s the receiver holds r, the line l, and the sender's buffer t.
Places(s, r, l, t) ==
  /\ s \in ChannelState
  /\ r \in Slots /\ l \in Slots /\ t \in Slots
  /\ s.q = r \o l \o t
  /\ s.room = (t = <<>>)
  /\ s.ready = (r # <<>>)

-----------------------------------------------------------------------------
(* The steps of the channel, in terms of the places of its bytes.          *)

LEMMA SlotFacts ==
  ASSUME NEW s \in Slots
  PROVE  /\ s \in Seq(Chars) /\ Len(s) \in Nat
         /\ s = <<>> => Len(s) = 0
         /\ s # <<>> => Len(s) = 1 /\ s[1] \in Chars /\ s = <<s[1]>>
         /\ s # <<>> => \E c \in Chars : s = <<c>>
<1>1. CASE s = <<>> BY <1>1
<1>2. CASE s # <<>>
  <2>1. PICK c \in Chars : s = <<c>> BY <1>2 DEF Slots
  <2> QED BY <1>2, <2>1
<1> QED BY <1>1, <1>2

\* The bytes after those that were received.
LEMMA Rest ==
  ASSUME NEW r \in Slots, NEW l \in Slots, NEW t \in Slots, r # <<>>
  PROVE  Tail(r \o l \o t) = l \o t /\ Head(r \o l \o t) = r[1]
<1>1. r \in Seq(Chars) /\ l \in Seq(Chars) /\ t \in Seq(Chars) BY SlotFacts
<1>2. r \o l \o t = r \o (l \o t) BY <1>1, ConcatAssociative
<1>3. PICK c \in Chars : r = <<c>> BY SlotFacts
<1>4. l \o t \in Seq(Chars) BY <1>1, ConcatProperties
<1>5. Tail(<<c>> \o (l \o t)) = l \o t /\ Head(<<c>> \o (l \o t)) = c BY <1>4, TailOfConcat
<1>6. r[1] = c BY <1>3
<1> QED BY <1>2, <1>3, <1>5, <1>6

LEMMA MoreSlots == <<>> \in Slots /\ \A c \in Chars : <<c>> \in Slots /\ <<c>> # <<>>
BY DEF Slots

\* Two states of the channel that agree in all fields are one.
LEMMA SameState ==
  ASSUME NEW s, NEW y, NEW r, NEW l, NEW t, Places(s, r, l, t), Places(y, r, l, t),
         s.lost = y.lost, s.news = y.news, s.conf = y.conf, s.got = y.got
  PROVE  s = y
<1>1. s \in ChannelState /\ y \in ChannelState /\ s.q = y.q /\ s.room = y.room /\ s.ready = y.ready
  BY DEF Places
<1> QED BY <1>1 DEF ChannelState

\* How many bytes have arrived and how many are on the line.
LEMMA Counts ==
  ASSUME NEW s, NEW r, NEW l, NEW t, Places(s, r, l, t)
  PROVE  Channel!Arrived(s) = Len(r) /\ Channel!InTransit(s) = Len(l)
<1>1. /\ r \o l \o t \in Seq(Chars)
      /\ Len(r \o l \o t) = Len(r) + Len(l) + Len(t)
  BY SlotFacts, ConcatProperties DEF Places
<1>2. Channel!One(s.ready) = Len(r) /\ Channel!One(~s.room) = Len(t)
  BY SlotFacts DEF Places, Channel!One
<1> QED BY <1>1, <1>2, SlotFacts DEF Channel!Arrived, Channel!InTransit, Places

LEMMA TakeMoves ==
  ASSUME NEW s, NEW r, NEW t, Places(s, r, <<>>, t), t # <<>>
  PROVE  /\ Channel!CanTake(s)
         /\ Places(Channel!Take(s), r, IF "tx" \in s.conf THEN t ELSE <<>>, <<>>)
         /\ Channel!Take(s).news = IF {"tx", "txirq"} \subseteq s.conf THEN s.news \cup {"tx"} ELSE s.news
         /\ Channel!Take(s).lost = s.lost /\ Channel!Take(s).conf = s.conf /\ Channel!Take(s).got = s.got
<1> DEFINE y == Channel!Take(s)
<1>1. Channel!CanTake(s)
  <2>1. Channel!InTransit(s) = Len(<<>>) /\ Len(<<>>) = 0 BY Counts
  <2>2. s.room = FALSE BY DEF Places
  <2> QED BY <2>1, <2>2 DEF Channel!CanTake
<1>2. s.q = r \o t /\ r \o t \o <<>> = r \o t /\ r \o <<>> \o <<>> = r
  BY SlotFacts, ConcatEmptySeq, ConcatProperties DEF Places
<1>3. Channel!Front(s.q) = r BY <1>2, SlotFacts, FrontOfConcat DEF Channel!Front, Places
<1>4. s \in ChannelState /\ r \in Seq(Chars) /\ s.q \in Seq(Chars)
  BY SlotFacts DEF Places, ChannelState
<1>5. /\ y \in ChannelState
      /\ y.q = IF "tx" \in s.conf THEN s.q ELSE r
      /\ y.room = TRUE /\ y.ready = s.ready
      /\ y.news = IF {"tx", "txirq"} \subseteq s.conf THEN s.news \cup {"tx"} ELSE s.news
      /\ y.lost = s.lost /\ y.conf = s.conf /\ y.got = s.got
  BY <1>3, <1>4 DEF Channel!Take, ChannelState, Ends
<1>6. y.q = r \o (IF "tx" \in s.conf THEN t ELSE <<>>) \o <<>> BY <1>2, <1>5
<1> QED BY <1>1, <1>5, <1>6, MoreSlots DEF Places

\* A sequence without an element in the middle.
LEMMA RemoveFromConcat ==
  ASSUME NEW p \in Seq(Chars), NEW c \in Chars, NEW x \in Seq(Chars)
  PROVE  LET s == p \o <<c>> \o x
         IN  SubSeq(s, 1, Len(p)) \o SubSeq(s, Len(p) + 2, Len(s)) = p \o x
<1> DEFINE s == p \o <<c>> \o x
           f == SubSeq(s, 1, Len(p))
           g == SubSeq(s, Len(p) + 2, Len(s))
<1>0. Len(p) \in Nat /\ Len(x) \in Nat
  OBVIOUS
<1>1. /\ s \in Seq(Chars) /\ Len(s) = Len(p) + 1 + Len(x)
      /\ \A i \in 1 .. Len(p) : s[i] = p[i]
      /\ \A i \in 1 .. Len(x) : s[Len(p) + 1 + i] = x[i]
  <2>1. <<c>> \in Seq(Chars) /\ Len(<<c>>) = 1
    OBVIOUS
  <2> DEFINE pxc == p \o <<c>>
  <2>2. /\ pxc \in Seq(Chars) /\ Len(pxc) = Len(p) + 1
        /\ \A i \in 1 .. Len(p) : pxc[i] = p[i]
    BY <2>1, <1>0, ConcatProperties
  <2> HIDE DEF pxc
  <2>3. /\ pxc \o x \in Seq(Chars) /\ Len(pxc \o x) = Len(pxc) + Len(x)
        /\ \A i \in 1 .. Len(pxc) + Len(x) :
             (pxc \o x)[i] = IF i <= Len(pxc) THEN pxc[i] ELSE x[i - Len(pxc)]
    BY <2>2, ConcatProperties
  <2>4. ASSUME NEW i \in 1 .. Len(x)
        PROVE  (pxc \o x)[Len(p) + 1 + i] = x[i]
    BY <2>2, <2>3, <1>0
  <2>5. ASSUME NEW i \in 1 .. Len(p)
        PROVE  (pxc \o x)[i] = p[i]
    BY <2>2, <2>3, <1>0
  <2> QED BY <2>2, <2>3, <2>4, <2>5 DEF pxc
<1> HIDE DEF s
<1>2. \A i \in 1 .. Len(s) : s[i] \in Chars
  BY <1>1
<1>3. f = p
  <2>1. /\ f \in Seq(Chars) /\ Len(f) = Len(p)
        /\ \A i \in 1 .. Len(p) : f[i] = p[i]
    BY <1>0, <1>1, <1>2, SubSeqProperties
  <2> HIDE DEF f
  <2> QED BY <2>1, SeqEqual
<1>4. g = x
  <2>1. /\ g \in Seq(Chars) /\ Len(g) = Len(x)
        /\ \A i \in 1 .. Len(x) : g[i] = s[Len(p) + 2 + i - 1]
    BY <1>0, <1>1, <1>2, SubSeqProperties
  <2> HIDE DEF g
  <2>2. \A i \in 1 .. Len(x) : g[i] = x[i]
    BY <2>1, <1>1, <1>0
  <2> QED BY <2>1, <2>2, SeqEqual
<1> HIDE DEF f, g
<1>5. f \o g = p \o x
  BY <1>3, <1>4
<1> QED BY <1>5 DEF f, g, s

LEMMA ArriveMoves ==
  ASSUME NEW s, NEW r, NEW l, NEW t, Places(s, r, l, t), l # <<>>
  PROVE  /\ Channel!CanArrive(s)
         /\ IF "rx" \in s.conf THEN Places(Channel!Arrive(s), l, <<>>, t)
            ELSE Places(Channel!Arrive(s), r, <<>>, t)
         /\ Channel!Arrive(s).lost = IF "rx" \in s.conf /\ r # <<>> THEN s.lost \cup {"rx"} ELSE s.lost
         /\ Channel!Arrive(s).news = IF {"rx", "rxirq"} \subseteq s.conf THEN s.news \cup {"rx"} ELSE s.news
         /\ Channel!Arrive(s).conf = s.conf /\ Channel!Arrive(s).got = s.got
<1> DEFINE y == Channel!Arrive(s)
<1>1. Channel!CanArrive(s)
  <2>1. Channel!InTransit(s) = Len(l) BY Counts
  <2>2. Len(l) = 1 BY SlotFacts DEF Places
  <2> QED BY <2>1, <2>2 DEF Channel!CanArrive
<1>2. /\ s \in ChannelState
      /\ r \in Slots /\ l \in Slots /\ t \in Slots
      /\ r \in Seq(Chars) /\ l \in Seq(Chars) /\ t \in Seq(Chars)
  BY SlotFacts DEF Places
<1>3. CASE "rx" \notin s.conf
  <2>1. Len(r) \in Nat /\ Len(r) + 1 - 1 = Len(r) /\ Len(r) + 1 + 1 = Len(r) + 2 BY <1>2
  <2>2. SubSeq(s.q, 1, Len(r)) \o SubSeq(s.q, Len(r) + 2, Len(s.q)) = r \o t
    <3>1. PICK c \in Chars : l = <<c>> BY <1>2, SlotFacts
    <3>2. s.q = r \o <<c>> \o t BY <3>1 DEF Places
    <3> DEFINE q == r \o <<c>> \o t
    <3>3. SubSeq(q, 1, Len(r)) \o SubSeq(q, Len(r) + 2, Len(q)) = r \o t
      BY <1>2, RemoveFromConcat, Zenon
    <3>4. q = s.q BY <3>2
    <3> HIDE DEF q
    <3> QED BY <3>3, <3>4, Zenon
  <2>3. Channel!RemoveAt(s.q, Channel!Arrived(s) + 1) = r \o <<>> \o t
    <3>1. Channel!Arrived(s) = Len(r) BY Counts
    <3>2. r \o <<>> = r BY <1>2, ConcatEmptySeq
    <3>3. Channel!RemoveAt(s.q, Channel!Arrived(s) + 1) =
            SubSeq(s.q, 1, Len(r)) \o SubSeq(s.q, Len(r) + 2, Len(s.q))
      <4> DEFINE n == Channel!Arrived(s) + 1
      <4>1. n - 1 = Len(r) /\ n + 1 = Len(r) + 2 BY <2>1, <3>1
      <4> HIDE DEF n
      <4>2. Channel!RemoveAt(s.q, n) = SubSeq(s.q, 1, n - 1) \o SubSeq(s.q, n + 1, Len(s.q))
        BY Zenon DEF Channel!RemoveAt
      <4>3. Channel!RemoveAt(s.q, n) = SubSeq(s.q, 1, Len(r)) \o SubSeq(s.q, Len(r) + 2, Len(s.q))
        BY <4>1, <4>2, Zenon
      <4> QED BY <4>3 DEF n
    <3> QED BY <2>2, <3>2, <3>3, Zenon
  <2>4. r \o <<>> \o t \in Seq(Chars) BY <1>2
  <2>5. /\ y \in ChannelState
        /\ y.q = r \o <<>> \o t
        /\ y.room = s.room /\ y.ready = s.ready /\ y.lost = s.lost /\ y.news = s.news
        /\ y.conf = s.conf /\ y.got = s.got
    BY <1>2, <1>3, <2>3, <2>4 DEF Channel!Arrive, ChannelState
  <2> QED BY <1>1, <1>2, <1>3, <2>5, MoreSlots DEF Places
<1>4. CASE "rx" \in s.conf
  <2>1. (IF s.ready THEN Tail(s.q) ELSE s.q) = l \o <<>> \o t
    <3>1. l \o <<>> = l /\ <<>> \o l = l BY <1>2, ConcatEmptySeq
    <3>3. CASE r = <<>> BY <3>1, <3>3 DEF Places
    <3>4. CASE r # <<>>
      <4>1. s.q = r \o l \o t /\ s.ready = TRUE BY <3>4 DEF Places
      <4>2. Tail(r \o l \o t) = l \o t BY <1>2, <3>4, Rest
      <4> QED BY <3>1, <4>1, <4>2, Zenon
    <3> QED BY <3>3, <3>4
  <2>2. l \o <<>> \o t \in Seq(Chars) BY <1>2
  <2>3. /\ y \in ChannelState
        /\ y.q = l \o <<>> \o t
        /\ y.room = s.room /\ y.ready = TRUE
        /\ y.lost = IF s.ready THEN s.lost \cup {"rx"} ELSE s.lost
        /\ y.news = IF "rxirq" \in s.conf THEN s.news \cup {"rx"} ELSE s.news
        /\ y.conf = s.conf /\ y.got = s.got
    BY <1>2, <1>4, <2>1, <2>2 DEF Channel!Arrive, ChannelState, Ends
  <2> QED BY <1>1, <1>2, <1>4, <2>3, MoreSlots DEF Places
<1> QED BY <1>3, <1>4

LEMMA PutMoves ==
  ASSUME NEW s, NEW r, NEW l, NEW t, Places(s, r, l, t), NEW c \in Chars
  PROVE  /\ Places(Channel!Put(s, c), r, l, <<c>>)
         /\ Channel!Put(s, c).lost = IF t # <<>> THEN s.lost \cup {"tx"} ELSE s.lost
         /\ Channel!Put(s, c).news = s.news
         /\ Channel!Put(s, c).conf = s.conf /\ Channel!Put(s, c).got = s.got
<1> DEFINE y == Channel!Put(s, c)
<1>1. s \in ChannelState /\ r \in Slots /\ l \in Slots /\ t \in Slots /\ r \o l \in Seq(Chars)
  BY SlotFacts, ConcatProperties DEF Places
<1>2. r \o l \o <<>> = r \o l /\ Append(r \o l, c) = r \o l \o <<c>>
  BY <1>1, ConcatEmptySeq, AppendIsConcat
<1>3. (IF s.room THEN s.q ELSE Channel!Front(s.q)) = r \o l
  <2>1. CASE t = <<>> BY <1>2, <2>1 DEF Places
  <2>2. CASE t # <<>>
    <3>1. PICK d \in Chars : t = <<d>> BY <1>1, <2>2, SlotFacts
    <3>2. s.q = (r \o l) \o <<d>> /\ s.room = FALSE BY <2>2, <3>1 DEF Places
    <3> QED BY <1>1, <3>2, FrontOfConcat DEF Channel!Front
  <2> QED BY <2>1, <2>2
<1>4. /\ y \in ChannelState
      /\ y.q = r \o l \o <<c>>
      /\ y.room = FALSE /\ y.ready = s.ready
      /\ y.lost = IF s.room THEN s.lost ELSE s.lost \cup {"tx"}
      /\ y.news = s.news /\ y.conf = s.conf /\ y.got = s.got
  <2>1. r \o l \o <<c>> \in Seq(Chars) BY <1>1
  <2> QED BY <1>1, <1>2, <1>3, <2>1 DEF Channel!Put, ChannelState, Ends
<1> QED BY <1>1, <1>4, MoreSlots DEF Places

LEMMA GetMoves ==
  ASSUME NEW s, NEW r, NEW l, NEW t, Places(s, r, l, t),
         NEW y, Places(y, <<>>, l, t),
         y.lost = s.lost, y.news = s.news, y.conf = s.conf,
         r # <<>> => y.got = r[1]
  PROVE  y \in Channel!Gets(s)
<1>1. /\ s \in ChannelState /\ y \in ChannelState /\ y.room = s.room /\ y.ready = FALSE
      /\ r \in Slots /\ l \in Slots /\ t \in Slots /\ y.q = <<>> \o l \o t
      /\ y.got \in Chars
  BY DEF Places, ChannelState
<1>2. <<>> \o l = l BY <1>1, SlotFacts, ConcatEmptySeq
<1>3. CASE r = <<>>
  <2>1. y.q = s.q /\ s.ready = FALSE BY <1>1, <1>3 DEF Places
  <2>2. y = [s EXCEPT !.got = y.got] BY <1>1, <2>1 DEF ChannelState
  <2> QED BY <1>1, <2>1, <2>2 DEF Channel!Gets
<1>4. CASE r # <<>>
  <2>1. s.q = r \o l \o t /\ s.ready = TRUE BY <1>4 DEF Places
  <2>2. Tail(s.q) = y.q /\ Head(s.q) = y.got
    <3>1. Tail(r \o l \o t) = l \o t /\ Head(r \o l \o t) = r[1] BY <1>1, <1>4, Rest
    <3>2. y.q = l \o t /\ y.got = r[1] BY <1>1, <1>2, <1>4, Zenon
    <3> QED BY <2>1, <3>1, <3>2, Zenon
  <2>3. y = [s EXCEPT !.ready = FALSE, !.q = Tail(@), !.got = Head(s.q)]
    BY <1>1, <2>2 DEF ChannelState
  <2> QED BY <2>1, <2>3 DEF Channel!Gets
<1> QED BY <1>3, <1>4

LEMMA OtherMoves ==
  ASSUME NEW s, NEW r, NEW l, NEW t, Places(s, r, l, t),
         NEW y, Places(y, r, l, t), y.got = s.got,
         \/ y.lost \subseteq s.lost /\ y.news \subseteq s.news /\ y.conf = s.conf
         \/ l = <<>> /\ t = <<>> /\ y.lost = s.lost /\ y.news = s.news
  PROVE  y \in Channel!Others(s)
<1>1. /\ s \in ChannelState /\ y \in ChannelState
      /\ y.q = s.q /\ y.room = s.room /\ y.ready = s.ready
  BY DEF Places
<1>2. CASE y.lost \subseteq s.lost /\ y.news \subseteq s.news /\ y.conf = s.conf
  <2>1. y = [s EXCEPT !.lost = y.lost, !.news = y.news] BY <1>1, <1>2 DEF ChannelState
  <2>2. PICK up \in [lost : SUBSET s.lost, news : SUBSET s.news] : up.lost = y.lost /\ up.news = y.news
    <3>1. [lost |-> y.lost, news |-> y.news] \in [lost : SUBSET s.lost, news : SUBSET s.news]
      BY <1>2
    <3> QED BY <3>1
  <2>3. y = [s EXCEPT !.lost = up.lost, !.news = up.news] BY <2>1, <2>2, Zenon
  <2> QED BY <2>3, Zenon DEF Channel!Others
<1>3. CASE l = <<>> /\ t = <<>> /\ y.lost = s.lost /\ y.news = s.news
  <2>1. s.room /\ Channel!InTransit(s) = 0
    <3>1. Channel!InTransit(s) = Len(<<>>) /\ Len(<<>>) = 0 BY <1>3, Counts
    <3>2. s.room = TRUE BY <1>3 DEF Places
    <3> QED BY <3>1, <3>2
  <2>2. y = [s EXCEPT !.conf = y.conf] /\ y.conf \in SUBSET {"tx", "rx", "txirq", "rxirq"}
    BY <1>1, <1>3 DEF ChannelState
  <2>3. \E c \in SUBSET {"tx", "rx", "txirq", "rxirq"} : y = [s EXCEPT !.conf = c] BY <2>2, Zenon
  <2>4. y \in {[s EXCEPT !.conf = c] : c \in SUBSET {"tx", "rx", "txirq", "rxirq"}} BY <2>3, Zenon
  <2>5. y \in IF s.room /\ Channel!InTransit(s) = 0
              THEN {[s EXCEPT !.conf = c] : c \in SUBSET {"tx", "rx", "txirq", "rxirq"}}
              ELSE {}
    BY <2>1, <2>4, Zenon
  <2> QED BY <2>5, Zenon DEF Channel!Others
<1> QED BY <1>2, <1>3

-----------------------------------------------------------------------------
(* The UARTs.                                                              *)

\* A transmitter is at work only while it is enabled.
LinkInv == LinkTypeOK /\ \A i \in Uarts : uart[i].tx > 0 => "tx" \in uart[i].ctrl

\* What software may put on the bus, and at any time.
Accesses ==
  {NoAccess, ReadData}
  \cup {WriteData(c) : c \in Chars}
  \cup {WriteState(f) : f \in SUBSET Ends}
  \cup {WriteIntClear(e, f) : e \in SUBSET Ends, f \in SUBSET Ends}
  \cup {WriteCtrl(e) : e \in SUBSET Enables}
  \cup {WriteBaudDiv(d) : d \in Dividers}
Allowed(b) == b \in Accesses /\ (b.op \in {"CTRL", "BAUDDIV"} => Quiet)

LEMMA Peers == Peer("UART2") = "UART3" /\ Peer("UART3") = "UART2"
BY DEF Peer, Uarts

LEMMA EveryStepIsAnAccess ==
  ASSUME LinkNext
  PROVE  \E i, b : i \in Uarts /\ Allowed(b) /\ Access(i, b)
<1> DEFINE Done(i, b) == i \in Uarts /\ Allowed(b) /\ Access(i, b)
<1> SUFFICES \E i, b : Done(i, b)
  OBVIOUS
<1>1. CASE NoBus BY <1>1 DEF NoBus, Uarts, Allowed, Accesses, NoAccess
<1>2. CASE Send
  <2>1. PICK i \in Senders, c \in AnyChars : Access(i, WriteData(c)) BY <1>2 DEF Send
  <2>2. WriteData(c) \in Accesses BY LinkAssumption DEF Accesses
  <2>3. WriteData(c).op = "DATA" BY DEF WriteData
  <2> QED BY <2>1, <2>2, <2>3, LinkAssumption DEF Allowed
<1>3. CASE Receive
  <2>1. ReadData \in Accesses /\ ReadData.op = "read DATA" BY DEF Accesses, ReadData
  <2> QED BY <1>3, <2>1 DEF Receive, Allowed
<1>4. CASE ClearOverrun
  <2>1. PICK i \in Uarts, e \in {{"tx"}, {"rx"}} : Access(i, WriteState(e)) BY <1>4 DEF ClearOverrun
  <2>2. e \in SUBSET Ends BY DEF Ends
  <2>3. WriteState(e) \in Accesses BY <2>2 DEF Accesses
  <2>4. WriteState(e).op = "STATE" BY DEF WriteState
  <2> QED BY <2>1, <2>3, <2>4 DEF Allowed
<1>5. CASE ClearIrq
  <2>1. PICK i \in Uarts, e \in {{"tx"}, {"rx"}}, f \in {{}, Ends} : Access(i, WriteIntClear(e, f))
    BY <1>5 DEF ClearIrq
  <2>2. e \in SUBSET Ends /\ f \in SUBSET Ends BY DEF Ends
  <2>3. WriteIntClear(e, f) \in Accesses BY <2>2 DEF Accesses
  <2>4. WriteIntClear(e, f).op = "INTCLEAR" BY DEF WriteIntClear
  <2> QED BY <2>1, <2>3, <2>4 DEF Allowed
<1>6. CASE Configure
  <2>1. PICK i \in Uarts, e \in AnyCtrl : Quiet /\ Access(i, WriteCtrl(e)) BY <1>6 DEF Configure
  <2>2. WriteCtrl(e) \in Accesses BY LinkAssumption DEF Accesses
  <2> QED BY <2>1, <2>2 DEF Allowed
<1> QED BY <1>1, <1>2, <1>3, <1>4, <1>5, <1>6 DEF LinkNext

LEMMA AccessFacts ==
  ASSUME NEW b \in Accesses
  PROVE  /\ write_enable00(b) => b \in [op : {"DATA"}, char : Chars]
         /\ rx_data_read(b) => b = ReadData
         /\ b.op = "CTRL" => b.enables \in SUBSET Enables
         /\ b.op = "BAUDDIV" => b.divider \in Dividers
         /\ write_enable00(b) \/ rx_data_read(b) \/ b.op \in {"CTRL", "BAUDDIV"} =>
              OverrunClear(b) = {} /\ intr_stat_clear(b) = {}
<1> USE DEF write_enable00, rx_data_read, OverrunClear, intr_stat_clear
<1>1. CASE b = NoAccess BY <1>1 DEF NoAccess
<1>2. CASE b = ReadData BY <1>2 DEF ReadData
<1>3. ASSUME NEW c \in Chars, b = WriteData(c)
      PROVE  b.op = "DATA" /\ b \in [op : {"DATA"}, char : Chars]
  BY <1>3 DEF WriteData
<1>4. ASSUME NEW f \in SUBSET Ends, b = WriteState(f)
      PROVE  b.op = "STATE"
  BY <1>4 DEF WriteState
<1>5. ASSUME NEW e \in SUBSET Ends, NEW f \in SUBSET Ends, b = WriteIntClear(e, f)
      PROVE  b.op = "INTCLEAR"
  BY <1>5 DEF WriteIntClear
<1>6. ASSUME NEW e \in SUBSET Enables, b = WriteCtrl(e)
      PROVE  b.op = "CTRL" /\ b.enables \in SUBSET Enables
  BY <1>6 DEF WriteCtrl
<1>7. ASSUME NEW d \in Dividers, b = WriteBaudDiv(d)
      PROVE  b.op = "BAUDDIV" /\ b.divider \in Dividers
  BY <1>7 DEF WriteBaudDiv
<1>8. \/ b = NoAccess \/ b = ReadData
      \/ \E c \in Chars : b = WriteData(c)
      \/ \E f \in SUBSET Ends : b = WriteState(f)
      \/ \E e \in SUBSET Ends, f \in SUBSET Ends : b = WriteIntClear(e, f)
      \/ \E e \in SUBSET Enables : b = WriteCtrl(e)
      \/ \E d \in Dividers : b = WriteBaudDiv(d)
  BY DEF Accesses
<1> QED BY <1>1, <1>2, <1>3, <1>4, <1>5, <1>6, <1>7, <1>8

LEMMA AllowedFacts ==
  ASSUME NEW b, Allowed(b)
  PROVE  /\ write_enable00(b) => b \in [op : {"DATA"}, char : Chars]
         /\ rx_data_read(b) => b = ReadData
         /\ b.op = "CTRL" => Quiet
         /\ write_enable00(b) \/ rx_data_read(b) \/ b.op = "CTRL" =>
              OverrunClear(b) = {} /\ intr_stat_clear(b) = {}
BY AccessFacts DEF Allowed

LEMMA TypeEdge ==
  ASSUME NEW u \in Uart, NEW p \in Uart, NEW b \in Accesses
  PROVE  UartEdge(u, b, p) \in Uart
<1>1. /\ b.op = "CTRL" => b.enables \in SUBSET Enables
      /\ write_enable00(b) => b.char \in Chars
      /\ b.op = "BAUDDIV" => b.divider \in Dividers
  BY AccessFacts
<1>2. nxt_tx_state(u) \in Nat BY UartAssumption DEF nxt_tx_state, Frame, ShortestFrame, Uart
<1>3. nxt_tx_buf_full(u, b) \in BOOLEAN BY DEF nxt_tx_buf_full, tx_buf_clear, write_enable00, Uart
<1>4. nxt_rx_buf_full(u, b, p) \in BOOLEAN BY DEF nxt_rx_buf_full, rxbuf_sample, rx_data_read, Uart
<1>5. nxt_overrun(u, b, p) \in SUBSET Ends BY DEF nxt_overrun, Ends, Uart
<1>6. nxt_intr(u, b, p) \in SUBSET Ends BY DEF nxt_intr, intr_stat_set, Ends, Uart
<1> QED BY <1>1, <1>2, <1>3, <1>4, <1>5, <1>6 DEF UartEdge, Uart

LEMMA InvInit == LinkInit => LinkInv
BY UartAssumption DEF LinkInit, LinkInv, LinkTypeOK, ResetUart, Uart, NoData, Uarts

LEMMA TypesStep ==
  ASSUME LinkTypeOK, NEW i \in Uarts, NEW b \in Accesses, Access(i, b)
  PROVE  LinkTypeOK'
<1>1. \A j \in Uarts : uart[j] \in Uart /\ uart[Peer(j)] \in Uart BY Peers DEF LinkTypeOK, Uarts
<1>2. NoAccess \in Accesses BY DEF Accesses
<1>3. uart' \in [Uarts -> Uart] BY <1>1, <1>2, TypeEdge DEF Access
<1>4. rdata' \in [Uarts -> Chars] BY <1>1 DEF Access, LinkTypeOK, Uart
<1>5. bus' \in {NoData} \cup [uart : Uarts, access : {ReadData} \cup [op : {"DATA"}, char : Chars]]
  BY AccessFacts DEF Access
<1> QED BY <1>3, <1>4, <1>5 DEF LinkTypeOK

LEMMA InvStep ==
  ASSUME LinkInv, NEW i \in Uarts, NEW b, Allowed(b), Access(i, b)
  PROVE  LinkInv'
<1>1. \A j \in Uarts : uart[j] \in Uart /\ uart[Peer(j)] \in Uart
  BY Peers DEF LinkInv, LinkTypeOK, Uarts
<1>2. LinkTypeOK' BY TypesStep DEF LinkInv, Allowed
<1>6. ASSUME NEW j \in Uarts, uart'[j].tx > 0
      PROVE  "tx" \in uart'[j].ctrl
  <2> DEFINE u == uart[j]
             a == IF j = i THEN b ELSE NoAccess
  <2>1. uart'[j] = UartEdge(u, a, uart[Peer(j)]) BY DEF Access
  <2>2. u \in Uart /\ (u.tx > 0 => "tx" \in u.ctrl) BY <1>1 DEF LinkInv
  <2>3. a.op = "CTRL" => u.tx = 0 /\ u.tx_buf_full = FALSE
    BY <1>1 DEF Allowed, NoAccess, Quiet, Uart
  <2>4. nxt_tx_state(u) > 0 BY <1>6, <2>1 DEF UartEdge
  <2>5. nxt_tx_state(u) > 0 => "tx" \in u.ctrl /\ (u.tx # 0 \/ u.tx_buf_full)
    BY <2>2 DEF nxt_tx_state, Uart
  <2> HIDE DEF u, a
  <2> QED BY <2>1, <2>3, <2>4, <2>5 DEF UartEdge
<1> QED BY <1>2, <1>6 DEF LinkInv

-----------------------------------------------------------------------------
(* An edge of both UARTs, seen from the channel.                           *)

LEMMA Placed == LinkInv => Places(Channel!State, Held, OnLine, Waiting)
<1> SUFFICES ASSUME LinkInv PROVE Places(Channel!State, Held, OnLine, Waiting)
  OBVIOUS
<1>1. uart["UART2"] \in Uart /\ uart["UART3"] \in Uart /\ rdata["UART3"] \in Chars
  BY DEF LinkInv, LinkTypeOK, Uarts
<1>2. Held \in Slots /\ OnLine \in Slots /\ Waiting \in Slots
  BY <1>1, MoreSlots DEF Held, OnLine, Waiting, Bytes, Uart
<1>3. Held \o OnLine \o Waiting \in Seq(Chars) BY <1>2, SlotFacts, ConcatProperties
<1>4. (~uart["UART2"].tx_buf_full) = (Waiting = <<>>) /\ uart["UART3"].rx_buf_full = (Held # <<>>)
  BY <1>1, MoreSlots DEF Held, Waiting, Bytes, Uart
<1>5. /\ Overruns \in SUBSET Ends /\ Interrupts \in SUBSET Ends
      /\ Enabled2to3 \in SUBSET {"tx", "rx", "txirq", "rxirq"}
  BY DEF Overruns, Interrupts, Enabled2to3, Ends
<1>6. Channel!State \in ChannelState BY <1>1, <1>3, <1>5 DEF Channel!State, ChannelState, Uart
<1> QED BY <1>2, <1>4, <1>6 DEF Channel!State, Places

\* Software writes DATA of the sender, or reads DATA of the receiver.
Sends(i, b) == i = "UART2" /\ write_enable00(b)
Reads(i, b) == i = "UART3" /\ rx_data_read(b)

\* The line takes the byte from the buffer, or delivers one.
Takes    == tx_buf_clear(uart["UART2"])
Delivers == uart["UART2"].tx = SampleStep

LEMMA EdgeFields ==
  ASSUME NEW u, NEW b, NEW p, NEW v, v = UartEdge(u, b, p)
  PROVE  /\ v.tx = nxt_tx_state(u)
         /\ v.tx_buf_full = nxt_tx_buf_full(u, b)
         /\ v.reg_tx_buf = IF write_enable00(b) THEN b.char ELSE u.reg_tx_buf
         /\ v.tx_shift_buf = IF tx_buf_clear(u) THEN u.reg_tx_buf ELSE u.tx_shift_buf
         /\ v.rx_buf_full = nxt_rx_buf_full(u, b, p)
         /\ v.reg_rx_buf = IF rxbuf_sample(u, p) THEN p.tx_shift_buf ELSE u.reg_rx_buf
         /\ v.overrun = nxt_overrun(u, b, p)
         /\ v.intr = nxt_intr(u, b, p)
         /\ v.ctrl = IF b.op = "CTRL" THEN b.enables ELSE u.ctrl
BY Zenon DEF UartEdge

\* The access that UART j sees.
At(j, i, b) == IF j = i THEN b ELSE NoAccess

LEMMA BothEnds ==
  ASSUME LinkInv, NEW i \in Uarts, NEW b, Access(i, b)
  PROVE  /\ uart["UART2"] \in Uart /\ uart["UART3"] \in Uart
         /\ uart'["UART2"] = UartEdge(uart["UART2"], At("UART2", i, b), uart["UART3"])
         /\ uart'["UART3"] = UartEdge(uart["UART3"], At("UART3", i, b), uart["UART2"])
BY Peers DEF LinkInv, LinkTypeOK, Access, Uarts, At

LEMMA NoAccessFacts ==
  /\ ~write_enable00(NoAccess) /\ ~rx_data_read(NoAccess) /\ NoAccess.op # "CTRL"
  /\ OverrunClear(NoAccess) = {} /\ intr_stat_clear(NoAccess) = {}
BY DEF NoAccess, write_enable00, rx_data_read, OverrunClear, intr_stat_clear

LEMMA Events ==
  ASSUME LinkInv
  PROVE  /\ Takes => OnLine = <<>> /\ Waiting # <<>> /\ ~Delivers
         /\ Delivers => OnLine # <<>>
<1>1. uart["UART2"] \in Uart BY DEF LinkInv, LinkTypeOK, Uarts
<1> QED BY <1>1, MoreSlots DEF Takes, Delivers, OnLine, Waiting, Bytes, tx_buf_clear, SampleStep, Uart

LEMMA WaitingEdge ==
  ASSUME LinkInv, NEW i \in Uarts, NEW b, Access(i, b)
  PROVE  Waiting' = IF Sends(i, b) THEN <<b.char>> ELSE IF Takes THEN <<>> ELSE Waiting
<1> DEFINE u == uart["UART2"]
           v == uart'["UART2"]
           a == At("UART2", i, b)
<1>1. /\ u \in Uart
      /\ v.tx_buf_full = nxt_tx_buf_full(u, a)
      /\ v.reg_tx_buf = IF write_enable00(a) THEN a.char ELSE u.reg_tx_buf
  BY BothEnds, EdgeFields
<1>2. write_enable00(a) = Sends(i, b) /\ (Sends(i, b) => a = b)
  BY NoAccessFacts DEF Sends, At, write_enable00
<1>3. /\ Waiting = Bytes(u.tx_buf_full, u.reg_tx_buf) /\ Takes = tx_buf_clear(u)
      /\ Waiting' = Bytes(v.tx_buf_full, v.reg_tx_buf)
  BY DEF Waiting, Takes
<1> HIDE DEF u, v, a
<1> QED BY <1>1, <1>2, <1>3 DEF Bytes, nxt_tx_buf_full, tx_buf_clear, Uart

LEMMA OnLineEdge ==
  ASSUME LinkInv, NEW i \in Uarts, NEW b, Access(i, b)
  PROVE  OnLine' = IF Takes THEN (IF "tx" \in Enabled2to3 THEN Waiting ELSE <<>>)
                   ELSE IF Delivers THEN <<>> ELSE OnLine
<1> DEFINE u == uart["UART2"]
<1>1. /\ u \in Uart /\ (u.tx > 0 => "tx" \in u.ctrl) /\ u.reg_baud_div \in Nat
      /\ uart'["UART2"].tx = nxt_tx_state(u)
      /\ uart'["UART2"].tx_shift_buf = IF tx_buf_clear(u) THEN u.reg_tx_buf ELSE u.tx_shift_buf
  <2>1. u \in Uart /\ u.reg_baud_div \in Nat BY BothEnds, UartAssumption DEF Uart
  <2>2. u.tx > 0 => "tx" \in u.ctrl BY DEF LinkInv, Uarts
  <2>3. /\ uart'["UART2"].tx = nxt_tx_state(u)
        /\ uart'["UART2"].tx_shift_buf = IF tx_buf_clear(u) THEN u.reg_tx_buf ELSE u.tx_shift_buf
    BY BothEnds, EdgeFields
  <2> QED BY <2>1, <2>2, <2>3
<1>2. "tx" \in Enabled2to3 <=> "tx" \in u.ctrl BY DEF Enabled2to3
<1>3. OnLine = Bytes(u.tx >= SampleStep, u.tx_shift_buf) /\ Waiting = Bytes(u.tx_buf_full, u.reg_tx_buf)
  BY DEF OnLine, Waiting
<1>4. OnLine' = Bytes(uart'["UART2"].tx >= SampleStep, uart'["UART2"].tx_shift_buf) BY DEF OnLine
<1>5. (Takes <=> tx_buf_clear(u)) /\ (Delivers <=> u.tx = SampleStep) BY DEF Takes, Delivers
<1> HIDE DEF u
<1> USE DEF tx_buf_clear, nxt_tx_state, Frame, ShortestFrame, SampleStep, Bytes, Uart
<1>6. CASE u.tx \in {0, 1} /\ u.tx_buf_full /\ "tx" \in u.ctrl
  <2>1. nxt_tx_state(u) >= SampleStep BY <1>1, <1>6
  <2>2. tx_buf_clear(u) BY <1>6
  <2>3. OnLine' = <<u.reg_tx_buf>> /\ Waiting = <<u.reg_tx_buf>>
    BY <1>1, <1>3, <1>4, <1>6, <2>1, <2>2
  <2> QED BY <1>2, <1>5, <1>6, <2>2, <2>3
<1>7. CASE u.tx \in {0, 1} /\ ~(u.tx_buf_full /\ "tx" \in u.ctrl)
  <2>1. nxt_tx_state(u) = 0 BY <1>1, <1>7
  <2>2. OnLine' = <<>> /\ OnLine = <<>> BY <1>1, <1>3, <1>4, <1>7, <2>1
  <2>3. Takes => "tx" \notin Enabled2to3 BY <1>2, <1>5, <1>7
  <2> QED BY <2>2, <2>3
<1>8. CASE u.tx > 1
  <2>1. nxt_tx_state(u) = u.tx - 1 /\ ~tx_buf_clear(u) /\ u.tx \in Nat BY <1>1, <1>8
  <2>2. OnLine = <<u.tx_shift_buf>> BY <1>3, <1>8, <2>1
  <2>3. uart'["UART2"].tx_shift_buf = u.tx_shift_buf /\ uart'["UART2"].tx = u.tx - 1 BY <1>1, <2>1
  <2>4. CASE u.tx = 2
    <3>1. OnLine' = <<>> BY <1>4, <2>3, <2>4
    <3>2. Delivers /\ ~Takes BY <1>5, <2>1, <2>4
    <3> QED BY <3>1, <3>2, Zenon
  <2>5. CASE u.tx > 2
    <3>1. OnLine' = <<u.tx_shift_buf>> BY <1>4, <2>1, <2>3, <2>5
    <3>2. ~Delivers /\ ~Takes BY <1>5, <2>1, <2>5
    <3> QED BY <2>2, <3>1, <3>2, Zenon
  <2> QED BY <1>8, <2>1, <2>4, <2>5
<1> QED BY <1>1, <1>6, <1>7, <1>8

LEMMA HeldEdge ==
  ASSUME LinkInv, NEW i \in Uarts, NEW b, Access(i, b)
  PROVE  Held' = IF Delivers /\ "rx" \in Enabled2to3 THEN OnLine
                 ELSE IF Reads(i, b) THEN <<>> ELSE Held
<1> DEFINE u == uart["UART3"]
           v == uart'["UART3"]
           p == uart["UART2"]
           a == At("UART3", i, b)
<1>1. /\ u \in Uart /\ p \in Uart
      /\ v.rx_buf_full = nxt_rx_buf_full(u, a, p)
      /\ v.reg_rx_buf = IF rxbuf_sample(u, p) THEN p.tx_shift_buf ELSE u.reg_rx_buf
  BY BothEnds, EdgeFields
<1>2. rx_data_read(a) = Reads(i, b) BY NoAccessFacts DEF Reads, At, rx_data_read
<1>3. /\ Held = Bytes(u.rx_buf_full, u.reg_rx_buf)
      /\ Held' = Bytes(v.rx_buf_full, v.reg_rx_buf)
      /\ OnLine = Bytes(p.tx >= SampleStep, p.tx_shift_buf)
  BY DEF Held, OnLine
<1>4. rxbuf_sample(u, p) = (Delivers /\ "rx" \in Enabled2to3) /\ (Delivers => p.tx = SampleStep)
  BY DEF rxbuf_sample, Delivers, Enabled2to3
<1> HIDE DEF u, v, a, p
<1>5. CASE Delivers /\ "rx" \in Enabled2to3
  <2>1. v.rx_buf_full = TRUE /\ v.reg_rx_buf = p.tx_shift_buf
    BY <1>1, <1>4, <1>5 DEF nxt_rx_buf_full
  <2>2. p.tx >= SampleStep BY <1>4, <1>5 DEF SampleStep
  <2>3. Held' = <<p.tx_shift_buf>> /\ OnLine = <<p.tx_shift_buf>> BY <1>3, <2>1, <2>2 DEF Bytes
  <2> QED BY <1>5, <2>3
<1>6. CASE ~(Delivers /\ "rx" \in Enabled2to3)
  <2>1. rxbuf_sample(u, p) = FALSE BY <1>4, <1>6
  <2>2. v.rx_buf_full = (u.rx_buf_full /\ ~Reads(i, b)) /\ v.reg_rx_buf = u.reg_rx_buf
    BY <1>1, <1>2, <2>1 DEF nxt_rx_buf_full
  <2> QED BY <1>3, <1>6, <2>2 DEF Bytes
<1> QED BY <1>5, <1>6

\* What software clears at its end.
Cleared(i, s) == IF i = "UART2" THEN s \cap {"tx"} ELSE s \cap {"rx"}

LEMMA FlagsEdge ==
  ASSUME LinkInv, NEW i \in Uarts, NEW b, Access(i, b)
  PROVE  /\ Overruns' = (Overruns \ Cleared(i, OverrunClear(b)))
               \cup (IF Sends(i, b) /\ Waiting # <<>> /\ ~Takes THEN {"tx"} ELSE {})
               \cup (IF Delivers /\ "rx" \in Enabled2to3 /\ Held # <<>> /\ ~Reads(i, b) THEN {"rx"} ELSE {})
         /\ Interrupts' = (Interrupts \ Cleared(i, intr_stat_clear(b)))
               \cup (IF Takes /\ {"tx", "txirq"} \subseteq Enabled2to3 THEN {"tx"} ELSE {})
               \cup (IF Delivers /\ {"rx", "rxirq"} \subseteq Enabled2to3 THEN {"rx"} ELSE {})
<1> DEFINE b2 == At("UART2", i, b)
           b3 == At("UART3", i, b)
<1>1. /\ uart'["UART2"].overrun = nxt_overrun(uart["UART2"], b2, uart["UART3"])
      /\ uart'["UART3"].overrun = nxt_overrun(uart["UART3"], b3, uart["UART2"])
      /\ uart'["UART2"].intr = nxt_intr(uart["UART2"], b2, uart["UART3"])
      /\ uart'["UART3"].intr = nxt_intr(uart["UART3"], b3, uart["UART2"])
      /\ uart["UART2"] \in Uart /\ uart["UART3"] \in Uart
  BY BothEnds, EdgeFields
<1>2. /\ write_enable00(b2) = Sends(i, b) /\ rx_data_read(b3) = Reads(i, b)
      /\ OverrunClear(b2) \cap {"tx"} = IF i = "UART2" THEN OverrunClear(b) \cap {"tx"} ELSE {}
      /\ OverrunClear(b3) \cap {"rx"} = IF i = "UART3" THEN OverrunClear(b) \cap {"rx"} ELSE {}
      /\ intr_stat_clear(b2) \cap {"tx"} = IF i = "UART2" THEN intr_stat_clear(b) \cap {"tx"} ELSE {}
      /\ intr_stat_clear(b3) \cap {"rx"} = IF i = "UART3" THEN intr_stat_clear(b) \cap {"rx"} ELSE {}
  BY NoAccessFacts DEF Sends, Reads, At, write_enable00, rx_data_read
<1>3. (Waiting # <<>>) = uart["UART2"].tx_buf_full /\ (Held # <<>>) = uart["UART3"].rx_buf_full
  BY <1>1, MoreSlots DEF Waiting, Held, Bytes, Uart
<1>4. i = "UART2" \/ i = "UART3" BY DEF Uarts
<1> HIDE DEF b2, b3
<1>5. Overruns' = (uart'["UART2"].overrun \cap {"tx"}) \cup (uart'["UART3"].overrun \cap {"rx"})
  BY DEF Overruns
<1>6. "tx" \in uart'["UART2"].overrun <=>
        \/ "tx" \in uart["UART2"].overrun /\ "tx" \notin OverrunClear(b2)
        \/ Sends(i, b) /\ Waiting # <<>> /\ ~Takes
  BY <1>1, <1>2, <1>3 DEF nxt_overrun, tx_overrun, Takes
<1>7. "rx" \in uart'["UART3"].overrun <=>
        \/ "rx" \in uart["UART3"].overrun /\ "rx" \notin OverrunClear(b3)
        \/ Delivers /\ "rx" \in Enabled2to3 /\ Held # <<>> /\ ~Reads(i, b)
  BY <1>1, <1>2, <1>3 DEF nxt_overrun, rx_overrun, rxbuf_sample, Delivers, Enabled2to3
<1>8. Interrupts' = (uart'["UART2"].intr \cap {"tx"}) \cup (uart'["UART3"].intr \cap {"rx"})
  BY DEF Interrupts
<1>9. "tx" \in uart'["UART2"].intr <=>
        \/ "tx" \in uart["UART2"].intr /\ "tx" \notin intr_stat_clear(b2)
        \/ Takes /\ {"tx", "txirq"} \subseteq Enabled2to3
  BY <1>1 DEF nxt_intr, intr_stat_set, Takes, Enabled2to3
<1>10. "rx" \in uart'["UART3"].intr <=>
        \/ "rx" \in uart["UART3"].intr /\ "rx" \notin intr_stat_clear(b3)
        \/ Delivers /\ {"rx", "rxirq"} \subseteq Enabled2to3
  BY <1>1 DEF nxt_intr, intr_stat_set, rxbuf_sample, Delivers, Enabled2to3
<1>11. \A f : f \in {"tx", "rx"} =>
        /\ f \in Overruns <=>
             \/ f = "tx" /\ f \in uart["UART2"].overrun
             \/ f = "rx" /\ f \in uart["UART3"].overrun
        /\ f \in Interrupts <=>
             \/ f = "tx" /\ f \in uart["UART2"].intr
             \/ f = "rx" /\ f \in uart["UART3"].intr
  BY DEF Overruns, Interrupts
<1>12. OverrunClear(b2) \cap {"tx"} = Cleared(i, OverrunClear(b)) \cap {"tx"}
  BY <1>2, <1>4 DEF Cleared
<1>13. OverrunClear(b3) \cap {"rx"} = Cleared(i, OverrunClear(b)) \cap {"rx"}
  BY <1>2, <1>4 DEF Cleared
<1>14. intr_stat_clear(b2) \cap {"tx"} = Cleared(i, intr_stat_clear(b)) \cap {"tx"}
  BY <1>2, <1>4 DEF Cleared
<1>15. intr_stat_clear(b3) \cap {"rx"} = Cleared(i, intr_stat_clear(b)) \cap {"rx"}
  BY <1>2, <1>4 DEF Cleared
<1>16. Overruns \subseteq {"tx", "rx"} /\ Interrupts \subseteq {"tx", "rx"}
  BY DEF Overruns, Interrupts
<1>17. Overruns' = (Overruns \ Cleared(i, OverrunClear(b)))
             \cup (IF Sends(i, b) /\ Waiting # <<>> /\ ~Takes THEN {"tx"} ELSE {})
             \cup (IF Delivers /\ "rx" \in Enabled2to3 /\ Held # <<>> /\ ~Reads(i, b) THEN {"rx"} ELSE {})
  BY <1>5, <1>6, <1>7, <1>11, <1>12, <1>13, <1>16
<1>18. Interrupts' = (Interrupts \ Cleared(i, intr_stat_clear(b)))
             \cup (IF Takes /\ {"tx", "txirq"} \subseteq Enabled2to3 THEN {"tx"} ELSE {})
             \cup (IF Delivers /\ {"rx", "rxirq"} \subseteq Enabled2to3 THEN {"rx"} ELSE {})
  BY <1>8, <1>9, <1>10, <1>11, <1>14, <1>15, <1>16
<1> QED BY <1>17, <1>18

LEMMA EnabledEdge ==
  ASSUME LinkInv, NEW i \in Uarts, NEW b, Allowed(b), Access(i, b)
  PROVE  \/ Enabled2to3' = Enabled2to3
         \/ b.op = "CTRL" /\ OnLine = <<>> /\ Waiting = <<>> /\ ~Takes /\ ~Delivers
<1>1. CASE b.op = "CTRL"
  BY AllowedFacts, <1>1 DEF OnLine, Waiting, Bytes, Takes, Delivers, tx_buf_clear, SampleStep, Quiet, Uarts
<1>2. CASE b.op # "CTRL"
  <2>1. uart'["UART2"].ctrl = uart["UART2"].ctrl /\ uart'["UART3"].ctrl = uart["UART3"].ctrl
    BY NoAccessFacts, <1>2, BothEnds, EdgeFields DEF At
  <2> QED BY <2>1 DEF Enabled2to3
<1> QED BY <1>1, <1>2

LEMMA GotEdge ==
  ASSUME LinkInv, NEW i \in Uarts, NEW b, Access(i, b)
  PROVE  /\ ~Reads(i, b) => rdata'["UART3"] = rdata["UART3"]
         /\ Reads(i, b) /\ Held # <<>> => rdata'["UART3"] = Held[1]
<1>1. ~Reads(i, b) => rdata'["UART3"] = rdata["UART3"]
  BY DEF Reads, Access, LinkInv, LinkTypeOK, Uarts
<1>2. Reads(i, b) => rdata'["UART3"] = uart["UART3"].reg_rx_buf
  BY DEF Reads, Access, LinkInv, LinkTypeOK, Uarts
<1>3. Held # <<>> => Held[1] = uart["UART3"].reg_rx_buf BY DEF Held, Bytes
<1> QED BY <1>1, <1>2, <1>3

LEMMA OpEdge ==
  ASSUME NEW i \in Uarts, NEW b, Allowed(b), Access(i, b)
  PROVE  LastOp' = CASE Sends(i, b)  -> [kind |-> "put", char |-> b.char]
                     [] Reads(i, b) -> [kind |-> "get"]
                     [] OTHER       -> [kind |-> "other"]
<1>1. ~(write_enable00(b) /\ rx_data_read(b)) BY DEF write_enable00, rx_data_read
<1>2. CASE Sends(i, b)
  <2>1. bus' = [uart |-> "UART2", access |-> b] BY <1>2 DEF Access, Sends
  <2>2. LastOp' = [kind |-> "put", char |-> b.char] BY <1>2, <2>1 DEF LastOp, Sends
  <2> QED BY <1>2, <2>2 DEF Sends, Reads
<1>3. CASE Reads(i, b)
  <2>1. bus' = [uart |-> "UART3", access |-> b] BY <1>3 DEF Access, Reads
  <2>2. LastOp' = [kind |-> "get"] BY <1>3, <2>1 DEF LastOp, Reads
  <2> QED BY <1>3, <2>2 DEF Sends, Reads
<1>4. CASE ~Sends(i, b) /\ ~Reads(i, b)
  <2>1. \/ bus'.uart = "none"
        \/ bus'.uart = i /\ bus'.access = b
    BY DEF Access, NoData
  <2>2. LastOp' = [kind |-> "other"] BY <1>4, <2>1 DEF LastOp, Sends, Reads
  <2> QED BY <1>4, <2>2
<1> QED BY <1>2, <1>3, <1>4

-----------------------------------------------------------------------------
(* An edge is a step of the channel.                                       *)

LEMMA Fields ==
  /\ Channel!State.lost = Overruns /\ Channel!State.news = Interrupts
  /\ Channel!State.conf = Enabled2to3 /\ Channel!State.got = rdata["UART3"]
BY DEF Channel!State

\* Software writes a byte: the line may take one before it, deliver one after.
LEMMA PutStep ==
  ASSUME LinkInv, LinkInv', NEW i \in Uarts, NEW b, Allowed(b), Access(i, b), Sends(i, b)
  PROVE  Channel!State' \in UNION {Channel!AfterPut(Channel!Put(z, b.char)) :
                                       z \in Channel!Before(Channel!State)}
<1> DEFINE s  == Channel!State
           y  == Channel!State'
           s1 == IF Takes THEN Channel!Take(s) ELSE s
           s2 == Channel!Put(s1, b.char)
           s3 == IF Delivers THEN Channel!Arrive(s2) ELSE s2
           l1 == IF Takes /\ "tx" \in s.conf THEN Waiting ELSE OnLine
           t1 == IF Takes THEN <<>> ELSE Waiting
<1>1. Places(s, Held, OnLine, Waiting) /\ Places(y, Held', OnLine', Waiting')
  <2>1. Places(Channel!State, Held, OnLine, Waiting) BY Placed
  <2>2. Places(Channel!State, Held, OnLine, Waiting)' BY Placed, PTL
  <2> QED BY <2>1, <2>2
<1>2. b.char \in Chars /\ ~Reads(i, b) /\ OverrunClear(b) = {} /\ intr_stat_clear(b) = {}
      /\ Enabled2to3' = Enabled2to3 /\ rdata'["UART3"] = rdata["UART3"]
  BY AllowedFacts, EnabledEdge, GotEdge DEF Sends, Reads, write_enable00
<1>3. /\ s.lost = Overruns /\ s.news = Interrupts /\ s.conf = Enabled2to3 /\ s.got = rdata["UART3"]
      /\ y.lost = Overruns' /\ y.news = Interrupts' /\ y.conf = Enabled2to3' /\ y.got = rdata'["UART3"]
  BY DEF Channel!State
<1> HIDE DEF s, y
<1>4. /\ s1 \in Channel!Before(s)
      /\ Places(s1, Held, l1, t1)
      /\ s1.news = IF Takes /\ {"tx", "txirq"} \subseteq s.conf THEN s.news \cup {"tx"} ELSE s.news
      /\ s1.lost = s.lost /\ s1.conf = s.conf /\ s1.got = s.got
  <2>1. CASE Takes
    <3>1. Places(s, Held, <<>>, Waiting) /\ Waiting # <<>> /\ OnLine = <<>> BY <1>1, <2>1, Events
    <3>2. /\ Channel!CanTake(s)
          /\ Places(s1, Held, IF "tx" \in s.conf THEN Waiting ELSE <<>>, <<>>)
          /\ s1.news = IF {"tx", "txirq"} \subseteq s.conf THEN s.news \cup {"tx"} ELSE s.news
          /\ s1.lost = s.lost /\ s1.conf = s.conf /\ s1.got = s.got
      BY <2>1, <3>1, TakeMoves
    <3> QED BY <2>1, <3>1, <3>2 DEF Channel!Before
  <2>2. CASE ~Takes BY <1>1, <2>2 DEF Channel!Before
  <2> QED BY <2>1, <2>2
<1>moved. (Takes => t1 = <<>>) /\ (~Takes => t1 = Waiting /\ l1 = OnLine) OBVIOUS
<1>flags. /\ Overruns' = Overruns
               \cup (IF Waiting # <<>> /\ ~Takes THEN {"tx"} ELSE {})
               \cup (IF Delivers /\ "rx" \in Enabled2to3 /\ Held # <<>> THEN {"rx"} ELSE {})
      /\ Interrupts' = Interrupts
               \cup (IF Takes /\ {"tx", "txirq"} \subseteq Enabled2to3 THEN {"tx"} ELSE {})
               \cup (IF Delivers /\ {"rx", "rxirq"} \subseteq Enabled2to3 THEN {"rx"} ELSE {})
  BY <1>2, FlagsEdge DEF Cleared
<1>ops. s2 = Channel!Put(s1, b.char) /\ (Delivers => s3 = Channel!Arrive(s2)) /\ (~Delivers => s3 = s2)
  OBVIOUS
<1> HIDE DEF s1, s2, s3, l1, t1
<1>5. /\ Places(s2, Held, l1, <<b.char>>)
      /\ s2.lost = IF t1 # <<>> THEN s.lost \cup {"tx"} ELSE s.lost
      /\ s2.news = s1.news /\ s2.conf = s.conf /\ s2.got = s.got
  <2> DEFINE c == b.char
  <2>1. c \in Chars /\ s2 = Channel!Put(s1, c) /\ Places(s1, Held, l1, t1) BY <1>2, <1>4, <1>ops
  <2> HIDE DEF c
  <2>2. /\ Places(s2, Held, l1, <<c>>)
        /\ s2.lost = IF t1 # <<>> THEN s1.lost \cup {"tx"} ELSE s1.lost
        /\ s2.news = s1.news /\ s2.conf = s1.conf /\ s2.got = s1.got
    <3>1. Places(s2, Held, l1, <<c>>) BY <2>1, PutMoves
    <3>2. s2.lost = IF t1 # <<>> THEN s1.lost \cup {"tx"} ELSE s1.lost BY <2>1, PutMoves
    <3>3. s2.news = s1.news BY <2>1, PutMoves
    <3>4. s2.conf = s1.conf /\ s2.got = s1.got BY <2>1, PutMoves
    <3> QED BY <3>1, <3>2, <3>3, <3>4
  <2> QED BY <1>4, <2>2 DEF c
<1>6. /\ s3 \in Channel!AfterPut(s2)
      /\ Places(s3, Held', OnLine', Waiting')
      /\ s3.lost = y.lost /\ s3.news = y.news /\ s3.conf = y.conf /\ s3.got = y.got
  <2>1. Waiting' = <<b.char>> BY WaitingEdge
  <2>2. CASE Delivers
    <3>1. ~Takes /\ OnLine # <<>> /\ l1 = OnLine /\ t1 = Waiting /\ Places(s2, Held, OnLine, <<b.char>>)
      BY <1>5, <1>moved, <2>2, Events
    <3>2. /\ Channel!CanArrive(s2)
          /\ IF "rx" \in s2.conf THEN Places(s3, OnLine, <<>>, <<b.char>>)
             ELSE Places(s3, Held, <<>>, <<b.char>>)
          /\ s3.lost = IF "rx" \in s2.conf /\ Held # <<>> THEN s2.lost \cup {"rx"} ELSE s2.lost
          /\ s3.news = IF {"rx", "rxirq"} \subseteq s2.conf THEN s2.news \cup {"rx"} ELSE s2.news
          /\ s3.conf = s2.conf /\ s3.got = s2.got
      <4> DEFINE t == <<b.char>>
      <4> HIDE DEF t
      <4>1. Places(s2, Held, OnLine, t) /\ OnLine # <<>> /\ s3 = Channel!Arrive(s2)
        BY <1>ops, <2>2, <3>1 DEF t
      <4>2. Channel!CanArrive(s2) BY <4>1, ArriveMoves
      <4>3. IF "rx" \in s2.conf THEN Places(s3, OnLine, <<>>, t) ELSE Places(s3, Held, <<>>, t)
        BY <4>1, ArriveMoves
      <4>4. s3.lost = IF "rx" \in s2.conf /\ Held # <<>> THEN s2.lost \cup {"rx"} ELSE s2.lost
        BY <4>1, ArriveMoves
      <4>5. s3.news = IF {"rx", "rxirq"} \subseteq s2.conf THEN s2.news \cup {"rx"} ELSE s2.news
        BY <4>1, ArriveMoves
      <4>6. s3.conf = s2.conf /\ s3.got = s2.got BY <4>1, ArriveMoves
      <4> QED BY <4>2, <4>3, <4>4, <4>5, <4>6 DEF t
    <3>3. OnLine' = <<>> /\ Held' = IF "rx" \in s.conf THEN OnLine ELSE Held
      BY <1>2, <1>3, <2>2, <3>1, OnLineEdge, HeldEdge
    <3>4. Places(s3, Held', OnLine', Waiting') BY <1>5, <2>1, <3>2, <3>3
    <3>5. s3.lost = y.lost /\ s3.news = y.news
      <4>1. s3.lost = y.lost BY <1>3, <1>5, <1>flags, <2>2, <3>1, <3>2
      <4>2. s3.news = y.news BY <1>3, <1>4, <1>5, <1>flags, <2>2, <3>1, <3>2
      <4> QED BY <4>1, <4>2
    <3>6. s3 \in Channel!AfterPut(s2) BY <1>ops, <2>2, <3>2 DEF Channel!AfterPut
    <3>7. s3.conf = y.conf /\ s3.got = y.got BY <1>2, <1>3, <1>5, <3>2
    <3> QED BY <3>4, <3>5, <3>6, <3>7
  <2>3. CASE ~Delivers
    <3>1. OnLine' = l1 /\ Held' = Held BY <1>2, <1>3, <2>3, OnLineEdge, HeldEdge, Events DEF l1
    <3>2. y.lost = s2.lost /\ y.news = s2.news
      <4>1. s2.lost = y.lost BY <1>3, <1>5, <1>flags, <1>moved, <2>3
      <4>2. s2.news = y.news BY <1>3, <1>4, <1>5, <1>flags, <2>3
      <4> QED BY <4>1, <4>2
    <3> QED BY <1>2, <1>3, <1>5, <2>1, <1>ops, <2>3, <3>1, <3>2 DEF Channel!AfterPut
  <2> QED BY <2>2, <2>3
<1>7. y = s3 BY <1>1, <1>6, SameState
<1>8. y \in UNION {Channel!AfterPut(Channel!Put(z, b.char)) : z \in Channel!Before(s)}
  BY <1>4, <1>6, <1>7, <1>ops, Zenon
<1> QED BY <1>8 DEF s, y

\* Software has done its part, z: the line may take or deliver a byte after it.
LEMMA LineAfter ==
  ASSUME LinkInv, LinkInv', NEW i \in Uarts, NEW b, Allowed(b), Access(i, b), ~Sends(i, b),
         NEW z, Places(z, IF Reads(i, b) THEN <<>> ELSE Held, OnLine, Waiting),
         z.lost = Overruns \ Cleared(i, OverrunClear(b)),
         z.news = Interrupts \ Cleared(i, intr_stat_clear(b)),
         z.conf = Enabled2to3', z.got = rdata'["UART3"]
  PROVE  Channel!State' \in Channel!After(z)
<1> DEFINE y == Channel!State'
           h == IF Reads(i, b) THEN <<>> ELSE Held
<1>1. Places(y, Held', OnLine', Waiting')
  <2>1. Places(Channel!State, Held, OnLine, Waiting)' BY Placed, PTL
  <2> QED BY <2>1
<1>2. y.lost = Overruns' /\ y.news = Interrupts' /\ y.conf = Enabled2to3' /\ y.got = rdata'["UART3"]
  BY DEF Channel!State
<1>3. Takes \/ Delivers => z.conf = Enabled2to3 BY EnabledEdge
<1>4. /\ Overruns' = z.lost
               \cup (IF Delivers /\ "rx" \in Enabled2to3 /\ h # <<>> THEN {"rx"} ELSE {})
      /\ Interrupts' = z.news
               \cup (IF Takes /\ {"tx", "txirq"} \subseteq Enabled2to3 THEN {"tx"} ELSE {})
               \cup (IF Delivers /\ {"rx", "rxirq"} \subseteq Enabled2to3 THEN {"rx"} ELSE {})
  BY FlagsEdge
<1>5. Waiting' = IF Takes THEN <<>> ELSE Waiting BY WaitingEdge
<1>6. OnLine' = IF Takes THEN (IF "tx" \in Enabled2to3 THEN Waiting ELSE <<>>)
                ELSE IF Delivers THEN <<>> ELSE OnLine
  BY OnLineEdge
<1>7. Held' = IF Delivers /\ "rx" \in Enabled2to3 THEN OnLine ELSE h BY HeldEdge
<1> HIDE DEF y, h
<1>8. CASE Takes
  <2> DEFINE w == Channel!Take(z)
  <2>1. Places(z, h, <<>>, Waiting) /\ Waiting # <<>> /\ OnLine = <<>> /\ ~Delivers
    BY <1>8, Events DEF h
  <2> HIDE DEF w
  <2>2. Channel!CanTake(z) /\ Places(w, h, IF "tx" \in z.conf THEN Waiting ELSE <<>>, <<>>)
    BY <2>1, TakeMoves DEF w
  <2>3. w.news = IF {"tx", "txirq"} \subseteq z.conf THEN z.news \cup {"tx"} ELSE z.news
    BY <2>1, TakeMoves DEF w
  <2>4. w.lost = z.lost /\ w.conf = z.conf /\ w.got = z.got BY <2>1, TakeMoves DEF w
  <2>5. Places(w, Held', OnLine', Waiting') BY <1>3, <1>5, <1>6, <1>7, <1>8, <2>1, <2>2
  <2>6. w.lost = y.lost /\ w.news = y.news /\ w.conf = y.conf /\ w.got = y.got
    BY <1>2, <1>3, <1>4, <1>8, <2>1, <2>3, <2>4
  <2>7. w = y BY <1>1, <2>5, <2>6, SameState
  <2> QED BY <2>2, <2>7 DEF Channel!After, w, y
<1>9. CASE Delivers
  <2> DEFINE w == Channel!Arrive(z)
  <2>1. Places(z, h, OnLine, Waiting) /\ OnLine # <<>> /\ ~Takes BY <1>9, Events DEF h
  <2> HIDE DEF w
  <2>2. /\ Channel!CanArrive(z)
        /\ IF "rx" \in z.conf THEN Places(w, OnLine, <<>>, Waiting) ELSE Places(w, h, <<>>, Waiting)
    BY <2>1, ArriveMoves DEF w
  <2>3. w.lost = IF "rx" \in z.conf /\ h # <<>> THEN z.lost \cup {"rx"} ELSE z.lost
    BY <2>1, ArriveMoves DEF w
  <2>4. w.news = IF {"rx", "rxirq"} \subseteq z.conf THEN z.news \cup {"rx"} ELSE z.news
    BY <2>1, ArriveMoves DEF w
  <2>5. w.conf = z.conf /\ w.got = z.got BY <2>1, ArriveMoves DEF w
  <2>6. Places(w, Held', OnLine', Waiting') BY <1>3, <1>5, <1>6, <1>7, <1>9, <2>1, <2>2
  <2>7. w.lost = y.lost /\ w.news = y.news /\ w.conf = y.conf /\ w.got = y.got
    BY <1>2, <1>3, <1>4, <1>9, <2>1, <2>3, <2>4, <2>5
  <2>8. w = y BY <1>1, <2>6, <2>7, SameState
  <2> QED BY <2>2, <2>8 DEF Channel!After, w, y
<1>10. CASE ~Takes /\ ~Delivers
  <2>1. Places(z, Held', OnLine', Waiting') BY <1>5, <1>6, <1>7, <1>10 DEF h
  <2>2. z.lost = y.lost /\ z.news = y.news /\ z.conf = y.conf /\ z.got = y.got BY <1>2, <1>4, <1>10
  <2>3. z = y BY <1>1, <2>1, <2>2, SameState
  <2> QED BY <2>3 DEF Channel!After, y
<1> QED BY <1>8, <1>9, <1>10

\* There is a state of the channel for every choice of its parts.
Made(r, l, t, lo, ne, co, go) ==
  [q |-> r \o l \o t, room |-> t = <<>>, ready |-> r # <<>>,
   lost |-> lo, news |-> ne, conf |-> co, got |-> go]

LEMMA MadeIsPlaced ==
  ASSUME NEW r \in Slots, NEW l \in Slots, NEW t \in Slots, NEW lo \in SUBSET Ends,
         NEW ne \in SUBSET Ends, NEW co \in SUBSET {"tx", "rx", "txirq", "rxirq"}, NEW go \in Chars
  PROVE  LET z == Made(r, l, t, lo, ne, co, go)
         IN  Places(z, r, l, t) /\ z.lost = lo /\ z.news = ne /\ z.conf = co /\ z.got = go
<1> DEFINE q == r \o l \o t
           z == Made(r, l, t, lo, ne, co, go)
<1>1. q \in Seq(Chars) BY SlotFacts, ConcatProperties
<1>2. z \in ChannelState BY <1>1 DEF ChannelState, Made
<1>3. z.q = q /\ z.room = (t = <<>>) /\ z.ready = (r # <<>>) BY Zenon DEF Made
<1>4. z.lost = lo /\ z.news = ne /\ z.conf = co /\ z.got = go BY Zenon DEF Made
<1> HIDE DEF z
<1>5. Places(z, r, l, t) BY <1>2, <1>3 DEF Places
<1> QED BY <1>4, <1>5, Zenon DEF z

\* Software reads a byte, or the buffer while it is empty.
LEMMA GetStep ==
  ASSUME LinkInv, LinkInv', NEW i \in Uarts, NEW b, Allowed(b), Access(i, b), Reads(i, b)
  PROVE  Channel!State' \in UNION {Channel!After(z) : z \in Channel!Gets(Channel!State)}
<1>1. Places(Channel!State, Held, OnLine, Waiting) /\ Held \in Slots /\ OnLine \in Slots /\ Waiting \in Slots
  BY Placed DEF Places
<1>2. /\ Overruns \in SUBSET Ends /\ Interrupts \in SUBSET Ends
      /\ Enabled2to3 \in SUBSET {"tx", "rx", "txirq", "rxirq"} /\ rdata'["UART3"] \in Chars
  BY DEF Overruns, Interrupts, Enabled2to3, Ends, LinkInv, LinkTypeOK, Uarts
<1>3. /\ ~Sends(i, b) /\ OverrunClear(b) = {} /\ intr_stat_clear(b) = {}
      /\ Enabled2to3' = Enabled2to3
  BY AllowedFacts, EnabledEdge DEF Sends, Reads, rx_data_read
<1> DEFINE z == Made(<<>>, OnLine, Waiting, Overruns, Interrupts, Enabled2to3, rdata'["UART3"])
<1>4. /\ Places(z, <<>>, OnLine, Waiting)
      /\ z.lost = Overruns /\ z.news = Interrupts /\ z.conf = Enabled2to3
      /\ z.got = rdata'["UART3"]
  BY MoreSlots, <1>1, <1>2, MadeIsPlaced
<1> HIDE DEF z
<1>5. Held # <<>> => z.got = Held[1] BY <1>4, GotEdge
<1>6. z \in Channel!Gets(Channel!State) BY <1>1, <1>4, <1>5, Fields, GetMoves
<1>7. Channel!State' \in Channel!After(z) BY <1>3, <1>4, LineAfter DEF Cleared
<1> QED BY <1>6, <1>7, Zenon

\* Software clears flags, configures, or does something at the other ends.
LEMMA OtherStep ==
  ASSUME LinkInv, LinkInv', NEW i \in Uarts, NEW b, Allowed(b), Access(i, b), ~Sends(i, b), ~Reads(i, b)
  PROVE  Channel!State' \in UNION {Channel!After(z) : z \in Channel!Others(Channel!State)}
<1> DEFINE lo == Overruns \ Cleared(i, OverrunClear(b))
           ne == Interrupts \ Cleared(i, intr_stat_clear(b))
<1>1. Places(Channel!State, Held, OnLine, Waiting) /\ Held \in Slots /\ OnLine \in Slots /\ Waiting \in Slots
  BY Placed DEF Places
<1>2. /\ lo \in SUBSET Ends /\ ne \in SUBSET Ends
      /\ Enabled2to3' \in SUBSET {"tx", "rx", "txirq", "rxirq"} /\ rdata'["UART3"] \in Chars
  BY DEF Overruns, Interrupts, Enabled2to3, Ends, LinkInv, LinkTypeOK, Uarts
<1>3. /\ lo \subseteq Overruns /\ ne \subseteq Interrupts
      /\ b.op = "CTRL" => lo = Overruns /\ ne = Interrupts
  BY AllowedFacts DEF Cleared
<1> HIDE DEF lo, ne
<1> DEFINE z == Made(Held, OnLine, Waiting, lo, ne, Enabled2to3', rdata'["UART3"])
<1>4. /\ Places(z, Held, OnLine, Waiting)
      /\ z.lost = lo /\ z.news = ne /\ z.conf = Enabled2to3' /\ z.got = rdata'["UART3"]
  BY <1>1, <1>2, MadeIsPlaced
<1> HIDE DEF z
<1>5. z.got = rdata["UART3"] BY <1>4, GotEdge
<1>6. \/ z.lost \subseteq Overruns /\ z.news \subseteq Interrupts /\ z.conf = Enabled2to3
      \/ OnLine = <<>> /\ Waiting = <<>> /\ z.lost = Overruns /\ z.news = Interrupts
  BY <1>3, <1>4, EnabledEdge
<1>7. z \in Channel!Others(Channel!State) BY <1>1, <1>4, <1>5, <1>6, Fields, OtherMoves
<1>8. Channel!State' \in Channel!After(z) BY <1>4, LineAfter DEF lo, ne
<1> QED BY <1>7, <1>8, Zenon

LEMMA EveryAccessIsAStep ==
  ASSUME LinkInv, LinkInv', NEW i, NEW b, i \in Uarts /\ Allowed(b) /\ Access(i, b)
  PROVE  Channel!Next
<1>1. i \in Uarts /\ Allowed(b) /\ Access(i, b) OBVIOUS
<1>2. CASE Sends(i, b)
  <2>1. b.char \in Chars BY <1>1, <1>2, AllowedFacts DEF Sends
  <2>2. LastOp' = [kind |-> "put", char |-> b.char] BY <1>1, <1>2, OpEdge DEF Sends, Reads
  <2>3. Channel!State' \in UNION {Channel!AfterPut(Channel!Put(z, b.char)) :
                                       z \in Channel!Before(Channel!State)}
    BY <1>1, <1>2, PutStep
  <2>4. Channel!State' \in Channel!Edges(Channel!State, LastOp') BY <2>2, <2>3 DEF Channel!Edges
  <2> QED BY <2>1, <2>2, <2>4 DEF Channel!Next, Channel!PutOp, Channel!Op
<1>3. CASE Reads(i, b)
  <2>1. LastOp' = [kind |-> "get"] BY <1>1, <1>3, OpEdge DEF Sends, Reads
  <2>2. Channel!State' \in Channel!Edges(Channel!State, LastOp')
    BY <1>1, <1>3, <2>1, GetStep DEF Channel!Edges
  <2> QED BY <2>1, <2>2 DEF Channel!Next, Channel!Op
<1>4. CASE ~Sends(i, b) /\ ~Reads(i, b)
  <2>1. LastOp' = [kind |-> "other"] BY <1>1, <1>4, OpEdge
  <2>2. Channel!State' \in Channel!Edges(Channel!State, LastOp')
    BY <1>1, <1>4, <2>1, OtherStep DEF Channel!Edges
  <2> QED BY <2>1, <2>2 DEF Channel!Next, Channel!Op
<1> QED BY <1>2, <1>3, <1>4

LEMMA Start == LinkInit => Channel!Init
<1> SUFFICES ASSUME LinkInit PROVE Channel!Init
  OBVIOUS
<1>1. Held = <<>> /\ OnLine = <<>> /\ Waiting = <<>>
  BY DEF LinkInit, Held, OnLine, Waiting, Bytes, ResetUart, Uarts, SampleStep
<1>2. <<>> \o <<>> \o <<>> = <<>> OBVIOUS
<1>3. /\ uart["UART2"].tx_buf_full = FALSE /\ uart["UART3"].rx_buf_full = FALSE
      /\ rdata["UART3"] \in Chars
  BY UartAssumption DEF LinkInit, ResetUart, Uarts
<1>4. Overruns = {} /\ Interrupts = {} /\ Enabled2to3 = {}
  BY DEF LinkInit, ResetUart, Uarts, Overruns, Interrupts, Enabled2to3
<1>5. LastOp = [kind |-> "other"] BY DEF LinkInit, LastOp, NoData
<1> QED BY <1>1, <1>2, <1>3, <1>4, <1>5 DEF Channel!Init, Channel!Op

-----------------------------------------------------------------------------
(* The theorems.                                                           *)

\* Every register of both UARTs keeps its range, and no transmitter works
\* that is switched off (cmsdk_apb_uart.v:415-447).
THEOREM LinkTypeCorrect == LinkSpec => []LinkInv
<1>1. LinkInv /\ [LinkNext]_linkVars => LinkInv'
  <2> SUFFICES ASSUME LinkInv, [LinkNext]_linkVars PROVE LinkInv'
    OBVIOUS
  <2>1. CASE LinkNext BY <2>1, EveryStepIsAnAccess, InvStep
  <2>2. CASE UNCHANGED linkVars BY <2>2 DEF linkVars, LinkInv, LinkTypeOK
  <2> QED BY <2>1, <2>2
<1> QED BY <1>1, InvInit, PTL DEF LinkSpec

\* The two UARTs implement the channel: bytes arrive in order, one is lost only
\* with an overrun flag or where an end is switched off, and neither a byte nor
\* an interrupt is lost to an access at the same edge (cmsdk_apb_uart.v:386-393,
\* 412-413, 480, 541-550, 622-643).
THEOREM ImplementsChannel == LinkSpec => ChannelSpec
<1>1. LinkInv /\ LinkInv' /\ [LinkNext]_linkVars => [Channel!Next]_(Channel!chanVars)
  <2> SUFFICES ASSUME LinkInv, LinkInv', [LinkNext]_linkVars
               PROVE  Channel!Next \/ UNCHANGED Channel!chanVars
    OBVIOUS
  <2>1. CASE LinkNext BY <2>1, EveryStepIsAnAccess, EveryAccessIsAStep
  <2>2. CASE UNCHANGED linkVars
    BY <2>2 DEF linkVars, Channel!chanVars, Held, OnLine, Waiting, Overruns, Interrupts,
                Enabled2to3, LastOp
  <2> QED BY <2>1, <2>2
<1> QED BY <1>1, Start, LinkTypeCorrect, PTL DEF LinkSpec, ChannelSpec, Channel!Spec

-----------------------------------------------------------------------------
(* The texts of the programs: every instruction is one the processor has,  *)
(* and none but the last leads out of its text.                            *)

TimerAccesses == {TimerIdle, TimerRead, TimerIntClear}
  \cup {TimerCtrl(m) : m \in SUBSET Modes}
  \cup {TimerValue(n) : n \in 0 .. TimerMax} \cup {TimerReload(n) : n \in 0 .. TimerMax}

\* The actions of a program that writes the registers R of the port and of the
\* UARTs, enables the interrupts I, accesses only UARTs that it has handlers of
\* and sends only from UART2; and its conditions.
UartSettings == {"CTRL", "BAUDDIV"}
UartAccesses(R) == {b \in Accesses : b.op # "DATA" /\ (b.op \in UartSettings => b.op \in R)}
Plain == {"load CTRL", "save CTRL", "sample VALUE", "restore CTRL", "count", "store",
          "forget received", "wfe", "return", "fail", "passed"}
Names == DOMAIN Software0
Actions(R, I) ==
  [op : {"bus"}, dev : Uarts \cap I, access : UartAccesses(R)]
  \cup [op : {"bus"}, dev : {"UART2"} \cap I, access : [op : {"DATA"}, char : Chars]]
  \cup [op : {"bus"}, dev : {"TIMER0"}, access : TimerAccesses]
  \cup [op : {"bus"}, dev : {"GPIO0"}, access : [op : R \ UartSettings, pins : SUBSET Pins]]
  \cup [op : {"send"}, dev : {"UART2"} \cap I, var : Names]
  \cup [op : {"store CTRL"}, set : SUBSET Modes, clear : SUBSET Modes]
  \cup [op : {"set"}, var : Names, to : {0, 1}]
  \cup [op : {"inc"}, var : Names]
  \cup [op : {"puts"}, chars : Nat]
  \cup [op : {"enable", "disable", "clear pending"}, irq : I]
  \cup [op : Plain]

Tests == {"TXBF", "no TXBF", "RXBF", "no RXBF", "TXIRQ", "no TXIRQ", "RXIRQ", "no RXIRQ",
          "overrun", "overrun 1", "overrun 2",
          "EN", "no EN", "no SELEXTEN", "no SELEXTCLK", "IRQEN", "VALUE same", "VALUE changed",
          "no INT", "clear", "set", "left", "left but the end", "incomplete", "complete",
          "below 3", "at least 3", "at most 3", "below 4", "5", "above 10", "multiple of 10",
          "differs"}
Conditions == [var : Names \cup {"RX & TX", "received"}, is : Tests]
              \cup [dev : Uarts \cup {"TIMER0", "saved CTRL"}, is : Tests]
              \cup [dev : {"TIMER0"}, is : {"RELOAD", "VALUE"}, value : 0 .. TimerMax]

IsCode(s, R, I) == Code(s, Actions(R, I), Conditions)

LEMMA CallCode == ASSUME NEW J, NEW C PROVE Code(Call, J, C)
<1> DEFINE S == J \cup Jumps(C)
<1>1. [op |-> "goto", by |-> 1] \in S BY DEF Jumps
<1>2. Call \in Seq(S) /\ Len(Call) = CallTime /\ \A k \in 1 .. CallTime : Call[k] = [op |-> "goto", by |-> 1]
  <2> HIDE DEF S
  <2> QED BY <1>1, DriverAssumption, IsASeq DEF Call
<1> QED BY <1>2, DriverAssumption DEF Code, Inside

\* A statement of one instruction.
LEMMA OneAction ==
  ASSUME NEW R, NEW I, NEW i \in Actions(R, I)
  PROVE  IsCode(<<i>>, R, I)
<1>1. i.op \notin JumpOps BY DEF Actions, JumpOps, Plain
<1> QED BY <1>1, OneCode DEF IsCode

LEMMA InstrForms ==
  ASSUME NEW R, NEW I
  PROVE  /\ \A op \in Plain : IsCode(Do(op), R, I)
         /\ IsCode(Fail, R, I)
         /\ \A v \in Names : (\A n \in {0, 1} : IsCode(Set(v, n), R, I)) /\ IsCode(Inc(v), R, I)
         /\ \A n \in Nat : IsCode(Puts(n), R, I)
         /\ \A h \in I :
              IsCode(Enable(h), R, I) /\ IsCode(Disable(h), R, I) /\ IsCode(ClearPending(h), R, I)
         /\ "UART2" \in I => /\ \A v \in Names : IsCode(Put("UART2", v), R, I)
                             /\ \A c \in Chars : IsCode(Bus("UART2", WriteData(c)), R, I)
<1> DEFINE J == Actions(R, I)
<1>1. /\ \A op \in Plain : [op |-> op] \in J
      /\ \A v \in Names, n \in {0, 1} : [op |-> "set", var |-> v, to |-> n] \in J
      /\ \A v \in Names : [op |-> "inc", var |-> v] \in J
      /\ \A n \in Nat : [op |-> "puts", chars |-> n] \in J
      /\ \A h \in I, op \in {"enable", "disable", "clear pending"} : [op |-> op, irq |-> h] \in J
  BY DEF Actions
<1>2. "UART2" \in I =>
        /\ \A v \in Names : [op |-> "send", dev |-> "UART2", var |-> v] \in J
        /\ \A c \in Chars : [op |-> "bus", dev |-> "UART2", access |-> WriteData(c)] \in J
  BY DEF Actions, WriteData
<1>3. "fail" \in Plain BY DEF Plain
<1>4. \A i \in J : IsCode(<<i>>, R, I) BY OneAction
<1> HIDE DEF J
<1> QED BY <1>1, <1>2, <1>3, <1>4
        DEF Do, Fail, Set, Inc, Puts, Enable, Disable, ClearPending, Put, Bus
LEMMA UartBusCode ==
  ASSUME NEW R, NEW I, NEW d \in Uarts \cap I, NEW b \in UartAccesses(R)
  PROVE  IsCode(Bus(d, b), R, I)
<1>1. [op |-> "bus", dev |-> d, access |-> b] \in Actions(R, I) BY DEF Actions
<1> QED BY <1>1, OneAction DEF Bus
LEMMA TimerBusCode ==
  ASSUME NEW R, NEW I, NEW b \in TimerAccesses PROVE IsCode(Bus("TIMER0", b), R, I)
<1>1. [op |-> "bus", dev |-> "TIMER0", access |-> b] \in Actions(R, I) BY DEF Actions
<1> QED BY <1>1, OneAction DEF Bus
LEMMA GpioCode ==
  ASSUME NEW R, NEW I, NEW r \in R \ UartSettings, NEW P \in SUBSET Pins
  PROVE  IsCode(Gpio0(r, P), R, I)
<1>1. GpioWrite(r, P) \in [op : R \ UartSettings, pins : SUBSET Pins] BY DEF GpioWrite
<1>2. [op |-> "bus", dev |-> "GPIO0", access |-> GpioWrite(r, P)] \in Actions(R, I)
  BY <1>1 DEF Actions
<1> QED BY <1>2, OneAction DEF Gpio0, Bus

\* Composed statements.
LEMMA StatementForms ==
  ASSUME NEW R, NEW I
  PROVE  /\ IsCode(<<>>, R, I) /\ IsCode(Call, R, I)
         /\ \A a, b : IsCode(a, R, I) /\ IsCode(b, R, I) => IsCode(a \o b, R, I)
         /\ \A c \in Conditions : \A s : IsCode(s, R, I) => IsCode(While(c, s), R, I)
         /\ \A c \in Conditions : \A s : IsCode(s, R, I) => IsCode(If(c, s), R, I)
         /\ \A c \in Conditions : \A s : IsCode(s, R, I) => IsCode(Repeat(s, c), R, I)
         /\ \A c \in Conditions : \A a, b :
              IsCode(a, R, I) /\ IsCode(b, R, I) => IsCode(IfElse(c, a, b), R, I)
BY EmptyCode, CallCode, ConcatCode, WhileCode, IfCode, RepeatCode, IfElseCode DEF IsCode

LEMMA CondForms ==
  /\ \A v \in Names \cup {"RX & TX", "received"}, t \in Tests : Var(v, t) \in Conditions
  /\ \A d \in Uarts \cup {"TIMER0", "saved CTRL"}, t \in Tests : Cond(d, t) \in Conditions
  /\ \A t \in {"RELOAD", "VALUE"}, n \in 0 .. TimerMax : Cond2("TIMER0", t, n) \in Conditions
BY DEF Var, Cond, Cond2, Conditions

LEMMA UartForms ==
  ASSUME NEW R, NEW I, NEW d \in Uarts \cap I
  PROVE  /\ UartSettings \subseteq R => \A e \in SUBSET Enables : IsCode(uart_init(d, e), R, I)
         /\ d = "UART2" => \A v \in Names : IsCode(uart_SendChar(d, v), R, I)
         /\ IsCode(uart_ReceiveChar(d), R, I)
         /\ IsCode(uart_ClearOverrunStatus(d), R, I)
         /\ IsCode(uart_ClearTxIRQ(d), R, I) /\ IsCode(uart_ClearRxIRQ(d), R, I)
<1>1. ReadData \in UartAccesses(R) /\ WriteState(Ends) \in UartAccesses(R)
  <2>1. ReadData \in Accesses /\ WriteState(Ends) \in Accesses BY DEF Accesses
  <2> QED BY <2>1 DEF UartAccesses, UartSettings, ReadData, WriteState
<1>2. WriteIntClear({"tx"}, {}) \in UartAccesses(R) /\ WriteIntClear({"rx"}, {}) \in UartAccesses(R)
  <2>1. {"tx"} \in SUBSET Ends /\ {"rx"} \in SUBSET Ends /\ {} \in SUBSET Ends BY DEF Ends
  <2>2. WriteIntClear({"tx"}, {}) \in Accesses /\ WriteIntClear({"rx"}, {}) \in Accesses
    BY <2>1 DEF Accesses
  <2> QED BY <2>2 DEF UartAccesses, UartSettings, WriteIntClear
<1>3. ASSUME UartSettings \subseteq R, NEW e \in SUBSET Enables PROVE IsCode(uart_init(d, e), R, I)
  <2>1. \A f \in SUBSET Enables : WriteCtrl(f) \in UartAccesses(R)
    BY <1>3 DEF Accesses, UartAccesses, UartSettings, WriteCtrl
  <2>2. WriteBaudDiv(Divider) \in UartAccesses(R)
    BY <1>3, DriverAssumption DEF Accesses, UartAccesses, UartSettings, WriteBaudDiv
  <2>3. {} \in SUBSET Enables OBVIOUS
  <2> QED BY <1>3, <2>1, <2>2, <2>3, UartBusCode, StatementForms DEF uart_init
<1>4. Cond(d, "TXBF") \in Conditions /\ Cond(d, "no RXBF") \in Conditions BY CondForms DEF Tests
<1>5. ASSUME d = "UART2", NEW v \in Names PROVE IsCode(uart_SendChar(d, v), R, I)
  BY <1>4, <1>5, InstrForms, StatementForms DEF uart_SendChar
<1>6. IsCode(uart_ReceiveChar(d), R, I)
  BY <1>1, <1>4, UartBusCode, StatementForms DEF uart_ReceiveChar
<1>7. /\ IsCode(uart_ClearOverrunStatus(d), R, I)
      /\ IsCode(uart_ClearTxIRQ(d), R, I) /\ IsCode(uart_ClearRxIRQ(d), R, I)
  BY <1>1, <1>2, UartBusCode DEF uart_ClearOverrunStatus, uart_ClearTxIRQ, uart_ClearRxIRQ
<1> QED BY <1>3, <1>5, <1>6, <1>7

LEMMA ModifyCode ==
  ASSUME NEW R, NEW I, NEW s \in SUBSET Modes, NEW c \in SUBSET Modes
  PROVE  IsCode(Modify(s, c), R, I)
<1> DEFINE i == [op |-> "store CTRL", set |-> s, clear |-> c]
<1>1. i \in Actions(R, I) BY DEF Actions
<1> HIDE DEF i
<1>2. IsCode(<<i>>, R, I) BY <1>1, OneAction
<1>3. IsCode(Do("load CTRL"), R, I) BY InstrForms DEF Plain
<1> QED BY <1>2, <1>3, StatementForms DEF Modify, i

LEMMA TimerForms ==
  ASSUME NEW R, NEW I
  PROVE  /\ IsCode(timer_EnableIRQ, R, I) /\ IsCode(timer_DisableIRQ, R, I)
         /\ IsCode(timer_StartTimer, R, I) /\ IsCode(timer_StopTimer, R, I)
         /\ IsCode(timer_ClearIRQ, R, I)
         /\ \A n \in 0 .. TimerMax :
              /\ IsCode(timer_SetValue(n), R, I) /\ IsCode(timer_SetReload(n), R, I)
              /\ IsCode(timer_Init_IntClock(n), R, I) /\ IsCode(timer_Init_ExtClock(n), R, I)
              /\ IsCode(timer_Init_ExtEnable(n), R, I)
<1>1. /\ \A m \in SUBSET Modes : TimerCtrl(m) \in TimerAccesses
      /\ TimerIntClear \in TimerAccesses
      /\ \A n \in 0 .. TimerMax : TimerValue(n) \in TimerAccesses /\ TimerReload(n) \in TimerAccesses
  BY DEF TimerAccesses
<1>2. /\ {} \in SUBSET Modes /\ {"irqen"} \in SUBSET Modes /\ {"en"} \in SUBSET Modes
      /\ {"irqen", "en"} \in SUBSET Modes /\ {"irqen", "selextclk", "en"} \in SUBSET Modes
      /\ {"irqen", "selexten", "en"} \in SUBSET Modes
  BY DEF Modes
<1>3. /\ IsCode(timer_EnableIRQ, R, I) /\ IsCode(timer_DisableIRQ, R, I)
      /\ IsCode(timer_StartTimer, R, I) /\ IsCode(timer_StopTimer, R, I)
  BY <1>2, ModifyCode DEF timer_EnableIRQ, timer_DisableIRQ, timer_StartTimer, timer_StopTimer
<1>4. IsCode(timer_ClearIRQ, R, I) BY <1>1, TimerBusCode, StatementForms DEF timer_ClearIRQ
<1>5. ASSUME NEW n \in 0 .. TimerMax
      PROVE  IsCode(timer_SetValue(n), R, I) /\ IsCode(timer_SetReload(n), R, I)
  BY <1>1, TimerBusCode, StatementForms DEF timer_SetValue, timer_SetReload
<1>6. ASSUME NEW n \in 0 .. TimerMax, NEW m \in SUBSET Modes
      PROVE  IsCode(timer_Init(n, m), R, I)
  BY <1>1, <1>2, TimerBusCode, StatementForms DEF timer_Init
<1>7. ASSUME NEW n \in 0 .. TimerMax
      PROVE  /\ IsCode(timer_Init_IntClock(n), R, I) /\ IsCode(timer_Init_ExtClock(n), R, I)
             /\ IsCode(timer_Init_ExtEnable(n), R, I)
  BY <1>2, <1>6 DEF timer_Init_IntClock, timer_Init_ExtClock, timer_Init_ExtEnable
<1> QED BY <1>3, <1>4, <1>5, <1>7

LEMMA GpioForms ==
  ASSUME NEW R, NEW I
  PROVE  /\ "DATAOUT" \in R => \A P \in SUBSET Pins : IsCode(DataOut(P), R, I)
         /\ "OUTENABLESET" \in R => \A P \in SUBSET Pins : IsCode(gpio_SetOutEnable(P), R, I)
         /\ \A n \in Pins :
              /\ "INTCLEAR" \in R => IsCode(gpio_IntClear(n), R, I)
              /\ "INTENSET" \in R => IsCode(gpio_SetIntEnable(n), R, I)
              /\ "INTENCLR" \in R => IsCode(gpio_ClrIntEnable(n), R, I)
              /\ {"INTTYPESET", "INTTYPECLR", "INTPOLSET", "INTPOLCLR"} \subseteq R =>
                   /\ IsCode(gpio_SetIntHighLevel(n), R, I) /\ IsCode(gpio_SetIntRisingEdge(n), R, I)
                   /\ IsCode(gpio_SetIntLowLevel(n), R, I) /\ IsCode(gpio_SetIntFallingEdge(n), R, I)
<1> USE DEF UartSettings
<1>1. ASSUME NEW P \in SUBSET Pins
      PROVE  /\ "DATAOUT" \in R => IsCode(DataOut(P), R, I)
             /\ "OUTENABLESET" \in R => IsCode(gpio_SetOutEnable(P), R, I)
  BY GpioCode, StatementForms DEF DataOut, gpio_SetOutEnable
<1>2. ASSUME NEW n \in Pins
      PROVE  /\ "INTCLEAR" \in R => IsCode(gpio_IntClear(n), R, I)
             /\ "INTENSET" \in R => IsCode(gpio_SetIntEnable(n), R, I)
             /\ "INTENCLR" \in R => IsCode(gpio_ClrIntEnable(n), R, I)
  BY GpioCode, StatementForms DEF gpio_IntClear, gpio_SetIntEnable, gpio_ClrIntEnable
<1>3. ASSUME NEW n \in Pins, {"INTTYPESET", "INTTYPECLR", "INTPOLSET", "INTPOLCLR"} \subseteq R
      PROVE  /\ IsCode(gpio_SetIntHighLevel(n), R, I) /\ IsCode(gpio_SetIntRisingEdge(n), R, I)
             /\ IsCode(gpio_SetIntLowLevel(n), R, I) /\ IsCode(gpio_SetIntFallingEdge(n), R, I)
  BY <1>3, GpioCode, StatementForms
     DEF gpio_SetIntHighLevel, gpio_SetIntRisingEdge, gpio_SetIntLowLevel, gpio_SetIntFallingEdge
<1> QED BY <1>1, <1>2, <1>3

-----------------------------------------------------------------------------
(* uart_driver_tests.c.                                                    *)

UartIrqs == {"UARTOVF", "UART2", "UART3"}

LEMMA SameUart ==
  /\ UartTests!Fail = Fail
  /\ \A op : UartTests!Do(op) = Do(op)
  /\ \A c, s : UartTests!If(c, s) = If(c, s)
  /\ \A c, a, b : UartTests!IfElse(c, a, b) = IfElse(c, a, b)
  /\ \A c, s : UartTests!While(c, s) = While(c, s)
  /\ \A s, c : UartTests!Repeat(s, c) = Repeat(s, c)
  /\ \A v, n : UartTests!Set(v, n) = Set(v, n)
  /\ \A v : UartTests!Inc(v) = Inc(v)
  /\ \A v, t : UartTests!Var(v, t) = Var(v, t)
  /\ \A n : UartTests!Puts(n) = Puts(n)
  /\ \A h : UartTests!Enable(h) = Enable(h) /\ UartTests!Disable(h) = Disable(h)
  /\ \A d, b : UartTests!Bus(d, b) = Bus(d, b)
  /\ \A d, t : UartTests!Cond(d, t) = Cond(d, t)
  /\ \A d, v : UartTests!Put(d, v) = Put(d, v)
  /\ \A d, e : UartTests!uart_init(d, e) = uart_init(d, e)
  /\ \A d, v : UartTests!uart_SendChar(d, v) = uart_SendChar(d, v)
  /\ \A d : /\ UartTests!uart_ReceiveChar(d) = uart_ReceiveChar(d)
            /\ UartTests!uart_ClearOverrunStatus(d) = uart_ClearOverrunStatus(d)
            /\ UartTests!uart_ClearTxIRQ(d) = uart_ClearTxIRQ(d)
            /\ UartTests!uart_ClearRxIRQ(d) = uart_ClearRxIRQ(d)
  /\ \A c : UartTests!WriteData(c) = WriteData(c)
  /\ UartTests!Enables = Enables
BY DEF UartTests!Fail, Fail, UartTests!Do, Do, UartTests!If, If, UartTests!IfElse, IfElse,
  UartTests!While, While, UartTests!Repeat, Repeat, UartTests!Unless, Unless, UartTests!Goto, Goto,
  UartTests!Set, Set, UartTests!Inc, Inc, UartTests!Var, Var, UartTests!Puts, Puts,
  UartTests!Enable, Enable, UartTests!Disable, Disable, UartTests!Bus, Bus,
  UartTests!Cond, Cond, UartTests!Put, Put, UartTests!uart_init, uart_init,
  UartTests!uart_SendChar, uart_SendChar, UartTests!uart_ReceiveChar, uart_ReceiveChar,
  UartTests!uart_ClearOverrunStatus, uart_ClearOverrunStatus,
  UartTests!uart_ClearTxIRQ, uart_ClearTxIRQ, UartTests!uart_ClearRxIRQ, uart_ClearRxIRQ,
  UartTests!WriteData, WriteData, UartTests!ReadData, ReadData, UartTests!WriteState, WriteState,
  UartTests!WriteIntClear, WriteIntClear, UartTests!WriteCtrl, WriteCtrl,
  UartTests!WriteBaudDiv, WriteBaudDiv, UartTests!Enables, Enables, UartTests!Ends, Ends

\* What the text of uart_driver_tests.c is made of.
LEMMA UartPieces ==
  ASSUME NEW R
  PROVE  LET Is(s) == IsCode(s, R, UartIrqs) IN
         /\ Is(UartTests!SendNext) /\ Is(UartTests!SendLetter) /\ Is(UartTests!CheckString)
         /\ UartSettings \subseteq R => Is(UartTests!Uart_Init)
         /\ Is(UartTests!SendIfBothFree)
<1> DEFINE I == UartIrqs
           Is(s) == IsCode(s, R, I)
<1>1. {"i", "k"} \subseteq Names BY DEF Names, Software0
<1>2. Is(UartTests!SendNext)
  BY <1>1, SameUart, InstrForms, StatementForms DEF UartTests!SendNext, UartIrqs
<1>3. Is(UartTests!SendLetter)
  BY ProgramAssumption, SameUart, InstrForms DEF UartTests!SendLetter, UartIrqs
<1>4. Is(UartTests!CheckString)
  BY SameUart, InstrForms, StatementForms, CondForms DEF UartTests!CheckString, Tests
<1>5. UartSettings \subseteq R => Is(UartTests!Uart_Init)
  BY SameUart, InstrForms, UartForms, StatementForms, CondForms
     DEF UartTests!Uart_Init, Uarts, UartIrqs, Tests
<1>6. Is(UartTests!SendIfBothFree)
  BY <1>1, <1>2, SameUart, StatementForms, CondForms DEF UartTests!SendIfBothFree, Uarts, Tests
<1> QED BY <1>2, <1>3, <1>4, <1>5, <1>6

\* The second half of the overrun test up to its last print, which lets the line
\* run dry, and the loop of the overflow interrupt test.
Stage3Rest ==
  UartTests!Puts(33)
  \o UartTests!uart_ClearTxIRQ("UART2") \o UartTests!Puts(17)
  \o UartTests!If(UartTests!Cond("UART2", "TXIRQ"), UartTests!Fail)
  \o UartTests!uart_ClearRxIRQ("UART3") \o UartTests!Puts(17)
  \o UartTests!If(UartTests!Cond("UART3", "RXIRQ"), UartTests!Fail)
  \o UartTests!Set("i", 1) \o UartTests!uart_SendChar("UART2", "i")
  \o UartTests!While(UartTests!Cond("UART2", "no TXIRQ"), <<>>) \o UartTests!Puts(17)
  \o UartTests!IfElse(UartTests!Cond("UART2", "no TXIRQ"), UartTests!Fail, UartTests!uart_ClearTxIRQ("UART2"))
  \o UartTests!While(UartTests!Cond("UART3", "no RXIRQ"), <<>>) \o UartTests!Puts(17)
  \o UartTests!IfElse(UartTests!Cond("UART3", "no RXIRQ"), UartTests!Fail, UartTests!uart_ClearRxIRQ("UART3"))
Stage4Loop ==
  UartTests!While(UartTests!Var("txorirq_counter", "at most 3"),
    UartTests!If(UartTests!Var("txorirq_executed", "set"),
      UartTests!Puts(20) \o UartTests!Set("txorirq_executed", 0))
    \o UartTests!SendLetter
    \o UartTests!If(UartTests!Var("rxorirq_executed", "set"),
         UartTests!Puts(20) \o UartTests!Set("rxorirq_executed", 0)))

LEMMA UartStages ==
  ASSUME NEW R
  PROVE  LET Is(s) == IsCode(s, R, UartIrqs) IN
         /\ Is(UartTests!Uart_Buffull) /\ Is(UartTests!Stage3a) /\ Is(Stage3Rest)
         /\ Is(Stage4Loop) /\ Is(UartTests!Stage4bLoop) /\ Is(UartTests!DisableAll)
         /\ Is(UartTests!Uart_OR)
         /\ UartSettings \subseteq R => Is(UartTests!Uart_IRQ)
<1> DEFINE I == UartIrqs
           Is(s) == IsCode(s, R, I)
           vs == {"i", "k", "RX", "TX", "data_received", "data_sent", "txorirq_executed",
                  "rxorirq_executed", "txorirq_counter", "rxorirq_counter"}
<1>1. vs \subseteq Names BY DEF Names, Software0
<1>2. /\ Is(UartTests!SendNext) /\ Is(UartTests!SendLetter) /\ Is(UartTests!CheckString)
      /\ Is(UartTests!SendIfBothFree)
  BY UartPieces
<1>3. /\ \A a, b : Is(a) /\ Is(b) => Is(a \o b)
      /\ \A c \in Conditions : \A s : Is(s) => Is(UartTests!While(c, s))
      /\ \A c \in Conditions : \A s : Is(s) => Is(UartTests!If(c, s))
      /\ \A c \in Conditions : \A s : Is(s) => Is(UartTests!Repeat(s, c))
      /\ \A c \in Conditions : \A a, b : Is(a) /\ Is(b) => Is(UartTests!IfElse(c, a, b))
      /\ Is(<<>>) /\ Is(UartTests!Fail)
      /\ Is(UartTests!Do("store")) /\ Is(UartTests!Do("forget received"))
  BY SameUart, StatementForms, InstrForms DEF Plain
<1>4. /\ \A v \in vs :
           /\ Is(UartTests!Set(v, 0)) /\ Is(UartTests!Set(v, 1)) /\ Is(UartTests!Inc(v))
           /\ Is(UartTests!uart_SendChar("UART2", v))
      /\ \A n \in Nat : Is(UartTests!Puts(n))
      /\ \A h \in UartIrqs : Is(UartTests!Enable(h)) /\ Is(UartTests!Disable(h))
      /\ \A d \in Uarts :
           /\ UartSettings \subseteq R => \A e \in SUBSET Enables : Is(UartTests!uart_init(d, e))
           /\ Is(UartTests!uart_ReceiveChar(d)) /\ Is(UartTests!uart_ClearOverrunStatus(d))
           /\ Is(UartTests!uart_ClearTxIRQ(d)) /\ Is(UartTests!uart_ClearRxIRQ(d))
  BY <1>1, SameUart, InstrForms, UartForms DEF Uarts, UartIrqs
<1>5. \A d \in Uarts : \A t \in {"TXBF", "no TXBF", "RXBF", "no RXBF", "TXIRQ", "no TXIRQ", "RXIRQ", "no RXIRQ"} :
        UartTests!Cond(d, t) \in Conditions
  BY SameUart, CondForms DEF Tests
<1>6. /\ UartTests!Var("k", "left") \in Conditions /\ UartTests!Var("k", "left but the end") \in Conditions
      /\ \A v \in {"txorirq_executed", "rxorirq_executed", "data_received", "data_sent"} :
           UartTests!Var(v, "set") \in Conditions
      /\ UartTests!Var("i", "below 4") \in Conditions /\ UartTests!Var("i", "above 10") \in Conditions
      /\ UartTests!Var("txorirq_counter", "at most 3") \in Conditions
      /\ UartTests!Var("rxorirq_counter", "below 3") \in Conditions
  BY <1>1, SameUart, CondForms DEF Tests
<1> USE <1>2, <1>3, <1>4, <1>5, <1>6 DEF Uarts
<1>7. Is(UartTests!Uart_Buffull)
  <2>1. Is(UartTests!While(UartTests!Cond("UART2", "no TXBF"), UartTests!SendNext)) OBVIOUS
  <2>2. Is(UartTests!IfElse(UartTests!Cond("UART2", "TXBF"), UartTests!Puts(42), UartTests!Fail))
    OBVIOUS
  <2>3. Is(UartTests!IfElse(UartTests!Cond("UART3", "RXBF"), UartTests!uart_ReceiveChar("UART3"), UartTests!Fail))
    OBVIOUS
  <2>4. Is(UartTests!If(UartTests!Cond("UART3", "RXBF"),
               UartTests!uart_ReceiveChar("UART3") \o UartTests!Do("store") \o UartTests!Puts(38) \o UartTests!Inc("k"))
             \o UartTests!SendIfBothFree)
    OBVIOUS
  <2>5. Is(UartTests!Puts(47) \o UartTests!Set("i", 0) \o UartTests!Set("k", 0)
             \o UartTests!While(UartTests!Cond("UART2", "no TXBF"), UartTests!SendNext))
    OBVIOUS
  <2> QED BY <2>1, <2>2, <2>3, <2>4, <2>5 DEF UartTests!Uart_Buffull
<1>8. Is(UartTests!Stage3a)
  <2>1. /\ \A d \in Uarts : UartTests!TxOverrun(d) \in Conditions /\ UartTests!RxOverrun(d) \in Conditions
        /\ UartTests!Var("RX & TX", "set") \in Conditions
    BY SameUart, CondForms DEF UartTests!TxOverrun, UartTests!RxOverrun, Tests
  <2>2. Is(UartTests!If(UartTests!Var("i", "below 4"), UartTests!SendLetter)
           \o UartTests!If(UartTests!Var("i", "above 10"),
                UartTests!Repeat(UartTests!SendLetter, UartTests!TxOverrun("UART2"))))
    BY <2>1
  <2>3. Is(UartTests!IfElse(UartTests!TxOverrun("UART2"),
             UartTests!Puts(27) \o UartTests!uart_ClearOverrunStatus("UART2") \o UartTests!Set("TX", 1),
             UartTests!If(UartTests!RxOverrun("UART3"),
               UartTests!Puts(27) \o UartTests!uart_ClearOverrunStatus("UART3") \o UartTests!Set("RX", 1))))
    BY <2>1
  <2> QED BY <2>1, <2>2, <2>3 DEF UartTests!Stage3a
<1>9. Is(Stage3Rest)
  <2>1. Is(UartTests!IfElse(UartTests!Cond("UART2", "no TXIRQ"), UartTests!Fail, UartTests!uart_ClearTxIRQ("UART2")))
    OBVIOUS
  <2>2. Is(UartTests!IfElse(UartTests!Cond("UART3", "no RXIRQ"), UartTests!Fail, UartTests!uart_ClearRxIRQ("UART3")))
    OBVIOUS
  <2>3. Is(UartTests!While(UartTests!Cond("UART2", "no TXIRQ"), <<>>)) OBVIOUS
  <2>4. Is(UartTests!While(UartTests!Cond("UART3", "no RXIRQ"), <<>>)) OBVIOUS
  <2>5. Is(UartTests!Puts(33)
             \o UartTests!uart_ClearTxIRQ("UART2") \o UartTests!Puts(17) \o UartTests!If(UartTests!Cond("UART2", "TXIRQ"), UartTests!Fail))
    OBVIOUS
  <2>6. Is(UartTests!Puts(33)
             \o UartTests!uart_ClearTxIRQ("UART2") \o UartTests!Puts(17) \o UartTests!If(UartTests!Cond("UART2", "TXIRQ"), UartTests!Fail)
             \o UartTests!uart_ClearRxIRQ("UART3") \o UartTests!Puts(17) \o UartTests!If(UartTests!Cond("UART3", "RXIRQ"), UartTests!Fail)
             \o UartTests!Set("i", 1) \o UartTests!uart_SendChar("UART2", "i"))
    OBVIOUS
  <2> QED BY <2>1, <2>2, <2>3, <2>4, <2>5, <2>6 DEF Stage3Rest
<1>9a. Is(UartTests!Stage3b) BY <1>9 DEF UartTests!Stage3b, Stage3Rest
<1>10. Is(Stage4Loop) /\ (UartSettings \subseteq R => Is(UartTests!Stage4a))
  <2>1. UartSettings \subseteq R =>
          /\ Is(UartTests!uart_init("UART2", UartTests!Enables \ {"txirq"}))
          /\ Is(UartTests!uart_init("UART3", UartTests!Enables \ {"rxirq"}))
    BY SameUart DEF Enables
  <2>2. Is(UartTests!If(UartTests!Var("txorirq_executed", "set"), UartTests!Puts(20) \o UartTests!Set("txorirq_executed", 0)))
    OBVIOUS
  <2>3. Is(UartTests!If(UartTests!Var("rxorirq_executed", "set"), UartTests!Puts(20) \o UartTests!Set("rxorirq_executed", 0)))
    OBVIOUS
  <2>4. Is(UartTests!IfElse(UartTests!Var("rxorirq_counter", "below 3"), UartTests!Fail, UartTests!Puts(23)))
    OBVIOUS
  <2>5. Is(Stage4Loop) BY <2>2, <2>3 DEF Stage4Loop
  <2>6. Is(UartTests!Enable("UARTOVF")) BY DEF UartIrqs
  <2> QED BY <2>1, <2>4, <2>5, <2>6 DEF UartTests!Stage4a, Stage4Loop
<1>11. Is(UartTests!Stage4bLoop)
  <2>1. Is(UartTests!If(UartTests!Var("data_received", "set"),
             UartTests!Puts(26) \o UartTests!uart_SendChar("UART2", "i") \o UartTests!Inc("i") \o UartTests!Set("data_received", 0)))
    OBVIOUS
  <2>2. Is(UartTests!If(UartTests!Var("data_sent", "set"),
             UartTests!Puts(34) \o UartTests!uart_ReceiveChar("UART3") \o UartTests!Do("store")
             \o UartTests!Puts(2) \o UartTests!Inc("k") \o UartTests!Set("data_sent", 0)))
    OBVIOUS
  <2> QED BY <2>1, <2>2 DEF UartTests!Stage4bLoop
<1>12. Is(UartTests!DisableAll) /\ (UartSettings \subseteq R => Is(UartTests!Stage4bSetUp))
  BY SameUart, InstrForms, UartForms, StatementForms
     DEF UartTests!Stage4bSetUp, UartTests!DisableAll, UartIrqs, Enables
<1>13. UartSettings \subseteq R => Is(UartTests!Stage4b) BY <1>11, <1>12 DEF UartTests!Stage4b
<1> QED BY <1>7, <1>8, <1>9, <1>9a, <1>10, <1>11, <1>12, <1>13, StatementForms
        DEF UartTests!Uart_OR, UartTests!Uart_IRQ

\* The handlers of the test neither print nor send nor configure.
LinkOps == [op : {"bus"}, dev : Uarts, access : UartAccesses({})]
           \cup [op : {"set"}, var : Names, to : {0, 1}] \cup [op : {"inc"}, var : Names]
           \cup [op : {"return"}]

LEMMA UartHandlers ==
  /\ DOMAIN UartTests!Handlers = UartIrqs
  /\ \A h \in UartIrqs : EndsIn(UartTests!Handlers[h], LinkOps, Conditions, [op |-> "return"])
<1> DEFINE J == LinkOps
           Is(s) == Code(s, J, Conditions)
<1>1. [op |-> "return"] \in J BY DEF LinkOps
<1>2. {"txorirq_executed", "rxorirq_executed", "txorirq_counter", "rxorirq_counter",
       "data_sent", "data_received"} \subseteq Names
  BY DEF Names, Software0
<1>3. /\ \A v \in Names : Is(UartTests!Set(v, 1)) /\ Is(UartTests!Inc(v))
      /\ \A d \in Uarts : \A b \in UartAccesses({}) : Is(Bus(d, b))
  <2>1. \A i \in J : i.op \notin JumpOps BY DEF LinkOps, JumpOps
  <2>2. \A i \in J : Is(<<i>>)
    <3> HIDE DEF J
    <3> QED BY <2>1, OneCode
  <2>3. /\ \A v \in Names : [op |-> "set", var |-> v, to |-> 1] \in J /\ [op |-> "inc", var |-> v] \in J
        /\ \A d \in Uarts : \A b \in UartAccesses({}) : [op |-> "bus", dev |-> d, access |-> b] \in J
    BY DEF LinkOps
  <2> HIDE DEF J, Is
  <2> QED BY <2>2, <2>3, SameUart DEF Set, Inc, Bus
<1>4. \A d \in Uarts : /\ Is(UartTests!uart_ClearOverrunStatus(d))
                       /\ Is(UartTests!uart_ClearTxIRQ(d)) /\ Is(UartTests!uart_ClearRxIRQ(d))
  <2>1. {"tx"} \in SUBSET Ends /\ {"rx"} \in SUBSET Ends /\ {} \in SUBSET Ends /\ Ends \in SUBSET Ends
    BY DEF Ends
  <2>2. WriteIntClear({"tx"}, {}) \in Accesses /\ WriteIntClear({"rx"}, {}) \in Accesses
        /\ WriteState(Ends) \in Accesses
    BY <2>1 DEF Accesses
  <2>3. WriteIntClear({"tx"}, {}) \in UartAccesses({}) /\ WriteIntClear({"rx"}, {}) \in UartAccesses({})
        /\ WriteState(Ends) \in UartAccesses({})
    BY <2>2 DEF UartAccesses, UartSettings, WriteIntClear, WriteState
  <2> HIDE DEF Is
  <2> QED BY <1>3, <2>3, SameUart DEF uart_ClearOverrunStatus, uart_ClearTxIRQ, uart_ClearRxIRQ
<1>5. /\ \A a, b : Is(a) /\ Is(b) => Is(a \o b)
      /\ \A c \in Conditions : \A s : Is(s) => Is(UartTests!If(c, s))
  BY ConcatCode, IfCode, SameUart
<1>6. \A d \in Uarts, t \in Tests : UartTests!Cond(d, t) \in Conditions BY SameUart, CondForms
<1>7. EndsIn(UartTests!UARTOVF_Handler, J, Conditions, [op |-> "return"])
  <2> DEFINE c ==
        UartTests!If(UartTests!TxOverrun("UART2"),
          UartTests!Set("txorirq_executed", 1) \o UartTests!Inc("txorirq_counter")
            \o UartTests!uart_ClearOverrunStatus("UART2"))
        \o UartTests!If(UartTests!RxOverrun("UART3"),
          UartTests!Set("rxorirq_executed", 1) \o UartTests!Inc("rxorirq_counter")
            \o UartTests!uart_ClearOverrunStatus("UART3"))
  <2>1. UartTests!UARTOVF_Handler = c \o <<[op |-> "return"]>>
    BY DEF UartTests!UARTOVF_Handler, UartTests!Do
  <2>2. Is(c)
    <3> HIDE DEF Is
    <3> QED BY <1>2, <1>3, <1>4, <1>5, <1>6 DEF UartTests!TxOverrun, UartTests!RxOverrun, Uarts, Tests
  <2> HIDE DEF c, J
  <2> QED BY <1>1, <2>1, <2>2, EndedCode
<1>8. ASSUME NEW i \in Uarts
      PROVE  EndsIn(UartTests!UART_Handler(i), J, Conditions, [op |-> "return"])
  <2> DEFINE c ==
        UartTests!If(UartTests!Cond(i, "TXIRQ"), UartTests!Set("data_sent", 1) \o UartTests!uart_ClearTxIRQ(i))
        \o UartTests!If(UartTests!Cond(i, "RXIRQ"), UartTests!Set("data_received", 1) \o UartTests!uart_ClearRxIRQ(i))
  <2>1. UartTests!UART_Handler(i) = c \o <<[op |-> "return"]>>
    BY DEF UartTests!UART_Handler, UartTests!Do
  <2>2. Is(c)
    <3> HIDE DEF Is
    <3> QED BY <1>2, <1>3, <1>4, <1>5, <1>6 DEF Tests
  <2> HIDE DEF c, J
  <2> QED BY <1>1, <2>1, <2>2, EndedCode
<1>9. /\ DOMAIN UartTests!Handlers = UartIrqs
      /\ UartTests!Handlers["UARTOVF"] = UartTests!UARTOVF_Handler
      /\ \A i \in Uarts : UartTests!Handlers[i] = UartTests!UART_Handler(i)
  BY DEF UartTests!Handlers, UartIrqs, Uarts
<1> QED BY <1>7, <1>8, <1>9 DEF UartIrqs, Uarts

LEMMA UartTexts ==
  ASSUME NEW R
  PROVE  /\ UartSettings \subseteq R =>
              EndsIn(UartTests!Main, Actions(R, UartIrqs), Conditions, [op |-> "passed"])
         /\ DOMAIN UartTests!Handlers = UartIrqs
         /\ \A h \in UartIrqs :
              EndsIn(UartTests!Handlers[h], Actions(R, UartIrqs), Conditions, [op |-> "return"])
<1> DEFINE J == Actions(R, UartIrqs)
           b == UartTests!Uart_Init \o UartTests!Uart_Buffull \o UartTests!Uart_OR \o UartTests!Uart_IRQ
<1>1. ASSUME UartSettings \subseteq R
      PROVE  EndsIn(UartTests!Main, J, Conditions, [op |-> "passed"])
  <2>1. UartTests!Main = b \o <<[op |-> "passed"]>> BY DEF UartTests!Main, UartTests!Do
  <2>2. [op |-> "passed"] \in J BY DEF Actions, Plain
  <2>3. IsCode(b, R, UartIrqs) BY <1>1, UartPieces, UartStages, StatementForms
  <2> HIDE DEF b, J
  <2> QED BY <2>1, <2>2, <2>3, EndedCode DEF IsCode, J
<1>2. LinkOps \subseteq J BY DEF LinkOps, Actions, UartAccesses, Uarts, UartIrqs, Plain
<1> QED BY <1>1, <1>2, UartHandlers, MoreEndsIn

-----------------------------------------------------------------------------
(* timer_driver_tests.c.                                                   *)

LEMMA SameTimer ==
  /\ TimerTests!Fail = Fail /\ TimerTests!Call = Call
  /\ \A op : TimerTests!Do(op) = Do(op)
  /\ \A c, s : TimerTests!If(c, s) = If(c, s)
  /\ \A c, a, b : TimerTests!IfElse(c, a, b) = IfElse(c, a, b)
  /\ \A c, s : TimerTests!While(c, s) = While(c, s)
  /\ \A s, c : TimerTests!Repeat(s, c) = Repeat(s, c)
  /\ \A v, n : TimerTests!Set(v, n) = Set(v, n)
  /\ \A v : TimerTests!Inc(v) = Inc(v)
  /\ \A v, t : TimerTests!Var(v, t) = Var(v, t)
  /\ \A n : TimerTests!Puts(n) = Puts(n)
  /\ \A h : /\ TimerTests!Enable(h) = Enable(h) /\ TimerTests!Disable(h) = Disable(h)
            /\ TimerTests!ClearPending(h) = ClearPending(h)
  /\ \A d, t : TimerTests!Cond(d, t) = Cond(d, t)
  /\ \A d, t, n : TimerTests!Cond2(d, t, n) = Cond2(d, t, n)
  /\ TimerTests!timer_EnableIRQ = timer_EnableIRQ /\ TimerTests!timer_DisableIRQ = timer_DisableIRQ
  /\ TimerTests!timer_StartTimer = timer_StartTimer /\ TimerTests!timer_StopTimer = timer_StopTimer
  /\ TimerTests!timer_ClearIRQ = timer_ClearIRQ
  /\ \A n : /\ TimerTests!timer_SetValue(n) = timer_SetValue(n)
            /\ TimerTests!timer_SetReload(n) = timer_SetReload(n)
            /\ TimerTests!timer_Init_IntClock(n) = timer_Init_IntClock(n)
            /\ TimerTests!timer_Init_ExtClock(n) = timer_Init_ExtClock(n)
            /\ TimerTests!timer_Init_ExtEnable(n) = timer_Init_ExtEnable(n)
  /\ \A P : /\ TimerTests!DataOut(P) = DataOut(P)
            /\ TimerTests!gpio_SetOutEnable(P) = gpio_SetOutEnable(P)
BY DEF TimerTests!Fail, Fail, TimerTests!Call, Call, TimerTests!Do, Do, TimerTests!If, If, TimerTests!IfElse, IfElse,
  TimerTests!While, While, TimerTests!Repeat, Repeat, TimerTests!Unless, Unless, TimerTests!Goto, Goto,
  TimerTests!Set, Set, TimerTests!Inc, Inc, TimerTests!Var, Var, TimerTests!Puts, Puts,
  TimerTests!Enable, Enable, TimerTests!Disable, Disable, TimerTests!ClearPending, ClearPending,
  TimerTests!Bus, Bus, TimerTests!Cond, Cond, TimerTests!Cond2, Cond2, TimerTests!Modify, Modify,
  TimerTests!timer_EnableIRQ, timer_EnableIRQ, TimerTests!timer_DisableIRQ, timer_DisableIRQ,
  TimerTests!timer_StartTimer, timer_StartTimer, TimerTests!timer_StopTimer, timer_StopTimer,
  TimerTests!timer_ClearIRQ, timer_ClearIRQ, TimerTests!timer_SetValue, timer_SetValue,
  TimerTests!timer_SetReload, timer_SetReload, TimerTests!timer_Init, timer_Init,
  TimerTests!timer_Init_IntClock, timer_Init_IntClock, TimerTests!timer_Init_ExtClock, timer_Init_ExtClock,
  TimerTests!timer_Init_ExtEnable, timer_Init_ExtEnable,
  TimerTests!TimerCtrl, TimerCtrl, TimerTests!TimerValue, TimerValue, TimerTests!TimerReload, TimerReload,
  TimerTests!TimerIntClear, TimerIntClear,
  TimerTests!Gpio0, Gpio0, TimerTests!GpioWrite, GpioWrite, TimerTests!DataOut, DataOut,
  TimerTests!gpio_SetOutEnable, gpio_SetOutEnable

TimerNames == {"counter", "timer_irq_counter", "timer_irq_executed", "enabled"}
DemoVars == {"timer_stopped", "irq_triggered", "err_code", "tx_count", "rx_count",
             "transmission_complete"}

LEMMA UsedNames == TimerNames \subseteq Names /\ DemoVars \subseteq Names
BY DEF TimerNames, DemoVars, Names, Software0

LEMMA Periods ==
  /\ Scaled["0x100"] \in 0 .. TimerMax /\ Scaled["0x12C"] \in 0 .. TimerMax
  /\ Scaled["0xF00"] \in 0 .. TimerMax /\ Scaled["0x1f00"] \in 0 .. TimerMax
  /\ TimerTests!ReloadDoubled \in 0 .. TimerMax
BY ProgramAssumption, TimerAssumption DEF TimerTests!ReloadDoubled

LEMMA TimerStages ==
  ASSUME NEW R, {"DATAOUT", "OUTENABLESET"} \subseteq R
  PROVE  LET Is(s) == IsCode(s, R, {"TIMER0"}) IN
         /\ Is(TimerTests!Timer_Init) /\ Is(TimerTests!Timer_IRQ) /\ Is(TimerTests!Timer_Poll)
         /\ Is(TimerTests!ExtClock) /\ Is(TimerTests!ExtEnable)
<1> DEFINE Is(s) == IsCode(s, R, {"TIMER0"})
<1>1. /\ Is(<<>>)
      /\ \A a, b : Is(a) /\ Is(b) => Is(a \o b)
      /\ \A c \in Conditions : \A s : Is(s) => Is(TimerTests!While(c, s))
      /\ \A c \in Conditions : \A s : Is(s) => Is(TimerTests!If(c, s))
      /\ \A c \in Conditions : \A s : Is(s) => Is(TimerTests!Repeat(s, c))
      /\ \A c \in Conditions : \A a, b : Is(a) /\ Is(b) => Is(TimerTests!IfElse(c, a, b))
  BY SameTimer, StatementForms
<1>2. /\ Is(TimerTests!Call) /\ Is(TimerTests!Prints)
      /\ Is(TimerTests!Do("save CTRL")) /\ Is(TimerTests!Do("restore CTRL"))
      /\ Is(TimerTests!Do("count")) /\ Is(TimerTests!Do("sample VALUE"))
      /\ Is(TimerTests!Enable("TIMER0")) /\ Is(TimerTests!Disable("TIMER0"))
      /\ Is(TimerTests!ClearPending("TIMER0"))
      /\ Is(TimerTests!timer_EnableIRQ) /\ Is(TimerTests!timer_DisableIRQ)
      /\ Is(TimerTests!timer_StartTimer) /\ Is(TimerTests!timer_StopTimer)
      /\ Is(TimerTests!timer_ClearIRQ)
      /\ Is(TimerTests!DataOut({})) /\ Is(TimerTests!DataOut({1}))
      /\ Is(TimerTests!gpio_SetOutEnable({1})) /\ Is(TimerTests!Fail)
  BY ProgramAssumption, SameTimer, StatementForms, InstrForms, TimerForms, GpioForms DEF TimerTests!Prints, Plain
<1>2a. \A c \in Conditions : Is(TimerTests!Check(c)) BY <1>1, <1>2 DEF TimerTests!Check
<1>3. /\ \A v \in TimerNames : /\ Is(TimerTests!Set(v, 0)) /\ Is(TimerTests!Set(v, 1))
                               /\ Is(TimerTests!Inc(v))
      /\ \A n \in 0 .. TimerMax :
           /\ Is(TimerTests!timer_SetValue(n)) /\ Is(TimerTests!timer_SetReload(n))
           /\ Is(TimerTests!timer_Init_IntClock(n)) /\ Is(TimerTests!timer_Init_ExtClock(n))
           /\ Is(TimerTests!timer_Init_ExtEnable(n))
  BY UsedNames, SameTimer, InstrForms, TimerForms
<1>4. /\ \A t \in {"EN", "no SELEXTEN", "no SELEXTCLK", "IRQEN"} : TimerTests!Saved(t) \in Conditions
      /\ \A t \in {"IRQEN", "no EN", "no INT", "VALUE same", "VALUE changed"} : TimerTests!Timer0(t) \in Conditions
      /\ \A t \in {"RELOAD", "VALUE"}, n \in 0 .. TimerMax : TimerTests!Cond2("TIMER0", t, n) \in Conditions
  BY SameTimer, CondForms DEF TimerTests!Timer0, TimerTests!Saved, Tests
<1>5. /\ \A t \in {"below 3", "at least 3", "clear"} : TimerTests!Var("timer_irq_counter", t) \in Conditions
      /\ \A t \in {"5", "multiple of 10"} : TimerTests!Var("counter", t) \in Conditions
      /\ TimerTests!Var("timer_irq_executed", "set") \in Conditions
      /\ TimerTests!Var("enabled", "set") \in Conditions
  BY UsedNames, SameTimer, CondForms DEF TimerNames, Tests
<1>6. Is(TimerTests!Timer_Init) BY <1>1, <1>2a, <1>2, <1>3, <1>4, Periods DEF TimerTests!Timer_Init
<1>7. Is(TimerTests!Timer_IRQ)
  <2>0. 0 \in 0 .. TimerMax BY TimerAssumption
  <2>1. Is(TimerTests!AtLoop5) BY <1>1, <1>2a, <1>2, <1>3, <1>4, Periods DEF TimerTests!AtLoop5
  <2>2. Is(TimerTests!AtLoop10) BY <1>1, <1>2a, <1>2, <1>4 DEF TimerTests!AtLoop10
  <2>3. Is(TimerTests!Set("timer_irq_executed", 0)) /\ Is(TimerTests!Set("timer_irq_counter", 0))
        /\ Is(TimerTests!Set("counter", 0)) /\ Is(TimerTests!timer_SetValue(0))
        /\ Is(TimerTests!timer_SetReload(Scaled["0x1f00"]))
    BY <1>3, <2>0, Periods DEF TimerNames
  <2>4. Is(TimerTests!While(TimerTests!Var("timer_irq_counter", "below 3"),
       TimerTests!If(TimerTests!Var("timer_irq_executed", "set"),
            TimerTests!Prints \o TimerTests!timer_DisableIRQ \o TimerTests!Prints \o TimerTests!Set("timer_irq_executed", 0))
       \o TimerTests!Prints \o TimerTests!Do("count")
       \o TimerTests!If(TimerTests!Var("counter", "5"), TimerTests!AtLoop5)
       \o TimerTests!If(TimerTests!Var("counter", "multiple of 10"), TimerTests!AtLoop10)))
    BY <1>1, <1>2a, <1>2, <1>5, <2>1, <2>2, <2>3
  <2> QED BY <1>1, <1>2a, <1>2, <1>4, <2>3, <2>4 DEF TimerTests!Timer_IRQ
<1>8. Is(TimerTests!Timer_Poll)
  <2>1. /\ Is(TimerTests!timer_SetReload(Scaled["0xF00"])) /\ Is(TimerTests!Set("timer_irq_counter", 0))
        /\ Is(TimerTests!Inc("timer_irq_counter"))
        /\ Is(TimerTests!Check(TimerTests!Cond2("TIMER0", "RELOAD", Scaled["0xF00"])))
    BY <1>1, <1>2a, <1>3, <1>4, Periods DEF TimerNames
  <2>2. Is(TimerTests!Repeat(TimerTests!Prints \o TimerTests!While(TimerTests!Timer0("no INT"), <<>>) \o TimerTests!Prints
              \o TimerTests!timer_ClearIRQ \o TimerTests!Inc("timer_irq_counter"),
            TimerTests!Var("timer_irq_counter", "at least 3")))
    BY <1>1, <1>2a, <1>2, <1>4, <1>5, <2>1
  <2> QED BY <1>1, <1>2a, <1>2, <1>4, <2>1, <2>2 DEF TimerTests!Timer_Poll
<1>9. Is(TimerTests!ExtClock)
  BY Periods, <1>3, <1>1, <1>2a, <1>2, <1>5 DEF TimerTests!ExtClock, TimerNames
<1>10. Is(TimerTests!ExtEnable)
  <2>1. /\ Is(TimerTests!Set("timer_irq_counter", 0)) /\ Is(TimerTests!Set("timer_irq_executed", 0))
        /\ Is(TimerTests!Set("enabled", 0)) /\ Is(TimerTests!Set("enabled", 1))
        /\ Is(TimerTests!timer_Init_ExtEnable(Scaled["0xF00"]))
    BY <1>3, Periods DEF TimerNames
  <2>2. Is(TimerTests!IfElse(TimerTests!Var("enabled", "set"),
             TimerTests!DataOut({}) \o TimerTests!Set("enabled", 0),
             TimerTests!DataOut({1}) \o TimerTests!Set("enabled", 1)))
    BY <1>1, <1>2a, <1>2, <1>5, <2>1
  <2>3. Is(TimerTests!IfElse(TimerTests!Var("enabled", "set"),
             TimerTests!Check(TimerTests!Timer0("VALUE changed")), TimerTests!Check(TimerTests!Timer0("VALUE same"))))
    BY <1>1, <1>2a, <1>4, <1>5
  <2> QED BY <1>1, <1>2a, <1>2, <1>5, <2>1, <2>2, <2>3 DEF TimerTests!ExtEnable
<1> QED BY <1>6, <1>7, <1>8, <1>9, <1>10

LEMMA TimerTexts ==
  ASSUME NEW R, {"DATAOUT", "OUTENABLESET"} \subseteq R
  PROVE  /\ EndsIn(TimerTests!Main, Actions(R, {"TIMER0"}), Conditions, [op |-> "passed"])
         /\ DOMAIN TimerTests!Handlers = {"TIMER0"}
         /\ EndsIn(TimerTests!Handlers["TIMER0"], Actions(R, {"TIMER0"}), Conditions, [op |-> "return"])
<1> DEFINE J == Actions(R, {"TIMER0"})
           Is(s) == IsCode(s, R, {"TIMER0"})
           b == TimerTests!Timer_Init \o TimerTests!Timer_IRQ \o TimerTests!Timer_Poll
                \o TimerTests!ExtClock \o TimerTests!ExtEnable
           h == TimerTests!TIMER0_Handler
<1>1. [op |-> "passed"] \in J /\ [op |-> "return"] \in J BY DEF Actions, Plain
<1>2. Is(b) BY TimerStages, StatementForms
<1>3. EndsIn(TimerTests!Main, J, Conditions, [op |-> "passed"])
  <2>1. TimerTests!Main = b \o <<[op |-> "passed"]>> BY DEF TimerTests!Main, TimerTests!Do
  <2> HIDE DEF b, J
  <2> QED BY <1>1, <1>2, <2>1, EndedCode DEF IsCode, J
<1>4. Is(h)
  BY UsedNames, SameTimer, StatementForms, InstrForms, CondForms, TimerForms
     DEF TimerTests!TIMER0_Handler, TimerNames, Tests
<1>5. /\ DOMAIN TimerTests!Handlers = {"TIMER0"}
      /\ TimerTests!Handlers["TIMER0"] = h \o <<[op |-> "return"]>>
  BY DEF TimerTests!Handlers, TimerTests!Do
<1>6. EndsIn(h \o <<[op |-> "return"]>>, J, Conditions, [op |-> "return"])
  <2> HIDE DEF h, J
  <2> QED BY <1>1, <1>4, EndedCode DEF IsCode, J
<1> QED BY <1>3, <1>5, <1>6

-----------------------------------------------------------------------------
(* interrupt_demo.c.                                                       *)

\* The registers of the port that programs write: those that handlers write too,
\* and in the demo those that set up the pins and those that switch them on and
\* then configure the UARTs.
Always     == {"DATAOUT", "OUTENABLESET", "INTCLEAR"}
Configures == Always \cup {"INTTYPESET", "INTTYPECLR", "INTPOLSET", "INTPOLCLR"}
AlwaysUart == Always \cup UartSettings
Switches   == AlwaysUart \cup {"INTENSET", "INTENCLR"}

\* The interrupts of the demo, and of its first two examples.
DemoIrqs  == {"TIMER0", "PORT0_7", "PORT0_8", "PORT0_9", "PORT0_10", "UART2", "UART3"}
EarlyIrqs == DemoIrqs \ Uarts

\* The example up to where the types of the pins are set.
SetUp ==
  Demo!Set("err_code", 0) \o Demo!Prints
  \o Demo!gpio_SetOutEnable(7 .. 10) \o Demo!DataOut(Demo!Pattern("A")) \o Demo!SetTypes
SetUpLen == Len(Demo!TimerExample) + Len(SetUp)

LEMMA SameDemo ==
  /\ Demo!Fail = Fail
  /\ \A op : Demo!Do(op) = Do(op)
  /\ \A c, s : Demo!If(c, s) = If(c, s)
  /\ \A c, a, b : Demo!IfElse(c, a, b) = IfElse(c, a, b)
  /\ \A c, s : Demo!While(c, s) = While(c, s)
  /\ \A v, n : Demo!Set(v, n) = Set(v, n)
  /\ \A v : Demo!Inc(v) = Inc(v)
  /\ \A v, t : Demo!Var(v, t) = Var(v, t)
  /\ \A n : Demo!Puts(n) = Puts(n)
  /\ \A h : Demo!Enable(h) = Enable(h) /\ Demo!Disable(h) = Disable(h) /\ Demo!ClearPending(h) = ClearPending(h)
  /\ \A d, b : Demo!Bus(d, b) = Bus(d, b)
  /\ \A d, t : Demo!Cond(d, t) = Cond(d, t)
  /\ \A c : Demo!WriteData(c) = WriteData(c)
  /\ \A d, e : Demo!uart_init(d, e) = uart_init(d, e)
  /\ \A d, v : Demo!uart_SendChar(d, v) = uart_SendChar(d, v)
  /\ \A d : /\ Demo!uart_ReceiveChar(d) = uart_ReceiveChar(d)
            /\ Demo!uart_ClearTxIRQ(d) = uart_ClearTxIRQ(d)
            /\ Demo!uart_ClearRxIRQ(d) = uart_ClearRxIRQ(d)
  /\ \A n : Demo!timer_Init_IntClock(n) = timer_Init_IntClock(n)
  /\ Demo!timer_StopTimer = timer_StopTimer /\ Demo!timer_ClearIRQ = timer_ClearIRQ
  /\ \A P : Demo!DataOut(P) = DataOut(P) /\ Demo!gpio_SetOutEnable(P) = gpio_SetOutEnable(P)
  /\ \A n : /\ Demo!gpio_IntClear(n) = gpio_IntClear(n)
            /\ Demo!gpio_SetIntEnable(n) = gpio_SetIntEnable(n)
            /\ Demo!gpio_ClrIntEnable(n) = gpio_ClrIntEnable(n)
            /\ Demo!gpio_SetIntHighLevel(n) = gpio_SetIntHighLevel(n)
            /\ Demo!gpio_SetIntLowLevel(n) = gpio_SetIntLowLevel(n)
            /\ Demo!gpio_SetIntRisingEdge(n) = gpio_SetIntRisingEdge(n)
            /\ Demo!gpio_SetIntFallingEdge(n) = gpio_SetIntFallingEdge(n)
BY DEF Demo!Fail, Fail, Demo!Do, Do, Demo!If, If, Demo!IfElse, IfElse, Demo!While, While,
  Demo!Unless, Unless, Demo!Goto, Goto, Demo!Set, Set, Demo!Inc, Inc, Demo!Var, Var,
  Demo!Puts, Puts, Demo!Enable, Enable, Demo!Disable, Disable, Demo!ClearPending, ClearPending,
  Demo!Bus, Bus, Demo!Cond, Cond, Demo!Put, Put, Demo!Call, Call, Demo!Modify, Modify,
  Demo!uart_init, uart_init, Demo!uart_SendChar, uart_SendChar,
  Demo!uart_ReceiveChar, uart_ReceiveChar, Demo!uart_ClearTxIRQ, uart_ClearTxIRQ,
  Demo!uart_ClearRxIRQ, uart_ClearRxIRQ, Demo!WriteData, WriteData, Demo!ReadData, ReadData,
  Demo!WriteIntClear, WriteIntClear, Demo!WriteCtrl, WriteCtrl, Demo!WriteBaudDiv, WriteBaudDiv,
  Demo!timer_Init_IntClock, timer_Init_IntClock, Demo!timer_Init, timer_Init,
  Demo!timer_StopTimer, timer_StopTimer, Demo!timer_ClearIRQ, timer_ClearIRQ,
  Demo!TimerCtrl, TimerCtrl, Demo!TimerValue, TimerValue, Demo!TimerReload, TimerReload,
  Demo!TimerIntClear, TimerIntClear, Demo!Gpio0, Gpio0, Demo!GpioWrite, GpioWrite,
  Demo!DataOut, DataOut, Demo!gpio_SetOutEnable, gpio_SetOutEnable,
  Demo!gpio_IntClear, gpio_IntClear, Demo!gpio_SetIntEnable, gpio_SetIntEnable,
  Demo!gpio_ClrIntEnable, gpio_ClrIntEnable, Demo!gpio_SetIntHighLevel, gpio_SetIntHighLevel,
  Demo!gpio_SetIntLowLevel, gpio_SetIntLowLevel, Demo!gpio_SetIntRisingEdge, gpio_SetIntRisingEdge,
  Demo!gpio_SetIntFallingEdge, gpio_SetIntFallingEdge

LEMMA DemoPins ==
  /\ \A n \in 7 .. 10 : n \in Pins /\ Demo!PORT0(n) \in EarlyIrqs
  /\ \A nib \in {"A", "B", "9", "D", "5"} : Demo!Pattern(nib) \in SUBSET Pins
  /\ 7 .. 10 \in SUBSET Pins
<1>1. \A n \in 7 .. 10 : n = 7 \/ n = 8 \/ n = 9 \/ n = 10 OBVIOUS
<1>2. \A n \in 7 .. 10 : n \in Pins BY <1>1, ProgramAssumption
<1>3. \A n \in 7 .. 10 : Demo!PORT0(n) \in EarlyIrqs
  BY <1>1 DEF Demo!PORT0, EarlyIrqs, DemoIrqs, Uarts
<1>4. \A nib \in {"A", "B", "9", "D", "5"} : Demo!Pattern(nib) \in SUBSET Pins
  BY ProgramAssumption DEF Demo!Pattern
<1> QED BY <1>2, <1>3, <1>4

\* The statements of the two phases.
LEMMA DemoFirst ==
  ASSUME NEW I, EarlyIrqs \subseteq I
  PROVE  LET Is(s) == IsCode(s, Configures, I) IN Is(Demo!TimerExample) /\ Is(SetUp)
<1> DEFINE Is(s) == IsCode(s, Configures, I)
<1>1. /\ Is(<<>>)
      /\ \A a, b : Is(a) /\ Is(b) => Is(a \o b)
      /\ \A c \in Conditions : \A s : Is(s) => Is(Demo!While(c, s))
  BY SameDemo, StatementForms
<1>2. Is(Demo!Prints) /\ Is(Demo!Do("wfe")) /\ Is(Demo!Set("err_code", 0))
  BY UsedNames, SameDemo, InstrForms DEF Demo!Prints, Plain, DemoVars
<1>3. /\ Is(Demo!ClearPending("TIMER0")) /\ Is(Demo!Enable("TIMER0"))
      /\ Is(Demo!timer_Init_IntClock(DemoReload))
  BY ProgramAssumption, SameDemo, InstrForms, TimerForms DEF EarlyIrqs, DemoIrqs, Uarts
<1>4. Demo!Var("timer_stopped", "clear") \in Conditions
  BY UsedNames, SameDemo, CondForms DEF DemoVars, Tests
<1>5. Is(Demo!gpio_SetOutEnable(7 .. 10)) /\ Is(Demo!DataOut(Demo!Pattern("A")))
  BY DemoPins, SameDemo, GpioForms DEF Configures, Always
<1>6. /\ Is(Demo!gpio_SetIntHighLevel(7)) /\ Is(Demo!gpio_SetIntLowLevel(8))
      /\ Is(Demo!gpio_SetIntRisingEdge(9)) /\ Is(Demo!gpio_SetIntFallingEdge(10))
  BY ProgramAssumption, SameDemo, GpioForms DEF Configures
<1>7. Is(Demo!TimerExample) BY <1>1, <1>2, <1>3, <1>4 DEF Demo!TimerExample
<1>8. Is(Demo!SetTypes) BY <1>1, <1>6 DEF Demo!SetTypes
<1>9. Is(SetUp) BY <1>1, <1>2, <1>5, <1>8 DEF SetUp
<1> QED BY <1>7, <1>9

LEMMA DemoTests ==
  ASSUME NEW I, EarlyIrqs \subseteq I
  PROVE  LET Is(s) == IsCode(s, Switches, I) IN
         \A n \in 7 .. 10, nib \in {"B", "9", "D", "5"} : Is(Demo!Test(n, nib))
<1> DEFINE Is(s) == IsCode(s, Switches, I)
<1>1. /\ \A a, b : Is(a) /\ Is(b) => Is(a \o b)
      /\ \A c \in Conditions : \A a, b : Is(a) /\ Is(b) => Is(Demo!IfElse(c, a, b))
  BY SameDemo, StatementForms
<1>2. Is(Demo!Prints) /\ Is(Demo!Set("irq_triggered", 0)) /\ Is(Demo!Set("err_code", 1))
  BY UsedNames, SameDemo, InstrForms DEF Demo!Prints, DemoVars
<1>3. Demo!Var("irq_triggered", "set") \in Conditions
  BY UsedNames, SameDemo, CondForms DEF DemoVars, Tests
<1> SUFFICES ASSUME NEW n \in 7 .. 10, NEW nib \in {"B", "9", "D", "5"} PROVE Is(Demo!Test(n, nib))
  OBVIOUS
<1>4. /\ Is(Demo!gpio_SetIntEnable(n)) /\ Is(Demo!gpio_ClrIntEnable(n))
      /\ Is(Demo!DataOut(Demo!Pattern(nib)))
  BY DemoPins, SameDemo, GpioForms DEF Switches, AlwaysUart, Always
<1> QED BY <1>1, <1>2, <1>3, <1>4 DEF Demo!Test

LEMMA DemoForPins ==
  ASSUME NEW I, EarlyIrqs \subseteq I
  PROVE  LET Is(s) == IsCode(s, Always, I) IN
         /\ Is(Demo!ForPins(LAMBDA n : Demo!ClearPending(Demo!PORT0(n))))
         /\ Is(Demo!ForPins(LAMBDA n : Demo!Enable(Demo!PORT0(n))))
         /\ Is(Demo!ForPins(LAMBDA n : Demo!Disable(Demo!PORT0(n))))
         /\ Is(Demo!If(Demo!Var("err_code", "set"), Demo!Fail))
<1> DEFINE Is(s) == IsCode(s, Always, I)
<1>1. \A a, b : Is(a) /\ Is(b) => Is(a \o b) BY StatementForms
<1>2. \A n \in 7 .. 10 : /\ Is(Demo!ClearPending(Demo!PORT0(n))) /\ Is(Demo!Enable(Demo!PORT0(n)))
                         /\ Is(Demo!Disable(Demo!PORT0(n)))
  BY DemoPins, SameDemo, InstrForms
<1>3. 7 \in 7 .. 10 /\ 8 \in 7 .. 10 /\ 9 \in 7 .. 10 /\ 10 \in 7 .. 10 OBVIOUS
<1>4. Is(Demo!If(Demo!Var("err_code", "set"), Demo!Fail))
  BY UsedNames, SameDemo, StatementForms, InstrForms, CondForms DEF DemoVars, Tests
<1> QED BY <1>1, <1>2, <1>3, <1>4 DEF Demo!ForPins

\* The last example up to where both UARTs are configured.
UartSetUp ==
  Demo!Prints \o Demo!ClearPending("UART2") \o Demo!ClearPending("UART3")
  \o Demo!Enable("UART2") \o Demo!Enable("UART3")
  \o Demo!uart_init("UART2", {"tx", "txirq"}) \o Demo!uart_init("UART3", {"rx", "rxirq"})

LEMMA DemoUart ==
  ASSUME NEW R, Always \subseteq R
  PROVE  LET Is(s) == IsCode(s, R, DemoIrqs) IN
         /\ Is(Demo!Set("rx_count", 0)) /\ Is(Demo!Set("tx_count", 0)) /\ Is(Demo!Do("forget received"))
         /\ Is(Demo!Prints) /\ Is(Demo!Inc("tx_count")) /\ Is(Demo!While(Demo!Cond("UART2", "TXBF"), <<>>))
         /\ Is(Demo!Bus("UART2", Demo!WriteData(transmit[1])))
         /\ Is(Demo!While(Demo!Var("transmission_complete", "clear"),
              Demo!If(Demo!Var("tx_count", "complete"),
                Demo!If(Demo!Var("rx_count", "complete"), Demo!Set("transmission_complete", 1)))))
         /\ Is(Demo!While(Demo!Var("received", "differs"), <<>>))
         /\ Is(Demo!Disable("UART2")) /\ Is(Demo!Disable("UART3"))
         /\ UartSettings \subseteq R => Is(UartSetUp) /\ Is(Demo!UartExample)
<1> DEFINE Is(s) == IsCode(s, R, DemoIrqs)
<1>0. EarlyIrqs \subseteq DemoIrqs /\ Uarts \cap DemoIrqs = Uarts /\ Uarts \subseteq DemoIrqs
      /\ "UART2" \in DemoIrqs /\ "UART2" \in Uarts /\ "UART3" \in Uarts
  BY DEF EarlyIrqs, DemoIrqs, Uarts
<1>1. /\ Is(<<>>)
      /\ \A a, b : Is(a) /\ Is(b) => Is(a \o b)
      /\ \A c \in Conditions : \A s : Is(s) => Is(Demo!While(c, s))
      /\ \A c \in Conditions : \A s : Is(s) => Is(Demo!If(c, s))
  BY SameDemo, StatementForms
<1>2. /\ Is(Demo!Prints) /\ Is(Demo!Do("forget received"))
      /\ Is(Demo!Set("rx_count", 0)) /\ Is(Demo!Set("tx_count", 0)) /\ Is(Demo!Inc("tx_count"))
      /\ Is(Demo!Set("transmission_complete", 1))
  BY UsedNames, SameDemo, InstrForms DEF Demo!Prints, Plain, DemoVars
<1>3. \A h \in Uarts : Is(Demo!ClearPending(h)) /\ Is(Demo!Enable(h)) /\ Is(Demo!Disable(h))
  BY <1>0, SameDemo, InstrForms
<1>5. /\ Demo!Var("transmission_complete", "clear") \in Conditions
      /\ Demo!Var("tx_count", "complete") \in Conditions /\ Demo!Var("rx_count", "complete") \in Conditions
      /\ Demo!Var("received", "differs") \in Conditions
  BY UsedNames, SameDemo, CondForms DEF DemoVars, Tests
<1>6. Demo!Cond("UART2", "TXBF") \in Conditions BY <1>0, SameDemo, CondForms DEF Tests
<1>7. /\ UartSettings \subseteq R =>
           Is(Demo!uart_init("UART2", {"tx", "txirq"})) /\ Is(Demo!uart_init("UART3", {"rx", "rxirq"}))
      /\ Is(Demo!Bus("UART2", Demo!WriteData(transmit[1])))
  <2>1. {"tx", "txirq"} \in SUBSET Enables /\ {"rx", "rxirq"} \in SUBSET Enables BY DEF Enables
  <2>2. transmit[1] \in Chars BY ProgramAssumption
  <2> QED BY <1>0, <2>1, <2>2, SameDemo, InstrForms, UartForms
<1>8. Is(Demo!While(Demo!Var("transmission_complete", "clear"),
       Demo!If(Demo!Var("tx_count", "complete"),
         Demo!If(Demo!Var("rx_count", "complete"), Demo!Set("transmission_complete", 1)))))
  BY <1>1, <1>2, <1>5
<1>9. Is(Demo!While(Demo!Var("received", "differs"), <<>>)) /\ Is(Demo!While(Demo!Cond("UART2", "TXBF"), <<>>))
  BY <1>1, <1>5, <1>6
<1>10. UartSettings \subseteq R => Is(UartSetUp) BY <1>0, <1>1, <1>2, <1>3, <1>7 DEF UartSetUp
<1>11. UartSettings \subseteq R => Is(Demo!UartExample)
  BY <1>0, <1>1, <1>2, <1>3, <1>7, <1>8, <1>9 DEF Demo!UartExample
<1> QED BY <1>0, <1>2, <1>3, <1>7, <1>8, <1>9, <1>10, <1>11

LEMMA MoreActions ==
  ASSUME NEW R, NEW R1, NEW I, NEW I1, R \subseteq R1, I \subseteq I1
  PROVE  Actions(R, I) \subseteq Actions(R1, I1)
<1>1. UartAccesses(R) \subseteq UartAccesses(R1) BY DEF UartAccesses
<1>2. /\ [op : {"bus"}, dev : Uarts \cap I, access : UartAccesses(R)]
           \subseteq [op : {"bus"}, dev : Uarts \cap I1, access : UartAccesses(R1)]
      /\ [op : {"bus"}, dev : {"UART2"} \cap I, access : [op : {"DATA"}, char : Chars]]
           \subseteq [op : {"bus"}, dev : {"UART2"} \cap I1, access : [op : {"DATA"}, char : Chars]]
      /\ [op : {"send"}, dev : {"UART2"} \cap I, var : Names]
           \subseteq [op : {"send"}, dev : {"UART2"} \cap I1, var : Names]
      /\ [op : {"enable", "disable", "clear pending"}, irq : I]
           \subseteq [op : {"enable", "disable", "clear pending"}, irq : I1]
  BY <1>1
<1>3. [op : {"bus"}, dev : {"GPIO0"}, access : [op : R \ UartSettings, pins : SUBSET Pins]]
        \subseteq [op : {"bus"}, dev : {"GPIO0"}, access : [op : R1 \ UartSettings, pins : SUBSET Pins]]
  OBVIOUS
<1> SUFFICES ASSUME NEW i \in Actions(R, I) PROVE i \in Actions(R1, I1)
  OBVIOUS
<1> QED BY <1>2, <1>3, Zenon DEF Actions

LEMMA EarlyOfDemo == EarlyIrqs \subseteq DemoIrqs
BY DEF EarlyIrqs

\* main() of the demo has two phases: no interrupt of the port is enabled in the
\* first, and no pin is made edge-triggered in the second.
LEMMA DemoMain ==
  LET J1 == Actions(Configures, DemoIrqs)
      J2 == Actions(Switches, DemoIrqs)
  IN  /\ EndsIn(Demo!Main, J1 \cup J2, Conditions, [op |-> "passed"])
      /\ Phased(Demo!Main, J1, J2, Conditions, SetUpLen)
<1> DEFINE J1 == Actions(Configures, DemoIrqs)
           J2 == Actions(Switches, DemoIrqs)
           C == Conditions
           Ph(s, K) == Phased(s, J1, J2, C, K)
           Is(s) == Code(s, J2, C)
           n == Len(SetUp)
           te == Demo!TimerExample
           e == Demo!If(Demo!Var("err_code", "set"), Demo!Fail)
           f1 == Demo!ForPins(LAMBDA p : Demo!ClearPending(Demo!PORT0(p)))
           f2 == Demo!ForPins(LAMBDA p : Demo!Enable(Demo!PORT0(p)))
           f3 == Demo!ForPins(LAMBDA p : Demo!Disable(Demo!PORT0(p)))
           t1 == Demo!Test(7, "B")
           t2 == Demo!Test(8, "9")
           t3 == Demo!Test(9, "D")
           t4 == Demo!Test(10, "5")
           ue == Demo!UartExample
<1>1. Code(te, J1, C) /\ Code(SetUp, J1, C) BY EarlyOfDemo, DemoFirst DEF IsCode
<1>0. \A s : IsCode(s, Always, DemoIrqs) => Is(s)
  <2>1. Actions(Always, DemoIrqs) \subseteq J2 BY MoreActions DEF Switches, AlwaysUart
  <2> QED BY <2>1, MoreCode DEF IsCode
<1>2. Is(ue) BY DemoUart DEF IsCode, Switches, AlwaysUart
<1>3. Is(e) /\ Is(f1) /\ Is(f2) /\ Is(f3) BY <1>0, EarlyOfDemo, DemoForPins
<1>4. Is(t1) /\ Is(t2) /\ Is(t3) /\ Is(t4)
  <2>1. 7 \in 7 .. 10 /\ 8 \in 7 .. 10 /\ 9 \in 7 .. 10 /\ 10 \in 7 .. 10 OBVIOUS
  <2> QED BY <2>1, EarlyOfDemo, DemoTests DEF IsCode
<1>5. [op |-> "passed"] \in J2 /\ [op |-> "passed"].op \notin JumpOps BY DEF Actions, Plain, JumpOps
<1>6. Demo!GPIOIntExample = SetUp \o f1 \o f2 \o t1 \o t2 \o t3 \o t4 \o e \o f3
  BY DEF Demo!GPIOIntExample, SetUp
<1>7. Demo!Main = (te \o Demo!GPIOIntExample \o ue) \o <<[op |-> "passed"]>>
  BY DEF Demo!Main, Demo!Do
<1> HIDE DEF te, e, f1, f2, f3, t1, t2, t3, t4, ue, J1, J2, C
<1>8. Ph(SetUp, n) BY <1>1, FirstPhase
<1>9. \A s, b : Ph(s, n) /\ Is(b) => Ph(s \o b, n) BY LongerSecondPhase
<1> HIDE DEF n
<1>10. Ph(Demo!GPIOIntExample, n)
  <2> HIDE DEF Ph, Is
  <2> QED BY <1>2, <1>3, <1>4, <1>6, <1>8, <1>9
<1>11. Ph(te \o Demo!GPIOIntExample, Len(te) + n) BY <1>1, <1>10, LongerFirstPhase
<1>12. Ph(te \o Demo!GPIOIntExample \o ue, Len(te) + n) BY <1>2, <1>11, LongerSecondPhase
<1> DEFINE m == te \o Demo!GPIOIntExample \o ue
<1> HIDE DEF m
<1>13. EndsIn(m \o <<[op |-> "passed"]>>, J1 \cup J2, C, [op |-> "passed"])
       /\ Phased(m \o <<[op |-> "passed"]>>, J1, J2, C, Len(te) + n)
  BY <1>5, <1>12, EndedPhases DEF m
<1>14. SetUpLen = Len(te) + n BY DEF SetUpLen, te, n
<1> QED BY <1>7, <1>13, <1>14 DEF m, J1, J2, C

\* The handlers of the first two examples do not access the UARTs.
LEMMA DemoHandlersWith ==
  ASSUME NEW I, EarlyIrqs \subseteq I
  PROVE  /\ DOMAIN Demo!Handlers = DemoIrqs
         /\ \A h \in EarlyIrqs \cup (IF I = DemoIrqs THEN Uarts ELSE {}) :
              EndsIn(Demo!Handlers[h], Actions(Always, I), Conditions, [op |-> "return"])
<1> DEFINE J == Actions(Always, I)
           Is(s) == IsCode(s, Always, I)
           r == <<[op |-> "return"]>>
<1>1. /\ \A a, b : Is(a) /\ Is(b) => Is(a \o b)
      /\ \A c \in Conditions : \A s : Is(s) => Is(Demo!If(c, s))
      /\ Is(Demo!Prints) /\ Is(Demo!Do("store"))
      /\ Is(Demo!timer_StopTimer) /\ Is(Demo!timer_ClearIRQ)
  BY SameDemo, StatementForms, InstrForms, TimerForms DEF Demo!Prints, Plain
<1>2. /\ Is(Demo!Set("irq_triggered", 1)) /\ Is(Demo!Set("timer_stopped", 1))
      /\ Is(Demo!Inc("tx_count")) /\ Is(Demo!Inc("rx_count"))
      /\ I = DemoIrqs => Is(Demo!uart_SendChar("UART2", "tx_count"))
      /\ Demo!Var("tx_count", "incomplete") \in Conditions
  BY UsedNames, SameDemo, InstrForms, UartForms, CondForms DEF DemoVars, DemoIrqs, Uarts, Tests
<1>3. I = DemoIrqs =>
        /\ Is(Demo!uart_ClearTxIRQ("UART2")) /\ Is(Demo!uart_ClearRxIRQ("UART3"))
        /\ Is(Demo!uart_ReceiveChar("UART3"))
  BY SameDemo, UartForms DEF Uarts, DemoIrqs
<1>4. /\ Is(Demo!DataOut(Demo!Pattern("A"))) /\ Is(Demo!DataOut(Demo!Pattern("B")))
      /\ Is(Demo!gpio_IntClear(7)) /\ Is(Demo!gpio_IntClear(8))
      /\ Is(Demo!gpio_IntClear(9)) /\ Is(Demo!gpio_IntClear(10))
  BY ProgramAssumption, DemoPins, SameDemo, GpioForms DEF Always
<1>5. Is(Demo!PORT0_7_Handler) /\ Is(Demo!PORT0_8_Handler)
      /\ Is(Demo!PORT0_9_Handler) /\ Is(Demo!PORT0_10_Handler)
  BY <1>1, <1>2, <1>4
     DEF Demo!PORT0_7_Handler, Demo!PORT0_8_Handler, Demo!PORT0_9_Handler, Demo!PORT0_10_Handler
<1>6. I = DemoIrqs => Is(Demo!UART2_Handler) /\ Is(Demo!UART3_Handler)
  BY <1>1, <1>2, <1>3 DEF Demo!UART2_Handler, Demo!UART3_Handler
<1>7. Is(Demo!TIMER0_Handler) BY <1>1, <1>2 DEF Demo!TIMER0_Handler
<1>8. \A s : Is(s) => EndsIn(s \o r, J, Conditions, [op |-> "return"])
  <2>1. [op |-> "return"] \in J BY DEF Actions, Plain
  <2> HIDE DEF J
  <2> QED BY <2>1, EndedCode DEF IsCode, J
<1>9. /\ DOMAIN Demo!Handlers = DemoIrqs
      /\ Demo!Handlers["TIMER0"] = Demo!TIMER0_Handler \o r
      /\ Demo!Handlers["PORT0_7"] = Demo!PORT0_7_Handler \o r
      /\ Demo!Handlers["PORT0_8"] = Demo!PORT0_8_Handler \o r
      /\ Demo!Handlers["PORT0_9"] = Demo!PORT0_9_Handler \o r
      /\ Demo!Handlers["PORT0_10"] = Demo!PORT0_10_Handler \o r
      /\ Demo!Handlers["UART2"] = Demo!UART2_Handler \o r
      /\ Demo!Handlers["UART3"] = Demo!UART3_Handler \o r
  BY DEF Demo!Handlers, DemoIrqs, Demo!Do
<1> HIDE DEF Is, r, J
<1>10. \A h \in EarlyIrqs \cup (IF I = DemoIrqs THEN Uarts ELSE {}) :
         EndsIn(Demo!Handlers[h], J, Conditions, [op |-> "return"])
  BY <1>5, <1>6, <1>7, <1>8, <1>9 DEF EarlyIrqs, DemoIrqs, Uarts
<1> QED BY <1>9, <1>10 DEF J

LEMMA DemoHandlers ==
  /\ DOMAIN Demo!Handlers = DemoIrqs
  /\ \A h \in DemoIrqs :
       EndsIn(Demo!Handlers[h], Actions(Always, DemoIrqs), Conditions, [op |-> "return"])
  /\ \A h \in EarlyIrqs :
       EndsIn(Demo!Handlers[h], Actions(Always, EarlyIrqs), Conditions, [op |-> "return"])
<1>1. EarlyIrqs \cup (IF DemoIrqs = DemoIrqs THEN Uarts ELSE {}) = DemoIrqs
  BY DEF EarlyIrqs, DemoIrqs, Uarts
<1> QED BY <1>1, EarlyOfDemo, DemoHandlersWith

-----------------------------------------------------------------------------
(* All programs.                                                           *)

Registers == Configures \cup Switches

LEMMA IrqNames ==
  /\ ToSet(Irqs) = {"TIMER0", "UARTOVF", "PORT0_7", "PORT0_8", "PORT0_9", "PORT0_10", "UART2", "UART3"}
  /\ DOMAIN Irqs = 1 .. 8
BY DEF ToSet, Irqs

\* The texts of the programs.
LEMMA Images ==
  /\ DOMAIN MainOf = {"uart_driver_tests", "interrupt_demo", "timer_driver_tests"}
  /\ MainOf["uart_driver_tests"] = UartTests!Main
  /\ MainOf["interrupt_demo"] = Demo!Main
  /\ MainOf["timer_driver_tests"] = TimerTests!Main
  /\ HandlersOf["uart_driver_tests"] = UartTests!Handlers
  /\ HandlersOf["interrupt_demo"] = Demo!Handlers
  /\ HandlersOf["timer_driver_tests"] = TimerTests!Handlers
<1>1. DOMAIN MainOf = {"uart_driver_tests", "interrupt_demo", "timer_driver_tests"} BY DEF MainOf
<1> QED BY <1>1 DEF MainOf, HandlersOf

IrqsOf(p) == DOMAIN HandlersOf[p]

LEMMA Texts ==
  ASSUME NEW p \in DOMAIN MainOf
  PROVE  /\ IrqsOf(p) \subseteq ToSet(Irqs) /\ p # "any"
         /\ EndsIn(MainOf[p], Actions(Registers, IrqsOf(p)), Conditions, [op |-> "passed"])
         /\ \A h \in IrqsOf(p) :
              EndsIn(HandlersOf[p][h], Actions(Always, IrqsOf(p)), Conditions, [op |-> "return"])
         /\ p # "interrupt_demo" =>
              EndsIn(MainOf[p], Actions(AlwaysUart, IrqsOf(p)), Conditions, [op |-> "passed"])
         /\ p = "interrupt_demo" =>
              Phased(MainOf[p], Actions(Configures, IrqsOf(p)), Actions(Switches, IrqsOf(p)),
                     Conditions, SetUpLen)
<1> DEFINE P(s) == EndsIn(s, Actions(AlwaysUart, IrqsOf(p)), Conditions, [op |-> "passed"])
           H(s) == EndsIn(s, Actions(Always, IrqsOf(p)), Conditions, [op |-> "return"])
<1>1. /\ AlwaysUart \subseteq Registers /\ UartSettings \subseteq AlwaysUart
      /\ {"DATAOUT", "OUTENABLESET"} \subseteq Always /\ Always \subseteq AlwaysUart
  BY DEF Always, AlwaysUart, Registers, Switches
<1>2. P(MainOf[p]) => EndsIn(MainOf[p], Actions(Registers, IrqsOf(p)), Conditions, [op |-> "passed"])
  BY MoreActions, <1>1, MoreEndsIn
<1>3. CASE p = "uart_driver_tests"
  <2>1. MainOf[p] = UartTests!Main /\ HandlersOf[p] = UartTests!Handlers /\ IrqsOf(p) = UartIrqs
    BY <1>3, Images, UartTexts DEF IrqsOf
  <2>2. P(MainOf[p]) /\ \A h \in IrqsOf(p) : H(HandlersOf[p][h]) BY <1>1, <2>1, UartTexts
  <2>3. IrqsOf(p) \subseteq ToSet(Irqs) BY <2>1, IrqNames DEF UartIrqs
  <2> QED BY <1>2, <1>3, <2>2, <2>3
<1>4. CASE p = "timer_driver_tests"
  <2>1. MainOf[p] = TimerTests!Main /\ HandlersOf[p] = TimerTests!Handlers /\ IrqsOf(p) = {"TIMER0"}
    BY <1>1, <1>4, Images, TimerTexts DEF IrqsOf
  <2>2. P(MainOf[p]) /\ \A h \in IrqsOf(p) : H(HandlersOf[p][h]) BY <1>1, <2>1, TimerTexts
  <2>3. IrqsOf(p) \subseteq ToSet(Irqs) BY <2>1, IrqNames
  <2> QED BY <1>2, <1>4, <2>2, <2>3
<1>5. CASE p = "interrupt_demo"
  <2>1. MainOf[p] = Demo!Main /\ HandlersOf[p] = Demo!Handlers /\ IrqsOf(p) = DemoIrqs
    BY <1>5, Images, DemoHandlers DEF IrqsOf
  <2>2. \A h \in IrqsOf(p) : H(HandlersOf[p][h]) BY <2>1, DemoHandlers
  <2>3. IrqsOf(p) \subseteq ToSet(Irqs) BY <2>1, IrqNames DEF DemoIrqs
  <2>4. EndsIn(MainOf[p], Actions(Registers, IrqsOf(p)), Conditions, [op |-> "passed"])
    <3>1. Actions(Configures, IrqsOf(p)) \cup Actions(Switches, IrqsOf(p)) \subseteq Actions(Registers, IrqsOf(p))
      <4>1. Configures \subseteq Registers /\ Switches \subseteq Registers BY DEF Registers
      <4>2. Actions(Configures, IrqsOf(p)) \subseteq Actions(Registers, IrqsOf(p))
        BY <4>1, MoreActions
      <4>3. Actions(Switches, IrqsOf(p)) \subseteq Actions(Registers, IrqsOf(p))
        BY <4>1, MoreActions
      <4> QED BY <4>2, <4>3
    <3> QED BY <2>1, <3>1, DemoMain, MoreEndsIn
  <2>5. Phased(MainOf[p], Actions(Configures, IrqsOf(p)), Actions(Switches, IrqsOf(p)),
               Conditions, SetUpLen)
    BY <2>1, DemoMain
  <2> QED BY <1>5, <2>2, <2>3, <2>4, <2>5
<1> QED BY <1>3, <1>4, <1>5, Images

\* What an instruction holds, by its operation.
BusAction(R, I, i) ==
  \/ i.dev \in Uarts \cap I /\ i.access \in UartAccesses(R)
  \/ "UART2" \in I /\ i.dev = "UART2" /\ i.access \in [op : {"DATA"}, char : Chars]
  \/ i.dev = "TIMER0" /\ i.access \in TimerAccesses
  \/ i.dev = "GPIO0" /\ i.access \in [op : R \ UartSettings, pins : SUBSET Pins]

LEMMA ActionFields ==
  ASSUME NEW R, NEW I, NEW i \in Actions(R, I) \cup Jumps(Conditions)
  PROVE  /\ i.op = "bus" => BusAction(R, I, i)
         /\ i.op = "send" => "UART2" \in I /\ i.dev = "UART2" /\ i.var \in Names
         /\ i.op = "puts" => i.chars \in Nat
         /\ i.op = "store CTRL" => i.set \in SUBSET Modes /\ i.clear \in SUBSET Modes
         /\ i.op = "set" => i.var \in Names /\ i.to \in {0, 1}
         /\ i.op = "inc" => i.var \in Names
         /\ i.op \in {"enable", "disable", "clear pending"} => i.irq \in I
         /\ i.op = "unless" => i.cond \in Conditions
         /\ i.op \in JumpOps => i.by \in Int
<1>0. CASE i \in [op : {"bus"}, dev : Uarts \cap I, access : UartAccesses(R)]
  BY <1>0 DEF JumpOps, BusAction
<1>1. CASE i \in [op : {"bus"}, dev : {"UART2"} \cap I, access : [op : {"DATA"}, char : Chars]]
  BY <1>1 DEF JumpOps, BusAction
<1>2. CASE i \in [op : {"bus"}, dev : {"TIMER0"}, access : TimerAccesses]
  BY <1>2 DEF JumpOps, BusAction
<1>3. CASE i \in [op : {"bus"}, dev : {"GPIO0"}, access : [op : R \ UartSettings, pins : SUBSET Pins]]
  BY <1>3 DEF JumpOps, BusAction
<1>4. CASE i \in [op : {"send"}, dev : {"UART2"} \cap I, var : Names] BY <1>4 DEF JumpOps
<1>5. CASE i \in [op : {"store CTRL"}, set : SUBSET Modes, clear : SUBSET Modes] BY <1>5 DEF JumpOps
<1>6. CASE i \in [op : {"set"}, var : Names, to : {0, 1}] BY <1>6 DEF JumpOps
<1>7. CASE i \in [op : {"inc"}, var : Names] BY <1>7 DEF JumpOps
<1>8. CASE i \in [op : {"puts"}, chars : Nat] BY <1>8 DEF JumpOps
<1>9. CASE i \in [op : {"enable", "disable", "clear pending"}, irq : I] BY <1>9 DEF JumpOps
<1>10. CASE i \in [op : Plain] BY <1>10 DEF JumpOps, Plain
<1>11. CASE i \in [op : {"unless"}, cond : Conditions, by : Int] BY <1>11 DEF JumpOps
<1>12. CASE i \in [op : {"goto"}, by : Int] BY <1>12 DEF JumpOps
<1> QED BY <1>0, <1>1, <1>2, <1>3, <1>4, <1>5, <1>6, <1>7, <1>8, <1>9, <1>10, <1>11, <1>12
        DEF Actions, Jumps

\* What it may access.
LEMMA BusFields ==
  ASSUME NEW R, NEW I, NEW i \in Actions(R, I) \cup Jumps(Conditions), i.op = "bus"
  PROVE  /\ \/ i.dev \in Uarts /\ i.access \in Accesses
            \/ i.dev = "TIMER0" /\ i.access \in TimerAccesses
            \/ i.dev = "GPIO0" /\ i.access \in [op : R \ UartSettings, pins : SUBSET Pins]
         /\ i.dev \in Uarts => i.dev \in I
         /\ i.dev \in Uarts /\ i.access.op \in UartSettings => i.access.op \in R
         /\ i.dev \in Uarts /\ i.access.op = "DATA" => i.dev = "UART2"
<1>1. "TIMER0" \notin Uarts /\ "GPIO0" \notin Uarts /\ "UART2" \in Uarts BY DEF Uarts
<1>2. BusAction(R, I, i) BY ActionFields
<1>3. CASE i.dev \in Uarts \cap I /\ i.access \in UartAccesses(R) BY <1>1, <1>3 DEF UartAccesses
<1>4. CASE "UART2" \in I /\ i.dev = "UART2" /\ i.access \in [op : {"DATA"}, char : Chars]
  <2>1. i.access = WriteData(i.access.char) /\ i.access.char \in Chars /\ i.access.op = "DATA"
    BY <1>4 DEF WriteData
  <2>2. i.access \in Accesses BY <2>1 DEF Accesses
  <2> QED BY <1>1, <1>4, <2>1, <2>2 DEF UartSettings
<1> QED BY <1>1, <1>2, <1>3, <1>4 DEF BusAction

-----------------------------------------------------------------------------
(* The devices, and the order in which the demo sets up its pins.          *)

DevicesOK == LinkTypeOK /\ timer \in Timer /\ gpio \in Gpio /\ sampled \subseteq Pins

GpioWrites == [op : Registers, pins : SUBSET Pins]

\* What a step may put on the bus, and for which device.
Delivered(d, b) ==
  \/ d \in Uarts /\ b \in Accesses
  \/ d = "TIMER0" /\ b \in TimerAccesses
  \/ d = "GPIO0" /\ b \in GpioWrites
  \/ d \in {"none", "saved CTRL"} /\ b = NoAccess

LEMMA TimerStep ==
  ASSUME NEW t \in Timer, NEW b \in TimerAccesses, NEW x \in BOOLEAN
  PROVE  TimerEdge(t, b, x) \in Timer
<1>1. /\ b.op = "CTRL" => b.modes \in SUBSET Modes
      /\ b.op \in {"VALUE", "RELOAD"} => b.value \in 0 .. TimerMax
  BY DEF TimerAccesses, TimerIdle, TimerRead, TimerIntClear, TimerCtrl, TimerValue, TimerReload
<1>2. nxt_curr_val(t, b) \in 0 .. TimerMax BY <1>1, TimerAssumption DEF nxt_curr_val, Timer
<1>3. timer_int_set(t) \in BOOLEAN BY DEF timer_int_set, dec_ctrl
<1>4. ext_in_enable(t, b) \in BOOLEAN /\ (b.op # "none") \in BOOLEAN BY DEF ext_in_enable, Timer
<1> QED BY <1>1, <1>2, <1>3, <1>4 DEF TimerEdge, Timer

LEMMA GpioStep ==
  ASSUME NEW g \in Gpio, NEW b \in GpioWrites \cup {GpioIdle}, NEW P \in SUBSET Pins
  PROVE  GpioEdge(g, b, P) \in Gpio
<1>1. b.pins \in SUBSET Pins BY DEF GpioWrites, GpioIdle
<1>2. nxt_intstat(g, b) \in SUBSET Pins BY <1>1 DEF nxt_intstat, new_masked_int, Gpio
<1> QED BY <1>1, <1>2 DEF GpioEdge, SetOrClear, reg_datain, Gpio

LEMMA DevicesStep ==
  ASSUME DevicesOK, NEW d, NEW b, Delivered(d, b), Devices(d, b)
  PROVE  DevicesOK'
<1>1. "TIMER0" \notin Uarts /\ "GPIO0" \notin Uarts /\ "none" \notin Uarts /\ "saved CTRL" \notin Uarts
  BY DEF Uarts
<1>2. LinkTypeOK'
  <2>1. NoAccess \in Accesses /\ "UART2" \in Uarts BY DEF Accesses, Uarts
  <2>2. CASE d \in Uarts BY <1>1, <2>2, TypesStep DEF DevicesOK, Delivered, Devices
  <2>3. CASE d \notin Uarts BY <2>3, <2>1, TypesStep DEF DevicesOK, Devices, NoBus
  <2> QED BY <2>2, <2>3
<1>3. timer' \in Timer
  <2>1. ExtIn \in BOOLEAN BY DEF ExtIn
  <2>2. (IF d = "TIMER0" THEN b ELSE TimerIdle) \in TimerAccesses
    BY <1>1 DEF Delivered, TimerAccesses
  <2> QED BY <2>1, <2>2, TimerStep DEF Devices, DevicesOK
<1>4. gpio' \in Gpio /\ sampled' \subseteq Pins
  <2>1. PORTIN(gpio, {}) \in SUBSET Pins BY DEF PORTIN, DevicesOK, Gpio
  <2>2. (IF d = "GPIO0" THEN b ELSE GpioIdle) \in GpioWrites \cup {GpioIdle} BY <1>1 DEF Delivered
  <2>3. reg_datain(gpio) \subseteq Pins BY DEF reg_datain, DevicesOK, Gpio
  <2> QED BY <2>1, <2>2, <2>3, GpioStep DEF Devices, DevicesOK
<1> QED BY <1>2, <1>3, <1>4 DEF DevicesOK

\* No interrupt of the port is enabled before the types of the pins are set.
InSetUp == image = "interrupt_demo" /\ pc <= SetUpLen
EdgeOK  == EdgesAreCurrent /\ (InSetUp => gpio.reg_inten = {})

\* The port is written in the order of the two phases.
InOrder(d, b) ==
  d = "GPIO0" => /\ b.op = "INTTYPESET" => InSetUp
                 /\ b.op = "INTENSET" => ~InSetUp

LEMMA EdgeStep ==
  ASSUME DevicesOK, EdgeOK, NEW d, NEW b, Delivered(d, b), Devices(d, b), InOrder(d, b),
         InSetUp' => InSetUp
  PROVE  EdgeOK'
<1> DEFINE w == IF d = "GPIO0" THEN b ELSE GpioIdle
<1>1. /\ w.op = "INTTYPESET" => InSetUp
      /\ w.op = "INTENSET" => ~InSetUp
  BY DEF InOrder, GpioIdle
<1>2. /\ gpio' = GpioEdge(gpio, w, PORTIN(gpio, {}))
      /\ sampled' = gpio.reg_in_sync2
  BY DEF Devices, reg_datain
<1> HIDE DEF w
<1>3. /\ gpio.reg_inten \in SUBSET Pins /\ gpio.reg_inttype \in SUBSET Pins BY DEF DevicesOK, Gpio
<1>4. /\ gpio'.reg_inten = SetOrClear(gpio.reg_inten, w, "INTENSET", "INTENCLR")
      /\ gpio'.reg_inttype = SetOrClear(gpio.reg_inttype, w, "INTTYPESET", "INTTYPECLR")
      /\ gpio'.reg_last_datain = IF gpio.reg_inttype # {} THEN gpio.reg_in_sync2 ELSE gpio.reg_last_datain
  BY <1>2 DEF GpioEdge, keeps_last, reg_datain
<1>5. InSetUp => gpio'.reg_inten = {} BY <1>1, <1>4 DEF EdgeOK, SetOrClear
<1>6. gpio'.reg_inten \cap gpio'.reg_inttype # {} => gpio'.reg_last_datain = sampled'
  <2>1. CASE gpio.reg_inttype # {} BY <1>2, <1>4, <2>1
  <2>2. CASE gpio.reg_inttype = {} /\ w.op # "INTTYPESET" BY <1>4, <2>2 DEF SetOrClear
  <2>3. CASE w.op = "INTTYPESET" BY <1>1, <1>5, <2>3
  <2> QED BY <2>1, <2>2, <2>3
<1> QED BY <1>5, <1>6 DEF EdgeOK, EdgesAreCurrent

-----------------------------------------------------------------------------
(* The place of the processor in its program.                              *)

PlaceOK ==
  /\ image \in DOMAIN MainOf \cup {"any"}
  /\ image # "any" => pc \in 1 .. Len(MainOf[image])
  /\ InHandler => /\ image # "any" /\ handler \in IrqsOf(image)
                  /\ hpc \in 1 .. Len(HandlersOf[image][handler])

LEMMA CurrentFacts ==
  ASSUME PlaceOK, image # "any"
  PROVE  /\ Current \in Actions(Registers, IrqsOf(image)) \cup Jumps(Conditions)
         /\ Current.op = "bus" => Delivered(Current.dev, Current.access) /\ InOrder(Current.dev, Current.access)
<1> DEFINE I == IrqsOf(image)
<1>0. image \in DOMAIN MainOf BY DEF PlaceOK
<1>1. Actions(Always, I) \subseteq Actions(Registers, I) BY MoreActions DEF Registers, Configures
<1>2. Current \in Actions(Registers, I) \cup Jumps(Conditions)
  <2>1. CASE InHandler
    <3>1. EndsIn(HandlersOf[image][handler], Actions(Always, I), Conditions, [op |-> "return"])
      BY <1>0, <2>1, Texts DEF PlaceOK
    <3>2. Current = HandlersOf[image][handler][hpc] /\ hpc \in 1 .. Len(HandlersOf[image][handler])
      BY <2>1 DEF PlaceOK, Current
    <3> QED BY <1>1, <3>1, <3>2 DEF EndsIn
  <2>2. CASE ~InHandler
    <3>1. EndsIn(MainOf[image], Actions(Registers, I), Conditions, [op |-> "passed"]) BY <1>0, Texts
    <3>2. Current = MainOf[image][pc] /\ pc \in 1 .. Len(MainOf[image]) BY <2>2 DEF PlaceOK, Current
    <3> QED BY <3>1, <3>2 DEF EndsIn
  <2> QED BY <2>1, <2>2
<1>3. ASSUME Current.op = "bus" PROVE Delivered(Current.dev, Current.access)
  <2> DEFINE i == Current
  <2>1. i \in Actions(Registers, I) \cup Jumps(Conditions) /\ i.op = "bus" BY <1>2, <1>3
  <2> HIDE DEF i
  <2>2. \/ i.dev \in Uarts /\ i.access \in Accesses
        \/ i.dev = "TIMER0" /\ i.access \in TimerAccesses
        \/ i.dev = "GPIO0" /\ i.access \in [op : Registers \ UartSettings, pins : SUBSET Pins]
    BY <2>1, BusFields
  <2> QED BY <2>2 DEF i, Delivered, GpioWrites
<1>4. ASSUME Current.op = "bus" PROVE InOrder(Current.dev, Current.access)
  <2> DEFINE i == Current
  <2> SUFFICES ASSUME i.dev = "GPIO0"
               PROVE  /\ i.access.op = "INTTYPESET" => InSetUp
                      /\ i.access.op = "INTENSET" => ~InSetUp
    BY DEF InOrder
  <2>1. ASSUME NEW R, i \in Actions(R, I) \cup Jumps(Conditions) PROVE i.access.op \in R
    <3>1. i.op = "bus" /\ i.dev = "GPIO0" BY <1>4
    <3> HIDE DEF i
    <3>2. i.access \in [op : R \ UartSettings, pins : SUBSET Pins]
      BY <2>1, <3>1, BusFields DEF Uarts
    <3> QED BY <3>2
  <2>2. /\ "INTTYPESET" \notin AlwaysUart \cup Switches /\ Always \subseteq AlwaysUart
        /\ "INTENSET" \notin AlwaysUart \cup Configures
    BY DEF Always, AlwaysUart, UartSettings, Switches, Configures
  <2>3. CASE InHandler
    <3>1. EndsIn(HandlersOf[image][handler], Actions(Always, I), Conditions, [op |-> "return"])
      BY <1>0, <2>3, Texts DEF PlaceOK
    <3>2. Current = HandlersOf[image][handler][hpc] /\ hpc \in 1 .. Len(HandlersOf[image][handler])
      BY <2>3 DEF PlaceOK, Current
    <3>3. i \in Actions(Always, I) \cup Jumps(Conditions) BY <3>1, <3>2 DEF EndsIn
    <3> QED BY <2>1, <2>2, <3>3
  <2>4. CASE ~InHandler /\ image # "interrupt_demo"
    <3>1. EndsIn(MainOf[image], Actions(AlwaysUart, I), Conditions, [op |-> "passed"])
      BY <1>0, <2>4, Texts
    <3>2. Current = MainOf[image][pc] /\ pc \in 1 .. Len(MainOf[image]) BY <2>4 DEF PlaceOK, Current
    <3>3. i \in Actions(AlwaysUart, I) \cup Jumps(Conditions) BY <3>1, <3>2 DEF EndsIn
    <3> QED BY <2>1, <2>2, <3>3
  <2>5. CASE ~InHandler /\ image = "interrupt_demo"
    <3>1. Phased(MainOf[image], Actions(Configures, I), Actions(Switches, I), Conditions, SetUpLen)
      BY <1>0, <2>5, Texts
    <3>2. Current = MainOf[image][pc] /\ pc \in 1 .. Len(MainOf[image]) BY <2>5 DEF PlaceOK, Current
    <3>3. IF InSetUp THEN i \in Actions(Configures, I) \cup Jumps(Conditions)
                     ELSE i \in Actions(Switches, I) \cup Jumps(Conditions)
      BY <2>5, <3>1, <3>2 DEF Phased, InSetUp
    <3> QED BY <2>1, <2>2, <3>3
  <2> QED BY <2>3, <2>4, <2>5
<1> QED BY <1>2, <1>3, <1>4

\* How far an instruction moves its program, unless it is the last one.
Steps == IF Current.op \in JumpOps THEN {1, Current.by} ELSE {1}

LEMMA JumpStep ==
  ASSUME PlaceOK, image # "any", Current.op \notin {"passed", "return"},
         NEW n \in Steps, Jump(n), image' = image
  PROVE  PlaceOK' /\ (InSetUp' => InSetUp)
<1> DEFINE I == IrqsOf(image)
           J == Actions(Registers, I)
           i == Current
<1>0. image \in DOMAIN MainOf BY DEF PlaceOK
<1>1. i.op \notin {"passed", "return"} OBVIOUS
<1>2. CASE InHandler
  <2> DEFINE s == HandlersOf[image][handler]
  <2>1. EndsIn(s, Actions(Always, I), Conditions, [op |-> "return"])
    BY <1>0, <1>2, Texts DEF PlaceOK
  <2>2. i = s[hpc] /\ hpc \in 1 .. Len(s) BY <1>2 DEF PlaceOK, Current
  <2>3. hpc' = hpc + n /\ pc' = pc /\ handler' = handler BY <1>2 DEF Jump
  <2>4. (i.op \in JumpOps /\ n = i.by) \/ n = 1 BY DEF Steps
  <2> HIDE DEF i, s
  <2>5. hpc # Len(s) /\ Len(s) \in Nat BY <1>1, <2>1, <2>2 DEF EndsIn
  <2>6. hpc + n \in 1 .. Len(s) BY <2>1, <2>2, <2>4, <2>5 DEF EndsIn
  <2> QED BY <2>3, <2>6 DEF PlaceOK, InHandler, InSetUp, s
<1>3. CASE ~InHandler
  <2> DEFINE s == MainOf[image]
  <2>1. EndsIn(s, J, Conditions, [op |-> "passed"]) BY <1>0, Texts
  <2>2. i = s[pc] /\ pc \in 1 .. Len(s) BY <1>3 DEF PlaceOK, Current
  <2>3. pc' = pc + n /\ handler' = handler BY <1>3 DEF Jump
  <2>4. (i.op \in JumpOps /\ n = i.by) \/ n = 1 BY DEF Steps
  <2>5. image = "interrupt_demo" =>
          Phased(s, Actions(Configures, I), Actions(Switches, I), Conditions, SetUpLen)
    BY <1>0, Texts
  <2> HIDE DEF i, s
  <2>6. pc # Len(s) /\ Len(s) \in Nat BY <1>1, <2>1, <2>2 DEF EndsIn
  <2>7. pc + n \in 1 .. Len(s) BY <2>1, <2>2, <2>4, <2>6 DEF EndsIn
  <2>8. ASSUME image = "interrupt_demo", pc > SetUpLen PROVE pc + n > SetUpLen
    <3>1. SetUpLen \in Nat BY <2>5, <2>6, <2>8 DEF Phased
    <3>2. i.op \in JumpOps => pc + i.by > SetUpLen BY <2>2, <2>5, <2>8, <3>1 DEF Phased
    <3> QED BY <2>2, <2>4, <2>8, <3>1, <3>2
  <2>9. PlaceOK' BY <1>0, <1>3, <2>3, <2>7 DEF PlaceOK, InHandler, s
  <2>10. InSetUp' => InSetUp
    <3>1. ASSUME image = "interrupt_demo" PROVE SetUpLen \in Nat /\ pc \in Int
      BY <2>2, <2>5, <2>6, <3>1 DEF Phased
    <3> QED BY <2>3, <2>8, <3>1 DEF InSetUp
  <2> QED BY <2>9, <2>10
<1> QED BY <1>2, <1>3

\* The interrupts that the program enables are those it has handlers for.
NvicOK ==
  /\ nvic \in [enabled : SUBSET ToSet(Irqs), pending : SUBSET ToSet(Irqs)]
  /\ image # "any" => nvic.enabled \subseteq IrqsOf(image)

LEMMA NvicStep ==
  ASSUME PlaceOK, NvicOK, image # "any", image' = image,
         NEW e, NEW l, NEW h \in SUBSET IrqsOf(image), Nvic(e, l, h)
  PROVE  NvicOK'
<1>1. Lines \subseteq ToSet(Irqs) /\ Lines' \subseteq ToSet(Irqs) BY DEF Lines, Raised
<1>2. IrqsOf(image) \subseteq ToSet(Irqs) BY Texts DEF PlaceOK
<1> HIDE DEF Lines
<1>3. nvic' = [enabled |-> h, pending |-> (nvic.pending \ e) \cup (Lines' \ Lines) \cup (Lines \cap l)]
  BY DEF Nvic
<1>4. nvic.pending \subseteq ToSet(Irqs) BY DEF NvicOK
<1> QED BY <1>1, <1>2, <1>3, <1>4 DEF NvicOK

\* What the program keeps in memory and in registers.
RegNames == {"main", "handler", "saved CTRL", "VALUE"}
MemoryOK ==
  /\ sw \in [DOMAIN Software0 -> 0 .. 19]
  /\ DOMAIN regs = RegNames /\ regs = [r \in RegNames |-> regs[r]]
  /\ regs["VALUE"] \in 0 .. TimerMax
  /\ \A r \in RegNames \ {"VALUE"} : regs[r] \subseteq Modes
  /\ received \in Seq(Chars)
RunOK ==
  /\ event \in BOOLEAN /\ lag \in 0 .. MaxLag /\ printing \in Nat
  /\ outcome \in {"running", "failed", "passed"}

ProgInv == DevicesOK /\ EdgeOK /\ PlaceOK /\ NvicOK /\ MemoryOK /\ RunOK

LEMMA ProgramBounds == MaxLag \in Nat /\ transmit \in Seq(Chars)
BY ProgramAssumption

LEMMA ProgInit == Init => ProgInv
<1> SUFFICES ASSUME Init PROVE ProgInv
  OBVIOUS
<1>1. DevicesOK
  <2>1. LinkTypeOK BY InvInit DEF Init, LinkInv
  <2>2. ResetTimer \in Timer /\ ResetGpio \in Gpio
    BY TimerAssumption DEF ResetTimer, Timer, ResetGpio, Gpio
  <2> QED BY <2>1, <2>2 DEF Init, DevicesOK
<1>2. EdgeOK BY DEF Init, EdgeOK, EdgesAreCurrent, ResetGpio
<1>3. PlaceOK
  <2>1. ASSUME NEW p \in DOMAIN MainOf PROVE 1 \in 1 .. Len(MainOf[p]) BY Texts DEF EndsIn
  <2> QED BY <2>1 DEF Init, PlaceOK, InHandler
<1>4. NvicOK BY DEF Init, NvicOK
<1>5. MemoryOK
  <2>1. regs = [r \in RegNames |-> IF r = "VALUE" THEN 0 ELSE {}] BY DEF Init, RegNames
  <2>2. sw \in [DOMAIN Software0 -> 0 .. 19]
    <3>1. Software0 = [v \in DOMAIN Software0 |-> 0] BY DEF Software0
    <3>2. sw = Software0 BY DEF Init
    <3> QED BY <3>1, <3>2
  <2>3. received \in Seq(Chars) BY EmptySeq DEF Init
  <2>4. DOMAIN regs = RegNames /\ regs = [r \in RegNames |-> regs[r]] BY <2>1
  <2>5. regs["VALUE"] = 0 /\ \A r \in RegNames \ {"VALUE"} : regs[r] = {} BY <2>1 DEF RegNames
  <2>6. 0 \in 0 .. TimerMax BY TimerAssumption
  <2> QED BY <2>2, <2>3, <2>4, <2>5, <2>6 DEF MemoryOK
<1>6. RunOK
  <2>1. event = FALSE /\ lag = 0 /\ printing = 0 /\ outcome = "running" BY DEF Init
  <2>2. event \in BOOLEAN BY <2>1, Zenon
  <2>3. lag \in 0 .. MaxLag /\ printing \in Nat BY <2>1, ProgramBounds
  <2>4. outcome \in {"running", "failed", "passed"} BY <2>1, Zenon
  <2> QED BY <2>2, <2>3, <2>4, Zenon DEF RunOK
<1> QED BY <1>1, <1>2, <1>3, <1>4, <1>5, <1>6 DEF ProgInv

-----------------------------------------------------------------------------
(* The steps of the processor.                                             *)

\* A step of the processor accesses a device, or none, with b; only an
\* instruction of the program configures a UART or sends.
Moves(d, b) ==
  /\ Delivered(d, b) /\ Devices(d, b) /\ InOrder(d, b)
  /\ d \in Uarts /\ b.op \in {"CTRL", "BAUDDIV", "DATA"} =>
       /\ Current.dev = d
       /\ (Current.op = "bus" /\ Current.access = b) \/ (Current.op = "send" /\ b.op = "DATA")
Moving == \E d, b : Moves(d, b)

LEMMA PlainMoves ==
  ASSUME NEW d, NEW b, Delivered(d, b), Devices(d, b), d # "GPIO0",
         d \in Uarts => b.op \notin {"CTRL", "BAUDDIV", "DATA"}
  PROVE  Moves(d, b)
BY DEF Moves, InOrder

LEMMA NoDeviceMoves == NoDevice => Moving
<1> SUFFICES ASSUME NoDevice PROVE Moves("none", NoAccess)
  BY DEF Moving
<1>1. "none" \notin Uarts BY DEF Uarts
<1> QED BY <1>1, PlainMoves DEF NoDevice, Delivered

LEMMA Moved ==
  ASSUME ProgInv, image # "any", image' = image, Moving, PlaceOK', InSetUp' => InSetUp,
         NvicOK', MemoryOK', RunOK'
  PROVE  ProgInv'
<1>1. PICK d, b : Moves(d, b) BY DEF Moving
<1>2. DevicesOK' /\ EdgeOK' BY <1>1, DevicesStep, EdgeStep DEF ProgInv, Moves
<1> QED BY <1>2 DEF ProgInv

LEMMA Stays ==
  ASSUME PlaceOK, image' = image, UNCHANGED <<pc, handler, hpc>>
  PROVE  PlaceOK' /\ (InSetUp' => InSetUp)
BY DEF PlaceOK, InSetUp, InHandler

LEMMA NvicSame ==
  ASSUME PlaceOK, NvicOK, image # "any", image' = image, NvicRuns
  PROVE  NvicOK'
BY NvicStep DEF NvicRuns, NvicOK

LEMMA MemorySame == ASSUME MemoryOK, UNCHANGED <<sw, regs, received>> PROVE MemoryOK'
BY DEF MemoryOK

LEMMA RunStep ==
  ASSUME RunOK, lag' = 0, outcome' = outcome, event' \in BOOLEAN, printing' \in Nat
  PROVE  RunOK'
<1>1. 0 \in 0 .. MaxLag BY ProgramBounds
<1> QED BY <1>1 DEF RunOK

\* The steps of the processor that keep the invariant.
Good == ProgInv' /\ Moving

LEMMA IdleStep == ASSUME ProgInv, image # "any", Idle PROVE Good
<1>1. Moving /\ image' = image BY NoDeviceMoves DEF Idle, Keep
<1>2. PlaceOK' /\ (InSetUp' => InSetUp) BY <1>1, Stays DEF Idle, ProgInv
<1>3. NvicOK' BY <1>1, NvicSame DEF Idle, ProgInv
<1>4. MemoryOK' BY MemorySame DEF Idle, ProgInv
<1>5. RunOK'
  <2>1. lag' \in 0 .. MaxLag BY ProgramBounds DEF Idle, ProgInv, RunOK
  <2>2. event' = event /\ printing' = printing /\ outcome' = outcome BY DEF Idle, Keep
  <2> QED BY <2>1, <2>2 DEF ProgInv, RunOK
<1> QED BY <1>1, <1>2, <1>3, <1>4, <1>5, Moved DEF Good

LEMMA TakeIrqStep == ASSUME ProgInv, image # "any", TakeIrq PROVE Good
<1>1. Moving /\ image' = image BY NoDeviceMoves DEF TakeIrq, Keep
<1>2. PICK n \in DOMAIN Irqs : /\ Irqs[n] \in Requested
                               /\ handler' = Irqs[n] /\ Nvic({Irqs[n]}, {}, nvic.enabled)
  BY DEF TakeIrq
<1>3. handler' \in IrqsOf(image) BY <1>2 DEF Requested, ProgInv, NvicOK
<1>4. PlaceOK'
  <2>1. image \in DOMAIN MainOf BY DEF ProgInv, PlaceOK
  <2>2. EndsIn(HandlersOf[image][handler'], Actions(Always, IrqsOf(image)), Conditions, [op |-> "return"])
    BY <1>3, <2>1, Texts
  <2>3. 1 \in 1 .. Len(HandlersOf[image][handler']) BY <2>2 DEF EndsIn
  <2>4. hpc' = 1 /\ pc' = pc BY DEF TakeIrq
  <2> QED BY <1>1, <1>3, <2>3, <2>4 DEF ProgInv, PlaceOK, InHandler
<1>5. InSetUp' => InSetUp BY <1>1 DEF TakeIrq, InSetUp
<1>6. NvicOK' BY <1>1, <1>2, NvicStep DEF ProgInv, NvicOK
<1>7. MemoryOK' BY MemorySame DEF TakeIrq, ProgInv
<1>8. RunOK' BY RunStep DEF TakeIrq, Keep, ProgInv, RunOK
<1> QED BY <1>1, <1>4, <1>5, <1>6, <1>7, <1>8, Moved DEF Good

LEMMA ReturnStep == ASSUME ProgInv, image # "any", Return PROVE Good
<1>1. Moving /\ image' = image BY NoDeviceMoves DEF Return, Keep
<1>2. PlaceOK' /\ (InSetUp' => InSetUp) BY <1>1 DEF Return, ProgInv, PlaceOK, InHandler, InSetUp
<1>3. NvicOK' BY <1>1, NvicStep DEF ProgInv, Return, NvicOK
<1>4. MemoryOK' BY MemorySame DEF Return, ProgInv
<1>5. RunOK' BY RunStep DEF Return, Ready, Keep, ProgInv, RunOK
<1> QED BY <1>1, <1>2, <1>3, <1>4, <1>5, Moved DEF Good

\* An instruction that is not the last one of its text.
Advances(ops) ==
  /\ Ready(ops) /\ ops \cap {"passed", "return"} = {} /\ image' = image /\ outcome' = outcome
  /\ (\E n \in Steps : Jump(n)) \/ UNCHANGED <<pc, handler, hpc>>

LEMMA Advance ==
  ASSUME ProgInv, image # "any", NEW ops, Advances(ops), Moving, NvicOK', MemoryOK',
         event' \in BOOLEAN, printing' \in Nat
  PROVE  Good
<1>1. PlaceOK' /\ (InSetUp' => InSetUp) BY JumpStep, Stays DEF Advances, Ready, ProgInv
<1>2. RunOK' BY RunStep DEF Advances, Ready, ProgInv
<1> QED BY <1>1, <1>2, Moved DEF Advances, Good

\* The same for one that goes on with the next and leaves the rest alone.
LEMMA NextStep ==
  ASSUME ProgInv, image # "any", NEW ops, Ready(ops), ops \cap {"passed", "return"} = {},
         Keep, Jump(1), NvicOK', MemoryOK', Moving, UNCHANGED <<event, printing>>
  PROVE  Good
<1>1. 1 \in Steps BY DEF Steps
<1>2. Advances(ops) BY <1>1 DEF Advances, Keep
<1> QED BY <1>2, Advance DEF ProgInv, RunOK

\* What the current instruction holds.
LEMMA Fetched ==
  ASSUME ProgInv, image # "any"
  PROVE  /\ Current.op = "bus" => Delivered(Current.dev, Current.access) /\ InOrder(Current.dev, Current.access)
         /\ Current.op = "send" => Current.dev = "UART2" /\ Current.var \in DOMAIN Software0
         /\ Current.op = "store CTRL" => Current.set \in SUBSET Modes /\ Current.clear \in SUBSET Modes
         /\ Current.op = "set" => Current.var \in DOMAIN Software0 /\ Current.to \in {0, 1}
         /\ Current.op = "inc" => Current.var \in DOMAIN Software0
         /\ Current.op \in {"enable", "disable", "clear pending"} => Current.irq \in IrqsOf(image)
         /\ Current.op = "unless" => Current.cond \in Conditions
<1> DEFINE i == Current
<1>1. /\ i \in Actions(Registers, IrqsOf(image)) \cup Jumps(Conditions)
      /\ i.op = "bus" => Delivered(i.dev, i.access) /\ InOrder(i.dev, i.access)
  BY CurrentFacts DEF ProgInv
<1> HIDE DEF i
<1>2. /\ i.op = "send" => i.dev = "UART2" /\ i.var \in Names
      /\ i.op = "store CTRL" => i.set \in SUBSET Modes /\ i.clear \in SUBSET Modes
      /\ i.op = "set" => i.var \in Names /\ i.to \in {0, 1}
      /\ i.op = "inc" => i.var \in Names
      /\ i.op \in {"enable", "disable", "clear pending"} => i.irq \in IrqsOf(image)
      /\ i.op = "unless" => i.cond \in Conditions
  BY <1>1, ActionFields
<1> QED BY <1>1, <1>2 DEF i, Names

LEMMA BusStep == ASSUME ProgInv, image # "any", BusInstruction PROVE Good
<1>1. Ready({"bus"}) /\ Keep /\ image' = image BY DEF BusInstruction, Keep
<1>2. Moving
  <2>1. Current.op = "bus" BY <1>1 DEF Ready
  <2>2. Moves(Current.dev, Current.access) BY <2>1, Fetched DEF BusInstruction, Moves
  <2> QED BY <2>2 DEF Moving
<1>3. NvicOK' BY <1>1, NvicSame DEF BusInstruction, ProgInv
<1>4. MemoryOK' BY MemorySame DEF BusInstruction, ProgInv
<1> QED BY <1>1, <1>2, <1>3, <1>4, NextStep DEF BusInstruction

LEMMA SendStep == ASSUME ProgInv, image # "any", SendInstruction PROVE Good
<1>1. Ready({"send"}) /\ Keep /\ image' = image BY DEF SendInstruction, Keep
<1>2. Moving
  <2>1. PICK c \in Sent(sw[Current.var] + 1) : Devices(Current.dev, WriteData(c))
    BY DEF SendInstruction
  <2>2. c \in Chars BY ProgramBounds DEF Sent
  <2>3. Current.op = "send" /\ Current.dev \in Uarts BY <1>1, Fetched DEF Ready, Uarts
  <2>4. WriteData(c) \in Accesses /\ WriteData(c).op = "DATA" BY <2>2 DEF Accesses, WriteData
  <2>5. Delivered(Current.dev, WriteData(c)) /\ Current.dev # "GPIO0"
    BY <2>3, <2>4 DEF Delivered, Uarts
  <2>6. Moves(Current.dev, WriteData(c)) BY <2>1, <2>3, <2>4, <2>5 DEF Moves, InOrder
  <2> QED BY <2>6 DEF Moving
<1>3. NvicOK' BY <1>1, NvicSame DEF SendInstruction, ProgInv
<1>4. MemoryOK' BY MemorySame DEF SendInstruction, ProgInv
<1> QED BY <1>1, <1>2, <1>3, <1>4, NextStep DEF SendInstruction

LEMMA TimerMoves ==
  ASSUME NEW b \in TimerAccesses, Devices("TIMER0", b)
  PROVE  Moving
<1>1. "TIMER0" \notin Uarts /\ Delivered("TIMER0", b) BY DEF Uarts, Delivered
<1>2. Moves("TIMER0", b) BY <1>1, PlainMoves
<1> QED BY <1>2 DEF Moving

\* A register that gets modes or, for VALUE, a number keeps the types.
LEMMA RegsStep ==
  ASSUME MemoryOK, UNCHANGED <<sw, received>>, NEW r \in RegNames, NEW x,
         IF r = "VALUE" THEN x \in 0 .. TimerMax ELSE x \in SUBSET Modes,
         regs' = [regs EXCEPT ![r] = x]
  PROVE  MemoryOK'
<1>1. DOMAIN regs' = RegNames /\ regs' = [q \in RegNames |-> regs'[q]] BY DEF MemoryOK
<1>2. \A q \in RegNames : regs'[q] = IF q = r THEN x ELSE regs[q] BY DEF MemoryOK
<1>3. regs'["VALUE"] \in 0 .. TimerMax BY <1>2 DEF MemoryOK, RegNames
<1>4. \A q \in RegNames \ {"VALUE"} : regs'[q] \subseteq Modes BY <1>2 DEF MemoryOK
<1> QED BY <1>1, <1>3, <1>4 DEF MemoryOK

LEMMA LoadStep == ASSUME ProgInv, image # "any", LoadInstruction PROVE Good
<1> DEFINE ops == {"load CTRL", "save CTRL", "sample VALUE"}
<1>1. Ready(ops) /\ Keep /\ image' = image /\ Current.op \in ops BY DEF LoadInstruction, Keep, Ready
<1>2. Moving BY TimerMoves DEF LoadInstruction, TimerAccesses
<1>3. NvicOK' BY <1>1, NvicSame DEF LoadInstruction, ProgInv
<1>4. MemoryOK'
  <2>1. timer.reg_ctrl \in SUBSET Modes /\ timer.reg_curr_val \in 0 .. TimerMax
    BY DEF ProgInv, DevicesOK, Timer
  <2>2. MemoryOK /\ UNCHANGED <<sw, received>> BY DEF LoadInstruction, ProgInv
  <2>3. Context \in RegNames /\ Context # "VALUE" /\ "saved CTRL" \in RegNames /\ "VALUE" \in RegNames
    BY DEF Context, RegNames
  <2>4. CASE Current.op = "load CTRL" BY <2>4, <2>1, <2>2, <2>3, RegsStep DEF LoadInstruction
  <2>5. CASE Current.op = "save CTRL" BY <2>5, <2>1, <2>2, <2>3, RegsStep DEF LoadInstruction
  <2>6. CASE Current.op = "sample VALUE" BY <2>6, <2>1, <2>2, <2>3, RegsStep DEF LoadInstruction
  <2> QED BY <1>1, <2>4, <2>5, <2>6
<1> QED BY <1>1, <1>2, <1>3, <1>4, NextStep DEF LoadInstruction

LEMMA StoreStep == ASSUME ProgInv, image # "any", StoreInstruction PROVE Good
<1> DEFINE ops == {"store CTRL", "restore CTRL"}
           m == IF Current.op = "restore CTRL" THEN regs["saved CTRL"]
                ELSE (regs[Context] \cup Current.set) \ Current.clear
<1>1. Ready(ops) /\ Keep /\ image' = image /\ Current.op \in ops
  BY DEF StoreInstruction, Keep, Ready
<1>2. Context \in RegNames /\ Context # "VALUE" /\ "saved CTRL" \in RegNames
  BY DEF Context, RegNames
<1>3. Moving
  <2>1. m \in SUBSET Modes BY <1>1, <1>2, Fetched DEF ProgInv, MemoryOK
  <2> HIDE DEF m
  <2>2. TimerCtrl(m) \in TimerAccesses BY <2>1 DEF TimerAccesses
  <2>3. Devices("TIMER0", TimerCtrl(m)) BY DEF StoreInstruction, m
  <2> QED BY <2>2, <2>3, TimerMoves
<1>4. NvicOK' BY <1>1, NvicSame DEF StoreInstruction, ProgInv
<1>5. MemoryOK'
  <2>1. MemoryOK /\ UNCHANGED <<sw, received>> BY DEF StoreInstruction, ProgInv
  <2>2. CASE Current.op = "store CTRL" BY <2>2, <1>2, <2>1, RegsStep DEF StoreInstruction
  <2>3. CASE Current.op = "restore CTRL" BY <2>3, <2>1, MemorySame DEF StoreInstruction
  <2> QED BY <1>1, <2>2, <2>3
<1> QED BY <1>1, <1>3, <1>4, <1>5, NextStep DEF StoreInstruction

LEMMA BranchStep == ASSUME ProgInv, image # "any", Branch PROVE Good
<1> DEFINE ops == {"unless", "goto"}
           reads == Current.op = "unless" /\ "dev" \in DOMAIN Current.cond
<1>1. Ready(ops) /\ Keep /\ image' = image /\ outcome' = outcome /\ Current.op \in ops
  BY DEF Branch, Keep, Ready
<1>2. Moving
  <2>1. CASE ~reads BY <2>1, NoDeviceMoves DEF Branch
  <2>2. CASE reads
    <3> DEFINE c == Current.cond
               b == IF c.dev = "TIMER0" THEN TimerRead ELSE NoAccess
    <3>1. c \in Conditions /\ "dev" \in DOMAIN c BY <2>2, Fetched
    <3>2. c.dev \in Uarts \cup {"TIMER0", "saved CTRL"}
      <4> HIDE DEF c
      <4>1. c \in [var : Names \cup {"RX & TX", "received"}, is : Tests] => "dev" \notin DOMAIN c
        OBVIOUS
      <4>2. c \in [dev : {"TIMER0"}, is : {"RELOAD", "VALUE"}, value : 0 .. TimerMax] => c.dev = "TIMER0"
        OBVIOUS
      <4>3. c \in [dev : Uarts \cup {"TIMER0", "saved CTRL"}, is : Tests] =>
              c.dev \in Uarts \cup {"TIMER0", "saved CTRL"}
        OBVIOUS
      <4> QED BY <3>1, <4>1, <4>2, <4>3 DEF Conditions
    <3>3. Devices(c.dev, b) BY <2>2 DEF Branch
    <3> HIDE DEF c
    <3>4. CASE c.dev = "TIMER0" BY <3>3, <3>4, TimerMoves DEF TimerAccesses
    <3>5. CASE c.dev # "TIMER0"
      <4>1. Devices(c.dev, NoAccess) /\ NoAccess \in Accesses /\ NoAccess.op = "none"
        BY <3>3, <3>5 DEF Accesses, NoAccess
      <4>2. Delivered(c.dev, NoAccess) /\ c.dev # "GPIO0" BY <3>2, <3>5, <4>1 DEF Delivered, Uarts
      <4>3. Moves(c.dev, NoAccess) BY <4>1, <4>2, PlainMoves
      <4> QED BY <4>3 DEF Moving
    <3> QED BY <3>4, <3>5
  <2> QED BY <2>1, <2>2
<1>3. NvicOK' BY <1>1, NvicSame DEF Branch, ProgInv
<1>4. MemoryOK'
  <2>1. MemoryOK /\ UNCHANGED <<sw, received>> BY DEF Branch, ProgInv
  <2>2. regs' = [regs EXCEPT !["VALUE"] = 0] \/ regs' = regs BY DEF Branch
  <2>3. "VALUE" \in RegNames /\ 0 \in 0 .. TimerMax BY TimerAssumption DEF RegNames
  <2> QED BY <2>1, <2>2, <2>3, RegsStep, MemorySame
<1>5. Advances(ops)
  <2>1. \E n \in Steps : Jump(n) BY <1>1 DEF Steps, JumpOps, Branch
  <2> QED BY <1>1, <2>1 DEF Advances
<1>6. event' \in BOOLEAN /\ printing' \in Nat BY DEF Branch, ProgInv, RunOK
<1> QED BY <1>2, <1>3, <1>4, <1>5, <1>6, Advance

LEMMA AssignStep == ASSUME ProgInv, image # "any", Assign PROVE Good
<1> DEFINE ops == {"set", "inc", "count"}
<1>1. Ready(ops) /\ Keep /\ image' = image /\ Current.op \in ops BY DEF Assign, Keep, Ready
<1>2. Moving BY NoDeviceMoves DEF Assign
<1>3. NvicOK' BY <1>1, NvicSame DEF Assign, ProgInv
<1>4. MemoryOK'
  <2> DEFINE V == DOMAIN Software0
  <2>1. sw \in [V -> 0 .. 19] /\ UNCHANGED <<regs, received>> BY DEF Assign, ProgInv, MemoryOK
  <2>2. "counter" \in V BY DEF Software0
  <2>3. /\ Current.op = "set" => Current.var \in V /\ Current.to \in {0, 1}
        /\ Current.op = "inc" => Current.var \in V
    BY Fetched
  <2> HIDE DEF V
  <2>4. CASE Current.op = "set"
    <3>1. sw' = [sw EXCEPT ![Current.var] = Current.to] BY <2>4 DEF Assign
    <3>2. sw' \in [V -> 0 .. 19] BY <2>1, <2>3, <2>4, <3>1
    <3> QED BY <2>1, <3>2 DEF ProgInv, MemoryOK, V
  <2>5. CASE Current.op = "inc"
    <3> DEFINE n == IF sw[Current.var] < CountCap THEN sw[Current.var] + 1 ELSE sw[Current.var]
    <3>1. sw' = [sw EXCEPT ![Current.var] = n] BY <2>5 DEF Assign
    <3>2. n \in 0 .. 19 BY <2>5, <2>3, <2>1 DEF CountCap
    <3> HIDE DEF n
    <3>3. sw' \in [V -> 0 .. 19] BY <2>1, <3>1, <3>2
    <3> QED BY <2>1, <3>3 DEF ProgInv, MemoryOK, V
  <2>6. CASE Current.op = "count"
    <3>1. sw' = [sw EXCEPT !["counter"] = Counted(sw["counter"])] BY <2>6 DEF Assign
    <3>2. Counted(sw["counter"]) \in 0 .. 19 BY <2>2, <2>1 DEF Counted
    <3>3. sw' \in [V -> 0 .. 19] BY <2>1, <3>1, <3>2
    <3> QED BY <2>1, <3>3 DEF ProgInv, MemoryOK, V
  <2> QED BY <1>1, <2>4, <2>5, <2>6
<1> QED BY <1>1, <1>2, <1>3, <1>4, NextStep DEF Assign

LEMMA StringsStep == ASSUME ProgInv, image # "any", StringStep PROVE Good
<1> DEFINE ops == {"store", "forget received"}
<1>1. Ready(ops) /\ Keep /\ image' = image /\ Current.op \in ops BY DEF StringStep, Keep, Ready
<1>2. Moving BY NoDeviceMoves DEF StringStep
<1>3. NvicOK' BY <1>1, NvicSame DEF StringStep, ProgInv
<1>4. MemoryOK'
  <2>1. rdata["UART3"] \in Chars /\ received \in Seq(Chars)
    BY DEF ProgInv, DevicesOK, LinkTypeOK, Uarts, MemoryOK
  <2>2. received' = Append(received, rdata["UART3"]) \/ received' = <<>> BY DEF StringStep
  <2>3. received' \in Seq(Chars)
    <3>1. Append(received, rdata["UART3"]) \in Seq(Chars) BY <2>1
    <3>2. <<>> \in Seq(Chars) BY EmptySeq
    <3> QED BY <2>2, <3>1, <3>2
  <2> QED BY <2>3 DEF StringStep, ProgInv, MemoryOK
<1> QED BY <1>1, <1>2, <1>3, <1>4, NextStep DEF StringStep

LEMMA EnableStep == ASSUME ProgInv, image # "any", EnableIRQ PROVE Good
<1> DEFINE ops == {"enable", "disable", "clear pending"}
<1>1. Ready(ops) /\ Keep /\ image' = image /\ Current.op \in ops BY DEF EnableIRQ, Keep, Ready
<1>2. Moving BY NoDeviceMoves DEF EnableIRQ
<1>3. NvicOK'
  <2>1. PlaceOK /\ NvicOK /\ nvic.enabled \subseteq IrqsOf(image) /\ Current.irq \in IrqsOf(image)
    BY <1>1, Fetched DEF ProgInv, NvicOK
  <2>2. CASE Current.op = "enable"
    <3>1. Nvic({}, {}, nvic.enabled \cup {Current.irq}) BY <2>2 DEF EnableIRQ
    <3>2. nvic.enabled \cup {Current.irq} \in SUBSET IrqsOf(image) BY <2>1
    <3> QED BY <1>1, <2>1, <3>1, <3>2, NvicStep
  <2>3. CASE Current.op = "disable"
    <3>1. Nvic({}, {}, nvic.enabled \ {Current.irq}) BY <2>3 DEF EnableIRQ
    <3>2. nvic.enabled \ {Current.irq} \in SUBSET IrqsOf(image) BY <2>1
    <3> QED BY <1>1, <2>1, <3>1, <3>2, NvicStep
  <2>4. CASE Current.op = "clear pending"
    <3>1. Nvic({Current.irq}, {Current.irq}, nvic.enabled) BY <2>4 DEF EnableIRQ
    <3>2. nvic.enabled \in SUBSET IrqsOf(image) BY <2>1
    <3> QED BY <1>1, <2>1, <3>1, <3>2, NvicStep
  <2> QED BY <1>1, <2>2, <2>3, <2>4
<1>4. MemoryOK' BY MemorySame DEF EnableIRQ, ProgInv
<1> QED BY <1>1, <1>2, <1>3, <1>4, NextStep DEF EnableIRQ

LEMMA WfeStep == ASSUME ProgInv, image # "any", Wake \/ Sleep PROVE Good
<1>1. Ready({"wfe"}) /\ image' = image /\ outcome' = outcome BY DEF Wake, Sleep, Keep
<1>2. Moving BY NoDeviceMoves DEF Wake, Sleep
<1>3. NvicOK' BY <1>1, NvicSame DEF Wake, Sleep, ProgInv
<1>4. MemoryOK' BY MemorySame DEF Wake, Sleep, ProgInv
<1>5. Advances({"wfe"}) BY <1>1 DEF Advances, Steps, Wake, Sleep
<1>6. event' \in BOOLEAN /\ printing' \in Nat BY DEF Wake, Sleep, ProgInv, RunOK
<1> QED BY <1>2, <1>3, <1>4, <1>5, <1>6, Advance

LEMMA PutsStep == ASSUME ProgInv, image # "any", PutsOn \/ PutsDone PROVE Good
<1>1. Ready({"puts"}) /\ image' = image /\ outcome' = outcome BY DEF PutsOn, PutsDone, Keep
<1>2. Moving BY NoDeviceMoves DEF PutsOn, PutsDone
<1>3. NvicOK' BY <1>1, NvicSame DEF PutsOn, PutsDone, ProgInv
<1>4. MemoryOK' BY MemorySame DEF PutsOn, PutsDone, ProgInv
<1>5. Advances({"puts"}) BY <1>1 DEF Advances, Steps, PutsOn, PutsDone
<1>6. event' \in BOOLEAN /\ printing' \in Nat BY DEF PutsOn, PutsDone, ProgInv, RunOK
<1> QED BY <1>2, <1>3, <1>4, <1>5, <1>6, Advance

LEMMA FinishStep == ASSUME ProgInv, image # "any", Finish PROVE Good
<1>1. image' = image /\ UNCHANGED <<pc, handler, hpc>> BY DEF Finish
<1>2. Moving BY NoDeviceMoves DEF Finish
<1>3. PlaceOK' /\ (InSetUp' => InSetUp) BY <1>1, Stays DEF ProgInv
<1>4. NvicOK' BY <1>1, NvicSame DEF Finish, ProgInv
<1>5. MemoryOK' BY MemorySame DEF Finish, ProgInv
<1>6. RunOK'
  <2>1. 0 \in 0 .. MaxLag /\ lag' = 0 BY ProgramBounds DEF Finish, Ready
  <2>2. outcome' \in {"failed", "passed"} BY DEF Finish
  <2> QED BY <2>1, <2>2 DEF Finish, ProgInv, RunOK
<1> QED BY <1>1, <1>2, <1>3, <1>4, <1>5, <1>6, Moved DEF Good

LEMMA ProcessorStep ==
  ASSUME ProgInv, image # "any", Processor
  PROVE  Good
BY IdleStep, TakeIrqStep, ReturnStep, BusStep, SendStep, LoadStep, StoreStep, BranchStep,
   AssignStep, StringsStep, EnableStep, WfeStep, PutsStep, FinishStep DEF Processor

\* Software of any kind uses nothing but the UARTs.
LEMMA AnyStep == ASSUME ProgInv, AnySoftware PROVE ProgInv'
<1>1. UNCHANGED <<timer, gpio, sampled, progVars>> BY DEF AnySoftware
<1>2. LinkTypeOK'
  <2>1. PICK i, b : i \in Uarts /\ Allowed(b) /\ Access(i, b) BY EveryStepIsAnAccess DEF AnySoftware
  <2>2. b \in Accesses BY <2>1 DEF Allowed
  <2> QED BY <2>1, <2>2, TypesStep DEF ProgInv, DevicesOK
<1>3. DevicesOK' BY <1>1, <1>2 DEF ProgInv, DevicesOK
<1>4. PlaceOK' /\ EdgeOK'
  BY <1>1 DEF ProgInv, progVars, PlaceOK, InHandler, EdgeOK, EdgesAreCurrent, InSetUp
<1>5. NvicOK' /\ MemoryOK' /\ RunOK' BY <1>1 DEF ProgInv, progVars, NvicOK, MemoryOK, RunOK
<1> QED BY <1>3, <1>4, <1>5 DEF ProgInv

LEMMA SameProg == ASSUME ProgInv, UNCHANGED allVars PROVE ProgInv'
<1>1. UNCHANGED <<uart, rdata, bus, timer, gpio, sampled>> /\ UNCHANGED progVars
  BY DEF allVars, hwVars, linkVars
<1>2. DevicesOK' BY <1>1 DEF ProgInv, DevicesOK, LinkTypeOK
<1>3. PlaceOK' /\ EdgeOK'
  BY <1>1 DEF ProgInv, progVars, PlaceOK, InHandler, EdgeOK, EdgesAreCurrent, InSetUp
<1>4. NvicOK' /\ MemoryOK' /\ RunOK' BY <1>1 DEF ProgInv, progVars, NvicOK, MemoryOK, RunOK
<1> QED BY <1>2, <1>3, <1>4 DEF ProgInv

LEMMA ProgStep == ProgInv /\ [Next]_allVars => ProgInv'
BY ProcessorStep, AnyStep, SameProg DEF Next, Ended, Good

LEMMA ProgTypes == ProgInv => TypeOK /\ EdgesAreCurrent
<1> SUFFICES ASSUME ProgInv PROVE TypeOK /\ EdgesAreCurrent
  OBVIOUS
<1>1. handler \in {"none"} \cup ToSet(Irqs) /\ (InHandler => hpc \in 1 .. Len(HandlersOf[image][handler]))
  <2>1. CASE InHandler BY <2>1, Texts DEF ProgInv, PlaceOK
  <2>2. CASE ~InHandler BY <2>2 DEF InHandler
  <2> QED BY <2>1, <2>2
<1>2. \A r \in DOMAIN regs \ {"VALUE"} : regs[r] \subseteq Modes BY DEF ProgInv, MemoryOK
<1> QED BY <1>1, <1>2 DEF ProgInv, DevicesOK, EdgeOK, PlaceOK, NvicOK, MemoryOK, RunOK, TypeOK

-----------------------------------------------------------------------------
(* The programs and the channel.                                           *)

\* Every step is an access of the link, and one that the rule of the drivers allows.
LEMMA StepIsAllowed ==
  ASSUME ProgInv, ConfiguredWhenQuiet, Next
  PROVE  (\E i, b : i \in Uarts /\ Allowed(b) /\ Access(i, b)) \/ UNCHANGED linkVars
<1> DEFINE Done == \E i, b : i \in Uarts /\ Allowed(b) /\ Access(i, b)
<1>1. CASE AnySoftware BY <1>1, EveryStepIsAnAccess DEF AnySoftware
<1>2. CASE Ended BY <1>2 DEF Ended, allVars, hwVars
<1>3. CASE image # "any" /\ Processor
  <2>1. PICK d, b : Moves(d, b) BY <1>3, ProcessorStep DEF Good, Moving
  <2>2. CASE d \in Uarts
    <3>1. b \in Accesses /\ Access(d, b) BY <2>1, <2>2 DEF Moves, Delivered, Devices, Uarts
    <3>2. b.op \in {"CTRL", "BAUDDIV"} => Quiet BY <1>3, <2>1, <2>2 DEF Moves, ConfiguredWhenQuiet
    <3> QED BY <2>2, <3>1, <3>2 DEF Allowed
  <2>3. CASE d \notin Uarts
    <3>1. Access("UART2", NoAccess) BY <2>1, <2>3 DEF Moves, Devices, NoBus
    <3>2. Allowed(NoAccess) BY DEF Allowed, Accesses, NoAccess
    <3>3. "UART2" \in Uarts BY DEF Uarts
    <3> QED BY <3>1, <3>2, <3>3
  <2> QED BY <2>2, <2>3
<1> QED BY <1>1, <1>2, <1>3 DEF Next

LEMMA LinkStep ==
  ASSUME ProgInv, LinkInv, ConfiguredWhenQuiet, [Next]_allVars
  PROVE  LinkInv' /\ [Channel!Next]_(Channel!chanVars)
<1>1. (\E i, b : i \in Uarts /\ Allowed(b) /\ Access(i, b)) \/ UNCHANGED linkVars
  BY StepIsAllowed DEF allVars, hwVars
<1>2. CASE \E i, b : i \in Uarts /\ Allowed(b) /\ Access(i, b) BY InvStep, <1>2, EveryAccessIsAStep
<1>3. CASE UNCHANGED linkVars
  <2>1. LinkInv' BY <1>3 DEF linkVars, LinkInv, LinkTypeOK
  <2>2. UNCHANGED Channel!chanVars
    BY <1>3 DEF linkVars, Channel!chanVars, Held, OnLine, Waiting, Overruns, Interrupts,
                Enabled2to3, LastOp
  <2> QED BY <2>1, <2>2
<1> QED BY <1>1, <1>2, <1>3

\* Whatever program runs and wherever its handlers interrupt it, no jump leaves
\* its text, an interrupt that is taken has a handler in that program, and every
\* register and variable keeps its range, with a string and periods of any kind
\* (uart_driver_tests.c:70-375, timer_driver_tests.c:64-502,
\* interrupt_demo.c:160-532).
THEOREM ProgramsTypeCorrect == Spec => []TypeOK
BY ProgInit, ProgStep, ProgTypes, PTL DEF Spec

\* The port never compares a pin that interrupts on an edge with a value older
\* than the last clock (cmsdk_iop_gpio.v:555-562): interrupt_demo.c sets the
\* types of its pins before it enables the first interrupt, and the port keeps
\* the pins from then on (interrupt_demo.c:315-336).
THEOREM EdgesAlwaysCurrent == Spec => []EdgesAreCurrent
BY ProgInit, ProgStep, ProgTypes, PTL DEF Spec

\* As long as the programs configure a UART only while no byte is under way
\* (CM3DS_MPS2_driver.c:289-291 does not wait for that), each of their steps, the
\* handlers' included, is a step of the byte channel: what ImplementsChannel says
\* of arbitrary software holds of them.
THEOREM ProgramsUseTheChannel == Spec /\ []ConfiguredWhenQuiet => ChannelSpec
<1>1. Init => LinkInv /\ Channel!Init BY InvInit, Start DEF Init
<1>2. ProgInv /\ LinkInv /\ ConfiguredWhenQuiet /\ [Next]_allVars
        => ProgInv' /\ LinkInv' /\ [Channel!Next]_(Channel!chanVars)
  BY ProgStep, LinkStep
<1> QED BY <1>1, <1>2, ProgInit, PTL DEF Spec, ChannelSpec, Channel!Spec

-----------------------------------------------------------------------------
(* The text of the port example of interrupt_demo.c: what stands where,    *)
(* for calls of any length, however long the timer example before it is.   *)

\* A call, as it stands in a program.
Calls(s, o) == \A j \in 1 .. CallTime : s[o + j] = [op |-> "goto", by |-> 1]

LEMMA CallText ==
  /\ CallTime \in Nat
  /\ IsText(Call) /\ Len(Call) = CallTime
  /\ \A s, o : Holding(s, o, Call) => Calls(s, o)
<1> DEFINE g == [op |-> "goto", by |-> 1]
<1>1. Call \in Seq({g}) /\ Len(Call) = CallTime /\ \A k \in 1 .. CallTime : Call[k] = g
  <2>1. g \in {g} /\ Call = [n \in 1 .. CallTime |-> g] BY DEF Call
  <2> HIDE DEF g
  <2> QED BY <2>1, DriverAssumption, IsASeq
<1> QED BY <1>1, DriverAssumption DEF IsText, Holding, Calls

\* The functions of the driver that write one register of the port, or two.
LEMMA OneWrite ==
  ASSUME NEW i
  PROVE  LET t == Call \o <<i>> IN
         /\ IsText(t) /\ Len(t) = CallTime + 1
         /\ \A s : \A o \in Int : Holding(s, o, t) => Calls(s, o) /\ s[o + CallTime + 1] = i
<1> DEFINE z == <<i>>
<1>1. IsText(z) /\ Len(z) = 1 /\ \A s, o : Holding(s, o, z) => s[o + 1] = i BY OneInstruction
<1> HIDE DEF z
<1> QED BY <1>1, CallText, TextParts DEF z

LEMMA TwoWrites ==
  ASSUME NEW i, NEW j
  PROVE  LET t == Call \o <<i>> \o <<j>> IN
         /\ IsText(t) /\ Len(t) = CallTime + 2
         /\ \A s : \A o \in Int :
              Holding(s, o, t) => Calls(s, o) /\ s[o + CallTime + 1] = i /\ s[o + CallTime + 2] = j
<1> DEFINE y == Call \o <<i>>
           z == <<j>>
<1>1. IsText(z) /\ Len(z) = 1 /\ \A s, o : Holding(s, o, z) => s[o + 1] = j BY OneInstruction
<1>2. /\ IsText(y) /\ Len(y) = CallTime + 1
      /\ \A s : \A o \in Int : Holding(s, o, y) => Calls(s, o) /\ s[o + CallTime + 1] = i
  BY OneWrite
<1>3. y \o z = Call \o <<i>> \o <<j>> OBVIOUS
<1> HIDE DEF y, z
<1>4. /\ IsText(y \o z) /\ Len(y \o z) = CallTime + 1 + 1
      /\ \A s : \A o \in Int : Holding(s, o, y \o z) => Holding(s, o, y) /\ Holding(s, o + (CallTime + 1), z)
  BY <1>1, <1>2, TextParts
<1>5. ASSUME NEW s, NEW o \in Int, Holding(s, o, y \o z)
      PROVE  Calls(s, o) /\ s[o + CallTime + 1] = i /\ s[o + CallTime + 2] = j
  <2>1. Holding(s, o, y) /\ Holding(s, o + (CallTime + 1), z) BY <1>4, <1>5
  <2>2. s[(o + (CallTime + 1)) + 1] = j BY <1>1, <2>1
  <2>3. (o + (CallTime + 1)) + 1 = o + CallTime + 2 BY DriverAssumption
  <2> QED BY <1>2, <2>1, <2>2, <2>3
<1>6. CallTime + 1 + 1 = CallTime + 2 BY DriverAssumption
<1> QED BY <1>3, <1>4, <1>5, <1>6

\* The write of a register of the port, and the other instructions of the demo.
W(r, P)     == [op |-> "bus", dev |-> "GPIO0", access |-> GpioWrite(r, P)]
SetI(v, n)  == [op |-> "set", var |-> v, to |-> n]
PutsI       == [op |-> "puts", chars |-> 0]
IrqI(op, h) == [op |-> op, irq |-> h]

\* The types of the four pins.
LEMMA TypesText ==
  /\ IsText(Demo!SetTypes) /\ Len(Demo!SetTypes) = 4 * CallTime + 8
  /\ \A s : \A o \in Int : Holding(s, o, Demo!SetTypes) =>
       /\ Calls(s, o)                    /\ Calls(s, o + CallTime + 2)
       /\ Calls(s, o + 2 * CallTime + 4) /\ Calls(s, o + 3 * CallTime + 6)
       /\ s[o + CallTime + 1] = W("INTTYPECLR", {7})
       /\ s[o + CallTime + 2] = W("INTPOLSET", {7})
       /\ s[o + 2 * CallTime + 3] = W("INTTYPECLR", {8})
       /\ s[o + 2 * CallTime + 4] = W("INTPOLCLR", {8})
       /\ s[o + 3 * CallTime + 5] = W("INTTYPESET", {9})
       /\ s[o + 3 * CallTime + 6] = W("INTPOLSET", {9})
       /\ s[o + 4 * CallTime + 7] = W("INTTYPESET", {10})
       /\ s[o + 4 * CallTime + 8] = W("INTPOLCLR", {10})
<1> DEFINE P(t, i, j) ==
             /\ IsText(t) /\ Len(t) = CallTime + 2
             /\ \A s : \A o \in Int : Holding(s, o, t) =>
                  Calls(s, o) /\ s[o + CallTime + 1] = i /\ s[o + CallTime + 2] = j
           a == gpio_SetIntHighLevel(7)
           b == gpio_SetIntLowLevel(8)
           c == gpio_SetIntRisingEdge(9)
           d == gpio_SetIntFallingEdge(10)
<1>1. \A i, j : P(Call \o <<i>> \o <<j>>, i, j) BY TwoWrites
<1>2. /\ P(a, W("INTTYPECLR", {7}), W("INTPOLSET", {7}))
      /\ P(b, W("INTTYPECLR", {8}), W("INTPOLCLR", {8}))
      /\ P(c, W("INTTYPESET", {9}), W("INTPOLSET", {9}))
      /\ P(d, W("INTTYPESET", {10}), W("INTPOLCLR", {10}))
  <2>1. /\ a = Call \o <<W("INTTYPECLR", {7})>> \o <<W("INTPOLSET", {7})>>
        /\ b = Call \o <<W("INTTYPECLR", {8})>> \o <<W("INTPOLCLR", {8})>>
        /\ c = Call \o <<W("INTTYPESET", {9})>> \o <<W("INTPOLSET", {9})>>
        /\ d = Call \o <<W("INTTYPESET", {10})>> \o <<W("INTPOLCLR", {10})>>
    BY DEF gpio_SetIntHighLevel, gpio_SetIntLowLevel, gpio_SetIntRisingEdge, gpio_SetIntFallingEdge,
           Gpio0, Bus, W
  <2> HIDE DEF P, a, b, c, d
  <2> QED BY <1>1, <2>1
<1>3. Demo!SetTypes = a \o b \o c \o d BY SameDemo DEF Demo!SetTypes
<1> HIDE DEF a, b, c, d
<1>4. Parts4(Demo!SetTypes, a, b, c, d) BY <1>2, <1>3, FourParts
<1>5. ASSUME NEW s, NEW o \in Int, Holding(s, o, Demo!SetTypes)
      PROVE  /\ Calls(s, o)                    /\ Calls(s, o + CallTime + 2)
             /\ Calls(s, o + 2 * CallTime + 4) /\ Calls(s, o + 3 * CallTime + 6)
             /\ s[o + CallTime + 1] = W("INTTYPECLR", {7})
             /\ s[o + CallTime + 2] = W("INTPOLSET", {7})
             /\ s[o + 2 * CallTime + 3] = W("INTTYPECLR", {8})
             /\ s[o + 2 * CallTime + 4] = W("INTPOLCLR", {8})
             /\ s[o + 3 * CallTime + 5] = W("INTTYPESET", {9})
             /\ s[o + 3 * CallTime + 6] = W("INTPOLSET", {9})
             /\ s[o + 4 * CallTime + 7] = W("INTTYPESET", {10})
             /\ s[o + 4 * CallTime + 8] = W("INTPOLCLR", {10})
  <2> DEFINE p == o + CallTime + 2
             q == o + 2 * CallTime + 4
             r == o + 3 * CallTime + 6
  <2>1. /\ p \in Int /\ q \in Int /\ r \in Int
        /\ o + Len(a) = p /\ o + Len(a) + Len(b) = q /\ o + Len(a) + Len(b) + Len(c) = r
        /\ p + CallTime + 1 = o + 2 * CallTime + 3 /\ p + CallTime + 2 = q
        /\ q + CallTime + 1 = o + 3 * CallTime + 5 /\ q + CallTime + 2 = r
        /\ r + CallTime + 1 = o + 4 * CallTime + 7 /\ r + CallTime + 2 = o + 4 * CallTime + 8
    BY <1>2, DriverAssumption
  <2>2. Holding(s, o, a) /\ Holding(s, p, b) /\ Holding(s, q, c) /\ Holding(s, r, d)
    BY <1>4, <1>5, <2>1 DEF Parts4
  <2> HIDE DEF p, q, r
  <2>3. Calls(s, o) /\ s[o + CallTime + 1] = W("INTTYPECLR", {7}) /\ s[o + CallTime + 2] = W("INTPOLSET", {7})
    BY <1>2, <2>2
  <2>4. Calls(s, p) /\ s[p + CallTime + 1] = W("INTTYPECLR", {8}) /\ s[p + CallTime + 2] = W("INTPOLCLR", {8})
    BY <1>2, <2>1, <2>2
  <2>5. Calls(s, q) /\ s[q + CallTime + 1] = W("INTTYPESET", {9}) /\ s[q + CallTime + 2] = W("INTPOLSET", {9})
    BY <1>2, <2>1, <2>2
  <2>6. Calls(s, r) /\ s[r + CallTime + 1] = W("INTTYPESET", {10}) /\ s[r + CallTime + 2] = W("INTPOLCLR", {10})
    BY <1>2, <2>1, <2>2
  <2> QED BY <2>1, <2>3, <2>4, <2>5, <2>6 DEF p, q, r
<1>6. Len(Demo!SetTypes) = 4 * CallTime + 8 BY <1>2, <1>4, DriverAssumption DEF Parts4
<1> QED BY <1>4, <1>5, <1>6 DEF Parts4

\* The set-up of the pins.
LEMMA SetUpText ==
  /\ IsText(SetUp) /\ Len(SetUp) = 5 * CallTime + 12
  /\ \A s : \A o \in Int : Holding(s, o, SetUp) =>
       /\ s[o + 1] = SetI("err_code", 0) /\ s[o + 2] = PutsI /\ Calls(s, o + 2)
       /\ s[o + CallTime + 3] = W("OUTENABLESET", 7 .. 10)
       /\ s[o + CallTime + 4] = W("DATAOUT", {8, 10})
       /\ Holding(s, o + CallTime + 4, Demo!SetTypes)
<1> DEFINE i1 == SetI("err_code", 0)
           i3 == W("OUTENABLESET", 7 .. 10)
           i4 == W("DATAOUT", {8, 10})
           a == <<i1>>
           b == <<PutsI>>
           c == Call \o <<i3>>
           d == <<i4>>
           e == Demo!SetTypes
<1>1. SetUp = a \o b \o c \o d \o e
  <2>1. Demo!Set("err_code", 0) = a /\ Demo!Prints = b
    BY SameDemo DEF Set, SetI, Demo!Prints, Puts, PutsI
  <2>2. Demo!gpio_SetOutEnable(7 .. 10) = c BY SameDemo DEF gpio_SetOutEnable, Gpio0, Bus, W
  <2>3. Demo!DataOut(Demo!Pattern("A")) = d BY SameDemo DEF DataOut, Gpio0, Bus, W, Demo!Pattern
  <2> QED BY <2>1, <2>2, <2>3 DEF SetUp
<1> HIDE DEF i1, i3, i4
<1>2. /\ IsText(a) /\ Len(a) = 1 /\ \A s, o : Holding(s, o, a) => s[o + 1] = i1
      /\ IsText(b) /\ Len(b) = 1 /\ \A s, o : Holding(s, o, b) => s[o + 1] = PutsI
      /\ IsText(d) /\ Len(d) = 1 /\ \A s, o : Holding(s, o, d) => s[o + 1] = i4
  BY OneInstruction
<1>3. /\ IsText(c) /\ Len(c) = CallTime + 1
      /\ \A s : \A o \in Int : Holding(s, o, c) => Calls(s, o) /\ s[o + CallTime + 1] = i3
  BY OneWrite
<1>4. IsText(e) /\ Len(e) = 4 * CallTime + 8 BY TypesText
<1> HIDE DEF a, b, c, d, e
<1>5. Parts5(SetUp, a, b, c, d, e) BY <1>1, <1>2, <1>3, <1>4, FiveParts
<1>6. Len(SetUp) = 5 * CallTime + 12 BY <1>2, <1>3, <1>4, <1>5, DriverAssumption DEF Parts5
<1>7. ASSUME NEW s, NEW o \in Int, Holding(s, o, SetUp)
      PROVE  /\ s[o + 1] = i1 /\ s[o + 2] = PutsI /\ Calls(s, o + 2)
             /\ s[o + CallTime + 3] = i3 /\ s[o + CallTime + 4] = i4
             /\ Holding(s, o + CallTime + 4, e)
  <2> DEFINE m == o + CallTime + 3
  <2>1. /\ o + Len(a) = o + 1 /\ o + Len(a) + Len(b) = o + 2
        /\ o + Len(a) + Len(b) + Len(c) = m
        /\ o + Len(a) + Len(b) + Len(c) + Len(d) = o + CallTime + 4
        /\ (o + 1) + 1 = o + 2 /\ (o + 2) + CallTime + 1 = m /\ m + 1 = o + CallTime + 4
        /\ o + 2 \in Int
    BY <1>2, <1>3, DriverAssumption
  <2>2. /\ Holding(s, o, a) /\ Holding(s, o + 1, b) /\ Holding(s, o + 2, c)
        /\ Holding(s, m, d) /\ Holding(s, o + CallTime + 4, e)
    BY <1>5, <1>7, <2>1 DEF Parts5
  <2>3. Calls(s, o + 2) /\ s[(o + 2) + CallTime + 1] = i3 BY <1>3, <2>1, <2>2
  <2>4. s[o + 1] = i1 /\ s[(o + 1) + 1] = PutsI /\ s[m + 1] = i4 BY <1>2, <2>2
  <2> QED BY <2>1, <2>2, <2>3, <2>4
<1> QED BY <1>5, <1>6, <1>7 DEF Parts5, i1, i3, i4, e

TestLen   == 2 * CallTime + 9
IrqIsSet  == [var |-> "irq_triggered", is |-> "set"]
UnlessI(c, n) == [op |-> "unless", cond |-> c, by |-> n]
GotoI(n)  == [op |-> "goto", by |-> n]
ReturnI   == [op |-> "return"]

\* The end of a test: what main() does when the interrupt was taken, or was not.
LEMMA VerdictText ==
  LET t == Demo!IfElse(Demo!Var("irq_triggered", "set"),
             Demo!Prints \o Demo!Set("irq_triggered", 0), Demo!Set("err_code", 1)) IN
  /\ IsText(t) /\ Len(t) = 5
  /\ \A s : \A o \in Int : Holding(s, o, t) =>
       /\ s[o + 1] = UnlessI(IrqIsSet, 4) /\ s[o + 2] = PutsI /\ s[o + 3] = SetI("irq_triggered", 0)
       /\ s[o + 4] = GotoI(2) /\ s[o + 5] = SetI("err_code", 1)
<1> DEFINE t == Demo!IfElse(Demo!Var("irq_triggered", "set"),
                  Demo!Prints \o Demo!Set("irq_triggered", 0), Demo!Set("err_code", 1))
           i1 == UnlessI(IrqIsSet, 4)
           i3 == SetI("irq_triggered", 0)
           i4 == GotoI(2)
           i5 == SetI("err_code", 1)
           a == <<i1>>
           b == <<PutsI>>
           c == <<i3>>
           d == <<i4>>
           e == <<i5>>
<1>1. t = a \o (b \o c) \o d \o e
  <2>1. t = IfElse(IrqIsSet, b \o c, e)
    BY SameDemo DEF Var, IrqIsSet, Demo!Prints, Puts, PutsI, Set, SetI
  <2>2. Len(b \o c) = 2 /\ Len(e) = 1 OBVIOUS
  <2> QED BY <2>1, <2>2 DEF IfElse, Unless, Goto, UnlessI, GotoI
<1> HIDE DEF t, i1, i3, i4, i5
<1>2. /\ IsText(a) /\ Len(a) = 1 /\ \A s, o : Holding(s, o, a) => s[o + 1] = i1
      /\ IsText(b) /\ Len(b) = 1 /\ \A s, o : Holding(s, o, b) => s[o + 1] = PutsI
      /\ IsText(c) /\ Len(c) = 1 /\ \A s, o : Holding(s, o, c) => s[o + 1] = i3
      /\ IsText(d) /\ Len(d) = 1 /\ \A s, o : Holding(s, o, d) => s[o + 1] = i4
      /\ IsText(e) /\ Len(e) = 1 /\ \A s, o : Holding(s, o, e) => s[o + 1] = i5
  BY OneInstruction
<1> HIDE DEF a, b, c, d, e
<1> DEFINE bc == b \o c
<1>7. /\ IsText(bc) /\ Len(bc) = Len(b) + Len(c)
      /\ \A s : \A o \in Int : Holding(s, o, bc) => Holding(s, o, b) /\ Holding(s, o + Len(b), c)
  BY <1>2, TextParts
<1> HIDE DEF bc
<1>3. /\ IsText(bc) /\ Len(bc) = 2
      /\ \A s : \A o \in Int : Holding(s, o, bc) => Holding(s, o, b) /\ Holding(s, o + 1, c)
  BY <1>2, <1>7
<1>4. Parts4(t, a, bc, d, e) BY <1>1, <1>2, <1>3, FourParts DEF bc
<1>5. ASSUME NEW s, NEW o \in Int, Holding(s, o, t)
      PROVE  /\ s[o + 1] = i1 /\ s[o + 2] = PutsI /\ s[o + 3] = i3 /\ s[o + 4] = i4 /\ s[o + 5] = i5
  <2>1. /\ o + Len(a) = o + 1 /\ o + Len(a) + Len(bc) = o + 3 /\ o + Len(a) + Len(bc) + Len(d) = o + 4
        /\ o + 1 \in Int
    BY <1>2, <1>3
  <2>2. Holding(s, o, a) /\ Holding(s, o + 1, bc) /\ Holding(s, o + 3, d) /\ Holding(s, o + 4, e)
    BY <1>4, <1>5, <2>1 DEF Parts4
  <2>3. Holding(s, o + 1, b) /\ Holding(s, (o + 1) + 1, c) BY <1>3, <2>1, <2>2
  <2>4. s[o + 1] = i1 /\ s[(o + 1) + 1] = PutsI /\ s[((o + 1) + 1) + 1] = i3 /\ s[(o + 3) + 1] = i4 /\ s[(o + 4) + 1] = i5
    BY <1>2, <2>2, <2>3
  <2>5. (o + 1) + 1 = o + 2 /\ ((o + 1) + 1) + 1 = o + 3 /\ (o + 3) + 1 = o + 4 /\ (o + 4) + 1 = o + 5
    OBVIOUS
  <2> QED BY <2>4, <2>5
<1>6. Len(t) = 5 BY <1>2, <1>3, <1>4 DEF Parts4
<1> QED BY <1>4, <1>5, <1>6 DEF Parts4, t, i1, i3, i4, i5

\* The test of a pin.
IsTest(s, o, n, P) ==
  /\ Calls(s, o)
  /\ s[o + CallTime + 1] = W("INTENSET", {n})
  /\ s[o + CallTime + 2] = W("DATAOUT", P)
  /\ Calls(s, o + CallTime + 2)
  /\ s[o + 2 * CallTime + 3] = W("INTENCLR", {n})
  /\ s[o + 2 * CallTime + 4] = PutsI
  /\ s[o + 2 * CallTime + 5] = UnlessI(IrqIsSet, 4)
  /\ s[o + 2 * CallTime + 6] = PutsI
  /\ s[o + 2 * CallTime + 7] = SetI("irq_triggered", 0)
  /\ s[o + 2 * CallTime + 8] = GotoI(2)
  /\ s[o + 2 * CallTime + 9] = SetI("err_code", 1)

LEMMA TestText ==
  ASSUME NEW n, NEW nib
  PROVE  /\ IsText(Demo!Test(n, nib)) /\ Len(Demo!Test(n, nib)) = TestLen
         /\ \A s : \A o \in Int : Holding(s, o, Demo!Test(n, nib)) => IsTest(s, o, n, Demo!Pattern(nib))
<1> DEFINE i1 == W("INTENSET", {n})
           i2 == W("DATAOUT", Demo!Pattern(nib))
           i3 == W("INTENCLR", {n})
           t == Demo!Test(n, nib)
           a == Call \o <<i1>>
           b == <<i2>>
           c == Call \o <<i3>>
           d == <<PutsI>>
           e == Demo!IfElse(Demo!Var("irq_triggered", "set"),
                  Demo!Prints \o Demo!Set("irq_triggered", 0), Demo!Set("err_code", 1))
<1>1. t = a \o b \o c \o d \o e
  BY SameDemo DEF Demo!Test, gpio_SetIntEnable, gpio_ClrIntEnable, Gpio0, Bus, W, DataOut,
                  Demo!Prints, Puts, PutsI
<1> HIDE DEF t, i1, i2, i3
<1>2. /\ IsText(b) /\ Len(b) = 1 /\ \A s, o : Holding(s, o, b) => s[o + 1] = i2
      /\ IsText(d) /\ Len(d) = 1 /\ \A s, o : Holding(s, o, d) => s[o + 1] = PutsI
  BY OneInstruction
<1>3. /\ IsText(a) /\ Len(a) = CallTime + 1
      /\ \A s : \A o \in Int : Holding(s, o, a) => Calls(s, o) /\ s[o + CallTime + 1] = i1
      /\ IsText(c) /\ Len(c) = CallTime + 1
      /\ \A s : \A o \in Int : Holding(s, o, c) => Calls(s, o) /\ s[o + CallTime + 1] = i3
  BY OneWrite
<1>4. /\ IsText(e) /\ Len(e) = 5
      /\ \A s : \A o \in Int : Holding(s, o, e) =>
           /\ s[o + 1] = UnlessI(IrqIsSet, 4) /\ s[o + 2] = PutsI /\ s[o + 3] = SetI("irq_triggered", 0)
           /\ s[o + 4] = GotoI(2) /\ s[o + 5] = SetI("err_code", 1)
  BY VerdictText
<1> HIDE DEF a, b, c, d, e
<1>5. Parts5(t, a, b, c, d, e) BY <1>1, <1>2, <1>3, <1>4, FiveParts
<1>6. IsText(t) /\ Len(t) = TestLen BY <1>2, <1>3, <1>4, <1>5, DriverAssumption DEF Parts5, TestLen
<1>7. ASSUME NEW s, NEW o \in Int, Holding(s, o, t) PROVE IsTest(s, o, n, Demo!Pattern(nib))
  <2> DEFINE p == o + CallTime + 2
             q == o + 2 * CallTime + 3
             r == o + 2 * CallTime + 4
  <2>1. /\ p \in Int /\ r \in Int /\ o + CallTime + 1 \in Int
        /\ o + Len(a) = o + CallTime + 1 /\ (o + CallTime + 1) + 1 = p
        /\ o + Len(a) + Len(b) = p /\ p + CallTime + 1 = q
        /\ o + Len(a) + Len(b) + Len(c) = q /\ q + 1 = r
        /\ o + Len(a) + Len(b) + Len(c) + Len(d) = r
        /\ r + 1 = o + 2 * CallTime + 5 /\ r + 2 = o + 2 * CallTime + 6
        /\ r + 3 = o + 2 * CallTime + 7 /\ r + 4 = o + 2 * CallTime + 8
        /\ r + 5 = o + 2 * CallTime + 9
    BY <1>2, <1>3, <1>4, DriverAssumption
  <2> HIDE DEF p, q, r
  <2>2. /\ Holding(s, o, a) /\ Holding(s, o + CallTime + 1, b) /\ Holding(s, p, c)
        /\ Holding(s, q, d) /\ Holding(s, r, e)
    BY <1>5, <1>7, <2>1 DEF Parts5
  <2>3. Calls(s, o) /\ s[o + CallTime + 1] = i1 /\ Calls(s, p) /\ s[p + CallTime + 1] = i3
    BY <1>3, <2>1, <2>2
  <2>4. s[(o + CallTime + 1) + 1] = i2 /\ s[q + 1] = PutsI BY <1>2, <2>2
  <2>5. /\ s[r + 1] = UnlessI(IrqIsSet, 4) /\ s[r + 2] = PutsI /\ s[r + 3] = SetI("irq_triggered", 0)
        /\ s[r + 4] = GotoI(2) /\ s[r + 5] = SetI("err_code", 1)
    BY <1>4, <2>1, <2>2
  <2> QED BY <2>1, <2>3, <2>4, <2>5 DEF IsTest, p, q, r, i1, i2, i3
<1> QED BY <1>6, <1>7 DEF t

\* The handlers of the port, with their returns.
LEMMA LevelHandler ==
  ASSUME NEW n, NEW P
  PROVE  LET t == <<SetI("irq_triggered", 1)>> \o <<W("DATAOUT", P)>>
                    \o (Call \o <<W("INTCLEAR", {n})>>) \o <<ReturnI>> IN
         /\ Len(t) = CallTime + 4 /\ t[1] = SetI("irq_triggered", 1) /\ t[2] = W("DATAOUT", P)
         /\ Calls(t, 2) /\ t[CallTime + 3] = W("INTCLEAR", {n}) /\ t[CallTime + 4] = ReturnI
<1> DEFINE i1 == SetI("irq_triggered", 1)
           i2 == W("DATAOUT", P)
           i3 == W("INTCLEAR", {n})
           a == <<i1>>
           b == <<i2>>
           c == Call \o <<i3>>
           d == <<ReturnI>>
           t == a \o b \o c \o d
<1> HIDE DEF i1, i2, i3
<1>1. /\ IsText(a) /\ Len(a) = 1 /\ \A s, o : Holding(s, o, a) => s[o + 1] = i1
      /\ IsText(b) /\ Len(b) = 1 /\ \A s, o : Holding(s, o, b) => s[o + 1] = i2
      /\ IsText(d) /\ Len(d) = 1 /\ \A s, o : Holding(s, o, d) => s[o + 1] = ReturnI
  BY OneInstruction
<1>2. /\ IsText(c) /\ Len(c) = CallTime + 1
      /\ \A s : \A o \in Int : Holding(s, o, c) => Calls(s, o) /\ s[o + CallTime + 1] = i3
  BY OneWrite
<1> HIDE DEF a, b, c, d
<1>3. Parts4(t, a, b, c, d) BY <1>1, <1>2, FourParts
<1> HIDE DEF t
<1>4. Holding(t, 0, t) BY DEF Holding
<1>5. /\ 0 + Len(a) = 1 /\ 0 + Len(a) + Len(b) = 2 /\ 0 + Len(a) + Len(b) + Len(c) = CallTime + 3
      /\ 0 + 1 = 1 /\ 1 + 1 = 2 /\ 2 + CallTime + 1 = CallTime + 3 /\ (CallTime + 3) + 1 = CallTime + 4
  BY <1>1, <1>2, DriverAssumption
<1>6. Holding(t, 0, a) /\ Holding(t, 1, b) /\ Holding(t, 2, c) /\ Holding(t, CallTime + 3, d)
  <2>1. /\ Holding(t, 0, a) /\ Holding(t, 0 + Len(a), b) /\ Holding(t, 0 + Len(a) + Len(b), c)
        /\ Holding(t, 0 + Len(a) + Len(b) + Len(c), d)
    BY <1>3, <1>4 DEF Parts4
  <2> QED BY <1>5, <2>1
<1>7. t[0 + 1] = i1 /\ t[1 + 1] = i2 /\ t[(CallTime + 3) + 1] = ReturnI BY <1>1, <1>6
<1>8. Calls(t, 2) /\ t[2 + CallTime + 1] = i3 BY <1>2, <1>6
<1>9. Len(t) = CallTime + 4 BY <1>1, <1>2, <1>3, DriverAssumption DEF Parts4
<1> QED BY <1>5, <1>7, <1>8, <1>9 DEF t, a, b, c, d, i1, i2, i3

LEMMA EdgeHandler ==
  ASSUME NEW n
  PROVE  LET t == <<SetI("irq_triggered", 1)>> \o (Call \o <<W("INTCLEAR", {n})>>) \o <<ReturnI>> IN
         /\ Len(t) = CallTime + 3 /\ t[1] = SetI("irq_triggered", 1)
         /\ Calls(t, 1) /\ t[CallTime + 2] = W("INTCLEAR", {n}) /\ t[CallTime + 3] = ReturnI
<1> DEFINE i1 == SetI("irq_triggered", 1)
           i3 == W("INTCLEAR", {n})
           a == <<i1>>
           c == Call \o <<i3>>
           d == <<ReturnI>>
           ac == a \o c
           t == ac \o d
<1> HIDE DEF i1, i3
<1>1. /\ IsText(a) /\ Len(a) = 1 /\ \A s, o : Holding(s, o, a) => s[o + 1] = i1
      /\ IsText(d) /\ Len(d) = 1 /\ \A s, o : Holding(s, o, d) => s[o + 1] = ReturnI
  BY OneInstruction
<1>2. /\ IsText(c) /\ Len(c) = CallTime + 1
      /\ \A s : \A o \in Int : Holding(s, o, c) => Calls(s, o) /\ s[o + CallTime + 1] = i3
  BY OneWrite
<1> HIDE DEF a, c, d
<1>3. /\ IsText(ac) /\ Len(ac) = Len(a) + Len(c)
      /\ \A s : \A o \in Int : Holding(s, o, ac) => Holding(s, o, a) /\ Holding(s, o + Len(a), c)
  BY <1>1, <1>2, TextParts
<1> HIDE DEF ac
<1>4. /\ Len(t) = Len(ac) + Len(d)
      /\ \A s : \A o \in Int : Holding(s, o, t) => Holding(s, o, ac) /\ Holding(s, o + Len(ac), d)
  BY <1>1, <1>3, TextParts
<1> HIDE DEF t
<1>5. Holding(t, 0, t) BY DEF Holding
<1>6. /\ 0 + Len(a) = 1 /\ 0 + Len(ac) = CallTime + 2
      /\ 0 + 1 = 1 /\ 1 + CallTime + 1 = CallTime + 2 /\ (CallTime + 2) + 1 = CallTime + 3
  BY <1>1, <1>2, <1>3, DriverAssumption
<1>7. Holding(t, 0, a) /\ Holding(t, 1, c) /\ Holding(t, CallTime + 2, d)
  <2>1. Holding(t, 0, ac) /\ Holding(t, 0 + Len(ac), d) BY <1>4, <1>5
  <2>2. Holding(t, 0, a) /\ Holding(t, 0 + Len(a), c) BY <1>3, <2>1
  <2> QED BY <1>6, <2>1, <2>2
<1>8. t[0 + 1] = i1 /\ t[(CallTime + 2) + 1] = ReturnI BY <1>1, <1>7
<1>9. Calls(t, 1) /\ t[1 + CallTime + 1] = i3 BY <1>2, <1>7
<1>10. Len(t) = CallTime + 3 BY <1>1, <1>2, <1>3, <1>4, DriverAssumption
<1> QED BY <1>6, <1>8, <1>9, <1>10 DEF t, ac, a, c, d, i1, i3

\* The actions of the timer example and of its handler: no register of the port,
\* no variable of the other examples and no interrupt but that of the timer.
TimerActions ==
  {i \in Actions({}, {"TIMER0"}) : i.op \in {"set", "inc"} => i.var = "timer_stopped"}

LEMMA TimerStatements ==
  LET Is(s) == Code(s, TimerActions, Conditions) IN
  /\ Is(Call)
  /\ \A a, b : Is(a) /\ Is(b) => Is(a \o b)
  /\ \A c \in Conditions : \A s : Is(s) => Is(While(c, s))
  /\ \A i \in Actions({}, {"TIMER0"}) : i.op \notin {"set", "inc"} => Is(<<i>>)
  /\ \A n \in {0, 1} : Is(Set("timer_stopped", n))
<1> DEFINE J == TimerActions
           Is(s) == Code(s, J, Conditions)
<1>1. Is(Call) /\ \A a, b : Is(a) /\ Is(b) => Is(a \o b) BY CallCode, ConcatCode
<1>2. \A c \in Conditions : \A s : Is(s) => Is(While(c, s)) BY WhileCode
<1>3. ASSUME NEW i \in Actions({}, {"TIMER0"}), i.op \notin {"set", "inc"} \/ i.var = "timer_stopped"
      PROVE  Is(<<i>>)
  <2>1. i \in J BY <1>3 DEF TimerActions
  <2>2. i.op \notin JumpOps BY DEF Actions, JumpOps, Plain
  <2> HIDE DEF J
  <2> QED BY <2>1, <2>2, OneCode
<1>4. ASSUME NEW n \in {0, 1} PROVE Is(Set("timer_stopped", n))
  <2> DEFINE i == [op |-> "set", var |-> "timer_stopped", to |-> n]
  <2>1. "timer_stopped" \in Names BY DEF Names, Software0
  <2>2. i \in Actions({}, {"TIMER0"}) /\ i.var = "timer_stopped" BY <2>1 DEF Actions
  <2> HIDE DEF i
  <2>3. Is(<<i>>) BY <1>3, <2>2
  <2> QED BY <2>3 DEF Set, i
<1>5. \A i \in Actions({}, {"TIMER0"}) : i.op \notin {"set", "inc"} => Is(<<i>>)
  <2> HIDE DEF Is
  <2> QED BY <1>3
<1>6. \A n \in {0, 1} : Is(Set("timer_stopped", n))
  <2> HIDE DEF Is
  <2> QED BY <1>4
<1> QED BY <1>1, <1>2, <1>5, <1>6

LEMMA TimerPieces ==
  LET Is(s) == Code(s, TimerActions, Conditions) IN
  /\ Is(Demo!Prints) /\ Is(Demo!ClearPending("TIMER0")) /\ Is(Demo!Enable("TIMER0"))
  /\ Is(Demo!Do("wfe"))
  /\ Is(Demo!timer_Init_IntClock(DemoReload)) /\ Is(Demo!timer_StopTimer) /\ Is(Demo!timer_ClearIRQ)
<1> DEFINE Is(s) == Code(s, TimerActions, Conditions)
           A == Actions({}, {"TIMER0"})
<1>1. /\ Is(Call) /\ \A a, b : Is(a) /\ Is(b) => Is(a \o b)
      /\ \A i \in A : i.op \notin {"set", "inc"} => Is(<<i>>)
  BY TimerStatements
<1>2. ASSUME NEW b \in TimerAccesses PROVE Is(Bus("TIMER0", b))
  <2> DEFINE i == [op |-> "bus", dev |-> "TIMER0", access |-> b]
  <2>1. i \in A /\ i.op \notin {"set", "inc"} BY DEF Actions
  <2> HIDE DEF i
  <2>2. Is(<<i>>) BY <1>1, <2>1
  <2> QED BY <2>2 DEF Bus, i
<1>3. ASSUME NEW op \in {"wfe", "load CTRL"} PROVE Is(Do(op))
  <2> DEFINE i == [op |-> op]
  <2>1. i \in A /\ i.op \notin {"set", "inc"} BY DEF Actions, Plain
  <2> HIDE DEF i
  <2>2. Is(<<i>>) BY <1>1, <2>1
  <2> QED BY <2>2 DEF Do, i
<1>4. Is(Puts(0))
  <2> DEFINE i == [op |-> "puts", chars |-> 0]
  <2>1. i \in A /\ i.op \notin {"set", "inc"} BY DEF Actions
  <2> HIDE DEF i
  <2>2. Is(<<i>>) BY <1>1, <2>1
  <2> QED BY <2>2 DEF Puts, i
<1>5. ASSUME NEW op \in {"enable", "clear pending"} PROVE Is(<<[op |-> op, irq |-> "TIMER0"]>>)
  <2> DEFINE i == [op |-> op, irq |-> "TIMER0"]
  <2>1. i \in A /\ i.op \notin {"set", "inc"} BY DEF Actions
  <2> HIDE DEF i
  <2>2. Is(<<i>>) BY <1>1, <2>1
  <2> QED BY <2>2 DEF i
<1>6. /\ \A m \in SUBSET Modes : TimerCtrl(m) \in TimerAccesses
      /\ TimerIntClear \in TimerAccesses
      /\ TimerValue(DemoReload) \in TimerAccesses /\ TimerReload(DemoReload) \in TimerAccesses
  BY ProgramAssumption DEF TimerAccesses
<1>7. {} \in SUBSET Modes /\ {"en"} \in SUBSET Modes /\ {"irqen", "en"} \in SUBSET Modes
  BY DEF Modes
<1>8. Is(timer_StopTimer)
  <2> DEFINE i == [op |-> "store CTRL", set |-> {}, clear |-> {"en"}]
  <2>1. i \in A /\ i.op \notin {"set", "inc"} BY <1>7 DEF Actions
  <2>2. timer_StopTimer = Call \o Do("load CTRL") \o <<i>> BY DEF timer_StopTimer, Modify
  <2> HIDE DEF i
  <2>3. Is(<<i>>) /\ Is(Do("load CTRL")) BY <1>1, <1>3, <2>1
  <2> QED BY <1>1, <2>2, <2>3
<1>9. Is(timer_ClearIRQ) BY <1>1, <1>2, <1>6 DEF timer_ClearIRQ
<1>10. Is(timer_Init_IntClock(DemoReload))
  <2> HIDE DEF Is
  <2>1. /\ Is(Bus("TIMER0", TimerCtrl({}))) /\ Is(Bus("TIMER0", TimerValue(DemoReload)))
        /\ Is(Bus("TIMER0", TimerReload(DemoReload))) /\ Is(Bus("TIMER0", TimerCtrl({"irqen", "en"})))
    BY <1>2, <1>6, <1>7
  <2> QED BY <1>1, <2>1 DEF timer_Init_IntClock, timer_Init
<1>11. Is(ClearPending("TIMER0")) /\ Is(Enable("TIMER0")) BY <1>5 DEF ClearPending, Enable
<1> QED BY <1>3, <1>4, <1>8, <1>9, <1>10, <1>11, SameDemo DEF Demo!Prints

LEMMA TimerTextParts ==
  /\ Code(Demo!TimerExample, TimerActions, Conditions)
  /\ Code(Demo!TIMER0_Handler, TimerActions, Conditions)
<1> DEFINE Is(s) == Code(s, TimerActions, Conditions)
<1>1. /\ \A a, b : Is(a) /\ Is(b) => Is(a \o b)
      /\ \A c \in Conditions : \A s : Is(s) => Is(Demo!While(c, s))
      /\ Is(Demo!Set("timer_stopped", 1))
  BY TimerStatements, SameDemo
<1>2. /\ Is(Demo!Prints) /\ Is(Demo!ClearPending("TIMER0")) /\ Is(Demo!Enable("TIMER0"))
      /\ Is(Demo!Do("wfe"))
      /\ Is(Demo!timer_Init_IntClock(DemoReload)) /\ Is(Demo!timer_StopTimer) /\ Is(Demo!timer_ClearIRQ)
  BY TimerPieces
<1>3. Demo!Var("timer_stopped", "clear") \in Conditions
  BY SameDemo, CondForms DEF Names, Software0, Tests
<1> HIDE DEF Is
<1>4. Is(Demo!TimerExample) BY <1>1, <1>2, <1>3 DEF Demo!TimerExample
<1>5. Is(Demo!TIMER0_Handler) BY <1>1, <1>2 DEF Demo!TIMER0_Handler
<1> QED BY <1>4, <1>5 DEF Is

\* Where main() of the demo is: the lengths of its parts.
TestPins    == 7 .. 10
TimerLen    == Len(Demo!TimerExample)
DataAt      == TimerLen + CallTime + 4
TypesEnd    == DataAt + 4 * CallTime + 8
TestBase(x) == TypesEnd + 8 + (x - 7) * TestLen
TestsEnd    == TypesEnd + 8 + 4 * TestLen

ClearAll  == Demo!ForPins(LAMBDA n : Demo!ClearPending(Demo!PORT0(n)))
EnableAll == Demo!ForPins(LAMBDA n : Demo!Enable(Demo!PORT0(n)))

LEMMA Tests1 ==
  /\ CallTime \in Nat /\ TestLen \in Nat /\ TimerLen \in Nat
  /\ DataAt \in Nat /\ TypesEnd \in Nat /\ TestsEnd \in Nat
  /\ TestBase(7) = TypesEnd + 8 /\ TestBase(8) = TypesEnd + 8 + TestLen
  /\ TestBase(9) = TypesEnd + 8 + 2 * TestLen /\ TestBase(10) = TypesEnd + 8 + 3 * TestLen
<1>1. CallTime \in Nat /\ TimerLen \in Nat
  BY DriverAssumption, TimerTextParts, CodeIsText DEF TimerLen
<1>2. DataAt \in Nat /\ TypesEnd \in Nat /\ TestLen \in Nat /\ TestsEnd \in Nat
  BY <1>1 DEF DataAt, TypesEnd, TestLen, TestsEnd
<1>3. /\ (7 - 7) * TestLen = 0 /\ (8 - 7) * TestLen = TestLen
      /\ (9 - 7) * TestLen = 2 * TestLen /\ (10 - 7) * TestLen = 3 * TestLen
  BY <1>2
<1> QED BY <1>1, <1>2, <1>3 DEF TestBase

LEMMA PinsText ==
  /\ Four(ClearAll, IrqI("clear pending", "PORT0_7"), IrqI("clear pending", "PORT0_8"),
                    IrqI("clear pending", "PORT0_9"), IrqI("clear pending", "PORT0_10"))
  /\ Four(EnableAll, IrqI("enable", "PORT0_7"), IrqI("enable", "PORT0_8"),
                     IrqI("enable", "PORT0_9"), IrqI("enable", "PORT0_10"))
<1>1. /\ Demo!PORT0(7) = "PORT0_7" /\ Demo!PORT0(8) = "PORT0_8"
      /\ Demo!PORT0(9) = "PORT0_9" /\ Demo!PORT0(10) = "PORT0_10"
  BY DEF Demo!PORT0
<1>2. \A h : /\ Demo!ClearPending(h) = <<IrqI("clear pending", h)>>
            /\ Demo!Enable(h) = <<IrqI("enable", h)>>
  BY SameDemo DEF ClearPending, Enable, IrqI
<1>3. ClearAll = <<IrqI("clear pending", "PORT0_7")>> \o <<IrqI("clear pending", "PORT0_8")>>
                 \o <<IrqI("clear pending", "PORT0_9")>> \o <<IrqI("clear pending", "PORT0_10")>>
  BY <1>1, <1>2 DEF ClearAll, Demo!ForPins
<1>4. EnableAll = <<IrqI("enable", "PORT0_7")>> \o <<IrqI("enable", "PORT0_8")>>
                  \o <<IrqI("enable", "PORT0_9")>> \o <<IrqI("enable", "PORT0_10")>>
  BY <1>1, <1>2 DEF EnableAll, Demo!ForPins
<1> QED BY <1>3, <1>4, FourInstructions

\* The examples up to the last test, as a phase of its own.
LEMMA MainPhases ==
  Phased(Demo!Main, Actions(Registers, DemoIrqs), Actions(AlwaysUart, DemoIrqs), Conditions, TestsEnd)
<1> DEFINE J1 == Actions(Registers, DemoIrqs)
           J2 == Actions(AlwaysUart, DemoIrqs)
           C == Conditions
           Is(s) == Code(s, J1, C)
           Ph(s, K) == Phased(s, J1, J2, C, K)
           te == Demo!TimerExample
           e == Demo!If(Demo!Var("err_code", "set"), Demo!Fail)
           f3 == Demo!ForPins(LAMBDA p : Demo!Disable(Demo!PORT0(p)))
           ue == Demo!UartExample
           t1 == Demo!Test(7, "B")
           t2 == Demo!Test(8, "9")
           t3 == Demo!Test(9, "D")
           t4 == Demo!Test(10, "5")
           g == SetUp \o ClearAll \o EnableAll \o t1 \o t2 \o t3 \o t4
           n == Len(g)
<1>1. /\ \A s : IsCode(s, Configures, DemoIrqs) => Is(s)
      /\ \A s : IsCode(s, Switches, DemoIrqs) => Is(s)
      /\ \A s : IsCode(s, Always, DemoIrqs) => Is(s)
  <2>1. Configures \subseteq Registers /\ Switches \subseteq Registers /\ Always \subseteq Registers
    BY DEF Registers, Configures
  <2>1a. DemoIrqs \subseteq DemoIrqs OBVIOUS
  <2>2. /\ Actions(Configures, DemoIrqs) \subseteq J1 /\ Actions(Switches, DemoIrqs) \subseteq J1
        /\ Actions(Always, DemoIrqs) \subseteq J1
    BY <2>1, <2>1a, MoreActions
  <2> HIDE DEF J1
  <2> QED BY <2>2, MoreCode DEF IsCode
<1>2. Is(te) /\ Is(SetUp) BY <1>1, EarlyOfDemo, DemoFirst
<1>3. Is(ClearAll) /\ Is(EnableAll) BY <1>1, EarlyOfDemo, DemoForPins DEF ClearAll, EnableAll
<1>4. Is(t1) /\ Is(t2) /\ Is(t3) /\ Is(t4)
  <2>1. 7 \in 7 .. 10 /\ 8 \in 7 .. 10 /\ 9 \in 7 .. 10 /\ 10 \in 7 .. 10 OBVIOUS
  <2> QED BY <1>1, <2>1, EarlyOfDemo, DemoTests
<1>5. Code(e, J2, C) /\ Code(ue, J2, C) /\ Code(f3, J2, C)
  <2>1. \A s : IsCode(s, Always, DemoIrqs) => Code(s, J2, C)
    <3>1. Always \subseteq AlwaysUart /\ DemoIrqs \subseteq DemoIrqs BY DEF AlwaysUart
    <3>2. Actions(Always, DemoIrqs) \subseteq J2 BY <3>1, MoreActions
    <3> HIDE DEF J2
    <3> QED BY <3>2, MoreCode DEF IsCode
  <2>2. IsCode(e, Always, DemoIrqs) /\ IsCode(f3, Always, DemoIrqs) BY EarlyOfDemo, DemoForPins
  <2>3. Code(ue, J2, C) BY DemoUart DEF IsCode, AlwaysUart
  <2> HIDE DEF e, f3
  <2> QED BY <2>1, <2>2, <2>3
<1>6. [op |-> "passed"] \in J2 /\ [op |-> "passed"].op \notin JumpOps BY DEF Actions, Plain, JumpOps
<1>7. Demo!Main = (te \o (g \o e \o f3) \o ue) \o <<[op |-> "passed"]>>
  BY DEF Demo!Main, Demo!Do, Demo!GPIOIntExample, SetUp, ClearAll, EnableAll
<1>8. Len(SetUp) = 5 * CallTime + 12 /\ Len(t1) = TestLen /\ Len(t2) = TestLen /\ Len(t3) = TestLen /\ Len(t4) = TestLen
  BY SetUpText, TestText
<1>9. Len(ClearAll) = 4 /\ Len(EnableAll) = 4 BY PinsText DEF Four
<1> HIDE DEF te, e, f3, ue, t1, t2, t3, t4, J1, J2, C
<1>10. Is(g)
  <2>1. \A a, b : Is(a) /\ Is(b) => Is(a \o b) BY ConcatCode
  <2> HIDE DEF Is
  <2> QED BY <1>2, <1>3, <1>4, <2>1
<1>11. n = 5 * CallTime + 20 + 4 * TestLen
  <2>1. IsText(SetUp) /\ IsText(ClearAll) /\ IsText(EnableAll) /\ IsText(t1) /\ IsText(t2) /\ IsText(t3) /\ IsText(t4)
    BY <1>2, <1>3, <1>4, CodeIsText
  <2> DEFINE h == SetUp \o ClearAll \o EnableAll \o t1
  <2>2. IsText(h) /\ Len(h) = Len(SetUp) + Len(ClearAll) + Len(EnableAll) + Len(t1)
    BY <2>1, FourParts DEF Parts4
  <2>3. g = h \o t2 \o t3 \o t4 OBVIOUS
  <2> HIDE DEF h, g
  <2>4. Parts4(g, h, t2, t3, t4) BY <2>1, <2>2, <2>3, FourParts
  <2> QED BY <1>8, <1>9, <2>2, <2>4, Tests1 DEF Parts4, TestLen
<1> HIDE DEF n, g
<1>12. Ph(g, n) BY <1>10, FirstPhase DEF n
<1>13. Ph(g \o e \o f3, n) BY <1>5, <1>12, LongerSecondPhase
<1>14. Ph(te \o (g \o e \o f3), Len(te) + n) BY <1>2, <1>13, LongerFirstPhase
<1>15. Ph(te \o (g \o e \o f3) \o ue, Len(te) + n) BY <1>5, <1>14, LongerSecondPhase
<1> DEFINE m == te \o (g \o e \o f3) \o ue
<1> HIDE DEF m
<1>16. Ph(m \o <<[op |-> "passed"]>>, Len(te) + n) BY <1>6, <1>15, EndedPhases DEF m
<1>17. Len(te) + n = TestsEnd BY <1>11, Tests1 DEF TestsEnd, TypesEnd, DataAt, te, TimerLen
<1> QED BY <1>7, <1>16, <1>17 DEF m, J1, J2, C

\* The parts of main(), up to the last test.
LEMMA MainParts ==
  LET m == Demo!Main IN
  /\ Len(m) \in Nat /\ Len(m) > TestsEnd
  /\ Holding(m, 0, Demo!TimerExample) /\ Holding(m, TimerLen, SetUp)
  /\ Holding(m, TypesEnd, ClearAll) /\ Holding(m, TypesEnd + 4, EnableAll)
  /\ Holding(m, TestBase(7), Demo!Test(7, "B")) /\ Holding(m, TestBase(8), Demo!Test(8, "9"))
  /\ Holding(m, TestBase(9), Demo!Test(9, "D")) /\ Holding(m, TestBase(10), Demo!Test(10, "5"))
<1> DEFINE te == Demo!TimerExample
           e == Demo!If(Demo!Var("err_code", "set"), Demo!Fail)
           f3 == Demo!ForPins(LAMBDA p : Demo!Disable(Demo!PORT0(p)))
           ue == Demo!UartExample
           t1 == Demo!Test(7, "B")
           t2 == Demo!Test(8, "9")
           t3 == Demo!Test(9, "D")
           t4 == Demo!Test(10, "5")
           p == <<[op |-> "passed"]>>
           g == SetUp \o ClearAll \o EnableAll \o t1 \o t2
           h == g \o t3 \o t4 \o e \o f3
           m == Demo!Main
<1>1. m = te \o h \o ue \o p
  BY DEF Demo!Main, Demo!Do, Demo!GPIOIntExample, SetUp, ClearAll, EnableAll
<1>2. IsText(te) /\ IsText(e) /\ IsText(f3) /\ IsText(ue)
  <2>1. IsCode(e, Always, DemoIrqs) /\ IsCode(f3, Always, DemoIrqs) BY EarlyOfDemo, DemoForPins
  <2>2. IsCode(ue, AlwaysUart, DemoIrqs) BY DemoUart DEF AlwaysUart
  <2> HIDE DEF e, f3, ue
  <2> QED BY <2>1, <2>2, TimerTextParts, CodeIsText DEF IsCode, te
<1>3. IsText(p) /\ Len(p) = 1 BY OneInstruction
<1>4. /\ IsText(SetUp) /\ Len(SetUp) = 5 * CallTime + 12
      /\ IsText(t1) /\ IsText(t2) /\ IsText(t3) /\ IsText(t4)
      /\ Len(t1) = TestLen /\ Len(t2) = TestLen /\ Len(t3) = TestLen /\ Len(t4) = TestLen
  BY SetUpText, TestText
<1>5. IsText(ClearAll) /\ Len(ClearAll) = 4 /\ IsText(EnableAll) /\ Len(EnableAll) = 4
  BY PinsText DEF Four
<1> HIDE DEF te, e, f3, ue, p, t1, t2, t3, t4, m
<1>6. Parts5(g, SetUp, ClearAll, EnableAll, t1, t2) BY <1>4, <1>5, FiveParts
<1> HIDE DEF g
<1>15. IsText(g) BY <1>6 DEF Parts5
<1>7. Parts5(h, g, t3, t4, e, f3) BY <1>2, <1>4, <1>15, FiveParts
<1> HIDE DEF h
<1>16. IsText(h) BY <1>7 DEF Parts5
<1>8. Parts4(m, te, h, ue, p) BY <1>1, <1>2, <1>3, <1>16, FourParts
<1>9. Len(te) = TimerLen BY DEF te, TimerLen
<1>10. Len(g) = 5 * CallTime + 20 + 2 * TestLen BY <1>4, <1>5, <1>6, Tests1 DEF Parts5
<1>11. Holding(m, 0, te) /\ Holding(m, TimerLen, h)
  <2>1. Holding(m, 0, m) BY DEF Holding
  <2>2. Holding(m, 0, te) /\ Holding(m, 0 + Len(te), h) BY <1>8, <2>1 DEF Parts4
  <2> QED BY <1>9, <2>2, Tests1
<1>12. /\ Holding(m, TimerLen, g) /\ Holding(m, TestBase(9), t3) /\ Holding(m, TestBase(10), t4)
  <2>1. /\ Holding(m, TimerLen, g) /\ Holding(m, TimerLen + Len(g), t3)
        /\ Holding(m, TimerLen + Len(g) + Len(t3), t4)
    BY <1>7, <1>11, Tests1 DEF Parts5
  <2>2. TimerLen + Len(g) = TestBase(9) /\ TimerLen + Len(g) + Len(t3) = TestBase(10)
    BY <1>4, <1>10, Tests1 DEF TypesEnd, DataAt
  <2> QED BY <2>1, <2>2
<1>13. /\ Holding(m, TimerLen, SetUp) /\ Holding(m, TypesEnd, ClearAll) /\ Holding(m, TypesEnd + 4, EnableAll)
       /\ Holding(m, TestBase(7), t1) /\ Holding(m, TestBase(8), t2)
  <2>1. /\ Holding(m, TimerLen, SetUp) /\ Holding(m, TimerLen + Len(SetUp), ClearAll)
        /\ Holding(m, TimerLen + Len(SetUp) + Len(ClearAll), EnableAll)
        /\ Holding(m, TimerLen + Len(SetUp) + Len(ClearAll) + Len(EnableAll), t1)
        /\ Holding(m, TimerLen + Len(SetUp) + Len(ClearAll) + Len(EnableAll) + Len(t1), t2)
    BY <1>6, <1>12, Tests1 DEF Parts5
  <2>2. /\ TimerLen + Len(SetUp) = TypesEnd /\ TimerLen + Len(SetUp) + Len(ClearAll) = TypesEnd + 4
        /\ TimerLen + Len(SetUp) + Len(ClearAll) + Len(EnableAll) = TestBase(7)
        /\ TimerLen + Len(SetUp) + Len(ClearAll) + Len(EnableAll) + Len(t1) = TestBase(8)
    BY <1>4, <1>5, Tests1 DEF TypesEnd, DataAt
  <2> QED BY <2>1, <2>2
<1>14. Len(m) \in Nat /\ Len(m) > TestsEnd
  <2>1. Len(m) = TimerLen + Len(h) + Len(ue) + 1 BY <1>3, <1>8, <1>9 DEF Parts4
  <2>2. Len(h) = Len(g) + 2 * TestLen + Len(e) + Len(f3)
    BY TextParts, <1>2, <1>4, <1>7, <1>10, Tests1 DEF Parts5
  <2>3. Len(e) \in Nat /\ Len(f3) \in Nat /\ Len(ue) \in Nat BY <1>2, TextParts
  <2> QED BY <1>10, <2>1, <2>2, <2>3, Tests1 DEF TestsEnd, TypesEnd, DataAt
<1> QED BY <1>11, <1>12, <1>13, <1>14 DEF m, te, t1, t2, t3, t4

-----------------------------------------------------------------------------
(* The pins of the port, as the tests and the handlers see them.           *)

\* A pin as the handlers see it: 7 and 8 interrupt on a level and 9 and 10 on an
\* edge, 7 and 9 are active when high and 8 and 10 when low.
IsLevel(x)   == x \in {7, 8}
IsHigh(x)    == x \in {7, 9}
Active(x, P) == IF IsHigh(x) THEN x \in P ELSE x \notin P
Driven(x)    == Active(x, gpio.reg_dout)
Sync1(x)     == Active(x, gpio.reg_in_sync1)
Sync2(x)     == Active(x, gpio.reg_in_sync2)
Latest(x)    == Active(x, gpio.reg_last_datain)
Up(x)        == x \in gpio.reg_intstat
Pends(x)     == Demo!PORT0(x) \in nvic.pending
Handles(x)   == handler = Demo!PORT0(x)
Typed(x) == /\ x \in gpio.reg_inttype <=> ~IsLevel(x)
            /\ x \in gpio.reg_intpol <=> IsHigh(x)

Port(w) == gpio' = GpioEdge(gpio, w, PORTIN(gpio, {}))
Clears(x, w) == w.op = "INTCLEAR" /\ x \in w.pins
Triggers(x) == x \in gpio.reg_inten /\ Sync2(x) /\ (IsLevel(x) \/ ~Latest(x))

\* What an edge of the clock makes of a pin.
LEMMA PinEdge ==
  ASSUME gpio \in Gpio, NEW w, Port(w), NEW x \in TestPins
  PROVE  /\ w.op = "DATAOUT" => (Driven(x)' <=> Active(x, w.pins))
         /\ w.op # "DATAOUT" => (Driven(x)' <=> Driven(x))
         /\ TestPins \subseteq gpio.reg_douten => (Sync1(x)' <=> Driven(x))
         /\ IsHigh(x) /\ Sync1(x)' => Driven(x)
         /\ Sync2(x)' <=> Sync1(x)
         /\ gpio.reg_inttype # {} => (Latest(x)' <=> Sync2(x))
         /\ x \notin gpio.reg_inten => (Up(x)' <=> Up(x) /\ ~Clears(x, w))
         /\ Typed(x) => (Up(x)' <=> (Up(x) /\ ~Clears(x, w)) \/ Triggers(x))
<1>1. /\ gpio'.reg_dout = IF w.op = "DATAOUT" THEN w.pins ELSE gpio.reg_dout
      /\ gpio'.reg_in_sync1 = PORTIN(gpio, {})
      /\ gpio'.reg_in_sync2 = gpio.reg_in_sync1
      /\ gpio'.reg_last_datain = IF gpio.reg_inttype # {} THEN gpio.reg_in_sync2 ELSE gpio.reg_last_datain
      /\ gpio'.reg_intstat = nxt_intstat(gpio, w)
  BY DEF Port, GpioEdge, keeps_last, reg_datain
<1>2. x \in PORTIN(gpio, {}) <=> x \in gpio.reg_dout /\ x \in gpio.reg_douten BY DEF PORTIN
<1>3. x \in gpio'.reg_intstat <=> (Up(x) /\ ~Clears(x, w)) \/ x \in new_masked_int(gpio)
  BY <1>1 DEF nxt_intstat, Up, Clears
<1>4. x \notin gpio.reg_inten => x \notin new_masked_int(gpio) BY DEF new_masked_int
<1>5. x \in Pins BY DemoPins DEF TestPins
<1>6. ASSUME Typed(x) PROVE x \in new_masked_int(gpio) <=> Triggers(x)
  BY <1>5, <1>6 DEF Typed, Triggers, new_masked_int, new_raw_int, high_level_int, low_level_int, rise_edge_int,
     fall_edge_int, reg_datain, Sync2, Latest, Active
<1> QED BY <1>1, <1>2, <1>3, <1>4, <1>6 DEF Driven, Sync1, Sync2, Latest, Up, Active

\* Registers that an edge changes only when they are written.
LEMMA PortRegisters ==
  ASSUME gpio \in Gpio, NEW w, Port(w)
  PROVE  /\ gpio'.reg_douten = SetOrClear(gpio.reg_douten, w, "OUTENABLESET", "OUTENABLECLR")
         /\ gpio'.reg_inten = SetOrClear(gpio.reg_inten, w, "INTENSET", "INTENCLR")
         /\ gpio'.reg_inttype = SetOrClear(gpio.reg_inttype, w, "INTTYPESET", "INTTYPECLR")
         /\ gpio'.reg_intpol = SetOrClear(gpio.reg_intpol, w, "INTPOLSET", "INTPOLCLR")
         /\ gpio'.reg_intstat \subseteq gpio.reg_intstat \cup gpio.reg_inten
BY DEF Port, GpioEdge, nxt_intstat, new_masked_int

\* The request of a pin.
LEMMA PinNames ==
  /\ \A x \in TestPins : Demo!PORT0(x) \in {"PORT0_7", "PORT0_8", "PORT0_9", "PORT0_10"}
  /\ \A x, y \in TestPins : Demo!PORT0(x) = Demo!PORT0(y) => x = y
  /\ \A h \in {"PORT0_7", "PORT0_8", "PORT0_9", "PORT0_10"} : \E x \in TestPins : h = Demo!PORT0(x)
<1>1. \A x \in TestPins : x = 7 \/ x = 8 \/ x = 9 \/ x = 10 BY DEF TestPins
<1>2. 7 \in TestPins /\ 8 \in TestPins /\ 9 \in TestPins /\ 10 \in TestPins BY DEF TestPins
<1>3. /\ Demo!PORT0(7) = "PORT0_7" /\ Demo!PORT0(8) = "PORT0_8"
      /\ Demo!PORT0(9) = "PORT0_9" /\ Demo!PORT0(10) = "PORT0_10"
  BY DEF Demo!PORT0
<1>4. \A x \in TestPins : Demo!PORT0(x) \in {"PORT0_7", "PORT0_8", "PORT0_9", "PORT0_10"}
  BY <1>1, <1>3
<1>5. \A x, y \in TestPins : Demo!PORT0(x) = Demo!PORT0(y) => x = y BY <1>1, <1>3
<1> QED BY <1>2, <1>3, <1>4, <1>5

LEMMA PinLine ==
  ASSUME NEW x \in TestPins, NEW u, NEW t, NEW g, g.reg_intstat \subseteq TestPins
  PROVE  Demo!PORT0(x) \in Raised(u, t, g) <=> x \in g.reg_intstat
<1> DEFINE h == Demo!PORT0(x)
<1>1. h \in ToSet(Irqs) /\ h # "TIMER0" /\ h # "UARTOVF" /\ h \notin Uarts
  BY PinNames, IrqNames DEF Uarts
<1>2. h \in Raised(u, t, g) <=> \E n \in g.reg_intstat : n # 1 /\ Demo!PORT0(n) = h
  BY <1>1 DEF Raised
<1>3. \A n \in g.reg_intstat : n # 1 /\ (Demo!PORT0(n) = h <=> n = x) BY PinNames DEF TestPins
<1> QED BY <1>2, <1>3

LEMMA PinRequest ==
  ASSUME NEW x \in TestPins, gpio.reg_intstat \subseteq TestPins, gpio'.reg_intstat \subseteq TestPins,
         NEW e, NEW l, NEW en, Nvic(e, l, en)
  PROVE  Pends(x)' <=> \/ Pends(x) /\ Demo!PORT0(x) \notin e
                       \/ Up(x)' /\ ~Up(x)
                       \/ Up(x) /\ Demo!PORT0(x) \in l
<1> DEFINE h == Demo!PORT0(x)
<1>1. nvic'.pending = (nvic.pending \ e) \cup (Lines' \ Lines) \cup (Lines \cap l) BY DEF Nvic
<1>2. h \in Lines <=> Up(x) BY PinLine DEF Lines, Up
<1>3. h \in Lines' <=> Up(x)' BY PinLine DEF Lines, Up
<1> HIDE DEF h
<1> QED BY <1>1, <1>2, <1>3 DEF Pends, h

-----------------------------------------------------------------------------
(* The steps of the processor, as the pins and the handlers see them.      *)

\* What the demo's pins and handlers see of a step: it waits, a handler is entered
\* or left, or an instruction is executed.
Triggered  == sw["irq_triggered"]
WriteOf(i) == IF i.op = "bus" /\ i.dev = "GPIO0" THEN i.access ELSE GpioIdle
Distance(i) == IF i.op = "unless" /\ Holds(i.cond) THEN 1
               ELSE IF i.op \in JumpOps THEN i.by ELSE 1
Assigns(i) == i.op \in {"set", "inc"} /\ i.var = "irq_triggered"
NvicOf(i) ==
  /\ i.op = "enable"        => Nvic({}, {}, nvic.enabled \cup {i.irq})
  /\ i.op = "disable"       => Nvic({}, {}, nvic.enabled \ {i.irq})
  /\ i.op = "clear pending" => Nvic({i.irq}, {i.irq}, nvic.enabled)
  /\ i.op \notin {"enable", "disable", "clear pending"} => NvicRuns

Rests == Port(GpioIdle) /\ NvicRuns /\ UNCHANGED <<pc, handler, hpc, Triggered>>
Enters(h) == /\ ~InHandler /\ h \in Requested /\ handler' = h /\ hpc' = 1
             /\ Port(GpioIdle) /\ Nvic({h}, {}, nvic.enabled) /\ UNCHANGED <<pc, Triggered>>
Leaves == /\ Current.op = "return" /\ handler' = "none" /\ hpc' = 1
          /\ Port(GpioIdle) /\ Nvic({}, {handler}, nvic.enabled) /\ UNCHANGED <<pc, Triggered>>
Executes ==
  /\ InHandler \/ Requested = {}
  /\ Current.op # "return" /\ Jump(Distance(Current))
  /\ Port(WriteOf(Current)) /\ NvicOf(Current)
  /\ Current.op = "set" /\ Assigns(Current) => Triggered' = Current.to
  /\ ~Assigns(Current) => Triggered' = Triggered

LEMMA PortIdle ==
  ASSUME NEW d, NEW b, Devices(d, b), d # "GPIO0"
  PROVE  Port(GpioIdle)
BY DEF Devices, Port

LEMMA NoPort == NoDevice => Port(GpioIdle)
BY PortIdle DEF NoDevice

LEMMA BusKind == ASSUME ProgInv, image # "any", BusInstruction PROVE Executes
<1>1. Current.op = "bus" /\ (InHandler \/ Requested = {}) /\ Devices(Current.dev, Current.access)
  BY DEF BusInstruction, Ready
<1>2. Port(WriteOf(Current)) BY <1>1 DEF WriteOf, Port, Devices
<1>3. Distance(Current) = 1 /\ ~Assigns(Current) /\ NvicOf(Current)
  BY <1>1 DEF Distance, JumpOps, Assigns, NvicOf, BusInstruction
<1> QED BY <1>1, <1>2, <1>3 DEF BusInstruction, Executes, Triggered

LEMMA SendKind == ASSUME ProgInv, image # "any", SendInstruction PROVE Executes
<1>1. Current.op = "send" /\ (InHandler \/ Requested = {}) BY DEF SendInstruction, Ready
<1>2. Current.dev # "GPIO0" BY <1>1, Fetched DEF Uarts
<1>3. Port(WriteOf(Current)) BY <1>1, <1>2, PortIdle DEF WriteOf, SendInstruction
<1>4. Distance(Current) = 1 /\ ~Assigns(Current) /\ NvicOf(Current)
  BY <1>1 DEF Distance, JumpOps, Assigns, NvicOf, SendInstruction
<1> QED BY <1>1, <1>3, <1>4 DEF SendInstruction, Executes, Triggered

LEMMA LoadStoreKind ==
  ASSUME ProgInv, image # "any", LoadInstruction \/ StoreInstruction PROVE Executes
<1>1. /\ Current.op \in {"load CTRL", "save CTRL", "sample VALUE", "store CTRL", "restore CTRL"}
      /\ InHandler \/ Requested = {}
  BY DEF LoadInstruction, StoreInstruction, Ready
<1>2. Port(WriteOf(Current)) BY <1>1, PortIdle DEF WriteOf, LoadInstruction, StoreInstruction
<1>3. Distance(Current) = 1 /\ ~Assigns(Current) /\ NvicOf(Current)
  BY <1>1 DEF Distance, JumpOps, Assigns, NvicOf, LoadInstruction, StoreInstruction
<1> QED BY <1>1, <1>2, <1>3 DEF LoadInstruction, StoreInstruction, Executes, Triggered

LEMMA BranchKind == ASSUME ProgInv, image # "any", Branch PROVE Executes
<1>1. Current.op \in {"unless", "goto"} /\ (InHandler \/ Requested = {}) BY DEF Branch, Ready
<1>2. Port(WriteOf(Current))
  <2>1. WriteOf(Current) = GpioIdle BY <1>1 DEF WriteOf
  <2>2. CASE Current.op = "unless" /\ "dev" \in DOMAIN Current.cond
    <3> DEFINE c == Current.cond
    <3>1. c \in Conditions /\ "dev" \in DOMAIN c BY <2>2, Fetched
    <3>2. c.dev # "GPIO0"
      <4> HIDE DEF c
      <4>1. c \in [var : Names \cup {"RX & TX", "received"}, is : Tests] => "dev" \notin DOMAIN c
        OBVIOUS
      <4>2. c \in [dev : {"TIMER0"}, is : {"RELOAD", "VALUE"}, value : 0 .. TimerMax] => c.dev = "TIMER0"
        OBVIOUS
      <4>3. c \in [dev : Uarts \cup {"TIMER0", "saved CTRL"}, is : Tests] =>
              c.dev \in Uarts \cup {"TIMER0", "saved CTRL"}
        OBVIOUS
      <4> QED BY <3>1, <4>1, <4>2, <4>3 DEF Conditions, Uarts
    <3> QED BY <2>1, <2>2, <3>2, PortIdle DEF Branch
  <2>3. CASE ~(Current.op = "unless" /\ "dev" \in DOMAIN Current.cond)
    BY <2>1, <2>3, NoPort DEF Branch
  <2> QED BY <2>2, <2>3
<1>3. /\ Distance(Current) = IF Current.op = "unless" /\ Holds(Current.cond) THEN 1 ELSE Current.by
      /\ ~Assigns(Current) /\ NvicOf(Current)
  BY <1>1 DEF Distance, JumpOps, Assigns, NvicOf, Branch
<1> QED BY <1>1, <1>2, <1>3 DEF Branch, Executes, Triggered

LEMMA AssignKind == ASSUME ProgInv, image # "any", Assign PROVE Executes
<1>1. Current.op \in {"set", "inc", "count"} /\ (InHandler \/ Requested = {}) BY DEF Assign, Ready
<1>2. Port(WriteOf(Current)) BY <1>1, NoPort DEF WriteOf, Assign
<1>3. Distance(Current) = 1 /\ NvicOf(Current) BY <1>1 DEF Distance, JumpOps, NvicOf, Assign
<1>4. DOMAIN sw = DOMAIN Software0 /\ "irq_triggered" \in DOMAIN Software0
  BY DEF ProgInv, MemoryOK, Software0
<1>5. CASE Current.op = "set"
  <2>1. sw' = [sw EXCEPT ![Current.var] = Current.to] BY <1>5 DEF Assign
  <2>2. /\ Current.var = "irq_triggered" => Triggered' = Current.to
        /\ Current.var # "irq_triggered" => Triggered' = Triggered
    BY <1>4, <2>1 DEF Triggered
  <2> QED BY <1>1, <1>2, <1>3, <1>5, <2>2 DEF Assign, Executes, Assigns
<1>6. CASE Current.op = "inc"
  <2>1. sw' = [sw EXCEPT ![Current.var] = IF @ < CountCap THEN @ + 1 ELSE @] BY <1>6 DEF Assign
  <2>2. Current.var # "irq_triggered" => Triggered' = Triggered BY <1>4, <2>1 DEF Triggered
  <2> QED BY <1>1, <1>2, <1>3, <1>6, <2>2 DEF Assign, Executes, Assigns
<1>7. CASE Current.op = "count"
  <2>1. sw' = [sw EXCEPT !["counter"] = Counted(@)] BY <1>7 DEF Assign
  <2>2. Triggered' = Triggered BY <1>4, <2>1 DEF Triggered
  <2> QED BY <1>1, <1>2, <1>3, <1>7, <2>2 DEF Assign, Executes
<1> QED BY <1>1, <1>5, <1>6, <1>7

LEMMA PlainKind ==
  ASSUME ProgInv, image # "any", StringStep \/ Wake \/ PutsDone PROVE Executes
<1>1. Current.op \in {"store", "forget received", "wfe", "puts"} /\ (InHandler \/ Requested = {})
  BY DEF StringStep, Wake, PutsDone, Ready
<1>2. Port(WriteOf(Current)) BY <1>1, NoPort DEF WriteOf, StringStep, Wake, PutsDone
<1>3. Distance(Current) = 1 /\ ~Assigns(Current) /\ NvicOf(Current)
  BY <1>1 DEF Distance, JumpOps, Assigns, NvicOf, StringStep, Wake, PutsDone
<1> QED BY <1>1, <1>2, <1>3 DEF StringStep, Wake, PutsDone, Executes, Triggered

LEMMA EnableKind == ASSUME ProgInv, image # "any", EnableIRQ PROVE Executes
<1>1. Current.op \in {"enable", "disable", "clear pending"} /\ (InHandler \/ Requested = {})
  BY DEF EnableIRQ, Ready
<1>2. Port(WriteOf(Current)) BY <1>1, NoPort DEF WriteOf, EnableIRQ
<1>3. Distance(Current) = 1 /\ ~Assigns(Current) /\ NvicOf(Current)
  BY <1>1 DEF Distance, JumpOps, Assigns, NvicOf, EnableIRQ
<1> QED BY <1>1, <1>2, <1>3 DEF EnableIRQ, Executes, Triggered

LEMMA StepKinds ==
  ASSUME ProgInv, image # "any", Processor
  PROVE  Rests \/ (\E h : Enters(h)) \/ Leaves \/ Executes
<1>1. CASE Idle \/ Sleep \/ PutsOn \/ Finish
  BY <1>1, NoPort DEF Idle, Sleep, PutsOn, Finish, Rests, Triggered
<1>2. CASE TakeIrq BY <1>2, NoPort DEF TakeIrq, Enters, Triggered
<1>3. CASE Return BY <1>3, NoPort DEF Return, Ready, Leaves, Triggered
<1> QED BY <1>1, <1>2, <1>3, BusKind, SendKind, LoadStoreKind, BranchKind, AssignKind, PlainKind, EnableKind
     DEF Processor

\* What the instructions of the demo's port example do.
Runs(n, w, t) == Jump(n) /\ Port(w) /\ NvicRuns /\ Triggered' = t

LEMMA RunsGoto == ASSUME Executes, NEW n, Current = GotoI(n) PROVE Runs(n, GpioIdle, Triggered)
<1>1. Current.op = "goto" /\ Current.by = n BY DEF GotoI
<1>2. Distance(Current) = n /\ WriteOf(Current) = GpioIdle /\ ~Assigns(Current) /\ (NvicOf(Current) <=> NvicRuns)
  BY <1>1 DEF Distance, JumpOps, WriteOf, Assigns, NvicOf
<1> QED BY <1>2 DEF Executes, Runs

LEMMA RunsWrite ==
  ASSUME Executes, NEW r, NEW P, Current = W(r, P) PROVE Runs(1, GpioWrite(r, P), Triggered)
<1>1. Current.op = "bus" /\ Current.dev = "GPIO0" /\ Current.access = GpioWrite(r, P) BY DEF W
<1>2. Distance(Current) = 1 /\ WriteOf(Current) = GpioWrite(r, P) /\ ~Assigns(Current) /\ (NvicOf(Current) <=> NvicRuns)
  BY <1>1 DEF Distance, JumpOps, WriteOf, Assigns, NvicOf
<1> QED BY <1>2 DEF Executes, Runs

LEMMA RunsSet ==
  ASSUME Executes, NEW v, NEW n, Current = SetI(v, n)
  PROVE  Runs(1, GpioIdle, IF v = "irq_triggered" THEN n ELSE Triggered)
<1>1. Current.op = "set" /\ Current.var = v /\ Current.to = n BY DEF SetI
<1>2. /\ Distance(Current) = 1 /\ WriteOf(Current) = GpioIdle /\ (NvicOf(Current) <=> NvicRuns)
      /\ Assigns(Current) <=> v = "irq_triggered"
  BY <1>1 DEF Distance, JumpOps, WriteOf, Assigns, NvicOf
<1> QED BY <1>1, <1>2 DEF Executes, Runs

LEMMA RunsPuts == ASSUME Executes, Current = PutsI PROVE Runs(1, GpioIdle, Triggered)
<1>1. Current.op = "puts" BY DEF PutsI
<1>2. Distance(Current) = 1 /\ WriteOf(Current) = GpioIdle /\ ~Assigns(Current) /\ (NvicOf(Current) <=> NvicRuns)
  BY <1>1 DEF Distance, JumpOps, WriteOf, Assigns, NvicOf
<1> QED BY <1>2 DEF Executes, Runs

LEMMA RunsUnless ==
  ASSUME Executes, NEW n, Current = UnlessI(IrqIsSet, n)
  PROVE  Runs(IF Triggered = 1 THEN 1 ELSE n, GpioIdle, Triggered)
<1>1. Current.op = "unless" /\ Current.cond = IrqIsSet /\ Current.by = n BY DEF UnlessI
<1>2. WriteOf(Current) = GpioIdle /\ ~Assigns(Current) /\ (NvicOf(Current) <=> NvicRuns)
  BY <1>1 DEF WriteOf, Assigns, NvicOf
<1>3. Holds(IrqIsSet) <=> Triggered = 1
  <2>1. "var" \in DOMAIN IrqIsSet /\ "dev" \notin DOMAIN IrqIsSet /\ IrqIsSet.var = "irq_triggered" /\ IrqIsSet.is = "set"
    BY DEF IrqIsSet
  <2> DEFINE c == IrqIsSet
  <2> HIDE DEF c
  <2>3. ASSUME "var" \in DOMAIN c, "dev" \notin DOMAIN c PROVE Holds(c) = HoldsOfVar(c.var, c.is)
    BY <2>3 DEF Holds
  <2>2. Holds(IrqIsSet) = HoldsOfVar("irq_triggered", "set") BY <2>1, <2>3 DEF c
  <2> QED BY <2>2 DEF HoldsOfVar, Triggered
<1>4. Distance(Current) = IF Triggered = 1 THEN 1 ELSE n BY <1>1, <1>3 DEF Distance, JumpOps
<1> QED BY <1>2, <1>4 DEF Executes, Runs

LEMMA RunsIrq ==
  ASSUME Executes, NEW op \in {"enable", "clear pending"}, NEW h, Current = IrqI(op, h)
  PROVE  /\ Jump(1) /\ Port(GpioIdle) /\ Triggered' = Triggered
         /\ op = "enable" => Nvic({}, {}, nvic.enabled \cup {h})
         /\ op = "clear pending" => Nvic({h}, {h}, nvic.enabled)
<1>1. Current.op = op /\ Current.irq = h BY DEF IrqI
<1>2. Distance(Current) = 1 /\ WriteOf(Current) = GpioIdle /\ ~Assigns(Current)
  BY <1>1 DEF Distance, JumpOps, WriteOf, Assigns
<1>3. NvicOf(Current) BY DEF Executes
<1>4. /\ op = "enable" => Nvic({}, {}, nvic.enabled \cup {h})
      /\ op = "clear pending" => Nvic({h}, {h}, nvic.enabled)
  BY <1>1, <1>3 DEF NvicOf
<1> QED BY <1>2, <1>4 DEF Executes

\* Where the processor is in the demo.
LEMMA DemoPlace ==
  ASSUME ProgInv, image = "interrupt_demo"
  PROVE  /\ pc \in 1 .. Len(Demo!Main) /\ pc \in Int
         /\ ~InHandler => Current = Demo!Main[pc]
         /\ InHandler => /\ handler \in DemoIrqs /\ hpc \in 1 .. Len(Demo!Handlers[handler])
                         /\ Current = Demo!Handlers[handler][hpc]
<1>1. MainOf[image] = Demo!Main /\ HandlersOf[image] = Demo!Handlers /\ image # "any" BY Images
<1>2. IrqsOf(image) = DemoIrqs BY <1>1, DemoHandlers DEF IrqsOf
<1>3. pc \in 1 .. Len(Demo!Main) BY <1>1 DEF ProgInv, PlaceOK
<1>4. InHandler => handler \in DemoIrqs /\ hpc \in 1 .. Len(Demo!Handlers[handler])
  BY <1>1, <1>2 DEF ProgInv, PlaceOK
<1>5. (InHandler => Current = Demo!Handlers[handler][hpc]) /\ (~InHandler => Current = Demo!Main[pc])
  BY <1>1 DEF Current
<1> QED BY <1>3, <1>4, <1>5

\* The three phases of main().
LEMMA DemoAlways ==
  ASSUME ProgInv, image = "interrupt_demo", Executes, InHandler
  PROVE  /\ pc' = pc /\ handler' = handler /\ hpc' = hpc + Distance(Current)
         /\ WriteOf(Current).op \in Always \cup {"none"}
<1>1. Current = Demo!Handlers[handler][hpc] /\ handler \in DemoIrqs /\ hpc \in 1 .. Len(Demo!Handlers[handler])
  BY DemoPlace
<1>2. EndsIn(Demo!Handlers[handler], Actions(Always, DemoIrqs), Conditions, [op |-> "return"])
  BY <1>1, DemoHandlers
<1>3. Current \in Actions(Always, DemoIrqs) \cup Jumps(Conditions) BY <1>1, <1>2 DEF EndsIn
<1>4. WriteOf(Current).op \in Always \cup {"none"}
  <2> DEFINE i == Current
  <2>1. i \in Actions(Always, DemoIrqs) \cup Jumps(Conditions) BY <1>3
  <2> HIDE DEF i
  <2>2. i.op = "bus" => \/ i.dev \in Uarts \/ i.dev = "TIMER0"
                        \/ i.dev = "GPIO0" /\ i.access \in [op : Always, pins : SUBSET Pins]
    BY <2>1, BusFields DEF Always, UartSettings
  <2>3. "GPIO0" \notin Uarts BY DEF Uarts
  <2>4. i.op = "bus" /\ i.dev = "GPIO0" => i.access.op \in Always BY <2>2, <2>3
  <2>5. WriteOf(i).op \in Always \cup {"none"} BY <2>4 DEF WriteOf, GpioIdle
  <2> QED BY <2>5 DEF i
<1>5. Jump(Distance(Current)) BY DEF Executes
<1> QED BY <1>4, <1>5 DEF Jump

-----------------------------------------------------------------------------
(* What an instruction does to the pins, by the place of the program.      *)

\* What main() of the demo does, by its place.
TimerNvic == \E e, l \in SUBSET {"TIMER0"} : \E en :
  Nvic(e, l, en) /\ en \subseteq nvic.enabled \cup {"TIMER0"} /\ nvic.enabled \subseteq en \cup {"TIMER0"}

LEMMA TimerInstruction ==
  ASSUME Executes, Current \in TimerActions \cup Jumps(Conditions)
  PROVE  Port(GpioIdle) /\ Triggered' = Triggered /\ TimerNvic
<1> DEFINE i == Current
<1>1. i \in TimerActions \cup Jumps(Conditions) OBVIOUS
<1>2. Port(WriteOf(i)) /\ NvicOf(i) /\ (~Assigns(i) => Triggered' = Triggered) BY DEF Executes
<1> HIDE DEF i
<1>3. i \in Actions({}, {"TIMER0"}) \cup Jumps(Conditions) BY <1>1 DEF TimerActions
<1>4. i.op = "bus" => i.dev # "GPIO0"
  <2>1. i.op = "bus" => \/ i.dev \in Uarts \/ i.dev = "TIMER0"
                        \/ i.access \in [op : {}, pins : SUBSET Pins]
    BY <1>3, BusFields
  <2>2. "GPIO0" \notin Uarts BY DEF Uarts
  <2>3. ~(i.access \in [op : {}, pins : SUBSET Pins]) OBVIOUS
  <2> QED BY <2>1, <2>2, <2>3
<1>5. ~Assigns(i) BY <1>1 DEF TimerActions, Assigns, Jumps
<1>6. i.op \in {"enable", "disable", "clear pending"} => i.irq = "TIMER0"
  <2>1. i.op \in {"enable", "disable", "clear pending"} => i.irq \in {"TIMER0"}
    BY <1>3, ActionFields
  <2> QED BY <2>1
<1>7. TimerNvic
  <2>0. {} \in SUBSET {"TIMER0"} /\ {"TIMER0"} \in SUBSET {"TIMER0"} OBVIOUS
  <2>1. CASE i.op = "enable" BY <2>1, <1>6, <1>2, <2>0 DEF TimerNvic, NvicOf
  <2>2. CASE i.op = "disable" BY <2>2, <1>6, <1>2, <2>0 DEF TimerNvic, NvicOf
  <2>3. CASE i.op = "clear pending" BY <2>3, <1>6, <1>2, <2>0 DEF TimerNvic, NvicOf
  <2>4. CASE i.op \notin {"enable", "disable", "clear pending"}
    BY <2>4, <1>2, <2>0 DEF TimerNvic, NvicOf, NvicRuns
  <2> QED BY <2>1, <2>2, <2>3, <2>4
<1>8. WriteOf(i) = GpioIdle BY <1>4 DEF WriteOf
<1> QED BY <1>2, <1>5, <1>7, <1>8

LEMMA MainTimer ==
  ASSUME ProgInv, image = "interrupt_demo", Executes, ~InHandler, pc <= TimerLen
  PROVE  /\ pc' \in 1 .. TimerLen + 1 /\ handler' = handler
         /\ Port(GpioIdle) /\ Triggered' = Triggered /\ TimerNvic
<1> DEFINE te == Demo!TimerExample
<1>1. Current = Demo!Main[pc] /\ pc \in Int /\ pc >= 1 BY DemoPlace
<1>2. Holding(Demo!Main, 0, te) /\ Len(te) = TimerLen /\ TimerLen \in Nat
  BY MainParts, Tests1 DEF TimerLen
<1>3. Code(te, TimerActions, Conditions) BY TimerTextParts
<1> HIDE DEF te
<1>4. pc \in 1 .. Len(te) /\ 0 + pc = pc BY <1>1, <1>2
<1>5. Current = te[pc] BY <1>1, <1>2, <1>4 DEF Holding
<1>6. Current \in TimerActions \cup Jumps(Conditions) /\ Inside(te, pc) BY <1>3, <1>4, <1>5 DEF Code
<1>7. Distance(Current) = 1 \/ (Current.op \in JumpOps /\ Distance(Current) = Current.by)
  BY DEF Distance, JumpOps
<1>8. pc + Distance(Current) \in 1 .. TimerLen + 1 BY <1>1, <1>2, <1>4, <1>5, <1>6, <1>7 DEF Inside
<1>9. pc' = pc + Distance(Current) /\ handler' = handler BY DEF Executes, Jump
<1> QED BY <1>6, <1>8, <1>9, TimerInstruction

LEMMA MainAfter ==
  ASSUME ProgInv, image = "interrupt_demo", Executes, ~InHandler, pc > TestsEnd
  PROVE  pc' > TestsEnd /\ pc' \in Int /\ handler' = handler /\ WriteOf(Current).op \in Always \cup {"none"}
<1> DEFINE m == Demo!Main
           i == Current
<1>1. i = m[pc] /\ pc \in Int /\ pc \in 1 .. Len(m) BY DemoPlace
<1>2. Phased(m, Actions(Registers, DemoIrqs), Actions(AlwaysUart, DemoIrqs), Conditions, TestsEnd)
  BY MainPhases
<1>3. Len(m) \in Nat /\ TestsEnd \in Nat BY MainParts, Tests1
<1>4. Distance(i) = 1 \/ (i.op \in JumpOps /\ Distance(i) = i.by) BY DEF Distance, JumpOps
<1>5. pc' = pc + Distance(i) /\ handler' = handler BY DEF Executes, Jump
<1> HIDE DEF m, i
<1>6. i \in Actions(AlwaysUart, DemoIrqs) \cup Jumps(Conditions) BY <1>1, <1>2, <1>3 DEF Phased
<1>7. i.op \in JumpOps => i.by \in Int /\ pc + i.by > TestsEnd
  <2>1. i.op \in JumpOps => i.by \in Int BY <1>6, ActionFields
  <2> QED BY <1>1, <1>2, <1>3, <2>1 DEF Phased
<1>8. pc' > TestsEnd /\ pc' \in Int BY <1>1, <1>3, <1>4, <1>5, <1>7
<1>9. WriteOf(i).op \in Always \cup {"none"}
  <2>2. i.op = "bus" => \/ i.dev \in Uarts \/ i.dev = "TIMER0"
                        \/ i.dev = "GPIO0" /\ i.access \in [op : Always, pins : SUBSET Pins]
    BY <1>6, BusFields DEF AlwaysUart, Always, UartSettings
  <2>3. "GPIO0" \notin Uarts BY DEF Uarts
  <2>4. i.op = "bus" /\ i.dev = "GPIO0" => i.access.op \in Always BY <2>2, <2>3
  <2> QED BY <2>4 DEF WriteOf, GpioIdle
<1> QED BY <1>5, <1>8, <1>9 DEF i

\* The write of the set-up of the pins at place p.
SetUpWrites(p, w) ==
  \/ p = DataAt - 1 /\ w = GpioWrite("OUTENABLESET", 7 .. 10)
  \/ p = DataAt     /\ w = GpioWrite("DATAOUT", {8, 10})
  \/ p = DataAt + CallTime + 1 /\ w = GpioWrite("INTTYPECLR", {7})
  \/ p = DataAt + CallTime + 2 /\ w = GpioWrite("INTPOLSET", {7})
  \/ p = DataAt + 2 * CallTime + 3 /\ w = GpioWrite("INTTYPECLR", {8})
  \/ p = DataAt + 2 * CallTime + 4 /\ w = GpioWrite("INTPOLCLR", {8})
  \/ p = DataAt + 3 * CallTime + 5 /\ w = GpioWrite("INTTYPESET", {9})
  \/ p = DataAt + 3 * CallTime + 6 /\ w = GpioWrite("INTPOLSET", {9})
  \/ p = DataAt + 4 * CallTime + 7 /\ w = GpioWrite("INTTYPESET", {10})
  \/ p = DataAt + 4 * CallTime + 8 /\ w = GpioWrite("INTPOLCLR", {10})
SetUpPlaces == {DataAt - 1, DataAt, DataAt + CallTime + 1, DataAt + CallTime + 2,
                DataAt + 2 * CallTime + 3, DataAt + 2 * CallTime + 4, DataAt + 3 * CallTime + 5,
                DataAt + 3 * CallTime + 6, DataAt + 4 * CallTime + 7, DataAt + 4 * CallTime + 8}
SetUpAt(p, w) == SetUpWrites(p, w) \/ (p \notin SetUpPlaces /\ w = GpioIdle)

LEMMA CallsAt ==
  ASSUME NEW s, NEW o \in Int, NEW p \in Int, Calls(s, o), p > o, p <= o + CallTime
  PROVE  s[p] = GotoI(1)
<1>1. p - o \in 1 .. CallTime /\ o + (p - o) = p BY DriverAssumption
<1> QED BY <1>1 DEF Calls, GotoI

LEMMA SetUpCode ==
  LET m == Demo!Main IN
  \A p \in Int : TimerLen < p /\ p <= TypesEnd =>
    \/ \E w : SetUpWrites(p, w) /\ m[p] = [op |-> "bus", dev |-> "GPIO0", access |-> w]
    \/ p \notin SetUpPlaces /\ m[p] \in {GotoI(1), PutsI, SetI("err_code", 0)}
<1> DEFINE m == Demo!Main
<1>1. Holding(m, TimerLen, SetUp) /\ TimerLen \in Int /\ DataAt \in Int /\ DataAt = TimerLen + CallTime + 4
  BY MainParts, Tests1 DEF DataAt
<1> HIDE DEF m
<1>2. /\ m[TimerLen + 1] = SetI("err_code", 0) /\ m[TimerLen + 2] = PutsI /\ Calls(m, TimerLen + 2)
      /\ m[TimerLen + CallTime + 3] = W("OUTENABLESET", 7 .. 10)
      /\ m[TimerLen + CallTime + 4] = W("DATAOUT", {8, 10})
      /\ Holding(m, TimerLen + CallTime + 4, Demo!SetTypes)
  BY <1>1, SetUpText
<1>3. TimerLen + CallTime + 3 = DataAt - 1 BY <1>1, Tests1
<1>4. Holding(m, DataAt, Demo!SetTypes) BY <1>1, <1>2
<1>5. /\ Calls(m, DataAt)                    /\ Calls(m, DataAt + CallTime + 2)
      /\ Calls(m, DataAt + 2 * CallTime + 4) /\ Calls(m, DataAt + 3 * CallTime + 6)
      /\ m[DataAt + CallTime + 1] = W("INTTYPECLR", {7})
      /\ m[DataAt + CallTime + 2] = W("INTPOLSET", {7})
      /\ m[DataAt + 2 * CallTime + 3] = W("INTTYPECLR", {8})
      /\ m[DataAt + 2 * CallTime + 4] = W("INTPOLCLR", {8})
      /\ m[DataAt + 3 * CallTime + 5] = W("INTTYPESET", {9})
      /\ m[DataAt + 3 * CallTime + 6] = W("INTPOLSET", {9})
      /\ m[DataAt + 4 * CallTime + 7] = W("INTTYPESET", {10})
      /\ m[DataAt + 4 * CallTime + 8] = W("INTPOLCLR", {10})
  BY <1>1, <1>4, TypesText
<1> SUFFICES ASSUME NEW p \in Int, TimerLen < p, p <= TypesEnd
             PROVE  \/ \E w : SetUpWrites(p, w) /\ m[p] = [op |-> "bus", dev |-> "GPIO0", access |-> w]
                    \/ p \notin SetUpPlaces /\ m[p] \in {GotoI(1), PutsI, SetI("err_code", 0)}
  BY DEF m
<1>6. CASE p \in SetUpPlaces
  <2>1. ASSUME NEW r, NEW P, SetUpWrites(p, GpioWrite(r, P)), m[p] = W(r, P)
        PROVE  \E w : SetUpWrites(p, w) /\ m[p] = [op |-> "bus", dev |-> "GPIO0", access |-> w]
    BY <2>1 DEF W
  <2>2. CASE p = DataAt - 1 BY <1>2, <1>3, <2>1, <2>2 DEF SetUpWrites
  <2>3. CASE p = DataAt BY <1>1, <1>2, <2>1, <2>3 DEF SetUpWrites
  <2>4. CASE p = DataAt + CallTime + 1 BY <1>5, <2>1, <2>4 DEF SetUpWrites
  <2>5. CASE p = DataAt + CallTime + 2 BY <1>5, <2>1, <2>5 DEF SetUpWrites
  <2>6. CASE p = DataAt + 2 * CallTime + 3 BY <1>5, <2>1, <2>6 DEF SetUpWrites
  <2>7. CASE p = DataAt + 2 * CallTime + 4 BY <1>5, <2>1, <2>7 DEF SetUpWrites
  <2>8. CASE p = DataAt + 3 * CallTime + 5 BY <1>5, <2>1, <2>8 DEF SetUpWrites
  <2>9. CASE p = DataAt + 3 * CallTime + 6 BY <1>5, <2>1, <2>9 DEF SetUpWrites
  <2>10. CASE p = DataAt + 4 * CallTime + 7 BY <1>5, <2>1, <2>10 DEF SetUpWrites
  <2>11. CASE p = DataAt + 4 * CallTime + 8 BY <1>5, <2>1, <2>11 DEF SetUpWrites
  <2> QED BY <1>6, <2>2, <2>3, <2>4, <2>5, <2>6, <2>7, <2>8, <2>9, <2>10, <2>11 DEF SetUpPlaces
<1>7. CASE p \notin SetUpPlaces
  <2> DEFINE D == DataAt
             C == CallTime
  <2>1. \/ p = TimerLen + 1 \/ p = TimerLen + 2 \/ (p > TimerLen + 2 /\ p <= (TimerLen + 2) + CallTime)
        \/ p > D /\ p <= D + CallTime
        \/ p > D + C + 2 /\ p <= (D + C + 2) + CallTime
        \/ p > D + 2 * C + 4 /\ p <= (D + 2 * C + 4) + CallTime
        \/ p > D + 3 * C + 6 /\ p <= (D + 3 * C + 6) + CallTime
    BY <1>1, <1>7, Tests1 DEF SetUpPlaces, TypesEnd
  <2>2. /\ TimerLen + 2 \in Int /\ D \in Int /\ D + C + 2 \in Int /\ D + 2 * C + 4 \in Int /\ D + 3 * C + 6 \in Int
    BY <1>1, Tests1
  <2>3. m[p] \in {GotoI(1), PutsI, SetI("err_code", 0)} BY <1>2, <1>5, <2>1, <2>2, CallsAt
  <2> QED BY <1>7, <2>3
<1> QED BY <1>6, <1>7

LEMMA MainSetUp ==
  ASSUME ProgInv, image = "interrupt_demo", Executes, ~InHandler, TimerLen < pc, pc <= TypesEnd
  PROVE  /\ pc' = pc + 1 /\ handler' = handler /\ NvicRuns /\ Triggered' = Triggered
         /\ \E w : Port(w) /\ SetUpAt(pc, w)
<1> DEFINE m == Demo!Main
<1>1. Current = m[pc] /\ pc \in Int BY DemoPlace
<1>2. \/ \E w : SetUpWrites(pc, w) /\ m[pc] = [op |-> "bus", dev |-> "GPIO0", access |-> w]
      \/ pc \notin SetUpPlaces /\ m[pc] \in {GotoI(1), PutsI, SetI("err_code", 0)}
  BY <1>1, SetUpCode
<1> HIDE DEF m
<1>3. ASSUME NEW w, Runs(1, w, Triggered), SetUpAt(pc, w)
      PROVE  /\ pc' = pc + 1 /\ handler' = handler /\ NvicRuns /\ Triggered' = Triggered
             /\ \E v : Port(v) /\ SetUpAt(pc, v)
  BY <1>3 DEF Runs, Jump
<1>4. CASE \E w : SetUpWrites(pc, w) /\ m[pc] = [op |-> "bus", dev |-> "GPIO0", access |-> w]
  <2>1. PICK w : SetUpWrites(pc, w) /\ m[pc] = [op |-> "bus", dev |-> "GPIO0", access |-> w] BY <1>4
  <2>2. PICK r, P : w = GpioWrite(r, P) BY <2>1 DEF SetUpWrites
  <2>3. Current = W(r, P) BY <1>1, <2>1, <2>2 DEF W
  <2>4. Runs(1, w, Triggered) BY <2>2, <2>3, RunsWrite
  <2> QED BY <1>3, <2>1, <2>4 DEF SetUpAt
<1>5. CASE pc \notin SetUpPlaces /\ m[pc] \in {GotoI(1), PutsI, SetI("err_code", 0)}
  <2>1. CASE m[pc] = GotoI(1) BY <1>1, <1>3, <1>5, <2>1, RunsGoto DEF SetUpAt
  <2>2. CASE m[pc] = PutsI BY <1>1, <1>3, <1>5, <2>2, RunsPuts DEF SetUpAt
  <2>3. CASE m[pc] = SetI("err_code", 0)
    <3>1. Runs(1, GpioIdle, IF "err_code" = "irq_triggered" THEN 0 ELSE Triggered)
      BY <1>1, <2>3, RunsSet
    <3>2. Runs(1, GpioIdle, Triggered) BY <3>1
    <3> QED BY <1>3, <1>5, <3>2 DEF SetUpAt
  <2> QED BY <1>5, <2>1, <2>2, <2>3
<1> QED BY <1>2, <1>4, <1>5

\* The requests of the pins are cleared, and their interrupts enabled.
Prepared(x) ==
  \/ pc = TypesEnd + x - 6 /\ Nvic({Demo!PORT0(x)}, {Demo!PORT0(x)}, nvic.enabled)
  \/ pc = TypesEnd + x - 2 /\ Nvic({}, {}, nvic.enabled \cup {Demo!PORT0(x)})

LEMMA MainPrepare ==
  ASSUME ProgInv, image = "interrupt_demo", Executes, ~InHandler, TypesEnd < pc, pc <= TypesEnd + 8
  PROVE  /\ pc' = pc + 1 /\ handler' = handler /\ Port(GpioIdle) /\ Triggered' = Triggered
         /\ \E x \in TestPins : Prepared(x)
<1> DEFINE m == Demo!Main
<1>1. Current = m[pc] /\ pc \in Int BY DemoPlace
<1>2. Holding(m, TypesEnd, ClearAll) /\ Holding(m, TypesEnd + 4, EnableAll) /\ TypesEnd \in Int
  BY MainParts, Tests1
<1> HIDE DEF m
<1>3. /\ m[TypesEnd + 1] = IrqI("clear pending", "PORT0_7") /\ m[TypesEnd + 2] = IrqI("clear pending", "PORT0_8")
      /\ m[TypesEnd + 3] = IrqI("clear pending", "PORT0_9") /\ m[TypesEnd + 4] = IrqI("clear pending", "PORT0_10")
  BY <1>2, PinsText DEF Four
<1>4. /\ m[(TypesEnd + 4) + 1] = IrqI("enable", "PORT0_7") /\ m[(TypesEnd + 4) + 2] = IrqI("enable", "PORT0_8")
      /\ m[(TypesEnd + 4) + 3] = IrqI("enable", "PORT0_9") /\ m[(TypesEnd + 4) + 4] = IrqI("enable", "PORT0_10")
  <2>1. TypesEnd + 4 \in Int BY <1>2
  <2> QED BY <1>2, <2>1, PinsText DEF Four
<1>5. /\ Demo!PORT0(7) = "PORT0_7" /\ Demo!PORT0(8) = "PORT0_8"
      /\ Demo!PORT0(9) = "PORT0_9" /\ Demo!PORT0(10) = "PORT0_10"
  BY DEF Demo!PORT0
<1>6. PICK x \in TestPins : \/ pc = TypesEnd + x - 6 /\ m[pc] = IrqI("clear pending", Demo!PORT0(x))
                            \/ pc = TypesEnd + x - 2 /\ m[pc] = IrqI("enable", Demo!PORT0(x))
  <2>1. 7 \in TestPins /\ 8 \in TestPins /\ 9 \in TestPins /\ 10 \in TestPins BY DEF TestPins
  <2>2. /\ TypesEnd + 7 - 6 = TypesEnd + 1 /\ TypesEnd + 8 - 6 = TypesEnd + 2
        /\ TypesEnd + 9 - 6 = TypesEnd + 3 /\ TypesEnd + 10 - 6 = TypesEnd + 4
        /\ TypesEnd + 7 - 2 = (TypesEnd + 4) + 1 /\ TypesEnd + 8 - 2 = (TypesEnd + 4) + 2
        /\ TypesEnd + 9 - 2 = (TypesEnd + 4) + 3 /\ TypesEnd + 10 - 2 = (TypesEnd + 4) + 4
    BY <1>2
  <2>3. \/ pc = TypesEnd + 1 \/ pc = TypesEnd + 2 \/ pc = TypesEnd + 3 \/ pc = TypesEnd + 4
        \/ pc = (TypesEnd + 4) + 1 \/ pc = (TypesEnd + 4) + 2 \/ pc = (TypesEnd + 4) + 3 \/ pc = (TypesEnd + 4) + 4
    BY <1>1, <1>2
  <2> QED BY <1>3, <1>4, <1>5, <2>1, <2>2, <2>3
<1>7. CASE pc = TypesEnd + x - 6 /\ m[pc] = IrqI("clear pending", Demo!PORT0(x))
  BY <1>1, <1>7, RunsIrq DEF Prepared, Jump
<1>8. CASE pc = TypesEnd + x - 2 /\ m[pc] = IrqI("enable", Demo!PORT0(x))
  BY <1>1, <1>8, RunsIrq DEF Prepared, Jump
<1> QED BY <1>6, <1>7, <1>8

\* What the test of a pin drives, and what the handler of a level takes back.
Out(x)  == IF x = 7 THEN {7, 8, 10} ELSE IF x = 8 THEN {7, 10}
           ELSE IF x = 9 THEN {7, 9, 10} ELSE {7, 9}
Back(x) == IF x = 7 THEN {8, 10} ELSE {7, 8, 10}
ClearAt(x) == IF IsLevel(x) THEN CallTime + 3 ELSE CallTime + 2

TestRuns(x, j) ==
  \/ j = CallTime + 1 /\ Runs(1, GpioWrite("INTENSET", {x}), Triggered)
  \/ j = CallTime + 2 /\ Runs(1, GpioWrite("DATAOUT", Out(x)), Triggered)
  \/ j = 2 * CallTime + 3 /\ Runs(1, GpioWrite("INTENCLR", {x}), Triggered)
  \/ j = 2 * CallTime + 5 /\ Runs(IF Triggered = 1 THEN 1 ELSE 4, GpioIdle, Triggered)
  \/ j = 2 * CallTime + 7 /\ Runs(1, GpioIdle, 0)
  \/ j = 2 * CallTime + 8 /\ Runs(2, GpioIdle, Triggered)
  \/ /\ j \notin {CallTime + 1, CallTime + 2, 2 * CallTime + 3, 2 * CallTime + 5,
                  2 * CallTime + 7, 2 * CallTime + 8}
     /\ Runs(1, GpioIdle, Triggered)

LEMMA TestCode ==
  ASSUME NEW x \in TestPins PROVE IsTest(Demo!Main, TestBase(x), x, Out(x)) /\ TestBase(x) \in Int
<1> DEFINE m == Demo!Main
<1>1. TestBase(7) \in Int /\ TestBase(8) \in Int /\ TestBase(9) \in Int /\ TestBase(10) \in Int
  BY Tests1
<1>2. /\ Holding(m, TestBase(7), Demo!Test(7, "B")) /\ Holding(m, TestBase(8), Demo!Test(8, "9"))
      /\ Holding(m, TestBase(9), Demo!Test(9, "D")) /\ Holding(m, TestBase(10), Demo!Test(10, "5"))
  BY MainParts
<1>3. /\ Demo!Pattern("B") = Out(7) /\ Demo!Pattern("9") = Out(8)
      /\ Demo!Pattern("D") = Out(9) /\ Demo!Pattern("5") = Out(10)
  BY DEF Demo!Pattern, Out
<1> HIDE DEF m
<1>4. /\ IsTest(m, TestBase(7), 7, Demo!Pattern("B")) /\ IsTest(m, TestBase(8), 8, Demo!Pattern("9"))
      /\ IsTest(m, TestBase(9), 9, Demo!Pattern("D")) /\ IsTest(m, TestBase(10), 10, Demo!Pattern("5"))
  BY <1>1, <1>2, TestText
<1>5. x = 7 \/ x = 8 \/ x = 9 \/ x = 10 BY DEF TestPins
<1> QED BY <1>1, <1>3, <1>4, <1>5 DEF m

LEMMA MainTest ==
  ASSUME ProgInv, image = "interrupt_demo", Executes, ~InHandler,
         NEW x \in TestPins, NEW j \in Int, pc = TestBase(x) + j, 1 <= j, j <= TestLen
  PROVE  TestRuns(x, j)
<1> DEFINE m == Demo!Main
           o == TestBase(x)
           C == CallTime
<1>1. Current = m[pc] BY DemoPlace
<1>2. IsTest(m, o, x, Out(x)) /\ o \in Int /\ C \in Nat BY TestCode, Tests1
<1> HIDE DEF m, o, C
<1>3. pc = o + j BY DEF o
<1>4. TestLen = 2 * C + 9 BY DEF TestLen, C
<1>5. CASE j = C + 1 BY <1>3, <1>2, <1>1, <1>5, RunsWrite DEF TestRuns, C, IsTest
<1>6. CASE j = C + 2 BY <1>3, <1>2, <1>1, <1>6, RunsWrite DEF TestRuns, C, IsTest
<1>7. CASE j = 2 * C + 3 BY <1>3, <1>2, <1>1, <1>7, RunsWrite DEF TestRuns, C, IsTest
<1>8. CASE j = 2 * C + 5 BY <1>3, <1>2, <1>1, <1>8, RunsUnless DEF TestRuns, C, IsTest
<1>9. CASE j = 2 * C + 7 BY <1>3, <1>2, <1>1, <1>9, RunsSet DEF TestRuns, C, IsTest
<1>10. CASE j = 2 * C + 8 BY <1>3, <1>2, <1>1, <1>10, RunsGoto DEF TestRuns, C, IsTest
<1>11. CASE j \notin {C + 1, C + 2, 2 * C + 3, 2 * C + 5, 2 * C + 7, 2 * C + 8}
  <2>1. \/ j <= C \/ (j > C + 2 /\ j <= (C + 2) + C)
        \/ j = 2 * C + 4 \/ j = 2 * C + 6 \/ j = 2 * C + 9
    BY <1>2, <1>4, <1>11
  <2>2. Current \in {GotoI(1), PutsI, SetI("err_code", 1)}
    <3>1. CASE j <= C BY <3>1, <1>1, <1>2, <1>3, CallsAt DEF IsTest, C
    <3>2. CASE j > C + 2 /\ j <= (C + 2) + C BY <3>2, <1>2, <1>1, <1>3, CallsAt DEF IsTest, C
    <3>3. CASE j = 2 * C + 4 \/ j = 2 * C + 6 \/ j = 2 * C + 9
      BY <1>1, <1>2, <1>3, <3>3 DEF IsTest, C
    <3> QED BY <2>1, <3>1, <3>2, <3>3
  <2>3. Runs(1, GpioIdle, Triggered)
    <3>1. CASE Current = SetI("err_code", 1) BY RunsSet, <3>1
    <3> QED BY <2>2, <3>1, RunsGoto, RunsPuts
  <2> QED BY <1>11, <2>3 DEF TestRuns, C
<1> QED BY <1>5, <1>6, <1>7, <1>8, <1>9, <1>10, <1>11

\* The handler of a pin.
HandlerRuns(x) ==
  \/ hpc = 1 /\ Runs(1, GpioIdle, 1)
  \/ IsLevel(x) /\ hpc = 2 /\ Runs(1, GpioWrite("DATAOUT", Back(x)), Triggered)
  \/ hpc = ClearAt(x) /\ Runs(1, GpioWrite("INTCLEAR", {x}), Triggered)
  \/ /\ hpc \notin {1, ClearAt(x)} /\ ~(IsLevel(x) /\ hpc = 2)
     /\ Runs(1, GpioIdle, Triggered)

\* The text of the handler of a pin.
IsHandler(t, x) ==
  /\ Len(t) = ClearAt(x) + 1 /\ t[1] = SetI("irq_triggered", 1)
  /\ IsLevel(x) => t[2] = W("DATAOUT", Back(x)) /\ Calls(t, 2)
  /\ ~IsLevel(x) => Calls(t, 1)
  /\ t[ClearAt(x)] = W("INTCLEAR", {x}) /\ t[ClearAt(x) + 1] = ReturnI

LEMMA HandlerCode == ASSUME NEW x \in TestPins PROVE IsHandler(Demo!Handlers[Demo!PORT0(x)], x)
<1> DEFINE level(n) == <<SetI("irq_triggered", 1)>> \o <<W("DATAOUT", Back(n))>>
                            \o (Call \o <<W("INTCLEAR", {n})>>) \o <<ReturnI>>
           edge(n) == <<SetI("irq_triggered", 1)>> \o (Call \o <<W("INTCLEAR", {n})>>) \o <<ReturnI>>
<1>1. /\ Demo!Set("irq_triggered", 1) = <<SetI("irq_triggered", 1)>>
      /\ Demo!DataOut(Demo!Pattern("A")) = <<W("DATAOUT", {8, 10})>>
      /\ Demo!DataOut(Demo!Pattern("B")) = <<W("DATAOUT", {7, 8, 10})>>
      /\ \A n : Demo!gpio_IntClear(n) = Call \o <<W("INTCLEAR", {n})>>
      /\ Demo!Do("return") = <<ReturnI>>
  BY SameDemo DEF Set, SetI, DataOut, Gpio0, Bus, W, Demo!Pattern, gpio_IntClear, Do, ReturnI
<1>2. /\ Demo!PORT0(7) = "PORT0_7" /\ Demo!PORT0(8) = "PORT0_8"
      /\ Demo!PORT0(9) = "PORT0_9" /\ Demo!PORT0(10) = "PORT0_10"
  BY DEF Demo!PORT0
<1>3. /\ Demo!Handlers["PORT0_7"] = Demo!PORT0_7_Handler \o Demo!Do("return")
      /\ Demo!Handlers["PORT0_8"] = Demo!PORT0_8_Handler \o Demo!Do("return")
      /\ Demo!Handlers["PORT0_9"] = Demo!PORT0_9_Handler \o Demo!Do("return")
      /\ Demo!Handlers["PORT0_10"] = Demo!PORT0_10_Handler \o Demo!Do("return")
  BY DEF Demo!Handlers
<1>7. /\ IsLevel(7) /\ IsLevel(8) /\ ~IsLevel(9) /\ ~IsLevel(10) /\ Back(7) = {8, 10} /\ Back(8) = {7, 8, 10}
  BY DEF IsLevel, Back
<1>4. /\ Demo!Handlers["PORT0_7"] = level(7) /\ Demo!Handlers["PORT0_8"] = level(8)
      /\ Demo!Handlers["PORT0_9"] = edge(9) /\ Demo!Handlers["PORT0_10"] = edge(10)
  BY <1>1, <1>3, <1>7 DEF Demo!PORT0_7_Handler, Demo!PORT0_8_Handler, Demo!PORT0_9_Handler, Demo!PORT0_10_Handler
<1>5. ASSUME NEW n
      PROVE  /\ Len(level(n)) = CallTime + 4 /\ level(n)[1] = SetI("irq_triggered", 1)
             /\ level(n)[2] = W("DATAOUT", Back(n)) /\ Calls(level(n), 2)
             /\ level(n)[CallTime + 3] = W("INTCLEAR", {n}) /\ level(n)[CallTime + 4] = ReturnI
  BY LevelHandler
<1>6. ASSUME NEW n
      PROVE  /\ Len(edge(n)) = CallTime + 3 /\ edge(n)[1] = SetI("irq_triggered", 1)
             /\ Calls(edge(n), 1) /\ edge(n)[CallTime + 2] = W("INTCLEAR", {n}) /\ edge(n)[CallTime + 3] = ReturnI
  BY EdgeHandler
<1> HIDE DEF level, edge
<1>8. \A n : /\ IsLevel(n) => ClearAt(n) = CallTime + 3 /\ ClearAt(n) + 1 = CallTime + 4
             /\ ~IsLevel(n) => ClearAt(n) = CallTime + 2 /\ ClearAt(n) + 1 = CallTime + 3
  BY DriverAssumption DEF ClearAt
<1>9. ASSUME NEW n, IsLevel(n) PROVE IsHandler(level(n), n) BY <1>8, <1>5, <1>9 DEF IsHandler
<1>10. IsHandler(edge(9), 9) /\ IsHandler(edge(10), 10) BY <1>6, <1>7, <1>8 DEF IsHandler
<1>11. x = 7 \/ x = 8 \/ x = 9 \/ x = 10 BY DEF TestPins
<1> QED BY <1>2, <1>4, <1>7, <1>9, <1>10, <1>11

LEMMA HandlerPlace ==
  ASSUME ProgInv, image = "interrupt_demo", NEW x \in TestPins, Handles(x)
  PROVE  /\ InHandler /\ hpc \in Int /\ 1 <= hpc /\ hpc <= ClearAt(x) + 1
         /\ Executes => HandlerRuns(x) /\ hpc <= ClearAt(x)
         /\ Leaves => hpc = ClearAt(x) + 1
<1> DEFINE t == Demo!Handlers[Demo!PORT0(x)]
           C == CallTime
<1>1. InHandler BY PinNames DEF Handles, InHandler
<1>2. Current = t[hpc] /\ hpc \in 1 .. Len(t) BY <1>1, DemoPlace DEF Handles
<1>3. IsHandler(t, x) /\ C \in Nat BY HandlerCode, Tests1
<1> HIDE DEF t, C
<1>4. /\ IsLevel(x) => ClearAt(x) = C + 3
      /\ ~IsLevel(x) => ClearAt(x) = C + 2
  BY DEF ClearAt, C
<1>5. hpc \in Int /\ 1 <= hpc /\ hpc <= ClearAt(x) + 1 /\ ClearAt(x) \in Int
  BY <1>2, <1>3, <1>4 DEF IsHandler
<1>6. /\ hpc = 1 => Current = SetI("irq_triggered", 1)
      /\ IsLevel(x) /\ hpc = 2 => Current = W("DATAOUT", Back(x))
      /\ hpc = ClearAt(x) => Current = W("INTCLEAR", {x})
      /\ hpc = ClearAt(x) + 1 => Current = ReturnI
  BY <1>2, <1>3 DEF IsHandler
<1>7. hpc \notin {1, ClearAt(x), ClearAt(x) + 1} /\ ~(IsLevel(x) /\ hpc = 2) => Current = GotoI(1)
  <2> HAVE hpc \notin {1, ClearAt(x), ClearAt(x) + 1} /\ ~(IsLevel(x) /\ hpc = 2)
  <2>1. CASE IsLevel(x) BY <2>1, <1>4, <1>3, <1>2, <1>5, CallsAt DEF IsHandler, C
  <2>2. CASE ~IsLevel(x) BY <2>2, <1>4, <1>3, <1>2, <1>5, CallsAt DEF IsHandler, C
  <2> QED BY <2>1, <2>2
<1>8. ReturnI.op = "return" /\ SetI("irq_triggered", 1).op # "return" /\ GotoI(1).op # "return"
      /\ \A r, P : W(r, P).op # "return"
  BY DEF ReturnI, SetI, GotoI, W
<1>9. ASSUME Leaves PROVE hpc = ClearAt(x) + 1 BY <1>9, <1>6, <1>7, <1>8 DEF Leaves
<1>10. ASSUME Executes PROVE HandlerRuns(x) /\ hpc <= ClearAt(x)
  <2>1. hpc # ClearAt(x) + 1 BY <1>6, <1>8, <1>10 DEF Executes
  <2>2. hpc = 1 => Runs(1, GpioIdle, 1) BY <1>6, <1>10, RunsSet
  <2>3. IsLevel(x) /\ hpc = 2 => Runs(1, GpioWrite("DATAOUT", Back(x)), Triggered)
    BY <1>6, <1>10, RunsWrite
  <2>4. hpc = ClearAt(x) => Runs(1, GpioWrite("INTCLEAR", {x}), Triggered) BY <1>6, <1>10, RunsWrite
  <2>5. hpc \notin {1, ClearAt(x)} /\ ~(IsLevel(x) /\ hpc = 2) => Runs(1, GpioIdle, Triggered)
    BY <1>7, <1>10, <2>1, RunsGoto
  <2> QED BY <1>5, <2>1, <2>2, <2>3, <2>4, <2>5 DEF HandlerRuns
<1> QED BY <1>1, <1>5, <1>9, <1>10

-----------------------------------------------------------------------------
(* A trigger of a pin is handled once.                                     *)

(* The inductive invariant: the pins' types and requests are set up before *)
(* the tests, and the interrupt of a pin is only awaited and handled in a  *)
(* window of its test, between the write that triggers it and the check.   *)
TestPos(x) == pc - TestBase(x)
Window(x)  == CallTime + 3 <= TestPos(x) /\ TestPos(x) <= 2 * CallTime + 4
Calm(x)    == ~Up(x) /\ ~Pends(x) /\ ~Handles(x)

PortIrqs == {"PORT0_7", "PORT0_8", "PORT0_9", "PORT0_10"}

Settings == pc <= TestsEnd =>
  /\ gpio.reg_inttype \subseteq {9, 10} /\ gpio.reg_intpol \subseteq {7, 9}
  /\ pc >= DataAt => 7 .. 10 \subseteq gpio.reg_douten
  /\ pc > DataAt + CallTime + 2     => 7 \in gpio.reg_intpol
  /\ pc > DataAt + 3 * CallTime + 5 => 9 \in gpio.reg_inttype
  /\ pc > DataAt + 3 * CallTime + 6 => 9 \in gpio.reg_intpol
  /\ pc > DataAt + 4 * CallTime + 7 => 10 \in gpio.reg_inttype

Enabling == pc <= TestsEnd =>
  /\ nvic.enabled \subseteq {"TIMER0"} \cup PortIrqs
  /\ handler \in {"none", "TIMER0"} \cup PortIrqs
  /\ \A x \in TestPins : pc > TypesEnd + x - 2 => Demo!PORT0(x) \in nvic.enabled

\* The interrupt of a pin is enabled in its test.
Unmasked(x) == CallTime + 2 <= TestPos(x) /\ TestPos(x) <= 2 * CallTime + 3
Statuses ==
  /\ gpio.reg_inten \subseteq TestPins /\ gpio.reg_intstat \subseteq TestPins
  /\ \A x \in TestPins : x \in gpio.reg_inten <=> Unmasked(x)

Flag == pc <= TestsEnd =>
  /\ Triggered \in {0, 1}
  /\ Triggered = 1 => \E x \in TestPins : CallTime + 3 <= TestPos(x) /\ TestPos(x) <= 2 * CallTime + 7

\* A pin that has not been driven active yet has not been seen active either.
Before(x) ==
  /\ IsHigh(x) \/ pc > DataAt     => ~Driven(x)
  /\ IsHigh(x) \/ pc > DataAt + 1 => ~Sync1(x)
  /\ IsHigh(x) \/ pc > DataAt + 2 => ~Sync2(x)

\* The trigger of a pin has passed: its level is taken back, or its edge is old.
Spent(x) == IF IsLevel(x) THEN ~Driven(x) /\ ~Sync1(x) /\ ~Sync2(x)
                          ELSE Driven(x) /\ Sync1(x) /\ Sync2(x) /\ Latest(x)
Handling(x) ==
  /\ ~Pends(x) /\ (Triggered = 1 <=> hpc > 1) /\ (Up(x) <=> hpc <= ClearAt(x))
  /\ IsLevel(x) => /\ hpc > 2 => ~Driven(x)
                   /\ hpc > 3 => ~Sync1(x)
                   /\ hpc > 4 => ~Sync2(x)
Within(x) ==
  /\ Handles(x) => Handling(x)
  /\ ~Handles(x) => (Up(x) <=> Pends(x)) /\ (Triggered = 1 => ~Up(x) /\ Spent(x))
  /\ ~IsLevel(x) => /\ Driven(x) /\ (Sync2(x) => Sync1(x))
                    /\ Up(x) \/ Handles(x) => Spent(x)
PinOK(x) ==
  /\ Calm(x) \/ Window(x)
  /\ TestPos(x) <= CallTime + 2 => Before(x)
  /\ Window(x) => Within(x)

OneInv == image = "interrupt_demo" =>
  Settings /\ Enabling /\ Statuses /\ Flag /\ \A x \in TestPins : PinOK(x)

-----------------------------------------------------------------------------
\* The tests follow one another.
LEMMA Bases ==
  /\ CallTime \in Nat /\ TestLen = 2 * CallTime + 9
  /\ TimerLen \in Nat /\ DataAt \in Nat /\ TypesEnd \in Nat /\ TestsEnd \in Nat
  /\ DataAt = TimerLen + CallTime + 4 /\ TypesEnd = DataAt + 4 * CallTime + 8
  /\ \A x \in TestPins : /\ TestBase(x) \in Nat /\ TypesEnd + 8 <= TestBase(x)
                         /\ TestBase(x) + TestLen <= TestsEnd
  /\ \A x, y \in TestPins : x < y => TestBase(x) + TestLen <= TestBase(y)
  /\ TypesEnd + 8 < TestsEnd
  /\ \A p \in Int : TypesEnd + 8 < p /\ p <= TestsEnd =>
       \E x \in TestPins : TestBase(x) < p /\ p <= TestBase(x) + TestLen
<1>1. CallTime \in Nat /\ TestLen = 2 * CallTime + 9 /\ TimerLen \in Nat /\ TypesEnd \in Nat
      /\ TestsEnd = TypesEnd + 8 + 4 * TestLen /\ TestsEnd \in Nat /\ DataAt \in Nat
  BY Tests1 DEF TestLen, TestsEnd
<1>2. /\ TestBase(7) = TypesEnd + 8 /\ TestBase(8) = TypesEnd + 8 + TestLen
      /\ TestBase(9) = TypesEnd + 8 + 2 * TestLen /\ TestBase(10) = TypesEnd + 8 + 3 * TestLen
  BY Tests1
<1>3. \A x \in TestPins : x = 7 \/ x = 8 \/ x = 9 \/ x = 10 BY DEF TestPins
<1>4. 7 \in TestPins /\ 8 \in TestPins /\ 9 \in TestPins /\ 10 \in TestPins BY DEF TestPins
<1>5. \A x \in TestPins : /\ TestBase(x) \in Nat /\ TypesEnd + 8 <= TestBase(x)
                          /\ TestBase(x) + TestLen <= TestsEnd
  BY <1>1, <1>2, <1>3
<1>6. \A x, y \in TestPins : x < y => TestBase(x) + TestLen <= TestBase(y) BY <1>1, <1>2, <1>3
<1>7. \A p \in Int : TypesEnd + 8 < p /\ p <= TestsEnd =>
        \E x \in TestPins : TestBase(x) < p /\ p <= TestBase(x) + TestLen
  <2> SUFFICES ASSUME NEW p \in Int, TypesEnd + 8 < p, p <= TestsEnd
               PROVE  \E x \in TestPins : TestBase(x) < p /\ p <= TestBase(x) + TestLen
    OBVIOUS
  <2>1. \/ TestBase(7) < p /\ p <= TestBase(7) + TestLen
        \/ TestBase(8) < p /\ p <= TestBase(8) + TestLen
        \/ TestBase(9) < p /\ p <= TestBase(9) + TestLen
        \/ TestBase(10) < p /\ p <= TestBase(10) + TestLen
    BY <1>1, <1>2
  <2> QED BY <1>4, <2>1
<1>8. DataAt = TimerLen + CallTime + 4 /\ TypesEnd = DataAt + 4 * CallTime + 8
  BY DEF DataAt, TypesEnd
<1> QED BY <1>1, <1>5, <1>6, <1>7, <1>8

\* No more than one test runs at a time.
LEMMA OneTest ==
  ASSUME pc \in Int, NEW x \in TestPins, NEW y \in TestPins,
         1 <= TestPos(x), TestPos(x) <= TestLen, 1 <= TestPos(y), TestPos(y) <= TestLen
  PROVE  x = y
<1>1. x \in Int /\ y \in Int BY DEF TestPins
<1>2. ~(x < y) BY Bases DEF TestPos
<1>3. ~(y < x) BY Bases DEF TestPos
<1> QED BY <1>1, <1>2, <1>3

-----------------------------------------------------------------------------
(* The steps of the demo, by the place of the program.                     *)

Still == Port(GpioIdle) /\ pc' = pc /\ Triggered' = Triggered
InTimer0 == /\ handler = "TIMER0" /\ handler' = handler /\ Still /\ TimerNvic
InPin(x) == Handles(x) /\ HandlerRuns(x) /\ 1 <= hpc /\ hpc <= ClearAt(x) /\ hpc \in Int
InTimerExample == /\ handler = "none" /\ handler' = handler /\ pc <= TimerLen /\ pc' \in 1 .. TimerLen + 1
                  /\ Port(GpioIdle) /\ Triggered' = Triggered /\ TimerNvic
InTypes == /\ handler = "none" /\ handler' = handler /\ TimerLen < pc /\ pc <= TypesEnd /\ pc' = pc + 1
           /\ NvicRuns /\ Triggered' = Triggered /\ \E w : Port(w) /\ SetUpAt(pc, w)
InRequests == /\ handler = "none" /\ handler' = handler /\ TypesEnd < pc /\ pc <= TypesEnd + 8 /\ pc' = pc + 1
              /\ Port(GpioIdle) /\ Triggered' = Triggered /\ \E x \in TestPins : Prepared(x)
InTest(x) == /\ handler = "none" /\ Requested = {} /\ 1 <= TestPos(x) /\ TestPos(x) <= TestLen
             /\ TestRuns(x, TestPos(x))
Stays0 == Still /\ (Rests \/ (\E h : Enters(h)) \/ Leaves \/ InTimer0)
Steps0 == \/ Stays0 \/ (\E x \in TestPins : InPin(x)) \/ InTimerExample \/ InTypes \/ InRequests
          \/ \E x \in TestPins : InTest(x)
AfterTests == pc > TestsEnd /\ pc' \in Int /\ pc' > TestsEnd /\ \E w : Port(w) /\ w.op \in Always \cup {"none"}

LEMMA DemoSteps ==
  ASSUME ProgInv, image = "interrupt_demo", Enabling,
         Rests \/ (\E h : Enters(h)) \/ Leaves \/ Executes
  PROVE  /\ pc \in Int /\ pc >= 1
         /\ pc <= TestsEnd => Steps0
         /\ pc > TestsEnd => AfterTests
<1>1. pc \in Int /\ pc >= 1 BY DemoPlace
<1>2. TestsEnd \in Nat BY Tests1
<1>3. GpioIdle.op = "none" BY DEF GpioIdle
<1>4. CASE Rests \/ (\E h : Enters(h)) \/ Leaves
  <2>1. Still BY <1>4 DEF Rests, Enters, Leaves, Still
  <2>2. pc > TestsEnd => AfterTests BY <1>1, <1>3, <2>1 DEF Still, AfterTests
  <2> QED BY <1>1, <1>4, <2>1, <2>2 DEF Steps0, Stays0
<1>5. CASE Executes /\ pc > TestsEnd
  <2>1. Port(WriteOf(Current)) BY <1>5 DEF Executes
  <2>2. CASE InHandler BY <1>1, <1>2, <1>5, <2>1, <2>2, DemoAlways DEF AfterTests
  <2>3. CASE ~InHandler BY <1>1, <1>2, <1>5, <2>1, <2>3, MainAfter DEF AfterTests
  <2> QED BY <1>1, <1>2, <1>5, <2>2, <2>3
<1>6. CASE Executes /\ pc <= TestsEnd /\ InHandler
  <2>1. handler \in {"TIMER0"} \cup PortIrqs BY <1>6 DEF Enabling, InHandler
  <2>2. CASE handler = "TIMER0"
    <3>1. Current = Demo!Handlers["TIMER0"][hpc] /\ hpc \in 1 .. Len(Demo!Handlers["TIMER0"])
      BY <1>6, <2>2, DemoPlace
    <3>2. Current.op # "return" BY <1>6 DEF Executes
    <3>3. Demo!Handlers["TIMER0"] = Demo!TIMER0_Handler \o <<ReturnI>>
      BY DEF Demo!Handlers, Demo!Do, ReturnI
    <3>4. Current \in TimerActions \cup Jumps(Conditions)
      <4> DEFINE t == Demo!TIMER0_Handler
                 i == Current
                 r == ReturnI
      <4>1. Code(t, TimerActions, Conditions) BY TimerTextParts
      <4>2. r.op = "return" BY DEF ReturnI
      <4>3. i = (t \o <<r>>)[hpc] /\ hpc \in 1 .. Len(t \o <<r>>) /\ i.op # "return"
        BY <3>1, <3>2, <3>3
      <4> HIDE DEF t, i, r
      <4>4. t \in Seq(TimerActions \cup Jumps(Conditions)) /\ Len(t) \in Nat
        BY <4>1, LenProperties DEF Code
      <4> DEFINE S == TimerActions \cup Jumps(Conditions) \cup {r}
                 J == TimerActions \cup Jumps(Conditions)
      <4> HIDE DEF S
      <4>5. t \in Seq(S) /\ <<r>> \in Seq(S) /\ Len(<<r>>) = 1 /\ <<r>>[1] = r
        <5>1. J \subseteq S /\ r \in S BY DEF S
        <5> HIDE DEF J
        <5>2. t \in Seq(J) BY <4>4 DEF J
        <5>3. t \in Seq(S) BY <5>1, <5>2
        <5> QED BY <5>1, <5>3
      <4>6. /\ Len(t \o <<r>>) = Len(t) + 1
            /\ \A k \in 1 .. Len(t) + 1 : (t \o <<r>>)[k] = IF k <= Len(t) THEN t[k] ELSE <<r>>[k - Len(t)]
        BY <4>5, ConcatProperties
      <4>7. hpc <= Len(t) /\ hpc \in 1 .. Len(t)
        <5>1. hpc \in 1 .. Len(t) + 1 BY <4>3, <4>6
        <5>2. CASE hpc = Len(t) + 1 BY <5>2, <4>4, <4>2, <4>3, <4>5, <4>6, <5>1
        <5> QED BY <4>4, <5>1, <5>2
      <4>8. i = t[hpc] BY <4>3, <4>4, <4>6, <4>7
      <4> QED BY <4>4, <4>7, <4>8 DEF i
    <3>5. Port(GpioIdle) /\ Triggered' = Triggered /\ TimerNvic BY <1>6, <3>4, TimerInstruction
    <3>6. pc' = pc /\ handler' = handler BY <1>6, DemoAlways
    <3> QED BY <1>1, <1>2, <1>6, <2>2, <3>5, <3>6 DEF Steps0, Stays0, Still, InTimer0
  <2>3. CASE handler \in PortIrqs
    <3>1. PICK x \in TestPins : Handles(x) BY <2>3, PinNames DEF PortIrqs, Handles
    <3>2. InPin(x) BY <1>6, <3>1, HandlerPlace DEF InPin
    <3> QED BY <1>1, <1>2, <1>6, <3>2 DEF Steps0
  <2> QED BY <2>1, <2>2, <2>3
<1>7. CASE Executes /\ pc <= TestsEnd /\ ~InHandler
  <2>1. handler = "none" /\ Requested = {} BY <1>7 DEF InHandler, Executes
  <2>2. CASE pc <= TimerLen BY MainTimer, <2>2, <2>1, <1>1, <1>2, <1>7 DEF Steps0, InTimerExample
  <2>3. CASE TimerLen < pc /\ pc <= TypesEnd
    BY MainSetUp, <2>3, <2>1, <1>1, <1>2, <1>7 DEF Steps0, InTypes
  <2>4. CASE TypesEnd < pc /\ pc <= TypesEnd + 8
    BY MainPrepare, <2>4, <2>1, <1>1, <1>2, <1>7 DEF Steps0, InRequests
  <2>5. CASE TypesEnd + 8 < pc
    <3>1. PICK x \in TestPins : TestBase(x) < pc /\ pc <= TestBase(x) + TestLen
      BY <1>1, <1>7, <2>5, Bases
    <3>2. /\ TestPos(x) \in Int /\ pc = TestBase(x) + TestPos(x)
          /\ 1 <= TestPos(x) /\ TestPos(x) <= TestLen
      BY <1>1, <3>1, Bases DEF TestPos
    <3>3. TestRuns(x, TestPos(x)) BY <1>7, <3>2, MainTest
    <3> QED BY <1>1, <1>2, <1>7, <2>1, <3>2, <3>3 DEF Steps0, InTest
  <2> QED BY <1>1, <2>2, <2>3, <2>4, <2>5, Bases
<1> QED BY <1>1, <1>2, <1>4, <1>5, <1>6, <1>7

-----------------------------------------------------------------------------
(* The parts of the invariant, one at a time, over every step of the demo. *)

\* A step of the demo, at a place of its program.
DemoStep == /\ gpio \in Gpio /\ pc \in Int /\ pc >= 1
            /\ pc <= TestsEnd => Steps0
            /\ pc > TestsEnd => AfterTests

Quiets == {"none", "DATAOUT", "INTENSET", "INTENCLR", "INTCLEAR"}

LEMMA SettingsKept ==
  ASSUME gpio \in Gpio, pc \in Int, pc <= TestsEnd, Settings, NEW w, Port(w), w.op \in Quiets,
         pc' = pc \/ pc > TypesEnd \/ pc' \in 1 .. TimerLen + 1
  PROVE  Settings'
<1>1. /\ gpio'.reg_douten = gpio.reg_douten /\ gpio'.reg_inttype = gpio.reg_inttype
      /\ gpio'.reg_intpol = gpio.reg_intpol
  BY PortRegisters DEF SetOrClear, Quiets
<1>2. CASE pc' = pc BY <1>1, <1>2 DEF Settings
<1>3. CASE pc > TypesEnd BY Bases, <1>3, <1>1 DEF Settings
<1>4. CASE pc' \in 1 .. TimerLen + 1 BY Bases, <1>4, <1>1 DEF Settings
<1> QED BY <1>2, <1>3, <1>4

LEMMA SettingsMade ==
  ASSUME gpio \in Gpio, pc \in Int, Settings, TimerLen < pc, pc <= TypesEnd, pc' = pc + 1,
         NEW w, Port(w), SetUpAt(pc, w)
  PROVE  Settings'
<1> DEFINE type == gpio'.reg_inttype
           pol  == gpio'.reg_intpol
           out  == gpio'.reg_douten
           K1   == DataAt + CallTime + 2
           K2   == DataAt + 3 * CallTime + 5
           K3   == DataAt + 3 * CallTime + 6
           K4   == DataAt + 4 * CallTime + 7
<1>0. DataAt \in Nat /\ CallTime \in Nat /\ pc <= TestsEnd BY Bases
<1>1. /\ type = SetOrClear(gpio.reg_inttype, w, "INTTYPESET", "INTTYPECLR")
      /\ pol = SetOrClear(gpio.reg_intpol, w, "INTPOLSET", "INTPOLCLR")
      /\ out = SetOrClear(gpio.reg_douten, w, "OUTENABLESET", "OUTENABLECLR")
  BY PortRegisters
<1>2. \/ w.op \in {"none", "DATAOUT"}
      \/ w.op = "OUTENABLESET" /\ w.pins = 7 .. 10
      \/ w.op = "INTTYPECLR" /\ w.pins \in {{7}, {8}}
      \/ w.op = "INTTYPESET" /\ w.pins \in {{9}, {10}}
      \/ w.op = "INTPOLSET" /\ w.pins \in {{7}, {9}}
      \/ w.op = "INTPOLCLR" /\ w.pins \in {{8}, {10}}
  BY DEF SetUpAt, SetUpWrites, GpioIdle, GpioWrite
<1>3. /\ pc = DataAt - 1 => w = GpioWrite("OUTENABLESET", 7 .. 10)
      /\ pc = K1 => w = GpioWrite("INTPOLSET", {7})
      /\ pc = K2 => w = GpioWrite("INTTYPESET", {9})
      /\ pc = K3 => w = GpioWrite("INTPOLSET", {9})
      /\ pc = K4 => w = GpioWrite("INTTYPESET", {10})
  BY <1>0 DEF SetUpAt, SetUpWrites, SetUpPlaces
<1>4. /\ pc' >= DataAt => pc >= DataAt \/ pc = DataAt - 1
      /\ pc' > K1 => pc > K1 \/ pc = K1
      /\ pc' > K2 => pc > K2 \/ pc = K2
      /\ pc' > K3 => pc > K3 \/ pc = K3
      /\ pc' > K4 => pc > K4 \/ pc = K4
  BY <1>0
<1> HIDE DEF type, pol, out, K1, K2, K3, K4
<1>5. /\ gpio.reg_inttype \subseteq {9, 10} /\ gpio.reg_intpol \subseteq {7, 9}
      /\ pc >= DataAt => 7 .. 10 \subseteq gpio.reg_douten
      /\ pc > K1 => 7 \in gpio.reg_intpol
      /\ pc > K2 => 9 \in gpio.reg_inttype
      /\ pc > K3 => 9 \in gpio.reg_intpol
      /\ pc > K4 => 10 \in gpio.reg_inttype
  BY <1>0 DEF Settings, K1, K2, K3, K4
<1>6. /\ gpio.reg_inttype \subseteq type /\ type \subseteq {9, 10}
      /\ gpio.reg_intpol \subseteq pol /\ pol \subseteq {7, 9}
      /\ gpio.reg_douten \subseteq out
  BY <1>1, <1>2, <1>5 DEF SetOrClear
<1>7. /\ w = GpioWrite("OUTENABLESET", 7 .. 10) => 7 .. 10 \subseteq out
      /\ \A n : w = GpioWrite("INTPOLSET", {n}) => n \in pol
      /\ \A n : w = GpioWrite("INTTYPESET", {n}) => n \in type
  BY <1>1 DEF SetOrClear, GpioWrite
<1>8. /\ pc' >= DataAt => 7 .. 10 \subseteq out
      /\ pc' > K1 => 7 \in pol
      /\ pc' > K2 => 9 \in type
      /\ pc' > K3 => 9 \in pol
      /\ pc' > K4 => 10 \in type
  BY <1>3, <1>4, <1>5, <1>6, <1>7
<1> QED BY <1>6, <1>8 DEF Settings, type, pol, out, K1, K2, K3, K4

\* Where a step of a test leads.
LEMMA TestGoesOn ==
  ASSUME pc \in Int, NEW x \in TestPins, InTest(x)
  PROVE  /\ handler' = handler /\ NvicRuns /\ pc' \in Int /\ pc' > pc /\ pc' <= TestBase(x) + TestLen + 1
         /\ TestPos(x) < 2 * CallTime + 5 => pc' = pc + 1
         /\ \E w : /\ Port(w) /\ w.op \in Quiets \ {"INTCLEAR"}
                   /\ w.op = "INTENSET" => TestPos(x) = CallTime + 1 /\ w.pins = {x}
                   /\ w.op = "DATAOUT" => TestPos(x) = CallTime + 2 /\ w.pins = Out(x)
                   /\ w.op = "INTENCLR" => TestPos(x) = 2 * CallTime + 3 /\ w.pins = {x}
                   /\ TestPos(x) = CallTime + 1 => w.op = "INTENSET"
                   /\ TestPos(x) = CallTime + 2 => w.op = "DATAOUT"
                   /\ TestPos(x) = 2 * CallTime + 3 => w.op = "INTENCLR"
         /\ TestPos(x) = 2 * CallTime + 5 /\ Triggered = 1 => pc' = pc + 1
         /\ Triggered' = IF TestPos(x) = 2 * CallTime + 7 THEN 0 ELSE Triggered
<1> DEFINE j == TestPos(x)
           C == CallTime
<1>1. /\ handler = "none" /\ 1 <= j /\ j <= TestLen /\ TestRuns(x, j) BY DEF InTest
<1>2. j \in Int /\ pc = TestBase(x) + j /\ TestBase(x) \in Int /\ C \in Nat /\ TestLen = 2 * C + 9
  BY Bases DEF TestPos
<1>3. \A n, w, t : Runs(n, w, t) => /\ pc' = pc + n /\ handler' = handler /\ NvicRuns /\ Port(w) /\ Triggered' = t
  BY <1>1 DEF Runs, Jump, InHandler
<1>4. /\ GpioIdle.op = "none"
      /\ \A r, P : GpioWrite(r, P).op = r /\ GpioWrite(r, P).pins = P
      /\ {"none", "INTENSET", "DATAOUT", "INTENCLR"} \subseteq Quiets \ {"INTCLEAR"}
  BY DEF GpioIdle, GpioWrite, Quiets
<1> HIDE DEF j, C
<1>5. CASE j = C + 1 /\ Runs(1, GpioWrite("INTENSET", {x}), Triggered)
  BY <1>2, <1>3, <1>4, <1>5 DEF j, C
<1>6. CASE j = C + 2 /\ Runs(1, GpioWrite("DATAOUT", Out(x)), Triggered)
  BY <1>2, <1>3, <1>4, <1>6 DEF j, C
<1>7. CASE j = 2 * C + 3 /\ Runs(1, GpioWrite("INTENCLR", {x}), Triggered)
  BY <1>2, <1>3, <1>4, <1>7 DEF j, C
<1>8. CASE j = 2 * C + 5 /\ Runs(IF Triggered = 1 THEN 1 ELSE 4, GpioIdle, Triggered)
  <2>1. j # C + 1 /\ j # C + 2 /\ j # 2 * C + 3 /\ j # 2 * C + 7 BY <1>2, <1>8
  <2>2. PICK n \in {1, 4} : Runs(n, GpioIdle, Triggered) /\ (Triggered = 1 => n = 1) BY <1>8
  <2> QED BY <1>2, <1>3, <1>4, <1>8, <2>1, <2>2 DEF j, C
<1>9. CASE j = 2 * C + 7 /\ Runs(1, GpioIdle, 0) BY <1>2, <1>3, <1>4, <1>9 DEF j, C
<1>10. CASE j = 2 * C + 8 /\ Runs(2, GpioIdle, Triggered) BY <1>2, <1>3, <1>4, <1>10 DEF j, C
<1>11. CASE /\ j \notin {C + 1, C + 2, 2 * C + 3, 2 * C + 5, 2 * C + 7, 2 * C + 8}
            /\ Runs(1, GpioIdle, Triggered)
  BY <1>1, <1>2, <1>3, <1>4, <1>11 DEF j, C
<1> QED BY <1>1, <1>5, <1>6, <1>7, <1>8, <1>9, <1>10, <1>11 DEF TestRuns, j, C

\* What the handler of a pin does.
LEMMA HandlerGoesOn ==
  ASSUME NEW x \in TestPins, InPin(x)
  PROVE  /\ pc' = pc /\ handler' = handler /\ hpc' = hpc + 1 /\ NvicRuns
         /\ Triggered' = IF hpc = 1 THEN 1 ELSE Triggered
         /\ \E w : /\ Port(w) /\ w.op \in {"none", "DATAOUT", "INTCLEAR"}
                   /\ w.op = "DATAOUT" => IsLevel(x) /\ hpc = 2 /\ w.pins = Back(x)
                   /\ w.op = "INTCLEAR" => hpc = ClearAt(x) /\ w.pins = {x}
                   /\ IsLevel(x) /\ hpc = 2 => w.op = "DATAOUT"
                   /\ hpc = ClearAt(x) => w.op = "INTCLEAR"
<1>1. InHandler /\ HandlerRuns(x) /\ hpc \in Int /\ CallTime \in Nat
  BY PinNames, Bases DEF InPin, Handles, InHandler
<1>2. \A w, t : Runs(1, w, t) => /\ pc' = pc /\ handler' = handler /\ hpc' = hpc + 1
                                 /\ NvicRuns /\ Port(w) /\ Triggered' = t
  BY <1>1 DEF Runs, Jump
<1>3. /\ GpioIdle.op = "none"
      /\ \A r, P : GpioWrite(r, P).op = r /\ GpioWrite(r, P).pins = P
  BY DEF GpioIdle, GpioWrite
<1>4. (IsLevel(x) => ClearAt(x) = CallTime + 3) /\ (~IsLevel(x) => ClearAt(x) = CallTime + 2)
  BY DEF ClearAt
<1>5. CASE hpc = 1 /\ Runs(1, GpioIdle, 1) BY <1>4, <1>1, <1>2, <1>3, <1>5
<1>6. CASE IsLevel(x) /\ hpc = 2 /\ Runs(1, GpioWrite("DATAOUT", Back(x)), Triggered)
  BY <1>4, <1>1, <1>2, <1>3, <1>6
<1>7. CASE hpc = ClearAt(x) /\ Runs(1, GpioWrite("INTCLEAR", {x}), Triggered)
  BY <1>4, <1>1, <1>2, <1>3, <1>7
<1>8. CASE hpc \notin {1, ClearAt(x)} /\ ~(IsLevel(x) /\ hpc = 2) /\ Runs(1, GpioIdle, Triggered)
  BY <1>2, <1>3, <1>8
<1> QED BY <1>1, <1>5, <1>6, <1>7, <1>8 DEF HandlerRuns

LEMMA SettingsStep == ASSUME DemoStep, Settings PROVE Settings'
<1>1. gpio \in Gpio /\ pc \in Int /\ TestsEnd \in Nat /\ TypesEnd \in Nat BY Bases DEF DemoStep
<1>2. CASE pc > TestsEnd BY <1>1, <1>2 DEF DemoStep, AfterTests, Settings
<1>3. CASE pc <= TestsEnd
  <2>1. Steps0 BY <1>3 DEF DemoStep
  <2>2. GpioIdle.op \in Quiets BY DEF GpioIdle, Quiets
  <2>3. CASE Stays0 BY <1>1, <1>3, <2>2, <2>3, SettingsKept DEF Stays0, Still
  <2>4. CASE InTimerExample BY <1>1, <1>3, <2>2, <2>4, SettingsKept DEF InTimerExample
  <2>5. CASE InTypes BY <1>1, <2>5, SettingsMade DEF InTypes
  <2>6. CASE InRequests BY <1>1, <1>3, <2>2, <2>6, SettingsKept DEF InRequests
  <2>7. ASSUME NEW x \in TestPins, InPin(x) PROVE Settings'
    <3>1. pc' = pc /\ \E w : Port(w) /\ w.op \in {"none", "DATAOUT", "INTCLEAR"}
      BY <2>7, HandlerGoesOn
    <3>2. PICK w : Port(w) /\ w.op \in Quiets BY <3>1 DEF Quiets
    <3> QED BY <1>1, <1>3, <3>1, <3>2, SettingsKept
  <2>8. ASSUME NEW x \in TestPins, InTest(x) PROVE Settings'
    <3>1. PICK w : Port(w) /\ w.op \in Quiets BY <1>1, <2>8, TestGoesOn
    <3>2. pc > TypesEnd BY <1>1, <2>8, Bases DEF InTest, TestPos
    <3> QED BY <1>1, <1>3, <3>1, <3>2, SettingsKept
  <2> QED BY <2>1, <2>3, <2>4, <2>5, <2>6, <2>7, <2>8 DEF Steps0
<1> QED BY <1>1, <1>2, <1>3

LEMMA EnablingKept ==
  ASSUME pc \in Int, pc <= TestsEnd, Enabling, NEW e, NEW l, NEW en, Nvic(e, l, en),
         en \subseteq nvic.enabled \cup {"TIMER0"}, nvic.enabled \subseteq en \cup {"TIMER0"},
         handler' \in {handler, "none"} \cup nvic.enabled,
         pc' = pc \/ pc > TypesEnd + 8 \/ pc' \in 1 .. TypesEnd + 1
  PROVE  Enabling'
<1>1. nvic'.enabled = en BY DEF Nvic
<1>2. /\ nvic.enabled \subseteq {"TIMER0"} \cup PortIrqs
      /\ handler \in {"none", "TIMER0"} \cup PortIrqs
      /\ \A x \in TestPins : pc > TypesEnd + x - 2 => Demo!PORT0(x) \in nvic.enabled
  BY DEF Enabling
<1>3. en \subseteq {"TIMER0"} \cup PortIrqs /\ handler' \in {"none", "TIMER0"} \cup PortIrqs BY <1>2
<1>4. ASSUME NEW x \in TestPins, pc' > TypesEnd + x - 2 PROVE Demo!PORT0(x) \in en
  <2>1. TypesEnd \in Nat /\ x \in Int /\ 7 <= x /\ x <= 10 BY Bases DEF TestPins
  <2>2. pc > TypesEnd + x - 2 BY <1>4, <2>1
  <2>3. Demo!PORT0(x) # "TIMER0" BY PinNames
  <2> QED BY <1>2, <2>2, <2>3
<1> QED BY <1>1, <1>3, <1>4 DEF Enabling

LEMMA EnablingStep == ASSUME DemoStep, Enabling PROVE Enabling'
<1>1. pc \in Int /\ TestsEnd \in Nat /\ TypesEnd \in Nat BY Bases DEF DemoStep
<1>2. CASE pc > TestsEnd BY <1>1, <1>2 DEF DemoStep, AfterTests, Enabling
<1>3. CASE pc <= TestsEnd
  <2>1. Steps0 BY <1>3 DEF DemoStep
  <2>2. ASSUME NEW e, NEW l, Nvic(e, l, nvic.enabled), handler' \in {handler, "none"} \cup nvic.enabled,
               pc' = pc \/ pc > TypesEnd + 8 \/ pc' \in 1 .. TypesEnd + 1
        PROVE  Enabling'
    BY <1>1, <1>3, <2>2, EnablingKept
  <2>3. ASSUME TimerNvic, handler' = handler, pc' = pc \/ pc' \in 1 .. TypesEnd + 1 PROVE Enabling'
    <3>1. PICK e, l, en : /\ Nvic(e, l, en) /\ en \subseteq nvic.enabled \cup {"TIMER0"}
                          /\ nvic.enabled \subseteq en \cup {"TIMER0"}
      BY <2>3 DEF TimerNvic
    <3> QED BY <1>1, <1>3, <2>3, <3>1, EnablingKept
  <2>4. CASE Stays0
    <3>1. pc' = pc BY <2>4 DEF Stays0, Still
    <3>2. CASE Rests BY <2>2, <3>1, <3>2 DEF Rests, NvicRuns
    <3>3. ASSUME NEW h, Enters(h) PROVE Enabling' BY <2>2, <3>1, <3>3 DEF Enters, Requested
    <3>4. CASE Leaves BY <2>2, <3>1, <3>4 DEF Leaves
    <3>5. CASE InTimer0 BY <2>3, <3>1, <3>5 DEF InTimer0
    <3> QED BY <2>4, <3>2, <3>3, <3>4, <3>5 DEF Stays0
  <2>5. CASE InTimerExample BY Bases, <2>3, <2>5 DEF InTimerExample
  <2>6. CASE InTypes BY Bases, <1>1, <2>2, <2>6 DEF InTypes, NvicRuns
  <2>7. CASE InRequests
    <3>1. PICK y \in TestPins : Prepared(y) BY <2>7 DEF InRequests
    <3>2. pc' = pc + 1 /\ handler' = handler /\ y \in Int /\ 7 <= y /\ y <= 10
      BY <2>7 DEF InRequests, TestPins
    <3>3. CASE pc = TypesEnd + y - 6 /\ Nvic({Demo!PORT0(y)}, {Demo!PORT0(y)}, nvic.enabled)
      <4>1. nvic'.enabled = nvic.enabled BY <3>3 DEF Nvic
      <4>2. \A x \in TestPins : ~(pc' > TypesEnd + x - 2) BY <1>1, <3>2, <3>3 DEF TestPins
      <4> QED BY <1>3, <3>2, <4>1, <4>2 DEF Enabling
    <3>4. CASE pc = TypesEnd + y - 2 /\ Nvic({}, {}, nvic.enabled \cup {Demo!PORT0(y)})
      <4>1. nvic'.enabled = nvic.enabled \cup {Demo!PORT0(y)} BY <3>4 DEF Nvic
      <4>2. \A x \in TestPins : pc' > TypesEnd + x - 2 => x = y \/ pc > TypesEnd + x - 2
        BY <1>1, <3>2, <3>4 DEF TestPins
      <4>3. Demo!PORT0(y) \in PortIrqs BY PinNames DEF PortIrqs
      <4> QED BY <1>3, <3>2, <4>1, <4>2, <4>3 DEF Enabling
    <3> QED BY <3>1, <3>3, <3>4 DEF Prepared
  <2>8. ASSUME NEW x \in TestPins, InPin(x) PROVE Enabling'
    BY <2>2, <2>8, HandlerGoesOn DEF NvicRuns
  <2>9. ASSUME NEW x \in TestPins, InTest(x) PROVE Enabling'
    BY Bases, <1>1, <2>2, <2>9, TestGoesOn DEF NvicRuns, InTest, TestPos
  <2> QED BY <2>1, <2>4, <2>5, <2>6, <2>7, <2>8, <2>9 DEF Steps0
<1> QED BY <1>1, <1>2, <1>3

\* Where a pin's test is after a step outside of it.
LEMMA OtherTests ==
  ASSUME pc \in Int, NEW y \in TestPins, InTest(y), NEW x \in TestPins, x # y
  PROVE  \/ TestPos(x) <= 0 /\ TestPos(x)' <= 1
         \/ TestPos(x) > TestLen /\ TestPos(x)' > TestLen
<1>1. x \in Int /\ y \in Int BY DEF TestPins
<1>2. /\ pc' \in Int /\ pc' > pc /\ pc' <= TestBase(y) + TestLen + 1
      /\ TestBase(y) < pc /\ pc <= TestBase(y) + TestLen
  BY TestGoesOn, Bases DEF InTest, TestPos
<1>3. TestBase(x) \in Int /\ TestBase(y) \in Int /\ TestLen \in Int BY Bases
<1>4. CASE y < x BY Bases, <1>4, <1>2, <1>3 DEF TestPos
<1>5. CASE x < y BY Bases, <1>5, <1>2, <1>3 DEF TestPos
<1> QED BY <1>1, <1>4, <1>5

\* Outside of the tests.
LEMMA NoTest ==
  ASSUME NEW p \in Int, NEW x \in TestPins
  PROVE  /\ p <= TypesEnd + 9 => p - TestBase(x) <= 1
         /\ p > TestsEnd => p - TestBase(x) > TestLen
BY Bases

LEMMA StatusesKept ==
  ASSUME gpio \in Gpio, Statuses, NEW w, Port(w), w.op \notin {"INTENSET", "INTENCLR"},
         \A x \in TestPins : Unmasked(x)' <=> Unmasked(x)
  PROVE  Statuses'
<1>1. gpio'.reg_inten = gpio.reg_inten /\ gpio'.reg_intstat \subseteq gpio.reg_intstat \cup gpio.reg_inten
  BY PortRegisters DEF SetOrClear
<1> QED BY <1>1 DEF Statuses

LEMMA StatusesStep == ASSUME DemoStep, Statuses PROVE Statuses'
<1>1. gpio \in Gpio /\ pc \in Int /\ TestsEnd \in Nat /\ TypesEnd \in Nat /\ TestLen = 2 * CallTime + 9
      /\ CallTime \in Nat /\ TypesEnd + 8 < TestsEnd
  BY Bases DEF DemoStep
<1>2. \A x \in TestPins : TestBase(x) \in Int BY Bases
<1>3. ASSUME pc' \in Int, pc <= TypesEnd + 8, pc' <= TypesEnd + 9, NEW x \in TestPins
      PROVE  Unmasked(x)' <=> Unmasked(x)
  BY NoTest, <1>1, <1>2, <1>3 DEF Unmasked, TestPos
<1>4. ASSUME pc' = pc, NEW x \in TestPins PROVE Unmasked(x)' <=> Unmasked(x)
  BY <1>4 DEF Unmasked, TestPos
<1>5. GpioIdle.op = "none" BY DEF GpioIdle
<1>6. CASE pc > TestsEnd
  <2>1. PICK w : Port(w) /\ w.op \in Always \cup {"none"} BY <1>6 DEF DemoStep, AfterTests
  <2>2. w.op \notin {"INTENSET", "INTENCLR"} BY <2>1 DEF Always
  <2>3. ASSUME NEW x \in TestPins PROVE Unmasked(x)' <=> Unmasked(x)
    <3>1. pc' \in Int /\ pc' > TestsEnd BY <1>6 DEF DemoStep, AfterTests
    <3>2. pc - TestBase(x) > TestLen /\ pc' - TestBase(x) > TestLen BY <1>1, <1>6, <3>1, NoTest
    <3> QED BY <1>1, <1>2, <3>1, <3>2 DEF Unmasked, TestPos
  <2> QED BY <1>1, <2>1, <2>2, <2>3, StatusesKept
<1>7. CASE pc <= TestsEnd
  <2>1. Steps0 BY <1>7 DEF DemoStep
  <2>2. CASE Stays0 BY <1>1, <1>4, <1>5, <2>2, StatusesKept DEF Stays0, Still
  <2>3. CASE InTimerExample BY Bases, <1>1, <1>3, <1>5, <2>3, StatusesKept DEF InTimerExample
  <2>4. CASE InTypes
    <3>1. pc' \in Int /\ pc <= TypesEnd + 8 /\ pc' <= TypesEnd + 9 BY <1>1, <2>4 DEF InTypes
    <3>2. PICK w : Port(w) /\ SetUpAt(pc, w) BY <2>4 DEF InTypes
    <3>3. w.op \notin {"INTENSET", "INTENCLR"} BY <3>2 DEF SetUpAt, SetUpWrites, GpioIdle, GpioWrite
    <3> QED BY <1>1, <1>3, <3>1, <3>2, <3>3, StatusesKept
  <2>5. CASE InRequests BY <1>1, <1>3, <1>5, <2>5, StatusesKept DEF InRequests
  <2>6. ASSUME NEW x \in TestPins, InPin(x) PROVE Statuses'
    <3>1. pc' = pc /\ \E w : Port(w) /\ w.op \in {"none", "DATAOUT", "INTCLEAR"}
      BY <2>6, HandlerGoesOn
    <3>2. PICK w : Port(w) /\ w.op \notin {"INTENSET", "INTENCLR"} BY <3>1
    <3> QED BY <1>1, <1>4, <3>1, <3>2, StatusesKept
  <2>7. ASSUME NEW y \in TestPins, InTest(y) PROVE Statuses'
    <3>1. PICK w : /\ Port(w)
                   /\ w.op = "INTENSET" => TestPos(y) = CallTime + 1 /\ w.pins = {y}
                   /\ w.op = "INTENCLR" => TestPos(y) = 2 * CallTime + 3 /\ w.pins = {y}
                   /\ TestPos(y) = CallTime + 1 => w.op = "INTENSET"
                   /\ TestPos(y) = 2 * CallTime + 3 => w.op = "INTENCLR"
      BY <1>1, <2>7, TestGoesOn
    <3>2. /\ gpio'.reg_inten = SetOrClear(gpio.reg_inten, w, "INTENSET", "INTENCLR")
          /\ gpio'.reg_intstat \subseteq gpio.reg_intstat \cup gpio.reg_inten
      BY <1>1, <3>1, PortRegisters
    <3>3. ASSUME NEW x \in TestPins, x # y PROVE (Unmasked(x)' <=> Unmasked(x)) /\ ~Unmasked(x)
      <4>1. \/ TestPos(x) <= 0 /\ TestPos(x)' <= 1
            \/ TestPos(x) > TestLen /\ TestPos(x)' > TestLen
        BY <1>1, <2>7, <3>3, OtherTests
      <4>2. pc' \in Int BY <1>1, <2>7, TestGoesOn
      <4> QED BY <1>1, <1>2, <4>1, <4>2 DEF Unmasked, TestPos
    <3>4. /\ TestPos(y) \in Int /\ TestPos(y)' \in Int /\ TestPos(y)' > TestPos(y)
          /\ TestPos(y) < 2 * CallTime + 5 => TestPos(y)' = TestPos(y) + 1
      BY <1>1, <1>2, <2>7, TestGoesOn DEF TestPos
    <3>5. CASE TestPos(y) = CallTime + 1
      <4>1. gpio'.reg_inten = gpio.reg_inten \cup {y} BY <3>1, <3>2, <3>5 DEF SetOrClear
      <4>2. Unmasked(y)' BY <3>5, <3>4, <1>1 DEF Unmasked
      <4> QED BY <3>2, <3>3, <4>1, <4>2 DEF Statuses
    <3>6. CASE TestPos(y) = 2 * CallTime + 3
      <4>1. gpio'.reg_inten = gpio.reg_inten \ {y} BY <3>6, <3>1, <3>2 DEF SetOrClear
      <4>2. ~Unmasked(y)' BY <3>6, <3>4, <1>1 DEF Unmasked
      <4> QED BY <3>2, <3>3, <4>1, <4>2 DEF Statuses
    <3>7. CASE TestPos(y) # CallTime + 1 /\ TestPos(y) # 2 * CallTime + 3
      <4>1. w.op \notin {"INTENSET", "INTENCLR"} BY <3>1, <3>7
      <4>2. Unmasked(y)' <=> Unmasked(y) BY <1>1, <3>4, <3>7 DEF Unmasked
      <4> QED BY <1>1, <3>1, <3>3, <4>1, <4>2, StatusesKept
    <3> QED BY <3>5, <3>6, <3>7
  <2> QED BY <2>1, <2>2, <2>3, <2>4, <2>5, <2>6, <2>7 DEF Steps0
<1> QED BY <1>1, <1>6, <1>7

LEMMA FlagStep ==
  ASSUME DemoStep, Flag, \A x \in TestPins : Calm(x) \/ Window(x)
  PROVE  Flag'
<1>1. pc \in Int /\ TestsEnd \in Nat /\ TypesEnd \in Nat /\ TestLen = 2 * CallTime + 9
      /\ CallTime \in Nat /\ TypesEnd + 8 < TestsEnd
  BY Bases DEF DemoStep
<1>2. \A x \in TestPins : TestBase(x) \in Int BY Bases
<1>3. CASE pc > TestsEnd BY <1>1, <1>3 DEF DemoStep, AfterTests, Flag
<1>4. CASE pc <= TestsEnd
  <2>1. Steps0 BY <1>4 DEF DemoStep
  <2>2. /\ Triggered \in {0, 1}
        /\ Triggered = 1 => \E x \in TestPins : CallTime + 3 <= TestPos(x) /\ TestPos(x) <= 2 * CallTime + 7
    BY <1>4 DEF Flag
  <2>3. CASE Stays0 BY <2>2, <2>3 DEF Stays0, Still, Flag, TestPos
  <2>4. CASE pc <= TypesEnd + 8 /\ Triggered' = Triggered
    <3>1. \A x \in TestPins : TestPos(x) <= 1 BY <1>1, <2>4, NoTest DEF TestPos
    <3>2. \A x \in TestPins : TestPos(x) \in Int BY <1>1, <1>2 DEF TestPos
    <3>3. Triggered = 0 BY <1>1, <2>2, <3>1, <3>2
    <3> QED BY <2>4, <3>3 DEF Flag
  <2>5. CASE InTimerExample \/ InTypes \/ InRequests
    BY Bases, <2>5, <1>1, <2>4 DEF InTimerExample, InTypes, InRequests
  <2>6. ASSUME NEW x \in TestPins, InPin(x) PROVE Flag'
    <3>1. pc' = pc /\ Triggered' = IF hpc = 1 THEN 1 ELSE Triggered BY <2>6, HandlerGoesOn
    <3>2. Window(x) BY <2>6 DEF InPin, Calm
    <3>3. CallTime + 3 <= TestPos(x)' /\ TestPos(x)' <= 2 * CallTime + 7
      BY <1>1, <1>2, <3>1, <3>2 DEF Window, TestPos
    <3> QED BY <2>2, <3>1, <3>3 DEF Flag
  <2>7. ASSUME NEW y \in TestPins, InTest(y) PROVE Flag'
    <3>1. Triggered' = IF TestPos(y) = 2 * CallTime + 7 THEN 0 ELSE Triggered
      BY <1>1, <2>7, TestGoesOn
    <3>2. CASE Triggered = 0 \/ TestPos(y) = 2 * CallTime + 7 BY <3>1, <3>2 DEF Flag
    <3>3. CASE Triggered = 1 /\ TestPos(y) # 2 * CallTime + 7
      <4>1. PICK x \in TestPins : CallTime + 3 <= TestPos(x) /\ TestPos(x) <= 2 * CallTime + 7
        BY <2>2, <3>3
      <4>2. TestPos(x) \in Int /\ TestPos(y) \in Int /\ 1 <= TestPos(y) /\ TestPos(y) <= TestLen
        BY <1>1, <1>2, <2>7 DEF InTest, TestPos
      <4>3. x = y BY <1>1, <4>1, <4>2, OneTest
      <4>4. TestPos(y) < 2 * CallTime + 5 \/ TestPos(y) = 2 * CallTime + 5 => pc' = pc + 1
        BY <1>1, <2>7, <3>3, <4>2, TestGoesOn
      <4>5. CASE TestPos(y) = 2 * CallTime + 6
        <5>1. TestRuns(y, TestPos(y)) BY <2>7 DEF InTest
        <5>2. Runs(1, GpioIdle, Triggered) BY <1>1, <4>5, <5>1 DEF TestRuns
        <5>3. pc' = pc + 1 BY <2>7, <5>2 DEF Runs, Jump, InHandler, InTest
        <5>4. CallTime + 3 <= TestPos(y)' /\ TestPos(y)' <= 2 * CallTime + 7
          BY <1>1, <1>2, <4>2, <4>5, <5>3 DEF TestPos
        <5> QED BY <3>1, <3>3, <5>4 DEF Flag
      <4>6. CASE TestPos(y) < 2 * CallTime + 5 \/ TestPos(y) = 2 * CallTime + 5
        <5>1. pc' = pc + 1 BY <4>4, <4>6
        <5>2. CallTime + 3 <= TestPos(y)' /\ TestPos(y)' <= 2 * CallTime + 7
          BY <1>1, <1>2, <4>1, <4>2, <4>3, <4>6, <5>1 DEF TestPos
        <5> QED BY <3>1, <3>3, <5>2 DEF Flag
      <4> QED BY <1>1, <3>3, <4>1, <4>2, <4>3, <4>5, <4>6
    <3> QED BY <2>2, <3>2, <3>3
  <2> QED BY <2>1, <2>3, <2>5, <2>6, <2>7 DEF Steps0
<1> QED BY <1>1, <1>3, <1>4

\* What every kind of step does to the port, the requests and the processor.
Turns == \E w, e, l, en : /\ Port(w) /\ Nvic(e, l, en)
                          /\ handler' \in {handler, "none"} \cup nvic.pending

LEMMA KindTurns ==
  ASSUME Rests \/ (\E h : Enters(h)) \/ Leaves \/ Executes PROVE Turns
<1>1. CASE Rests BY <1>1 DEF Rests, NvicRuns, Turns
<1>2. ASSUME NEW h, Enters(h) PROVE Turns BY <1>2 DEF Enters, Requested, Turns
<1>3. CASE Leaves BY <1>3 DEF Leaves, Turns
<1>4. CASE Executes
  <2>1. handler' = handler /\ Port(WriteOf(Current)) /\ NvicOf(Current) BY <1>4 DEF Executes, Jump
  <2> DEFINE i == Current
  <2> HIDE DEF i
  <2>2. NvicOf(i) => \E e, l, en : Nvic(e, l, en) BY DEF NvicOf, NvicRuns
  <2> QED BY <2>1, <2>2 DEF Turns, i
<1> QED BY <1>1, <1>2, <1>3, <1>4

\* A pin whose interrupt is not triggered stays calm.
LEMMA CalmKept ==
  ASSUME gpio \in Gpio, Statuses, Turns, NEW x \in TestPins, Calm(x),
         x \notin gpio.reg_inten \/ (Typed(x) /\ ~Triggers(x))
  PROVE  Calm(x)'
<1>1. PICK w, e, l, en : /\ Port(w) /\ Nvic(e, l, en)
                         /\ handler' \in {handler, "none"} \cup nvic.pending
  BY DEF Turns
<1>2. ~Up(x)' BY <1>1, PinEdge DEF Calm
<1>3. gpio.reg_intstat \subseteq TestPins /\ gpio'.reg_intstat \subseteq TestPins
  BY <1>1, PortRegisters DEF Statuses
<1>4. ~Pends(x)' BY <1>1, <1>2, <1>3, PinRequest DEF Calm
<1>5. ~Handles(x)'
  <2>1. Demo!PORT0(x) # "none" BY PinNames
  <2>2. handler # Demo!PORT0(x) /\ Demo!PORT0(x) \notin nvic.pending BY DEF Calm, Handles, Pends
  <2> QED BY <1>1, <2>1, <2>2 DEF Handles
<1> QED BY <1>2, <1>4, <1>5 DEF Calm

\* The pins are set up once the tests start.
LEMMA TypedOK ==
  ASSUME Settings, pc \in Int, TypesEnd < pc, pc <= TestsEnd, NEW x \in TestPins
  PROVE  Typed(x) /\ TestPins \subseteq gpio.reg_douten /\ gpio.reg_inttype # {}
<1>1. pc >= DataAt /\ pc > DataAt + CallTime + 2 /\ pc > DataAt + 3 * CallTime + 5
      /\ pc > DataAt + 3 * CallTime + 6 /\ pc > DataAt + 4 * CallTime + 7
  BY Bases
<1>2. /\ gpio.reg_inttype \subseteq {9, 10} /\ gpio.reg_intpol \subseteq {7, 9}
      /\ 7 .. 10 \subseteq gpio.reg_douten /\ 7 \in gpio.reg_intpol /\ 9 \in gpio.reg_inttype
      /\ 9 \in gpio.reg_intpol /\ 10 \in gpio.reg_inttype
  BY <1>1 DEF Settings
<1>3. x = 7 \/ x = 8 \/ x = 9 \/ x = 10 BY DEF TestPins
<1> QED BY <1>2, <1>3 DEF Typed, IsLevel, IsHigh, TestPins

\* How the place of a test moves.
LEMMA PosStep ==
  ASSUME DemoStep, \A y \in TestPins : Calm(y) \/ Window(y), NEW x \in TestPins
  PROVE  /\ pc' \in Int /\ TestPos(x) \in Int /\ TestPos(x)' \in Int
         /\ TestPos(x)' <= CallTime + 2 => TestPos(x) <= CallTime + 2
         /\ TestPos(x) <= 0 => TestPos(x)' <= 1
         /\ TestPos(x) > TestLen => TestPos(x)' > TestLen
         /\ 1 <= TestPos(x) /\ TestPos(x) <= TestLen /\ ~InTest(x) => TestPos(x)' = TestPos(x)
         /\ InTest(x) => TestPos(x)' > TestPos(x)
         /\ InTest(x) /\ TestPos(x) < 2 * CallTime + 5 => TestPos(x)' = TestPos(x) + 1
<1>1. pc \in Int /\ TestsEnd \in Nat /\ TypesEnd \in Nat /\ TestLen = 2 * CallTime + 9
      /\ CallTime \in Nat /\ TypesEnd + 8 < TestsEnd /\ TestBase(x) \in Int
  BY Bases DEF DemoStep
<1>2. TestPos(x) \in Int /\ pc = TestBase(x) + TestPos(x) BY <1>1 DEF TestPos
<1> DEFINE OK == /\ pc' \in Int /\ TestPos(x) \in Int /\ TestPos(x)' \in Int
                 /\ TestPos(x)' <= CallTime + 2 => TestPos(x) <= CallTime + 2
                 /\ TestPos(x) <= 0 => TestPos(x)' <= 1
                 /\ TestPos(x) > TestLen => TestPos(x)' > TestLen
                 /\ 1 <= TestPos(x) /\ TestPos(x) <= TestLen /\ ~InTest(x) => TestPos(x)' = TestPos(x)
                 /\ InTest(x) => TestPos(x)' > TestPos(x)
                 /\ InTest(x) /\ TestPos(x) < 2 * CallTime + 5 => TestPos(x)' = TestPos(x) + 1
<1> SUFFICES OK
  OBVIOUS
<1>3. ASSUME pc' = pc, ~InTest(x) PROVE OK BY <1>1, <1>2, <1>3 DEF TestPos
<1>4. ASSUME InTest(x) PROVE OK
  <2>1. /\ pc' \in Int /\ pc' > pc /\ (TestPos(x) < 2 * CallTime + 5 => pc' = pc + 1)
        /\ 1 <= TestPos(x) /\ TestPos(x) <= TestLen
    BY <1>1, <1>4, TestGoesOn DEF InTest
  <2>2. TestPos(x)' = pc' - TestBase(x) BY DEF TestPos
  <2> QED BY <1>1, <1>2, <1>4, <2>1, <2>2
<1>5. ASSUME pc' \in Int, pc <= TypesEnd + 8, pc' <= TypesEnd + 9 PROVE OK
  <2>1. TestPos(x) <= 0 /\ TestPos(x)' <= 1 /\ TestPos(x)' \in Int
    <3>1. pc' - TestBase(x) <= 1 BY <1>1, <1>5, NoTest
    <3>2. TypesEnd + 8 <= TestBase(x) BY Bases
    <3> QED BY <1>1, <1>5, <3>1, <3>2 DEF TestPos
  <2>2. ~InTest(x) BY <1>1, <1>2, <2>1 DEF InTest
  <2> QED BY <1>1, <1>2, <1>5, <2>1, <2>2
<1> HIDE DEF OK
<1>6. CASE pc > TestsEnd
  <2>1. pc' \in Int /\ pc' > TestsEnd BY <1>6 DEF DemoStep, AfterTests
  <2>2. TestPos(x) > TestLen /\ TestPos(x)' > TestLen /\ TestPos(x)' \in Int
    BY NoTest, <1>6, <1>1, <2>1 DEF TestPos
  <2>3. ~InTest(x) BY <1>1, <1>2, <2>2 DEF InTest
  <2> QED BY <1>1, <1>2, <2>1, <2>2, <2>3 DEF OK
<1>7. CASE pc <= TestsEnd /\ InTest(x) BY <1>4, <1>7
<1>8. CASE pc <= TestsEnd /\ ~InTest(x)
  <2>1. Steps0 BY <1>8 DEF DemoStep
  <2>2. CASE Stays0 BY <1>3, <1>8, <2>2 DEF Stays0, Still
  <2>3. CASE InTimerExample \/ InTypes \/ InRequests
    BY Bases, <2>3, <1>1, <1>5 DEF InTimerExample, InTypes, InRequests
  <2>4. ASSUME NEW y \in TestPins, InPin(y) PROVE OK BY <1>3, <1>8, <2>4, HandlerGoesOn
  <2>5. ASSUME NEW y \in TestPins, InTest(y) PROVE OK
    <3>1. \/ TestPos(x) <= 0 /\ TestPos(x)' <= 1
          \/ TestPos(x) > TestLen /\ TestPos(x)' > TestLen
      BY <1>8, <1>1, <2>5, OtherTests
    <3>2. pc' \in Int /\ TestPos(x)' \in Int BY <1>1, <2>5, TestGoesOn DEF TestPos
    <3> QED BY <1>1, <1>2, <1>8, <3>1, <3>2 DEF OK
  <2> QED BY <2>1, <2>2, <2>3, <2>4, <2>5 DEF Steps0
<1> QED BY <1>1, <1>6, <1>7, <1>8

\* A pin is calm, or in the window of its test.
LEMMA CalmStep ==
  ASSUME DemoStep, Turns, Settings, Enabling, Statuses,
         \A y \in TestPins : Calm(y) \/ Window(y),
         NEW x \in TestPins, PinOK(x)
  PROVE  Calm(x)' \/ Window(x)'
<1>1. /\ gpio \in Gpio /\ pc \in Int /\ TestLen = 2 * CallTime + 9 /\ CallTime \in Nat
      /\ TestBase(x) \in Nat /\ TypesEnd + 8 <= TestBase(x) /\ TestBase(x) + TestLen <= TestsEnd
      /\ TypesEnd \in Nat /\ TestsEnd \in Nat /\ DataAt \in Nat /\ DataAt + 2 < TypesEnd
  BY Bases DEF DemoStep
<1>2. TestPos(x) \in Int /\ TestPos(x)' \in Int /\ pc = TestBase(x) + TestPos(x)
  BY <1>1, PosStep DEF TestPos
<1>3. CASE Calm(x) /\ ~Unmasked(x) BY <1>1, <1>3, CalmKept DEF Statuses
<1>4. CASE Calm(x) /\ TestPos(x) = CallTime + 2
  <2>1. pc > DataAt + 2 /\ TypesEnd < pc /\ pc <= TestsEnd BY <1>1, <1>2, <1>4
  <2>2. ~Sync2(x) BY <1>1, <1>4, <2>1 DEF PinOK, Before
  <2>3. Typed(x) /\ ~Triggers(x) BY <1>1, <2>1, <2>2, TypedOK DEF Triggers
  <2> QED BY <1>1, <1>4, <2>3, CalmKept
<1>5. CASE CallTime + 3 <= TestPos(x) /\ TestPos(x) <= 2 * CallTime + 3
  <2>1. TestPos(x)' = TestPos(x) \/ TestPos(x)' = TestPos(x) + 1 BY <1>5, <1>2, <1>1, PosStep
  <2>2. CallTime + 3 <= TestPos(x)' /\ TestPos(x)' <= 2 * CallTime + 4 BY <1>1, <1>2, <1>5, <2>1
  <2> QED BY <2>2 DEF Window
<1>6. CASE TestPos(x) = 2 * CallTime + 4
  <2>0. 1 <= TestPos(x) /\ TestPos(x) <= TestLen BY <1>1, <1>6
  <2>1. CASE ~InTest(x)
    <3>1. TestPos(x)' = TestPos(x) BY <2>0, <2>1, PosStep
    <3>2. CallTime + 3 <= TestPos(x)' /\ TestPos(x)' <= 2 * CallTime + 4 BY <1>1, <1>6, <3>1
    <3> QED BY <3>2 DEF Window
  <2>2. CASE InTest(x)
    <3>1. handler = "none" /\ Requested = {} BY <2>2 DEF InTest
    <3>2. Demo!PORT0(x) \in nvic.enabled
      <4>1. x \in Int /\ x <= 10 BY DEF TestPins
      <4>2. pc > TypesEnd + x - 2 /\ pc <= TestsEnd BY <1>1, <1>2, <1>6, <4>1
      <4> QED BY <4>2 DEF Enabling
    <3>3. ~Pends(x) BY <3>1, <3>2 DEF Requested, Pends
    <3>4. ~Handles(x) BY <3>1, PinNames DEF Handles
    <3>5. Window(x) BY <1>1, <1>6 DEF Window
    <3>6. ~Up(x) BY <3>3, <3>4, <3>5 DEF PinOK, Within
    <3>7. x \notin gpio.reg_inten BY <1>1, <1>6 DEF Statuses, Unmasked
    <3> QED BY <1>1, <3>3, <3>4, <3>6, <3>7, CalmKept DEF Calm
  <2> QED BY <2>1, <2>2
<1>7. \/ Calm(x) /\ ~Unmasked(x)
      \/ Calm(x) /\ TestPos(x) = CallTime + 2
      \/ CallTime + 3 <= TestPos(x) /\ TestPos(x) <= 2 * CallTime + 3
      \/ TestPos(x) = 2 * CallTime + 4
  <2>1. CASE Calm(x) BY <1>1, <1>2, <2>1 DEF Unmasked
  <2>2. CASE Window(x) BY <1>1, <1>2, <2>2 DEF Window
  <2> QED BY <2>1, <2>2 DEF PinOK
<1> QED BY <1>3, <1>4, <1>5, <1>6, <1>7

\* What the tests and the handlers drive.
LEMMA Drives ==
  /\ \A x \in TestPins : Active(x, Out(x)) /\ ~Active(x, {8, 10})
  /\ \A x, y \in TestPins : y < x => ~Active(x, Out(y))
  /\ \A x, y \in TestPins : IsLevel(y) /\ y < x => ~Active(x, Back(y))
  /\ \A x \in TestPins : IsLevel(x) => ~Active(x, Back(x))
<1>1. \A x \in TestPins : x = 7 \/ x = 8 \/ x = 9 \/ x = 10 BY DEF TestPins
<1>2. /\ Out(7) = {7, 8, 10} /\ Out(8) = {7, 10} /\ Out(9) = {7, 9, 10} /\ Out(10) = {7, 9}
      /\ Back(7) = {8, 10} /\ Back(8) = {7, 8, 10} /\ ~IsLevel(9) /\ ~IsLevel(10)
  BY DEF Out, Back, IsLevel
<1>3. \A P : /\ Active(7, P) <=> 7 \in P
             /\ Active(8, P) <=> 8 \notin P
             /\ Active(9, P) <=> 9 \in P
             /\ Active(10, P) <=> 10 \notin P
  BY DEF Active, IsHigh
<1>4. \A x \in TestPins : Active(x, Out(x)) /\ ~Active(x, {8, 10}) BY <1>1, <1>2, <1>3
<1>5. ASSUME NEW x \in TestPins, NEW y \in TestPins, y < x PROVE ~Active(x, Out(y))
  BY <1>1, <1>2, <1>3, <1>5
<1>6. ASSUME NEW x \in TestPins, NEW y \in TestPins, IsLevel(y), y < x \/ y = x PROVE ~Active(x, Back(y))
  <2>1. y = 7 \/ y = 8 BY <1>6 DEF IsLevel
  <2>2. CASE y = 7 BY <1>1, <1>2, <1>3, <1>6, <2>2
  <2>3. CASE y = 8 BY <1>6, <1>1, <1>2, <1>3, <2>3
  <2> QED BY <2>1, <2>2, <2>3
<1> QED BY <1>4, <1>5, <1>6

LEMMA BeforeKept ==
  ASSUME gpio \in Gpio, pc \in Int, pc' \in Int, Settings, NEW x \in TestPins, Before(x),
         NEW w, Port(w), w.op = "DATAOUT" => ~Active(x, w.pins),
         pc <= TestsEnd, pc' <= pc + 1 \/ pc' <= DataAt,
         pc = DataAt /\ pc' > DataAt => w.op = "DATAOUT"
  PROVE  Before(x)'
<1>1. DataAt \in Nat BY Bases
<1>2. pc >= DataAt => TestPins \subseteq gpio.reg_douten BY DEF Settings, TestPins
<1>3. /\ IsHigh(x) \/ pc > DataAt \/ w.op = "DATAOUT" => ~Driven(x)'
      /\ pc >= DataAt => (Sync1(x)' <=> Driven(x))
      /\ IsHigh(x) /\ Sync1(x)' => Driven(x)
      /\ Sync2(x)' <=> Sync1(x)
  BY <1>2, PinEdge DEF Before
<1>4. CASE IsHigh(x) BY <1>3, <1>4 DEF Before
<1>5. CASE ~IsHigh(x)
  <2>1. pc' > DataAt => ~Driven(x)' BY <1>1, <1>3
  <2>2. pc' > DataAt + 1 => ~Sync1(x)'
    <3> HAVE pc' > DataAt + 1
    <3>1. pc > DataAt BY <1>1
    <3> QED BY <1>1, <1>3, <3>1 DEF Before
  <2>3. pc' > DataAt + 2 => ~Sync2(x)'
    <3> HAVE pc' > DataAt + 2
    <3>1. pc > DataAt + 1 BY <1>1
    <3> QED BY <1>1, <1>3, <3>1 DEF Before
  <2>4. Before(x)' <=> /\ pc' > DataAt     => ~Driven(x)'
                       /\ pc' > DataAt + 1 => ~Sync1(x)'
                       /\ pc' > DataAt + 2 => ~Sync2(x)'
    BY <1>5 DEF Before
  <2> QED BY <2>1, <2>2, <2>3, <2>4
<1> QED BY <1>4, <1>5

\* The pins whose tests have not come yet.
LEMMA Later ==
  ASSUME pc \in Int, NEW x \in TestPins, NEW y \in TestPins, x # y,
         TestPos(x) <= CallTime + 2, 1 <= TestPos(y), TestPos(y) <= TestLen
  PROVE  y < x
<1>1. x \in Int /\ y \in Int BY DEF TestPins
<1>2. /\ TestLen = 2 * CallTime + 9 /\ CallTime \in Nat /\ TestBase(x) \in Nat /\ TestBase(y) \in Nat
  BY Bases
<1>3. CASE x < y BY Bases, <1>3, <1>2 DEF TestPos
<1> QED BY <1>1, <1>3

LEMMA BeforeStep ==
  ASSUME DemoStep, Settings, \A y \in TestPins : Calm(y) \/ Window(y), NEW x \in TestPins, PinOK(x)
  PROVE  TestPos(x)' <= CallTime + 2 => Before(x)'
<1> HAVE TestPos(x)' <= CallTime + 2
<1>1. /\ gpio \in Gpio /\ pc \in Int /\ pc' \in Int /\ TestLen = 2 * CallTime + 9 /\ CallTime \in Nat
      /\ TestBase(x) \in Nat /\ TypesEnd + 8 <= TestBase(x) /\ TestBase(x) + TestLen <= TestsEnd
      /\ TypesEnd \in Nat /\ TestsEnd \in Nat /\ DataAt \in Nat /\ DataAt + 2 < TypesEnd
      /\ TimerLen \in Nat /\ TimerLen + 1 < DataAt
  BY Bases, PosStep DEF DemoStep
<1>2. TestPos(x) \in Int /\ pc = TestBase(x) + TestPos(x) /\ TestPos(x) <= CallTime + 2
  BY <1>1, PosStep DEF TestPos
<1>3. Before(x) /\ pc <= TestsEnd BY <1>1, <1>2 DEF PinOK
<1>4. Steps0 BY <1>3 DEF DemoStep
<1>5. ASSUME NEW w, Port(w), w.op = "DATAOUT" => ~Active(x, w.pins),
             pc' <= pc + 1 \/ pc' <= DataAt,
             pc = DataAt /\ pc' > DataAt => w.op = "DATAOUT"
      PROVE  Before(x)'
  BY <1>1, <1>3, <1>5, BeforeKept
<1>6. GpioIdle.op = "none" BY DEF GpioIdle
<1>7. CASE Stays0 BY <1>7, <1>1, <1>5, <1>6 DEF Stays0, Still
<1>8. CASE InTimerExample BY <1>8, <1>1, <1>5, <1>6 DEF InTimerExample
<1>9. CASE InTypes
  <2>1. PICK w : Port(w) /\ SetUpAt(pc, w) BY <1>9 DEF InTypes
  <2>2. \A r, P : GpioWrite(r, P).op = r /\ GpioWrite(r, P).pins = P BY DEF GpioWrite
  <2>3. w.op = "DATAOUT" => w.pins = {8, 10} BY <1>6, <2>1, <2>2 DEF SetUpAt, SetUpWrites
  <2>4. pc = DataAt => w.op = "DATAOUT"
    <3> HAVE pc = DataAt
    <3>1. pc \in SetUpPlaces BY DEF SetUpPlaces
    <3>2. w = GpioWrite("DATAOUT", {8, 10}) BY <1>1, <2>1, <3>1 DEF SetUpAt, SetUpWrites
    <3> QED BY <2>2, <3>2
  <2>5. pc' = pc + 1 BY <1>9 DEF InTypes
  <2>6. w.op = "DATAOUT" => ~Active(x, w.pins) BY <2>3, Drives
  <2> QED BY <1>1, <1>5, <2>1, <2>4, <2>5, <2>6
<1>10. CASE InRequests BY <1>10, <1>1, <1>5, <1>6 DEF InRequests
<1>11. ASSUME NEW y \in TestPins, InPin(y) PROVE Before(x)'
  <2>1. pc' = pc BY <1>11, HandlerGoesOn
  <2>2. PICK w : /\ Port(w) /\ w.op \in {"none", "DATAOUT", "INTCLEAR"}
                 /\ w.op = "DATAOUT" => IsLevel(y) /\ w.pins = Back(y)
    BY <1>11, HandlerGoesOn
  <2>3. Window(y) BY <1>11 DEF InPin, Calm
  <2>4. TestPos(y) \in Int BY <1>1, PosStep
  <2>5. 1 <= TestPos(y) /\ TestPos(y) <= TestLen BY <1>1, <2>3, <2>4 DEF Window
  <2>6. x # y BY <1>1, <1>2, <2>3 DEF Window
  <2>7. y < x BY <1>1, <1>2, <2>5, <2>6, Later
  <2> QED BY <1>1, <1>5, <2>1, <2>2, <2>7, Drives
<1>12. ASSUME NEW y \in TestPins, InTest(y) PROVE Before(x)'
  <2>1. PICK w : /\ Port(w)
                 /\ w.op = "DATAOUT" => TestPos(y) = CallTime + 2 /\ w.pins = Out(y)
    BY <1>1, <1>12, TestGoesOn
  <2>2. pc > DataAt /\ pc' > pc /\ 1 <= TestPos(y) /\ TestPos(y) <= TestLen
    BY Bases, <1>1, <1>12, TestGoesOn DEF InTest, TestPos
  <2>3. CASE x = y
    <3>1. pc' = pc + 1 BY <1>1, <1>2, <1>12, <2>3, TestGoesOn
    <3>2. TestPos(x) # CallTime + 2 BY PosStep, <2>3, <1>12, <1>1, <1>2
    <3> QED BY <1>1, <1>5, <2>1, <2>2, <2>3, <3>1, <3>2
  <2>4. CASE x # y
    <3>1. y < x BY <1>1, <1>2, <2>2, <2>4, Later
    <3>2. w.op = "DATAOUT" => pc' = pc + 1 /\ ~Active(x, w.pins)
      <4> HAVE w.op = "DATAOUT"
      <4>1. TestPos(y) < 2 * CallTime + 5 BY <1>1, <2>1
      <4> QED BY <1>1, <1>12, <2>1, <3>1, <4>1, TestGoesOn, Drives
    <3>3. ~Driven(x)' /\ ~Sync1(x)' /\ ~Sync2(x)'
      <4>1. TestPins \subseteq gpio.reg_douten /\ pc > DataAt + 1
        <5>1. TypesEnd < pc BY Bases, <1>1, <2>2 DEF TestPos
        <5> QED BY <1>1, <1>3, <5>1, TypedOK
      <4>2. ~Driven(x) /\ ~Sync1(x) BY <1>1, <1>3, <4>1 DEF Before
      <4> QED BY <1>1, <2>1, <3>2, <4>1, <4>2, PinEdge
    <3> QED BY <3>3 DEF Before
  <2> QED BY <2>3, <2>4
<1> QED BY <1>4, <1>7, <1>8, <1>9, <1>10, <1>11, <1>12 DEF Steps0

\* What an edge of the clock makes of a pin in its test.
LEMMA InWindow ==
  ASSUME gpio \in Gpio, Settings, pc \in Int, TypesEnd < pc, pc <= TestsEnd, NEW x \in TestPins,
         NEW w, Port(w)
  PROVE  /\ w.op = "DATAOUT" => (Driven(x)' <=> Active(x, w.pins))
         /\ w.op # "DATAOUT" => (Driven(x)' <=> Driven(x))
         /\ Sync1(x)' <=> Driven(x)
         /\ Sync2(x)' <=> Sync1(x)
         /\ Latest(x)' <=> Sync2(x)
         /\ Up(x)' <=> (Up(x) /\ ~Clears(x, w)) \/ Triggers(x)
BY TypedOK, PinEdge

LEMMA Requests ==
  ASSUME gpio \in Gpio, Statuses, NEW x \in TestPins, NEW w, Port(w),
         NEW e, NEW l, NEW en, Nvic(e, l, en)
  PROVE  Pends(x)' <=> \/ Pends(x) /\ Demo!PORT0(x) \notin e
                       \/ Up(x)' /\ ~Up(x)
                       \/ Up(x) /\ Demo!PORT0(x) \in l
BY PinRequest, PortRegisters DEF Statuses

\* While the handler of a pin runs, nothing triggers it again once it has cleared
\* the interrupt.
LEMMA NoRetrigger ==
  ASSUME CallTime >= 2, NEW x \in TestPins, Handles(x), Within(x), hpc \in Int, hpc >= ClearAt(x)
  PROVE  ~Triggers(x)
<1>1. CallTime \in Nat BY Bases
<1>2. CASE IsLevel(x) BY <1>1, <1>2 DEF Within, Handling, Triggers, ClearAt
<1>3. CASE ~IsLevel(x) BY <1>3 DEF Within, Spent, Triggers
<1> QED BY <1>2, <1>3

\* The handler of the pin goes on, or waits.
LEMMA HandlingOn ==
  ASSUME CallTime >= 2, gpio \in Gpio, Statuses, Settings, pc \in Int, TypesEnd < pc, pc <= TestsEnd,
         NEW x \in TestPins, Handles(x), Within(x), hpc \in Int, 1 <= hpc, handler' = handler, NvicRuns,
         NEW w, Port(w),
         \/ hpc' = hpc /\ w.op = "none" /\ Triggered' = Triggered
         \/ /\ hpc' = hpc + 1 /\ hpc <= ClearAt(x) /\ Triggered' = IF hpc = 1 THEN 1 ELSE Triggered
            /\ w.op = "DATAOUT" => IsLevel(x) /\ hpc = 2 /\ w.pins = Back(x)
            /\ w.op = "INTCLEAR" => hpc = ClearAt(x) /\ w.pins = {x}
            /\ IsLevel(x) /\ hpc = 2 => w.op = "DATAOUT"
            /\ hpc = ClearAt(x) => w.op = "INTCLEAR"
  PROVE  Within(x)'
<1>1. CallTime \in Nat /\ ClearAt(x) \in Int /\ ClearAt(x) >= 4 BY Bases DEF ClearAt
<1>2. /\ w.op = "DATAOUT" => (Driven(x)' <=> Active(x, w.pins))
      /\ w.op # "DATAOUT" => (Driven(x)' <=> Driven(x))
      /\ Sync1(x)' <=> Driven(x)
      /\ Sync2(x)' <=> Sync1(x)
      /\ Latest(x)' <=> Sync2(x)
      /\ Up(x)' <=> (Up(x) /\ ~Clears(x, w)) \/ Triggers(x)
  BY InWindow
<1>3. Pends(x)' <=> Pends(x) \/ (Up(x)' /\ ~Up(x)) BY Requests DEF NvicRuns
<1>4. Handling(x) /\ Handles(x)' BY DEF Within, Handles
<1>5. Up(x)' <=> hpc' <= ClearAt(x)
  <2>1. CASE hpc < ClearAt(x) BY <2>1, <1>4, <1>1, <1>2 DEF Handling, Clears
  <2>2. CASE hpc = ClearAt(x) /\ hpc' = hpc BY <1>4, <1>1, <1>2, <2>2 DEF Handling, Clears
  <2>3. CASE hpc = ClearAt(x) /\ hpc' = hpc + 1 BY NoRetrigger, <1>1, <1>2, <2>3 DEF Clears
  <2>4. CASE hpc > ClearAt(x) BY NoRetrigger, <1>4, <1>1, <1>2, <2>4 DEF Handling
  <2> QED BY <1>1, <2>1, <2>2, <2>3, <2>4
<1>6. ~Pends(x)'
  <2>1. CASE Up(x) BY <1>3, <1>4, <2>1 DEF Handling
  <2>2. CASE ~Up(x) BY <2>2, <1>1, <1>3, <1>4, <1>5 DEF Handling
  <2> QED BY <2>1, <2>2
<1>7. Triggered' = 1 <=> hpc' > 1 BY <1>1, <1>4 DEF Handling
<1>8. ASSUME IsLevel(x)
      PROVE  /\ hpc' > 2 => ~Driven(x)'
             /\ hpc' > 3 => ~Sync1(x)'
             /\ hpc' > 4 => ~Sync2(x)'
  <2>1. /\ hpc > 2 => ~Driven(x)
        /\ hpc > 3 => ~Sync1(x)
    BY <1>4, <1>8 DEF Handling
  <2>2. CASE hpc' = hpc BY <1>2, <2>1, <2>2
  <2>3. CASE hpc' = hpc + 1
    <3>1. w.op = "DATAOUT" => ~Active(x, w.pins) BY Drives, <1>8, <2>3
    <3>2. hpc = 2 => w.op = "DATAOUT" BY <1>8, <2>3
    <3>3. hpc >= 2 => ~Driven(x)' BY <1>2, <2>1, <3>1, <3>2
    <3> QED BY <1>2, <2>1, <2>3, <3>3
  <2> QED BY <2>2, <2>3
<1>9. ASSUME ~IsLevel(x) PROVE Driven(x)' /\ (Sync2(x)' => Sync1(x)') /\ Spent(x)'
  <2>1. Driven(x) /\ Spent(x) BY <1>9 DEF Within
  <2>2. Driven(x) /\ Sync1(x) /\ Sync2(x) BY <1>9, <2>1 DEF Spent
  <2>3. w.op # "DATAOUT" BY <1>9
  <2> QED BY <1>2, <1>9, <2>2, <2>3 DEF Spent
<1>10. Handling(x)' BY <1>5, <1>6, <1>7, <1>8 DEF Handling, IsLevel, ClearAt
<1> QED BY <1>4, <1>9, <1>10 DEF Within, IsLevel

\* The handler of the pin returns.
LEMMA HandlingEnds ==
  ASSUME CallTime >= 2, gpio \in Gpio, Statuses, Settings, pc \in Int, TypesEnd < pc, pc <= TestsEnd,
         NEW x \in TestPins, Handles(x), Within(x), hpc \in Int, hpc = ClearAt(x) + 1, Leaves
  PROVE  Within(x)'
<1>1. CallTime \in Nat /\ ClearAt(x) \in Int /\ ClearAt(x) >= 4 /\ GpioIdle.op = "none"
  BY Bases DEF ClearAt, GpioIdle
<1>2. /\ Driven(x)' <=> Driven(x)
      /\ Sync1(x)' <=> Driven(x)
      /\ Sync2(x)' <=> Sync1(x)
      /\ Latest(x)' <=> Sync2(x)
      /\ Up(x)' <=> Up(x) \/ Triggers(x)
  BY <1>1, InWindow DEF Leaves, Clears
<1>3. Handling(x) /\ ~Handles(x)' /\ ~Triggers(x)
  BY <1>1, NoRetrigger, PinNames DEF Within, Handles, Leaves
<1>4. ~Up(x) /\ ~Pends(x) /\ ~Up(x)' BY <1>1, <1>2, <1>3 DEF Handling
<1>5. ~Pends(x)' BY <1>4, Requests DEF Leaves
<1>6. CASE IsLevel(x)
  <2>1. hpc > 2 /\ hpc > 3 BY <1>1
  <2>2. ~Driven(x) /\ ~Sync1(x) BY <1>3, <1>6, <2>1 DEF Handling
  <2>3. Spent(x)' BY <1>2, <1>6, <2>2 DEF Spent, IsLevel
  <2> QED BY <1>3, <1>4, <1>5, <1>6, <2>3 DEF Within, IsLevel
<1>7. CASE ~IsLevel(x)
  <2>1. Driven(x) /\ Sync1(x) /\ Sync2(x) BY <1>7 DEF Within, Spent
  <2>2. Driven(x)' /\ Sync1(x)' /\ Sync2(x)' /\ Spent(x)' BY <1>2, <1>7, <2>1 DEF Spent, IsLevel
  <2> QED BY <1>3, <1>4, <1>5, <1>7, <2>2 DEF Within, IsLevel
<1> QED BY <1>6, <1>7

\* The request of the pin is taken.
LEMMA HandlingStarts ==
  ASSUME gpio \in Gpio, Statuses, Settings, pc \in Int, TypesEnd < pc, pc <= TestsEnd,
         NEW x \in TestPins, ~Handles(x), Within(x), Enters(Demo!PORT0(x))
  PROVE  Within(x)' /\ Triggered # 1
<1>1. CallTime \in Nat /\ ClearAt(x) \in Int /\ ClearAt(x) >= 2 /\ GpioIdle.op = "none"
  BY Bases DEF ClearAt, GpioIdle
<1>2. /\ Driven(x)' <=> Driven(x)
      /\ Sync1(x)' <=> Driven(x)
      /\ Sync2(x)' <=> Sync1(x)
      /\ Latest(x)' <=> Sync2(x)
      /\ Up(x)' <=> Up(x) \/ Triggers(x)
  BY <1>1, InWindow DEF Enters, Clears
<1>3. Pends(x) /\ Handles(x)' /\ hpc' = 1 /\ Triggered' = Triggered
  BY DEF Enters, Requested, Pends, Handles
<1>4. Up(x) /\ Triggered # 1 BY <1>3 DEF Within
<1>5. Up(x)' BY <1>2, <1>4
<1>6. ~Pends(x)' BY <1>4, Requests DEF Enters
<1>7. Handling(x)' BY <1>1, <1>3, <1>4, <1>5, <1>6 DEF Handling, IsLevel, ClearAt
<1>8. ASSUME ~IsLevel(x) PROVE Driven(x)' /\ Sync1(x)' /\ Spent(x)'
  BY <1>4, <1>2, <1>8 DEF Spent, IsLevel, Within
<1> QED BY <1>3, <1>4, <1>7, <1>8 DEF Within, IsLevel

\* The program and the other handlers go on.
LEMMA WithinOn ==
  ASSUME gpio \in Gpio, Statuses, Settings, pc \in Int, TypesEnd < pc, pc <= TestsEnd,
         NEW x \in TestPins, ~Handles(x), Within(x), ~Handles(x)', Triggered' = Triggered,
         NEW w, Port(w), w.op \notin {"DATAOUT", "INTCLEAR"},
         NEW e, NEW l, NEW en, Nvic(e, l, en), Demo!PORT0(x) \notin e, Demo!PORT0(x) \notin l
  PROVE  Within(x)'
<1>1. /\ Driven(x)' <=> Driven(x)
      /\ Sync1(x)' <=> Driven(x)
      /\ Sync2(x)' <=> Sync1(x)
      /\ Latest(x)' <=> Sync2(x)
      /\ Up(x)' <=> Up(x) \/ Triggers(x)
  BY InWindow DEF Clears
<1>2. /\ Up(x) <=> Pends(x)
      /\ Triggered = 1 => ~Up(x) /\ Spent(x)
      /\ ~IsLevel(x) => Driven(x) /\ (Sync2(x) => Sync1(x)) /\ (Up(x) => Spent(x))
  BY DEF Within
<1>3. Pends(x)' <=> Pends(x) \/ (Up(x)' /\ ~Up(x)) BY Requests
<1>4. Up(x)' <=> Pends(x)' BY <1>1, <1>2, <1>3
<1>5. CASE IsLevel(x)
  <2>1. ASSUME Triggered = 1 PROVE ~Up(x)' /\ Spent(x)'
    BY <2>1, <1>2, <1>1, <1>5 DEF Triggers, Spent, IsLevel
  <2> QED BY <1>4, <1>5, <2>1 DEF Within, IsLevel
<1>6. CASE ~IsLevel(x)
  <2>1. Driven(x)' /\ Sync1(x)' /\ (Sync2(x) => Sync2(x)' /\ Latest(x)') BY <1>1, <1>2, <1>6
  <2>2. Sync2(x) => Spent(x)' BY <1>6, <2>1 DEF Spent, IsLevel
  <2>3. Spent(x) => Sync2(x) /\ Latest(x) BY <1>6 DEF Spent
  <2>4. Up(x)' => Spent(x)' BY <1>1, <1>2, <1>6, <2>2, <2>3 DEF Triggers
  <2>5. ASSUME Triggered = 1 PROVE ~Up(x)' /\ Spent(x)'
    BY <1>1, <1>2, <1>6, <2>2, <2>3, <2>5 DEF Triggers
  <2> QED BY <1>4, <1>6, <2>1, <2>4, <2>5 DEF Within, IsLevel
<1> QED BY <1>5, <1>6

\* The test drives the pin.
LEMMA WithinStarts ==
  ASSUME DemoStep, Turns, Settings, Statuses, Flag, \A y \in TestPins : Calm(y) \/ Window(y),
         NEW x \in TestPins, PinOK(x), InTest(x), TestPos(x) = CallTime + 2
  PROVE  Within(x)'
<1>1. /\ gpio \in Gpio /\ pc \in Int /\ TestLen = 2 * CallTime + 9 /\ CallTime \in Nat
      /\ TestBase(x) \in Nat /\ TypesEnd + 8 <= TestBase(x) /\ TestBase(x) + TestLen <= TestsEnd
      /\ TypesEnd \in Nat /\ TestsEnd \in Nat /\ DataAt \in Nat /\ DataAt + 2 < TypesEnd
      /\ TypesEnd < pc /\ pc <= TestsEnd /\ DataAt + 2 < pc
  BY Bases DEF DemoStep, TestPos
<1>2. PICK w : Port(w) /\ w.op = "DATAOUT" /\ w.pins = Out(x) BY <1>1, TestGoesOn
<1>3. /\ Driven(x)' <=> Active(x, Out(x))
      /\ Sync1(x)' <=> Driven(x)
      /\ Sync2(x)' <=> Sync1(x)
  BY <1>1, <1>2, InWindow
<1>4. Driven(x)' BY <1>3, Drives
<1>5. ~Driven(x) /\ ~Sync1(x) /\ ~Sync2(x) BY <1>1 DEF PinOK, Before
<1>6. Calm(x) BY <1>1 DEF Window
<1>7. Calm(x)' BY <1>1, <1>5, <1>6, TypedOK, CalmKept DEF Triggers
<1>8. Triggered' # 1
  <2>1. Triggered' = Triggered BY <1>1, TestGoesOn
  <2>2. ASSUME NEW y \in TestPins, CallTime + 3 <= TestPos(y), TestPos(y) <= 2 * CallTime + 7 PROVE FALSE
    <3>1. TestPos(y) \in Int BY PosStep
    <3>2. x = y BY <3>1, <2>2, <1>1, OneTest
    <3> QED BY <1>1, <2>2, <3>2
  <2> QED BY <1>1, <2>1, <2>2 DEF Flag
<1> QED BY <1>3, <1>4, <1>5, <1>7, <1>8 DEF Within, Calm

\* Where the handlers of the pins are.
PinPlaces == \A x \in TestPins : Handles(x) =>
            InHandler /\ hpc \in Int /\ 1 <= hpc /\ (Leaves => hpc = ClearAt(x) + 1)

LEMMA WithinStep ==
  ASSUME CallTime >= 2, DemoStep, Turns, PinPlaces, Settings, Statuses, Flag,
         \A y \in TestPins : Calm(y) \/ Window(y), NEW x \in TestPins, PinOK(x), Window(x)'
  PROVE  Within(x)'
<1>1. /\ gpio \in Gpio /\ pc \in Int /\ TestLen = 2 * CallTime + 9 /\ CallTime \in Nat
      /\ TestBase(x) \in Nat /\ TypesEnd + 8 <= TestBase(x) /\ TestBase(x) + TestLen <= TestsEnd
      /\ TypesEnd \in Nat /\ TestsEnd \in Nat /\ TestPos(x) \in Int /\ TestPos(x)' \in Int
      /\ TimerLen \in Nat /\ TimerLen < TypesEnd
  BY Bases, PosStep DEF DemoStep
<1>2. CallTime + 3 <= TestPos(x)' /\ TestPos(x)' <= 2 * CallTime + 4 BY DEF Window
<1>3. CallTime + 2 <= TestPos(x) /\ TestPos(x) <= 2 * CallTime + 4
  <2>1. TestPos(x) <= TestLen /\ TestPos(x) >= 1
    <3>1. ~(TestPos(x) > TestLen) BY <1>1, <1>2, PosStep
    <3>2. ~(TestPos(x) <= 0) BY <1>1, <1>2, PosStep
    <3> QED BY <1>1, <3>1, <3>2
  <2>2. CASE InTest(x)
    <3>1. TestPos(x)' > TestPos(x) BY <2>2, PosStep
    <3>2. TestPos(x)' = TestPos(x) + 1 BY <3>1, <1>2, <1>1, <2>2, PosStep
    <3> QED BY <1>1, <1>2, <3>2
  <2>3. CASE ~InTest(x) BY PosStep, <2>3, <2>1, <1>1, <1>2
  <2> QED BY <2>2, <2>3
<1>4. TypesEnd + 8 < pc /\ pc <= TestsEnd /\ 1 <= TestPos(x) /\ TestPos(x) <= TestLen
  BY <1>1, <1>3 DEF TestPos
<1>5. TypesEnd < pc BY <1>1, <1>4
<1>6. CASE TestPos(x) = CallTime + 2
  <2>1. InTest(x) BY <1>6, <1>2, <1>1, <1>4, PosStep
  <2> QED BY <1>6, <2>1, WithinStarts
<1>7. CASE TestPos(x) # CallTime + 2
  <2>1. Window(x) BY <1>1, <1>3, <1>7 DEF Window
  <2>2. Within(x) BY <2>1 DEF PinOK
  <2>3. Steps0 /\ GpioIdle.op = "none" BY <1>4 DEF DemoStep, GpioIdle
  <2>4. ASSUME ~Handles(x), ~Handles(x)', Triggered' = Triggered,
               NEW w, Port(w), w.op \notin {"DATAOUT", "INTCLEAR"},
               NEW e, NEW l, NEW en, Nvic(e, l, en), Demo!PORT0(x) \notin e, Demo!PORT0(x) \notin l
        PROVE  Within(x)'
    BY <1>1, <1>4, <1>5, <2>2, <2>4, WithinOn
  <2>5. ASSUME Handles(x), handler' = handler, NvicRuns, hpc' = hpc, Triggered' = Triggered, Port(GpioIdle)
        PROVE  Within(x)'
    BY <1>1, <1>4, <1>5, <2>2, <2>3, <2>5, HandlingOn DEF PinPlaces
  <2>6. Demo!PORT0(x) # "none" /\ Demo!PORT0(x) # "TIMER0" BY PinNames
  <2>7. CASE Stays0
    <3>1. Port(GpioIdle) /\ Triggered' = Triggered BY <2>7 DEF Stays0, Still
    <3>2. CASE Rests
      <4>1. handler' = handler /\ hpc' = hpc /\ Nvic({}, {}, nvic.enabled)
        BY <3>2 DEF Rests, NvicRuns
      <4>2. CASE Handles(x) BY <2>5, <3>1, <4>1, <4>2 DEF NvicRuns
      <4>3. CASE ~Handles(x) BY <2>3, <2>4, <3>1, <4>1, <4>3 DEF Handles
      <4> QED BY <4>2, <4>3
    <3>3. ASSUME NEW h, Enters(h) PROVE Within(x)'
      <4>1. ~Handles(x) BY <3>3 DEF Enters, PinPlaces
      <4>2. CASE h = Demo!PORT0(x) BY <1>1, <1>4, <1>5, <2>2, <3>3, <4>1, <4>2, HandlingStarts
      <4>3. CASE h # Demo!PORT0(x) BY <3>3, <2>3, <2>4, <3>1, <4>1, <4>3 DEF Handles, Enters
      <4> QED BY <4>2, <4>3
    <3>4. CASE Leaves
      <4>1. handler' = "none" /\ Nvic({}, {handler}, nvic.enabled) BY <3>4 DEF Leaves
      <4>2. CASE Handles(x) BY <1>1, <1>4, <1>5, <2>2, <3>4, <4>2, HandlingEnds DEF PinPlaces
      <4>3. CASE ~Handles(x) BY <2>3, <2>4, <2>6, <3>1, <4>1, <4>3 DEF Handles
      <4> QED BY <4>2, <4>3
    <3>5. CASE InTimer0
      <4>1. handler = "TIMER0" /\ handler' = handler /\ TimerNvic BY <3>5 DEF InTimer0
      <4>2. PICK e, l \in SUBSET {"TIMER0"} : \E en : Nvic(e, l, en) BY <4>1 DEF TimerNvic
      <4>3. PICK en : Nvic(e, l, en) BY <4>2
      <4>4. Demo!PORT0(x) \notin e /\ Demo!PORT0(x) \notin l /\ ~Handles(x) /\ ~Handles(x)'
        BY <2>6, <4>1 DEF Handles
      <4> QED BY <2>3, <2>4, <3>1, <4>3, <4>4
    <3> QED BY <2>7, <3>2, <3>3, <3>4, <3>5 DEF Stays0
  <2>8. ASSUME NEW y \in TestPins, InPin(y) PROVE Within(x)'
    <3>1. Window(y) BY <2>8 DEF InPin, Calm
    <3>2. TestPos(y) \in Int BY PosStep
    <3>3. 1 <= TestPos(y) /\ TestPos(y) <= TestLen BY <1>1, <3>1, <3>2 DEF Window
    <3>4. x = y BY <1>1, <1>4, <3>3, OneTest
    <3>5. Handles(x) /\ 1 <= hpc /\ hpc <= ClearAt(x) /\ hpc \in Int BY <2>8, <3>4 DEF InPin
    <3>6. /\ handler' = handler /\ hpc' = hpc + 1 /\ NvicRuns
          /\ Triggered' = IF hpc = 1 THEN 1 ELSE Triggered
      BY <2>8, HandlerGoesOn
    <3>7. PICK w : /\ Port(w)
                   /\ w.op = "DATAOUT" => IsLevel(x) /\ hpc = 2 /\ w.pins = Back(x)
                   /\ w.op = "INTCLEAR" => hpc = ClearAt(x) /\ w.pins = {x}
                   /\ IsLevel(x) /\ hpc = 2 => w.op = "DATAOUT"
                   /\ hpc = ClearAt(x) => w.op = "INTCLEAR"
      BY <2>8, <3>4, HandlerGoesOn
    <3> QED BY <1>1, <1>4, <1>5, <2>2, <3>5, <3>6, <3>7, HandlingOn
  <2>9. ASSUME NEW y \in TestPins, InTest(y) PROVE Within(x)'
    <3>1. x = y BY <1>1, <1>4, <2>9, OneTest DEF InTest
    <3>2. /\ handler = "none" /\ handler' = handler /\ Nvic({}, {}, nvic.enabled)
          /\ Triggered' = Triggered
      BY <1>3, <1>1, <2>9, <3>1, TestGoesOn DEF InTest, NvicRuns
    <3>3. PICK w : Port(w) /\ w.op \in Quiets \ {"INTCLEAR"} /\ (w.op = "DATAOUT" => TestPos(x) = CallTime + 2)
      BY <1>1, <2>9, <3>1, TestGoesOn
    <3>4. w.op \notin {"DATAOUT", "INTCLEAR"} /\ ~Handles(x) /\ ~Handles(x)'
      BY <1>7, <2>6, <3>2, <3>3 DEF Handles
    <3> QED BY <2>4, <3>2, <3>3, <3>4
  <2>10. ~InTimerExample /\ ~InTypes /\ ~InRequests
    BY <1>1, <1>4 DEF InTimerExample, InTypes, InRequests
  <2> QED BY <2>3, <2>7, <2>8, <2>9, <2>10 DEF Steps0
<1> QED BY <1>6, <1>7

-----------------------------------------------------------------------------
(* The invariant, over every step of every program.                        *)

LEMMA DemoPinsStep ==
  ASSUME CallTime >= 2, ProgInv, image = "interrupt_demo", OneInv,
         Rests \/ (\E h : Enters(h)) \/ Leaves \/ Executes
  PROVE  OneInv'
<1>1. Settings /\ Enabling /\ Statuses /\ Flag /\ \A x \in TestPins : PinOK(x) BY DEF OneInv
<1>2. DemoStep BY <1>1, DemoSteps DEF DemoStep, ProgInv, DevicesOK
<1>3. Turns BY KindTurns
<1>4. PinPlaces BY HandlerPlace DEF PinPlaces
<1>5. \A y \in TestPins : Calm(y) \/ Window(y) BY <1>1 DEF PinOK
<1>6. Settings' /\ Enabling' /\ Statuses' /\ Flag'
  BY <1>1, <1>2, <1>5, SettingsStep, EnablingStep, StatusesStep, FlagStep
<1>7. ASSUME NEW x \in TestPins PROVE PinOK(x)'
  <2>1. Calm(x)' \/ Window(x)' BY <1>1, <1>2, <1>3, <1>5, CalmStep
  <2>2. TestPos(x)' <= CallTime + 2 => Before(x)' BY <1>1, <1>2, <1>5, BeforeStep
  <2>3. Window(x)' => Within(x)' BY <1>1, <1>2, <1>3, <1>4, <1>5, WithinStep
  <2> QED BY <2>1, <2>2, <2>3 DEF PinOK
<1> QED BY <1>6, <1>7 DEF OneInv

LEMMA SameImage == Processor => image' = image
BY DEF Processor, Idle, TakeIrq, Return, BusInstruction, SendInstruction, LoadInstruction, StoreInstruction,
   Branch, Assign, StringStep, EnableIRQ, Wake, Sleep, PutsOn, PutsDone, Finish, Keep

LEMMA OneStep ==
  ASSUME CallTime >= 2, ProgInv, OneInv, [Next]_allVars PROVE OneInv'
<1>1. CASE UNCHANGED allVars
  BY <1>1 DEF allVars, hwVars, progVars, OneInv, Settings, Enabling, Statuses, Flag, PinOK, Calm, Window, Before,
     Within, Handling, Spent, TestPos, Unmasked, Driven, Sync1, Sync2, Latest, Up, Pends, Handles, Triggered,
     IsLevel, IsHigh
<1>2. CASE AnySoftware BY <1>2 DEF AnySoftware, progVars, OneInv
<1>3. CASE image # "any" /\ Processor
  <2>1. image' = image BY <1>3, SameImage
  <2>2. CASE image = "interrupt_demo" BY <1>3, <2>2, StepKinds, DemoPinsStep
  <2>3. CASE image # "interrupt_demo" BY <2>1, <2>3 DEF OneInv
  <2> QED BY <2>2, <2>3
<1> QED BY <1>1, <1>2, <1>3 DEF Next, Ended

LEMMA OneInit == Init => OneInv
<1> SUFFICES ASSUME Init PROVE Settings /\ Enabling /\ Statuses /\ Flag /\ \A x \in TestPins : PinOK(x)
  BY DEF OneInv
<1>1. /\ pc = 1 /\ handler = "none" /\ nvic.enabled = {} /\ nvic.pending = {} /\ sw = Software0
      /\ gpio.reg_dout = {} /\ gpio.reg_inten = {} /\ gpio.reg_inttype = {} /\ gpio.reg_intpol = {}
      /\ gpio.reg_intstat = {} /\ gpio.reg_in_sync1 = {} /\ gpio.reg_in_sync2 = {}
  BY DEF Init, ResetGpio
<1>2. Triggered = 0 BY <1>1 DEF Triggered, Software0
<1>3. CallTime \in Nat /\ TimerLen \in Nat /\ DataAt \in Nat /\ TypesEnd \in Nat /\ TestLen = 2 * CallTime + 9
      /\ DataAt = TimerLen + CallTime + 4 /\ TypesEnd = DataAt + 4 * CallTime + 8
  BY Bases
<1>4. /\ ~(1 >= DataAt) /\ ~(1 > DataAt + CallTime + 2) /\ ~(1 > DataAt + 3 * CallTime + 5)
      /\ ~(1 > DataAt + 3 * CallTime + 6) /\ ~(1 > DataAt + 4 * CallTime + 7)
      /\ ~(1 > DataAt) /\ ~(1 > DataAt + 1) /\ ~(1 > DataAt + 2)
  BY <1>3
<1>5. Settings BY <1>1, <1>4 DEF Settings
<1>6. Enabling BY <1>3, <1>1 DEF Enabling, TestPins
<1>7. \A x \in TestPins : TestPos(x) <= 1 /\ TestPos(x) \in Int
  BY <1>1, <1>3, NoTest, Bases DEF TestPos
<1>8. Statuses /\ \A x \in TestPins : ~Window(x) BY <1>1, <1>3, <1>7 DEF Statuses, Unmasked, Window
<1>9. Flag BY <1>2 DEF Flag
<1>10. ASSUME NEW x \in TestPins PROVE Calm(x) /\ Before(x)
  <2>1. Calm(x) BY <1>1, PinNames DEF Calm, Up, Pends, Handles
  <2>2. Before(x) BY <1>1, <1>4 DEF Before, Driven, Sync1, Sync2, Active
  <2> QED BY <2>1, <2>2
<1> QED BY <1>5, <1>6, <1>8, <1>9, <1>10 DEF PinOK

\* Only the demo has handlers for the pins.
LEMMA NoPortIrqs ==
  ASSUME NEW p \in DOMAIN MainOf, p # "interrupt_demo" PROVE IrqsOf(p) \cap PortIrqs = {}
<1>1. CASE p = "uart_driver_tests" BY UartTexts, Images, <1>1 DEF UartIrqs, PortIrqs, IrqsOf
<1>2. CASE p = "timer_driver_tests"
  <2>1. {"DATAOUT", "OUTENABLESET"} \subseteq {"DATAOUT", "OUTENABLESET"} OBVIOUS
  <2>2. DOMAIN TimerTests!Handlers = {"TIMER0"} BY <2>1, TimerTexts
  <2>3. IrqsOf(p) = {"TIMER0"} BY <1>2, <2>2, Images DEF IrqsOf
  <2> QED BY <2>3 DEF PortIrqs
<1> QED BY <1>1, <1>2, Images

LEMMA OneEntry ==
  ASSUME CallTime >= 2, ProgInv, OneInv, [Next]_allVars, handler' # handler, handler' \in PortIrqs
  PROVE  sw["irq_triggered"] = 0
<1>1. image # "any" /\ Processor BY DEF Next, Ended, AnySoftware, allVars, progVars
<1>2. Enters(handler')
  <2>1. Rests \/ (\E h : Enters(h)) \/ Leaves \/ Executes BY <1>1, StepKinds
  <2>2. "none" \notin PortIrqs BY DEF PortIrqs
  <2> QED BY <2>1, <2>2 DEF Rests, Enters, Leaves, Executes, Jump
<1>3. ~InHandler /\ handler' \in nvic.enabled /\ handler' \in nvic.pending
  BY <1>2 DEF Enters, Requested
<1>4. image = "interrupt_demo" BY <1>3, <1>1, NoPortIrqs DEF ProgInv, NvicOK, PlaceOK
<1>5. PICK x \in TestPins : handler' = Demo!PORT0(x) BY PinNames DEF PortIrqs
<1>6. Pends(x) /\ ~Handles(x) BY <1>3, <1>5, PinNames DEF Pends, Handles, InHandler
<1>7. Settings /\ Statuses /\ Flag /\ PinOK(x) BY <1>4 DEF OneInv
<1>8. Window(x) /\ Within(x) BY <1>6, <1>7 DEF PinOK, Calm
<1>9. Triggered # 1 BY <1>6, <1>8 DEF Within
<1>10. pc <= TestsEnd
  <2>1. pc \in Int BY <1>4, DemoPlace
  <2> QED BY <1>8, <2>1, Bases DEF Window, TestPos
<1> QED BY <1>7, <1>9, <1>10 DEF Flag, Triggered

\* With calls that take two cycles or more (the real ones take dozens), a trigger
\* of a pin is handled once in every execution: the level that the handler takes
\* back has passed the synchroniser when it clears the interrupt, no edge is seen
\* twice, and no request is left for the next pin's test
\* (interrupt_demo.c:336-386, 508-532; cmsdk_iop_gpio.v:527-562).
THEOREM TriggersAreHandledOnce == CallTime >= 2 => (Spec => OneEntryPerTrigger)
<1> SUFFICES ASSUME CallTime >= 2 PROVE Spec => OneEntryPerTrigger
  OBVIOUS
<1>1. Init => ProgInv /\ OneInv BY ProgInit, OneInit
<1>2. ProgInv /\ OneInv /\ [Next]_allVars => ProgInv' /\ OneInv' BY ProgStep, OneStep
<1>3. ProgInv /\ OneInv /\ [Next]_allVars
        => [handler' # handler /\ handler' \in {"PORT0_7", "PORT0_8", "PORT0_9", "PORT0_10"}
              => sw["irq_triggered"] = 0]_allVars
  BY OneEntry DEF PortIrqs
<1> QED BY <1>1, <1>2, <1>3, PTL DEF Spec, OneEntryPerTrigger

-----------------------------------------------------------------------------
(* What is left on the line from UART2, and how long a print takes.        *)

FrameTime == ShortestFrame + Divider
Most      == 2 * FrameTime + 1      \* one byte on the line and one in the buffer
Left(u)   == u.tx + (IF u.tx_buf_full THEN FrameTime + (IF u.tx = 0 THEN 2 ELSE 0) ELSE 0)
PrintTime(n) == (n * FrameTime) \div CharsPerFrame

LEMMA Times ==
  /\ FrameTime \in Nat /\ FrameTime >= 3 /\ Most \in Nat /\ Most = 2 * FrameTime + 1
  /\ \A n \in Nat : PrintTime(n) \in Nat
  /\ \A n \in Nat : CharsPerFrame <= n => PrintTime(n) >= FrameTime
<1>1. Divider \in Nat BY DriverAssumption, UartAssumption
<1>2. FrameTime \in Nat /\ FrameTime >= 3 /\ Most \in Nat BY <1>1 DEF FrameTime, Most, ShortestFrame
<1>3. CharsPerFrame \in Nat /\ CharsPerFrame > 0 BY ProgramAssumption
<1> DEFINE f == FrameTime
           c == CharsPerFrame
<1>4. f \in Nat /\ c \in Nat /\ c > 0 BY <1>2, <1>3
<1> HIDE DEF f, c
<1>5. ASSUME NEW n \in Nat PROVE (n * f) \div c \in Nat /\ (c <= n => (n * f) \div c >= f)
  <2> DEFINE q == (n * f) \div c
             r == (n * f) % c
  <2>1. n * f \in Nat BY <1>4
  <2>2. \A a \in Nat : a \div c \in Nat /\ a % c \in 0 .. c - 1 /\ a = (c * (a \div c)) + (a % c)
    BY <1>4, Z3
  <2>3. q \in Nat /\ r \in 0 .. c - 1 /\ n * f = c * q + r BY <2>1, <2>2
  <2> HIDE DEF q, r
  <2>4. ASSUME c <= n, q < f PROVE FALSE
    <3>1. c * f <= n * f BY <1>4, <2>4
    <3>2. c * (q + 1) <= c * f BY <1>4, <2>3, <2>4
    <3>3. c * (q + 1) = c * q + c BY <1>4, <2>3
    <3>4. c * q \in Nat /\ c * f \in Nat /\ n * f \in Nat BY <1>4, <2>3
    <3> QED BY <1>4, <2>3, <3>1, <3>2, <3>3, <3>4
  <2>5. q \in Nat /\ (c <= n => q >= f) BY <1>4, <2>3, <2>4
  <2> QED BY <2>5 DEF q
<1> QED BY <1>2, <1>5 DEF PrintTime, Most, f, c

\* What an edge leaves: one step less, or nothing, unless the bus sends.
LEMMA LeftStep ==
  ASSUME NEW u \in Uart, NEW b, NEW p, u.tx <= FrameTime + 1, u.reg_baud_div = Divider \/ Left(u) = 0,
         NEW v, v = UartEdge(u, b, p)
  PROVE  /\ v.tx <= FrameTime + 1
         /\ b.op # "DATA" => Left(v) = 0 \/ (Left(u) > 0 /\ Left(v) = Left(u) - 1)
         /\ b.op = "DATA" => Left(v) <= Most
<1>1. /\ u.tx \in Nat /\ u.tx_buf_full \in BOOLEAN /\ u.reg_baud_div \in Nat
      /\ FrameTime \in Nat /\ FrameTime >= 3 /\ Most = 2 * FrameTime + 1
  BY Times, UartAssumption DEF Uart
<1>2. /\ v.tx = nxt_tx_state(u)
      /\ v.tx_buf_full = nxt_tx_buf_full(u, b)
  BY EdgeFields
<1>3. /\ u.tx = 0 /\ u.tx_buf_full /\ "tx" \in u.ctrl => v.tx = Frame(u) + 1
      /\ u.tx = 0 /\ ~(u.tx_buf_full /\ "tx" \in u.ctrl) => v.tx = 0
      /\ u.tx = 1 /\ u.tx_buf_full => v.tx = Frame(u)
      /\ u.tx = 1 /\ ~u.tx_buf_full => v.tx = 0
      /\ u.tx \notin {0, 1} => v.tx = u.tx - 1
  BY <1>2 DEF nxt_tx_state
<1>4. /\ b.op = "DATA" => v.tx_buf_full
      /\ b.op # "DATA" /\ u.tx \in {0, 1} => ~v.tx_buf_full
      /\ b.op # "DATA" /\ u.tx \notin {0, 1} => (v.tx_buf_full <=> u.tx_buf_full)
  BY <1>1, <1>2 DEF nxt_tx_buf_full, write_enable00, tx_buf_clear
<1>5. u.tx_buf_full => Frame(u) = FrameTime BY <1>1 DEF Frame, FrameTime, Left
<1>6. \A w : /\ ~w.tx_buf_full => Left(w) = w.tx + 0
             /\ w.tx_buf_full /\ w.tx = 0 => Left(w) = w.tx + (FrameTime + 2)
             /\ w.tx_buf_full /\ w.tx # 0 => Left(w) = w.tx + (FrameTime + 0)
  BY Zenon DEF Left
<1> DEFINE f == FrameTime
           m == Most
<1> HIDE DEF f, m
<1>7. /\ f \in Nat /\ f >= 3 /\ m = 2 * f + 1 /\ u.tx <= f + 1
      /\ u.tx_buf_full => Frame(u) = f
  BY <1>1, <1>5 DEF f, m
<1>8. \A w : /\ ~w.tx_buf_full => Left(w) = w.tx + 0
             /\ w.tx_buf_full /\ w.tx = 0 => Left(w) = w.tx + (f + 2)
             /\ w.tx_buf_full /\ w.tx # 0 => Left(w) = w.tx + (f + 0)
  BY <1>6 DEF f
<1>9. /\ v.tx \in Nat /\ v.tx <= f + 1 
      /\ v.tx = f + 1 => u.tx = 0
      /\ u.tx > 1 => v.tx = u.tx - 1 /\ v.tx # 0
  BY <1>1, <1>3, <1>7
<1>10. b.op = "DATA" => Left(v) <= m BY <1>4, <1>7, <1>8, <1>9
<1>11. ASSUME b.op # "DATA" PROVE Left(v) = 0 \/ (Left(u) > 0 /\ Left(v) = Left(u) - 1)
  <2>1. CASE u.tx = 0 BY <1>1, <1>3, <1>4, <1>7, <1>8, <1>11, <2>1
  <2>2. CASE u.tx = 1 BY <1>1, <1>3, <1>4, <1>7, <1>8, <1>11, <2>2
  <2>3. CASE u.tx > 1 BY <1>1, <1>3, <1>4, <1>7, <1>8, <1>9, <1>11, <2>3
  <2> QED BY <1>1, <2>1, <2>2, <2>3
<1> QED BY <1>9, <1>10, <1>11 DEF f, m

LEMMA LeftIsNone ==
  ASSUME NEW u \in Uart PROVE Left(u) \in Nat /\ (Left(u) = 0 <=> u.tx = 0 /\ ~u.tx_buf_full)
BY Times DEF Left, Uart

\* An end that has nothing to send stays so unless the bus sends; where both have
\* nothing to send no interrupt is set.
LEMMA QuietEdge ==
  ASSUME NEW u \in Uart, NEW b, NEW p \in Uart, u.tx = 0, ~u.tx_buf_full, b.op # "DATA",
         NEW v, v = UartEdge(u, b, p)
  PROVE  v.tx = 0 /\ ~v.tx_buf_full /\ (p.tx = 0 => v.intr \subseteq u.intr)
<1>1. /\ v.tx = nxt_tx_state(u) /\ v.tx_buf_full = nxt_tx_buf_full(u, b)
      /\ v.intr = nxt_intr(u, b, p)
  BY EdgeFields
<1>2. p.tx = 0 => intr_stat_set(u, p) = {}
  BY DEF intr_stat_set, tx_buf_clear, rxbuf_sample, SampleStep
<1> QED BY <1>1, <1>2 DEF nxt_tx_state, nxt_tx_buf_full, tx_buf_clear, write_enable00, nxt_intr

\* What an edge makes of the two UARTs.
LEMMA EdgeAt ==
  ASSUME DevicesOK, NEW d, NEW b, Devices(d, b)
  PROVE  /\ uart["UART2"] \in Uart /\ uart["UART3"] \in Uart
         /\ uart'["UART2"] = UartEdge(uart["UART2"], At("UART2", d, b), uart["UART3"])
         /\ uart'["UART3"] = UartEdge(uart["UART3"], At("UART3", d, b), uart["UART2"])
<1>1. "UART2" \in Uarts /\ "UART3" \in Uarts BY DEF Uarts
<1> DEFINE E(i, a) ==
             /\ uart'["UART2"] = UartEdge(uart["UART2"], At("UART2", i, a), uart["UART3"])
             /\ uart'["UART3"] = UartEdge(uart["UART3"], At("UART3", i, a), uart["UART2"])
<1>2. ASSUME NEW i \in Uarts, NEW a, Access(i, a) PROVE E(i, a) BY <1>1, <1>2, Peers DEF Access, At
<1>3. ASSUME d \in Uarts PROVE E(d, b) BY <1>2, <1>3 DEF Devices
<1>4. ASSUME d \notin Uarts PROVE E(d, b)
  <2>1. Access("UART2", NoAccess) BY <1>4 DEF Devices, NoBus
  <2>2. \A j \in Uarts : At(j, d, b) = NoAccess /\ At(j, "UART2", NoAccess) = NoAccess
    BY <1>4 DEF At
  <2>3. E("UART2", NoAccess) BY <1>1, <1>2, <2>1
  <2> QED BY <1>1, <2>2, <2>3
<1>5. uart["UART2"] \in Uart /\ uart["UART3"] \in Uart BY <1>1 DEF DevicesOK, LinkTypeOK
<1> QED BY <1>3, <1>4, <1>5

\* What a step does to the line, by whether it executes an instruction.
Waits0 == NoDevice /\ (Rests \/ (\E h : Enters(h)) \/ Leaves) /\ printing' = printing
Prints0 == NoDevice /\ Rests /\ Current.op = "puts" /\ printing' = printing + 1
Performs(d, b) ==
  /\ Executes /\ Moves(d, b) /\ Current.op \notin {"return", "fail", "passed"}
  /\ Current.op = "bus" => d = Current.dev /\ b = Current.access
  /\ Current.op # "puts" => printing' = printing
  /\ Current.op = "puts" => printing = PutsTime /\ printing' = 0

LEMMA LinkKinds ==
  ASSUME ProgInv, image # "any", Processor
  PROVE  Waits0 \/ Prints0 \/ (\E d, b : Performs(d, b))
<1> DEFINE Done == \E d, b : Performs(d, b)
<1>1. CASE Idle \/ Sleep \/ Finish
  <2>1. NoDevice /\ printing' = printing BY <1>1 DEF Idle, Sleep, Finish
  <2>2. Rests BY <1>1, NoPort DEF Idle, Sleep, Finish, Rests, Triggered
  <2> QED BY <2>1, <2>2 DEF Waits0
<1>2. CASE TakeIrq BY <1>2, NoPort DEF TakeIrq, Enters, Triggered, Waits0
<1>3. CASE Return BY <1>3, NoPort DEF Return, Ready, Leaves, Triggered, Waits0
<1>4. CASE PutsOn
  <2>1. NoDevice /\ Current.op = "puts" /\ (printing' = printing + 1 \/ printing' = printing)
    BY <1>4 DEF PutsOn, Ready
  <2>2. Rests BY <1>4, NoPort DEF PutsOn, Rests, Triggered
  <2> QED BY <2>1, <2>2 DEF Waits0, Prints0
<1>5. CASE BusInstruction
  <2>1. Current.op = "bus" /\ printing' = printing BY <1>5 DEF BusInstruction, Ready
  <2>2. Moves(Current.dev, Current.access) BY <1>5, <2>1, Fetched DEF BusInstruction, Moves
  <2>3. Performs(Current.dev, Current.access) BY <1>5, <2>1, <2>2, BusKind DEF Performs
  <2> QED BY <2>3
<1>6. CASE SendInstruction \/ LoadInstruction \/ StoreInstruction \/ Branch \/ Assign \/ StringStep
           \/ EnableIRQ \/ Wake
  <2>1. /\ printing' = printing
        /\ Current.op \in {"send", "load CTRL", "save CTRL", "sample VALUE", "store CTRL", "restore CTRL",
                           "unless", "goto", "set", "inc", "count", "store", "forget received",
                           "enable", "disable", "clear pending", "wfe"}
    BY <1>6 DEF SendInstruction, LoadInstruction, StoreInstruction, Branch, Assign, StringStep, EnableIRQ,
       Wake, Ready
  <2>2. Executes BY <1>6, SendKind, LoadStoreKind, BranchKind, AssignKind, PlainKind, EnableKind
  <2>3. PICK d, b : Moves(d, b) BY ProcessorStep DEF Good, Moving
  <2>4. Performs(d, b) BY <2>1, <2>2, <2>3 DEF Performs
  <2> QED BY <2>4
<1>7. CASE PutsDone
  <2>1. printing = PutsTime /\ printing' = 0 /\ Current.op = "puts" BY <1>7 DEF PutsDone, Ready
  <2>2. Executes BY <1>7, PlainKind
  <2>3. PICK d, b : Moves(d, b) BY ProcessorStep DEF Good, Moving
  <2>4. Performs(d, b) BY <2>1, <2>2, <2>3 DEF Performs
  <2> QED BY <2>4
<1> QED BY <1>1, <1>2, <1>3, <1>4, <1>5, <1>6, <1>7 DEF Processor

\* Which access an instruction may put on the bus of a UART.
LEMMA Accessing ==
  ASSUME ProgInv, NEW d, NEW b, Performs(d, b), NEW R, NEW I, Current \in Actions(R, I) \cup Jumps(Conditions)
  PROVE  /\ d \in Uarts /\ b.op = "DATA" =>
              /\ d = "UART2" /\ "UART2" \in I
              /\ Current.op = "send" \/ (Current.op = "bus" /\ Current.dev = d /\ Current.access = b)
         /\ d \in Uarts /\ b.op \in UartSettings =>
              b.op \in R /\ d \in I /\ Current.op = "bus" /\ Current.dev = d /\ Current.access = b
<1> DEFINE i == Current
<1>1. /\ i \in Actions(R, I) \cup Jumps(Conditions)
      /\ d \in Uarts /\ b.op \in {"CTRL", "BAUDDIV", "DATA"} =>
           i.dev = d /\ ((i.op = "bus" /\ i.access = b) \/ (i.op = "send" /\ b.op = "DATA"))
  BY DEF Performs, Moves
<1> HIDE DEF i
<1>2. i.op = "send" => i.dev = "UART2" /\ "UART2" \in I BY <1>1, ActionFields
<1>3. i.op = "bus" => /\ i.dev \in Uarts => i.dev \in I
                      /\ i.dev \in Uarts /\ i.access.op \in UartSettings => i.access.op \in R
                      /\ i.dev \in Uarts /\ i.access.op = "DATA" => i.dev = "UART2"
  BY <1>1, BusFields
<1> QED BY <1>1, <1>2, <1>3 DEF i, UartSettings

-----------------------------------------------------------------------------
(* Where uart_driver_tests.c configures a UART, and how much may be left   *)
(* on the line at each place of its main().                                *)

\* The texts that configure a UART, and that end the test where an overrun is found.
InitAt(s, o, d) ==
  /\ \A j \in 1 .. 3 : s[o + j].op = "bus" /\ s[o + j].dev = d
  /\ s[o + 1].access.op = "CTRL" /\ s[o + 2].access = WriteBaudDiv(Divider) /\ s[o + 3].access.op = "CTRL"

LEMMA InitText ==
  ASSUME NEW d, NEW e
  PROVE  LET t == uart_init(d, e) IN
         IsText(t) /\ Len(t) = 3 /\ \A s : \A o \in Int : Holding(s, o, t) => InitAt(s, o, d)
<1> DEFINE i1 == [op |-> "bus", dev |-> d, access |-> WriteCtrl({})]
           i2 == [op |-> "bus", dev |-> d, access |-> WriteBaudDiv(Divider)]
           i3 == [op |-> "bus", dev |-> d, access |-> WriteCtrl(e)]
           a == <<i1>>
           b == <<i2>>
           c == <<i3>>
<1>1. (a \o b) \o c = uart_init(d, e) BY DEF uart_init, Bus
<1>2. /\ i1.op = "bus" /\ i1.dev = d /\ i1.access.op = "CTRL"
      /\ i2.op = "bus" /\ i2.dev = d /\ i2.access = WriteBaudDiv(Divider)
      /\ i3.op = "bus" /\ i3.dev = d /\ i3.access.op = "CTRL"
  BY DEF WriteCtrl
<1>3. One(a, i1) /\ One(b, i2) /\ One(c, i3) BY OneInstruction DEF One
<1>3a. IsText(a) /\ Len(a) + 1 = 2 BY <1>3 DEF One
<1> HIDE DEF i1, i2, i3, a, b, c
<1>4. More(a \o b, a, 2, i2) BY <1>3, <1>3a, OneMore
<1>4a. IsText(a \o b) /\ Len(a \o b) + 1 = 3 BY <1>4 DEF More
<1>5. More((a \o b) \o c, a \o b, 3, i3) BY <1>3, <1>4a, OneMore
<1>6. ASSUME NEW s, NEW o \in Int, Holding(s, o, (a \o b) \o c) PROVE InitAt(s, o, d)
  <2>1. s[o + 1] = i1 /\ s[o + 2] = i2 /\ s[o + 3] = i3 BY <1>3, <1>4, <1>5, <1>6 DEF More, One
  <2>2. \A j \in 1 .. 3 : j = 1 \/ j = 2 \/ j = 3 OBVIOUS
  <2> QED BY <1>2, <2>1, <2>2 DEF InitAt
<1> QED BY <1>1, <1>5, <1>6 DEF More

\* The two calls that configure both UARTs.
BothAt(s, o) == InitAt(s, o, "UART2") /\ InitAt(s, o + 3, "UART3")

\* The instructions of uart_driver_tests.c outside of those.
Ordinary == Actions({}, UartIrqs)

\* Where the line has run dry after the overrun test, and after the overrun interrupts.
DryAt   == 10 + Len(UartTests!Uart_Buffull) + Len(UartTests!Stage3a) + Len(Stage3Rest)
AgainAt == DryAt + 9 + Len(Stage4Loop)

LEMMA UartCodes ==
  LET Is(s) == Code(s, Ordinary, Conditions) IN
  /\ Is(UartTests!Uart_Buffull) /\ Is(UartTests!Stage3a) /\ Is(Stage3Rest) /\ Is(Stage4Loop)
  /\ Is(UartTests!Stage4bLoop) /\ Is(UartTests!Puts(31)) /\ Is(UartTests!CheckString)
  /\ Is(UartTests!DisableAll) /\ Is(<<[op |-> "passed"]>>)
<1>1. [op |-> "passed"] \in Ordinary BY DEF Ordinary, Actions, Plain
<1>2. IsCode(<<[op |-> "passed"]>>, {}, UartIrqs) BY <1>1, OneAction DEF Ordinary
<1>3. IsCode(UartTests!Puts(31), {}, UartIrqs) BY SameUart, InstrForms
<1> QED BY <1>2, <1>3, UartStages, UartPieces DEF IsCode, Ordinary

\* Uart_Init.
LEMMA UartInitText ==
  LET t == UartTests!Uart_Init IN
  /\ IsText(t) /\ Len(t) = 10
  /\ \A s : \A o \in Int : Holding(s, o, t) =>
       /\ InitAt(s, o, "UART2") /\ FailAt(s, o + 3) /\ InitAt(s, o + 5, "UART3") /\ FailAt(s, o + 8)
<1> DEFINE a == uart_init("UART2", Enables)
           b == If(Cond("UART2", "overrun"), Fail)
           c == uart_init("UART3", Enables)
           d == If(Cond("UART3", "overrun"), Fail)
           t == UartTests!Uart_Init
<1>1. t = a \o b \o c \o d BY SameUart DEF UartTests!Uart_Init
<1>2. /\ IsText(a) /\ Len(a) = 3 /\ \A s : \A o \in Int : Holding(s, o, a) => InitAt(s, o, "UART2")
      /\ IsText(c) /\ Len(c) = 3 /\ \A s : \A o \in Int : Holding(s, o, c) => InitAt(s, o, "UART3")
  BY InitText
<1>3. /\ IsText(b) /\ Len(b) = 2 /\ \A s : \A o \in Int : Holding(s, o, b) => FailAt(s, o)
      /\ IsText(d) /\ Len(d) = 2 /\ \A s : \A o \in Int : Holding(s, o, d) => FailAt(s, o)
  BY FailText
<1> HIDE DEF a, b, c, d, t
<1>4. Parts4(t, a, b, c, d) BY <1>1, <1>2, <1>3, FourParts
<1>5. ASSUME NEW s, NEW o \in Int, Holding(s, o, t)
      PROVE  InitAt(s, o, "UART2") /\ FailAt(s, o + 3) /\ InitAt(s, o + 5, "UART3") /\ FailAt(s, o + 8)
  <2>1. o + Len(a) = o + 3 /\ o + Len(a) + Len(b) = o + 5 /\ o + Len(a) + Len(b) + Len(c) = o + 8
    BY <1>2, <1>3
  <2>2. Holding(s, o, a) /\ Holding(s, o + 3, b) /\ Holding(s, o + 5, c) /\ Holding(s, o + 8, d)
    BY <1>4, <1>5, <2>1 DEF Parts4
  <2> QED BY <1>2, <1>3, <2>2
<1>6. IsText(t) /\ Len(t) = 10 BY <1>2, <1>3, <1>4 DEF Parts4
<1> QED BY <1>5, <1>6 DEF t

\* The test of the overflow interrupts.
LEMMA Stage4aText ==
  LET t == UartTests!Stage4a
      l == Len(Stage4Loop) IN
  /\ IsText(t) /\ Len(t) = 12 + l /\ l \in Nat
  /\ \A s : \A o \in Int : Holding(s, o, t) =>
       /\ s[o + 1] = [op |-> "puts", chars |-> 38] /\ BothAt(s, o + 1) /\ s[o + 8].op = "enable"
       /\ Region(s, o + 8, o + 8 + l, Ordinary, Conditions)
       /\ s[o + l + 9].op = "unless" /\ s[o + l + 9].by = 3 /\ s[o + l + 10].op = "fail"
       /\ s[o + l + 12] = [op |-> "puts", chars |-> 23]
<1> DEFINE cc == Var("rxorirq_counter", "below 3")
           ip == [op |-> "puts", chars |-> 38]
           ie == [op |-> "enable", irq |-> "UARTOVF"]
           iu == UnlessI(cc, 3)
           if == [op |-> "fail"]
           ig == GotoI(2)
           iq == [op |-> "puts", chars |-> 23]
           p == <<ip>>
           a == uart_init("UART2", Enables \ {"txirq"})
           b == uart_init("UART3", Enables \ {"rxirq"})
           e == <<ie>>
           w == Stage4Loop
           v == <<iu>> \o <<if>> \o <<ig>> \o <<iq>>
           h == p \o a \o b \o e
           t == UartTests!Stage4a
<1>1. t = h \o w \o v
  <2>1. UartTests!IfElse(UartTests!Var("rxorirq_counter", "below 3"), UartTests!Fail, UartTests!Puts(23)) = v
    <3>1. Fail = <<if>> /\ Puts(23) = <<iq>> BY DEF Fail, Do, Puts
    <3>2. Len(<<if>>) + 2 = 3 /\ Len(<<iq>>) + 1 = 2 OBVIOUS
    <3> QED BY <3>1, <3>2, SameUart DEF IfElse, Unless, Goto, UnlessI, GotoI
  <2>2. /\ UartTests!Puts(38) = p /\ UartTests!Enable("UARTOVF") = e
        /\ UartTests!uart_init("UART2", UartTests!Enables \ {"txirq"}) = a
        /\ UartTests!uart_init("UART3", UartTests!Enables \ {"rxirq"}) = b
    BY SameUart DEF Puts, Enable
  <2> HIDE DEF p, a, b, e, v
  <2> QED BY <2>1, <2>2 DEF UartTests!Stage4a, Stage4Loop
<1>2. /\ IsText(a) /\ Len(a) = 3 /\ \A s : \A o \in Int : Holding(s, o, a) => InitAt(s, o, "UART2")
      /\ IsText(b) /\ Len(b) = 3 /\ \A s : \A o \in Int : Holding(s, o, b) => InitAt(s, o, "UART3")
  BY InitText
<1>3. One(p, ip) /\ One(e, ie) BY OneInstruction DEF One
<1>4. Four(v, iu, if, ig, iq) BY FourInstructions
<1>5. Code(w, Ordinary, Conditions) BY UartCodes
<1>6. iu.op = "unless" /\ iu.by = 3 /\ if.op = "fail" /\ ie.op = "enable" BY DEF UnlessI
<1> HIDE DEF ip, ie, iu, if, ig, iq, p, a, b, e, w, v, t
<1>7. /\ IsText(p) /\ Len(p) = 1 /\ IsText(e) /\ Len(e) = 1 /\ IsText(v) /\ Len(v) = 4
      /\ IsText(w) /\ Len(w) \in Nat
  BY <1>3, <1>4, <1>5, CodeIsText DEF One, Four
<1>8. Parts4(h, p, a, b, e) BY <1>2, <1>7, FourParts
<1> HIDE DEF h
<1>9. IsText(h) /\ Len(h) = 8 BY <1>2, <1>7, <1>8 DEF Parts4
<1> DEFINE g == h \o w
<1>10. /\ IsText(g) /\ Len(g) = Len(h) + Len(w)
       /\ \A s : \A o \in Int : Holding(s, o, g) => Holding(s, o, h) /\ Holding(s, o + Len(h), w)
  BY <1>7, <1>9, TextParts
<1> HIDE DEF g
<1>11. /\ IsText(t) /\ Len(t) = Len(g) + Len(v)
       /\ \A s : \A o \in Int : Holding(s, o, t) => Holding(s, o, g) /\ Holding(s, o + Len(g), v)
  BY <1>1, <1>7, <1>10, TextParts DEF g
<1>12. ASSUME NEW s, NEW o \in Int, Holding(s, o, t)
       PROVE  /\ s[o + 1] = ip /\ BothAt(s, o + 1) /\ s[o + 8] = ie
              /\ Region(s, o + 8, o + 8 + Len(w), Ordinary, Conditions)
              /\ s[o + Len(w) + 9] = iu /\ s[o + Len(w) + 10] = if /\ s[o + Len(w) + 12] = iq
  <2>1. Holding(s, o, h) /\ Holding(s, o + 8, w) /\ Holding(s, o + 8 + Len(w), v)
    BY <1>9, <1>7, <1>10, <1>11, <1>12
  <2>2. Holding(s, o, p) /\ Holding(s, o + 1, a) /\ Holding(s, o + 4, b) /\ Holding(s, o + 7, e)
    BY <1>7, <1>2, <1>8, <2>1 DEF Parts4
  <2>3. s[o + 1] = ip /\ s[(o + 7) + 1] = ie BY <1>3, <2>2 DEF One
  <2>4. InitAt(s, o + 1, "UART2") /\ InitAt(s, o + 4, "UART3") BY <1>2, <2>2
  <2>5. Region(s, o + 8, o + 8 + Len(w), Ordinary, Conditions) BY <1>5, <2>1, CodeRegion
  <2>6. s[(o + 8 + Len(w)) + 1] = iu /\ s[(o + 8 + Len(w)) + 2] = if /\ s[(o + 8 + Len(w)) + 4] = iq
    BY <1>4, <1>7, <2>1 DEF Four
  <2>7. /\ (o + 7) + 1 = o + 8 /\ (o + 1) + 3 = o + 4 /\ (o + 8 + Len(w)) + 1 = o + Len(w) + 9
        /\ (o + 8 + Len(w)) + 2 = o + Len(w) + 10 /\ (o + 8 + Len(w)) + 4 = o + Len(w) + 12
    BY <1>7
  <2> QED BY <2>3, <2>4, <2>5, <2>6, <2>7 DEF BothAt
<1>13. Len(t) = 12 + Len(w) BY <1>7, <1>9, <1>10, <1>11
<1> QED BY <1>6, <1>7, <1>11, <1>12, <1>13 DEF t, w, ip, iq

\* The test of the interrupts of both UARTs.
LEMMA Stage4bText ==
  LET t == UartTests!Stage4b IN
  /\ IsText(t) /\ Len(t) \in Nat /\ Len(t) >= 13
  /\ \A s : \A o \in Int : Holding(s, o, t) =>
       /\ \A j \in 1 .. 4 : s[o + j].op \in {"set", "forget received"}
       /\ s[o + 5] = [op |-> "puts", chars |-> 23] /\ BothAt(s, o + 5)
       /\ s[o + 12].op = "enable" /\ s[o + 13].op = "enable"
       /\ Region(s, o + 13, o + Len(t), Ordinary, Conditions)
<1> DEFINE i1 == [op |-> "set", var |-> "i", to |-> 0]
           i2 == [op |-> "set", var |-> "k", to |-> 0]
           i3 == [op |-> "forget received"]
           i4 == [op |-> "set", var |-> "data_received", to |-> 1]
           i5 == [op |-> "puts", chars |-> 23]
           e2 == [op |-> "enable", irq |-> "UART2"]
           e3 == [op |-> "enable", irq |-> "UART3"]
           f == <<i1>> \o <<i2>> \o <<i3>> \o <<i4>>
           p == <<i5>>
           a == uart_init("UART2", Enables)
           b == uart_init("UART3", Enables)
           c == <<e2>>
           d == <<e3>>
           u == a \o b \o c \o d
           w == UartTests!Stage4bLoop
           q == UartTests!Puts(31)
           x == UartTests!CheckString
           z == UartTests!DisableAll
           h == f \o p \o u
           t == UartTests!Stage4b
<1>1. t = h \o w \o q \o x \o z
  <2>1. /\ UartTests!Set("i", 0) = <<i1>> /\ UartTests!Set("k", 0) = <<i2>>
        /\ UartTests!Do("forget received") = <<i3>> /\ UartTests!Set("data_received", 1) = <<i4>>
        /\ UartTests!Puts(23) = p
    BY SameUart DEF Set, Do, Puts
  <2>2. UartTests!Stage4bSetUp = u BY SameUart DEF UartTests!Stage4bSetUp, Enable
  <2> HIDE DEF i1, i2, i3, i4, p, u, w, q, x, z
  <2> QED BY <2>1, <2>2 DEF UartTests!Stage4b, w, q, x, z
<1>2. /\ IsText(a) /\ Len(a) = 3 /\ \A s : \A o \in Int : Holding(s, o, a) => InitAt(s, o, "UART2")
      /\ IsText(b) /\ Len(b) = 3 /\ \A s : \A o \in Int : Holding(s, o, b) => InitAt(s, o, "UART3")
  BY InitText
<1>3. One(p, i5) /\ One(c, e2) /\ One(d, e3) BY OneInstruction DEF One
<1>4. Four(f, i1, i2, i3, i4) BY FourInstructions
<1>5. /\ Code(w, Ordinary, Conditions) /\ Code(q, Ordinary, Conditions)
      /\ Code(x, Ordinary, Conditions) /\ Code(z, Ordinary, Conditions)
  BY UartCodes
<1>6. /\ i1.op = "set" /\ i2.op = "set" /\ i3.op = "forget received" /\ i4.op = "set"
      /\ e2.op = "enable" /\ e3.op = "enable"
  OBVIOUS
<1> HIDE DEF i1, i2, i3, i4, i5, e2, e3, f, p, a, b, c, d, w, q, x, z, t
<1>7. /\ IsText(p) /\ Len(p) = 1 /\ IsText(c) /\ Len(c) = 1 /\ IsText(d) /\ Len(d) = 1
      /\ IsText(f) /\ Len(f) = 4
  BY <1>3, <1>4 DEF One, Four
<1>8. Parts4(u, a, b, c, d) BY <1>2, <1>7, FourParts
<1> HIDE DEF u
<1>9. IsText(u) /\ Len(u) = 8 BY <1>2, <1>7, <1>8 DEF Parts4
<1> DEFINE g == f \o p
<1>10. /\ IsText(g) /\ Len(g) = 5
       /\ \A s : \A o \in Int : Holding(s, o, g) => Holding(s, o, f) /\ Holding(s, o + 4, p)
  <2>1. /\ IsText(g) /\ Len(g) = Len(f) + Len(p)
        /\ \A s : \A o \in Int : Holding(s, o, g) => Holding(s, o, f) /\ Holding(s, o + Len(f), p)
    BY <1>7, TextParts
  <2> QED BY <1>7, <2>1
<1>11. /\ IsText(h) /\ Len(h) = 13
       /\ \A s : \A o \in Int : Holding(s, o, h) => Holding(s, o, g) /\ Holding(s, o + 5, u)
  <2>1. h = g \o u BY DEF g
  <2> HIDE DEF g, h
  <2>2. /\ IsText(h) /\ Len(h) = Len(g) + Len(u)
        /\ \A s : \A o \in Int : Holding(s, o, h) => Holding(s, o, g) /\ Holding(s, o + Len(g), u)
    BY <1>9, <1>10, <2>1, TextParts
  <2> QED BY <1>9, <1>10, <2>2
<1> HIDE DEF g, h
<1>12. IsText(t) /\ Len(t) \in Nat /\ Len(t) >= Len(h) BY <1>1, <1>5, <1>11, LastFour
<1>13. \A s : \A o \in Int : Holding(s, o, t) => Holding(s, o, h) /\ Region(s, o + Len(h), o + Len(t), Ordinary, Conditions)
  BY <1>1, <1>5, <1>11, LastFour
<1>14. ASSUME NEW s, NEW o \in Int, Holding(s, o, t)
       PROVE  /\ s[o + 1] = i1 /\ s[o + 2] = i2 /\ s[o + 3] = i3 /\ s[o + 4] = i4
              /\ s[o + 5] = i5 /\ BothAt(s, o + 5) /\ s[o + 12] = e2 /\ s[o + 13] = e3
              /\ Region(s, o + 13, o + Len(t), Ordinary, Conditions)
  <2>1. Holding(s, o, h) /\ Region(s, o + Len(h), o + Len(t), Ordinary, Conditions) BY <1>13, <1>14
  <2>2. Holding(s, o, f) /\ Holding(s, o + 4, p) /\ Holding(s, o + 5, u) BY <1>10, <1>11, <2>1
  <2>3. Holding(s, o + 5, a) /\ Holding(s, o + 8, b) /\ Holding(s, o + 11, c) /\ Holding(s, o + 12, d)
    BY <1>7, <1>2, <1>8, <2>2 DEF Parts4
  <2>4. InitAt(s, o + 5, "UART2") /\ InitAt(s, o + 8, "UART3") BY <1>2, <2>3
  <2>5. s[(o + 4) + 1] = i5 /\ s[(o + 11) + 1] = e2 /\ s[(o + 12) + 1] = e3
    BY <1>3, <2>2, <2>3 DEF One
  <2>6. (o + 4) + 1 = o + 5 /\ (o + 11) + 1 = o + 12 /\ (o + 12) + 1 = o + 13 /\ (o + 5) + 3 = o + 8
    OBVIOUS
  <2> QED BY <1>4, <1>11, <2>1, <2>2, <2>4, <2>5, <2>6 DEF Four, BothAt
<1>15. IsText(t) /\ Len(t) \in Nat /\ Len(t) >= 13 BY <1>11, <1>12
<1>16. ASSUME NEW s, NEW o \in Int, Holding(s, o, t)
       PROVE  \A j \in 1 .. 4 : s[o + j].op \in {"set", "forget received"}
  <2>1. \A j \in 1 .. 4 : j = 1 \/ j = 2 \/ j = 3 \/ j = 4 OBVIOUS
  <2>2. /\ s[o + 1].op = "set" /\ s[o + 2].op = "set" /\ s[o + 3].op = "forget received"
        /\ s[o + 4].op = "set"
    BY <1>6, <1>14, <1>16
  <2> QED BY <2>1, <2>2
<1> QED BY <1>6, <1>14, <1>15, <1>16 DEF t, i5

\* main().
LEMMA UartPlaces ==
  LET m == UartTests!Main IN
  /\ DryAt \in Nat /\ DryAt >= 10 /\ AgainAt \in Nat /\ AgainAt >= DryAt + 9
  /\ Len(m) \in Nat /\ Len(m) >= AgainAt + 17
  /\ InitAt(m, 0, "UART2") /\ FailAt(m, 3) /\ InitAt(m, 5, "UART3") /\ FailAt(m, 8)
  /\ Region(m, 10, DryAt, Ordinary, Conditions)
  /\ m[DryAt + 1] = [op |-> "puts", chars |-> 20] /\ m[DryAt + 2] = [op |-> "puts", chars |-> 38]
  /\ BothAt(m, DryAt + 2) /\ m[DryAt + 9].op = "enable"
  /\ Region(m, DryAt + 9, AgainAt, Ordinary, Conditions)
  /\ m[AgainAt + 1].op = "unless" /\ m[AgainAt + 1].by = 3 /\ m[AgainAt + 2].op = "fail"
  /\ m[AgainAt + 4] = [op |-> "puts", chars |-> 23]
  /\ \A j \in 5 .. 8 : m[AgainAt + j].op \in {"set", "forget received"}
  /\ m[AgainAt + 9] = [op |-> "puts", chars |-> 23]
  /\ BothAt(m, AgainAt + 9) /\ m[AgainAt + 16].op = "enable" /\ m[AgainAt + 17].op = "enable"
  /\ Region(m, AgainAt + 17, Len(m), Ordinary, Conditions)
<1> DEFINE a == UartTests!Uart_Init
           b == UartTests!Uart_Buffull
           c == UartTests!Stage3a
           r == Stage3Rest
           p == UartTests!Puts(20)
           i20 == [op |-> "puts", chars |-> 20]
           sb == UartTests!Stage3b
           or == UartTests!Uart_OR
           d == UartTests!Stage4a
           e == UartTests!Stage4b
           iq == UartTests!Uart_IRQ
           z == <<[op |-> "passed"]>>
           l == Len(Stage4Loop)
           m == UartTests!Main
<1>1. m = a \o b \o or \o iq \o z BY DEF UartTests!Main, UartTests!Do
<1>2. or = c \o sb /\ sb = r \o p /\ iq = d \o e
  BY DEF UartTests!Uart_OR, UartTests!Stage3b, Stage3Rest, UartTests!Uart_IRQ
<1>3. One(p, i20) BY OneInstruction, SameUart DEF One, Puts
<1>4. /\ Code(b, Ordinary, Conditions) /\ Code(c, Ordinary, Conditions) /\ Code(r, Ordinary, Conditions)
      /\ Code(z, Ordinary, Conditions)
  BY UartCodes
<1>5. /\ IsText(a) /\ Len(a) = 10
      /\ \A s : \A o \in Int : Holding(s, o, a) =>
           InitAt(s, o, "UART2") /\ FailAt(s, o + 3) /\ InitAt(s, o + 5, "UART3") /\ FailAt(s, o + 8)
  BY UartInitText
<1>6. /\ IsText(d) /\ Len(d) = 12 + l /\ l \in Nat
      /\ \A s : \A o \in Int : Holding(s, o, d) =>
           /\ s[o + 1] = [op |-> "puts", chars |-> 38] /\ BothAt(s, o + 1) /\ s[o + 8].op = "enable"
           /\ Region(s, o + 8, o + 8 + l, Ordinary, Conditions)
           /\ s[o + l + 9].op = "unless" /\ s[o + l + 9].by = 3 /\ s[o + l + 10].op = "fail"
           /\ s[o + l + 12] = [op |-> "puts", chars |-> 23]
  BY Stage4aText
<1>7. /\ IsText(e) /\ Len(e) \in Nat /\ Len(e) >= 13
      /\ \A s : \A o \in Int : Holding(s, o, e) =>
           /\ \A j \in 1 .. 4 : s[o + j].op \in {"set", "forget received"}
           /\ s[o + 5] = [op |-> "puts", chars |-> 23] /\ BothAt(s, o + 5)
           /\ s[o + 12].op = "enable" /\ s[o + 13].op = "enable"
           /\ Region(s, o + 13, o + Len(e), Ordinary, Conditions)
  BY Stage4bText
<1>8. DryAt = 10 + Len(b) + Len(c) + Len(r) /\ AgainAt = DryAt + 9 + l BY DEF DryAt, AgainAt
<1> HIDE DEF a, b, c, r, p, i20, sb, or, d, e, iq, z, l, m
<1>9. /\ IsText(b) /\ Len(b) \in Nat /\ IsText(c) /\ Len(c) \in Nat /\ IsText(r) /\ Len(r) \in Nat
      /\ IsText(z) /\ Len(z) \in Nat /\ IsText(p) /\ Len(p) = 1
  BY <1>3, <1>4, CodeIsText DEF One
<1>25. IsText(d) /\ Len(d) = 12 + l /\ l \in Nat /\ Len(d) \in Nat BY <1>6
<1>26. IsText(e) /\ Len(e) \in Nat /\ Len(e) >= 13 BY <1>7
<1>10. /\ IsText(sb) /\ Len(sb) = Len(r) + 1
       /\ \A s : \A o \in Int : Holding(s, o, sb) => Holding(s, o, r) /\ Holding(s, o + Len(r), p)
  BY TextParts, <1>2, <1>9
<1>11. /\ IsText(or) /\ Len(or) = Len(c) + Len(sb)
       /\ \A s : \A o \in Int : Holding(s, o, or) => Holding(s, o, c) /\ Holding(s, o + Len(c), sb)
  BY <1>2, <1>9, <1>10, TextParts
<1>12. /\ IsText(iq) /\ Len(iq) = Len(d) + Len(e)
       /\ \A s : \A o \in Int : Holding(s, o, iq) => Holding(s, o, d) /\ Holding(s, o + Len(d), e)
  BY <1>2, <1>25, <1>26, TextParts
<1>13. Parts5(m, a, b, or, iq, z) BY <1>1, <1>5, <1>9, <1>11, <1>12, FiveParts
<1>14. /\ Holding(m, 0, a) /\ Holding(m, 10, b) /\ Holding(m, 10 + Len(b), or)
       /\ Holding(m, DryAt + 1, iq) /\ Holding(m, DryAt + 1 + Len(iq), z)
       /\ Len(m) = DryAt + 1 + Len(iq) + Len(z)
  <2>1. Holding(m, 0, m) BY DEF Holding
  <2>2. /\ 0 + Len(a) = 10 /\ 0 + Len(a) + Len(b) = 10 + Len(b)
        /\ 0 + Len(a) + Len(b) + Len(or) = DryAt + 1
    BY <1>5, <1>8, <1>9, <1>10, <1>11
  <2>3. 0 + Len(a) + Len(b) + Len(or) + Len(iq) = DryAt + 1 + Len(iq) BY <2>2
  <2>4. Len(m) = DryAt + 1 + Len(iq) + Len(z) BY <1>13, <1>5, <1>8, <1>9, <1>10, <1>11 DEF Parts5
  <2> QED BY <1>13, <2>1, <2>2, <2>3, <2>4 DEF Parts5
<1>15. /\ Holding(m, 10 + Len(b), c) /\ Holding(m, 10 + Len(b) + Len(c), r) /\ Holding(m, DryAt, p)
  <2>1. Holding(m, 10 + Len(b), c) /\ Holding(m, (10 + Len(b)) + Len(c), sb) BY <1>9, <1>11, <1>14
  <2>2. Holding(m, (10 + Len(b)) + Len(c), r) /\ Holding(m, (10 + Len(b)) + Len(c) + Len(r), p)
    BY <1>9, <1>10, <2>1
  <2> QED BY <1>8, <2>1, <2>2
<1>16. Holding(m, DryAt + 1, d) /\ Holding(m, AgainAt + 4, e)
  <2>1. Holding(m, DryAt + 1, d) /\ Holding(m, (DryAt + 1) + Len(d), e) BY <1>8, <1>9, <1>12, <1>14
  <2>2. (DryAt + 1) + Len(d) = AgainAt + 4 BY <1>25, <1>8, <1>9
  <2> QED BY <2>1, <2>2
<1>17. DryAt \in Nat /\ DryAt >= 10 /\ AgainAt \in Nat /\ AgainAt >= DryAt + 9 BY <1>25, <1>8, <1>9
<1>18. Len(m) \in Nat /\ Len(m) >= AgainAt + 17 BY <1>14, <1>12, <1>25, <1>26, <1>8, <1>9, <1>17
<1>19. Region(m, 10, DryAt, Ordinary, Conditions)
  <2>1. /\ Region(m, 10, 10 + Len(b), Ordinary, Conditions)
        /\ Region(m, 10 + Len(b), (10 + Len(b)) + Len(c), Ordinary, Conditions)
        /\ Region(m, 10 + Len(b) + Len(c), (10 + Len(b) + Len(c)) + Len(r), Ordinary, Conditions)
    BY <1>4, <1>9, <1>14, <1>15, CodeRegion
  <2>2. Region(m, 10, 10 + Len(b) + Len(c), Ordinary, Conditions) BY <1>9, <2>1, Regions
  <2>3. Region(m, 10, 10 + Len(b) + Len(c) + Len(r), Ordinary, Conditions)
    BY <1>9, <2>1, <2>2, Regions
  <2> QED BY <1>8, <2>3
<1>20. m[DryAt + 1] = i20 BY <1>3, <1>15 DEF One
<1>21. /\ m[DryAt + 2] = [op |-> "puts", chars |-> 38] /\ BothAt(m, DryAt + 2) /\ m[DryAt + 9].op = "enable"
       /\ Region(m, DryAt + 9, AgainAt, Ordinary, Conditions)
       /\ m[AgainAt + 1].op = "unless" /\ m[AgainAt + 1].by = 3 /\ m[AgainAt + 2].op = "fail"
       /\ m[AgainAt + 4] = [op |-> "puts", chars |-> 23]
  <2> DEFINE o == DryAt + 1
  <2>1. /\ m[o + 1] = [op |-> "puts", chars |-> 38] /\ BothAt(m, o + 1) /\ m[o + 8].op = "enable"
        /\ Region(m, o + 8, o + 8 + l, Ordinary, Conditions)
        /\ m[o + l + 9].op = "unless" /\ m[o + l + 9].by = 3 /\ m[o + l + 10].op = "fail"
        /\ m[o + l + 12] = [op |-> "puts", chars |-> 23]
    BY <1>6, <1>16, <1>17
  <2>2. /\ o + 1 = DryAt + 2 /\ o + 8 = DryAt + 9 /\ o + 8 + l = AgainAt /\ o + l + 9 = AgainAt + 1
        /\ o + l + 10 = AgainAt + 2 /\ o + l + 12 = AgainAt + 4
    BY <1>25, <1>8, <1>17
  <2> HIDE DEF o
  <2> QED BY <2>1, <2>2
<1>22. /\ \A j \in 5 .. 8 : m[AgainAt + j].op \in {"set", "forget received"}
       /\ m[AgainAt + 9] = [op |-> "puts", chars |-> 23] /\ BothAt(m, AgainAt + 9)
       /\ m[AgainAt + 16].op = "enable" /\ m[AgainAt + 17].op = "enable"
       /\ Region(m, AgainAt + 17, AgainAt + 4 + Len(e), Ordinary, Conditions)
  <2> DEFINE o == AgainAt + 4
  <2>1. /\ \A j \in 1 .. 4 : m[o + j].op \in {"set", "forget received"}
        /\ m[o + 5] = [op |-> "puts", chars |-> 23] /\ BothAt(m, o + 5)
        /\ m[o + 12].op = "enable" /\ m[o + 13].op = "enable"
        /\ Region(m, o + 13, o + Len(e), Ordinary, Conditions)
    <3>1. Holding(m, o, e) /\ o \in Int BY <1>16, <1>17
    <3> HIDE DEF o
    <3> QED BY <1>7, <3>1
  <2>2. /\ o + 5 = AgainAt + 9 /\ o + 12 = AgainAt + 16 /\ o + 13 = AgainAt + 17
        /\ \A j \in 5 .. 8 : j - 4 \in 1 .. 4 /\ o + (j - 4) = AgainAt + j
    BY <1>17
  <2>3. ASSUME NEW j \in 5 .. 8 PROVE m[AgainAt + j].op \in {"set", "forget received"} BY <2>2, <2>1
  <2> QED BY <2>1, <2>2, <2>3
<1>23. Region(m, AgainAt + 17, Len(m), Ordinary, Conditions)
  <2> DEFINE g == DryAt + 1 + Len(iq)
             k == AgainAt + 17
             n == Len(m)
  <2>1. Len(iq) = Len(d) + Len(e) /\ n = g + Len(z) /\ Holding(m, g, z) BY <1>12, <1>14
  <2>2. /\ g \in Int /\ k \in Int /\ n \in Int /\ k <= g /\ g <= n
        /\ AgainAt + 4 + Len(e) = g
    BY <1>25, <1>26, <1>8, <1>9, <1>17, <1>18, <2>1
  <2>3. Region(m, k, g, Ordinary, Conditions) BY <1>22, <2>2
  <2> HIDE DEF g, k, n
  <2>4. Region(m, g, n, Ordinary, Conditions) BY <1>4, <2>1, <2>2, CodeRegion
  <2>5. Region(m, k, n, Ordinary, Conditions) BY <2>2, <2>3, <2>4, Regions
  <2> QED BY <2>5 DEF k, n
<1>24. InitAt(m, 0, "UART2") /\ FailAt(m, 3) /\ InitAt(m, 5, "UART3") /\ FailAt(m, 8) BY <1>14, <1>5
<1> QED BY <1>17, <1>18, <1>19, <1>20, <1>21, <1>22, <1>23, <1>24 DEF m, i20

\* How much of a sent byte may be left at a place of main(): nothing where a UART is
\* configured, and less than a frame once a print has ended.
Dry(p)    == p <= 10 \/ (DryAt + 3 <= p /\ p <= DryAt + 8) \/ (AgainAt + 10 <= p /\ p <= AgainAt + 15)
Drains(p) == p = DryAt + 2 \/ (AgainAt + 5 <= p /\ p <= AgainAt + 9)
Bound(p)  == IF Dry(p) THEN 0 ELSE IF Drains(p) THEN FrameTime ELSE Most

\* An instruction that configures a UART, with the divider of all programs; an
\* instruction that sends.
Settles(i) == /\ i.op = "bus" /\ i.access.op \in UartSettings
              /\ i.access.op = "BAUDDIV" => i.access = WriteBaudDiv(Divider)
Transmits(i)   == i.op = "send" \/ (i.op = "bus" /\ i.dev \in Uarts /\ i.access.op = "DATA")

\* What the instruction i at place k does that is followed by the one at place q.
Fits(k, i, q) ==
  /\ q \in Int /\ q # AgainAt + 3
  /\ k <= 2 /\ q > 2 => k = 2
  /\ k <= 7 /\ q > 7 => k = 7
  /\ Dry(k) => Settles(i) \/ i.op = "unless"
  /\ ~Dry(k) => ~(i.op = "bus" /\ i.dev \in Uarts /\ i.access.op \in UartSettings)
  /\ Transmits(i) => Bound(q) = Most
  /\ \/ Bound(k) <= Bound(q)
     \/ i.op = "puts" /\ i.chars >= 20 /\ Bound(k) <= Bound(q) + FrameTime + 1

LEMMA InitPlace ==
  ASSUME NEW s, NEW o \in Int, NEW d, InitAt(s, o, d), NEW k \in o + 1 .. o + 3
  PROVE  Settles(s[k]) /\ s[k].op = "bus"
<1>1. k = o + 1 \/ k = o + 2 \/ k = o + 3 OBVIOUS
<1>2. s[o + 1].op = "bus" /\ s[o + 2].op = "bus" /\ s[o + 3].op = "bus" BY DEF InitAt
<1>3. WriteBaudDiv(Divider).op = "BAUDDIV" BY DEF WriteBaudDiv
<1> QED BY <1>1, <1>2, <1>3 DEF InitAt, Settles, UartSettings

LEMMA Fitting ==
  ASSUME NEW k \in 1 .. Len(UartTests!Main), k # AgainAt + 3,
         NEW i, i = UartTests!Main[k], i.op \notin {"fail", "passed"},
         NEW n, n = 1 \/ (i.op \in JumpOps /\ n = i.by)
  PROVE  Fits(k, i, k + n)
<1> DEFINE m == UartTests!Main
           q == k + n
           F == FrameTime
           Wet(a, b) == \A p \in a + 1 .. b + 1 : ~Dry(p) /\ ~Drains(p) /\ p # AgainAt + 3
<1>1. DryAt \in Nat /\ DryAt >= 10 /\ AgainAt \in Nat /\ AgainAt >= DryAt + 9 /\ Len(m) \in Nat /\ Len(m) >= AgainAt + 17
  BY UartPlaces
<1>2. F \in Nat /\ Most = 2 * F + 1 BY Times
<1>3. /\ \A p : Dry(p) => Bound(p) = 0
      /\ \A p : ~Dry(p) /\ Drains(p) => Bound(p) = F
      /\ \A p : ~Dry(p) /\ ~Drains(p) => Bound(p) = Most
  BY Zenon DEF Bound
<1>5. /\ Settles(i) => i.op = "bus" /\ i.access.op # "DATA" /\ ~Transmits(i)
      /\ i.op \notin {"bus", "send"} => ~Transmits(i)
  BY DEF Settles, Transmits, UartSettings
<1>6. /\ InitAt(m, 0, "UART2") /\ FailAt(m, 3) /\ InitAt(m, 5, "UART3") /\ FailAt(m, 8)
      /\ Region(m, 10, DryAt, Ordinary, Conditions)
      /\ m[DryAt + 1] = [op |-> "puts", chars |-> 20] /\ m[DryAt + 2] = [op |-> "puts", chars |-> 38]
      /\ BothAt(m, DryAt + 2) /\ m[DryAt + 9].op = "enable"
      /\ Region(m, DryAt + 9, AgainAt, Ordinary, Conditions)
      /\ m[AgainAt + 1].op = "unless" /\ m[AgainAt + 1].by = 3 /\ m[AgainAt + 2].op = "fail"
      /\ m[AgainAt + 4] = [op |-> "puts", chars |-> 23]
      /\ \A j \in 5 .. 8 : m[AgainAt + j].op \in {"set", "forget received"}
      /\ m[AgainAt + 9] = [op |-> "puts", chars |-> 23]
      /\ BothAt(m, AgainAt + 9) /\ m[AgainAt + 16].op = "enable" /\ m[AgainAt + 17].op = "enable"
      /\ Region(m, AgainAt + 17, Len(m), Ordinary, Conditions)
  BY UartPlaces
<1>7. k \in Int /\ k >= 1 /\ k <= Len(m) /\ k # AgainAt + 3 /\ i = m[k] /\ i.op \notin {"fail", "passed"}
  BY <1>1
<1>8. i.op \notin JumpOps => n = 1 OBVIOUS
<1> HIDE DEF m, F
<1>9. ASSUME Settles(i), i.op = "bus", Dry(k), q \in Int, q # AgainAt + 3, k <= 2 /\ q > 2 => k = 2, k <= 7 /\ q > 7 => k = 7
      PROVE  Fits(k, i, q)
  <2>1. Bound(k) = 0 /\ Bound(q) >= 0 BY <1>2, <1>3, <1>9
  <2> QED BY <1>5, <1>9, <2>1 DEF Fits
<1>10. ASSUME NEW a \in Int, NEW b \in Int, Region(m, a, b, Ordinary, Conditions), k > a, k <= b,
              Wet(a, b), a >= 10
       PROVE  Fits(k, i, q)
  <2>1. /\ i \in Ordinary \cup Jumps(Conditions)
        /\ i.op \in JumpOps => i.by \in Int /\ k + i.by \in a + 1 .. b + 1
    BY <1>7, <1>10 DEF Region
  <2>2. q \in a + 1 .. b + 1 /\ k \in a + 1 .. b + 1 BY <1>7, <1>10, <2>1
  <2>3. i.op = "bus" /\ i.dev \in Uarts => i.access.op \notin UartSettings
    BY <2>1, BusFields DEF Ordinary
  <2>4. Bound(k) = Most /\ Bound(q) = Most /\ ~Dry(k) /\ q # AgainAt + 3 /\ k > 7
    BY <1>3, <1>7, <1>10, <2>2
  <2> QED BY <1>2, <2>2, <2>3, <2>4 DEF Fits
<1> HIDE DEF Wet
<1>11. ASSUME i.op \notin {"bus", "send"}, q \in Int, q # AgainAt + 3, ~Dry(k),
              \/ Bound(k) <= Bound(q)
              \/ i.op = "puts" /\ i.chars >= 20 /\ Bound(k) <= Bound(q) + FrameTime + 1
       PROVE  Fits(k, i, q)
  BY <1>5, <1>7, <1>11 DEF Fits, Dry, Drains
<1>12. CASE k \in 1 .. 3 \/ k \in 6 .. 8
  <2>1. Settles(i) /\ i.op = "bus"
    <3>1. k \in 0 + 1 .. 0 + 3 \/ k \in 5 + 1 .. 5 + 3 BY <1>12
    <3>2. InitAt(m, 0, "UART2") /\ InitAt(m, 5, "UART3") BY <1>6
    <3>3. \A o \in {0, 5} : \A d : InitAt(m, o, d) => \A p \in o + 1 .. o + 3 : Settles(m[p]) /\ m[p].op = "bus"
      BY InitPlace
    <3> QED BY <1>7, <3>1, <3>2, <3>3
  <2>2. n = 1 BY <1>8, <2>1 DEF JumpOps
  <2>3. Dry(k) /\ q \in Int /\ q # AgainAt + 3 /\ (k <= 2 /\ q > 2 => k = 2) /\ (k <= 7 /\ q > 7 => k = 7)
    BY <1>1, <1>12, <2>2 DEF Dry
  <2> QED BY <1>9, <2>1, <2>3
<1>13. CASE k \in DryAt + 3 .. DryAt + 8 \/ k \in AgainAt + 10 .. AgainAt + 15
  <2>1. Settles(i) /\ i.op = "bus"
    <3>1. /\ InitAt(m, DryAt + 2, "UART2") /\ InitAt(m, (DryAt + 2) + 3, "UART3")
          /\ InitAt(m, AgainAt + 9, "UART2") /\ InitAt(m, (AgainAt + 9) + 3, "UART3")
      BY <1>6 DEF BothAt
    <3>2. \/ k \in (DryAt + 2) + 1 .. (DryAt + 2) + 3 \/ k \in ((DryAt + 2) + 3) + 1 .. ((DryAt + 2) + 3) + 3
          \/ k \in (AgainAt + 9) + 1 .. (AgainAt + 9) + 3 \/ k \in ((AgainAt + 9) + 3) + 1 .. ((AgainAt + 9) + 3) + 3
      BY <1>1, <1>13
    <3>3. DryAt + 2 \in Int /\ (DryAt + 2) + 3 \in Int /\ AgainAt + 9 \in Int /\ (AgainAt + 9) + 3 \in Int
      BY <1>1
    <3>4. \A o \in Int : \A d : InitAt(m, o, d) => \A p \in o + 1 .. o + 3 : Settles(m[p]) /\ m[p].op = "bus"
      BY InitPlace
    <3> QED BY <1>7, <3>1, <3>2, <3>3, <3>4
  <2>2. n = 1 BY <1>8, <2>1 DEF JumpOps
  <2>3. Dry(k) /\ q \in Int /\ q # AgainAt + 3 /\ k > 7 BY <1>1, <1>13, <2>2 DEF Dry
  <2> QED BY <1>7, <1>9, <2>1, <2>3
<1>14. CASE k = 4 \/ k = 9
  <2>1. i.op = "unless" /\ i.by = 2
    <3>1. /\ m[3 + 1].op = "unless" /\ m[3 + 1].by = 2 /\ m[8 + 1].op = "unless" /\ m[8 + 1].by = 2
      BY <1>6 DEF FailAt
    <3> QED BY <1>7, <1>14, <3>1
  <2>2. q \in Int /\ (q = k + 1 \/ q = k + 2) /\ q # AgainAt + 3 /\ Dry(k)
    BY <1>1, <1>7, <1>14, <2>1 DEF Dry, Drains
  <2>3. Bound(k) = 0 /\ Bound(q) >= 0 BY <1>2, <1>3, <2>2
  <2> QED BY <1>5, <1>14, <2>1, <2>2, <2>3 DEF Fits
<1>15. k # 5 /\ k # 10
  <2>1. m[3 + 2].op = "fail" /\ m[8 + 2].op = "fail" BY <1>6 DEF FailAt
  <2> QED BY <1>7, <2>1
<1>16. CASE k > 10 /\ k <= DryAt
  <2>1. Wet(10, DryAt) BY <1>1 DEF Dry, Drains, Wet
  <2>2. Region(m, 10, DryAt, Ordinary, Conditions) BY <1>6
  <2>3. 10 \in Int /\ DryAt \in Int /\ k > 10 /\ k <= DryAt /\ 10 >= 10 BY <1>1, <1>7, <1>16
  <2> QED BY <1>10, <2>1, <2>2, <2>3
<1>17. CASE k > DryAt + 9 /\ k <= AgainAt
  <2>1. Wet(DryAt + 9, AgainAt) BY <1>1 DEF Dry, Drains, Wet
  <2>2. Region(m, DryAt + 9, AgainAt, Ordinary, Conditions) BY <1>6
  <2>3. DryAt + 9 \in Int /\ AgainAt \in Int /\ k > DryAt + 9 /\ k <= AgainAt /\ DryAt + 9 >= 10
    BY <1>1, <1>7, <1>17
  <2> QED BY <1>10, <2>1, <2>2, <2>3
<1>18. CASE k > AgainAt + 17
  <2>1. Wet(AgainAt + 17, Len(m)) BY <1>1 DEF Dry, Drains, Wet
  <2>2. Region(m, AgainAt + 17, Len(m), Ordinary, Conditions) BY <1>6
  <2>3. AgainAt + 17 \in Int /\ Len(m) \in Int /\ k > AgainAt + 17 /\ k <= Len(m) /\ AgainAt + 17 >= 10
    BY <1>1, <1>7, <1>18
  <2> QED BY <1>10, <2>1, <2>2, <2>3
<1>19. CASE k = DryAt + 1 \/ k = DryAt + 2 \/ k = AgainAt + 4 \/ k = AgainAt + 9
  <2>1. i.op = "puts" /\ i.chars >= 20
    <3>1. /\ m[DryAt + 1].op = "puts" /\ m[DryAt + 1].chars >= 20 /\ m[DryAt + 2].op = "puts" /\ m[DryAt + 2].chars >= 20
          /\ m[AgainAt + 4].op = "puts" /\ m[AgainAt + 4].chars >= 20
          /\ m[AgainAt + 9].op = "puts" /\ m[AgainAt + 9].chars >= 20
      <4>1. /\ m[DryAt + 1] = [op |-> "puts", chars |-> 20] /\ m[DryAt + 2] = [op |-> "puts", chars |-> 38]
            /\ m[AgainAt + 4] = [op |-> "puts", chars |-> 23] /\ m[AgainAt + 9] = [op |-> "puts", chars |-> 23]
        BY <1>6
      <4> QED BY <4>1
    <3> QED BY <1>7, <1>19, <3>1
  <2>2. n = 1 BY <1>8, <2>1 DEF JumpOps
  <2>3. ~Dry(k) /\ q \in Int /\ q # AgainAt + 3 /\ ((~Dry(q) /\ Drains(q)) \/ (Drains(k) /\ Dry(q)))
    <3>1. k \in Int /\ q = k + 1 BY <1>7, <2>2
    <3> HIDE DEF q
    <3> QED BY <1>1, <1>19, <3>1 DEF Dry, Drains
  <2>4. Bound(k) <= Bound(q) + F + 1 BY <2>3, <1>2 DEF Bound, F
  <2> QED BY <1>11, <2>1, <2>3, <2>4 DEF F
<1>20. CASE k \in {DryAt + 9, AgainAt + 16, AgainAt + 17} \/ k \in AgainAt + 5 .. AgainAt + 8
  <2>1. i.op \in {"enable", "set", "forget received"}
    <3>1. k \in AgainAt + 5 .. AgainAt + 8 => k - AgainAt \in 5 .. 8 /\ AgainAt + (k - AgainAt) = k
      BY <1>1, <1>7
    <3>2. k \in AgainAt + 5 .. AgainAt + 8 => m[k].op \in {"set", "forget received"} BY <1>6, <3>1
    <3> QED BY <1>6, <1>7, <1>20, <3>2
  <2>2. n = 1 BY <1>8, <2>1 DEF JumpOps
  <2>3. ~Dry(k) /\ q \in Int /\ q # AgainAt + 3 /\ ((~Dry(q) /\ ~Drains(q)) \/ (Drains(k) /\ ~Dry(q) /\ Drains(q)))
    BY <1>1, <1>7, <1>20, <2>2 DEF Dry, Drains
  <2>4. Bound(k) <= Bound(q) BY <2>3, <1>2 DEF Bound, F
  <2> QED BY <1>11, <2>1, <2>3, <2>4
<1>21. CASE k = AgainAt + 1
  <2>1. i.op = "unless" /\ i.by = 3 BY <1>6, <1>7, <1>21
  <2>2. q \in Int /\ (q = AgainAt + 2 \/ q = AgainAt + 4) BY <1>1, <1>7, <1>21, <2>1
  <2>3. ~Dry(k) /\ q # AgainAt + 3 /\ ~Dry(q) /\ ~Drains(q) /\ ~Drains(k)
    BY <1>1, <1>7, <1>21, <2>2 DEF Dry, Drains
  <2>4. Bound(k) <= Bound(q) BY <2>3, <1>2 DEF Bound, F
  <2> QED BY <1>11, <2>1, <2>2, <2>3, <2>4
<1>22. k # AgainAt + 2 BY <1>6, <1>7
<1> QED BY <1>1, <1>7, <1>12, <1>13, <1>14, <1>15, <1>16, <1>17, <1>18, <1>19, <1>20, <1>21, <1>22

\* What an edge makes of an end of the line.
Free(i) == uart[i].tx = 0 /\ ~uart[i].tx_buf_full

LEMMA EndStep ==
  ASSUME DevicesOK, NEW d, NEW b, Devices(d, b), NEW i \in Uarts
  PROVE  /\ Free(i) /\ ~(d = i /\ b.op = "DATA") => Free(i)'
         /\ Quiet /\ ~(d = i /\ b.op = "DATA") => uart'[i].intr \subseteq uart[i].intr
         /\ uart'[i].reg_baud_div = IF d = i /\ b.op = "BAUDDIV" THEN b.divider ELSE uart[i].reg_baud_div
<1> DEFINE c == At(i, d, b)
           j == Peer(i)
           u == uart[i]
           p == uart[j]
           v == uart'[i]
<1>1. j \in Uarts /\ u \in Uart /\ p \in Uart /\ v = UartEdge(u, c, p) BY EdgeAt, Peers DEF Uarts
<1>2. /\ c.op = "DATA" <=> d = i /\ b.op = "DATA"
      /\ c.op = "BAUDDIV" <=> d = i /\ b.op = "BAUDDIV"
      /\ d = i => c = b
  BY DEF At, NoAccess
<1>4. Quiet => Free(i) /\ p.tx = 0 BY <1>1 DEF Quiet, Free
<1> HIDE DEF c, j, p
<1>5. ASSUME Free(i), c.op # "DATA" PROVE Free(i)' /\ (p.tx = 0 => v.intr \subseteq u.intr)
  <2>1. u.tx = 0 /\ ~u.tx_buf_full BY <1>5 DEF Free
  <2> HIDE DEF u, v
  <2>2. v.tx = 0 /\ ~v.tx_buf_full /\ (p.tx = 0 => v.intr \subseteq u.intr)
    BY <1>1, <1>5, <2>1, QuietEdge
  <2> QED BY <2>2 DEF Free, v
<1> HIDE DEF u, v
<1>3. v.reg_baud_div = IF c.op = "BAUDDIV" THEN c.divider ELSE u.reg_baud_div
  BY <1>1, Zenon DEF UartEdge
<1>6. uart'[i].reg_baud_div = IF d = i /\ b.op = "BAUDDIV" THEN b.divider ELSE uart[i].reg_baud_div
  BY <1>2, <1>3 DEF u, v
<1> QED BY <1>2, <1>4, <1>5, <1>6 DEF u, v

-----------------------------------------------------------------------------
(* The line while uart_driver_tests.c runs.                                *)

Line ==
  /\ Free("UART3") /\ uart["UART2"].tx <= FrameTime + 1
  /\ pc # AgainAt + 3
  /\ printing > 0 => UartTests!Main[pc].op = "puts"
  /\ Left(uart["UART2"]) = 0 \/ Left(uart["UART2"]) + printing <= Bound(pc)
  /\ pc > 2 => uart["UART2"].reg_baud_div = Divider
  /\ pc > 7 => uart["UART3"].reg_baud_div = Divider
LineInv == image = "uart_driver_tests" => Line

LEMMA UartPlace ==
  ASSUME ProgInv, image = "uart_driver_tests"
  PROVE  /\ pc \in 1 .. Len(UartTests!Main) /\ image # "any" /\ printing \in Nat
         /\ ~InHandler => Current = UartTests!Main[pc]
         /\ InHandler => Current \in LinkOps \cup Jumps(Conditions)
<1>1. MainOf[image] = UartTests!Main /\ HandlersOf[image] = UartTests!Handlers /\ image # "any"
  BY Images
<1>2. IrqsOf(image) = UartIrqs BY <1>1, UartHandlers DEF IrqsOf
<1>3. pc \in 1 .. Len(UartTests!Main) /\ printing \in Nat BY <1>1 DEF ProgInv, PlaceOK, RunOK
<1>4. InHandler => handler \in UartIrqs /\ hpc \in 1 .. Len(UartTests!Handlers[handler])
  BY <1>1, <1>2 DEF ProgInv, PlaceOK
<1>5. (InHandler => Current = UartTests!Handlers[handler][hpc]) /\ (~InHandler => Current = UartTests!Main[pc])
  BY <1>1 DEF Current
<1>6. InHandler => EndsIn(UartTests!Handlers[handler], LinkOps, Conditions, [op |-> "return"])
  BY <1>4, UartHandlers
<1> QED BY <1>1, <1>3, <1>4, <1>5, <1>6 DEF EndsIn

LEMMA LineEdge ==
  ASSUME ProgInv, ProgInv', image = "uart_driver_tests", Line, NEW d, NEW b, Devices(d, b), ~(d = "UART3" /\ b.op = "DATA")
  PROVE  LET u == uart["UART2"]
             v == uart'["UART2"] IN
         /\ Free("UART3")' /\ v.tx <= FrameTime + 1
         /\ Left(u) \in Nat /\ Left(v) \in Int
         /\ d = "UART2" /\ b.op = "DATA" => Left(v) <= Most
         /\ ~(d = "UART2" /\ b.op = "DATA") => Left(v) = 0 \/ (Left(u) > 0 /\ Left(v) = Left(u) - 1)
<1> DEFINE u == uart["UART2"]
           v == uart'["UART2"]
           c == At("UART2", d, b)
<1>1. DevicesOK /\ printing \in Nat /\ pc \in 1 .. Len(UartTests!Main) /\ "UART3" \in Uarts
  BY UartPlace DEF ProgInv, Uarts
<1>2. u \in Uart /\ uart["UART3"] \in Uart /\ v = UartEdge(u, c, uart["UART3"]) BY <1>1, EdgeAt
<1>3. Left(u) \in Nat BY <1>2, LeftIsNone
<1>4. u.reg_baud_div = Divider \/ Left(u) = 0 BY <1>1, <1>3 DEF Line, Bound, Dry
<1>5. Free("UART3")' /\ u.tx <= FrameTime + 1 BY <1>1, EndStep DEF Line
<1>6. c.op = "DATA" <=> d = "UART2" /\ b.op = "DATA" BY DEF At, NoAccess
<1> HIDE DEF u, v, c
<1>7. /\ v.tx <= FrameTime + 1
      /\ c.op # "DATA" => Left(v) = 0 \/ (Left(u) > 0 /\ Left(v) = Left(u) - 1)
      /\ c.op = "DATA" => Left(v) <= Most
  BY <1>2, <1>4, <1>5, LeftStep
<1>8. Left(v) \in Int BY LeftIsNone DEF ProgInv, DevicesOK, LinkTypeOK, Uarts, v
<1> QED BY <1>3, <1>5, <1>6, <1>7, <1>8 DEF u, v

\* The handlers of the test leave the line alone.
LEMMA LineHandler ==
  ASSUME ProgInv, NEW d, NEW b, Performs(d, b), Current \in LinkOps \cup Jumps(Conditions)
  PROVE  Current.op # "puts" /\ (d \in Uarts => b.op \notin {"DATA", "CTRL", "BAUDDIV"})
<1> DEFINE i == Current
<1>1. i \in LinkOps \cup Jumps(Conditions) OBVIOUS
<1>2. d \in Uarts /\ b.op \in {"CTRL", "BAUDDIV", "DATA"} =>
        (i.op = "bus" /\ i.access = b) \/ (i.op = "send" /\ b.op = "DATA")
  BY DEF Performs, Moves
<1> HIDE DEF i
<1>3. i.op \notin {"puts", "send"} /\ (i.op = "bus" => i.access.op \notin {"DATA", "CTRL", "BAUDDIV"})
  BY <1>1 DEF LinkOps, Jumps, UartAccesses, UartSettings
<1> QED BY <1>2, <1>3 DEF i

\* An instruction of main(): where it leads, and what of the line is left there.
LEMMA LineMain ==
  ASSUME CharsPerFrame <= 20, ProgInv, ProgInv', image = "uart_driver_tests", Line,
         ~InHandler, NEW d, NEW b, Performs(d, b)
  PROVE  Line'
<1> DEFINE k == pc
           i == Current
           q == pc'
           u == uart["UART2"]
           v == uart'["UART2"]
           L == Left(u)
           M == Left(v)
<1>1. k \in 1 .. Len(UartTests!Main) /\ image # "any" /\ i = UartTests!Main[k] /\ printing \in Nat
  BY UartPlace
<1>2. i \in Actions(Registers, IrqsOf(image)) \cup Jumps(Conditions)
  BY <1>1, CurrentFacts DEF ProgInv
<1>3. Fits(k, i, q)
  <2> DEFINE n == Distance(i)
  <2>1. q = k + n BY DEF Performs, Executes, Jump
  <2>2. n = 1 \/ (i.op \in JumpOps /\ n = i.by) BY DEF Distance, JumpOps
  <2>3. k # AgainAt + 3 /\ i.op \notin {"fail", "passed"} BY DEF Line, Performs
  <2> HIDE DEF n, i, k, q
  <2> QED BY <1>1, <2>1, <2>2, <2>3, Fitting
<1>4. /\ d \in Uarts /\ b.op = "DATA" => d = "UART2" /\ Transmits(i)
      /\ d \in Uarts /\ b.op \in UartSettings => i.op = "bus" /\ i.dev = d /\ i.access = b
  BY <1>2, Accessing DEF Transmits
<1>5. Devices(d, b) BY DEF Performs, Moves
<1>6. "UART2" \in Uarts /\ "UART3" \in Uarts /\ "UART2" # "UART3" BY DEF Uarts
<1>7. /\ Free("UART3")' /\ v.tx <= FrameTime + 1 /\ L \in Nat /\ M \in Int
      /\ d = "UART2" /\ b.op = "DATA" => M <= Most
      /\ ~(d = "UART2" /\ b.op = "DATA") => M = 0 \/ (L > 0 /\ M = L - 1)
  BY <1>6, <1>4, <1>5, LineEdge
<1>8. /\ i.op # "puts" => printing = 0 /\ printing' = 0
      /\ i.op = "puts" => printing' = 0 /\ (i.chars >= 20 => printing >= FrameTime)
  <2>1. i.op # "puts" => printing = 0 /\ printing' = 0 BY <1>1 DEF Line, Performs
  <2>2. i.op = "puts" => i.chars \in Nat
    <3> HIDE DEF i
    <3> QED BY <1>2, ActionFields
  <2>3. i.op = "puts" => printing' = 0 /\ printing = PrintTime(i.chars)
    BY DEF Performs, PutsTime, PrintTime, FrameTime
  <2>4. CharsPerFrame \in Nat BY ProgramAssumption
  <2> QED BY <2>1, <2>2, <2>3, <2>4, Times
<1>9. M = 0 \/ M + printing' <= Bound(q)
  <2>1. CASE d = "UART2" /\ b.op = "DATA" BY <1>3, <1>4, <1>6, <1>7, <1>8, <2>1, Times DEF Fits
  <2>2. CASE ~(d = "UART2" /\ b.op = "DATA")
    <3>1. M = 0 \/ (L > 0 /\ M = L - 1 /\ L + printing <= Bound(k)) BY <1>7, <2>2 DEF Line
    <3>2. \/ Bound(k) <= Bound(q)
          \/ i.op = "puts" /\ i.chars >= 20 /\ Bound(k) <= Bound(q) + FrameTime + 1
      BY <1>3 DEF Fits
    <3>3. Bound(k) \in Int /\ Bound(q) \in Int /\ FrameTime \in Nat BY Times DEF Bound
    <3> HIDE DEF L, M
    <3> QED BY <1>1, <1>7, <1>8, <3>1, <3>2, <3>3
  <2> QED BY <2>1, <2>2
<1>10. d \in Uarts /\ b.op = "BAUDDIV" => b.divider = Divider
  <2>1. d \in Uarts /\ b.op = "BAUDDIV" => Settles(i) /\ i.access = b
    BY <1>3, <1>4 DEF Fits, UartSettings
  <2>2. WriteBaudDiv(Divider).divider = Divider BY DEF WriteBaudDiv
  <2> QED BY <2>1, <2>2 DEF Settles
<1>11. \A j \in Uarts : /\ uart'[j].reg_baud_div \in {uart[j].reg_baud_div, Divider}
                        /\ d = j /\ b.op = "BAUDDIV" => uart'[j].reg_baud_div = Divider
  BY <1>5, <1>10, EndStep DEF ProgInv
<1>12. k = 2 => d = "UART2" /\ b.op = "BAUDDIV"
  <2>1. InitAt(UartTests!Main, 0, "UART2") BY UartPlaces
  <2>2. /\ UartTests!Main[0 + 2].op = "bus" /\ UartTests!Main[0 + 2].dev = "UART2"
        /\ UartTests!Main[0 + 2].access = WriteBaudDiv(Divider)
    BY <2>1 DEF InitAt
  <2> QED BY <1>1, <2>2 DEF Performs, WriteBaudDiv
<1>13. k = 7 => d = "UART3" /\ b.op = "BAUDDIV"
  <2>1. InitAt(UartTests!Main, 5, "UART3") BY UartPlaces
  <2>2. /\ UartTests!Main[5 + 2].op = "bus" /\ UartTests!Main[5 + 2].dev = "UART3"
        /\ UartTests!Main[5 + 2].access = WriteBaudDiv(Divider)
    BY <2>1 DEF InitAt
  <2> QED BY <1>1, <2>2 DEF Performs, WriteBaudDiv
<1>14. /\ q # AgainAt + 3
       /\ q > 2 => k > 2 \/ k = 2
       /\ q > 7 => k > 7 \/ k = 7
  BY <1>1, <1>3 DEF Fits
<1>15. q > 2 => v.reg_baud_div = Divider BY <1>6, <1>11, <1>12, <1>14 DEF Line
<1>16. q > 7 => uart'["UART3"].reg_baud_div = Divider BY <1>6, <1>11, <1>13, <1>14 DEF Line
<1>17. ~(printing' > 0) BY <1>8
<1> QED BY <1>7, <1>9, <1>14, <1>15, <1>16, <1>17 DEF Line

LEMMA LineStep ==
  ASSUME CharsPerFrame <= 20, ProgInv, ProgInv', image = "uart_driver_tests", Line, Processor PROVE Line'
<1>1. pc \in Int /\ image # "any" /\ printing \in Nat BY UartPlace
<1>2. Waits0 \/ Prints0 \/ (\E d, b : Performs(d, b)) BY <1>1, LinkKinds
<1>3. ASSUME NEW d, NEW b, Devices(d, b), d \in Uarts => b.op \notin {"DATA", "CTRL", "BAUDDIV"}, pc' = pc,
             printing' = printing \/ (printing' = printing + 1 /\ UartTests!Main[pc].op = "puts")
      PROVE  Line'
  <2> DEFINE L == Left(uart["UART2"])
             M == Left(uart'["UART2"])
  <2>1. "UART2" \in Uarts /\ "UART3" \in Uarts BY DEF Uarts
  <2>2. /\ Free("UART3")' /\ uart'["UART2"].tx <= FrameTime + 1 /\ L \in Nat /\ M \in Int
        /\ M = 0 \/ (L > 0 /\ M = L - 1)
    BY <1>3, <2>1, LineEdge
  <2>3. \A j \in Uarts : uart'[j].reg_baud_div = uart[j].reg_baud_div BY <1>3, EndStep DEF ProgInv
  <2>4. L = 0 \/ L + printing <= Bound(pc) BY DEF Line
  <2>5. Bound(pc) \in Int BY Times DEF Bound
  <2> HIDE DEF L, M
  <2>6. M = 0 \/ M + printing' <= Bound(pc) BY <1>1, <1>3, <2>2, <2>4, <2>5
  <2>7. printing' > 0 => UartTests!Main[pc].op = "puts" BY <1>3 DEF Line
  <2> QED BY <1>3, <2>1, <2>2, <2>3, <2>6, <2>7 DEF Line, M
<1>4. "none" \notin Uarts BY DEF Uarts
<1>5. CASE Waits0 BY <1>5, <1>3, <1>4 DEF Waits0, NoDevice, Rests, Enters, Leaves
<1>6. CASE Prints0
  <2>1. Devices("none", NoAccess) /\ printing' = printing + 1 /\ pc' = pc /\ Current.op = "puts"
    BY <1>6 DEF Prints0, NoDevice, Rests
  <2>2. InHandler => Current \in LinkOps \cup Jumps(Conditions) BY UartPlace
  <2>3. ~InHandler
    <3> DEFINE i == Current
    <3>1. i.op = "puts" /\ (InHandler => i \in LinkOps \cup Jumps(Conditions)) BY <2>1, <2>2
    <3> HIDE DEF i
    <3> QED BY <3>1 DEF LinkOps, Jumps
  <2>4. UartTests!Main[pc].op = "puts" BY <2>1, <2>3, UartPlace
  <2> QED BY <1>3, <1>4, <2>1, <2>4
<1>7. ASSUME NEW d, NEW b, Performs(d, b), InHandler PROVE Line'
  <2>1. Current.op # "puts" /\ (d \in Uarts => b.op \notin {"DATA", "CTRL", "BAUDDIV"})
    BY <1>7, UartPlace, LineHandler
  <2>2. Devices(d, b) /\ printing' = printing /\ pc' = pc
    BY <1>7, <2>1 DEF Performs, Moves, Executes, Jump
  <2> QED BY <1>3, <2>1, <2>2
<1> QED BY <1>2, <1>5, <1>6, <1>7, LineMain

-----------------------------------------------------------------------------
(* Where interrupt_demo.c configures the UARTs: the two examples before do *)
(* not know them, and the rest of the last one leaves their settings.      *)

EarlyEnd == Len(Demo!TimerExample) + Len(Demo!GPIOIntExample)
SetUpEnd == EarlyEnd + 11

\* The instructions of the last example up to where both UARTs are configured.
UartSetUpAt(s, o) ==
  /\ \A j \in 1 .. 5 : s[o + j].op \in {"puts", "clear pending", "enable"}
  /\ InitAt(s, o + 5, "UART2") /\ InitAt(s, o + 8, "UART3")

LEMMA UartSetUpText ==
  /\ IsText(UartSetUp) /\ Len(UartSetUp) = 11
  /\ \A s : \A o \in Int : Holding(s, o, UartSetUp) => UartSetUpAt(s, o)
<1> DEFINE i1 == [op |-> "puts", chars |-> 0]
           i2 == IrqI("clear pending", "UART2")
           i3 == IrqI("clear pending", "UART3")
           i4 == IrqI("enable", "UART2")
           i5 == IrqI("enable", "UART3")
           c1 == <<i1>>
           c2 == <<i2>>
           c3 == <<i3>>
           c4 == <<i4>>
           c5 == <<i5>>
           h == c1 \o c2 \o c3 \o c4 \o c5
           a == uart_init("UART2", {"tx", "txirq"})
           b == uart_init("UART3", {"rx", "rxirq"})
           t == h \o a
           u == t \o b
<1>1. UartSetUp = u BY SameDemo DEF UartSetUp, Demo!Prints, Puts, ClearPending, Enable, IrqI
<1>2. /\ IsText(a) /\ Len(a) = 3 /\ \A s : \A o \in Int : Holding(s, o, a) => InitAt(s, o, "UART2")
      /\ IsText(b) /\ Len(b) = 3 /\ \A s : \A o \in Int : Holding(s, o, b) => InitAt(s, o, "UART3")
  BY InitText
<1>3. One(c1, i1) /\ One(c2, i2) /\ One(c3, i3) /\ One(c4, i4) /\ One(c5, i5)
  BY OneInstruction DEF One
<1>4. /\ i1.op = "puts" /\ i2.op = "clear pending" /\ i3.op = "clear pending"
      /\ i4.op = "enable" /\ i5.op = "enable"
  BY DEF IrqI
<1> HIDE DEF i1, i2, i3, i4, i5, c1, c2, c3, c4, c5, a, b
<1>5. /\ IsText(c1) /\ IsText(c2) /\ IsText(c3) /\ IsText(c4) /\ IsText(c5)
      /\ Len(c1) = 1 /\ Len(c2) = 1 /\ Len(c3) = 1 /\ Len(c4) = 1 /\ Len(c5) = 1
  BY <1>3 DEF One
<1>6. Parts5(h, c1, c2, c3, c4, c5) BY <1>5, FiveParts
<1> HIDE DEF h
<1>7. IsText(h) /\ Len(h) = 5 BY <1>5, <1>6 DEF Parts5
<1>8. /\ IsText(t) /\ Len(t) = 8
      /\ \A s : \A o \in Int : Holding(s, o, t) => Holding(s, o, h) /\ Holding(s, o + 5, a)
  <2>1. /\ IsText(t) /\ Len(t) = Len(h) + Len(a)
        /\ \A s : \A o \in Int : Holding(s, o, t) => Holding(s, o, h) /\ Holding(s, o + Len(h), a)
    BY <1>2, <1>7, TextParts
  <2> QED BY <1>2, <1>7, <2>1
<1> HIDE DEF t
<1>9. /\ IsText(u) /\ Len(u) = 11
      /\ \A s : \A o \in Int : Holding(s, o, u) => Holding(s, o, t) /\ Holding(s, o + 8, b)
  <2>1. /\ IsText(u) /\ Len(u) = Len(t) + Len(b)
        /\ \A s : \A o \in Int : Holding(s, o, u) => Holding(s, o, t) /\ Holding(s, o + Len(t), b)
    BY <1>2, <1>8, TextParts
  <2> QED BY <1>2, <1>8, <2>1
<1> HIDE DEF u
<1>10. ASSUME NEW s, NEW o \in Int, Holding(s, o, u) PROVE UartSetUpAt(s, o)
  <2>1. Holding(s, o, h) /\ InitAt(s, o + 5, "UART2") /\ InitAt(s, o + 8, "UART3")
    BY <1>2, <1>8, <1>9, <1>10
  <2>2. /\ Holding(s, o, c1) /\ Holding(s, o + 1, c2) /\ Holding(s, o + 2, c3)
        /\ Holding(s, o + 3, c4) /\ Holding(s, o + 4, c5)
    BY <1>5, <1>6, <2>1 DEF Parts5
  <2>3. /\ s[o + 1] = i1 /\ s[(o + 1) + 1] = i2 /\ s[(o + 2) + 1] = i3 /\ s[(o + 3) + 1] = i4
        /\ s[(o + 4) + 1] = i5
    BY <1>3, <2>2 DEF One
  <2>4. (o + 1) + 1 = o + 2 /\ (o + 2) + 1 = o + 3 /\ (o + 3) + 1 = o + 4 /\ (o + 4) + 1 = o + 5
    OBVIOUS
  <2>5. \A j \in 1 .. 5 : j = 1 \/ j = 2 \/ j = 3 \/ j = 4 \/ j = 5 OBVIOUS
  <2>6. /\ s[o + 1].op = "puts" /\ s[o + 2].op = "clear pending" /\ s[o + 3].op = "clear pending"
        /\ s[o + 4].op = "enable" /\ s[o + 5].op = "enable"
    BY <1>4, <2>3, <2>4
  <2>7. \A j \in 1 .. 5 : s[o + j].op \in {"puts", "clear pending", "enable"} BY <2>5, <2>6
  <2> QED BY <2>1, <2>7 DEF UartSetUpAt
<1> QED BY <1>1, <1>9, <1>10 DEF u

LEMMA DemoUartParts ==
  LET J1 == Actions(Registers, DemoIrqs)
      J2 == Actions(Always, DemoIrqs)
      t  == Demo!UartExample
  IN  /\ Phased(t, J1, J2, Conditions, 11) /\ IsText(t)
      /\ \A s : \A o \in Int : Holding(s, o, t) => UartSetUpAt(s, o)
<1> DEFINE J1 == Actions(Registers, DemoIrqs)
           J2 == Actions(Always, DemoIrqs)
           C == Conditions
           Is(s) == Code(s, J2, C)
           A(s, o) == UartSetUpAt(s, o)
           X(x) == IsText(x) /\ \A s : \A o \in Int : Holding(s, o, x) => A(s, o)
           Ph(x) == Phased(x, J1, J2, C, 11) /\ X(x)
           y1 == Demo!Set("rx_count", 0)
           y2 == Demo!Set("tx_count", 0)
           y3 == Demo!Do("forget received")
           y4 == Demo!Prints
           y5 == Demo!Inc("tx_count")
           y6 == Demo!While(Demo!Cond("UART2", "TXBF"), <<>>)
           y7 == Demo!Bus("UART2", Demo!WriteData(transmit[1]))
           y8 == Demo!While(Demo!Var("transmission_complete", "clear"),
                   Demo!If(Demo!Var("tx_count", "complete"),
                     Demo!If(Demo!Var("rx_count", "complete"), Demo!Set("transmission_complete", 1))))
           y9 == Demo!While(Demo!Var("received", "differs"), <<>>)
           y10 == Demo!Disable("UART2")
           y11 == Demo!Disable("UART3")
           t == Demo!UartExample
<1>1. t = UartSetUp \o y1 \o y2 \o y3 \o y4 \o y5 \o y6 \o y7 \o y8 \o y4 \o y9 \o y10 \o y11
  BY DEF Demo!UartExample, UartSetUp
<1>2. /\ Is(y1) /\ Is(y2) /\ Is(y3) /\ Is(y4) /\ Is(y5) /\ Is(y6) /\ Is(y7) /\ Is(y8)
      /\ Is(y9) /\ Is(y10) /\ Is(y11)
  BY DemoUart DEF IsCode
<1>3. Code(UartSetUp, J1, C) BY DemoUart DEF IsCode, Registers, Switches, AlwaysUart, Configures
<1> HIDE DEF A, J1, J2, C, y1, y2, y3, y4, y5, y6, y7, y8, y9, y10, y11, t
<1>4. Ph(UartSetUp) BY UartSetUpText, <1>3, FirstPhase DEF A
<1>5. \A x, y : Ph(x) /\ Is(y) => Ph(x \o y)
  <2> SUFFICES ASSUME NEW x, NEW y, Ph(x), Is(y) PROVE Ph(x \o y)
    OBVIOUS
  <2>1. Phased(x \o y, J1, J2, C, 11) BY LongerSecondPhase
  <2>2. IsText(y) BY CodeIsText
  <2>3. IsText(x \o y) /\ \A s : \A o \in Int : Holding(s, o, x \o y) => Holding(s, o, x)
    BY <2>2, TextParts
  <2> QED BY <2>1, <2>3
<1> HIDE DEF Ph, Is
<1>6. Ph(UartSetUp \o y1 \o y2 \o y3 \o y4) BY <1>2, <1>4, <1>5
<1> DEFINE x == UartSetUp \o y1 \o y2 \o y3 \o y4
<1> HIDE DEF x
<1>7. Ph(x \o y5 \o y6 \o y7 \o y8) BY <1>2, <1>5, <1>6 DEF x
<1> DEFINE z == x \o y5 \o y6 \o y7 \o y8
<1> HIDE DEF z
<1>8. Ph(z \o y4 \o y9 \o y10 \o y11) BY <1>2, <1>5, <1>7 DEF z
<1>9. Ph(t) BY <1>1, <1>8 DEF x, z
<1> QED BY <1>9 DEF Ph, A, J1, J2, C, t

LEMMA DemoPlaces ==
  LET m == Demo!Main IN
  /\ EarlyEnd \in Nat /\ Len(m) \in Nat /\ SetUpEnd <= Len(m)
  /\ Region(m, 0, EarlyEnd, Actions(Registers, EarlyIrqs), Conditions) /\ UartSetUpAt(m, EarlyEnd)
  /\ Phased(m, Actions(Registers, DemoIrqs), Actions(Always, DemoIrqs), Conditions, SetUpEnd)
<1> DEFINE J == Actions(Registers, EarlyIrqs)
           J1 == Actions(Registers, DemoIrqs)
           J2 == Actions(Always, DemoIrqs)
           C == Conditions
           Is(s) == Code(s, J, C)
           te == Demo!TimerExample
           e == Demo!If(Demo!Var("err_code", "set"), Demo!Fail)
           f1 == Demo!ForPins(LAMBDA p : Demo!ClearPending(Demo!PORT0(p)))
           f2 == Demo!ForPins(LAMBDA p : Demo!Enable(Demo!PORT0(p)))
           f3 == Demo!ForPins(LAMBDA p : Demo!Disable(Demo!PORT0(p)))
           t1 == Demo!Test(7, "B")
           t2 == Demo!Test(8, "9")
           t3 == Demo!Test(9, "D")
           t4 == Demo!Test(10, "5")
           g == Demo!GPIOIntExample
           ue == Demo!UartExample
           z == <<[op |-> "passed"]>>
           m == Demo!Main
<1>1. EarlyIrqs \subseteq EarlyIrqs OBVIOUS
<1>2. /\ \A s : IsCode(s, Configures, EarlyIrqs) => Is(s)
      /\ \A s : IsCode(s, Switches, EarlyIrqs) => Is(s)
      /\ \A s : IsCode(s, Always, EarlyIrqs) => Is(s)
  <2>1. Configures \subseteq Registers /\ Switches \subseteq Registers /\ Always \subseteq Registers
    BY DEF Registers, Configures
  <2>2. /\ Actions(Configures, EarlyIrqs) \subseteq J /\ Actions(Switches, EarlyIrqs) \subseteq J
        /\ Actions(Always, EarlyIrqs) \subseteq J
    BY <1>1, <2>1, MoreActions
  <2> HIDE DEF J
  <2> QED BY <2>2, MoreCode DEF IsCode
<1>3. Is(te) /\ Is(SetUp) BY <1>1, <1>2, DemoFirst
<1>4. Is(e) /\ Is(f1) /\ Is(f2) /\ Is(f3) BY <1>1, <1>2, DemoForPins
<1>5. Is(t1) /\ Is(t2) /\ Is(t3) /\ Is(t4)
  <2>1. 7 \in 7 .. 10 /\ 8 \in 7 .. 10 /\ 9 \in 7 .. 10 /\ 10 \in 7 .. 10 OBVIOUS
  <2> QED BY <1>1, <1>2, <2>1, DemoTests
<1>6. g = SetUp \o f1 \o f2 \o t1 \o t2 \o t3 \o t4 \o e \o f3 BY DEF Demo!GPIOIntExample, SetUp
<1>7. m = te \o g \o ue \o z BY DEF Demo!Main, Demo!Do
<1>8. /\ Phased(ue, J1, J2, C, 11) /\ IsText(ue)
      /\ \A s : \A o \in Int : Holding(s, o, ue) => UartSetUpAt(s, o)
  BY DemoUartParts
<1>9. J \subseteq J1 /\ [op |-> "passed"] \in J2 /\ [op |-> "passed"].op \notin JumpOps
  <2>1. J \subseteq J1
    <3>1. Registers \subseteq Registers OBVIOUS
    <3> QED BY <3>1, EarlyOfDemo, MoreActions
  <2> QED BY <2>1 DEF Actions, Plain, JumpOps
<1>10. IsText(z) BY OneInstruction
<1>18. EarlyEnd = Len(te) + Len(g) BY DEF EarlyEnd
<1> HIDE DEF te, e, f1, f2, f3, t1, t2, t3, t4, g, ue, z, m, J, J1, J2, C
<1>11. \A a, b : Is(a) /\ Is(b) => Is(a \o b) BY ConcatCode
<1> HIDE DEF Is
<1>12. Is(g) BY <1>3, <1>4, <1>5, <1>6, <1>11
<1> DEFINE tg == te \o g
<1>13. Is(tg) BY <1>3, <1>11, <1>12
<1>14. IsText(te) /\ IsText(g) /\ IsText(tg) /\ Code(tg, J, C)
  BY <1>3, <1>12, <1>13, CodeIsText DEF Is
<1>15. Len(tg) = EarlyEnd /\ EarlyEnd \in Nat BY TextParts, <1>14, <1>18
<1> HIDE DEF tg
<1>16. /\ IsText(tg \o ue) /\ \A s : \A o \in Int : Holding(s, o, tg \o ue) =>
                               Holding(s, o, tg) /\ Holding(s, o + EarlyEnd, ue)
  <2>1. \A s : \A o \in Int : Holding(s, o, tg \o ue) => Holding(s, o, tg) /\ Holding(s, o + Len(tg), ue)
    BY <1>8, <1>14, TextParts
  <2>2. IsText(tg \o ue) BY <1>8, <1>14, TextParts
  <2> QED BY <1>15, <2>1, <2>2
<1> DEFINE tu == tg \o ue
<1>17. m = tu \o z BY <1>7 DEF tg
<1>19. Phased(tu, J1, J2, C, EarlyEnd + 11) BY <1>8, <1>9, <1>14, <1>15, MoreCode, LongerFirstPhase
<1> HIDE DEF tu
<1>20. Holding(m, 0, tu) BY <1>10, <1>16, <1>17, TextParts DEF tu, Holding
<1>21. Holding(m, 0, tg) /\ UartSetUpAt(m, EarlyEnd) BY <1>20, <1>16, <1>8, <1>15 DEF tu
<1>22. Region(m, 0, EarlyEnd, J, Conditions) BY CodeRegion, <1>21, <1>14, <1>15 DEF C
<1>23. Phased(m, J1, J2, C, SetUpEnd) BY <1>9, <1>17, <1>19, EndedPhases DEF z, SetUpEnd
<1>24. Len(m) \in Nat /\ SetUpEnd <= Len(m)
  <2>1. SetUpEnd \in 0 .. Len(m) BY <1>23 DEF Phased
  <2>2. Len(m) \in Nat BY <1>10, <1>16, <1>17, TextParts DEF tu
  <2> QED BY <2>1, <2>2
<1> QED BY <1>15, <1>21, <1>22, <1>23, <1>24 DEF m, J, J1, J2, C

\* The UARTs before the demo has configured them, and their dividers after that.
Unused == /\ \A i \in Uarts : Free(i) /\ uart[i].intr = {}
          /\ handler \notin Uarts /\ nvic.pending \cap Uarts = {}
Fresh ==
  /\ pc <= SetUpEnd => Unused
  /\ pc > EarlyEnd + 7 => uart["UART2"].reg_baud_div = Divider
  /\ pc > EarlyEnd + 10 => uart["UART3"].reg_baud_div = Divider
FreshInv == image = "interrupt_demo" => Fresh

LEMMA UnusedStep ==
  ASSUME ProgInv, Unused, Turns, NEW d, NEW b, Devices(d, b), d \in Uarts => b.op # "DATA"
  PROVE  Unused'
<1>1. Quiet BY DEF Unused, Quiet, Free
<1>2. \A i \in Uarts : Free(i)' /\ uart'[i].intr = {} BY <1>1, EndStep DEF Unused, ProgInv
<1>3. Lines \cap Uarts = {} /\ Lines' \cap Uarts = {}
  BY <1>2 DEF Lines, Unused, Raised, TXINT, RXINT, Uarts
<1>4. PICK w, e, l, en : Nvic(e, l, en) /\ handler' \in {handler, "none"} \cup nvic.pending
  BY DEF Turns
<1>5. nvic'.pending \cap Uarts = {} BY <1>3, <1>4 DEF Nvic, Unused
<1>6. handler' \notin Uarts BY <1>4 DEF Unused, Uarts
<1> QED BY <1>2, <1>5, <1>6 DEF Unused

\* What stands where the demo configures the UARTs.
LEMMA SetUpPlace ==
  ASSUME NEW s, NEW o \in Int, UartSetUpAt(s, o), NEW k \in o + 1 .. o + 11
  PROVE  /\ s[k].op \in {"puts", "clear pending", "enable"} \/ (Settles(s[k]) /\ s[k].op = "bus")
         /\ s[o + 7].op = "bus" /\ s[o + 7].dev = "UART2" /\ s[o + 7].access = WriteBaudDiv(Divider)
         /\ s[o + 10].op = "bus" /\ s[o + 10].dev = "UART3" /\ s[o + 10].access = WriteBaudDiv(Divider)
<1>1. /\ InitAt(s, o + 5, "UART2") /\ InitAt(s, o + 8, "UART3")
      /\ \A j \in 1 .. 5 : s[o + j].op \in {"puts", "clear pending", "enable"}
  BY DEF UartSetUpAt
<1>0. InitAt(s, o + 5, "UART2") /\ InitAt(s, o + 8, "UART3") /\ o + 5 \in Int /\ o + 8 \in Int
  <2>1. o + 5 \in Int /\ o + 8 \in Int OBVIOUS
  <2> QED BY <1>1, <2>1, Zenon
<1>2. s[k].op \in {"puts", "clear pending", "enable"} \/ (Settles(s[k]) /\ s[k].op = "bus")
  <2>1. ASSUME k - o \in 1 .. 5 PROVE s[k].op \in {"puts", "clear pending", "enable"}
    <3>1. o + (k - o) = k OBVIOUS
    <3> QED BY <1>1, <2>1, <3>1
  <2>2. ASSUME k \in (o + 5) + 1 .. (o + 5) + 3 PROVE Settles(s[k]) /\ s[k].op = "bus"
    BY <1>0, <2>2, InitPlace
  <2>3. ASSUME k \in (o + 8) + 1 .. (o + 8) + 3 PROVE Settles(s[k]) /\ s[k].op = "bus"
    BY <1>0, <2>3, InitPlace
  <2>4. k - o \in 1 .. 5 \/ k \in (o + 5) + 1 .. (o + 5) + 3 \/ k \in (o + 8) + 1 .. (o + 8) + 3
    OBVIOUS
  <2> QED BY <2>1, <2>2, <2>3, <2>4
<1>3. (o + 5) + 2 = o + 7 /\ (o + 8) + 2 = o + 10 OBVIOUS
<1>4. \A p, d : InitAt(s, p, d) => /\ s[p + 2].op = "bus" /\ s[p + 2].dev = d
                                  /\ s[p + 2].access = WriteBaudDiv(Divider)
  BY DEF InitAt
<1>5. /\ s[(o + 5) + 2].op = "bus" /\ s[(o + 5) + 2].dev = "UART2" /\ s[(o + 5) + 2].access = WriteBaudDiv(Divider)
      /\ s[(o + 8) + 2].op = "bus" /\ s[(o + 8) + 2].dev = "UART3" /\ s[(o + 8) + 2].access = WriteBaudDiv(Divider)
  BY <1>0, <1>4
<1> QED BY <1>2, <1>3, <1>5

\* What an instruction of main() may do to the UARTs, by its place.
LEMMA FreshPlace ==
  ASSUME ProgInv, image = "interrupt_demo", ~InHandler, NEW d, NEW b, Performs(d, b)
  PROVE  /\ pc <= EarlyEnd =>
              /\ pc' <= EarlyEnd + 1
              /\ d \in Uarts => b.op # "DATA" /\ b.op \notin UartSettings
         /\ EarlyEnd < pc /\ pc <= SetUpEnd =>
              /\ pc' = pc + 1
              /\ d \in Uarts => b.op # "DATA" /\ (b.op = "BAUDDIV" => b.divider = Divider)
              /\ pc = EarlyEnd + 7  => d = "UART2" /\ b.op = "BAUDDIV"
              /\ pc = EarlyEnd + 10 => d = "UART3" /\ b.op = "BAUDDIV"
         /\ pc > SetUpEnd => pc' > SetUpEnd /\ (d \in Uarts => b.op \notin UartSettings)
<1> DEFINE m == Demo!Main
           k == pc
           i == Current
           n == Distance(i)
<1>1. i = m[k] /\ k \in Int /\ k \in 1 .. Len(m) BY DemoPlace
<1>2. n = 1 \/ (i.op \in JumpOps /\ n = i.by) BY DEF Distance, JumpOps
<1>3. pc' = k + n BY DEF Performs, Executes, Jump
<1>4. /\ EarlyEnd \in Nat /\ Len(m) \in Nat /\ SetUpEnd = EarlyEnd + 11
      /\ Region(m, 0, EarlyEnd, Actions(Registers, EarlyIrqs), Conditions) /\ UartSetUpAt(m, EarlyEnd)
      /\ Phased(m, Actions(Registers, DemoIrqs), Actions(Always, DemoIrqs), Conditions, SetUpEnd)
  BY DemoPlaces DEF SetUpEnd
<1>5. \A R, I : i \in Actions(R, I) \cup Jumps(Conditions) =>
        /\ d \in Uarts /\ b.op = "DATA" => "UART2" \in I /\ i.op \in {"send", "bus"} /\ (i.op = "bus" => i.access = b)
        /\ d \in Uarts /\ b.op \in UartSettings => b.op \in R /\ d \in I /\ i.op = "bus" /\ i.dev = d /\ i.access = b
  BY Accessing
<1>6. i.op = "bus" => d = i.dev /\ b = i.access BY DEF Performs
<1> HIDE DEF m, i, n, k
<1>7. ASSUME k <= EarlyEnd
      PROVE  pc' <= EarlyEnd + 1 /\ (d \in Uarts => b.op # "DATA" /\ b.op \notin UartSettings)
  <2>1. /\ i \in Actions(Registers, EarlyIrqs) \cup Jumps(Conditions)
        /\ i.op \in JumpOps => i.by \in Int /\ k + i.by \in 1 .. EarlyEnd + 1
    BY <1>1, <1>4, <1>7 DEF Region
  <2>2. "UART2" \notin EarlyIrqs /\ \A h \in Uarts : h \notin EarlyIrqs BY DEF EarlyIrqs, Uarts
  <2>3. d \in Uarts => b.op # "DATA" /\ b.op \notin UartSettings BY <1>5, <2>1, <2>2
  <2>4. pc' <= EarlyEnd + 1 BY <1>1, <1>2, <1>3, <1>4, <1>7, <2>1
  <2> QED BY <2>3, <2>4
<1>8. ASSUME EarlyEnd < k, k <= SetUpEnd
      PROVE  /\ pc' = k + 1
             /\ d \in Uarts => b.op # "DATA" /\ (b.op = "BAUDDIV" => b.divider = Divider)
             /\ k = EarlyEnd + 7  => d = "UART2" /\ b.op = "BAUDDIV"
             /\ k = EarlyEnd + 10 => d = "UART3" /\ b.op = "BAUDDIV"
  <2>1. k \in EarlyEnd + 1 .. EarlyEnd + 11 /\ EarlyEnd \in Int BY <1>1, <1>4, <1>8
  <2>2. /\ i.op \in {"puts", "clear pending", "enable"} \/ (Settles(i) /\ i.op = "bus")
        /\ m[EarlyEnd + 7].op = "bus" /\ m[EarlyEnd + 7].dev = "UART2"
        /\ m[EarlyEnd + 7].access = WriteBaudDiv(Divider)
        /\ m[EarlyEnd + 10].op = "bus" /\ m[EarlyEnd + 10].dev = "UART3"
        /\ m[EarlyEnd + 10].access = WriteBaudDiv(Divider)
    BY <1>1, <1>4, <2>1, SetUpPlace
  <2>3. WriteBaudDiv(Divider).op = "BAUDDIV" /\ WriteBaudDiv(Divider).divider = Divider
    BY DEF WriteBaudDiv
  <2>4. /\ k = EarlyEnd + 7  => d = "UART2" /\ b.op = "BAUDDIV"
        /\ k = EarlyEnd + 10 => d = "UART3" /\ b.op = "BAUDDIV"
    BY <1>1, <1>6, <2>2, <2>3
  <2>5. i.op \notin JumpOps /\ i.op # "send" BY <2>2 DEF JumpOps
  <2>6. \E R, I : i \in Actions(R, I) \cup Jumps(Conditions) BY <1>1, <1>4, <1>8 DEF Phased
  <2>7. d \in Uarts => b.op # "DATA" /\ (b.op = "BAUDDIV" => b.divider = Divider)
    BY <1>5, <1>6, <2>2, <2>3, <2>5, <2>6 DEF Settles, UartSettings
  <2> QED BY <1>2, <1>3, <2>4, <2>5, <2>7
<1>9. ASSUME k > SetUpEnd PROVE pc' > SetUpEnd /\ (d \in Uarts => b.op \notin UartSettings)
  <2>1. i \in Actions(Always, DemoIrqs) \cup Jumps(Conditions) /\ (i.op \in JumpOps => k + i.by > SetUpEnd)
    BY <1>1, <1>4, <1>9 DEF Phased
  <2>2. Always \cap UartSettings = {} BY DEF Always, UartSettings
  <2>3. d \in Uarts => b.op \notin UartSettings BY <1>5, <2>1, <2>2
  <2>4. pc' > SetUpEnd BY <1>1, <1>2, <1>3, <1>4, <1>9, <2>1
  <2> QED BY <2>3, <2>4
<1> QED BY <1>7, <1>8, <1>9 DEF k

LEMMA FreshStep ==
  ASSUME ProgInv, image = "interrupt_demo", Fresh, Processor PROVE Fresh'
<1>1. /\ image # "any" /\ pc \in Int /\ EarlyEnd \in Nat /\ SetUpEnd = EarlyEnd + 11
      /\ "UART2" \in Uarts /\ "UART3" \in Uarts /\ "none" \notin Uarts
  BY DemoPlace, DemoPlaces DEF SetUpEnd, Uarts
<1>2. Turns BY <1>1, StepKinds, KindTurns
<1> DEFINE Sets(d, b, i) == d = i /\ b.op = "BAUDDIV"
           Keeps(d, b, i, p) == /\ pc > p \/ Sets(d, b, i)
                                /\ Sets(d, b, i) => b.divider = Divider
<1>3. ASSUME NEW d, NEW b, Devices(d, b),
             pc' <= SetUpEnd => pc <= SetUpEnd /\ (d \in Uarts => b.op # "DATA"),
             pc' > EarlyEnd + 7  => Keeps(d, b, "UART2", EarlyEnd + 7),
             pc' > EarlyEnd + 10 => Keeps(d, b, "UART3", EarlyEnd + 10)
      PROVE  Fresh'
  <2>1. pc' <= SetUpEnd => Unused' BY <1>2, <1>3, UnusedStep DEF Fresh
  <2>2. \A i \in Uarts : uart'[i].reg_baud_div = IF Sets(d, b, i) THEN b.divider ELSE uart[i].reg_baud_div
    BY <1>3, EndStep DEF ProgInv
  <2>3. pc' > EarlyEnd + 7 => uart'["UART2"].reg_baud_div = Divider BY <1>1, <1>3, <2>2 DEF Fresh
  <2>4. pc' > EarlyEnd + 10 => uart'["UART3"].reg_baud_div = Divider BY <1>1, <1>3, <2>2 DEF Fresh
  <2>5. SetUpEnd' = SetUpEnd /\ EarlyEnd' = EarlyEnd /\ Divider' = Divider BY DEF SetUpEnd, EarlyEnd
  <2> QED BY <2>1, <2>3, <2>4, <2>5 DEF Fresh
<1>4. ASSUME NEW d, NEW b, Devices(d, b), pc' = pc, d \in Uarts => b.op # "BAUDDIV",
             pc <= SetUpEnd => (d \in Uarts => b.op # "DATA")
      PROVE  Fresh'
  BY <1>1, <1>3, <1>4
<1>5. CASE Waits0 \/ Prints0
  BY <1>5, <1>1, <1>4 DEF Waits0, Prints0, NoDevice, Rests, Enters, Leaves
<1>6. ASSUME NEW d, NEW b, Performs(d, b), InHandler PROVE Fresh'
  <2> DEFINE i == Current
             t == Demo!Handlers[handler]
  <2>1. Devices(d, b) /\ pc' = pc BY <1>6 DEF Performs, Moves, Executes, Jump
  <2>2. handler \in DemoIrqs /\ i = t[hpc] /\ hpc \in 1 .. Len(t) BY <1>6, DemoPlace
  <2>3. /\ EndsIn(t, Actions(Always, DemoIrqs), Conditions, [op |-> "return"])
        /\ handler \in EarlyIrqs => EndsIn(t, Actions(Always, EarlyIrqs), Conditions, [op |-> "return"])
    BY <2>2, DemoHandlers
  <2>4. \A R, I : i \in Actions(R, I) \cup Jumps(Conditions) =>
          /\ d \in Uarts /\ b.op = "DATA" => "UART2" \in I
          /\ d \in Uarts /\ b.op \in UartSettings => b.op \in R
    BY <1>6, Accessing
  <2>5. Always \cap UartSettings = {} /\ "BAUDDIV" \in UartSettings /\ "UART2" \notin EarlyIrqs
    BY DEF Always, UartSettings, EarlyIrqs, Uarts
  <2> HIDE DEF i, t
  <2>6. i \in Actions(Always, DemoIrqs) \cup Jumps(Conditions) BY <2>2, <2>3 DEF EndsIn
  <2>7. d \in Uarts => b.op # "BAUDDIV" BY <2>4, <2>5, <2>6
  <2>8. ASSUME pc <= SetUpEnd, d \in Uarts PROVE b.op # "DATA"
    <3>1. handler \in EarlyIrqs BY <2>2, <2>8 DEF Fresh, Unused, EarlyIrqs
    <3>2. i \in Actions(Always, EarlyIrqs) \cup Jumps(Conditions) BY <2>2, <2>3, <3>1 DEF EndsIn
    <3> QED BY <2>4, <2>5, <2>8, <3>2
  <2> QED BY <1>4, <2>1, <2>7, <2>8
<1>7. ASSUME NEW d, NEW b, Performs(d, b), ~InHandler PROVE Fresh'
  <2>1. Devices(d, b) BY <1>7 DEF Performs, Moves
  <2> DEFINE U == d \in Uarts
             D == b.op = "DATA"
             B == b.op = "BAUDDIV"
  <2>2. /\ pc <= EarlyEnd => /\ pc' <= EarlyEnd + 1
                             /\ U => ~D /\ ~B
        /\ EarlyEnd < pc /\ pc <= SetUpEnd =>
              /\ pc' = pc + 1
              /\ U => ~D /\ (B => b.divider = Divider)
              /\ pc = EarlyEnd + 7  => Sets(d, b, "UART2")
              /\ pc = EarlyEnd + 10 => Sets(d, b, "UART3")
        /\ pc > SetUpEnd => pc' > SetUpEnd /\ (U => ~B)
    BY <1>7, FreshPlace DEF UartSettings
  <2>3. pc' \in Int BY SameImage, ProcessorStep, <1>1 DEF PlaceOK, Good, ProgInv
  <2>4. \A j \in Uarts : Sets(d, b, j) => U /\ B OBVIOUS
  <2> DEFINE q == pc'
  <2> HIDE DEF U, D, B, Sets, q
  <2>5. q <= SetUpEnd => pc <= SetUpEnd /\ (U => ~D) BY <1>1, <2>2, <2>3 DEF q
  <2>6. q > EarlyEnd + 7  => Keeps(d, b, "UART2", EarlyEnd + 7) BY <1>1, <2>2, <2>3, <2>4 DEF q
  <2>7. q > EarlyEnd + 10  => Keeps(d, b, "UART3", EarlyEnd + 10) BY <1>1, <2>2, <2>3, <2>4 DEF q
  <2> QED BY <1>3, <2>1, <2>5, <2>6, <2>7 DEF q, U, D, Sets
<1> QED BY <1>1, <1>5, <1>6, <1>7, LinkKinds

-----------------------------------------------------------------------------
(* timer_driver_tests.c leaves the UARTs alone.                            *)

TimerInv == image = "timer_driver_tests" => \A i \in Uarts : Free(i)

LEMMA TimerIrqs == IrqsOf("timer_driver_tests") = {"TIMER0"}
<1>1. {"DATAOUT", "OUTENABLESET"} \subseteq {"DATAOUT", "OUTENABLESET"} OBVIOUS
<1>2. DOMAIN TimerTests!Handlers = {"TIMER0"} BY <1>1, TimerTexts
<1> QED BY <1>2, Images DEF IrqsOf

LEMMA TimerInvStep ==
  ASSUME ProgInv, image = "timer_driver_tests", TimerInv, Processor PROVE \A i \in Uarts : Free(i)'
<1>1. image # "any" /\ "none" \notin Uarts /\ \A i \in Uarts : Free(i) BY DEF Uarts, TimerInv
<1>2. ASSUME NEW d, NEW b, Devices(d, b), d \in Uarts => b.op # "DATA", NEW i \in Uarts PROVE Free(i)'
  BY <1>1, <1>2, EndStep DEF ProgInv
<1>3. CASE Waits0 \/ Prints0 BY <1>1, <1>2, <1>3 DEF Waits0, Prints0, NoDevice
<1>4. ASSUME NEW d, NEW b, Performs(d, b), NEW i \in Uarts PROVE Free(i)'
  <2>1. Current \in Actions(Registers, {"TIMER0"}) \cup Jumps(Conditions)
    BY <1>1, CurrentFacts, TimerIrqs DEF ProgInv
  <2>2. d \in Uarts => b.op # "DATA" BY <1>4, <2>1, Accessing
  <2>3. Devices(d, b) BY <1>4 DEF Performs, Moves
  <2> QED BY <1>2, <2>2, <2>3
<1> QED BY <1>1, <1>3, <1>4, LinkKinds

-----------------------------------------------------------------------------
(* The programs configure the UARTs only while nothing is under way.       *)

SpeedInv == LineInv /\ FreshInv /\ TimerInv

LEMMA SpeedInit == Init => SpeedInv
<1> SUFFICES ASSUME Init PROVE Line /\ Fresh /\ \A i \in Uarts : Free(i)
  BY DEF SpeedInv, LineInv, FreshInv, TimerInv
<1>1. /\ pc = 1 /\ printing = 0 /\ handler = "none" /\ nvic.pending = {}
      /\ uart = [i \in Uarts |-> ResetUart]
  BY DEF Init, LinkInit
<1>2. "UART2" \in Uarts /\ "UART3" \in Uarts /\ "none" \notin Uarts BY DEF Uarts
<1>3. \A i \in Uarts : uart[i].tx = 0 /\ ~uart[i].tx_buf_full /\ uart[i].intr = {}
  BY <1>1 DEF ResetUart
<1>4. Unused /\ \A i \in Uarts : Free(i) BY <1>1, <1>2, <1>3 DEF Unused, Free
<1>5. Fresh
  <2>1. EarlyEnd \in Nat BY DemoPlaces
  <2>2. ~(1 > EarlyEnd + 7) /\ ~(1 > EarlyEnd + 10) BY <2>1
  <2> QED BY <1>1, <1>4, <2>2 DEF Fresh
<1>6. Line
  <2>1. Left(uart["UART2"]) = 0 BY <1>2, <1>3 DEF Left
  <2>2. AgainAt \in Nat /\ FrameTime \in Nat BY UartPlaces, Times
  <2>3. uart["UART2"].tx <= FrameTime + 1 /\ 1 # AgainAt + 3 BY <1>2, <1>3, <2>2
  <2> QED BY <1>1, <1>2, <1>4, <2>1, <2>3 DEF Line
<1> QED BY <1>4, <1>5, <1>6

LEMMA SpeedStep ==
  ASSUME CharsPerFrame <= 20, ProgInv, SpeedInv, [Next]_allVars PROVE SpeedInv'
<1>1. CASE UNCHANGED allVars
  <2>1. UNCHANGED <<image, pc, handler, nvic, printing, uart>>
    BY <1>1 DEF allVars, hwVars, linkVars, progVars
  <2>2. LineInv' BY <2>1 DEF SpeedInv, LineInv, Line, Free, Left
  <2>3. FreshInv' /\ TimerInv' BY <2>1 DEF SpeedInv, FreshInv, Fresh, Unused, TimerInv, Free
  <2> QED BY <2>2, <2>3 DEF SpeedInv
<1>2. CASE AnySoftware BY <1>2 DEF SpeedInv, LineInv, FreshInv, TimerInv, AnySoftware, progVars
<1>3. CASE image # "any" /\ Processor
  <2>1. image' = image /\ ProgInv' BY <1>3, SameImage, ProcessorStep DEF Good
  <2>2. LineInv' BY <1>3, <2>1, LineStep DEF SpeedInv, LineInv
  <2>3. FreshInv' BY <1>3, <2>1, FreshStep DEF SpeedInv, FreshInv
  <2>4. TimerInv' BY TimerInvStep, <1>3, <2>1 DEF TimerInv, SpeedInv
  <2> QED BY <2>2, <2>3, <2>4 DEF SpeedInv
<1> QED BY <1>1, <1>2, <1>3 DEF Next, Ended

\* An instruction that may follow while a byte is under way.
Calm0(i) == i.op = "bus" /\ i.dev \in Uarts => i.access.op \notin {"CTRL", "BAUDDIV"}

LEMMA UartTestsConfigure ==
  ASSUME ProgInv, image = "uart_driver_tests", Line, ~Quiet
  PROVE  uart["UART2"].reg_baud_div = uart["UART3"].reg_baud_div /\ Calm0(Current)
<1> DEFINE k == pc
           i == Current
           L == Left(uart["UART2"])
<1>1. /\ k \in 1 .. Len(UartTests!Main) /\ k \in Int /\ printing \in Nat
      /\ ~InHandler => i = UartTests!Main[k]
      /\ InHandler => i \in LinkOps \cup Jumps(Conditions)
  BY UartPlace
<1>2. L \in Nat /\ L # 0
  <2>1. uart["UART2"] \in Uart BY DEF ProgInv, DevicesOK, LinkTypeOK, Uarts
  <2>2. ~Free("UART2") BY DEF Quiet, Line, Free, Uarts
  <2> QED BY <2>1, <2>2, LeftIsNone DEF Free
<1>3. ~Dry(k)
  <2>1. L + printing <= Bound(k) BY <1>2 DEF Line
  <2>2. Dry(k) => Bound(k) = 0 BY DEF Bound
  <2> HIDE DEF L, k
  <2> QED BY <1>1, <1>2, <2>1, <2>2
<1>4. k > 10 BY <1>1, <1>3 DEF Dry
<1>5. uart["UART2"].reg_baud_div = Divider /\ uart["UART3"].reg_baud_div = Divider
  BY <1>1, <1>4 DEF Line
<1>6. CASE InHandler
  <2> HIDE DEF i
  <2>1. Calm0(i) BY <1>1, <1>6 DEF LinkOps, Jumps, UartAccesses, UartSettings, Calm0
  <2> QED BY <1>5, <2>1 DEF i
<1>7. CASE ~InHandler
  <2>1. ASSUME i.op = "bus" PROVE Calm0(i)
    <3>1. k # AgainAt + 3 BY DEF Line
    <3> HIDE DEF i, k
    <3>2. Fits(k, i, k + 1) BY <1>1, <1>7, <2>1, <3>1, Fitting
    <3> QED BY <1>3, <3>2 DEF Fits, Calm0, UartSettings
  <2>2. i.op # "bus" => Calm0(i) BY DEF Calm0
  <2> QED BY <1>5, <2>1, <2>2
<1> QED BY <1>6, <1>7

LEMMA DemoConfigures ==
  ASSUME ProgInv, image = "interrupt_demo", Fresh, ~Quiet
  PROVE  uart["UART2"].reg_baud_div = uart["UART3"].reg_baud_div /\ Calm0(Current)
<1> DEFINE i == Current
<1>1. /\ pc \in 1 .. Len(Demo!Main) /\ pc \in Int
      /\ ~InHandler => i = Demo!Main[pc]
      /\ InHandler => /\ handler \in DemoIrqs /\ hpc \in 1 .. Len(Demo!Handlers[handler])
                      /\ i = Demo!Handlers[handler][hpc]
  BY DemoPlace
<1>2. /\ EarlyEnd \in Nat /\ SetUpEnd = EarlyEnd + 11
      /\ Phased(Demo!Main, Actions(Registers, DemoIrqs), Actions(Always, DemoIrqs), Conditions, SetUpEnd)
  BY DemoPlaces DEF SetUpEnd
<1>3. pc > SetUpEnd BY <1>1, <1>2 DEF Fresh, Unused, Free, Quiet
<1>4. uart["UART2"].reg_baud_div = Divider /\ uart["UART3"].reg_baud_div = Divider
  BY <1>1, <1>2, <1>3 DEF Fresh
<1>5. i \in Actions(Always, DemoIrqs) \cup Jumps(Conditions)
  <2>1. CASE InHandler BY DemoHandlers, <1>1, <2>1 DEF EndsIn
  <2>2. CASE ~InHandler BY <1>1, <1>2, <1>3, <2>2 DEF Phased
  <2> QED BY <2>1, <2>2
<1> HIDE DEF i
<1>6. Calm0(i) BY BusFields, <1>5 DEF Calm0, Always, UartSettings
<1> QED BY <1>4, <1>6 DEF i

LEMMA SpeedKept == ASSUME ProgInv, SpeedInv PROVE ConfiguredWhenQuiet
<1> SUFFICES ASSUME image # "any", ~Quiet
             PROVE  uart["UART2"].reg_baud_div = uart["UART3"].reg_baud_div /\ Calm0(Current)
  BY DEF ConfiguredWhenQuiet, Calm0
<1>1. image # "timer_driver_tests" BY DEF SpeedInv, TimerInv, Free, Quiet
<1>2. image \in {"uart_driver_tests", "interrupt_demo", "timer_driver_tests"}
  BY Images DEF ProgInv, PlaceOK
<1> QED BY <1>1, <1>2, UartTestsConfigure, DemoConfigures DEF SpeedInv, LineInv, FreshInv

\* A program writes CTRL or BAUDDIV of a UART only while no byte is in a buffer
\* or on the line, and both ends have the same divider whenever one is: no
\* driver waits for that (CM3DS_MPS2_driver.c:289-291), and uart_driver_tests.c:304-305
\* and 339-340 rely on the time that the prints before them take.  The print with
\* the fewest characters that must outlast a frame has 20 of them; if more were
\* printed in a frame, a byte could still be on its way.
THEOREM ProgramsConfigureWhenQuiet == CharsPerFrame <= 20 => (Spec => []ConfiguredWhenQuiet)
<1> SUFFICES ASSUME CharsPerFrame <= 20 PROVE Spec => []ConfiguredWhenQuiet
  OBVIOUS
<1>1. Init => ProgInv /\ SpeedInv BY ProgInit, SpeedInit
<1>2. ProgInv /\ SpeedInv /\ [Next]_allVars => ProgInv' /\ SpeedInv' BY ProgStep, SpeedStep
<1>3. ProgInv /\ SpeedInv => ConfiguredWhenQuiet BY SpeedKept
<1> QED BY <1>1, <1>2, <1>3, PTL DEF Spec

\* So each step of the programs, their handlers' included, is one of the byte
\* channel that keeps its bytes in order (ByteChannel), with no condition left.
THEOREM ProgramsImplementChannel == CharsPerFrame <= 20 => (Spec => ChannelSpec)
BY ProgramsConfigureWhenQuiet, ProgramsUseTheChannel, PTL
==============================================================================
