--------------------------- MODULE MCAhbBusMatrix ---------------------------
EXTENDS AhbBusMatrix

Beat(m, to, burst, addr, lock, write, data) ==
  [master |-> m, trans |-> "NONSEQ", to |-> to, burst |-> burst, addr |-> addr,
   beat |-> 1, lock |-> lock, write |-> write, data |-> data]
Read(m, to)        == Beat(m, to, "SINGLE", 0, 0, FALSE, 0)
Write(m, to, data) == Beat(m, to, "SINGLE", 0, 0, TRUE, data)

\* Two masters, two slaves and an address without one.
SharingRequests == <<{Write(1, 1, 1), Read(1, 2), Read(1, 3)},
                     {Read(2, 1), Write(2, 2, 1)}>>
SharingIdles == {[to |-> 1, lock |-> 0]}

\* Three masters of one slave: one makes bursts of undefined length all the
\* time, one makes wrapping bursts, and one locks the slave, with idle phases
\* inside the locked sequence that do not select it.
ReadBurst(m, to, burst, addr) == Beat(m, to, burst, addr, 0, FALSE, 0)
LockedRead(m, to, lock) == Beat(m, to, "SINGLE", 0, lock, FALSE, 0)
ContendingRequests == <<{ReadBurst(1, 2, "INCR", 0)},
                        {ReadBurst(2, 2, "WRAP4", 2), Read(2, 2)},
                        {LockedRead(3, 2, 2), Read(3, 2)}>>
ContendingIdles == {[to |-> 1, lock |-> 2]}

\* A locked sequence that addresses another slave in its middle.
RoamingRequests == <<{LockedRead(1, 1, 1), LockedRead(1, 2, 1)}, {Read(2, 2)}>>
RoamingIdles == {[to |-> 1, lock |-> 0]}
=============================================================================
