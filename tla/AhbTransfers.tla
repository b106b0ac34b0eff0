---------------------------- MODULE AhbTransfers ----------------------------
(***************************************************************************)
(* The AHB transfers that software makes to word-organised devices, and    *)
(* what one of them does to a memory.                                      *)
(***************************************************************************)
EXTENDS Integers

CONSTANTS
  Words,       \* word addresses of the device
  Bytes,       \* values of a byte lane
  Transfers    \* the transfers the master makes

Lanes == 0 .. 3
Data  == [Lanes -> Bytes]
Zero  == [i \in Lanes |-> 0]

\* low is HADDR[1:0]; size is in bytes (HSIZE is its logarithm).
AllTransfers == [word : Words, low : Lanes, size : {1, 2, 4},
                 write : BOOLEAN, data : Data]
Aligned(t) == \/ t.size = 1
              \/ t.size = 2 /\ t.low \in {0, 2}
              \/ t.size = 4 /\ t.low = 0

ASSUME TransferAssumption ==
  /\ 0 \in Words /\ 0 \in Bytes
  /\ Transfers \subseteq AllTransfers
  /\ \A t \in Transfers : Aligned(t)

\* The bytes a transfer names.
LanesOf(t) == t.low .. t.low + t.size - 1

Merge(old, new, lanes) == [i \in Lanes |-> IF i \in lanes THEN new[i] ELSE old[i]]

\* What the master takes from a response with data d.
Taken(t, d) == IF t.write THEN Zero ELSE Merge(Zero, d, LanesOf(t))
=============================================================================
