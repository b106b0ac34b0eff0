----------------------------- MODULE MCAhbToApb -----------------------------
EXTENDS AhbToApb

Ones == [i \in Lanes |-> 1]
Transfer(low, size, write, data) ==
  [word |-> 0, low |-> low, size |-> size, write |-> write, data |-> data]
ReadWord == Transfer(0, 4, FALSE, Zero)

MCTransfers == {ReadWord, Transfer(0, 4, TRUE, Zero), Transfer(2, 2, TRUE, Ones)}
=============================================================================
