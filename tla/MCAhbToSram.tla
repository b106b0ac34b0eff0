---------------------------- MODULE MCAhbToSram ----------------------------
EXTENDS AhbToSram

Ones == [i \in Lanes |-> 1]
Transfer(word, low, size, write, data) ==
  [word |-> word, low |-> low, size |-> size, write |-> write, data |-> data]

\* Both words are read and written; a byte and a halfword overlap a word.
MCTransfers == {Transfer(0, 0, 4, FALSE, Zero), Transfer(1, 0, 4, FALSE, Zero),
                Transfer(0, 1, 1, TRUE, Ones), Transfer(0, 0, 4, TRUE, Zero),
                Transfer(1, 2, 2, TRUE, Ones)}
MCPowerUp == {Zero, Ones}
=============================================================================
