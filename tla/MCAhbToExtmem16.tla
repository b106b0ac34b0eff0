-------------------------- MODULE MCAhbToExtmem16 --------------------------
EXTENDS AhbToExtmem16

Ones == [i \in Lanes |-> 1]
Transfer(word, low, size, write, data) ==
  [word |-> word, low |-> low, size |-> size, write |-> write, data |-> data]

\* Every size is written, on either half.  A read of a word or half word reads
\* its bytes one by one on the narrow memory; half words are read from word 1.
MCTransfers == {Transfer(0, 0, 4, FALSE, Zero), Transfer(0, 0, 4, TRUE, Zero),
                Transfer(1, 2, 2, FALSE, Zero), Transfer(0, 0, 2, TRUE, Ones),
                Transfer(0, 3, 1, TRUE, Ones)}

\* Both widths; the three waits differ, so that none is taken for another.
MCConfigs == {[size |-> 16, read |-> 0, write |-> 1, turn |-> 2],
              [size |-> 8, read |-> 1, write |-> 0, turn |-> 0]}
MCPowerUp == {[i \in Lanes |-> IF i = 2 THEN 0 ELSE 1]}
=============================================================================
