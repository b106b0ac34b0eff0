--------------------------- MODULE MCDualTimerDemo ---------------------------
EXTENDS DualTimerDemo

\* The cycle counts in their order, as many as fit in a halfword.  A period
\* of the longer ones leaves main() some edges beside the handler.
MCLoad(n) == [hi |-> 0, lo |-> n]
MCCycles == [c \in {5000, 3000, 2000, 1000, 200, 100, 20} |->
              CASE c = 5000 -> MCLoad(15) [] c = 3000 -> MCLoad(14) [] c = 2000 -> MCLoad(9)
                [] c = 1000 -> MCLoad(6)  [] c = 200  -> MCLoad(3)  [] c = 100  -> MCLoad(2)
                [] c = 20   -> MCLoad(1)]

\* Arbitrary software: off, free running, periodic and one-shot, both sizes.
MCCtrlOf(en, mode, pre, size, one_shot) ==
  [en |-> en, mode |-> mode, inten |-> TRUE, pre |-> pre, size |-> size, one_shot |-> one_shot]
MCCtrlValues == {MCCtrlOf(FALSE, FALSE, 0, FALSE, FALSE), MCCtrlOf(TRUE, FALSE, 0, TRUE, FALSE),
                 MCCtrlOf(TRUE, TRUE, 0, FALSE, FALSE), MCCtrlOf(TRUE, TRUE, 1, TRUE, FALSE),
                 MCCtrlOf(TRUE, TRUE, 0, TRUE, TRUE)}
\* Zero, and a value with an empty low halfword that takes a borrow to count down.
MCLoadValues == {Zero, [hi |-> 1, lo |-> 0]}
=============================================================================
