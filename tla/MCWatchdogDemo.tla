--------------------------- MODULE MCWatchdogDemo ---------------------------
EXTENDS WatchdogDemo
MCLong   == [hi |-> 5, lo |-> 0]
MCShort  == [hi |-> 2, lo |-> 8]
MCFiller == [hi |-> 15, lo |-> 15]
MCLoadValues == {MCLong, MCShort, MCFiller}
MCItop == {[int |-> FALSE, res |-> FALSE], [int |-> TRUE, res |-> FALSE]}
MCClear == {{"wdog"}}
=============================================================================
