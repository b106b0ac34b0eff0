---------------------------- MODULE MCWatchdogSoC ----------------------------
EXTENDS WatchdogSoC
MCLoadOne == {[hi |-> 0, lo |-> 2]}
MCItop == {[int |-> FALSE, res |-> FALSE], [int |-> TRUE, res |-> TRUE]}
MCClearBoth == {{"wdog", "sys"}}
=============================================================================
