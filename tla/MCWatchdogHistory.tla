-------------------------- MODULE MCWatchdogHistory --------------------------
EXTENDS WatchdogHistory, WatchdogRefinement

\* Zero, a value with an empty high halfword, one with an empty low halfword.
MCLoadValues == {Zero, [hi |-> 0, lo |-> 1], [hi |-> 1, lo |-> 0]}
=============================================================================
