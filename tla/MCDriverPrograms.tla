--------------------------- MODULE MCDriverPrograms ---------------------------
EXTENDS DriverPrograms
MCCtrl == {{}, {"tx", "txirq", "rx", "rxirq"}}
MCtransmit == <<"h", "e", "l", "l", "o", " ", "w", "o", "r", "l", "d", "end">>
MCScaled == ("0x100" :> 2) @@ ("0x12C" :> 3) @@ ("0xF00" :> 34) @@ ("0x1f00" :> 4)
=============================================================================
