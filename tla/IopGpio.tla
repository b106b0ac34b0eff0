-------------------------------- MODULE IopGpio --------------------------------
(***************************************************************************)
(* One GPIO port (cmsdk_iop_gpio.v): its registers, each the set of the    *)
(* pins whose bit is set, and what an edge of its clock makes of them.     *)
(* A write takes effect in the data phase of its AHB transfer.             *)
(***************************************************************************)
CONSTANT Pins

Gpio == [reg_dout : SUBSET Pins, reg_douten : SUBSET Pins, reg_inten : SUBSET Pins,
         reg_inttype : SUBSET Pins, reg_intpol : SUBSET Pins, reg_intstat : SUBSET Pins,
         reg_in_sync1 : SUBSET Pins, reg_in_sync2 : SUBSET Pins,
         reg_last_datain : SUBSET Pins]

ResetGpio == [reg_dout |-> {}, reg_douten |-> {}, reg_inten |-> {},
              reg_inttype |-> {}, reg_intpol |-> {}, reg_intstat |-> {},
              reg_in_sync1 |-> {}, reg_in_sync2 |-> {}, reg_last_datain |-> {}]

-----------------------------------------------------------------------------
(* The bus: a register and the pins whose bits are written as one.         *)

GpioIdle     == [op |-> "none", pins |-> {}]
GpioWrite(r, P) == [op |-> r, pins |-> P]

\* A register with an address that sets bits and one that clears them.
SetOrClear(old, b, set, clear) == CASE b.op = set   -> old \cup b.pins
                                    [] b.op = clear -> old \ b.pins
                                    [] OTHER        -> old

-----------------------------------------------------------------------------
reg_datain(g) == g.reg_in_sync2

high_level_int(g) == (reg_datain(g) \cap g.reg_intpol) \ g.reg_inttype
low_level_int(g)  == (Pins \ reg_datain(g)) \ (g.reg_intpol \cup g.reg_inttype)
rise_edge_int(g)  == (reg_datain(g) \ g.reg_last_datain) \cap g.reg_intpol \cap g.reg_inttype
fall_edge_int(g)  == ((g.reg_last_datain \ reg_datain(g)) \cap g.reg_inttype) \ g.reg_intpol
new_raw_int(g)    == high_level_int(g) \cup low_level_int(g)
                       \cup rise_edge_int(g) \cup fall_edge_int(g)
new_masked_int(g) == new_raw_int(g) \cap g.reg_inten

\* A new interrupt outlives the clear of the last one.
nxt_intstat(g, b) ==
  (IF b.op = "INTCLEAR" THEN g.reg_intstat \ b.pins ELSE g.reg_intstat)
    \cup new_masked_int(g)

\* The last pins are kept while some pin is edge-triggered.
keeps_lastOnceEnabled(g) == g.reg_inttype \cap g.reg_inten # {}   \* (fault)
keeps_last(g) == g.reg_inttype # {}

GpioEdge(g, b, portin) ==
  [reg_dout    |-> IF b.op = "DATAOUT" THEN b.pins ELSE g.reg_dout,
   reg_douten  |-> SetOrClear(g.reg_douten, b, "OUTENABLESET", "OUTENABLECLR"),
   reg_inten   |-> SetOrClear(g.reg_inten, b, "INTENSET", "INTENCLR"),
   reg_inttype |-> SetOrClear(g.reg_inttype, b, "INTTYPESET", "INTTYPECLR"),
   reg_intpol  |-> SetOrClear(g.reg_intpol, b, "INTPOLSET", "INTPOLCLR"),
   reg_intstat |-> nxt_intstat(g, b),
   reg_in_sync1 |-> portin,
   reg_in_sync2 |-> g.reg_in_sync1,
   reg_last_datain |-> IF keeps_last(g) THEN reg_datain(g) ELSE g.reg_last_datain]

\* The wires: a pin that is an output reads as what drives it.
PORTIN(g, outside) == (g.reg_dout \cap g.reg_douten) \cup (outside \ g.reg_douten)
=============================================================================
