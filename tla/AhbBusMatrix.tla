---------------------------- MODULE AhbBusMatrix ----------------------------
(***************************************************************************)
(* The interconnect of the SoC, p_beid_interconnect_f0_ahb_mtx: an input   *)
(* stage and a decoder for each master, an output stage with its arbiter   *)
(* for each slave.  A step is a rising edge of HCLK, or the reset.         *)
(*                                                                         *)
(* An input stage accepts a transfer at once and keeps it until the        *)
(* arbiter of the slave lets it pass; the master waits in its data phase.  *)
(* The ports are numbered as in the decoder and the arbiter; HSELS is tied *)
(* high for every master of the SoC.  Masters and slaves are external.     *)
(***************************************************************************)
EXTENDS Integers

CONSTANTS
  NMasters, NSlaves,
  Requests,     \* for each master, the first beats of the bursts it makes
  Idles,        \* the idle address phases masters make
  Busy,         \* whether masters insert BUSY cycles
  Values,       \* what a word of a slave holds
  Responses,    \* what slaves do in a cycle of a data phase
  MaxIncr       \* bound: beats of a burst of undefined length

Masters == 1 .. NMasters
Slaves  == 1 .. NSlaves
Default == NSlaves + 1              \* the decoder's own default slave
Ports   == 1 .. Default

Bursts == {"SINGLE", "INCR", "WRAP4", "INCR4", "WRAP8", "INCR8", "WRAP16", "INCR16"}
Wraps  == {"WRAP4", "WRAP8", "WRAP16"}
Length(b) == IF b = "SINGLE" THEN 1
             ELSE IF b = "INCR" THEN MaxIncr
             ELSE IF b \in {"WRAP4", "INCR4"} THEN 4
             ELSE IF b \in {"WRAP8", "INCR8"} THEN 8 ELSE 16

\* An address phase.  addr is the word offset modulo 16, beat the position in
\* the burst; lock is 0, or the slave whose locked sequence this belongs to.
Phases == [master : Masters, trans : {"IDLE", "BUSY", "NONSEQ", "SEQ"}, to : Ports,
           burst : Bursts, addr : 0 .. 15, beat : 1 .. 16,
           lock : {0} \cup Slaves, write : BOOLEAN, data : Values]

ASSUME MatrixAssumption ==
  /\ NMasters \in Nat \ {0} /\ NSlaves \in Nat \ {0}
  /\ MaxIncr \in 1 .. 16 /\ Busy \in BOOLEAN /\ 0 \in Values
  /\ DOMAIN Requests = Masters
  /\ \A m \in Masters : \A r \in Requests[m] :
       r \in Phases /\ r.master = m /\ r.trans = "NONSEQ" /\ r.beat = 1
  /\ "okay" \in Responses /\ Responses \subseteq {"wait", "okay", "error"}
  /\ Idles \subseteq [to : Ports, lock : {0} \cup Slaves]

VARIABLES
  \* input stage and decoder of each master
  reg, pend_tran_reg,    \* the holding register, and whether it is in use
  data_valid,            \* a transfer is in its data phase
  burst_override, bound, \* the rest of an interrupted burst is made an INCR
  data_out_port,         \* the port of the data phase
  dft,                   \* response of the default slave
  \* output stage and arbiter of each slave
  no_port, addr_in_port, \* the master that drives the address
  data_in_port,          \* the master that drives the write data
  slave_sel, hsel_lock,
  reg_burst_remain, reg_burst_hold, reg_early_incr_count,
  \* the masters
  haddr, hdata,          \* address and data phase
  got,                   \* the last response
  \* the slaves
  phase,                 \* the transfer sampled last
  resp,                  \* the response in the data phase
  mem                    \* the word stored

inputVars  == <<reg, pend_tran_reg, data_valid, burst_override, bound, data_out_port, dft>>
outputVars == <<no_port, addr_in_port, data_in_port, slave_sel, hsel_lock,
                reg_burst_remain, reg_burst_hold, reg_early_incr_count>>
masterVars == <<haddr, hdata, got>>
slaveVars  == <<phase, resp, mem>>
vars == <<inputVars, outputVars, masterVars, slaveVars>>

\* The functions f on I such that <<i, f[i]>> is one of the pairs, for each i.
Choices(I, pairs) ==
  {f \in [I -> {p[2] : p \in pairs}] : \A i \in I : <<i, f[i]>> \in pairs}

IsActive(x) == x.trans \in {"NONSEQ", "SEQ"}

-----------------------------------------------------------------------------
(* Input stage: what it presents to the decoder and the output stages.     *)

bound_next(x) == x.burst \in Wraps /\ (x.addr + 1) % Length(x.burst) = 0

held(m) == IF pend_tran_reg[m] THEN [reg[m] EXCEPT !.trans = "NONSEQ"] ELSE haddr[m]
transb(m) == IF pend_tran_reg[m] THEN reg[m].trans ELSE haddr[m].trans

trans_ip(m) ==
  IF burst_override[m] /\ bound[m]
    THEN IF IsActive(held(m)) THEN "NONSEQ" ELSE "IDLE"
    ELSE held(m).trans
burst_ip(m) ==
  IF burst_override[m] /\ transb(m) # "NONSEQ" THEN "INCR" ELSE held(m).burst

ip(m) == [held(m) EXCEPT !.trans = trans_ip(m), !.burst = burst_ip(m)]

\* The decoder leaves an idle master on its last port, unless the address is
\* that of a port it looks at earlier.
addr_out_port(m) ==
  LET last == data_out_port[m]
  IN  IF trans_ip(m) = "IDLE" /\ 0 < last /\ last < held(m).to THEN last ELSE held(m).to

-----------------------------------------------------------------------------
(* Output stage.                                                           *)

Active(m, s) == ~no_port[s] /\ addr_in_port[s] = m

HSELM(s)   == ~no_port[s] /\ addr_out_port(addr_in_port[s]) = s
HTRANSM(s) == IF no_port[s] THEN "IDLE" ELSE trans_ip(addr_in_port[s])
HBURSTM(s) == IF no_port[s] THEN "SINGLE" ELSE burst_ip(addr_in_port[s])
HMASTLOCKM(s) == ~no_port[s] /\ held(addr_in_port[s]).lock # 0
HREADYOUTM(s) == resp[s] \notin {"wait", "error"}
HREADYMUXM(s) == slave_sel[s] => HREADYOUTM(s)
\* (fault) write data selected with the address
HWDATAM_of_address(s) == IF addr_in_port[s] = 0 THEN 0 ELSE hdata[addr_in_port[s]].data
HWDATAM(s) == IF data_in_port[s] = 0 THEN 0 ELSE hdata[data_in_port[s]].data

\* (fault) a lock that ends when the slave is deselected
next_hsel_lock_selected(s) == HMASTLOCKM(s) /\ HSELM(s) /\ HTRANSM(s) \in {"NONSEQ", "SEQ"}
next_hsel_lock(s) ==
  /\ HMASTLOCKM(s)
  /\ hsel_lock[s] \/ (HSELM(s) /\ HTRANSM(s) \in {"NONSEQ", "SEQ"})
hlock_arb(s) == HMASTLOCKM(s) /\ (hsel_lock[s] \/ HSELM(s))

-----------------------------------------------------------------------------
(* Responses to the masters.                                               *)

active_ip(m) == LET p == addr_out_port(m) IN p = Default \/ Active(m, p)

resp_ip(m) == IF data_out_port[m] = Default THEN dft[m]
              ELSE IF data_out_port[m] = 0 THEN "idle" ELSE resp[data_out_port[m]]
readyout_ip(m) == IF data_out_port[m] \in Slaves THEN HREADYMUXM(data_out_port[m])
                                                 ELSE dft[m] # "error"
HREADYOUTS(m) == data_valid[m] => ~pend_tran_reg[m] /\ readyout_ip(m)
HREADYS(m) == HREADYOUTS(m)
HRESPS(m)  == IF data_valid[m] /\ ~pend_tran_reg[m] THEN resp_ip(m) ELSE "okay"

load_reg(m)  == IsActive(haddr[m]) /\ HREADYS(m)
held_tran(m) == load_reg(m) \/ pend_tran_reg[m]
\* (fault) the holding register given up at a busy slave
pend_tran_busy(m) == (load_reg(m) \/ pend_tran_reg[m]) /\ ~active_ip(m)
pend_tran(m) == IF load_reg(m) /\ ~active_ip(m) THEN TRUE
                ELSE IF active_ip(m) /\ readyout_ip(m) THEN FALSE
                ELSE pend_tran_reg[m]

burst_override_next(m) ==
  /\ haddr[m].trans \notin {"NONSEQ", "IDLE"}
  /\ burst_override[m] \/ (haddr[m].trans = "SEQ" /\ load_reg(m) /\ ~active_ip(m))

InputEdge ==
  /\ reg' = [m \in Masters |-> IF load_reg(m) THEN haddr[m] ELSE reg[m]]
  /\ pend_tran_reg' = [m \in Masters |-> pend_tran(m)]
  /\ data_valid' = [m \in Masters |->
       IF HREADYS(m) THEN IsActive(haddr[m]) ELSE data_valid[m]]
  /\ burst_override' = [m \in Masters |->
       IF HREADYS(m) THEN burst_override_next(m) ELSE burst_override[m]]
  /\ bound' = [m \in Masters |-> IF load_reg(m) THEN bound_next(haddr[m]) ELSE bound[m]]
  /\ data_out_port' = [m \in Masters |->
       IF HREADYS(m) THEN addr_out_port(m) ELSE data_out_port[m]]

DefaultSlaveEdge ==
  dft' = [m \in Masters |->
    IF dft[m] = "error" THEN "error2"
    ELSE IF HREADYS(m) /\ addr_out_port(m) = Default
                       /\ trans_ip(m) \in {"NONSEQ", "SEQ"} THEN "error" ELSE "okay"]

-----------------------------------------------------------------------------
(* Arbiter: round robin, held through a locked sequence, a burst of        *)
(* defined length, and the first four beats of one that is not.            *)

req_port(m, s) == held_tran(m) /\ addr_out_port(m) = s

Distance(m, n) == IF n > m THEN n - m ELSE n - m + NMasters
NextPort(s) ==
  LET now == IF no_port[s] THEN NMasters ELSE addr_in_port[s]
      others == {m \in Masters : req_port(m, s) /\ (no_port[s] \/ m # now)}
  IN  IF others = {} THEN 0
      ELSE CHOOSE m \in others : \A n \in others : Distance(now, m) <= Distance(now, n)

FirstRemain(b) == IF b = "SINGLE" THEN 0 ELSE IF b = "INCR" THEN 2 ELSE Length(b) - 2

\* (fault) a BUSY cycle that ends the hold
next_burst_hold_not_busy(s) ==
  /\ HSELM(s)
  /\ \/ /\ HTRANSM(s) = "NONSEQ" /\ HBURSTM(s) # "SINGLE"
        /\ HBURSTM(s) = "INCR" => reg_early_incr_count[s] # 1
     \/ HTRANSM(s) = "SEQ" /\ reg_burst_remain[s] # 0 /\ reg_burst_hold[s]
next_burst_hold(s) ==
  /\ HSELM(s)
  /\ \/ /\ HTRANSM(s) = "NONSEQ" /\ HBURSTM(s) # "SINGLE"
        /\ HBURSTM(s) = "INCR" => reg_early_incr_count[s] # 1
     \/ HTRANSM(s) = "SEQ" /\ reg_burst_remain[s] # 0 /\ reg_burst_hold[s]
     \/ HTRANSM(s) = "BUSY" /\ reg_burst_hold[s]

next_burst_remain(s) ==
  IF ~HSELM(s) \/ HTRANSM(s) = "IDLE" THEN 0
  ELSE IF HTRANSM(s) = "NONSEQ"
    THEN IF next_burst_hold(s) THEN FirstRemain(HBURSTM(s)) ELSE 0
  ELSE IF HTRANSM(s) = "SEQ" /\ reg_burst_remain[s] # 0 THEN reg_burst_remain[s] - 1
  ELSE reg_burst_remain[s]

\* (fault) bursts that end early are not counted
next_early_incr_count_none(s) == 0
next_early_incr_count(s) ==
  IF ~next_burst_hold(s) THEN 0
  ELSE IF reg_burst_hold[s] /\ HTRANSM(s) = "NONSEQ"
    THEN (reg_early_incr_count[s] + 1) % 4
    ELSE reg_early_incr_count[s]

Hold(s) == hlock_arb(s) \/ next_burst_hold(s)

next_addr_in_port(s) ==
  IF Hold(s) \/ NextPort(s) = 0 THEN addr_in_port[s] ELSE NextPort(s)
\* (fault) the first port taken without a request
next_no_port_at_first(s) == ~Hold(s) /\ NextPort(s) = 0 /\ ~HSELM(s) /\ ~no_port[s]
next_no_port(s) == ~Hold(s) /\ NextPort(s) = 0 /\ ~HSELM(s)

\* The registers of an output stage are enabled by HREADYMUXM.
Ready(s, new, old) == IF HREADYMUXM(s) THEN new ELSE old

OutputEdge ==
  /\ no_port' = [s \in Slaves |-> Ready(s, next_no_port(s), no_port[s])]
  /\ addr_in_port' = [s \in Slaves |-> Ready(s, next_addr_in_port(s), addr_in_port[s])]
  /\ data_in_port' = [s \in Slaves |-> Ready(s, addr_in_port[s], data_in_port[s])]
  /\ slave_sel' = [s \in Slaves |-> Ready(s, HSELM(s), slave_sel[s])]
  /\ hsel_lock' = [s \in Slaves |-> Ready(s, next_hsel_lock(s), hsel_lock[s])]
  /\ reg_burst_remain' =
       [s \in Slaves |-> Ready(s, next_burst_remain(s), reg_burst_remain[s])]
  /\ reg_burst_hold' =
       [s \in Slaves |-> Ready(s, next_burst_hold(s), reg_burst_hold[s])]
  /\ reg_early_incr_count' =
       [s \in Slaves |-> Ready(s, next_early_incr_count(s), reg_early_incr_count[s])]

-----------------------------------------------------------------------------
(* The masters, which keep the rules of AHB-Lite.                          *)

Idle(m, i) == [master |-> m, trans |-> "IDLE", to |-> i.to, burst |-> "SINGLE",
               addr |-> 0, beat |-> 1, lock |-> i.lock, write |-> FALSE, data |-> 0]
Quiet(m) == Idle(m, [to |-> Default, lock |-> 0])

\* A locked sequence goes on, or ends, after the phase x; a transfer begins it.
NewPhases(m, x) ==
  {y \in Requests[m] \cup {Idle(m, i) : i \in Idles} :
     \/ y.lock \in {0, x.lock}
     \/ x.lock = 0 /\ y.trans = "NONSEQ"}

NextBeat(x, k, v) ==
  [x EXCEPT !.trans = k, !.beat = @ + 1, !.data = v,
            !.addr = IF bound_next(x) THEN x.addr + 1 - Length(x.burst)
                                      ELSE (x.addr + 1) % 16]
NextBeats(x) ==
  IF x.burst # "SINGLE" /\ IsActive(x) /\ x.beat < Length(x.burst)
    THEN {NextBeat(x, k, v) : k \in IF Busy THEN {"SEQ", "BUSY"} ELSE {"SEQ"},
                              v \in IF x.write THEN Values ELSE {0}}
    ELSE IF x.trans = "BUSY" THEN {x, [x EXCEPT !.trans = "SEQ"]} ELSE {}

\* Only a burst of undefined length may stop before its end.
AfterAccepted(m) ==
  LET x == haddr[m]
  IN  IF NextBeats(x) = {} THEN NewPhases(m, x)
      ELSE IF x.burst = "INCR" THEN NextBeats(x) \cup NewPhases(m, x)
      ELSE NextBeats(x)

\* An address phase that waits may turn from IDLE or BUSY into a transfer, and
\* an error cancels it.
WhileWaiting(m) ==
  LET x == haddr[m]
  IN  {x} \cup (IF x.trans = "IDLE" THEN NewPhases(m, hdata[m]) ELSE {})
          \cup (IF x.trans = "BUSY" THEN NextBeats(x) ELSE {})
          \cup (IF HRESPS(m) = "error"
                  THEN {y \in NewPhases(m, hdata[m]) : y.trans = "IDLE"} ELSE {})

NextPhases(m) == IF HREADYS(m) THEN AfterAccepted(m) ELSE WhileWaiting(m)

Answer(m) ==
  IF HRESPS(m) = "error2" THEN [error |-> TRUE, data |-> 0]
  ELSE [error |-> FALSE, data |-> IF hdata[m].write THEN 0 ELSE mem[data_out_port[m]]]

MasterEdge ==
  /\ hdata' = [m \in Masters |-> IF HREADYS(m) THEN haddr[m] ELSE hdata[m]]
  /\ got' = [m \in Masters |->
       IF IsActive(hdata[m]) /\ HREADYS(m) THEN Answer(m) ELSE got[m]]
  /\ \E pairs \in {UNION {{m} \X NextPhases(m) : m \in Masters}} :
       haddr' \in Choices(Masters, pairs)

-----------------------------------------------------------------------------
(* The slaves: any number of wait states, then OKAY, or ERROR in two       *)
(* cycles; the data is written at the end of the data phase.               *)

Samples(s) == HREADYMUXM(s) /\ HSELM(s) /\ HTRANSM(s) \in {"NONSEQ", "SEQ"}

NextResponses(s) ==
  IF Samples(s) \/ (~HREADYMUXM(s) /\ resp[s] = "wait") THEN Responses
  ELSE IF HREADYMUXM(s) THEN {"idle"} ELSE {"error2"}

SlaveEdge ==
  /\ phase' = [s \in Slaves |-> IF Samples(s) THEN ip(addr_in_port[s]) ELSE phase[s]]
  /\ mem' = [s \in Slaves |->
       IF resp[s] = "okay" /\ phase[s].write THEN HWDATAM(s) ELSE mem[s]]
  /\ \E pairs \in {UNION {{s} \X NextResponses(s) : s \in Slaves}} :
       resp' \in Choices(Slaves, pairs)

-----------------------------------------------------------------------------
HclkEdge == InputEdge /\ DefaultSlaveEdge /\ OutputEdge /\ MasterEdge /\ SlaveEdge

\* HRESETn clears every flip-flop of both stages; the masters and the slaves
\* are reset with them, the memories are not.
ofMasters(v) == [m \in Masters |-> v]
ofSlaves(v)  == [s \in Slaves |-> v]
quiet == [m \in Masters |-> Quiet(m)]

Init ==
  /\ reg = quiet /\ pend_tran_reg = ofMasters(FALSE)
  /\ data_valid = ofMasters(FALSE)
  /\ burst_override = ofMasters(FALSE) /\ bound = ofMasters(FALSE)
  /\ data_out_port = ofMasters(0) /\ dft = ofMasters("okay")
  /\ no_port = ofSlaves(TRUE) /\ addr_in_port = ofSlaves(0)
  /\ data_in_port = ofSlaves(0) /\ slave_sel = ofSlaves(FALSE)
  /\ hsel_lock = ofSlaves(FALSE) /\ reg_burst_remain = ofSlaves(0)
  /\ reg_burst_hold = ofSlaves(FALSE) /\ reg_early_incr_count = ofSlaves(0)
  /\ haddr = quiet /\ hdata = quiet
  /\ phase = ofSlaves(Quiet(1)) /\ resp = ofSlaves("idle")
  /\ mem = ofSlaves(0) /\ got = ofMasters([error |-> FALSE, data |-> 0])

Reset ==
  /\ reg' = quiet /\ pend_tran_reg' = ofMasters(FALSE)
  /\ data_valid' = ofMasters(FALSE)
  /\ burst_override' = ofMasters(FALSE) /\ bound' = ofMasters(FALSE)
  /\ data_out_port' = ofMasters(0) /\ dft' = ofMasters("okay")
  /\ no_port' = ofSlaves(TRUE) /\ addr_in_port' = ofSlaves(0)
  /\ data_in_port' = ofSlaves(0) /\ slave_sel' = ofSlaves(FALSE)
  /\ hsel_lock' = ofSlaves(FALSE) /\ reg_burst_remain' = ofSlaves(0)
  /\ reg_burst_hold' = ofSlaves(FALSE) /\ reg_early_incr_count' = ofSlaves(0)
  /\ haddr' = quiet /\ hdata' = quiet
  /\ phase' = ofSlaves(Quiet(1)) /\ resp' = ofSlaves("idle")
  /\ UNCHANGED <<mem, got>>

Next == HclkEdge \/ Reset

Spec == Init /\ [][Next]_vars

\* HCLK runs, every slave ends its wait states, no master stays in a burst with
\* BUSY cycles for ever, and one whose transfers are answered ends its locked
\* sequence.
FairSpec ==
  /\ Spec /\ WF_vars(HclkEdge)
  /\ \A s \in Slaves : []<>(resp[s] # "wait")
  /\ \A m \in Masters : /\ []<>(haddr[m].trans # "BUSY")
                        /\ []<>HREADYS(m) => []<>(hdata[m].lock = 0)

-----------------------------------------------------------------------------
(* What the matrix promises.                                               *)

\* Call of master m, as SharedSlaves sees it.
Op(m) == IF IsActive(hdata[m])
           THEN [status |-> "pending", to |-> hdata[m].to,
                 write |-> hdata[m].write, data |-> hdata[m].data]
           ELSE [status |-> "none"]

Shared == INSTANCE SharedSlaves WITH op <- [m \in Masters |-> Op(m)]

\* Whatever the arbiters do, every transfer of every master is performed once,
\* by the slave it names and with its own write data, and answered by it; the
\* slave performs those of different masters one after the other.
SharedSlavesSpec == Shared!Spec

\* The data phases at the two sides of the matrix are the same: a slave never
\* performs a transfer whose master is not waiting for it, and no master waits
\* for a slave that is not.  The holding register and the port registers of
\* both stages, all clocked by different ready signals, must agree for it.
DataPhasesAgree ==
  /\ \A s \in Slaves : resp[s] # "idle" =>
       LET m == data_in_port[s]
       IN  /\ m \in Masters /\ slave_sel[s]
           /\ data_valid[m] /\ ~pend_tran_reg[m] /\ data_out_port[m] = s
           /\ phase[s] = [hdata[m] EXCEPT !.trans = phase[s].trans,
                                          !.burst = phase[s].burst]
  /\ \A m \in Masters, s \in Slaves :
       data_valid[m] /\ ~pend_tran_reg[m] /\ data_out_port[m] = s =>
         resp[s] # "idle" /\ data_in_port[s] = m

\* A slave sees legal bursts only: a SEQ transfer continues the burst that it
\* sampled last, at the next address of that burst, whoever had the slave while
\* the master was held off; and only a burst of undefined length is split.
BurstsStayWhole ==
  \A s \in Slaves : Samples(s) =>
    LET x == ip(addr_in_port[s])
    IN  /\ x.trans = "SEQ" => \E y \in NextBeats(phase[s]) :
             y.master = x.master /\ y.beat = x.beat /\ y.addr = x.addr /\ y.burst = x.burst
        /\ held(x.master).burst # "INCR" /\ x.beat > 1 => x.trans = "SEQ"

\* While a master keeps HMASTLOCK after a locked transfer to a slave, the slave
\* takes no transfer from another master, also while the address of an idle
\* phase deselects it.
LocksExclude ==
  \A s \in Slaves :
    LET m == phase[s].master
    IN  /\ phase[s].lock = s /\ hdata[m].lock = s /\ haddr[m].lock = s
        /\ ~pend_tran_reg[m] /\ Samples(s)
        => addr_in_port[s] = m

\* No master starves: whatever the bursts of the others, their interrupted
\* bursts and their locked sequences, every transfer is answered.
Responds == \A m \in Masters : IsActive(hdata[m]) ~> HREADYS(m)

TypeOK ==
  /\ reg \in [Masters -> Phases] /\ pend_tran_reg \in [Masters -> BOOLEAN]
  /\ data_valid \in [Masters -> BOOLEAN] /\ burst_override \in [Masters -> BOOLEAN]
  /\ bound \in [Masters -> BOOLEAN] /\ data_out_port \in [Masters -> {0} \cup Ports]
  /\ dft \in [Masters -> {"okay", "error", "error2"}]
  /\ no_port \in [Slaves -> BOOLEAN] /\ addr_in_port \in [Slaves -> {0} \cup Masters]
  /\ \A s \in Slaves : no_port[s] \/ addr_in_port[s] # 0
  /\ data_in_port \in [Slaves -> {0} \cup Masters]
  /\ slave_sel \in [Slaves -> BOOLEAN] /\ hsel_lock \in [Slaves -> BOOLEAN]
  /\ reg_burst_remain \in [Slaves -> 0 .. 14] /\ reg_burst_hold \in [Slaves -> BOOLEAN]
  /\ reg_early_incr_count \in [Slaves -> 0 .. 3]
  /\ haddr \in [Masters -> Phases] /\ hdata \in [Masters -> Phases]
  /\ got \in [Masters -> [error : BOOLEAN, data : Values]]
  /\ phase \in [Slaves -> Phases] /\ mem \in [Slaves -> Values]
  /\ resp \in [Slaves -> {"idle", "wait", "okay", "error", "error2"}]
=============================================================================
