------------------------- MODULE AhbBusMatrixProofs -------------------------
(***************************************************************************)
(* The bus matrix for any number of masters and slaves: the data phases at *)
(* its two sides agree, locks exclude, and it implements SharedSlaves, as  *)
(* long as locked sequences stay at their slave.                           *)
(***************************************************************************)
EXTENDS AhbBusMatrix, WellFoundedInduction, TLAPS

\* A locked transfer is to the slave that its sequence locks.
LocksStayInRegion == \A m \in Masters : \A r \in Requests[m] : r.lock \in {0, r.to}

\* What the rules of AHB-Lite leave in the pipeline of a master.
MasterRules ==
  \A m \in Masters :
    /\ haddr[m].master = m /\ hdata[m].master = m
    /\ haddr[m].trans # "IDLE" => haddr[m].lock \in {0, haddr[m].to}
    /\ hdata[m].trans # "IDLE" => hdata[m].lock \in {0, hdata[m].to}
    /\ hdata[m].lock # 0 => haddr[m].lock \in {0, hdata[m].lock}
    /\ hdata[m].lock = 0 /\ haddr[m].lock # 0 => haddr[m].trans = "NONSEQ"

\* The input stage follows the data phase of its master: it knows whether there
\* is one and where it is routed, holds the transfer while it is pending, and
\* its default slave answers those that have no other.
InputFollowsMaster ==
  \A m \in Masters :
    /\ data_valid[m] <=> IsActive(hdata[m])
    /\ data_valid[m] => data_out_port[m] = hdata[m].to
    /\ pend_tran_reg[m] => data_valid[m] /\ reg[m] = hdata[m] /\ hdata[m].to \in Slaves
    /\ dft[m] \in {"error", "error2"} <=> data_valid[m] /\ data_out_port[m] = Default

\* A slave is given only to a master whose data phase, if any, is there; and
\* while the slave still serves another, the transfer of that master is held.
PortsFollowMasters ==
  \A m \in Masters, s \in Slaves : Active(m, s) =>
    /\ data_valid[m] => data_out_port[m] = s
    /\ resp[s] # "idle" /\ data_in_port[s] # m => pend_tran_reg[m]

\* A locked slave belongs to the master in whose locked sequence it is.
LocksFollowMasters ==
  \A s \in Slaves :
    LET m == phase[s].master
    IN  /\ hsel_lock[s] => ~no_port[s] /\ hdata[addr_in_port[s]].lock = s
        /\ phase[s].lock = s /\ hdata[m].lock = s /\ ~pend_tran_reg[m]
             => Active(m, s) /\ hsel_lock[s]

IInv == /\ TypeOK /\ MasterRules /\ InputFollowsMaster
        /\ PortsFollowMasters /\ LocksFollowMasters /\ DataPhasesAgree

-----------------------------------------------------------------------------
\* A function chosen from pairs takes its values from them.
LEMMA ChoicesFacts ==
  ASSUME NEW I, NEW Sets, NEW pairs, pairs = UNION {{i} \X Sets[i] : i \in I},
         NEW f \in Choices(I, pairs)
  PROVE  \A i \in I : f[i] \in Sets[i]
<1> SUFFICES ASSUME NEW i \in I PROVE f[i] \in Sets[i]
  OBVIOUS
<1>1. <<i, f[i]>> \in pairs
  BY DEF Choices
<1>2. PICK j \in I : <<i, f[i]>> \in {j} \X Sets[j]
  BY <1>1
<1> QED BY <1>2

\* What an input stage presents is an address phase.
LEMMA InputTypes ==
  ASSUME TypeOK, NEW m \in Masters
  PROVE  /\ held(m) \in Phases /\ ip(m) \in Phases
         /\ trans_ip(m) \in {"IDLE", "BUSY", "NONSEQ", "SEQ"} /\ burst_ip(m) \in Bursts
         /\ addr_out_port(m) \in Ports
<1> USE DEF TypeOK
<1>1. haddr[m] \in Phases /\ reg[m] \in Phases
  OBVIOUS
<1>2. held(m) \in Phases
  BY <1>1 DEF held, Phases
<1>3. trans_ip(m) \in {"IDLE", "BUSY", "NONSEQ", "SEQ"}
  BY <1>2 DEF trans_ip, Phases
<1>4. burst_ip(m) \in Bursts
  BY <1>2 DEF burst_ip, Phases, Bursts
<1>5. ip(m) \in Phases
  BY <1>2, <1>3, <1>4 DEF ip, Phases
<1>6. addr_out_port(m) \in Ports
  BY <1>2 DEF addr_out_port, Phases, Ports
<1> QED BY <1>2, <1>3, <1>4, <1>5, <1>6

\* A burst continues within the address space.
LEMMA NextBeatTypes ==
  ASSUME NEW x \in Phases
  PROVE  \A y \in NextBeats(x) :
           /\ y \in Phases /\ y.master = x.master /\ y.to = x.to
           /\ y.lock = x.lock /\ y.trans # "IDLE" /\ x.trans # "IDLE"
<1> SUFFICES ASSUME NEW y \in NextBeats(x)
             PROVE  /\ y \in Phases /\ y.master = x.master /\ y.to = x.to
                    /\ y.lock = x.lock /\ y.trans # "IDLE" /\ x.trans # "IDLE"
  OBVIOUS
<1>1. x.addr \in 0 .. 15 /\ x.beat \in 1 .. 16 /\ x.burst \in Bursts /\ x.data \in Values
  BY DEF Phases
<1>3. CASE x.burst # "SINGLE" /\ IsActive(x) /\ x.beat < Length(x.burst)
  <2> DEFINE K == IF Busy THEN {"SEQ", "BUSY"} ELSE {"SEQ"}
             V == IF x.write THEN Values ELSE {0}
             next == IF bound_next(x) THEN x.addr + 1 - Length(x.burst)
                                      ELSE (x.addr + 1) % 16
  <2>1. PICK k \in {"SEQ", "BUSY"}, v \in Values : y = NextBeat(x, k, v)
    <3>1. NextBeats(x) = {NextBeat(x, k, v) : k \in K, v \in V}
      BY <1>3 DEF NextBeats
    <3>2. K \subseteq {"SEQ", "BUSY"} /\ V \subseteq Values
      BY MatrixAssumption
    <3> HIDE DEF K, V
    <3> QED BY <3>1, <3>2
  <2>2. next \in 0 .. 15
    BY <1>1 DEF bound_next, Length, Wraps
  <2>3. x.beat + 1 \in 1 .. 16
    BY <1>1, <1>3, MatrixAssumption DEF Length, Bursts
  <2>4. y = [x EXCEPT !.trans = k, !.beat = @ + 1, !.data = v, !.addr = next]
    BY <2>1 DEF NextBeat
  <2> HIDE DEF next
  <2> QED BY <1>3, <2>2, <2>3, <2>4 DEF Phases, IsActive
<1>4. CASE ~(x.burst # "SINGLE" /\ IsActive(x) /\ x.beat < Length(x.burst))
  <2>1. y \in IF x.trans = "BUSY" THEN {x, [x EXCEPT !.trans = "SEQ"]} ELSE {}
    BY <1>4 DEF NextBeats
  <2> QED BY <2>1 DEF Phases
<1> QED BY <1>3, <1>4

LEMMA NewPhaseFacts ==
  ASSUME NEW m \in Masters, NEW x \in Phases, NEW y \in NewPhases(m, x)
  PROVE  /\ y \in Phases /\ y.master = m
         /\ y.trans # "IDLE" => y.trans = "NONSEQ" /\ y \in Requests[m]
         /\ y.lock \notin {0, x.lock} => x.lock = 0 /\ y.trans = "NONSEQ"
<1>1. /\ y.lock \notin {0, x.lock} => x.lock = 0 /\ y.trans = "NONSEQ"
      /\ y \in Requests[m] \/ \E i \in Idles : y = Idle(m, i)
  BY DEF NewPhases
<1>2. CASE y \in Requests[m]
  BY <1>1, <1>2, MatrixAssumption
<1>3. CASE \E i \in Idles : y = Idle(m, i)
  BY <1>1, <1>3, MatrixAssumption DEF Idle, Phases, Bursts
<1> QED BY <1>1, <1>2, <1>3

\* The next address phase waits, continues its burst, or is a new one, which
\* follows the phase that will then be in the data phase.
LEMMA NextPhaseCases ==
  ASSUME NEW m \in Masters, NEW y \in NextPhases(m)
  PROVE  \/ ~HREADYS(m) /\ y = haddr[m]
         \/ (HREADYS(m) \/ haddr[m].trans = "BUSY") /\ y \in NextBeats(haddr[m])
         \/ HREADYS(m) /\ y \in NewPhases(m, haddr[m])
         \/ ~HREADYS(m) /\ y \in NewPhases(m, hdata[m])
<1>1. CASE HREADYS(m)
  <2>1. y \in AfterAccepted(m)
    BY <1>1 DEF NextPhases
  <2> QED BY <1>1, <2>1 DEF AfterAccepted
<1>2. CASE ~HREADYS(m)
  <2>1. y \in WhileWaiting(m)
    BY <1>2 DEF NextPhases
  <2> QED BY <1>2, <2>1 DEF WhileWaiting
<1> QED BY <1>1, <1>2

LEMMA NextPhaseTypes ==
  ASSUME TypeOK, NEW m \in Masters, NEW y \in NextPhases(m)
  PROVE  y \in Phases
BY NextPhaseCases, NextBeatTypes, NewPhaseFacts DEF TypeOK

\* The arbiter gives a slave to one of the masters that request it.
LEMMA NextPortFacts ==
  ASSUME TypeOK, NEW s \in Slaves
  PROVE  NextPort(s) # 0 => NextPort(s) \in Masters /\ req_port(NextPort(s), s)
<1> DEFINE now == IF no_port[s] THEN NMasters ELSE addr_in_port[s]
           others == {m \in Masters : req_port(m, s) /\ (no_port[s] \/ m # now)}
           Nearest(m) == \A n \in others : Distance(now, m) <= Distance(now, n)
           D == {Distance(now, m) : m \in others}
<1>1. now \in Masters
  BY MatrixAssumption DEF TypeOK, Masters
<1>2. \A m \in others : Distance(now, m) \in Nat
  <2> HIDE DEF now
  <2> QED BY <1>1, MatrixAssumption DEF Distance, Masters
<1>3. CASE others = {}
  BY <1>3, Zenon DEF NextPort
<1>4. CASE others # {}
  <2>1. NextPort(s) = CHOOSE m \in others : Nearest(m)
    BY <1>4, Zenon DEF NextPort
  <2> HIDE DEF now, others
  <2>2. D \subseteq Nat /\ D # {}
    BY <1>2, <1>4
  <2> DEFINE Less == OpToRel(<, Nat)
  <2>3. \A e, f \in Nat : e < f => <<e, f>> \in Less
    BY DEF OpToRel
  <2>4. IsWellFoundedOn(Less, Nat)
    BY NatLessThanWellFounded, Zenon
  <2> HIDE DEF D, Less
  <2>5. PICK d \in D : \A e \in D : ~ (<<e, d>> \in Less)
    BY <2>2, <2>4, WFMin, Zenon
  <2>6. \A e \in D : d <= e
    <3> SUFFICES ASSUME NEW e \in D PROVE d <= e
      OBVIOUS
    <3>1. d \in Nat /\ e \in Nat
      BY <2>2
    <3>2. ~ (e < d)
      BY <2>5, <2>3, <3>1, Zenon
    <3> QED BY <3>1, <3>2
  <2> USE DEF D
  <2>7. PICK m \in others : d = Distance(now, m)
    OBVIOUS
  <2>8. Nearest(m)
    BY <2>6, <2>7
  <2>9. NextPort(s) \in others
    BY <2>1, <2>7, <2>8, Zenon
  <2> QED BY <2>9 DEF others
<1> QED BY <1>3, <1>4

LEMMA NextAddressPhase ==
  ASSUME HclkEdge, NEW m \in Masters
  PROVE  haddr'[m] \in NextPhases(m)
<1> DEFINE Sets == [n \in Masters |-> NextPhases(n)]
           pairs == UNION {{n} \X Sets[n] : n \in Masters}
<1>1. haddr' \in Choices(Masters, pairs)
  BY DEF HclkEdge, MasterEdge
<1> HIDE DEF pairs
<1>2. haddr'[m] \in Sets[m]
  BY <1>1, ChoicesFacts DEF pairs
<1> QED BY <1>2

LEMMA NextResponse ==
  ASSUME HclkEdge, NEW s \in Slaves
  PROVE  resp'[s] \in NextResponses(s)
<1> DEFINE Sets == [r \in Slaves |-> NextResponses(r)]
           pairs == UNION {{r} \X Sets[r] : r \in Slaves}
<1>1. resp' \in Choices(Slaves, pairs)
  BY DEF HclkEdge, SlaveEdge
<1> HIDE DEF pairs
<1>2. resp'[s] \in Sets[s]
  BY <1>1, ChoicesFacts DEF pairs
<1> QED BY <1>2

-----------------------------------------------------------------------------
\* The input stage presents the address phase of its master, or the transfer it
\* holds, and decodes the port of every transfer.
LEMMA InputFacts ==
  ASSUME TypeOK, InputFollowsMaster, NEW m \in Masters
  PROVE  /\ ~pend_tran_reg[m] => held(m) = haddr[m]
         /\ pend_tran_reg[m] => held(m) = [hdata[m] EXCEPT !.trans = "NONSEQ"]
         /\ HREADYS(m) => ~pend_tran_reg[m]
         /\ IsActive(ip(m)) <=> trans_ip(m) \in {"NONSEQ", "SEQ"}
         /\ trans_ip(m) \in {"NONSEQ", "SEQ"} <=> IsActive(held(m))
         /\ IsActive(held(m)) => addr_out_port(m) = held(m).to
         /\ pend_tran_reg[m] => IsActive(held(m)) /\ held(m).to = hdata[m].to
<1>1. haddr[m] \in Phases /\ reg[m] \in Phases /\ hdata[m] \in Phases /\ held(m) \in Phases
  BY InputTypes DEF TypeOK
<1>2. ~pend_tran_reg[m] => held(m) = haddr[m]
  BY DEF held
<1>3. pend_tran_reg[m] => held(m) = [hdata[m] EXCEPT !.trans = "NONSEQ"]
  BY Zenon DEF held, InputFollowsMaster
<1>4. HREADYS(m) => ~pend_tran_reg[m]
  BY DEF HREADYS, HREADYOUTS, InputFollowsMaster
<1>5. IsActive(ip(m)) <=> trans_ip(m) \in {"NONSEQ", "SEQ"}
  <2>1. ip(m).trans = trans_ip(m)
    BY <1>1 DEF ip, Phases
  <2> QED BY <2>1 DEF IsActive
<1>6. trans_ip(m) \in {"NONSEQ", "SEQ"} <=> IsActive(held(m))
  BY DEF trans_ip, IsActive
<1>7. IsActive(held(m)) => addr_out_port(m) = held(m).to
  BY <1>6 DEF addr_out_port
<1>8. pend_tran_reg[m] => IsActive(held(m)) /\ held(m).to = hdata[m].to
  <2>1. ASSUME NEW x \in Phases
        PROVE  /\ [x EXCEPT !.trans = "NONSEQ"].trans = "NONSEQ"
               /\ [x EXCEPT !.trans = "NONSEQ"].to = x.to
    BY DEF Phases
  <2> QED BY <1>1, <1>3, <2>1 DEF IsActive
<1> QED BY <1>2, <1>3, <1>4, <1>5, <1>6, <1>7, <1>8

\* A master is answered by the default slave with an error, or by the slave that
\* its data phase is routed to.
LEMMA AnswerFacts ==
  ASSUME TypeOK, InputFollowsMaster, NEW m \in Masters, IsActive(hdata[m]), HREADYS(m)
  PROVE  /\ data_out_port[m] = hdata[m].to
         /\ HRESPS(m) # "error2" => /\ hdata[m].to \in Slaves
                                    /\ HREADYMUXM(hdata[m].to)
                                    /\ HRESPS(m) = resp[hdata[m].to]
<1>1. /\ data_valid[m] /\ ~pend_tran_reg[m] /\ readyout_ip(m)
      /\ data_out_port[m] = hdata[m].to
  BY DEF InputFollowsMaster, HREADYS, HREADYOUTS
<1>2. hdata[m].to \in Ports
  BY DEF TypeOK, Phases
<1>3. CASE hdata[m].to = Default
  <2>1. Default \notin Slaves
    BY MatrixAssumption DEF Default, Slaves
  <2>2. dft[m] \in {"error", "error2"} /\ dft[m] # "error"
    BY <1>1, <1>3, <2>1 DEF InputFollowsMaster, readyout_ip
  <2> QED BY <1>1, <1>3, <2>2 DEF HRESPS, resp_ip
<1>4. CASE hdata[m].to \in Slaves
  <2>1. hdata[m].to # Default /\ hdata[m].to # 0
    BY <1>4, MatrixAssumption DEF Default, Slaves
  <2> QED BY <1>1, <1>4, <2>1 DEF HRESPS, resp_ip, readyout_ip
<1> QED BY <1>2, <1>3, <1>4, MatrixAssumption DEF Ports, Slaves, Default

LEMMA InputStep ==
  ASSUME TypeOK, InputFollowsMaster, HclkEdge
  PROVE  InputFollowsMaster'
<1> SUFFICES ASSUME NEW m \in Masters
             PROVE  /\ data_valid'[m] <=> IsActive(hdata'[m])
                    /\ data_valid'[m] => data_out_port'[m] = hdata'[m].to
                    /\ pend_tran_reg'[m] => /\ data_valid'[m] /\ reg'[m] = hdata'[m]
                                            /\ hdata'[m].to \in Slaves
                    /\ dft'[m] \in {"error", "error2"}
                         <=> data_valid'[m] /\ data_out_port'[m] = Default
  BY DEF InputFollowsMaster, Default, Slaves, IsActive
<1>1. /\ haddr[m] \in Phases /\ hdata[m] \in Phases
      /\ addr_out_port(m) \in Ports /\ dft[m] \in {"okay", "error", "error2"}
  BY InputTypes DEF TypeOK
<1>2. /\ reg'[m] = IF load_reg(m) THEN haddr[m] ELSE reg[m]
      /\ pend_tran_reg'[m] = pend_tran(m)
      /\ data_valid'[m] = IF HREADYS(m) THEN IsActive(haddr[m]) ELSE data_valid[m]
      /\ data_out_port'[m] = IF HREADYS(m) THEN addr_out_port(m) ELSE data_out_port[m]
      /\ hdata'[m] = IF HREADYS(m) THEN haddr[m] ELSE hdata[m]
      /\ dft'[m] = IF dft[m] = "error" THEN "error2"
                   ELSE IF HREADYS(m) /\ addr_out_port(m) = Default
                          /\ trans_ip(m) \in {"NONSEQ", "SEQ"} THEN "error" ELSE "okay"
  BY DEF HclkEdge, InputEdge, DefaultSlaveEdge, MasterEdge
<1>3. /\ data_valid[m] <=> IsActive(hdata[m])
      /\ data_valid[m] => data_out_port[m] = hdata[m].to
      /\ pend_tran_reg[m] => /\ data_valid[m] /\ reg[m] = hdata[m]
                             /\ hdata[m].to \in Slaves
      /\ dft[m] \in {"error", "error2"} <=> data_valid[m] /\ data_out_port[m] = Default
  BY DEF InputFollowsMaster
<1>4. Default \notin Slaves /\ \A p \in Ports : p = Default \/ p \in Slaves
  BY MatrixAssumption DEF Default, Slaves, Ports
<1>5. CASE HREADYS(m)
  <2>1. ~pend_tran_reg[m] /\ held(m) = haddr[m]
    BY <1>5, InputFacts
  <2>2. dft[m] # "error"
    BY <1>3, <1>4, <1>5 DEF HREADYS, HREADYOUTS, readyout_ip
  <2>3. pend_tran_reg'[m] => IsActive(haddr[m]) /\ ~active_ip(m)
    BY <1>2, <2>1 DEF pend_tran, load_reg
  <2>4. ~active_ip(m) => addr_out_port(m) # Default
    BY DEF active_ip
  <2>5. IsActive(haddr[m]) => addr_out_port(m) = haddr[m].to
    BY <2>1, InputFacts
  <2>6. trans_ip(m) \in {"NONSEQ", "SEQ"} <=> IsActive(haddr[m])
    BY <2>1, InputFacts
  <2> QED BY <1>1, <1>2, <1>4, <1>5, <2>2, <2>3, <2>4, <2>5, <2>6 DEF load_reg
<1>6. CASE ~HREADYS(m)
  <2>1. ~load_reg(m) /\ (pend_tran_reg'[m] => pend_tran_reg[m])
    BY <1>2, <1>6 DEF load_reg, pend_tran
  <2>2. data_valid[m] /\ (pend_tran_reg[m] \/ ~readyout_ip(m))
    BY <1>6 DEF HREADYS, HREADYOUTS
  <2>3. dft[m] # "error2"
    BY <1>3, <1>4, <2>2 DEF readyout_ip
  <2>4. /\ data_valid'[m] = data_valid[m] /\ data_out_port'[m] = data_out_port[m]
        /\ hdata'[m] = hdata[m] /\ reg'[m] = reg[m]
        /\ dft'[m] = IF dft[m] = "error" THEN "error2" ELSE "okay"
    BY <1>2, <1>6, <2>1
  <2>5. data_out_port[m] = Default => dft[m] = "error"
    BY <1>1, <1>3, <2>2, <2>3
  <2> QED BY <1>3, <2>1, <2>3, <2>4, <2>5
<1> QED BY <1>5, <1>6

LEMMA OutputTypes ==
  ASSUME TypeOK, HclkEdge, NEW s \in Slaves
  PROVE  /\ no_port'[s] \in BOOLEAN /\ addr_in_port'[s] \in {0} \cup Masters
         /\ no_port'[s] \/ addr_in_port'[s] # 0
         /\ data_in_port'[s] \in {0} \cup Masters
         /\ slave_sel'[s] \in BOOLEAN /\ hsel_lock'[s] \in BOOLEAN
         /\ reg_burst_remain'[s] \in 0 .. 14 /\ reg_burst_hold'[s] \in BOOLEAN
         /\ reg_early_incr_count'[s] \in 0 .. 3
         /\ phase'[s] \in Phases
<1> USE DEF TypeOK
<1>1. ~no_port[s] => addr_in_port[s] \in Masters
  OBVIOUS
<1>2. HTRANSM(s) \in {"IDLE", "BUSY", "NONSEQ", "SEQ"} /\ HBURSTM(s) \in Bursts
  BY <1>1, InputTypes DEF HTRANSM, HBURSTM, Bursts
<1>3. next_addr_in_port(s) \in {0} \cup Masters
  BY NextPortFacts DEF next_addr_in_port
<1>4. next_no_port(s) \/ next_addr_in_port(s) # 0
  <2>1. Hold(s) \/ HSELM(s) => ~no_port[s]
    BY DEF Hold, hlock_arb, HMASTLOCKM, next_burst_hold, HSELM
  <2>2. 0 \notin Masters
    BY MatrixAssumption DEF Masters
  <2> QED BY <1>1, <2>1, <2>2 DEF next_no_port, next_addr_in_port
<1>5. next_burst_remain(s) \in 0 .. 14
  <2>1. FirstRemain(HBURSTM(s)) \in 0 .. 14
    BY <1>2 DEF FirstRemain, Length, Bursts
  <2> QED BY <2>1 DEF next_burst_remain
<1>6. next_early_incr_count(s) \in 0 .. 3
  BY DEF next_early_incr_count
<1>7. next_no_port(s) \in BOOLEAN /\ HSELM(s) \in BOOLEAN
      /\ next_hsel_lock(s) \in BOOLEAN /\ next_burst_hold(s) \in BOOLEAN
  BY DEF next_no_port, HSELM, next_hsel_lock, HMASTLOCKM, next_burst_hold
<1>8. phase'[s] \in Phases
  <2>1. Samples(s) => addr_in_port[s] \in Masters
    BY <1>1 DEF Samples, HSELM
  <2> QED BY <2>1, InputTypes DEF HclkEdge, SlaveEdge
<1> QED BY <1>3, <1>4, <1>5, <1>6, <1>7, <1>8 DEF HclkEdge, OutputEdge, Ready

LEMMA AnswerTypes ==
  ASSUME TypeOK, InputFollowsMaster, NEW m \in Masters, IsActive(hdata[m]), HREADYS(m)
  PROVE  Answer(m) \in [error : BOOLEAN, data : Values]
<1>1. CASE HRESPS(m) = "error2"
  BY <1>1, MatrixAssumption DEF Answer
<1>2. CASE HRESPS(m) # "error2"
  <2>1. data_out_port[m] \in Slaves
    BY <1>2, AnswerFacts
  <2>2. mem[data_out_port[m]] \in Values
    BY <2>1 DEF TypeOK
  <2> QED BY <1>2, <2>2, MatrixAssumption DEF Answer
<1> QED BY <1>1, <1>2

LEMMA HclkTypes ==
  ASSUME TypeOK, InputFollowsMaster, HclkEdge
  PROVE  TypeOK'
<1> USE DEF HclkEdge
<1>1. /\ reg' \in [Masters -> Phases] /\ pend_tran_reg' \in [Masters -> BOOLEAN]
      /\ data_valid' \in [Masters -> BOOLEAN] /\ burst_override' \in [Masters -> BOOLEAN]
      /\ bound' \in [Masters -> BOOLEAN]
  <2>1. reg' \in [Masters -> Phases]
    BY DEF TypeOK, InputEdge
  <2>2. \A m \in Masters : pend_tran(m) \in BOOLEAN
    BY DEF TypeOK, pend_tran
  <2>3. \A m \in Masters :
          (IF HREADYS(m) THEN IsActive(haddr[m]) ELSE data_valid[m]) \in BOOLEAN
    <3>1. \A m \in Masters : IsActive(haddr[m]) \in BOOLEAN
      BY DEF IsActive
    <3>2. \A m \in Masters : data_valid[m] \in BOOLEAN
      BY DEF TypeOK
    <3> QED BY <3>1, <3>2
  <2>4. \A m \in Masters :
          (IF HREADYS(m) THEN burst_override_next(m) ELSE burst_override[m]) \in BOOLEAN
    BY DEF TypeOK, burst_override_next
  <2>5. \A m \in Masters :
          (IF load_reg(m) THEN bound_next(haddr[m]) ELSE bound[m]) \in BOOLEAN
    BY DEF TypeOK, bound_next
  <2> QED BY <2>1, <2>2, <2>3, <2>4, <2>5 DEF InputEdge
<1>2. data_out_port' \in [Masters -> {0} \cup Ports]
  BY InputTypes DEF TypeOK, InputEdge
<1>3. dft' \in [Masters -> {"okay", "error", "error2"}]
  BY DEF DefaultSlaveEdge
<1>4. /\ DOMAIN no_port' = Slaves /\ DOMAIN addr_in_port' = Slaves
      /\ DOMAIN data_in_port' = Slaves /\ DOMAIN slave_sel' = Slaves
      /\ DOMAIN hsel_lock' = Slaves /\ DOMAIN reg_burst_remain' = Slaves
      /\ DOMAIN reg_burst_hold' = Slaves /\ DOMAIN reg_early_incr_count' = Slaves
      /\ DOMAIN phase' = Slaves
  BY DEF OutputEdge, SlaveEdge
<1>5. /\ no_port' \in [Slaves -> BOOLEAN] /\ addr_in_port' \in [Slaves -> {0} \cup Masters]
      /\ \A s \in Slaves : no_port'[s] \/ addr_in_port'[s] # 0
      /\ data_in_port' \in [Slaves -> {0} \cup Masters]
      /\ slave_sel' \in [Slaves -> BOOLEAN] /\ hsel_lock' \in [Slaves -> BOOLEAN]
      /\ reg_burst_remain' \in [Slaves -> 0 .. 14]
      /\ reg_burst_hold' \in [Slaves -> BOOLEAN]
      /\ reg_early_incr_count' \in [Slaves -> 0 .. 3]
      /\ phase' \in [Slaves -> Phases]
  <2> HIDE DEF HclkEdge
  <2>1. /\ no_port' = [s \in Slaves |-> no_port'[s]]
        /\ addr_in_port' = [s \in Slaves |-> addr_in_port'[s]]
        /\ data_in_port' = [s \in Slaves |-> data_in_port'[s]]
        /\ slave_sel' = [s \in Slaves |-> slave_sel'[s]]
        /\ hsel_lock' = [s \in Slaves |-> hsel_lock'[s]]
        /\ reg_burst_remain' = [s \in Slaves |-> reg_burst_remain'[s]]
        /\ reg_burst_hold' = [s \in Slaves |-> reg_burst_hold'[s]]
        /\ reg_early_incr_count' = [s \in Slaves |-> reg_early_incr_count'[s]]
        /\ phase' = [s \in Slaves |-> phase'[s]]
    BY DEF HclkEdge, OutputEdge, SlaveEdge
  <2> QED BY <2>1, OutputTypes
<1>6. hdata' \in [Masters -> Phases]
  BY DEF TypeOK, MasterEdge
<1>7. haddr' \in [Masters -> Phases]
  <2>1. \A m \in Masters : haddr'[m] \in NextPhases(m)
    BY NextAddressPhase
  <2>2. haddr' = [m \in Masters |-> haddr'[m]]
    BY DEF MasterEdge, Choices
  <2> QED BY <2>1, <2>2, NextPhaseTypes
<1>8. got' \in [Masters -> [error : BOOLEAN, data : Values]]
  BY AnswerTypes DEF TypeOK, MasterEdge
<1>9. mem' \in [Slaves -> Values]
  <2>1. \A s \in Slaves : HWDATAM(s) \in Values
    BY MatrixAssumption DEF HWDATAM, TypeOK, Phases
  <2> QED BY <2>1 DEF TypeOK, SlaveEdge
<1>10. resp' \in [Slaves -> {"idle", "wait", "okay", "error", "error2"}]
  <2>1. \A s \in Slaves : resp'[s] \in NextResponses(s)
    BY NextResponse
  <2>2. \A s \in Slaves : NextResponses(s) \subseteq {"idle", "wait", "okay", "error", "error2"}
    BY MatrixAssumption DEF NextResponses
  <2>3. resp' = [s \in Slaves |-> resp'[s]]
    BY DEF SlaveEdge, Choices
  <2> QED BY <2>1, <2>2, <2>3
<1> HIDE DEF HclkEdge
<1> QED BY <1>1, <1>2, <1>3, <1>5, <1>6, <1>7, <1>8, <1>9, <1>10 DEF TypeOK, Masters, Slaves, Ports, Default, Phases, Bursts

\* The types and the state of the input stages, whatever the masters lock.
CoreInv == TypeOK /\ InputFollowsMaster

LEMMA QuietFacts ==
  ASSUME NEW m \in Masters
  PROVE  /\ Quiet(m) \in Phases /\ Quiet(m).master = m /\ Quiet(m).trans = "IDLE"
         /\ Quiet(m).lock = 0 /\ ~IsActive(Quiet(m))
BY MatrixAssumption DEF Quiet, Idle, Phases, Bursts, Ports, Default, IsActive

LEMMA InitCore == Init => CoreInv
<1> SUFFICES ASSUME Init PROVE CoreInv
  OBVIOUS
<1>1. 1 \in Masters /\ 0 \in Values /\ 0 \notin Ports /\ Default # 0
  BY MatrixAssumption DEF Masters, Ports, Default
<1>2. TypeOK
  BY <1>1, QuietFacts DEF Init, TypeOK, ofMasters, ofSlaves, quiet
<1>3. InputFollowsMaster
  BY <1>1, QuietFacts DEF Init, InputFollowsMaster, ofMasters, quiet
<1> QED BY <1>2, <1>3 DEF CoreInv

LEMMA ResetCore == CoreInv /\ Reset => CoreInv'
<1> SUFFICES ASSUME CoreInv, Reset PROVE CoreInv'
  OBVIOUS
<1>1. 1 \in Masters /\ 0 \in Values /\ 0 \notin Ports /\ Default # 0
  BY MatrixAssumption DEF Masters, Ports, Default
<1>2. TypeOK'
  BY <1>1, QuietFacts DEF CoreInv, Reset, TypeOK, ofMasters, ofSlaves, quiet
<1>3. InputFollowsMaster'
  BY <1>1, QuietFacts DEF Reset, InputFollowsMaster, ofMasters, quiet, IsActive
<1> QED BY <1>2, <1>3 DEF CoreInv

LEMMA StutterCore == CoreInv /\ UNCHANGED vars => CoreInv'
BY DEF CoreInv, TypeOK, InputFollowsMaster, IsActive, vars, inputVars, outputVars,
       masterVars, slaveVars

LEMMA CoreInvariant == Spec => []CoreInv
<1>1. CoreInv /\ [Next]_vars => CoreInv'
  BY HclkTypes, InputStep, ResetCore, StutterCore DEF CoreInv, Next
<1> QED BY InitCore, <1>1, PTL DEF Spec

\* For any number of masters and slaves and whatever the masters request, every
\* variable of the matrix keeps its type: the arbiter names a master whenever it
\* names one, and the response of a read comes from a slave.
THEOREM TypeCorrect == Spec => []TypeOK
<1>1. CoreInv => TypeOK
  BY DEF CoreInv
<1> QED BY CoreInvariant, <1>1, PTL

-----------------------------------------------------------------------------
LEMMA MasterStep ==
  ASSUME LocksStayInRegion, CoreInv, MasterRules, HclkEdge
  PROVE  MasterRules'
<1> SUFFICES ASSUME NEW m \in Masters
             PROVE  /\ haddr'[m].master = m /\ hdata'[m].master = m
                    /\ haddr'[m].trans # "IDLE" => haddr'[m].lock \in {0, haddr'[m].to}
                    /\ hdata'[m].trans # "IDLE" => hdata'[m].lock \in {0, hdata'[m].to}
                    /\ hdata'[m].lock # 0 => haddr'[m].lock \in {0, hdata'[m].lock}
                    /\ hdata'[m].lock = 0 /\ haddr'[m].lock # 0 => haddr'[m].trans = "NONSEQ"
  BY DEF MasterRules
<1> DEFINE y == haddr'[m]
<1>1. haddr[m] \in Phases /\ hdata[m] \in Phases /\ y \in NextPhases(m)
  BY NextAddressPhase DEF CoreInv, TypeOK
<1>2. hdata'[m] = IF HREADYS(m) THEN haddr[m] ELSE hdata[m]
  BY DEF HclkEdge, MasterEdge
<1>3. /\ haddr[m].master = m /\ hdata[m].master = m
      /\ haddr[m].trans # "IDLE" => haddr[m].lock \in {0, haddr[m].to}
      /\ hdata[m].trans # "IDLE" => hdata[m].lock \in {0, hdata[m].to}
      /\ hdata[m].lock # 0 => haddr[m].lock \in {0, hdata[m].lock}
      /\ hdata[m].lock = 0 /\ haddr[m].lock # 0 => haddr[m].trans = "NONSEQ"
  BY DEF MasterRules
<1> HIDE DEF y
<1>4. CASE ~HREADYS(m) /\ y = haddr[m]
  BY <1>2, <1>3, <1>4 DEF y
<1>5. CASE (HREADYS(m) \/ haddr[m].trans = "BUSY") /\ y \in NextBeats(haddr[m])
  BY <1>1, <1>2, <1>3, <1>5, NextBeatTypes DEF y
<1>6. ASSUME NEW x \in Phases, y \in NewPhases(m, x), hdata'[m] = x
      PROVE  /\ y.master = m /\ (y.trans # "IDLE" => y.lock \in {0, y.to})
             /\ x.lock # 0 => y.lock \in {0, x.lock}
             /\ x.lock = 0 /\ y.lock # 0 => y.trans = "NONSEQ"
  BY <1>6, NewPhaseFacts DEF LocksStayInRegion
<1>7. CASE HREADYS(m) /\ y \in NewPhases(m, haddr[m])
  BY <1>1, <1>2, <1>3, <1>6, <1>7 DEF y
<1>8. CASE ~HREADYS(m) /\ y \in NewPhases(m, hdata[m])
  BY <1>1, <1>2, <1>3, <1>6, <1>8 DEF y
<1> QED BY <1>1, <1>4, <1>5, <1>7, <1>8, NextPhaseCases

-----------------------------------------------------------------------------
\* A master that has a slave sees its ready signal, also if its transfer there
\* is still held, and its data phase ends only with that of the slave.
LEMMA ReadyFacts ==
  ASSUME IInv, NEW m \in Masters, NEW s \in Slaves, Active(m, s)
  PROVE  /\ HREADYS(m) => HREADYMUXM(s)
         /\ HREADYMUXM(s) => HREADYS(m) \/ pend_tran_reg[m]
         /\ pend_tran_reg[m] => (readyout_ip(m) <=> HREADYMUXM(s))
<1>1. /\ data_valid[m] => data_out_port[m] = s
      /\ resp[s] # "idle" /\ data_in_port[s] # m => pend_tran_reg[m]
  BY DEF IInv, PortsFollowMasters
<1>2. pend_tran_reg[m] => data_valid[m]
  BY DEF IInv, InputFollowsMaster
<1>3. data_valid[m] => (readyout_ip(m) <=> HREADYMUXM(s))
  BY <1>1 DEF readyout_ip
<1>4. ~data_valid[m] => HREADYMUXM(s)
  <2>1. resp[s] # "idle" => data_valid[data_in_port[s]]
    BY Zenon DEF IInv, DataPhasesAgree
  <2>2. ~data_valid[m] => resp[s] = "idle"
    BY <1>1, <1>2, <2>1
  <2> QED BY <2>2 DEF HREADYMUXM, HREADYOUTM
<1> QED BY <1>2, <1>3, <1>4 DEF HREADYS, HREADYOUTS

\* A transfer that its master need not hold any more is the one that the slave
\* samples: one accepted in this cycle, or one that was held until now.
LEMMA PassedTransfer ==
  ASSUME IInv, NEW m \in Masters, ~pend_tran(m), held_tran(m), held(m).to \in Slaves
  PROVE  Active(m, held(m).to) /\ Samples(held(m).to)
<1> DEFINE s == held(m).to
<1>1. IsActive(held(m)) /\ trans_ip(m) \in {"NONSEQ", "SEQ"} /\ addr_out_port(m) = s
  BY InputFacts DEF IInv, held_tran, load_reg
<1>2. s # Default
  BY MatrixAssumption DEF Slaves, Default
<1>3. active_ip(m)
  BY DEF held_tran, pend_tran
<1>4. Active(m, s)
  BY <1>1, <1>2, <1>3 DEF active_ip
<1>5. HREADYMUXM(s)
  <2>1. CASE load_reg(m)
    BY <1>4, <2>1, ReadyFacts DEF load_reg
  <2>2. CASE pend_tran_reg[m]
    <3>1. ~load_reg(m)
      BY <2>2, InputFacts DEF IInv, load_reg
    <3>2. readyout_ip(m)
      BY <1>3, <2>2, <3>1 DEF pend_tran
    <3> QED BY <1>4, <2>2, <3>2, ReadyFacts
  <2> QED BY <2>1, <2>2 DEF held_tran
<1> QED BY <1>1, <1>4, <1>5 DEF Samples, HSELM, HTRANSM, Active

\* The transfer that a slave samples is in the data phase of its master after
\* the edge, at that slave, and not held any more.
LEMMA SampledTransfer ==
  ASSUME IInv, HclkEdge, NEW s \in Slaves, Samples(s)
  PROVE  LET m == addr_in_port[s]
         IN  /\ m \in Masters /\ Active(m, s) /\ held_tran(m) /\ held(m).to = s
             /\ data_valid'[m] /\ ~pend_tran_reg'[m] /\ data_out_port'[m] = s
             /\ \E k \in {"NONSEQ", "SEQ"} : held(m) = [hdata'[m] EXCEPT !.trans = k]
<1> DEFINE m == addr_in_port[s]
<1>1. /\ m \in Masters /\ Active(m, s) /\ HREADYMUXM(s)
      /\ addr_out_port(m) = s /\ trans_ip(m) \in {"NONSEQ", "SEQ"}
  BY DEF IInv, TypeOK, Samples, HSELM, HTRANSM, Active
<1> HIDE DEF m
<1>2. IsActive(held(m)) /\ held(m).to = s
  BY <1>1, InputFacts DEF IInv
<1>3. active_ip(m)
  BY <1>1 DEF active_ip
<1>4. /\ pend_tran_reg'[m] = pend_tran(m)
      /\ data_valid'[m] = IF HREADYS(m) THEN IsActive(haddr[m]) ELSE data_valid[m]
      /\ data_out_port'[m] = IF HREADYS(m) THEN addr_out_port(m) ELSE data_out_port[m]
      /\ hdata'[m] = IF HREADYS(m) THEN haddr[m] ELSE hdata[m]
  BY <1>1 DEF HclkEdge, InputEdge, MasterEdge
<1>5. haddr[m] \in Phases /\ hdata[m] \in Phases
  BY <1>1 DEF IInv, TypeOK
<1>6. CASE HREADYS(m)
  <2>1. ~pend_tran_reg[m] /\ held(m) = haddr[m]
    BY <1>1, <1>6, InputFacts DEF IInv
  <2>2. haddr[m] = [haddr[m] EXCEPT !.trans = haddr[m].trans]
    BY <1>5 DEF Phases
  <2>3. haddr[m].trans \in {"NONSEQ", "SEQ"}
    BY <1>2, <2>1 DEF IsActive
  <2> QED BY <1>1, <1>2, <1>3, <1>4, <1>6, <2>1, <2>2, <2>3
          DEF m, held_tran, load_reg, pend_tran
<1>7. CASE ~HREADYS(m)
  <2>1. pend_tran_reg[m] /\ readyout_ip(m)
    BY <1>1, <1>7, ReadyFacts
  <2>2. data_valid[m] /\ data_out_port[m] = s
    BY <1>1, <2>1 DEF IInv, InputFollowsMaster, PortsFollowMasters
  <2>3. held(m) = [hdata[m] EXCEPT !.trans = "NONSEQ"]
    BY <1>1, <2>1, InputFacts DEF IInv
  <2>4. ~pend_tran(m)
    BY <1>3, <1>7, <2>1 DEF pend_tran, load_reg
  <2> QED BY <1>1, <1>2, <1>4, <1>7, <2>1, <2>2, <2>3, <2>4 DEF m, held_tran
<1> QED BY <1>6, <1>7

\* A slave that is not ready keeps its ports, and the data phase it is in.
LEMMA WaitingSlave ==
  ASSUME IInv, HclkEdge, NEW s \in Slaves, ~HREADYMUXM(s)
  PROVE  /\ no_port'[s] = no_port[s] /\ addr_in_port'[s] = addr_in_port[s]
         /\ data_in_port'[s] = data_in_port[s] /\ slave_sel'[s] = slave_sel[s]
         /\ hsel_lock'[s] = hsel_lock[s] /\ phase'[s] = phase[s]
         /\ resp[s] # "idle" /\ resp'[s] # "idle"
<1>1. resp[s] \in {"wait", "error"}
  BY DEF IInv, TypeOK, HREADYMUXM, HREADYOUTM
<1>2. resp'[s] # "idle"
  BY <1>1, NextResponse, MatrixAssumption DEF NextResponses, Samples
<1> QED BY <1>1, <1>2 DEF HclkEdge, OutputEdge, SlaveEdge, Ready, Samples

\* The data phase of a master goes on while it is not ready.
LEMMA WaitingMaster ==
  ASSUME HclkEdge, NEW m \in Masters, ~HREADYS(m)
  PROVE  /\ data_valid[m] /\ data_valid'[m] = data_valid[m]
         /\ data_out_port'[m] = data_out_port[m] /\ hdata'[m] = hdata[m]
         /\ pend_tran_reg'[m] = IF active_ip(m) /\ readyout_ip(m) THEN FALSE
                                ELSE pend_tran_reg[m]
BY DEF HclkEdge, InputEdge, MasterEdge, pend_tran, load_reg, HREADYS, HREADYOUTS

LEMMA DataPhaseStep ==
  ASSUME IInv, HclkEdge
  PROVE  DataPhasesAgree'
<1>1. ASSUME NEW s \in Slaves, resp'[s] # "idle"
      PROVE  LET m == data_in_port'[s]
             IN  /\ m \in Masters /\ slave_sel'[s]
                 /\ data_valid'[m] /\ ~pend_tran_reg'[m] /\ data_out_port'[m] = s
                 /\ phase'[s] = [hdata'[m] EXCEPT !.trans = phase'[s].trans,
                                                  !.burst = phase'[s].burst]
  <2>1. CASE ~HREADYMUXM(s)
    <3> DEFINE m == data_in_port[s]
    <3>1. /\ m \in Masters /\ slave_sel[s]
          /\ data_valid[m] /\ ~pend_tran_reg[m] /\ data_out_port[m] = s
          /\ phase[s] = [hdata[m] EXCEPT !.trans = phase[s].trans,
                                         !.burst = phase[s].burst]
      BY <2>1, WaitingSlave, Zenon DEF IInv, DataPhasesAgree
    <3>2. ~HREADYS(m)
      BY <2>1, <3>1 DEF HREADYS, HREADYOUTS, readyout_ip
    <3>3. /\ data_in_port'[s] = m /\ slave_sel'[s] = slave_sel[s] /\ phase'[s] = phase[s]
      BY <2>1, WaitingSlave
    <3>4. /\ data_valid'[m] /\ ~pend_tran_reg'[m]
          /\ data_out_port'[m] = s /\ hdata'[m] = hdata[m]
      BY <3>1, <3>2, WaitingMaster
    <3> HIDE DEF m
    <3> QED BY <3>1, <3>3, <3>4, Zenon
  <2>2. CASE HREADYMUXM(s) /\ Samples(s)
    <3> DEFINE m == addr_in_port[s]
    <3>1. /\ m \in Masters /\ data_valid'[m] /\ ~pend_tran_reg'[m] /\ data_out_port'[m] = s
          /\ \E k \in {"NONSEQ", "SEQ"} : held(m) = [hdata'[m] EXCEPT !.trans = k]
      BY <2>2, SampledTransfer
    <3>2. data_in_port'[s] = m /\ slave_sel'[s] /\ phase'[s] = ip(m)
      BY <2>2 DEF HclkEdge, OutputEdge, SlaveEdge, Ready, Samples
    <3> HIDE DEF m
    <3>3. ip(m) \in Phases /\ held(m) \in Phases /\ hdata'[m] \in Phases
      BY <3>1, InputTypes, HclkTypes DEF IInv, TypeOK
    <3>4. ip(m) = [hdata'[m] EXCEPT !.trans = ip(m).trans, !.burst = ip(m).burst]
      BY <3>1, <3>3 DEF ip, Phases
    <3> QED BY <3>1, <3>2, <3>4, Zenon
  <2>3. CASE HREADYMUXM(s) /\ ~Samples(s)
    BY <1>1, <2>3, NextResponse DEF NextResponses
  <2> QED BY <2>1, <2>2, <2>3
<1>2. ASSUME NEW m \in Masters, NEW s \in Slaves,
             data_valid'[m], ~pend_tran_reg'[m], data_out_port'[m] = s
      PROVE  resp'[s] # "idle" /\ data_in_port'[s] = m
  <2>1. CASE held_tran(m) /\ held(m).to = s
    <3>1. ~pend_tran(m)
      BY <1>2 DEF HclkEdge, InputEdge
    <3>2. Active(m, s) /\ Samples(s)
      BY <2>1, <3>1, PassedTransfer
    <3> QED BY <3>2, NextResponse, MatrixAssumption
            DEF HclkEdge, OutputEdge, Ready, NextResponses, Samples, Active
  <2>2. CASE ~held_tran(m)
    <3>1. ~HREADYS(m) /\ data_valid[m] /\ ~pend_tran_reg[m] /\ data_out_port[m] = s
      BY <1>2, <2>2, WaitingMaster DEF held_tran, load_reg, HclkEdge, InputEdge
    <3>2. resp[s] # "idle" /\ data_in_port[s] = m
      BY <3>1, Zenon DEF IInv, DataPhasesAgree
    <3>3. ~HREADYMUXM(s)
      BY <3>1 DEF HREADYS, HREADYOUTS, readyout_ip
    <3> QED BY <3>2, <3>3, WaitingSlave
  <2>3. CASE held_tran(m) /\ held(m).to # s
    <3>1. IsActive(held(m)) /\ addr_out_port(m) = held(m).to
      BY <2>3, InputFacts DEF IInv, held_tran, load_reg
    <3>2. CASE HREADYS(m)
      BY <1>2, <2>3, <3>1, <3>2 DEF HclkEdge, InputEdge
    <3>3. CASE ~HREADYS(m)
      <4>1. pend_tran_reg[m] /\ data_out_port'[m] = data_out_port[m]
        BY <2>3, <3>3, WaitingMaster DEF held_tran, load_reg
      <4>2. held(m).to = hdata[m].to /\ data_out_port[m] = hdata[m].to
        BY <4>1, InputFacts DEF IInv, InputFollowsMaster
      <4> QED BY <1>2, <2>3, <4>1, <4>2
    <3> QED BY <3>2, <3>3
  <2> QED BY <2>1, <2>2, <2>3
<1> QED BY <1>1, <1>2, Zenon DEF DataPhasesAgree, Slaves, Masters

\* A slave that is ready is given to the master that requested it, or kept by
\* the one that has it.
LEMMA ReadySlave ==
  ASSUME IInv, HclkEdge, NEW m \in Masters, NEW s \in Slaves, HREADYMUXM(s), Active(m, s)'
  PROVE  /\ data_in_port'[s] = addr_in_port[s] /\ hsel_lock'[s] = next_hsel_lock(s)
         /\ \/ ~Active(m, s) /\ req_port(m, s)
            \/ Active(m, s) /\ (Hold(s) \/ HSELM(s))
<1>1. /\ data_in_port'[s] = addr_in_port[s] /\ hsel_lock'[s] = next_hsel_lock(s)
      /\ ~next_no_port(s) /\ next_addr_in_port(s) = m
  BY DEF HclkEdge, OutputEdge, Ready, Active
<1>2. Hold(s) \/ HSELM(s) => ~no_port[s]
  BY DEF Hold, hlock_arb, HMASTLOCKM, next_burst_hold, HSELM
<1>3. CASE Hold(s) \/ NextPort(s) = 0
  BY <1>1, <1>2, <1>3 DEF next_no_port, next_addr_in_port, Active
<1>4. CASE ~Hold(s) /\ NextPort(s) # 0
  <2>1. NextPort(s) = m /\ req_port(m, s)
    BY <1>1, <1>4, NextPortFacts DEF IInv, next_addr_in_port
  <2>2. Active(m, s) => HSELM(s)
    BY <2>1 DEF req_port, Active, HSELM
  <2> QED BY <1>1, <2>1, <2>2
<1> QED BY <1>3, <1>4

LEMMA LockHolder ==
  ASSUME IInv, NEW s \in Slaves, hsel_lock[s]
  PROVE  ~no_port[s] /\ hdata[addr_in_port[s]].lock = s /\ s # 0
<1>1. ~no_port[s] /\ hdata[addr_in_port[s]].lock = s
  BY Zenon DEF IInv, LocksFollowMasters
<1> QED BY <1>1, MatrixAssumption DEF Slaves

LEMMA PortStep ==
  ASSUME IInv, HclkEdge
  PROVE  PortsFollowMasters'
<1> SUFFICES ASSUME NEW m \in Masters, NEW s \in Slaves, Active(m, s)'
             PROVE  /\ data_valid'[m] => data_out_port'[m] = s
                    /\ resp'[s] # "idle" /\ data_in_port'[s] # m => pend_tran_reg'[m]
  BY DEF PortsFollowMasters, Masters, Slaves
<1> DEFINE Routed == data_valid'[m] => data_out_port'[m] = s
<1>1. /\ pend_tran_reg'[m] = pend_tran(m)
      /\ data_valid'[m] = IF HREADYS(m) THEN IsActive(haddr[m]) ELSE data_valid[m]
      /\ data_out_port'[m] = IF HREADYS(m) THEN addr_out_port(m) ELSE data_out_port[m]
  BY DEF HclkEdge, InputEdge
<1>2. s # Default
  BY MatrixAssumption DEF Slaves, Default
<1>3. CASE ~HREADYMUXM(s)
  <2>1. Active(m, s) /\ data_in_port'[s] = data_in_port[s] /\ resp[s] # "idle"
    BY <1>3, WaitingSlave DEF Active
  <2>2. ~HREADYS(m) /\ (pend_tran_reg[m] => ~readyout_ip(m))
    BY <1>3, <2>1, ReadyFacts
  <2>3. pend_tran_reg[m] => pend_tran_reg'[m]
    BY <2>2, WaitingMaster
  <2> QED BY <1>1, <2>1, <2>2, <2>3 DEF IInv, PortsFollowMasters
<1>4. CASE HREADYMUXM(s) /\ ~Active(m, s) /\ req_port(m, s)
  <2>1. held_tran(m) /\ addr_out_port(m) = s
    BY <1>4 DEF req_port
  <2>2. pend_tran_reg'[m]
    <3>1. ~active_ip(m)
      BY <1>2, <1>4, <2>1 DEF active_ip
    <3> QED BY <1>1, <2>1, <3>1 DEF held_tran, pend_tran
  <2>3. CASE HREADYS(m)
    BY <1>1, <2>1, <2>2, <2>3
  <2>4. CASE ~HREADYS(m)
    <3>1. pend_tran_reg[m]
      BY <2>1, <2>4 DEF held_tran, load_reg
    <3>2. data_out_port[m] = s
      BY <2>1, <3>1, InputFacts DEF IInv, InputFollowsMaster
    <3> QED BY <1>1, <2>2, <2>4, <3>2
  <2> QED BY <2>3, <2>4
<1>5. CASE HREADYMUXM(s) /\ Active(m, s) /\ (Hold(s) \/ HSELM(s))
  <2>1. data_in_port'[s] = m
    BY <1>5, ReadySlave DEF Active
  <2>2. data_valid[m] => data_out_port[m] = s
    BY <1>5 DEF IInv, PortsFollowMasters
  <2>3. CASE ~HREADYS(m)
    BY <1>1, <2>1, <2>2, <2>3
  <2>4. CASE HREADYS(m) /\ HSELM(s)
    BY <1>1, <1>5, <2>1, <2>4 DEF HSELM, Active
  <2>5. CASE HREADYS(m) /\ ~HSELM(s)
    <3>1. hsel_lock[s] /\ held(m).lock # 0
      BY <1>5, <2>5 DEF Hold, hlock_arb, next_burst_hold, HMASTLOCKM, Active
    <3>2. hdata[m].lock = s /\ s # 0
      BY <1>5, <3>1, LockHolder DEF Active
    <3>3. held(m) = haddr[m]
      BY <2>5, InputFacts DEF IInv
    <3>4. IsActive(haddr[m]) => addr_out_port(m) = s
      BY <3>1, <3>2, <3>3, InputFacts DEF IInv, MasterRules, IsActive
    <3> QED BY <1>1, <2>1, <2>5, <3>4
  <2> QED BY <2>3, <2>4, <2>5
<1> QED BY <1>3, <1>4, <1>5, ReadySlave

\* A locked transfer to a slave that is ready is kept in its master's locked
\* sequence.
LEMMA LockKept ==
  ASSUME IInv, HclkEdge, NEW s \in Slaves, HREADYMUXM(s), HMASTLOCKM(s),
         hsel_lock[s] \/ (HSELM(s) /\ HTRANSM(s) \in {"NONSEQ", "SEQ"})
  PROVE  /\ ~no_port'[s] /\ addr_in_port'[s] = addr_in_port[s] /\ hsel_lock'[s]
         /\ hdata'[addr_in_port[s]].lock = s
<1> DEFINE n == addr_in_port[s]
<1>1. n \in Masters /\ Active(n, s) /\ held(n).lock # 0
  BY DEF IInv, TypeOK, HMASTLOCKM, Active
<1>2. next_hsel_lock(s) /\ Hold(s)
  BY DEF next_hsel_lock, Hold, hlock_arb
<1>3. ~no_port'[s] /\ addr_in_port'[s] = n /\ hsel_lock'[s]
  BY <1>2 DEF HclkEdge, OutputEdge, Ready, next_no_port, next_addr_in_port
<1>4. HSELM(s) /\ HTRANSM(s) \in {"NONSEQ", "SEQ"} => IsActive(held(n)) /\ held(n).to = s
  BY <1>1, InputFacts DEF IInv, HSELM, HTRANSM
<1>5. hsel_lock[s] => hdata[n].lock = s /\ s # 0
  BY LockHolder
<1> HIDE DEF n
<1>6. /\ haddr[n].trans # "IDLE" => haddr[n].lock \in {0, haddr[n].to}
      /\ hdata[n].trans # "IDLE" => hdata[n].lock \in {0, hdata[n].to}
      /\ hdata[n].lock # 0 => haddr[n].lock \in {0, hdata[n].lock}
  BY <1>1 DEF IInv, MasterRules
<1>7. haddr[n] \in Phases /\ hdata[n] \in Phases
  BY <1>1 DEF IInv, TypeOK
<1>8. CASE pend_tran_reg[n]
  <2>1. IsActive(hdata[n]) /\ hdata[n].to = s
    BY <1>1, <1>8 DEF IInv, InputFollowsMaster, PortsFollowMasters
  <2>2. held(n).lock = hdata[n].lock
    BY <1>1, <1>7, <1>8, InputFacts DEF IInv, Phases
  <2>3. ~HREADYS(n)
    BY <1>1, <1>8, InputFacts DEF IInv
  <2>4. hdata'[n] = hdata[n]
    BY <1>1, <2>3, WaitingMaster
  <2> QED BY <1>1, <1>3, <1>6, <2>1, <2>2, <2>4 DEF IsActive, n
<1>9. CASE ~pend_tran_reg[n]
  <2>1. HREADYS(n) /\ held(n) = haddr[n]
    BY <1>1, <1>9, ReadyFacts, InputFacts DEF IInv
  <2>2. hdata'[n] = haddr[n]
    BY <1>1, <2>1 DEF HclkEdge, MasterEdge
  <2>3. haddr[n].lock = s
    BY <1>1, <1>4, <1>5, <1>6, <2>1 DEF IsActive
  <2> QED BY <1>3, <2>2, <2>3 DEF n
<1> QED BY <1>8, <1>9

LEMMA LockStep ==
  ASSUME IInv, HclkEdge
  PROVE  LocksFollowMasters'
<1>1. ASSUME NEW s \in Slaves, hsel_lock'[s]
      PROVE  ~no_port'[s] /\ hdata'[addr_in_port'[s]].lock = s
  <2>1. CASE ~HREADYMUXM(s)
    <3> DEFINE n == addr_in_port[s]
    <3>1. hsel_lock[s] /\ no_port'[s] = no_port[s] /\ addr_in_port'[s] = n
      BY <1>1, <2>1, WaitingSlave
    <3>2. ~no_port[s] /\ hdata[n].lock = s
      BY <3>1, LockHolder
    <3>3. n \in Masters /\ Active(n, s)
      BY <3>2 DEF IInv, TypeOK, Active
    <3> HIDE DEF n
    <3>4. hdata'[n] = hdata[n]
      BY <2>1, <3>3, ReadyFacts, WaitingMaster
    <3> QED BY <3>1, <3>2, <3>4
  <2>2. CASE HREADYMUXM(s)
    <3>1. next_hsel_lock(s)
      BY <1>1, <2>2 DEF HclkEdge, OutputEdge, Ready
    <3> QED BY <2>2, <3>1, LockKept DEF next_hsel_lock
  <2> QED BY <2>1, <2>2
<1>2. ASSUME NEW s \in Slaves, NEW m, m = phase'[s].master,
             phase'[s].lock = s, hdata'[m].lock = s, ~pend_tran_reg'[m]
      PROVE  Active(m, s)' /\ hsel_lock'[s]
  <2>0. s # 0
    BY MatrixAssumption DEF Slaves
  <2>1. CASE Samples(s)
    <3> DEFINE n == addr_in_port[s]
    <3>1. n \in Masters /\ HREADYMUXM(s) /\ ~no_port[s] /\ phase'[s] = ip(n)
          /\ HSELM(s) /\ HTRANSM(s) \in {"NONSEQ", "SEQ"}
      BY <2>1, SampledTransfer DEF Samples, HSELM, HclkEdge, SlaveEdge
    <3> HIDE DEF n
    <3>2. ip(n).master = held(n).master /\ ip(n).lock = held(n).lock
      <4>1. held(n) \in Phases
        BY <3>1, InputTypes DEF IInv
      <4> QED BY <4>1 DEF ip, Phases
    <3>3. held(n).master = n
      <4>1. haddr[n] \in Phases /\ hdata[n] \in Phases
            /\ haddr[n].master = n /\ hdata[n].master = n
        BY <3>1 DEF IInv, TypeOK, MasterRules
      <4> QED BY <3>1, <4>1, InputFacts DEF IInv, Phases
    <3>4. m = n /\ HMASTLOCKM(s)
      BY <1>2, <2>0, <3>1, <3>2, <3>3 DEF HMASTLOCKM, n
    <3> QED BY <3>1, <3>4, LockKept DEF Active, n
  <2>2. CASE ~Samples(s)
    <3>1. phase'[s] = phase[s]
      BY <2>2 DEF HclkEdge, SlaveEdge
    <3>2. m \in Masters /\ haddr[m] \in Phases /\ hdata[m] \in Phases
      BY <1>2, <3>1 DEF IInv, TypeOK, Phases
    <3>3. /\ haddr[m].trans # "IDLE" => haddr[m].lock \in {0, haddr[m].to}
          /\ hdata[m].trans # "IDLE" => hdata[m].lock \in {0, hdata[m].to}
          /\ hdata[m].lock # 0 => haddr[m].lock \in {0, hdata[m].lock}
          /\ hdata[m].lock = 0 /\ haddr[m].lock # 0 => haddr[m].trans = "NONSEQ"
      BY <3>2 DEF IInv, MasterRules
    <3>4. ~pend_tran(m) /\ hdata'[m] = IF HREADYS(m) THEN haddr[m] ELSE hdata[m]
      BY <1>2, <3>2 DEF HclkEdge, InputEdge, MasterEdge
    <3>5. hdata[m].lock = s /\ ~pend_tran_reg[m]
      <4>1. CASE HREADYS(m)
        <5>1. haddr[m].lock = s /\ ~pend_tran_reg[m] /\ held(m) = haddr[m]
          BY <1>2, <3>2, <3>4, <4>1, InputFacts DEF IInv
        <5>2. hdata[m].lock # 0
          <6> SUFFICES ASSUME hdata[m].lock = 0 PROVE FALSE
            OBVIOUS
          <6>1. IsActive(haddr[m]) /\ haddr[m].to = s
            BY <2>0, <3>3, <5>1 DEF IsActive
          <6> QED BY <2>2, <3>2, <3>4, <4>1, <5>1, <6>1, PassedTransfer
                  DEF held_tran, load_reg
        <5> QED BY <2>0, <3>3, <5>1, <5>2
      <4>2. CASE ~HREADYS(m)
        <5>1. hdata[m].lock = s
          BY <1>2, <3>4, <4>2
        <5>2. ~pend_tran_reg[m]
          <6> SUFFICES ASSUME pend_tran_reg[m] PROVE FALSE
            OBVIOUS
          <6>1. IsActive(hdata[m]) /\ hdata[m].to = s
            BY <2>0, <3>2, <3>3, <5>1 DEF IInv, InputFollowsMaster, IsActive
          <6>2. held(m).to = s
            BY <3>2, <6>1, InputFacts DEF IInv
          <6> QED BY <2>2, <3>2, <3>4, <6>2, PassedTransfer DEF held_tran
        <5> QED BY <5>1, <5>2
      <4> QED BY <4>1, <4>2
    <3>6. Active(m, s) /\ hsel_lock[s]
      BY <1>2, <3>1, <3>5, Zenon DEF IInv, LocksFollowMasters
    <3>7. CASE ~HREADYMUXM(s)
      BY <3>6, <3>7, WaitingSlave DEF Active
    <3>8. CASE HREADYMUXM(s)
      <4>1. HREADYS(m) /\ held(m) = haddr[m] /\ haddr[m].lock = s
        BY <1>2, <3>2, <3>4, <3>5, <3>6, <3>8, ReadyFacts, InputFacts DEF IInv
      <4>2. HMASTLOCKM(s)
        BY <2>0, <3>6, <4>1 DEF HMASTLOCKM, Active
      <4> QED BY <3>6, <3>8, <4>2, LockKept DEF Active
    <3> QED BY <3>7, <3>8
  <2> QED BY <2>1, <2>2
<1> QED BY <1>1, <1>2, Zenon DEF LocksFollowMasters, Slaves

-----------------------------------------------------------------------------
LEMMA InitInv == Init => IInv
<1> SUFFICES ASSUME Init PROVE IInv
  OBVIOUS
<1>1. CoreInv
  BY InitCore
<1>2. \A m \in Masters : haddr[m] = Quiet(m) /\ hdata[m] = Quiet(m) /\ ~data_valid[m]
  BY DEF Init, quiet, ofMasters
<1>3. \A s \in Slaves : no_port[s] /\ resp[s] = "idle" /\ ~hsel_lock[s] /\ phase[s] = Quiet(1)
  BY DEF Init, ofSlaves
<1>4. 1 \in Masters /\ 0 \notin Slaves
  BY MatrixAssumption DEF Masters, Slaves
<1>5. MasterRules
  BY <1>2, QuietFacts DEF MasterRules
<1>6. PortsFollowMasters /\ LocksFollowMasters
  BY <1>3, <1>4, QuietFacts DEF PortsFollowMasters, LocksFollowMasters, Active
<1>7. DataPhasesAgree
  BY <1>2, <1>3, Zenon DEF DataPhasesAgree
<1> QED BY <1>1, <1>5, <1>6, <1>7 DEF IInv, CoreInv

LEMMA ResetInv == IInv /\ Reset => IInv'
<1> SUFFICES ASSUME IInv, Reset PROVE IInv'
  OBVIOUS
<1>1. CoreInv'
  BY ResetCore DEF IInv, CoreInv
<1>2. \A m \in Masters : haddr'[m] = Quiet(m) /\ hdata'[m] = Quiet(m) /\ ~data_valid'[m]
  BY DEF Reset, quiet, ofMasters
<1>3. \A s \in Slaves : no_port'[s] /\ resp'[s] = "idle" /\ ~hsel_lock'[s] /\ phase'[s] = Quiet(1)
  BY DEF Reset, ofSlaves
<1>4. 1 \in Masters /\ 0 \notin Slaves
  BY MatrixAssumption DEF Masters, Slaves
<1>5. MasterRules'
  BY <1>2, QuietFacts DEF MasterRules
<1>6. PortsFollowMasters' /\ LocksFollowMasters'
  BY <1>3, <1>4, QuietFacts DEF PortsFollowMasters, LocksFollowMasters, Active
<1>7. DataPhasesAgree'
  BY <1>2, <1>3, Zenon DEF DataPhasesAgree
<1> QED BY <1>1, <1>5, <1>6, <1>7 DEF IInv, CoreInv

LEMMA StutterInv == IInv /\ UNCHANGED vars => IInv'
<1> SUFFICES ASSUME IInv, UNCHANGED vars PROVE IInv'
  OBVIOUS
<1>1. UNCHANGED <<reg, pend_tran_reg, data_valid, data_out_port, dft, no_port, addr_in_port,
                  data_in_port, slave_sel, hsel_lock, haddr, hdata, phase, resp>>
  BY DEF vars, inputVars, outputVars, masterVars, slaveVars
<1>2. CoreInv'
  BY StutterCore DEF IInv, CoreInv
<1>3. MasterRules' /\ PortsFollowMasters'
  BY <1>1 DEF IInv, MasterRules, PortsFollowMasters, Active
<1>4. LocksFollowMasters' /\ DataPhasesAgree'
  BY <1>1, Zenon DEF IInv, LocksFollowMasters, Active, DataPhasesAgree
<1> QED BY <1>2, <1>3, <1>4 DEF IInv, CoreInv

LEMMA Invariance == ASSUME LocksStayInRegion PROVE Spec => []IInv
<1>1. IInv /\ [Next]_vars => IInv'
  <2>1. IInv /\ HclkEdge => IInv'
    BY HclkTypes, InputStep, MasterStep, PortStep, LockStep, DataPhaseStep DEF IInv, CoreInv
  <2> QED BY <2>1, ResetInv, StutterInv DEF Next
<1> QED BY InitInv, <1>1, PTL DEF Spec

\* The data phases at the two sides of the matrix are the same, for any number
\* of masters and slaves and any wait states: what is registered with the ready
\* of the slave and what is registered with that of the master never part.
THEOREM DataPhasesAlwaysAgree == ASSUME LocksStayInRegion PROVE Spec => []DataPhasesAgree
<1>1. IInv => DataPhasesAgree
  BY DEF IInv
<1> QED BY Invariance, <1>1, PTL

\* The arbiters keep a locked slave for its master through the whole locked
\* sequence, also while an idle address phase deselects the slave.
THEOREM LocksAlwaysExclude == ASSUME LocksStayInRegion PROVE Spec => []LocksExclude
<1>1. IInv => LocksExclude
  BY Zenon DEF IInv, LocksFollowMasters, LocksExclude, Active
<1> QED BY Invariance, <1>1, PTL

-----------------------------------------------------------------------------
(* Bursts.  What the slave has sampled, what the arbiter has counted and    *)
(* what the input stage holds all follow the burst of the master.           *)

\* y continues the burst that x is a transfer of.
Continues(x, y) ==
  /\ IsActive(x) /\ x.burst # "SINGLE" /\ x.beat < Length(x.burst)
  /\ y.master = x.master /\ y.to = x.to /\ y.burst = x.burst /\ y.beat = x.beat + 1
  /\ y.addr = IF bound_next(x) THEN x.addr + 1 - Length(x.burst) ELSE (x.addr + 1) % 16

SamePlace(x, y) == y = [x EXCEPT !.trans = y.trans]

InBurst(m) == haddr[m].trans \in {"SEQ", "BUSY"}

\* A phase in a burst follows the data phase of its master, or a BUSY cycle in
\* its own place.
MastersBurst ==
  \A m \in Masters :
    /\ ~InBurst(m) => haddr[m].beat = 1
    /\ InBurst(m) => \/ Continues(hdata[m], haddr[m])
                     \/ hdata[m].trans = "BUSY" /\ SamePlace(hdata[m], haddr[m])

\* Only a burst of undefined length loses its slave.
InputsHoldWholeBursts ==
  \A m \in Masters :
    /\ pend_tran_reg[m] => hdata[m].burst = "INCR" \/ hdata[m].beat = 1
    /\ burst_override[m] => /\ hdata[m].trans \in {"SEQ", "BUSY"}
                            /\ hdata[m].burst = "INCR" /\ ~bound[m]

\* The arbiter has counted the beats of a burst of defined length.
ArbiterCountsBeats ==
  \A m \in Masters, s \in Slaves :
    InBurst(m) /\ haddr[m].to = s /\ haddr[m].burst # "INCR" /\ ~pend_tran_reg[m] =>
      /\ Active(m, s) /\ reg_burst_hold[s]
      /\ reg_burst_remain[s] = Length(haddr[m].burst) - haddr[m].beat

\* A slave that is given to a master in a burst has sampled the last beat.
SlavesFollowBursts ==
  \A m \in Masters, s \in Slaves :
    InBurst(m) /\ haddr[m].to = s /\ Active(m, s) /\ ~pend_tran_reg[m] =>
      Continues(phase[s], haddr[m])

BurstInv == /\ MastersBurst /\ InputsHoldWholeBursts
            /\ ArbiterCountsBeats /\ SlavesFollowBursts

\* The next beat of a burst.
LEMMA BeatFacts ==
  ASSUME NEW x \in Phases, NEW y \in NextBeats(x)
  PROVE  /\ y.trans \in {"SEQ", "BUSY"}
         /\ IsActive(x) => Continues(x, y)
         /\ ~IsActive(x) => x.trans = "BUSY" /\ SamePlace(x, y)
<1>1. CASE x.burst # "SINGLE" /\ IsActive(x) /\ x.beat < Length(x.burst)
  <2> DEFINE K == IF Busy THEN {"SEQ", "BUSY"} ELSE {"SEQ"}
             V == IF x.write THEN Values ELSE {0}
             next == IF bound_next(x) THEN x.addr + 1 - Length(x.burst)
                                      ELSE (x.addr + 1) % 16
  <2>1. PICK k \in {"SEQ", "BUSY"}, v \in V : y = NextBeat(x, k, v)
    <3>1. NextBeats(x) = {NextBeat(x, k, v) : k \in K, v \in V}
      BY <1>1 DEF NextBeats
    <3>2. K \subseteq {"SEQ", "BUSY"}
      OBVIOUS
    <3> HIDE DEF K, V
    <3> QED BY <3>1, <3>2
  <2>2. y = [x EXCEPT !.trans = k, !.beat = @ + 1, !.data = v, !.addr = next]
    BY <2>1 DEF NextBeat
  <2>3. /\ y.trans = k /\ y.beat = x.beat + 1 /\ y.addr = next
        /\ y.master = x.master /\ y.to = x.to /\ y.burst = x.burst
    <3> HIDE DEF next
    <3> QED BY <2>2 DEF Phases
  <2> QED BY <1>1, <2>3 DEF Continues
<1>2. CASE ~(x.burst # "SINGLE" /\ IsActive(x) /\ x.beat < Length(x.burst))
  <2>1. y \in IF x.trans = "BUSY" THEN {x, [x EXCEPT !.trans = "SEQ"]} ELSE {}
    BY <1>2 DEF NextBeats
  <2> QED BY <2>1 DEF Phases, IsActive, SamePlace
<1> QED BY <1>1, <1>2

\* A beat that follows can be made by the master.
LEMMA ContinuesIsNextBeat ==
  ASSUME NEW x \in Phases, NEW y \in Phases, Continues(x, y)
  PROVE  \E z \in NextBeats(x) : /\ z.master = y.master /\ z.beat = y.beat
                                 /\ z.addr = y.addr /\ z.burst = y.burst
<1> DEFINE K == IF Busy THEN {"SEQ", "BUSY"} ELSE {"SEQ"}
           V == IF x.write THEN Values ELSE {0}
           next == IF bound_next(x) THEN x.addr + 1 - Length(x.burst)
                                    ELSE (x.addr + 1) % 16
           z == NextBeat(x, "SEQ", 0)
<1>1. z = [x EXCEPT !.trans = "SEQ", !.beat = @ + 1, !.data = 0, !.addr = next]
  BY DEF NextBeat
<1>2. z.master = x.master /\ z.beat = x.beat + 1 /\ z.addr = next /\ z.burst = x.burst
  <2> HIDE DEF next
  <2> QED BY <1>1 DEF Phases
<1>3. NextBeats(x) = {NextBeat(x, k, v) : k \in K, v \in V}
  BY DEF Continues, NextBeats
<1>4. "SEQ" \in K /\ 0 \in V
  BY MatrixAssumption
<1>5. z \in NextBeats(x)
  <2> HIDE DEF K, V
  <2> QED BY <1>3, <1>4
<1> QED BY <1>2, <1>5 DEF Continues

\* The input stage hides nothing from the output stage: an override changes no
\* burst but one of undefined length, which it leaves as it is.
LEMMA Presented ==
  ASSUME IInv, MastersBurst, InputsHoldWholeBursts, NEW m \in Masters,
         held(m).trans # "IDLE"
  PROVE  trans_ip(m) = held(m).trans /\ burst_ip(m) = held(m).burst /\ ip(m) = held(m)
<1>1. burst_override[m] => hdata[m].burst = "INCR" /\ ~bound[m]
  BY DEF InputsHoldWholeBursts
<1>2. trans_ip(m) = held(m).trans
  BY <1>1 DEF trans_ip
<1>3. haddr[m] \in Phases /\ hdata[m] \in Phases /\ held(m) \in Phases
  BY InputTypes DEF IInv, TypeOK
<1>4. burst_ip(m) = held(m).burst
  <2> SUFFICES ASSUME burst_override[m], transb(m) # "NONSEQ" PROVE held(m).burst = "INCR"
    BY DEF burst_ip
  <2>1. CASE pend_tran_reg[m]
    <3>1. held(m) = [hdata[m] EXCEPT !.trans = "NONSEQ"]
      BY <2>1, InputFacts DEF IInv
    <3> QED BY <1>1, <1>3, <3>1 DEF Phases
  <2>2. CASE ~pend_tran_reg[m]
    <3>1. held(m) = haddr[m] /\ transb(m) = haddr[m].trans
      BY <2>2 DEF held, transb
    <3>2. InBurst(m)
      BY <1>3, <3>1 DEF InBurst, Phases
    <3>3. Continues(hdata[m], haddr[m]) \/ SamePlace(hdata[m], haddr[m])
      BY <3>2 DEF MastersBurst
    <3>4. haddr[m].burst = hdata[m].burst
      BY <1>3, <3>3 DEF Continues, SamePlace, Phases
    <3> QED BY <1>1, <3>1, <3>4
  <2> QED BY <2>1, <2>2
<1>5. ip(m) = held(m)
  BY <1>2, <1>3, <1>4 DEF ip, Phases
<1> QED BY <1>2, <1>4, <1>5

\* What a phase in a burst has before it, after an edge of HCLK: the beat that
\* was accepted, a BUSY cycle that was, or itself.
LEMMA BurstCases ==
  ASSUME IInv, MastersBurst, HclkEdge, NEW m \in Masters, haddr'[m].trans \in {"SEQ", "BUSY"}
  PROVE  \/ HREADYS(m) /\ hdata'[m] = haddr[m] /\ Continues(haddr[m], haddr'[m])
         \/ HREADYS(m) /\ hdata'[m] = haddr[m] /\ haddr[m].trans = "BUSY"
              /\ SamePlace(haddr[m], haddr'[m])
         \/ ~HREADYS(m) /\ hdata'[m] = hdata[m] /\ InBurst(m)
              /\ SamePlace(haddr[m], haddr'[m])
<1> DEFINE y == haddr'[m]
<1>1. haddr[m] \in Phases /\ hdata[m] \in Phases /\ y \in NextPhases(m)
  BY NextAddressPhase DEF IInv, TypeOK
<1>2. hdata'[m] = IF HREADYS(m) THEN haddr[m] ELSE hdata[m]
  BY DEF HclkEdge, MasterEdge
<1>3. y.trans \in {"SEQ", "BUSY"}
  OBVIOUS
<1> HIDE DEF y
<1>4. CASE ~HREADYS(m) /\ y = haddr[m]
  BY <1>1, <1>2, <1>3, <1>4 DEF y, InBurst, SamePlace, Phases
<1>5. CASE (HREADYS(m) \/ haddr[m].trans = "BUSY") /\ y \in NextBeats(haddr[m])
  BY <1>1, <1>2, <1>5, BeatFacts DEF y, InBurst, IsActive
<1>6. CASE \E x \in Phases : y \in NewPhases(m, x)
  BY <1>3, <1>6, NewPhaseFacts
<1> QED BY <1>1, <1>4, <1>5, <1>6, NextPhaseCases

LEMMA MastersBurstStep ==
  ASSUME IInv, MastersBurst, HclkEdge PROVE MastersBurst'
<1> SUFFICES ASSUME NEW m \in Masters
             PROVE  /\ haddr'[m].trans \notin {"SEQ", "BUSY"} => haddr'[m].beat = 1
                    /\ haddr'[m].trans \in {"SEQ", "BUSY"} =>
                         \/ Continues(hdata'[m], haddr'[m])
                         \/ hdata'[m].trans = "BUSY" /\ SamePlace(hdata'[m], haddr'[m])
  BY DEF MastersBurst, InBurst, SamePlace, Continues, IsActive, bound_next
<1>1. haddr[m] \in Phases /\ hdata[m] \in Phases /\ haddr'[m] \in NextPhases(m)
  BY NextAddressPhase DEF IInv, TypeOK
<1>2. ASSUME haddr'[m].trans \notin {"SEQ", "BUSY"} PROVE haddr'[m].beat = 1
  <2>1. CASE haddr'[m] = haddr[m]
    BY <1>2, <2>1 DEF MastersBurst, InBurst
  <2>2. CASE haddr'[m] \in NextBeats(haddr[m])
    BY <1>1, <1>2, <2>2, BeatFacts
  <2>3. ASSUME NEW x \in Phases, haddr'[m] \in NewPhases(m, x) PROVE haddr'[m].beat = 1
    <3>1. haddr'[m] \in Requests[m] \/ \E i \in Idles : haddr'[m] = Idle(m, i)
      BY <2>3 DEF NewPhases
    <3>2. \A r \in Requests[m] : r.beat = 1
      BY MatrixAssumption
    <3>3. \A i \in Idles : Idle(m, i).beat = 1
      BY DEF Idle
    <3> QED BY <3>1, <3>2, <3>3, Zenon
  <2> QED BY <1>1, <2>1, <2>2, <2>3, NextPhaseCases
<1>3. ASSUME haddr'[m].trans \in {"SEQ", "BUSY"}
      PROVE  \/ Continues(hdata'[m], haddr'[m])
             \/ hdata'[m].trans = "BUSY" /\ SamePlace(hdata'[m], haddr'[m])
  <2>1. CASE ~HREADYS(m) /\ hdata'[m] = hdata[m] /\ InBurst(m) /\ SamePlace(haddr[m], haddr'[m])
    <3>1. \/ Continues(hdata[m], haddr[m])
          \/ hdata[m].trans = "BUSY" /\ SamePlace(hdata[m], haddr[m])
      BY <2>1 DEF MastersBurst
    <3> QED BY <1>1, <2>1, <3>1 DEF Continues, SamePlace, Phases
  <2> QED BY <1>3, <2>1, BurstCases
<1> QED BY <1>2, <1>3

\* A slave is given to a master that does not have it only for a transfer that
\* its input stage holds.
LEMMA GrantKept ==
  ASSUME IInv, HclkEdge, NEW m \in Masters, NEW s \in Slaves, Active(m, s)', ~pend_tran_reg'[m]
  PROVE  Active(m, s)
<1>1. CASE ~HREADYMUXM(s)
  BY <1>1, WaitingSlave DEF Active
<1>2. CASE HREADYMUXM(s) /\ ~Active(m, s) /\ req_port(m, s)
  <2>1. s # Default
    BY MatrixAssumption DEF Slaves, Default
  <2>2. held_tran(m) /\ ~active_ip(m)
    BY <1>2, <2>1 DEF req_port, active_ip
  <2>3. pend_tran_reg'[m] = pend_tran(m)
    BY DEF HclkEdge, InputEdge
  <2> QED BY <2>2, <2>3 DEF held_tran, pend_tran
<1> QED BY <1>1, <1>2, ReadySlave

\* What the arbiter and the slave make of a transfer that is passed to them.
LEMMA PassedBeat ==
  ASSUME IInv, MastersBurst, InputsHoldWholeBursts, HclkEdge, NEW m \in Masters,
         NEW s \in Slaves, held_tran(m), ~pend_tran_reg'[m], held(m).to = s
  PROVE  /\ Active(m, s) /\ phase'[s] = held(m)
         /\ \/ held(m).trans = "NONSEQ" /\ held(m).burst \notin {"SINGLE", "INCR"}
            \/ held(m).trans = "SEQ" /\ reg_burst_hold[s] /\ reg_burst_remain[s] # 0
            => /\ Active(m, s)' /\ reg_burst_hold'[s]
               /\ reg_burst_remain'[s] = IF held(m).trans = "NONSEQ"
                                           THEN FirstRemain(held(m).burst)
                                           ELSE reg_burst_remain[s] - 1
<1>1. Active(m, s) /\ Samples(s)
  BY PassedTransfer DEF HclkEdge, InputEdge
<1>2. IsActive(held(m)) /\ ~no_port[s] /\ addr_in_port[s] = m
  BY <1>1, InputFacts DEF IInv, held_tran, load_reg, Active
<1>3. trans_ip(m) = held(m).trans /\ burst_ip(m) = held(m).burst /\ ip(m) = held(m)
  BY <1>2, Presented DEF IsActive
<1>4. /\ HREADYMUXM(s) /\ HSELM(s) /\ HTRANSM(s) = held(m).trans
      /\ HBURSTM(s) = held(m).burst
  BY <1>1, <1>2, <1>3 DEF Samples, HTRANSM, HBURSTM
<1>5. phase'[s] = held(m)
  BY <1>1, <1>2, <1>3 DEF HclkEdge, SlaveEdge
<1>6. ASSUME \/ held(m).trans = "NONSEQ" /\ held(m).burst \notin {"SINGLE", "INCR"}
             \/ held(m).trans = "SEQ" /\ reg_burst_hold[s] /\ reg_burst_remain[s] # 0
      PROVE  /\ Active(m, s)' /\ reg_burst_hold'[s]
             /\ reg_burst_remain'[s] = IF held(m).trans = "NONSEQ"
                                         THEN FirstRemain(held(m).burst)
                                         ELSE reg_burst_remain[s] - 1
  <2>1. next_burst_hold(s)
    BY <1>4, <1>6 DEF next_burst_hold
  <2>2. next_burst_remain(s) = IF held(m).trans = "NONSEQ"
                                 THEN FirstRemain(held(m).burst)
                                 ELSE reg_burst_remain[s] - 1
    BY <1>4, <1>6, <2>1 DEF next_burst_remain
  <2>3. ~next_no_port(s) /\ next_addr_in_port(s) = m
    BY <1>2, <2>1 DEF next_no_port, next_addr_in_port, Hold
  <2> QED BY <1>4, <2>1, <2>2, <2>3 DEF HclkEdge, OutputEdge, Ready, Active
<1> QED BY <1>1, <1>5, <1>6

-----------------------------------------------------------------------------
\* The input stage holds a beat in the middle of a burst only when its length is
\* not defined.
LEMMA HoldStep ==
  ASSUME IInv, BurstInv, HclkEdge PROVE InputsHoldWholeBursts'
<1> SUFFICES ASSUME NEW m \in Masters
             PROVE  /\ pend_tran_reg'[m] => hdata'[m].burst = "INCR" \/ hdata'[m].beat = 1
                    /\ burst_override'[m] => /\ hdata'[m].trans \in {"SEQ", "BUSY"}
                                             /\ hdata'[m].burst = "INCR" /\ ~bound'[m]
  BY DEF InputsHoldWholeBursts
<1>1. /\ hdata'[m] = IF HREADYS(m) THEN haddr[m] ELSE hdata[m]
      /\ pend_tran_reg'[m] = pend_tran(m)
      /\ burst_override'[m] = IF HREADYS(m) THEN burst_override_next(m) ELSE burst_override[m]
      /\ bound'[m] = IF load_reg(m) THEN bound_next(haddr[m]) ELSE bound[m]
  BY DEF HclkEdge, InputEdge, MasterEdge
<1>2. /\ pend_tran_reg[m] => hdata[m].burst = "INCR" \/ hdata[m].beat = 1
      /\ burst_override[m] => /\ hdata[m].trans \in {"SEQ", "BUSY"}
                              /\ hdata[m].burst = "INCR" /\ ~bound[m]
  BY DEF BurstInv, InputsHoldWholeBursts
<1>3. haddr[m] \in Phases /\ hdata[m] \in Phases
  BY DEF IInv, TypeOK
<1>4. CASE ~HREADYS(m)
  <2>1. ~load_reg(m)
    BY <1>4 DEF load_reg
  <2> QED BY <1>1, <1>2, <1>4, <2>1 DEF pend_tran
<1>5. CASE HREADYS(m)
  <2>1. ~pend_tran_reg[m] /\ held(m) = haddr[m]
    BY <1>5, InputFacts DEF IInv
  <2>2. InBurst(m) => \/ Continues(hdata[m], haddr[m])
                      \/ hdata[m].trans = "BUSY" /\ SamePlace(hdata[m], haddr[m])
    BY DEF BurstInv, MastersBurst
  <2>3. ASSUME load_reg(m), ~active_ip(m), InBurst(m) PROVE haddr[m].burst = "INCR"
    <3>1. IsActive(held(m)) /\ addr_out_port(m) = haddr[m].to
      BY <2>1, <2>3, InputFacts DEF IInv, load_reg
    <3>2. haddr[m].to \in Ports /\ haddr[m].to # Default /\ ~Active(m, haddr[m].to)
      BY <1>3, <2>3, <3>1 DEF active_ip, Phases
    <3>3. haddr[m].to \in Slaves
      BY <3>2, MatrixAssumption DEF Ports, Default, Slaves
    <3> QED BY <2>1, <2>3, <3>2, <3>3 DEF BurstInv, ArbiterCountsBeats
  <2>4. ASSUME pend_tran_reg'[m] PROVE hdata'[m].burst = "INCR" \/ hdata'[m].beat = 1
    <3>1. load_reg(m) /\ ~active_ip(m)
      BY <1>1, <2>1, <2>4 DEF pend_tran
    <3>2. InBurst(m) \/ haddr[m].beat = 1
      BY DEF BurstInv, MastersBurst
    <3> QED BY <1>1, <1>5, <2>3, <3>1, <3>2
  <2>5. ASSUME burst_override'[m]
        PROVE  /\ hdata'[m].trans \in {"SEQ", "BUSY"}
               /\ hdata'[m].burst = "INCR" /\ ~bound'[m]
    <3>1. InBurst(m) /\ (burst_override[m] \/ (load_reg(m) /\ ~active_ip(m)))
      BY <1>1, <1>3, <1>5, <2>5 DEF burst_override_next, InBurst, Phases
    <3>2. haddr[m].burst = hdata[m].burst
      BY <1>3, <2>2, <3>1 DEF Continues, SamePlace, Phases
    <3>3. haddr[m].burst = "INCR"
      BY <1>2, <2>3, <3>1, <3>2
    <3>4. ~bound_next(haddr[m])
      BY <3>3 DEF bound_next, Wraps
    <3>5. burst_override[m] => ~bound[m]
      BY <1>2
    <3> QED BY <1>1, <1>5, <3>1, <3>3, <3>4, <3>5 DEF InBurst
  <2> QED BY <2>4, <2>5
<1> QED BY <1>4, <1>5

\* The transfer before a phase in a burst is passed now, or the slave has sampled
\* it; in the second case nothing happens at the slave, or it sees a BUSY cycle.
LEMMA BurstPasses ==
  ASSUME IInv, MastersBurst, InputsHoldWholeBursts, HclkEdge,
         NEW m \in Masters, NEW s \in Slaves,
         haddr'[m].trans \in {"SEQ", "BUSY"}, haddr'[m].to = s, ~pend_tran_reg'[m]
  PROVE  \/ held_tran(m) /\ held(m).to = s /\ Continues(held(m), haddr'[m])
         \/ /\ InBurst(m) /\ ~pend_tran_reg[m] /\ SamePlace(haddr[m], haddr'[m])
            /\ ~HREADYS(m) \/ haddr[m].trans = "BUSY"
<1>1. haddr[m] \in Phases /\ hdata[m] \in Phases
  BY DEF IInv, TypeOK
<1>2. CASE HREADYS(m) /\ Continues(haddr[m], haddr'[m])
  <2>1. held(m) = haddr[m]
    BY <1>2, InputFacts DEF IInv
  <2> QED BY <1>2, <2>1 DEF Continues, held_tran, load_reg
<1>3. CASE HREADYS(m) /\ haddr[m].trans = "BUSY" /\ SamePlace(haddr[m], haddr'[m])
  <2>1. ~pend_tran_reg[m]
    BY <1>3, InputFacts DEF IInv
  <2> QED BY <1>3, <2>1 DEF InBurst
<1>4. CASE ~HREADYS(m) /\ InBurst(m) /\ SamePlace(haddr[m], haddr'[m])
  <2>1. CASE pend_tran_reg[m]
    <3>1. held(m) = [hdata[m] EXCEPT !.trans = "NONSEQ"] /\ IsActive(hdata[m])
      BY <2>1, InputFacts DEF IInv, InputFollowsMaster
    <3>2. Continues(hdata[m], haddr[m])
      BY <1>4, <3>1 DEF MastersBurst, IsActive
    <3>3. Continues(held(m), haddr[m])
      BY <1>1, <3>1, <3>2 DEF Continues, IsActive, bound_next, Phases
    <3>4. Continues(held(m), haddr'[m])
      BY <1>1, <1>4, <3>3 DEF Continues, SamePlace, Phases
    <3> QED BY <2>1, <3>4 DEF held_tran, Continues
  <2>2. CASE ~pend_tran_reg[m]
    BY <1>4, <2>2
  <2> QED BY <2>1, <2>2
<1> QED BY <1>2, <1>3, <1>4, BurstCases

\* An edge at which a master that has its slave passes no transfer to it.
LEMMA QuietBeat ==
  ASSUME IInv, MastersBurst, InputsHoldWholeBursts, HclkEdge,
         NEW m \in Masters, NEW s \in Slaves,
         InBurst(m), haddr[m].to = s, Active(m, s), ~pend_tran_reg[m],
         ~HREADYS(m) \/ haddr[m].trans = "BUSY"
  PROVE  /\ phase'[s] = phase[s]
         /\ reg_burst_hold[s] /\ haddr[m].burst # "INCR" =>
              /\ Active(m, s)' /\ reg_burst_hold'[s]
              /\ reg_burst_remain'[s] = reg_burst_remain[s]
<1>1. CASE ~HREADYMUXM(s)
  BY <1>1, WaitingSlave DEF Active, HclkEdge, OutputEdge, Ready
<1>2. CASE HREADYMUXM(s)
  <2>1. HREADYS(m) /\ haddr[m].trans = "BUSY"
    BY <1>2, ReadyFacts
  <2>2. held(m) = haddr[m]
    BY DEF held
  <2>3. trans_ip(m) = "BUSY" /\ addr_out_port(m) = s
    BY <2>1, <2>2, Presented DEF addr_out_port
  <2>4. ~no_port[s] /\ addr_in_port[s] = m
    BY DEF Active
  <2>5. HSELM(s) /\ HTRANSM(s) = "BUSY"
    BY <2>3, <2>4 DEF HSELM, HTRANSM
  <2>6. phase'[s] = phase[s]
    BY <2>5 DEF HclkEdge, SlaveEdge, Samples
  <2>7. ASSUME reg_burst_hold[s]
        PROVE  /\ Active(m, s)' /\ reg_burst_hold'[s]
               /\ reg_burst_remain'[s] = reg_burst_remain[s]
    <3>1. next_burst_hold(s) /\ next_burst_remain(s) = reg_burst_remain[s]
      BY <2>5, <2>7 DEF next_burst_hold, next_burst_remain
    <3>2. ~next_no_port(s) /\ next_addr_in_port(s) = m
      BY <2>4, <3>1 DEF next_no_port, next_addr_in_port, Hold
    <3> QED BY <1>2, <3>1, <3>2 DEF HclkEdge, OutputEdge, Ready, Active
  <2> QED BY <2>6, <2>7
<1> QED BY <1>1, <1>2

\* The count of a burst that is held: it starts two beats short of the length.
LEMMA Counted ==
  ASSUME NEW x \in Phases, NEW y \in Phases, Continues(x, y), x.burst # "INCR"
  PROVE  /\ x.burst # "SINGLE" /\ y.burst = x.burst
         /\ x.beat = 1 => FirstRemain(x.burst) = Length(y.burst) - y.beat
         /\ Length(x.burst) - x.beat # 0
         /\ Length(x.burst) - x.beat - 1 = Length(y.burst) - y.beat
  BY DEF Continues, FirstRemain, Length, Phases, Bursts

LEMMA CountStep ==
  ASSUME IInv, BurstInv, HclkEdge, IInv' PROVE ArbiterCountsBeats'
<1> SUFFICES ASSUME NEW m \in Masters, NEW s \in Slaves,
                    haddr'[m].trans \in {"SEQ", "BUSY"}, haddr'[m].to = s,
                    haddr'[m].burst # "INCR", ~pend_tran_reg'[m]
             PROVE  /\ Active(m, s)' /\ reg_burst_hold'[s]
                    /\ reg_burst_remain'[s] = Length(haddr'[m].burst) - haddr'[m].beat
  BY DEF ArbiterCountsBeats, InBurst, Masters, Slaves, Length
<1>1. haddr[m] \in Phases /\ hdata[m] \in Phases /\ held(m) \in Phases /\ haddr'[m] \in Phases
  BY InputTypes DEF IInv, TypeOK
<1>2. CASE held_tran(m) /\ held(m).to = s /\ Continues(held(m), haddr'[m])
  <2>1. held(m).burst # "INCR"
    BY <1>2 DEF Continues
  <2>2. /\ held(m).burst # "SINGLE"
        /\ held(m).beat = 1 =>
             FirstRemain(held(m).burst) = Length(haddr'[m].burst) - haddr'[m].beat
        /\ Length(held(m).burst) - held(m).beat # 0
        /\ Length(held(m).burst) - held(m).beat - 1
             = Length(haddr'[m].burst) - haddr'[m].beat
    BY <1>1, <1>2, <2>1, Counted
  <2>3. CASE held(m).trans = "NONSEQ"
    <3>1. held(m).beat = 1
      <4>1. CASE pend_tran_reg[m]
        <5>1. held(m) = [hdata[m] EXCEPT !.trans = "NONSEQ"]
          BY <4>1, InputFacts DEF IInv
        <5>2. hdata[m].burst = "INCR" \/ hdata[m].beat = 1
          BY <4>1 DEF BurstInv, InputsHoldWholeBursts
        <5> QED BY <1>1, <2>1, <5>1, <5>2 DEF Phases
      <4>2. CASE ~pend_tran_reg[m]
        <5>1. held(m) = haddr[m] /\ ~InBurst(m)
          BY <2>3, <4>2 DEF held, InBurst
        <5> QED BY <5>1 DEF BurstInv, MastersBurst
      <4> QED BY <4>1, <4>2
    <3> QED BY <1>2, <2>1, <2>2, <2>3, <3>1, PassedBeat DEF BurstInv
  <2>4. CASE held(m).trans = "SEQ"
    <3>1. ~pend_tran_reg[m] /\ held(m) = haddr[m]
      <4>1. pend_tran_reg[m] => held(m).trans = "NONSEQ"
        BY <1>1 DEF held, IInv, TypeOK, Phases
      <4> QED BY <2>4, <4>1 DEF held
    <3>2. reg_burst_hold[s] /\ reg_burst_remain[s] = Length(held(m).burst) - held(m).beat
      BY <1>2, <2>1, <2>4, <3>1 DEF BurstInv, ArbiterCountsBeats, InBurst
    <3> QED BY <1>2, <2>2, <2>4, <3>2, PassedBeat DEF BurstInv
  <2> QED BY <1>2, <2>3, <2>4 DEF Continues, IsActive
<1>3. CASE /\ InBurst(m) /\ ~pend_tran_reg[m] /\ SamePlace(haddr[m], haddr'[m])
           /\ ~HREADYS(m) \/ haddr[m].trans = "BUSY"
  <2>1. /\ haddr[m].to = s /\ haddr[m].burst = haddr'[m].burst
        /\ haddr[m].beat = haddr'[m].beat
    BY <1>1, <1>3 DEF SamePlace, Phases
  <2>2. /\ Active(m, s) /\ reg_burst_hold[s]
        /\ reg_burst_remain[s] = Length(haddr[m].burst) - haddr[m].beat
    BY <1>3, <2>1 DEF BurstInv, ArbiterCountsBeats
  <2> QED BY <1>3, <2>1, <2>2, QuietBeat DEF BurstInv
<1> QED BY <1>2, <1>3, BurstPasses DEF BurstInv

LEMMA FollowStep ==
  ASSUME IInv, BurstInv, HclkEdge, IInv' PROVE SlavesFollowBursts'
<1> SUFFICES ASSUME NEW m \in Masters, NEW s \in Slaves,
                    haddr'[m].trans \in {"SEQ", "BUSY"}, haddr'[m].to = s,
                    Active(m, s)', ~pend_tran_reg'[m]
             PROVE  Continues(phase'[s], haddr'[m])
  BY DEF SlavesFollowBursts, InBurst, Masters, Slaves, Continues, IsActive, bound_next
<1>1. haddr[m] \in Phases /\ haddr'[m] \in Phases
  BY DEF IInv, TypeOK
<1>2. CASE held_tran(m) /\ held(m).to = s /\ Continues(held(m), haddr'[m])
  BY <1>2, PassedBeat DEF BurstInv
<1>3. CASE /\ InBurst(m) /\ ~pend_tran_reg[m] /\ SamePlace(haddr[m], haddr'[m])
           /\ ~HREADYS(m) \/ haddr[m].trans = "BUSY"
  <2>1. Active(m, s)
    BY GrantKept
  <2>2. haddr[m].to = s
    BY <1>1, <1>3 DEF SamePlace, Phases
  <2>3. Continues(phase[s], haddr[m]) /\ phase'[s] = phase[s]
    BY <1>3, <2>1, <2>2, QuietBeat DEF BurstInv, SlavesFollowBursts
  <2> QED BY <1>1, <1>3, <2>3 DEF Continues, SamePlace, Phases
<1> QED BY <1>2, <1>3, BurstPasses DEF BurstInv

LEMMA QuietBeats == \A m \in Masters : Quiet(m).trans = "IDLE" /\ Quiet(m).beat = 1
<1> SUFFICES ASSUME NEW m \in Masters PROVE Quiet(m).trans = "IDLE" /\ Quiet(m).beat = 1
  OBVIOUS
<1> QED BY DEF Quiet, Idle

LEMMA QuietBursts ==
  ASSUME \A m \in Masters : haddr[m] = Quiet(m) /\ ~pend_tran_reg[m] /\ ~burst_override[m]
  PROVE  BurstInv
<1>1. \A m \in Masters : haddr[m].trans = "IDLE" /\ haddr[m].beat = 1
  BY QuietBeats
<1> QED
  BY <1>1 DEF BurstInv, MastersBurst, InputsHoldWholeBursts, ArbiterCountsBeats,
              SlavesFollowBursts, InBurst

LEMMA BurstInvariance == ASSUME LocksStayInRegion PROVE Spec => []BurstInv
<1>1. Init => BurstInv
  BY QuietBursts DEF Init, quiet, ofMasters
<1>2. IInv /\ IInv' /\ BurstInv /\ [Next]_vars => BurstInv'
  <2> SUFFICES ASSUME IInv, IInv', BurstInv, [Next]_vars PROVE BurstInv'
    OBVIOUS
  <2>1. CASE HclkEdge
    BY <2>1, MastersBurstStep, HoldStep, CountStep, FollowStep DEF BurstInv
  <2>2. CASE Reset
    <3>1. \A m \in Masters : haddr'[m] = Quiet(m) /\ ~pend_tran_reg'[m] /\ ~burst_override'[m]
      BY <2>2 DEF Reset, quiet, ofMasters
    <3>2. \A m \in Masters : haddr'[m].trans = "IDLE" /\ haddr'[m].beat = 1
      BY <3>1, QuietBeats
    <3> QED
      BY <3>1, <3>2 DEF BurstInv, MastersBurst, InputsHoldWholeBursts, ArbiterCountsBeats,
                        SlavesFollowBursts, InBurst
  <2>3. CASE UNCHANGED vars
    <3>1. UNCHANGED <<pend_tran_reg, burst_override, bound, no_port, addr_in_port,
                      reg_burst_hold, reg_burst_remain, haddr, hdata, phase>>
      BY <2>3 DEF vars, inputVars, outputVars, masterVars, slaveVars
    <3>2. MastersBurst' /\ InputsHoldWholeBursts'
      BY <3>1 DEF BurstInv, MastersBurst, InputsHoldWholeBursts, InBurst, SamePlace,
                  Continues, IsActive, bound_next
    <3>3. ArbiterCountsBeats' /\ SlavesFollowBursts'
      BY <3>1 DEF BurstInv, ArbiterCountsBeats, SlavesFollowBursts, InBurst, Active,
                  Continues, IsActive, bound_next
    <3> QED BY <3>2, <3>3 DEF BurstInv
  <2> QED BY <2>1, <2>2, <2>3 DEF Next
<1> QED BY <1>1, <1>2, Invariance, PTL DEF Spec

\* Whatever the other masters do, a slave sees each burst of defined length from
\* its first beat to its last, and a SEQ transfer only after the beat it follows.
THEOREM BurstsAlwaysWhole == ASSUME LocksStayInRegion PROVE Spec => []BurstsStayWhole
<1>1. IInv /\ BurstInv => BurstsStayWhole
  <2> SUFFICES ASSUME IInv, BurstInv, NEW s \in Slaves, Samples(s)
               PROVE  LET x == ip(addr_in_port[s])
                      IN  /\ x.trans = "SEQ" => \E y \in NextBeats(phase[s]) :
                               /\ y.master = x.master /\ y.beat = x.beat
                               /\ y.addr = x.addr /\ y.burst = x.burst
                          /\ held(x.master).burst # "INCR" /\ x.beat > 1 => x.trans = "SEQ"
    BY DEF BurstsStayWhole
  <2> DEFINE m == addr_in_port[s]
  <2>1. /\ m \in Masters /\ Active(m, s) /\ addr_out_port(m) = s
        /\ trans_ip(m) \in {"NONSEQ", "SEQ"}
    BY DEF IInv, TypeOK, Samples, HSELM, HTRANSM, Active
  <2> HIDE DEF m
  <2>2. IsActive(held(m)) /\ held(m).to = s
    BY <2>1, InputFacts DEF IInv
  <2>3. ip(m) = held(m)
    BY <2>1, <2>2, Presented DEF BurstInv, IsActive
  <2>4. /\ haddr[m] \in Phases /\ hdata[m] \in Phases /\ held(m) \in Phases
        /\ phase[s] \in Phases
    BY <2>1, InputTypes DEF IInv, TypeOK
  <2>5. held(m).master = m
    <3>1. haddr[m].master = m /\ hdata[m].master = m
      BY <2>1 DEF IInv, MasterRules
    <3>2. \/ held(m) = haddr[m]
          \/ held(m) = [hdata[m] EXCEPT !.trans = "NONSEQ"]
      BY <2>1, InputFacts DEF IInv
    <3> QED BY <2>4, <3>1, <3>2 DEF Phases
  <2>6. CASE pend_tran_reg[m]
    <3>1. held(m) = [hdata[m] EXCEPT !.trans = "NONSEQ"]
      BY <2>1, <2>6, InputFacts DEF IInv
    <3>2. hdata[m].burst = "INCR" \/ hdata[m].beat = 1
      BY <2>1, <2>6 DEF BurstInv, InputsHoldWholeBursts
    <3>3. held(m).trans = "NONSEQ" /\ (held(m).burst = "INCR" \/ held(m).beat = 1)
      BY <2>4, <3>1, <3>2 DEF Phases
    <3> QED BY <2>3, <2>5, <3>3 DEF m
  <2>7. CASE ~pend_tran_reg[m]
    <3>1. held(m) = haddr[m]
      BY <2>7 DEF held
    <3>2. CASE InBurst(m)
      <4>1. Continues(phase[s], held(m))
        BY <2>1, <2>2, <2>7, <3>1, <3>2 DEF BurstInv, SlavesFollowBursts
      <4>2. held(m).trans = "SEQ"
        BY <2>2, <3>1, <3>2 DEF InBurst, IsActive
      <4> QED BY <2>3, <2>4, <4>1, <4>2, ContinuesIsNextBeat DEF m
    <3>3. CASE ~InBurst(m)
      <4>1. held(m).beat = 1 /\ held(m).trans # "SEQ"
        BY <2>1, <3>1, <3>3 DEF BurstInv, MastersBurst, InBurst
      <4> QED BY <2>3, <4>1 DEF m
    <3> QED BY <3>2, <3>3
  <2> QED BY <2>6, <2>7
<1> QED BY Invariance, BurstInvariance, <1>1, PTL


-----------------------------------------------------------------------------
\* The masters whose data phase ends with an answer of the slave, or an error.
Performed == {m \in Masters : IsActive(hdata[m]) /\ HREADYS(m) /\ HRESPS(m) # "error2"}
Failed    == {m \in Masters : IsActive(hdata[m]) /\ HREADYS(m) /\ HRESPS(m) = "error2"}

op == [m \in Masters |-> Op(m)]

\* What a slave performs at the end of its data phase is the transfer whose
\* master is answered then.
LEMMA PerformedFacts ==
  ASSUME IInv, NEW m \in Performed
  PROVE  /\ m \in Masters /\ IsActive(hdata[m]) /\ HREADYS(m)
         /\ hdata[m].to \in Slaves /\ data_out_port[m] = hdata[m].to
         /\ data_in_port[hdata[m].to] = m /\ resp[hdata[m].to] = "okay"
         /\ phase[hdata[m].to].write = hdata[m].write
<1>1. m \in Masters /\ IsActive(hdata[m]) /\ HREADYS(m) /\ HRESPS(m) # "error2"
  BY DEF Performed
<1> DEFINE s == hdata[m].to
<1>2. /\ s \in Slaves /\ data_out_port[m] = s
      /\ HREADYMUXM(s) /\ HRESPS(m) = resp[s]
  BY <1>1, AnswerFacts DEF IInv
<1>3. data_valid[m] /\ ~pend_tran_reg[m]
  BY <1>1, InputFacts DEF IInv, InputFollowsMaster
<1> HIDE DEF s
<1>4. resp[s] # "idle" /\ data_in_port[s] = m
  BY <1>1, <1>2, <1>3, Zenon DEF IInv, DataPhasesAgree
<1>5. /\ slave_sel[s]
      /\ phase[s] = [hdata[m] EXCEPT !.trans = phase[s].trans, !.burst = phase[s].burst]
  BY <1>2, <1>4, Zenon DEF IInv, DataPhasesAgree
<1>6. resp[s] = "okay"
  BY <1>1, <1>2, <1>4, <1>5 DEF IInv, TypeOK, HREADYMUXM, HREADYOUTM
<1>7. phase[s].write = hdata[m].write
  <2>1. hdata[m] \in Phases
    BY <1>1 DEF IInv, TypeOK
  <2> QED BY <1>5, <2>1 DEF Phases
<1> QED BY <1>1, <1>2, <1>4, <1>6, <1>7 DEF s

LEMMA WriteFacts ==
  ASSUME IInv, NEW s \in Slaves, resp[s] = "okay", phase[s].write
  PROVE  /\ data_in_port[s] \in Performed /\ hdata[data_in_port[s]].to = s
         /\ hdata[data_in_port[s]].write
         /\ HWDATAM(s) = hdata[data_in_port[s]].data
<1> DEFINE m == data_in_port[s]
<1>1. m \in Masters /\ data_valid[m] /\ ~pend_tran_reg[m] /\ data_out_port[m] = s
  BY Zenon DEF IInv, DataPhasesAgree
<1>2. phase[s] = [hdata[m] EXCEPT !.trans = phase[s].trans, !.burst = phase[s].burst]
  BY Zenon DEF IInv, DataPhasesAgree
<1> HIDE DEF m
<1>3. IsActive(hdata[m]) /\ hdata[m].to = s
  BY <1>1 DEF IInv, InputFollowsMaster
<1>4. HREADYS(m) /\ HRESPS(m) # "error2"
  <2>1. s # Default /\ s # 0
    BY MatrixAssumption DEF Slaves, Default
  <2>2. HREADYMUXM(s)
    BY DEF HREADYMUXM, HREADYOUTM
  <2> QED BY <1>1, <2>1, <2>2 DEF HREADYS, HREADYOUTS, readyout_ip, HRESPS, resp_ip
<1>5. hdata[m].write
  <2>1. hdata[m] \in Phases
    BY <1>1 DEF IInv, TypeOK
  <2> QED BY <1>2, <2>1 DEF Phases
<1>6. m # 0
  BY <1>1, MatrixAssumption DEF Masters
<1> QED BY <1>1, <1>3, <1>4, <1>5, <1>6 DEF Performed, HWDATAM, m

LEMMA CallFacts ==
  ASSUME NEW m \in Masters
  PROVE  /\ op[m] # Shared!None <=> IsActive(hdata[m])
         /\ IsActive(hdata[m]) =>
              /\ op[m].to = hdata[m].to /\ op[m].write = hdata[m].write
              /\ op[m].data = hdata[m].data
BY DEF op, Op, Shared!None

LEMMA ServeStep ==
  ASSUME IInv, IInv', HclkEdge
  PROVE  Shared!Serve(Performed, Failed)
<1>1. \A m \in Performed \cup Failed : op[m] # Shared!None
  BY CallFacts DEF Performed, Failed
<1>2. \A m \in Performed : /\ op[m].to \in Slaves
                           /\ \A n \in Performed : op[n].to = op[m].to => n = m
  BY CallFacts, PerformedFacts
<1>3. mem' \in [Slaves -> Values]
  BY DEF IInv, TypeOK
<1>4. ASSUME NEW s \in Slaves
      PROVE  LET writers == {m \in Performed : op[m].to = s /\ op[m].write}
             IN  IF writers = {} THEN mem'[s] = mem[s]
                                 ELSE \A m \in writers : mem'[s] = op[m].data
  <2> DEFINE writers == {m \in Performed : op[m].to = s /\ op[m].write}
  <2>1. mem'[s] = IF resp[s] = "okay" /\ phase[s].write THEN HWDATAM(s) ELSE mem[s]
    BY DEF HclkEdge, SlaveEdge
  <2>2. CASE resp[s] = "okay" /\ phase[s].write
    <3>1. data_in_port[s] \in writers
      BY <2>2, WriteFacts, PerformedFacts, CallFacts
    <3>2. \A m \in writers : m = data_in_port[s]
      BY PerformedFacts, CallFacts
    <3>3. op[data_in_port[s]].data = HWDATAM(s)
      BY <2>2, WriteFacts, PerformedFacts, CallFacts
    <3> HIDE DEF writers
    <3>4. writers # {} /\ \A m \in writers : mem'[s] = op[m].data
      BY <2>1, <2>2, <3>1, <3>2, <3>3
    <3> QED BY <3>4 DEF writers
  <2>3. CASE ~(resp[s] = "okay" /\ phase[s].write)
    <3>1. writers = {}
      BY <2>3, PerformedFacts, CallFacts
    <3> QED BY <2>1, <2>3, <3>1
  <2> QED BY <2>2, <2>3
<1>5. got' = [m \in Masters |->
        IF m \in Performed THEN [error |-> FALSE,
                                 data  |-> IF op[m].write THEN 0 ELSE mem[op[m].to]]
        ELSE IF m \in Failed THEN [error |-> TRUE, data |-> 0]
        ELSE got[m]]
  <2>1. ASSUME NEW m \in Performed
        PROVE  Answer(m) = [error |-> FALSE,
                            data  |-> IF op[m].write THEN 0 ELSE mem[op[m].to]]
    <3>1. /\ m \in Masters /\ HRESPS(m) # "error2"
          /\ op[m].write = hdata[m].write /\ op[m].to = data_out_port[m]
      BY PerformedFacts, CallFacts DEF Performed
    <3> QED BY <3>1 DEF Answer
  <2>2. \A m \in Failed : Answer(m) = [error |-> TRUE, data |-> 0]
    BY DEF Answer, Failed
  <2>3. \A m \in Masters :
          IsActive(hdata[m]) /\ HREADYS(m) <=> m \in Performed \/ m \in Failed
    BY DEF Performed, Failed
  <2>4. got' = [m \in Masters |->
          IF IsActive(hdata[m]) /\ HREADYS(m) THEN Answer(m) ELSE got[m]]
    BY DEF HclkEdge, MasterEdge
  <2> QED BY <2>1, <2>2, <2>3, <2>4
<1> QED BY <1>1, <1>2, <1>3, <1>4, <1>5 DEF Shared!Serve, op, Shared!None

LEMMA CallStep ==
  ASSUME IInv, IInv', HclkEdge
  PROVE  Shared!Call(Performed \cup Failed)
<1>1. op' \in [Masters -> Shared!Calls \cup {Shared!None}]
  <2>1. \A m \in Masters : hdata'[m] \in Phases
    BY DEF IInv, TypeOK
  <2>2. \A m \in Masters : Op(m)' \in Shared!Calls \cup {Shared!None}
    BY <2>1 DEF Op, Phases, Shared!Calls, Shared!None
  <2> QED BY <2>2 DEF op, Masters
<1>2. ASSUME NEW m \in Masters, m \notin Performed \cup Failed, op[m] # Shared!None
      PROVE  op'[m] = op[m]
  <2>1. ~HREADYS(m)
    BY <1>2, CallFacts DEF Performed, Failed
  <2>2. hdata'[m] = hdata[m]
    BY <2>1, WaitingMaster
  <2> QED BY <2>2 DEF op, Op, Masters, IsActive
<1> QED BY <1>1, <1>2 DEF Shared!Call, op, Shared!Calls, Shared!None

\* The matrix implements the abstract interconnect, for any number of masters
\* and slaves: every transfer is performed once, by the slave it names, with
\* its own write data, and answered by it.
THEOREM ImplementsSharedSlaves == ASSUME LocksStayInRegion PROVE Spec => SharedSlavesSpec
<1>1. Init => Shared!Init
  <2> SUFFICES ASSUME Init PROVE Shared!Init
    OBVIOUS
  <2>1. op = [m \in Masters |-> Shared!None]
    BY QuietFacts DEF Init, quiet, op, Op, Shared!None
  <2>2. mem \in [Slaves -> Values] /\ got \in [Masters -> [error : BOOLEAN, data : Values]]
    BY InitInv DEF IInv, TypeOK
  <2> QED BY <2>1, <2>2 DEF Shared!Init, op
<1>2. IInv /\ IInv' /\ [Next]_vars => [Shared!Next]_(Shared!vars)
  <2>1. ASSUME IInv, IInv', HclkEdge PROVE Shared!Next
    <3>1. Performed \cap Failed = {} /\ Performed \in SUBSET Masters
                                     /\ Failed \in SUBSET Masters
      BY DEF Performed, Failed
    <3> QED BY <2>1, <3>1, ServeStep, CallStep DEF Shared!Next
  <2>2. ASSUME Reset PROVE Shared!Next
    <3>1. op' = [m \in Masters |-> Shared!None]
      BY <2>2, QuietFacts DEF Reset, quiet, op, Op, Shared!None, Masters, IsActive
    <3> QED BY <2>2, <3>1 DEF Reset, Shared!Next, Shared!Reset, op
  <2>3. ASSUME UNCHANGED vars PROVE UNCHANGED Shared!vars
    BY <2>3 DEF vars, masterVars, slaveVars, Shared!vars, Op, IsActive, Masters
  <2> QED BY <2>1, <2>2, <2>3 DEF Next
<1> QED BY Invariance, <1>1, <1>2, PTL DEF Spec, SharedSlavesSpec, Shared!Spec
=============================================================================
