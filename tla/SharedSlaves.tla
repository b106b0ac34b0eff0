---------------------------- MODULE SharedSlaves ----------------------------
(***************************************************************************)
(* What an interconnect promises the masters that share slaves through it: *)
(* every call is performed once, by the slave it names, or fails without   *)
(* effect; each slave performs one call at a time, and each master gets    *)
(* the answer to its own call.                                             *)
(***************************************************************************)
EXTENDS Integers

CONSTANTS
  Masters,
  Slaves,
  Ports,     \* the slaves, and the addresses where there is none
  Values     \* what a slave stores

VARIABLES
  op,    \* the call of each master, or None
  mem,   \* what each slave stores
  got    \* the last answer to each master

vars == <<op, mem, got>>

Calls == [status : {"pending"}, to : Ports, write : BOOLEAN, data : Values]
None  == [status |-> "none"]

Init ==
  /\ op = [m \in Masters |-> None]
  /\ mem \in [Slaves -> Values]
  /\ got \in [Masters -> [error : BOOLEAN, data : Values]]

\* The calls of the masters in done are performed, those in failed are not.
Serve(done, failed) ==
  /\ \A m \in done \cup failed : op[m] # None
  /\ \A m \in done : /\ op[m].to \in Slaves
                     /\ \A n \in done : op[n].to = op[m].to => n = m
  /\ mem' \in [Slaves -> Values]
  /\ \A s \in Slaves :
       LET writers == {m \in done : op[m].to = s /\ op[m].write}
       IN  IF writers = {} THEN mem'[s] = mem[s]
                           ELSE \A m \in writers : mem'[s] = op[m].data
  /\ got' = [m \in Masters |->
       IF m \in done THEN [error |-> FALSE,
                           data  |-> IF op[m].write THEN 0 ELSE mem[op[m].to]]
       ELSE IF m \in failed THEN [error |-> TRUE, data |-> 0]
       ELSE got[m]]

\* Masters that are not waiting for an answer may call.
Call(idle) ==
  /\ op' \in [Masters -> Calls \cup {None}]
  /\ \A m \in Masters : m \in idle \/ op[m] = None \/ op'[m] = op[m]

Reset == op' = [m \in Masters |-> None] /\ UNCHANGED <<mem, got>>

Next ==
  \/ \E done, failed \in SUBSET Masters :
       /\ done \cap failed = {}
       /\ Serve(done, failed)
       /\ Call(done \cup failed)
  \/ Reset

Spec == Init /\ [][Next]_vars
=============================================================================
