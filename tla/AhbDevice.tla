------------------------------ MODULE AhbDevice ------------------------------
(***************************************************************************)
(* What an AHB device promises its master: a transfer in its data phase is *)
(* performed once, on the bytes it names, or fails without effect; then    *)
(* the master is told which, and a read returns its bytes as they were     *)
(* when the transfer was performed.                                        *)
(***************************************************************************)
EXTENDS AhbTransfers

VARIABLES
  op,    \* the transfer in its data phase
  mem,   \* the words of the device
  got    \* what the master was told last

vars == <<op, mem, got>>

None       == [status |-> "none"]
Pending(t) == [status |-> "pending", t |-> t]
Failed(t)  == [status |-> "failed", t |-> t]
Done(t)    == [status |-> "done", t |-> t, data |-> Taken(t, mem[t.word])]

Result(o) == [error |-> o.status = "failed",
              data  |-> IF o.status = "done" THEN o.data ELSE Zero]

Init ==
  /\ op = None
  /\ mem \in [Words -> Data]
  /\ got = [error |-> FALSE, data |-> Zero]

\* The next transfer enters its data phase, or none does.
Begin == op' = None \/ \E t \in Transfers : op' = Pending(t)

Start == op = None /\ Begin /\ UNCHANGED <<mem, got>>

Perform(t) ==
  mem' = IF t.write THEN [mem EXCEPT ![t.word] = Merge(@, t.data, LanesOf(t))]
                    ELSE mem

\* A device may respond in the cycle in which it performs the transfer.
Finish(o) == \/ op' = o /\ UNCHANGED got
             \/ got' = Result(o) /\ Begin

Succeed == /\ op.status = "pending"
           /\ Perform(op.t)
           /\ Finish(Done(op.t))

Fail == /\ op.status = "pending"
        /\ Finish(Failed(op.t))
        /\ UNCHANGED mem

Respond == /\ op.status \in {"done", "failed"}
           /\ got' = Result(op)
           /\ Begin
           /\ UNCHANGED mem

\* A reset abandons the transfer.
Reset == op' = None /\ UNCHANGED <<mem, got>>

Next == Start \/ Succeed \/ Fail \/ Respond \/ Reset

Spec == Init /\ [][Next]_vars
=============================================================================
