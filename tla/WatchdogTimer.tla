---------------------------- MODULE WatchdogTimer ----------------------------
(***************************************************************************)
(* What the APB watchdog promises its software: a down counter modulo      *)
(* Max + 1 with a lock, a first timeout that raises an interrupt and a     *)
(* second, unserviced one that requests a reset.  There are no clock       *)
(* domains here: a written load value is pending until a tick takes it, an *)
(* interrupt clear is in progress until a tick completes it.  Watchdog.tla *)
(* is shown to implement this.                                             *)
(***************************************************************************)
EXTENDS Integers

CONSTANTS
  Max,     \* the counter counts modulo Max + 1
  Loads    \* values software writes to the load register

VARIABLES
  busy,      \* second cycle of a bus access
  data,      \* what a read returns
  locked,    \* registers are write protected
  control,   \* [inten, resen]
  load,      \* value the counter restarts from
  pending,   \* load was written and the counter has not taken it
  count,
  timeout,   \* the counter has just reached zero
  enabled,   \* inten at the last tick
  clearing,  \* an interrupt clear is in progress
  stopped,   \* halted by a reset request until the next load
  ris,       \* interrupt raised and not serviced
  res        \* reset requested

vars == <<busy, data, locked, control, load, pending, count, timeout, enabled,
          clearing, stopped, ris, res>>

Init ==
  /\ busy = FALSE /\ data = 0
  /\ locked = FALSE
  /\ control = [inten |-> FALSE, resen |-> FALSE]
  /\ load = Max /\ pending = FALSE
  /\ count = Max /\ timeout = FALSE
  /\ enabled = FALSE /\ clearing = FALSE /\ stopped = FALSE
  /\ ris = FALSE /\ res = FALSE

Visible == [VALUE |-> IF pending THEN load ELSE count,
            LOAD  |-> load,
            RIS   |-> IF ris /\ ~clearing THEN 1 ELSE 0,
            MIS   |-> IF ris /\ ~clearing /\ control.inten THEN 1 ELSE 0,
            LOCK  |-> IF locked THEN 1 ELSE 0]

Quiet == [kind |-> "quiet"]   \* no bus clock edge
Idle  == [kind |-> "idle"]    \* bus clock edge that begins no access
Ops ==   {Quiet, Idle, [kind |-> "clear"], [kind |-> "other"]}
  \cup   [kind : {"load"}, value : Loads]
  \cup   [kind : {"ctrl"}, value : [inten : BOOLEAN, resen : BOOLEAN]]
  \cup   [kind : {"lock"}, value : BOOLEAN]
  \cup   [kind : {"read"}, value : DOMAIN Visible]

Writes(op, kind) == op.kind = kind /\ ~locked

\* The bus side of a step.
Bus(op) ==
  /\ op \notin {Quiet, Idle} => ~busy
  /\ busy' = IF op = Quiet THEN busy ELSE op # Idle
  /\ IF op.kind = "other" THEN data' \in 0 .. 3
     ELSE data' = CASE op.kind = "read" -> Visible[op.value]
                    [] op = Quiet       -> data
                    [] OTHER            -> 0
  /\ locked'  = IF op.kind = "lock" THEN ~op.value ELSE locked
  /\ control' = IF Writes(op, "ctrl") THEN op.value ELSE control
  /\ load'    = IF Writes(op, "load") THEN op.value ELSE load

\* The counter side of a step; take: the tick takes the pending load.
Tick(take) ==
  LET halt    == res \/ (~take /\ stopped)
      moves   == (control.inten /\ ~halt) \/ take
      restart == take \/ timeout \/ clearing \/ (control.inten /\ ~enabled)
  IN /\ count'   = CASE ~moves            -> count
                     [] moves /\ restart  -> load
                     [] moves /\ ~restart -> (count + Max) % (Max + 1)
     /\ timeout' = IF moves THEN ~timeout /\ count' = 0 ELSE timeout
     /\ enabled' = control.inten
     /\ stopped' = halt
     /\ ris' = ((timeout \/ ris) /\ ~clearing)
     /\ res' = (control.resen /\ ((ris /\ timeout) \/ res))

NoTick == UNCHANGED <<count, timeout, enabled, stopped, ris, res>>

\* A pending load is taken by the next tick once the access that wrote it is
\* over.  A tick during that access may miss it, or take it and leave it
\* pending, to be taken once more.
TickStep(op, take, keep) ==
  /\ take => pending
  /\ keep => pending /\ busy
  /\ pending => take \/ keep
  /\ Bus(op) /\ Tick(take)
  /\ pending'  = (Writes(op, "load") \/ keep)
  /\ clearing' = IF clearing THEN timeout' ELSE Writes(op, "clear")

BusStep(op) ==
  /\ Bus(op) /\ NoTick
  /\ pending'  = (Writes(op, "load") \/ pending)
  /\ clearing' = (clearing \/ Writes(op, "clear"))

Restart ==
  /\ busy' = FALSE /\ data' = 0
  /\ locked' = FALSE
  /\ control' = [inten |-> FALSE, resen |-> FALSE]
  /\ load' = Max /\ pending' = FALSE
  /\ count' = Max /\ timeout' = FALSE
  /\ enabled' = FALSE /\ clearing' = FALSE /\ stopped' = FALSE
  /\ ris' = FALSE /\ res' = FALSE

Next == \/ \E op \in Ops : BusStep(op)
        \/ \E op \in Ops, take, keep \in BOOLEAN : TickStep(op, take, keep)
        \/ Restart

Spec == Init /\ [][Next]_vars
=============================================================================
