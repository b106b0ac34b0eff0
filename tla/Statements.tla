------------------------------ MODULE Statements ------------------------------
(***************************************************************************)
(* The C statements that the modelled programs are composed of.  A program *)
(* is a sequence of instructions; "unless" jumps by n when its condition   *)
(* does not hold.  What an instruction does, and what a condition means,   *)
(* is defined by the module of the program.                                *)
(***************************************************************************)
EXTENDS Integers, Sequences

Do(op)          == <<[op |-> op]>>
Unless(c, n)    == <<[op |-> "unless", cond |-> c, by |-> n]>>
Goto(n)         == <<[op |-> "goto", by |-> n]>>
If(c, body)     == Unless(c, Len(body) + 1) \o body
IfElse(c, a, b) == Unless(c, Len(a) + 2) \o a \o Goto(Len(b) + 1) \o b
While(c, body)  == Unless(c, Len(body) + 2) \o body \o Goto(-(Len(body) + 1))
Repeat(body, c) == body \o Unless(c, -Len(body))           \* until c
Set(v, n)       == <<[op |-> "set", var |-> v, to |-> n]>>
Inc(v)          == <<[op |-> "inc", var |-> v]>>
Var(v, t)       == [var |-> v, is |-> t]
Puts(n)         == <<[op |-> "puts", chars |-> n]>>
Enable(i)       == <<[op |-> "enable", irq |-> i]>>
Disable(i)      == <<[op |-> "disable", irq |-> i]>>
ClearPending(i) == <<[op |-> "clear pending", irq |-> i]>>
Fail            == Do("fail")
=============================================================================
