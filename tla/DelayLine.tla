------------------------------- MODULE DelayLine --------------------------------
(***************************************************************************)
(* What the architectural state promises: instructions pass, in order,     *)
(* through a delay line of INST_DELAY places, and a register holds the     *)
(* result of the last instruction to have left it.  No ring, clock or      *)
(* pointer: OpState keeps those, and TraceReader implements this.          *)
(***************************************************************************)
EXTENDS Integers, Sequences

CONSTANTS INST_DELAY, Regs, REG_NUL, Insts

VARIABLES
    inflight,   \* the instructions not yet visible, oldest first
    visible     \* register -> << >>, or the value it was last given

vars == <<inflight, visible>>

Init ==
    /\ inflight = << >>
    /\ visible = [r \in Regs |-> << >>]

\* A register takes the result of the instruction that leaves the line.
Result(inst) ==
    IF inst.dst = REG_NUL THEN visible
    ELSE [visible EXCEPT ![inst.dst] = <<inst.dst_val>>]

Enter(inst) ==
    \/ /\ Len(inflight) < INST_DELAY
       /\ inflight' = Append(inflight, inst)
       /\ visible' = visible
    \/ /\ Len(inflight) = INST_DELAY
       /\ inflight' = Append(Tail(inflight), inst)
       /\ visible' = Result(Head(inflight))

Next == \E inst \in Insts : Enter(inst)

Spec == Init /\ [][Next]_vars
================================================================================
