-------------------------------- MODULE OpState ---------------------------------
(***************************************************************************)
(* Classes op_record_c and op_state_c (op_state.h, op_state.cc): the       *)
(* architectural state the predictor may look at.  The last INST_DELAY     *)
(* instructions wait in a ring, op_list, and reach the register file only  *)
(* when the ring comes round to them.  An op_state_c object is a record os *)
(* of its fields.                                                          *)
(*                                                                         *)
(* Of a record's fields the ones kept are those some property tells apart: *)
(* the destination register and value, the two memory addresses, and what, *)
(* standing for all that is copied from the trace unchanged.               *)
(***************************************************************************)
EXTENDS Integers

CONSTANTS
    INST_DELAY,     \* inst_delay and num_ops, both 64
    WORD,           \* number of values of a uint: 2^32
    Regs,           \* register numbers, REG_NUL excluded
    REG_NUL,
    Insts           \* the instructions of traces

ASSUME OpStateAssumption ==
    /\ INST_DELAY \in Nat \ {0}
    /\ WORD \in Nat \ {0}
    /\ WORD % INST_DELAY = 0
    /\ REG_NUL \notin Regs
    /\ \A inst \in Insts : inst.dst \in Regs \cup {REG_NUL}

Slots == 0..(INST_DELAY - 1)

\* op_record_c::init zeroes a record.
EmptyRecord ==
    [is_valid |-> FALSE, clock_time_set |-> 0, what |-> 0, dst |-> REG_NUL,
     dst_val |-> 0, src_vaddr |-> 0, dst_vaddr |-> 0]

NewOpState ==
    [clock |-> 0, op_list_ptr |-> 0,
     op_list |-> [s \in Slots |-> EmptyRecord],
     regs |-> [r \in Regs |-> 0],
     regs_valid |-> [r \in Regs |-> FALSE]]

\* What objects of the two classes hold.
Records ==
    [is_valid : BOOLEAN, clock_time_set : Nat,
     what : {inst.what : inst \in Insts} \cup {0}, dst : Regs \cup {REG_NUL},
     dst_val : {inst.dst_val : inst \in Insts} \cup {0},
     src_vaddr : {inst.src_vaddr : inst \in Insts} \cup {0},
     dst_vaddr : {inst.src_vaddr : inst \in Insts} \cup {0}]

OpStates ==
    [clock : Nat, op_list_ptr : Slots, op_list : [Slots -> Records],
     regs : [Regs -> {inst.dst_val : inst \in Insts} \cup {0}],
     regs_valid : [Regs -> BOOLEAN]]

inc_clock(os) ==
    [os EXCEPT !.clock = @ + 1, !.op_list_ptr = (@ + 1) % INST_DELAY]

\* Variant: available one clock early.
are_values_available_Early(os, op) ==
    op.clock_time_set + INST_DELAY <= os.clock + 1

\* The getters of a record's values assert this.
are_values_available(os, op) == op.clock_time_set + INST_DELAY <= os.clock

\* Variant: counts in the other direction.
get_op_record_Forward(os, op_num) ==
    os.op_list[((os.op_list_ptr + op_num) % WORD) % INST_DELAY]

\* op_num 0 is the most recent record.  The subtraction is of uints.
get_op_record(os, op_num) ==
    os.op_list[((os.op_list_ptr - op_num) % WORD) % INST_DELAY]

\* Variant: stamped with the next clock.
Loaded_StampedLate(inst, clock) ==
    [is_valid |-> TRUE, clock_time_set |-> clock + 1, what |-> inst.what,
     dst |-> inst.dst, dst_val |-> inst.dst_val,
     src_vaddr |-> inst.src_vaddr, dst_vaddr |-> inst.src_vaddr]

\* The record the trace reader fills in for an instruction: every setter stamps
\* the clock, and the address of the memory destination is set from src_vaddr.
Loaded(inst, clock) ==
    [is_valid |-> TRUE, clock_time_set |-> clock, what |-> inst.what,
     dst |-> inst.dst, dst_val |-> inst.dst_val,
     src_vaddr |-> inst.src_vaddr, dst_vaddr |-> inst.src_vaddr]

\* Commit of the record the ring has come round to.
Commit(os, op) ==
    IF op.is_valid /\ op.dst # REG_NUL
    THEN [os EXCEPT !.regs[op.dst] = op.dst_val, !.regs_valid[op.dst] = TRUE]
    ELSE os

\* Variant: commits before the ring has moved on, the newest record.
Turn_CommitsNewest(os, inst) ==
    LET ticked == inc_clock(os)
        committed == Commit(ticked, os.op_list[os.op_list_ptr])
    IN  [committed EXCEPT !.op_list[ticked.op_list_ptr] =
            Loaded(inst, ticked.clock)]

\* One turn of the reader's loop for an instruction just read.
Turn(os, inst) ==
    LET ticked == inc_clock(os)
        committed == Commit(ticked, ticked.op_list[ticked.op_list_ptr])
    IN  [committed EXCEPT !.op_list[ticked.op_list_ptr] =
            Loaded(inst, ticked.clock)]
================================================================================
