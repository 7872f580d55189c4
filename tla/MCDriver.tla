-------------------------------- MODULE MCDriver ---------------------------------
\* Model values for Driver: caches of one set and a displacement cache that
\* overflows into the main one, and no displacement cache, both with and without
\* an oracle.  The first replaces in round robin; the second asks for a policy that
\* does not exist and leaves the return stack at its default.
EXTENDS Driver

Small == [BTB_MAIN_SIZE |-> 0, BTB_MAIN_WAYS |-> 2, BTB_DISP_SIZE |-> 0,
          BTB_DISP_WAYS |-> 1, BTB_DISP_ENTRIES |-> 4, BTB_WAY_ALGO |-> 0,
          BTB_FUNC_CAP |-> 1]
NoDisp == [BTB_MAIN_SIZE |-> 1, BTB_MAIN_WAYS |-> 1, BTB_DISP_SIZE |-> -1,
           BTB_WAY_ALGO |-> -1]

MCEnvironments ==
    {Small, NoDisp, Small @@ [ORACLE |-> 0], NoDisp @@ [ORACLE |-> 0]}

Inst(addr, next_addr, branch, cond, call, return, taken, target) ==
    [what |-> [instruction_addr |-> addr, instruction_next_addr |-> next_addr,
               is_call |-> call, is_return |-> return],
     dst |-> IF branch THEN 0 ELSE 1, dst_val |-> addr, src_vaddr |-> 0,
     dst_vaddr |-> 0, is_branch |-> branch, is_conditional |-> cond,
     taken |-> taken, branch_target |-> target]

\* An instruction that is no branch; a conditional branch, taken and not; a call
\* backwards, the return of it, and a jump; a return that calls as well.
Op     == Inst(1, 2, FALSE, FALSE, FALSE, FALSE, FALSE, 0)
Taken  == Inst(2, 3, TRUE, TRUE, FALSE, FALSE, TRUE, 4)
Falls  == Inst(2, 3, TRUE, TRUE, FALSE, FALSE, FALSE, 4)
Calls  == Inst(4, 5, TRUE, FALSE, TRUE, FALSE, TRUE, 1)
Back   == Inst(1, 2, TRUE, FALSE, FALSE, TRUE, TRUE, 5)
Both   == Inst(4, 5, TRUE, FALSE, TRUE, TRUE, TRUE, 1)
Jumps  == Inst(6, 7, TRUE, FALSE, FALSE, FALSE, TRUE, 2)

MCInsts == {Op, Taken, Falls, Calls, Back, Jumps}

\* Every trace of three instructions, of four or five branches, and longer ones
\* around the branch that is always taken; short ones of calls and returns, with
\* branches that are both.
MCTraces ==
    UNION {[1..n -> MCInsts] : n \in 0..3}
        \cup UNION {[1..n -> MCInsts \ {Op}] : n \in 4..5}
        \cup [1..6 -> {Taken, Jumps}]
        \cup UNION {[1..n -> {Both, Calls, Back}] : n \in 1..4}
================================================================================
