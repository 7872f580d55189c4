-------------------------------- MODULE MCReader --------------------------------
\* Model values for TraceReader: a ring of four, instructions that write the
\* same register, a conditional branch either way and an unconditional one.  "what"
\* names an instruction, so records can be traced back to it.
EXTENDS TraceReader

Inst(what, dst, val, src, mem, branch, cond, taken, target) ==
    [what |-> what, dst |-> dst, dst_val |-> val, src_vaddr |-> src,
     dst_vaddr |-> mem, is_branch |-> branch, is_conditional |-> cond,
     taken |-> taken, branch_target |-> target]

MCInsts ==
    { Inst(1, 1, 8, 6, 7, FALSE, FALSE, FALSE, 4),
      Inst(2, 0, 0, 0, 0, TRUE, TRUE, TRUE, 4),
      Inst(3, 0, 0, 0, 0, TRUE, TRUE, FALSE, 4),
      Inst(4, 1, 9, 0, 0, TRUE, FALSE, TRUE, 5) }

MCTargets == {4, 5}

ASSUME InstsTellApart == NamesTellApart
================================================================================
