-------------------------------- MODULE MCTrace ---------------------------------
\* Model values for TraceFile: words of five bits, predictors of a few entries and
\* a ring of two return addresses.  The instructions disagree on every member:
\* two loads at one address, a store and a conditional branch at another, two
\* indirect calls from memory and a return to either of them.
EXTENDS TraceFile, Bitwise

MCXor(a, b) == a ^^ b

MCSizes == [static_info |-> 4, stride |-> 2, l0 |-> 2, l1 |-> 4,
            vaddr1_l0 |-> 2, page0 |-> 2, vaddr1_l1 |-> 2, page1 |-> 4,
            cond_bits |-> 1, stack |-> 2, ind_bits |-> 4, element |-> 4]

Plain == [is_branch |-> FALSE, is_indirect |-> FALSE, is_conditional |-> FALSE,
          is_call |-> FALSE, is_return |-> FALSE, has_mem_src |-> FALSE,
          has_mem_dst |-> FALSE, src1 |-> 0, src2 |-> 0, dst |-> 0]

LoadOp == [Plain EXCEPT !.has_mem_src = TRUE, !.src1 = 1, !.dst = 1]
StoreOp == [Plain EXCEPT !.has_mem_dst = TRUE, !.src1 = 1, !.src2 = 1]
CondOp == [Plain EXCEPT !.is_branch = TRUE, !.is_conditional = TRUE]
CallOp == [Plain EXCEPT !.is_branch = TRUE, !.is_indirect = TRUE, !.is_call = TRUE,
                        !.has_mem_src = TRUE, !.has_mem_dst = TRUE, !.src1 = 1,
                        !.src2 = 2, !.dst = 2]
ReturnOp == [Plain EXCEPT !.is_branch = TRUE, !.is_indirect = TRUE, !.is_return = TRUE]

At(op, addr) == [EmptyInst EXCEPT !.op = op, !.instruction_addr = addr]

Branch(op, addr, next, target, taken) ==
    [At(op, addr) EXCEPT !.instruction_next_addr = next, !.branch_target = target,
                         !.taken = taken]

Load(v, src) ==
    [At(LoadOp, 5) EXCEPT !.src1_val = src, !.src_vaddr = src, !.dst_val = v]

Call(addr, target, v, dst_vaddr) ==
    [Branch(CallOp, addr, addr + 2, target, TRUE) EXCEPT
        !.src1_val = v, !.src2_val = v + 1, !.dst_val = v + 2,
        !.src_vaddr = v + 8, !.dst_vaddr = dst_vaddr]

MCInsts ==
    { Load(9, 4), Load(18, 13),
      [At(StoreOp, 8) EXCEPT !.src1_val = 9, !.src2_val = 18, !.dst_vaddr = 7],
      Branch(CondOp, 8, 10, 5, TRUE), Branch(CondOp, 8, 10, 5, FALSE),
      Call(10, 21, 3, 12), Call(21, 5, 14, 22),
      Branch(ReturnOp, 26, 27, 12, TRUE), Branch(ReturnOp, 26, 27, 23, TRUE) }
================================================================================
