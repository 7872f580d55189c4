-------------------------- MODULE ReturnAddressStack ---------------------------
(***************************************************************************)
(* Class ReturnAddressStack of predictor.cc: a bounded stack of the        *)
(* addresses calls will return to, newest first.  An object is a record    *)
(* ras; its capacity (BTB_FUNC_CAP, 21 by default) is a parameter:         *)
(* negative is unlimited and 0 is no stack at all.                         *)
(***************************************************************************)
EXTENDS Integers, Sequences

\* The objects of the class, for return addresses in addrs and statistics below
\* space.
Stacks(addrs, space) ==
    [callqueue : Seq(addrs), maxsize : 0..(space - 1),
     call_overflow : 0..(space - 1), ret_underflow : 0..(space - 1)]

NewStack ==
    [callqueue |-> << >>, maxsize |-> 0, call_overflow |-> 0, ret_underflow |-> 0]

\* Variant: full is noticed one entry late.
Overflows_Late(capacity, ras) == capacity > 0 /\ Len(ras.callqueue) > capacity

\* A full stack drops its oldest entry to admit a new one.
Overflows(capacity, ras) == capacity > 0 /\ Len(ras.callqueue) >= capacity

\* Variant: a full stack refuses the new address instead.
Call_RefusesWhenFull(capacity, ras, addr, space) ==
    LET size == Len(ras.callqueue) + 1
        counted == (ras.call_overflow + 1) % space
    IN  IF capacity = 0 \/ Overflows(capacity, ras)
        THEN [ras EXCEPT !.call_overflow = counted]
        ELSE [ras EXCEPT
                !.callqueue = <<addr>> \o ras.callqueue,
                !.maxsize = IF size % space > @ THEN size % space ELSE @]

\* Variant: the drop of the oldest entry is not counted.
Call_Uncounted(capacity, ras, addr, space) ==
    LET pushed == <<addr>> \o ras.callqueue
        size == Len(pushed)
    IN  IF capacity = 0
        THEN [ras EXCEPT !.call_overflow = (@ + 1) % space]
        ELSE [ras EXCEPT
                !.callqueue = IF Overflows(capacity, ras)
                              THEN SubSeq(pushed, 1, size - 1) ELSE pushed,
                !.maxsize = IF size % space > @ THEN size % space ELSE @]

\* call(addr).  maxsize is taken from the size before the oldest entry goes.
Call(capacity, ras, addr, space) ==
    LET pushed == <<addr>> \o ras.callqueue
        size == Len(pushed)
        counted == (ras.call_overflow + 1) % space
    IN  IF capacity = 0
        THEN [ras EXCEPT !.call_overflow = counted]
        ELSE [ras EXCEPT
                !.callqueue = IF Overflows(capacity, ras)
                              THEN SubSeq(pushed, 1, size - 1) ELSE pushed,
                !.call_overflow = IF Overflows(capacity, ras) THEN counted ELSE @,
                !.maxsize = IF size % space > @ THEN size % space ELSE @]

\* ret(&addr): TRUE and the newest address, or FALSE on an empty stack.
HasReturn(ras) == ras.callqueue # << >>
ReturnAddress(ras) == Head(ras.callqueue)

Ret(ras, space) ==
    IF HasReturn(ras)
    THEN [ras EXCEPT !.callqueue = Tail(@)]
    ELSE [ras EXCEPT !.ret_underflow = (@ + 1) % space]
================================================================================
