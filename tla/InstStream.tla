------------------------------- MODULE InstStream --------------------------------
(***************************************************************************)
(* CBP_INST_STREAM (cbp_inst.cc), the compressed trace format.  Every      *)
(* member of an instruction is either predicted from what passed before or *)
(* stands in the record, and a key says which.  write() and read() work    *)
(* through the members in the same order, one put or get function each;    *)
(* they agree only if both sides train the same predictors alike.          *)
(* A record is a run of bytes in a stream without marks: the key comes     *)
(* first and tells the reader how many bytes belong to it.                 *)
(*                                                                         *)
(* A stream object is a record w.  A static description, op, stands for    *)
(* all members of STATIC_INFO but its three addresses; the register        *)
(* specifiers and flags in it are those that steer the coding.             *)
(***************************************************************************)
EXTENDS TracePredictors, Sequences

CONSTANTS
    Sizes,      \* the sizes of the predictors, a record
    Registers,  \* register specifiers; 0 is "no register"
    EmptyOp     \* the op of the default constructors: not a branch

REG_NUL == 0

\* A power of two is positive, and a table's index is hashed into the table.
ASSUME SizesAssumption ==
    /\ \A f \in {"static_info", "stride", "l0", "l1", "vaddr1_l0", "page0", "vaddr1_l1",
                 "page1", "cond_bits", "stack", "ind_bits", "element"} :
            Sizes[f] \in Nat \ {0}
    /\ 2^(Sizes.cond_bits - 1) \in Nat \ {0}
    /\ 2^Sizes.cond_bits = 2 * 2^(Sizes.cond_bits - 1)
    /\ 2^Sizes.ind_bits \in Nat \ {0}
    /\ \A a, b \in 0..(2^Sizes.ind_bits - 1) : BitXor(a, b) \in 0..(2^Sizes.ind_bits - 1)

Ops ==
    [is_branch : BOOLEAN, is_indirect : BOOLEAN, is_conditional : BOOLEAN,
     is_call : BOOLEAN, is_return : BOOLEAN, has_mem_src : BOOLEAN, has_mem_dst : BOOLEAN,
     src1 : Registers, src2 : Registers, dst : Registers]

ASSUME OpAssumption == EmptyOp \in Ops /\ ~EmptyOp.is_branch

\* Variant: no room for the key.
BUFFER_SIZE_NoKey == 48

BUFFER_SIZE == 50

\* The buffer: the offset where the next value goes or comes from, and the values
\* by the offset they begin at.  The writer leaves two bytes of room for the key.
EmptyBuffer == [tail |-> 2, values |-> << >>]

\* STATIC_INFO and CBP_INST.
StaticInfos ==
    [op : Ops, instruction_addr : Word, instruction_next_addr : Word, branch_target : Word]

Instructions ==
    [op : Ops, instruction_addr : Word, instruction_next_addr : Word, branch_target : Word,
     src1_val : Word, src2_val : Word, dst_val : Word, src_vaddr : Word, dst_vaddr : Word,
     taken : BOOLEAN]

EmptyStatic == [op |-> EmptyOp, instruction_addr |-> 0,
                instruction_next_addr |-> 0, branch_target |-> 0]

EmptyInst == [op |-> EmptyOp, instruction_addr |-> 0, instruction_next_addr |-> 0,
              branch_target |-> 0, src1_val |-> 0, src2_val |-> 0, dst_val |-> 0,
              src_vaddr |-> 0, dst_vaddr |-> 0, taken |-> FALSE]

\* The key, byte by byte.  A number is one of the TYPEs of a value, 0 to 2, or 3
\* for READ.  The first byte says whether there is a second one, in two_byte_key.
Keys ==
    [first : [two_byte_key : BOOLEAN, dst_val : 0..3, vaddr1 : 0..3,
              src2_val : BOOLEAN, taken : BOOLEAN, static_info : BOOLEAN],
     second : [instruction_addr : BOOLEAN, branch_target : 0..3, src1_val : BOOLEAN,
               vaddr2 : BOOLEAN]]

EmptyKey == [first |-> [two_byte_key |-> FALSE, dst_val |-> 0, vaddr1 |-> 0,
                        src2_val |-> FALSE, taken |-> FALSE, static_info |-> FALSE],
             second |-> [instruction_addr |-> FALSE, branch_target |-> 0,
                         src1_val |-> FALSE, vaddr2 |-> FALSE]]

NewStream ==
    [ inst |-> EmptyInst,
      static_info |-> 0,        \* where in the cache the last instruction is
      static_info_cache |-> [n \in 0..(Sizes.static_info - 1) |-> EmptyStatic],
      register_file |-> [r \in Registers |-> 0],
      dst_stride |-> NewStridePred(Sizes.stride),
      dst_l0 |-> NewValueCache(Sizes.l0, 1),
      dst_l1 |-> NewValueCache(Sizes.l1, 1),
      vaddr1_stride |-> NewStridePred(Sizes.stride),
      vaddr1_l0 |-> NewValueCache(Sizes.vaddr1_l0, Sizes.page0),
      vaddr1_l1 |-> NewValueCache(Sizes.vaddr1_l1, Sizes.page1),
      taken_pred |-> NewCondPred(Sizes.cond_bits),
      ret_pred |-> NewFiniteStack(Sizes.stack),
      ind_pred |-> NewIndirectPred(Sizes.ind_bits, Sizes.element),
      target_l0 |-> NewValueCache(Sizes.l0, 1),
      target_l1 |-> NewValueCache(Sizes.l1, 1),
      key |-> EmptyKey,
      buffer |-> EmptyBuffer ]

\* What write() and read() leave behind for the next call.
Memory(w) == [w EXCEPT !.key = EmptyKey, !.buffer = EmptyBuffer]

--------------------------------------------------------------------------------
(* Values go into the buffer and come out of it one behind the other.        *)

put_buffer(buffer, bytes, value) ==
    [tail |-> buffer.tail + bytes,
     values |-> [offset \in DOMAIN buffer.values \cup {buffer.tail} |->
                    IF offset = buffer.tail THEN value ELSE buffer.values[offset]]]

\* The value at the tail, and the buffer behind it.
Buffered(buffer) == buffer.values[buffer.tail]
get_buffer(buffer, bytes) == [buffer EXCEPT !.tail = @ + bytes]

\* The four ways to encode a value that has a prediction and two value caches.
ValueType(prediction, l0, l1, v) ==
    IF v = prediction THEN 0
    ELSE IF VcFound(l0, v) THEN 1
    ELSE IF VcFound(l1, v) THEN 2
    ELSE 3

ValuePut(type, l0, l1, v, buffer) ==
    CASE type = 0 -> buffer
      [] type = 1 -> put_buffer(buffer, 1, VcId(l0, v))
      [] type = 2 -> put_buffer(buffer, 2, VcId(l1, v))
      [] type = 3 -> put_buffer(buffer, 4, v)

ValueRead(type, prediction, l0, l1, buffer) ==
    CASE type = 0 -> prediction
      [] type = 1 -> VcValue(l0, Buffered(buffer))
      [] type = 2 -> VcValue(l1, Buffered(buffer))
      [] type = 3 -> Buffered(buffer)

ValuePassed(type, buffer) ==
    CASE type = 0 -> buffer
      [] type = 1 -> get_buffer(buffer, 1)
      [] type = 2 -> get_buffer(buffer, 2)
      [] type = 3 -> get_buffer(buffer, 4)

\* A value that a cache did not give is put into it.
IntoL0(type, l0, v) == IF type >= 1 THEN VcInsert(l0, v) ELSE l0
IntoL1(type, l1, v) == IF type >= 2 THEN VcInsert(l1, v) ELSE l1

\* A value that is predicted or else corrected by a patch of four bytes.
PatchPut(v, prediction, buffer) ==
    IF v = prediction THEN buffer ELSE put_buffer(buffer, 4, BitXor(v, prediction))

Patched(read, prediction, buffer) ==
    IF read THEN BitXor(prediction, Buffered(buffer)) ELSE prediction

PatchPassed(read, buffer) == IF read THEN get_buffer(buffer, 4) ELSE buffer

--------------------------------------------------------------------------------
(* instruction_addr *)

AddrPrediction(w) ==
    IF ~w.inst.op.is_branch
    THEN w.static_info_cache[w.static_info].instruction_next_addr
    ELSE IF w.inst.op.is_conditional /\ ~w.inst.taken
         THEN w.inst.instruction_next_addr
         ELSE w.inst.branch_target

\* The last instruction, unless a branch, learns where its successor is.
Linked(w, addr) ==
    IF w.inst.op.is_branch THEN w.static_info_cache
    ELSE [w.static_info_cache EXCEPT ![w.static_info].instruction_next_addr = addr]

put_instruction_addr(w, out) ==
    LET v == out.instruction_addr
        prediction == AddrPrediction(w)
    IN  [w EXCEPT
            !.inst.instruction_addr = v,
            !.static_info_cache = Linked(w, v),
            !.key.second.instruction_addr = v # prediction,
            !.buffer = PatchPut(v, prediction, @)]

get_instruction_addr(w) ==
    LET read == w.key.second.instruction_addr
        prediction == AddrPrediction(w)
        v == Patched(read, prediction, w.buffer)
    IN  [w EXCEPT
            !.inst.instruction_addr = v,
            !.static_info_cache = Linked(w, v),
            !.buffer = PatchPassed(read, @)]

--------------------------------------------------------------------------------
(* STATIC_INFO *)

\* STATIC_INFO(inst): for a non-branch the successor is a guess.
StaticInfo(inst) ==
    [op |-> inst.op,
     instruction_addr |-> inst.instruction_addr,
     instruction_next_addr |-> IF inst.op.is_branch THEN inst.instruction_next_addr
                               ELSE (inst.instruction_addr + 3) % WORD,
     branch_target |-> IF inst.op.is_indirect THEN 0 ELSE inst.branch_target]

\* operator!=, of the entry in the cache and the one to be written.
Differs(lhs, rhs) ==
    \/ lhs.instruction_addr # rhs.instruction_addr
    \/ lhs.op.is_branch /\ lhs.instruction_next_addr # rhs.instruction_next_addr
    \/ lhs.branch_target # rhs.branch_target
    \/ lhs.op # rhs.op

\* STATIC_INFO::fill: the target of an indirect branch is left as it was.
Filled(inst, static) ==
    [inst EXCEPT
        !.op = static.op,
        !.instruction_addr = static.instruction_addr,
        !.instruction_next_addr = IF static.op.is_branch
                                  THEN static.instruction_next_addr ELSE 0,
        !.branch_target = IF static.op.is_indirect THEN @ ELSE static.branch_target]

StaticIndex(addr) == addr % Sizes.static_info

put_static_info(w, out) ==
    LET n == StaticIndex(out.instruction_addr)
        static == StaticInfo(out)
        changed == Differs(w.static_info_cache[n], static)
    IN  [w EXCEPT
            !.inst = Filled(@, static),
            !.static_info = n,
            !.static_info_cache[n] = IF changed THEN static ELSE @,
            !.key.first.static_info = changed,
            !.buffer = IF changed THEN put_buffer(@, 20, static) ELSE @]

get_static_info(w) ==
    LET n == StaticIndex(w.inst.instruction_addr)
        read == w.key.first.static_info
        static == IF read THEN Buffered(w.buffer) ELSE w.static_info_cache[n]
    IN  [w EXCEPT
            !.inst = Filled(@, static),
            !.static_info = n,
            !.static_info_cache[n] = static,
            !.buffer = IF read THEN get_buffer(@, 20) ELSE @]

--------------------------------------------------------------------------------
(* src1_val and src2_val: predicted by what the register last held. *)

\* Variant: the register is not corrected by the value that is written.
put_src1_val_NoPatch(w, out) ==
    LET held == w.register_file[w.inst.op.src1]
        v == out.src1_val
    IN  [w EXCEPT
            !.inst.src1_val = v,
            !.key.second.src1_val = v # held,
            !.buffer = PatchPut(v, held, @)]

put_src1_val(w, out) ==
    LET held == w.register_file[w.inst.op.src1]
        v == out.src1_val
    IN  [w EXCEPT
            !.inst.src1_val = v,
            !.register_file[w.inst.op.src1] = v,
            !.key.second.src1_val = v # held,
            !.buffer = PatchPut(v, held, @)]

put_src2_val(w, out) ==
    LET held == w.register_file[w.inst.op.src2]
        v == out.src2_val
    IN  [w EXCEPT
            !.inst.src2_val = v,
            !.register_file[w.inst.op.src2] = v,
            !.key.first.src2_val = v # held,
            !.buffer = PatchPut(v, held, @)]

get_src1_val(w) ==
    LET read == w.key.second.src1_val
        v == Patched(read, w.register_file[w.inst.op.src1], w.buffer)
    IN  [w EXCEPT
            !.inst.src1_val = v,
            !.register_file[w.inst.op.src1] = v,
            !.buffer = PatchPassed(read, @)]

get_src2_val(w) ==
    LET read == w.key.first.src2_val
        v == Patched(read, w.register_file[w.inst.op.src2], w.buffer)
    IN  [w EXCEPT
            !.inst.src2_val = v,
            !.register_file[w.inst.op.src2] = v,
            !.buffer = PatchPassed(read, @)]

--------------------------------------------------------------------------------
(* dst_val *)

DstPrediction(w) ==
    IF w.inst.op.dst = REG_NUL THEN 0
    ELSE StridePrediction(w.dst_stride, w.inst.instruction_addr)

\* What either side does with a value it has coded as type.
DstLearnt(w, type, v) ==
    LET dst == w.inst.op.dst IN
    [w EXCEPT
        !.inst.dst_val = v,
        !.register_file[dst] = IF dst = REG_NUL THEN @ ELSE v,
        !.dst_stride = IF dst = REG_NUL THEN @
                       ELSE StrideTrained(@, w.inst.instruction_addr, v),
        !.dst_l0 = IntoL0(type, @, v),
        !.dst_l1 = IntoL1(type, @, v)]

put_dst_val(w, out) ==
    LET v == out.dst_val
        type == ValueType(DstPrediction(w), w.dst_l0, w.dst_l1, v)
    IN  [DstLearnt(w, type, v) EXCEPT
            !.key.first.dst_val = type,
            !.buffer = ValuePut(type, w.dst_l0, w.dst_l1, v, @)]

\* Variant: a value that L1 supplied is not moved up to L0.
get_dst_val_NoFallThrough(w) ==
    LET type == w.key.first.dst_val
        v == ValueRead(type, DstPrediction(w), w.dst_l0, w.dst_l1, w.buffer)
    IN  [DstLearnt(w, type, v) EXCEPT
            !.dst_l0 = IF type = 2 THEN w.dst_l0 ELSE @,
            !.buffer = ValuePassed(type, @)]

get_dst_val(w) ==
    LET type == w.key.first.dst_val
        v == ValueRead(type, DstPrediction(w), w.dst_l0, w.dst_l1, w.buffer)
    IN  [DstLearnt(w, type, v) EXCEPT !.buffer = ValuePassed(type, @)]

--------------------------------------------------------------------------------
(* src_vaddr and dst_vaddr.  The first address an instruction has, vaddr1, is   *)
(* predicted by stride and page; a second one, vaddr2, by the first.            *)

Vaddr1Prediction(w) == StridePrediction(w.vaddr1_stride, w.inst.instruction_addr)

Vaddr1Learnt(w, type, v) ==
    [w EXCEPT
        !.vaddr1_stride = StrideTrained(@, w.inst.instruction_addr, v),
        !.vaddr1_l0 = IntoL0(type, @, v),
        !.vaddr1_l1 = IntoL1(type, @, v)]

put_vaddr1(w, v) ==
    LET type == ValueType(Vaddr1Prediction(w), w.vaddr1_l0, w.vaddr1_l1, v)
    IN  [Vaddr1Learnt(w, type, v) EXCEPT
            !.key.first.vaddr1 = type,
            !.buffer = ValuePut(type, w.vaddr1_l0, w.vaddr1_l1, v, @)]

\* The address got and the stream it was got from.
get_vaddr1(w) ==
    LET type == w.key.first.vaddr1
        v == ValueRead(type, Vaddr1Prediction(w), w.vaddr1_l0, w.vaddr1_l1, w.buffer)
    IN  [v |-> v,
         w |-> [Vaddr1Learnt(w, type, v) EXCEPT !.buffer = ValuePassed(type, @)]]

put_vaddr2(w, v) ==
    [w EXCEPT
        !.key.second.vaddr2 = v # w.inst.src_vaddr,
        !.buffer = PatchPut(v, w.inst.src_vaddr, @)]

get_vaddr2(w) ==
    LET read == w.key.second.vaddr2
    IN  [v |-> Patched(read, w.inst.src_vaddr, w.buffer),
         w |-> [w EXCEPT !.buffer = PatchPassed(read, @)]]

put_src_vaddr(w, out) ==
    LET named == [w EXCEPT !.inst.src_vaddr = out.src_vaddr]
    IN  IF w.inst.op.has_mem_src THEN put_vaddr1(named, out.src_vaddr) ELSE named

get_src_vaddr(w) ==
    LET got == IF w.inst.op.has_mem_src THEN get_vaddr1(w) ELSE [v |-> 0, w |-> w]
    IN  [got.w EXCEPT !.inst.src_vaddr = got.v]

put_dst_vaddr(w, out) ==
    LET named == [w EXCEPT !.inst.dst_vaddr = out.dst_vaddr]
    IN  IF ~w.inst.op.has_mem_dst THEN named
        ELSE IF w.inst.op.has_mem_src THEN put_vaddr2(named, out.dst_vaddr)
        ELSE put_vaddr1(named, out.dst_vaddr)

get_dst_vaddr(w) ==
    LET got == IF ~w.inst.op.has_mem_dst THEN [v |-> 0, w |-> w]
               ELSE IF w.inst.op.has_mem_src THEN get_vaddr2(w)
               ELSE get_vaddr1(w)
    IN  [got.w EXCEPT !.inst.dst_vaddr = got.v]

--------------------------------------------------------------------------------
(* taken *)

TakenPrediction(w) ==
    /\ w.inst.op.is_branch
    /\ w.inst.op.is_conditional => CondPrediction(w.taken_pred, w.inst.instruction_addr)

TakenLearnt(w, taken) ==
    [w EXCEPT
        !.inst.taken = taken,
        !.taken_pred = IF w.inst.op.is_conditional
                       THEN CondTrained(@, w.inst.instruction_addr, taken) ELSE @]

put_taken(w, out) ==
    [TakenLearnt(w, out.taken) EXCEPT !.key.first.taken = TakenPrediction(w) # out.taken]

get_taken(w) == TakenLearnt(w, TakenPrediction(w) # w.key.first.taken)

--------------------------------------------------------------------------------
(* branch_target: put_branch_target assigns the member before it predicts. *)

TargetPrediction(w) ==
    IF ~w.inst.op.is_branch THEN 0
    ELSE IF ~w.inst.op.is_indirect THEN w.inst.branch_target
    ELSE IF w.inst.op.is_return THEN FsTop(w.ret_pred)
    ELSE IndPrediction(w.ind_pred, w.inst.instruction_addr)

\* update_branch_target_predictors; a call that is a return pushes, then pops.
ReturnStack(w) ==
    LET called == IF w.inst.op.is_call
                  THEN FsPushed(w.ret_pred, w.inst.instruction_next_addr)
                  ELSE w.ret_pred
    IN  IF w.inst.op.is_return THEN FsPopped(called) ELSE called

TargetLearnt(w, type, v) ==
    LET op == w.inst.op IN
    [w EXCEPT
        !.inst.branch_target = v,
        !.ret_pred = IF op.is_branch THEN ReturnStack(w) ELSE @,
        !.ind_pred = IF op.is_branch /\ op.is_indirect /\ ~op.is_return
                     THEN IndTrained(@, w.inst.instruction_addr, v) ELSE @,
        !.target_l0 = IntoL0(type, @, v),
        !.target_l1 = IntoL1(type, @, v)]

put_branch_target(w, out) ==
    LET v == out.branch_target
        named == [w EXCEPT !.inst.branch_target = v]
        type == ValueType(TargetPrediction(named), w.target_l0, w.target_l1, v)
    IN  [TargetLearnt(named, type, v) EXCEPT
            !.key.second.branch_target = type,
            !.buffer =
                IF type = 3 THEN put_buffer(@, 4, BitXor(v, w.inst.instruction_addr))
                ELSE ValuePut(type, w.target_l0, w.target_l1, v, @)]

get_branch_target(w) ==
    LET type == w.key.second.branch_target
        v == IF type = 3 THEN BitXor(w.inst.instruction_addr, Buffered(w.buffer))
             ELSE ValueRead(type, TargetPrediction(w), w.target_l0, w.target_l1, w.buffer)
    IN  [TargetLearnt(w, type, v) EXCEPT !.buffer = ValuePassed(type, @)]

--------------------------------------------------------------------------------
(* write().  A cell stands for a byte: <<v>> where v begins, << >> for its      *)
(* further bytes.                                                               *)

\* Where the record begins in the buffer: a key of one byte goes right before the
\* values.
buffer_head(w) == IF w.key.first.two_byte_key THEN 0 ELSE 1

\* The bytes fwrite is given.
Output(w) ==
    [n \in 1..(w.buffer.tail - buffer_head(w)) |->
        LET offset == buffer_head(w) + n - 1 IN
        IF n = 1 THEN <<w.key.first>>
        ELSE IF offset = 1 THEN <<w.key.second>>
        ELSE IF offset \in DOMAIN w.buffer.values THEN <<w.buffer.values[offset]>>
        ELSE << >>]

\* The stream after write(): the puts, and the size of the key.
write(w, out) ==
    LET w1 == put_instruction_addr(Memory(w), out)
        w2 == put_static_info(w1, out)
        w3 == put_src1_val(w2, out)
        w4 == put_src2_val(w3, out)
        w5 == put_dst_val(w4, out)
        w6 == put_src_vaddr(w5, out)
        w7 == put_dst_vaddr(w6, out)
        w8 == put_taken(w7, out)
        w9 == put_branch_target(w8, out)
    IN  [w9 EXCEPT !.key.first.two_byte_key = w9.key.second # EmptyKey.second]

--------------------------------------------------------------------------------
(* read(): the first byte, then what that byte calls for, then, unless the key   *)
(* is that byte alone, what its second byte calls for.                           *)

IfRead(flag, bytes) == IF flag THEN bytes ELSE 0
TypeBytes(type) == CASE type = 0 -> 0 [] type = 1 -> 1 [] type = 2 -> 2 [] type = 3 -> 4

\* Variant: the second byte of the key is not counted.
FirstNeeded_NoKeyByte(first) ==
    TypeBytes(first.dst_val) + TypeBytes(first.vaddr1)
        + IfRead(first.src2_val, 4) + IfRead(first.static_info, 20)

\* bytes_needed for the first byte of the key.
FirstNeeded(first) ==
    IfRead(first.two_byte_key, 1) + TypeBytes(first.dst_val) + TypeBytes(first.vaddr1)
        + IfRead(first.src2_val, 4) + IfRead(first.static_info, 20)

\* bytes_needed for the second byte of the key.
SecondNeeded(second) ==
    IfRead(second.instruction_addr, 4) + TypeBytes(second.branch_target)
        + IfRead(second.src1_val, 4) + IfRead(second.vaddr2, 4)

\* The key at the head of the bytes of the file.
KeyOf(bytes) ==
    LET first == bytes[1][1] IN
    [first |-> first,
     second |-> IF first.two_byte_key THEN bytes[2][1] ELSE EmptyKey.second]

\* How many bytes have been fetched after the second fread, and after the last.
FirstFetch(bytes) == 1 + FirstNeeded(bytes[1][1])

RecordLength(bytes) ==
    LET key == KeyOf(bytes) IN
    FirstFetch(bytes) + IF key.first.two_byte_key THEN SecondNeeded(key.second) ELSE 0

\* No fread comes back short.
Whole(bytes) ==
    /\ Len(bytes) >= 1
    /\ Len(bytes) >= FirstFetch(bytes)
    /\ Len(bytes) >= RecordLength(bytes)

\* The buffer when the get functions begin, behind the key.
Fetched(bytes) ==
    [tail |-> IF KeyOf(bytes).first.two_byte_key THEN 2 ELSE 1,
     values |-> [offset \in {o \in 0..(RecordLength(bytes) - 1) : Len(bytes[o + 1]) = 1} |->
                    bytes[offset + 1][1]]]

\* read() of bytes that begin with a whole record; it returns the member inst.
read(w, bytes) ==
    LET w1 == get_instruction_addr([Memory(w) EXCEPT !.key = KeyOf(bytes),
                                                     !.buffer = Fetched(bytes)])
        w2 == get_static_info(w1)
        w3 == get_src1_val(w2)
        w4 == get_src2_val(w3)
        w5 == get_dst_val(w4)
        w6 == get_src_vaddr(w5)
        w7 == get_dst_vaddr(w6)
        w8 == get_taken(w7)
    IN  get_branch_target(w8)
================================================================================
