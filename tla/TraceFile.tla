------------------------------- MODULE TraceFile --------------------------------
(***************************************************************************)
(* A compressed trace: a program that writes instructions with one         *)
(* CBP_INST_STREAM and a program that reads them back with another (the    *)
(* trace reader of tread.cc).  They share the file only, a stream of       *)
(* bytes.  A failed fwrite leaves the head of a record behind, or nothing; *)
(* the writer, whose predictors have been trained with the instruction     *)
(* already, gives up.  The reader cannot tell part of a record from the    *)
(* end of the trace, and stops.                                            *)
(***************************************************************************)
EXTENDS InstStream

CONSTANTS
    Insts,      \* instructions a trace is made of
    MaxInsts,   \* bound: instructions in a trace
    MaxAhead,   \* bound: records in the file not yet read
    Cuts        \* bound: the bytes an fwrite that fails has put out

\* What STATIC_INFO's constructor and the put functions assert.
Legal(inst) ==
    LET op == inst.op IN
    /\ op.is_indirect \/ op.is_conditional \/ op.is_call \/ op.is_return => op.is_branch
    /\ inst.instruction_next_addr # 0 \/ inst.branch_target # 0 => op.is_branch
    /\ op.is_return => op.is_indirect
    /\ inst.src_vaddr # 0 => op.has_mem_src
    /\ inst.dst_vaddr # 0 => op.has_mem_dst

ASSUME TraceAssumption ==
    /\ Insts \subseteq {inst \in Instructions : Legal(inst)}
    /\ MaxInsts \in Nat /\ MaxAhead \in Nat
    /\ Cuts \subseteq Nat

VARIABLES
    enc,        \* the writer's CBP_INST_STREAM
    file,       \* the bytes not yet read
    dec,        \* the reader's CBP_INST_STREAM
    writer,     \* "open", "closed", or "failed": has write() returned FALSE
    reader,     \* "open" or "closed": has read() returned FALSE
    count,      \* history: instructions written
    unread,     \* history: the instructions whose records are in the file, and the
                \* sizes of these records
    got,        \* history: the last instruction read, the bytes the get functions
                \* used up for it, and what was written
    frames      \* history: return addresses of the calls still open, newest last

vars == <<enc, file, dec, writer, reader, count, unread, got, frames>>

Init ==
    /\ enc = NewStream
    /\ file = << >>
    /\ dec = NewStream
    /\ writer = "open"
    /\ reader = "open"
    /\ count = 0
    /\ unread = << >>
    /\ got = LET nothing == [inst |-> EmptyInst, size |-> 0]
             IN  [read |-> nothing, written |-> nothing]
    /\ frames = << >>

\* A ring of n entries keeps the newest n.
Newest(n, s) == IF Len(s) > n THEN SubSeq(s, Len(s) - n + 1, Len(s)) ELSE s

Called(inst) ==
    IF inst.op.is_call
    THEN Newest(Sizes.stack, Append(frames, inst.instruction_next_addr)) ELSE frames

Returned(inst, open) ==
    IF inst.op.is_return /\ open # << >> THEN SubSeq(open, 1, Len(open) - 1) ELSE open

Write(inst) ==
    /\ writer = "open"
    /\ count < MaxInsts
    /\ Len(unread) < MaxAhead
    /\ enc' = write(enc, inst)
    /\ file' = file \o Output(enc')
    /\ count' = count + 1
    /\ unread' = Append(unread, [inst |-> inst, size |-> Len(Output(enc'))])
    /\ frames' = Returned(inst, Called(inst))
    /\ UNCHANGED <<dec, writer, reader, got>>

WriteFails(inst) ==
    /\ writer = "open"
    /\ count < MaxInsts
    /\ enc' = write(enc, inst)
    /\ \E sent \in Cuts :
          /\ sent < Len(Output(enc'))
          /\ file' = file \o SubSeq(Output(enc'), 1, sent)
    /\ writer' = "failed"
    /\ UNCHANGED <<dec, reader, count, unread, got, frames>>

Close ==
    /\ writer = "open"
    /\ writer' = "closed"
    /\ UNCHANGED <<enc, file, dec, reader, count, unread, got, frames>>

Read ==
    /\ reader = "open"
    /\ Whole(file)
    /\ dec' = read(dec, file)
    /\ file' = SubSeq(file, RecordLength(file) + 1, Len(file))
    /\ unread' = Tail(unread)
    /\ got' = [read |-> [inst |-> dec'.inst, size |-> dec'.buffer.tail],
               written |-> Head(unread)]
    /\ UNCHANGED <<enc, writer, reader, count, frames>>

\* The end of the file, or a record that was cut short: some fread comes back short,
\* after what was left.  The key and buffer it leaves to the next read() are scratch.
ReadFails ==
    /\ reader = "open"
    /\ writer # "open"
    /\ ~Whole(file)
    /\ file' = << >>
    /\ reader' = "closed"
    /\ UNCHANGED <<enc, dec, writer, count, unread, got, frames>>

Next ==
    \/ \E inst \in Insts : Write(inst) \/ WriteFails(inst)
    \/ Close
    \/ Read
    \/ ReadFails

Spec == Init /\ [][Next]_vars

--------------------------------------------------------------------------------
\* The two streams keep their shape: the counters of COND_PRED stay two bits wide,
\* the caches hold first values of pages, every table index stays in its table.
StreamType(w) ==
    w \in [ inst : Instructions,
            static_info : 0..(Sizes.static_info - 1),
            static_info_cache : [0..(Sizes.static_info - 1) -> StaticInfos],
            register_file : [Registers -> Word],
            dst_stride : StridePreds(Sizes.stride),
            dst_l0 : ValueCaches(Sizes.l0, 1),
            dst_l1 : ValueCaches(Sizes.l1, 1),
            vaddr1_stride : StridePreds(Sizes.stride),
            vaddr1_l0 : ValueCaches(Sizes.vaddr1_l0, Sizes.page0),
            vaddr1_l1 : ValueCaches(Sizes.vaddr1_l1, Sizes.page1),
            taken_pred : CondPreds(Sizes.cond_bits),
            ret_pred : FiniteStacks(Sizes.stack),
            ind_pred : IndirectPreds(Sizes.ind_bits, Sizes.element),
            target_l0 : ValueCaches(Sizes.l0, 1),
            target_l1 : ValueCaches(Sizes.l1, 1),
            key : Keys,
            buffer : {w.buffer} ]

TypeOK == StreamType(enc) /\ StreamType(dec)

\* cbp_inst_read returns the instruction cbp_inst_write was given, member by
\* member: the get functions undo the put functions.
RoundTrip == got.read.inst = got.written.inst

\* A reader that has caught up has the same predictors, caches, registers and
\* static descriptions as the writer, so it will decode the next record too.  The
\* write that fails has trained the writer alone.
Mirror == unread = << >> /\ writer # "failed" => Memory(dec) = Memory(enc)

\* The stream of bytes has no marks, so the reader must find every record from its
\* key: read() fetches, in its two or three steps, exactly the bytes write() put out
\* for the next instruction; what a failed write leaves never passes for a record;
\* and the get functions use up what was fetched, no more and no less.
Framing ==
    /\ unread # << >> => Whole(file) /\ RecordLength(file) = Head(unread).size
    /\ unread = << >> => ~Whole(file)
    /\ got.read.size = got.written.size

\* The buffer of BUFFER_SIZE bytes holds the key and whatever the put functions
\* append, on the worst instruction too.
BufferHolds == enc.buffer.tail <= BUFFER_SIZE

\* A return to the newest call still on the FINITE_STACK costs no bytes, however
\* many calls overflowed the ring and however many returns emptied it before.
ReturnsAreFree ==
    [][ \A inst \in Insts :
            Write(inst) /\ inst.op.is_return /\ frames # << >>
                /\ inst.branch_target = frames[Len(frames)]
            => enc'.key.second.branch_target = 0 ]_vars
================================================================================
