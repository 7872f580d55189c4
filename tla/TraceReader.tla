------------------------------ MODULE TraceReader -------------------------------
(***************************************************************************)
(* Class cbp_trace_reader_c (tread.h, tread.cc), the judge of the contest  *)
(* framework, and the client that calls it.  get_branch_record first       *)
(* scores the prediction made for the previous branch and then reads       *)
(* instructions up to the next branch; predict_branch tucks a prediction   *)
(* away.  One action per step of their control flow:                       *)
(*                                                                         *)
(*   Score         get_branch_record up to its loop                        *)
(*   ReadOp        a turn of the loop, for an instruction not a branch     *)
(*   ReadBranch    the last turn and the return of TRUE                    *)
(*   EndOfTrace    the return of FALSE                                     *)
(*   PredictBranch                                                         *)
(*                                                                         *)
(* The client of main.cc predicts every branch once; the interface leaves  *)
(* it free to predict none or to call again, and the reader handles both.  *)
(* Like main.cc it stops at the first FALSE.                               *)
(***************************************************************************)
EXTENDS OpState, Sequences

CONSTANTS
    Targets,        \* predicted and actual targets
    MaxInsts        \* bound: instructions in a trace

ASSUME ReaderAssumption ==
    /\ MaxInsts \in Nat
    /\ \A inst \in Insts :
        /\ inst.is_branch \in BOOLEAN /\ inst.is_conditional \in BOOLEAN
        /\ inst.taken \in BOOLEAN /\ inst.branch_target \in Targets

VARIABLES
    os,             \* *osptr
    pc,             \* where the client and the reader are
    branch_record,  \* the client's record: is the branch conditional
    truth,          \* is_branch_tkn and branch_target
    prediction,     \* predict_valid and the two copies
    stat,           \* the statistics but stat_num_insts, which equals the clock
    fair            \* history: the score an immediate judge would have kept

vars == <<os, pc, branch_record, truth, prediction, stat, fair>>

Init ==
    /\ os = NewOpState
    /\ pc = "client"
    /\ branch_record = [is_conditional |-> FALSE, what |-> 0]
    /\ truth = [taken |-> FALSE, target |-> 0]
    /\ prediction = [valid |-> FALSE, taken |-> FALSE, target |-> 0]
    /\ stat = [branches |-> 0, cc_branches |-> 0, predicts |-> 0,
               correct_bpredicts |-> 0, correct_tpredicts |-> 0]
    /\ fair = [directions |-> 0, targets |-> 0]

DirectionRight == prediction.taken = truth.taken
TargetRight ==
    /\ DirectionRight
    /\ truth.taken => prediction.target = truth.target

\* A conditional branch counts as predicted even when no prediction was made.
Score ==
    /\ pc = "client"
    /\ stat' =
        IF stat.branches = 0 THEN stat
        ELSE [stat EXCEPT
                !.predicts = IF branch_record.is_conditional THEN @ + 1 ELSE @,
                !.correct_bpredicts =
                    IF prediction.valid /\ branch_record.is_conditional
                       /\ DirectionRight THEN @ + 1 ELSE @,
                !.correct_tpredicts =
                    IF prediction.valid /\ TargetRight THEN @ + 1 ELSE @]
    /\ pc' = "reading"
    /\ UNCHANGED <<os, branch_record, truth, prediction, fair>>

ReadOp(inst) ==
    /\ pc = "reading"
    /\ os.clock < MaxInsts
    /\ ~inst.is_branch
    /\ os' = Turn(os, inst)
    /\ UNCHANGED <<pc, branch_record, truth, prediction, stat, fair>>

ReadBranch(inst) ==
    /\ pc = "reading"
    /\ os.clock < MaxInsts
    /\ inst.is_branch
    /\ os' = Turn(os, inst)
    /\ branch_record' = [is_conditional |-> inst.is_conditional, what |-> inst.what]
    /\ truth' = [taken |-> inst.taken, target |-> inst.branch_target]
    /\ prediction' = [prediction EXCEPT !.valid = FALSE]
    /\ stat' = [stat EXCEPT !.branches = @ + 1,
                            !.cc_branches = IF inst.is_conditional THEN @ + 1 ELSE @]
    /\ pc' = "client"
    /\ UNCHANGED fair

EndOfTrace ==
    /\ pc = "reading"
    /\ pc' = "done"
    /\ UNCHANGED <<os, branch_record, truth, prediction, stat, fair>>

\* Variant: a further call replaces the prediction.
PredictBranch_TakesLast(taken, target) ==
    /\ pc = "client"
    /\ stat.branches > 0
    /\ IF prediction.valid
       THEN /\ prediction' = [valid |-> TRUE, taken |-> taken, target |-> target]
            /\ UNCHANGED fair
       ELSE /\ prediction' = [valid |-> TRUE, taken |-> taken, target |-> target]
            /\ fair' =
                [directions |-> fair.directions +
                    (IF branch_record.is_conditional /\ taken = truth.taken
                     THEN 1 ELSE 0),
                 targets |-> fair.targets +
                    (IF taken = truth.taken /\ (taken => target = truth.target)
                     THEN 1 ELSE 0)]
    /\ UNCHANGED <<os, pc, branch_record, truth, stat>>

\* The first call is kept; a further one is answered and otherwise ignored.
PredictBranch(taken, target) ==
    /\ pc = "client"
    /\ stat.branches > 0
    /\ IF prediction.valid
       THEN UNCHANGED <<prediction, fair>>
       ELSE /\ prediction' = [valid |-> TRUE, taken |-> taken, target |-> target]
            /\ fair' =
                [directions |-> fair.directions +
                    (IF branch_record.is_conditional /\ taken = truth.taken
                     THEN 1 ELSE 0),
                 targets |-> fair.targets +
                    (IF taken = truth.taken /\ (taken => target = truth.target)
                     THEN 1 ELSE 0)]
    /\ UNCHANGED <<os, pc, branch_record, truth, stat>>

Next ==
    \/ Score
    \/ EndOfTrace
    \/ \E inst \in Insts : ReadOp(inst) \/ ReadBranch(inst)
    \/ \E taken \in BOOLEAN, target \in Targets : PredictBranch(taken, target)

Spec == Init /\ [][Next]_vars

--------------------------------------------------------------------------------
(* Properties *)

\* Type correctness.  Counters are bounded by what they count.
TypeOK ==
    /\ os \in OpStates
    /\ os.clock <= MaxInsts
    /\ \A s \in Slots : os.op_list[s].clock_time_set <= os.clock
    /\ pc \in {"client", "reading", "done"}
    /\ branch_record.is_conditional \in BOOLEAN
    /\ truth \in [taken : BOOLEAN, target : Targets \cup {0}]
    /\ prediction \in [valid : BOOLEAN, taken : BOOLEAN, target : Targets \cup {0}]
    /\ stat \in [branches : Nat, cc_branches : Nat, predicts : Nat,
                 correct_bpredicts : Nat, correct_tpredicts : Nat]
    /\ stat.branches <= os.clock
    /\ stat.cc_branches <= stat.branches
    /\ stat.predicts <= stat.cc_branches
    /\ stat.correct_bpredicts <= stat.predicts
    /\ stat.correct_tpredicts <= stat.branches
    /\ fair \in [directions : Nat, targets : Nat]

\* get_op_record(k) really is the record of k instructions ago, across every
\* wrap of the ring and of the subtraction; so a commit, which takes the record
\* of INST_DELAY instructions ago, never trips the assert(0) of get_dst_val.
RecordsAreInOrder ==
    \A k \in Slots :
        LET op == get_op_record(os, k)
        IN  IF k < os.clock
            THEN op.is_valid /\ op.clock_time_set = os.clock - k
            ELSE ~op.is_valid

\* The predictor is never shown a value before its time: no record it can reach
\* through get_op_record has its values available.
NoEarlyValues ==
    \A k \in Slots :
        get_op_record(os, k).is_valid
            => ~are_values_available(os, get_op_record(os, k))

\* Deferred scoring loses and repeats nothing: although a prediction is scored
\* only by the next call, from the client's copy of the record and after a
\* possible second call, the final statistics are those of an immediate judge,
\* the last branch included.
FinalScoreIsFair ==
    pc = "done" =>
        /\ stat.correct_bpredicts = fair.directions
        /\ stat.correct_tpredicts = fair.targets
        /\ stat.predicts = stat.cc_branches

\* The ring, the pointer and the register file behave as a delay line.
Inflight ==
    LET n == IF os.clock < INST_DELAY THEN os.clock ELSE INST_DELAY
    IN  [k \in 1..n |-> CHOOSE inst \in Insts :
            inst.what = get_op_record(os, n - k).what]

Line == INSTANCE DelayLine WITH
            inflight <- Inflight,
            visible <- [r \in Regs |-> IF os.regs_valid[r] THEN <<os.regs[r]>>
                                       ELSE << >>]

ImplementsDelayLine == Line!Spec

\* What the mapping to DelayLine reads an instruction by tells instructions apart.
NamesTellApart == \A a, b \in Insts : a.what = b.what => a = b

\* "if the branch isn't conditional, this function behaves as a NOP"
\* (tread.h:63, of predict_branch).
UnconditionalIsNop ==
    [][ ~branch_record.is_conditional => prediction' = prediction
            \/ pc = "reading" ]_vars

\* "set/get the address for a memory dest" (op_state.h:97): the address a
\* record holds for its memory destination is the instruction's.
DstAddressIsDst ==
    \A k \in Slots :
        LET op == get_op_record(os, k)
        IN  op.is_valid => \E inst \in Insts :
                inst.what = op.what /\ inst.dst_vaddr = op.dst_vaddr
================================================================================
